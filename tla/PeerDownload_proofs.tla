------------------------ MODULE PeerDownload_proofs ------------------------
(* Proofs about PeerDownload, for any peers, files, routes and wishes, any     *)
(* pool of ports, and any number of failures, late answers and bad checksums.  *)
EXTENDS PeerDownload, FiniteSetTheorems, SequenceTheorems, WellFoundedInduction, TLAPS

Pending == {"born", "copying"}
Called == {"start", "wait"}

\* A thread knows its file when it has copied it, and then where to answer.
Thread ==
    {t \in [state : States, route : Seq(Peers), file : Files \cup {Absent},
            back : Address \cup {<<>>}, port : Ports \cup {host}] :
       /\ t.state # "born" => t.file \in Files
       /\ t.state \in Called => t.back \in Address
       /\ t.state = "wait" => t.port \in Ports}

Fetch == [state : {"choose", "ripple", "direct"}, file : Files,
          nodes : SUBSET Peers, node : Peers]
Sent == [route : Seq(Peers), file : Files, back : Peers \X Ports]
Request == [to : Peers, route : Seq(Peers), file : Files, back : Peers \X Ports]
Reply == [to : Peers \X Ports, answer : Contents \cup {Empty}]

Types ==
    /\ up \subseteq Peers
    /\ disk \in [Peers -> [Files -> Contents \cup {Absent}]]
    /\ wishes \in [Peers -> Seq(Files)]
    /\ download \in [Peers -> {Idle} \cup Fetch]
    /\ threads \in [Peers -> Seq(Thread)]
    /\ pool \in [Peers -> Seq(Ports)]
    /\ c_data \in [Peers -> {NoData} \cup Sent]
    /\ requests \subseteq Request /\ answers \subseteq Reply
    /\ gaveUp \in [Peers -> SUBSET Files]
    /\ noise \in 0..MaxNoise /\ crashes \in 0..MaxCrashes /\ late \in 0..MaxLate

\* What a thread still has to copy is there.
Handed ==
    \A p \in Peers : \A t \in Threads(p) : t.state \in Pending => c_data[p] \in Sent

\* Nothing of a peer that has failed.
Gone ==
    /\ \A p \in Peers \ up : threads[p] = <<>>
    /\ \A r \in requests : r.to \in up

\* Of the threads s of p at most one answers to Download itself, for the file of
\* the download d.
Hosted(t) == t.state \in Called /\ t.back[2] = host

Calls(p, s, d) ==
    /\ \A i \in DOMAIN s : Hosted(s[i]) =>
         /\ s[i].back = <<p, host>> /\ s[i].file = d.file
         /\ d \in Fetch /\ d.state \in {"ripple", "direct"}
    /\ \A i, j \in DOMAIN s : Hosted(s[i]) /\ Hosted(s[j]) => i = j

\* Each port is in the pool once or with one thread that waits.
PortsOf(s, pl) ==
    /\ \A i, j \in DOMAIN pl : pl[i] = pl[j] => i = j
    /\ \A i \in DOMAIN s, j \in DOMAIN pl : s[i].state = "wait" => pl[j] # s[i].port
    /\ \A i, j \in DOMAIN s :
         s[i].state = "wait" /\ s[j].state = "wait" /\ s[i].port = s[j].port => i = j
    /\ \A k \in Ports :
         \/ \E j \in DOMAIN pl : pl[j] = k
         \/ \E i \in DOMAIN s : s[i].state = "wait" /\ s[i].port = k

TInv ==
    /\ Types /\ Handed /\ Gone
    /\ \A p \in Peers : Calls(p, threads[p], download[p])
    /\ \A p \in up : PortsOf(threads[p], pool[p])

\* Whatever is under way to an address is about the file that is waited for there.
Wanted(b, x) ==
    \A p \in Peers : \A t \in Threads(p) :
        t.state = "wait" /\ b = <<p, t.port>> => t.file = x

Matched(p, t) ==
    /\ t.state \in Called => Wanted(t.back, t.file)
    /\ t.state \in Pending => Wanted(c_data[p].back, c_data[p].file)
    /\ t.state = "copying" => t.file = c_data[p].file

Matching ==
    /\ \A r \in requests : Wanted(r.back, r.file)
    /\ \A m \in answers : m.answer \in Files => Wanted(m.to, m.answer)
    /\ \A p \in Peers : \A t \in Threads(p) : Matched(p, t)

FInv == TInv /\ Matching /\ FileIntegrity

----------------------------------------------------------------------------
(* Sequences of threads, and a pool.                                          *)

\* SequencesExt's RemoveAt takes one element out.
LEMMA RemoveAtType ==
    ASSUME NEW S, NEW q \in Seq(S), NEW i \in DOMAIN q
    PROVE  /\ RemoveAt(q, i) \in Seq(S)
           /\ Len(RemoveAt(q, i)) = Len(q) - 1
           /\ \A k \in DOMAIN RemoveAt(q, i) :
                RemoveAt(q, i)[k] = IF k < i THEN q[k] ELSE q[k + 1]
<1> DEFINE left == SubSeq(q, 1, i - 1)
           right == SubSeq(q, i + 1, Len(q))
<1>1. DOMAIN q = 1..Len(q) /\ Len(q) \in Nat /\ i \in 1..Len(q)
  BY LenProperties
<1>2. /\ left \in Seq(S) /\ Len(left) = i - 1
      /\ \A k \in 1..(i - 1) : left[k] = q[k]
  BY <1>1
<1>3. /\ right \in Seq(S) /\ Len(right) = Len(q) - i
      /\ \A k \in 1..(Len(q) - i) : right[k] = q[k + i]
  BY <1>1
<1> HIDE DEF left, right
<1>4. /\ left \o right \in Seq(S)
      /\ Len(left \o right) = Len(left) + Len(right)
      /\ \A k \in 1..(Len(left) + Len(right)) :
           (left \o right)[k] = IF k <= Len(left) THEN left[k] ELSE right[k - Len(left)]
  BY <1>2, <1>3, ConcatProperties
<1>5. RemoveAt(q, i) = left \o right
  BY DEF RemoveAt, left, right
<1>6. Len(left) + Len(right) = Len(q) - 1
  BY <1>1, <1>2, <1>3
<1>7. ASSUME NEW k \in 1..(Len(q) - 1)
      PROVE  (left \o right)[k] = IF k < i THEN q[k] ELSE q[k + 1]
  <2>1. CASE k < i
    BY <1>1, <1>2, <1>4, <1>6, <2>1
  <2>2. CASE ~(k < i)
    <3>1. k - (i - 1) \in 1..(Len(q) - i) /\ (k - (i - 1)) + i = k + 1
      BY <1>1, <2>2
    <3>2. (left \o right)[k] = right[k - (i - 1)]
      BY <1>1, <1>2, <1>4, <1>6, <2>2
    <3>3. QED
      BY <1>3, <2>2, <3>1, <3>2
  <2>3. QED
    BY <2>1, <2>2
<1>8. QED
  BY <1>1, <1>4, <1>5, <1>6, <1>7, LenProperties

\* The elements that stay, each once.
LEMMA Removed ==
    ASSUME NEW S, NEW q \in Seq(S), NEW i \in DOMAIN q
    PROVE  /\ RemoveAt(q, i) \in Seq(S)
           /\ \A k \in DOMAIN RemoveAt(q, i) :
                LET j == IF k < i THEN k ELSE k + 1
                IN  j \in DOMAIN q \ {i} /\ RemoveAt(q, i)[k] = q[j]
           /\ \A j \in DOMAIN q \ {i} : \E k \in DOMAIN RemoveAt(q, i) :
                j = IF k < i THEN k ELSE k + 1
<1>1. DOMAIN q = 1..Len(q) /\ Len(q) \in Nat /\ i \in 1..Len(q)
  BY LenProperties
<1>2. /\ RemoveAt(q, i) \in Seq(S) /\ DOMAIN RemoveAt(q, i) = 1..(Len(q) - 1)
      /\ \A k \in DOMAIN RemoveAt(q, i) :
           RemoveAt(q, i)[k] = IF k < i THEN q[k] ELSE q[k + 1]
  BY RemoveAtType, LenProperties
<1>3. ASSUME NEW j \in DOMAIN q \ {i}
      PROVE  \E k \in DOMAIN RemoveAt(q, i) : j = IF k < i THEN k ELSE k + 1
  <2>1. CASE j < i
    BY <1>1, <1>2, <2>1
  <2>2. CASE ~(j < i)
    <3>1. j - 1 \in 1..(Len(q) - 1) /\ ~(j - 1 < i) /\ (j - 1) + 1 = j
      BY <1>1, <2>2
    <3>2. QED
      BY <1>2, <3>1
  <2>3. QED
    BY <2>1, <2>2
<1>4. QED
  BY <1>1, <1>2, <1>3

LEMMA Appended ==
    ASSUME NEW S, NEW q \in Seq(S), NEW x \in S
    PROVE  /\ Append(q, x) \in Seq(S)
           /\ DOMAIN Append(q, x) = DOMAIN q \cup {Len(q) + 1}
           /\ Len(q) + 1 \notin DOMAIN q
           /\ \A k \in DOMAIN q : Append(q, x)[k] = q[k]
           /\ Append(q, x)[Len(q) + 1] = x
BY LenProperties, AppendProperties

LEMMA Changed ==
    ASSUME NEW S, NEW q \in Seq(S), NEW i \in DOMAIN q, NEW x \in S
    PROVE  /\ [q EXCEPT ![i] = x] \in Seq(S)
           /\ DOMAIN [q EXCEPT ![i] = x] = DOMAIN q
           /\ [q EXCEPT ![i] = x][i] = x
           /\ \A k \in DOMAIN q \ {i} : [q EXCEPT ![i] = x][k] = q[k]
BY LenProperties, ExceptSeq

LEMMA Tailed ==
    ASSUME NEW S, NEW q \in Seq(S), q # <<>>
    PROVE  /\ Tail(q) \in Seq(S) /\ Head(q) \in S /\ 1 \in DOMAIN q /\ Head(q) = q[1]
           /\ \A k \in DOMAIN Tail(q) : k + 1 \in DOMAIN q /\ Tail(q)[k] = q[k + 1]
           /\ \A j \in DOMAIN q : j = 1 \/ (j - 1 \in DOMAIN Tail(q) /\ Tail(q)[j - 1] = q[j])
           /\ 1 \notin {k + 1 : k \in DOMAIN Tail(q)}
BY LenProperties, HeadTailProperties

----------------------------------------------------------------------------
(* What the steps of threads make of the ports and of the calls of Download.   *)

LEMMA PortsAppend ==
    ASSUME NEW s \in Seq(Thread), NEW pl \in Seq(Ports), PortsOf(s, pl),
           NEW t \in Thread, t.state # "wait"
    PROVE  PortsOf(Append(s, t), pl)
<1> DEFINE s2 == Append(s, t)
           n == Len(s) + 1
<1>1. /\ DOMAIN s2 = DOMAIN s \cup {n} /\ n \notin DOMAIN s
      /\ (\A k \in DOMAIN s : s2[k] = s[k]) /\ s2[n] = t
  BY Appended
<1> HIDE DEF s2, n
<1>2. \A k \in DOMAIN s2 : s2[k].state = "wait" => k \in DOMAIN s /\ s2[k] = s[k]
  BY <1>1
<1>3. \A k \in DOMAIN s : k \in DOMAIN s2 /\ s2[k] = s[k]
  BY <1>1
<1>4. PortsOf(s2, pl)
  BY <1>2, <1>3 DEF PortsOf
<1>5. QED
  BY <1>4 DEF s2

LEMMA PortsChange ==
    ASSUME NEW s \in Seq(Thread), NEW pl \in Seq(Ports), PortsOf(s, pl),
           NEW i \in DOMAIN s, s[i].state # "wait",
           NEW t \in Thread, t.state # "wait"
    PROVE  PortsOf([s EXCEPT ![i] = t], pl)
<1> DEFINE s2 == [s EXCEPT ![i] = t]
<1>1. /\ DOMAIN s2 = DOMAIN s /\ s2[i] = t
      /\ \A k \in DOMAIN s \ {i} : s2[k] = s[k]
  BY Changed
<1> HIDE DEF s2
<1>2. \A k \in DOMAIN s2 : s2[k].state = "wait" => k \in DOMAIN s /\ s2[k] = s[k]
  BY <1>1
<1>3. \A k \in DOMAIN s : s[k].state = "wait" => k \in DOMAIN s2 /\ s2[k] = s[k]
  BY <1>1
<1>4. PortsOf(s2, pl)
  BY <1>2, <1>3 DEF PortsOf
<1>5. QED
  BY <1>4 DEF s2

\* GetPort.
LEMMA PortsTake ==
    ASSUME NEW s \in Seq(Thread), NEW pl \in Seq(Ports), PortsOf(s, pl), pl # <<>>,
           NEW i \in DOMAIN s, s[i].state # "wait",
           NEW t \in Thread, t.state = "wait", t.port = Head(pl)
    PROVE  PortsOf([s EXCEPT ![i] = t], Tail(pl))
<1> DEFINE s2 == [s EXCEPT ![i] = t]
           rest == Tail(pl)
<1>1. /\ DOMAIN s2 = DOMAIN s /\ s2[i] = t
      /\ \A k \in DOMAIN s \ {i} : s2[k] = s[k]
  BY Changed
<1>2. /\ 1 \in DOMAIN pl /\ t.port = pl[1]
      /\ \A k \in DOMAIN rest : k + 1 \in DOMAIN pl /\ rest[k] = pl[k + 1]
      /\ \A j \in DOMAIN pl : j = 1 \/ (j - 1 \in DOMAIN rest /\ rest[j - 1] = pl[j])
      /\ \A k \in DOMAIN rest : k \in Nat \ {0}
  <2>1. rest \in Seq(Ports)
    BY Tailed
  <2>2. \A k \in DOMAIN rest : k \in Nat \ {0}
    BY <2>1, LenProperties
  <2>3. QED
    BY <2>2, Tailed
<1> HIDE DEF s2, rest
<1>3. \A j, k \in DOMAIN rest : rest[j] = rest[k] => j = k
  <2> SUFFICES ASSUME NEW j \in DOMAIN rest, NEW k \in DOMAIN rest, rest[j] = rest[k]
               PROVE  j = k
    OBVIOUS
  <2>1. j + 1 = k + 1
    BY <1>2 DEF PortsOf
  <2>2. QED
    BY <1>2, <2>1
<1>4. \A k \in DOMAIN rest : rest[k] # t.port
  <2> SUFFICES ASSUME NEW k \in DOMAIN rest, rest[k] = t.port
               PROVE  FALSE
    OBVIOUS
  <2>1. k + 1 = 1
    BY <1>2 DEF PortsOf
  <2>2. QED
    BY <1>2, <2>1
<1>5. \A a \in DOMAIN s2, k \in DOMAIN rest : s2[a].state = "wait" => rest[k] # s2[a].port
  <2> SUFFICES ASSUME NEW a \in DOMAIN s2, NEW k \in DOMAIN rest, s2[a].state = "wait"
               PROVE  rest[k] # s2[a].port
    OBVIOUS
  <2>1. CASE a = i
    BY <1>1, <1>4, <2>1
  <2>2. CASE a # i
    <3>1. a \in DOMAIN s /\ s2[a] = s[a]
      BY <1>1, <2>2
    <3>2. k + 1 \in DOMAIN pl /\ rest[k] = pl[k + 1]
      BY <1>2
    <3>3. QED
      BY <3>1, <3>2 DEF PortsOf
  <2>3. QED
    BY <2>1, <2>2
<1>6. \A a, b \in DOMAIN s2 :
        s2[a].state = "wait" /\ s2[b].state = "wait" /\ s2[a].port = s2[b].port => a = b
  BY <1>1, <1>2 DEF PortsOf
<1>7. ASSUME NEW k \in Ports
      PROVE  \/ \E j \in DOMAIN rest : rest[j] = k
             \/ \E a \in DOMAIN s2 : s2[a].state = "wait" /\ s2[a].port = k
  <2>1. CASE \E j \in DOMAIN pl : pl[j] = k
    <3>1. PICK j \in DOMAIN pl : pl[j] = k
      BY <2>1
    <3>2. QED
      BY <1>1, <1>2, <3>1
  <2>2. CASE \E a \in DOMAIN s : s[a].state = "wait" /\ s[a].port = k
    BY <1>1, <2>2
  <2>3. QED
    BY <2>1, <2>2 DEF PortsOf
<1>8. PortsOf(s2, rest)
  BY <1>3, <1>5, <1>6, <1>7 DEF PortsOf
<1>9. QED
  BY <1>8 DEF s2, rest

\* A thread that did not wait returns.
LEMMA PortsRemove ==
    ASSUME NEW s \in Seq(Thread), NEW pl \in Seq(Ports), PortsOf(s, pl),
           NEW i \in DOMAIN s, s[i].state # "wait"
    PROVE  PortsOf(RemoveAt(s, i), pl)
<1> DEFINE s2 == RemoveAt(s, i)
           At(k) == IF k < i THEN k ELSE k + 1
<1>1. /\ \A k \in DOMAIN s2 : At(k) \in DOMAIN s \ {i} /\ s2[k] = s[At(k)]
      /\ \A j \in DOMAIN s \ {i} : \E k \in DOMAIN s2 : j = At(k)
  BY Removed
<1>2. s2 \in Seq(Thread) /\ i \in Int /\ \A k \in DOMAIN s2 : k \in Int
  BY Removed, LenProperties
<1>3. \A a, b \in DOMAIN s2 : At(a) = At(b) => a = b
  BY <1>2
<1> HIDE DEF s2, At
<1>4. \A a, b \in DOMAIN s2 :
        s2[a].state = "wait" /\ s2[b].state = "wait" /\ s2[a].port = s2[b].port => a = b
  BY <1>1, <1>3 DEF PortsOf
<1>5. \A a \in DOMAIN s2, k \in DOMAIN pl : s2[a].state = "wait" => pl[k] # s2[a].port
  BY <1>1 DEF PortsOf
<1>6. \A k \in Ports :
        (\E a \in DOMAIN s : s[a].state = "wait" /\ s[a].port = k) =>
        (\E a \in DOMAIN s2 : s2[a].state = "wait" /\ s2[a].port = k)
  BY <1>1
<1>7. PortsOf(s2, pl)
  BY <1>4, <1>5, <1>6 DEF PortsOf
<1>8. QED
  BY <1>7 DEF s2

\* ReturnPort, and the thread that waited returns.
LEMMA PortsReturn ==
    ASSUME NEW s \in Seq(Thread), NEW pl \in Seq(Ports), PortsOf(s, pl),
           NEW i \in DOMAIN s, s[i].state = "wait", s[i].port \in Ports
    PROVE  PortsOf(RemoveAt(s, i), Append(pl, s[i].port))
<1> DEFINE s2 == RemoveAt(s, i)
           At(k) == IF k < i THEN k ELSE k + 1
           p2 == Append(pl, s[i].port)
           n == Len(pl) + 1
<1>1. /\ \A k \in DOMAIN s2 : At(k) \in DOMAIN s \ {i} /\ s2[k] = s[At(k)]
      /\ \A j \in DOMAIN s \ {i} : \E k \in DOMAIN s2 : j = At(k)
  BY Removed
<1>2. s2 \in Seq(Thread) /\ i \in Int /\ \A k \in DOMAIN s2 : k \in Int
  BY Removed, LenProperties
<1>3. \A a, b \in DOMAIN s2 : At(a) = At(b) => a = b
  BY <1>2
<1>4. /\ DOMAIN p2 = DOMAIN pl \cup {n} /\ n \notin DOMAIN pl
      /\ (\A k \in DOMAIN pl : p2[k] = pl[k]) /\ p2[n] = s[i].port
  BY Appended
<1> HIDE DEF s2, At, p2, n
<1>5. \A a, b \in DOMAIN s2 :
        s2[a].state = "wait" /\ s2[b].state = "wait" /\ s2[a].port = s2[b].port => a = b
  BY <1>1, <1>3 DEF PortsOf
<1>6. \A a \in DOMAIN s2, k \in DOMAIN p2 : s2[a].state = "wait" => p2[k] # s2[a].port
  BY <1>1, <1>4 DEF PortsOf
<1>7. \A j, k \in DOMAIN p2 : p2[j] = p2[k] => j = k
  BY <1>4 DEF PortsOf
<1>8. ASSUME NEW k \in Ports
      PROVE  \/ \E j \in DOMAIN p2 : p2[j] = k
             \/ \E a \in DOMAIN s2 : s2[a].state = "wait" /\ s2[a].port = k
  <2>1. CASE \E j \in DOMAIN pl : pl[j] = k
    BY <1>4, <2>1
  <2>2. CASE \E a \in DOMAIN s : s[a].state = "wait" /\ s[a].port = k
    <3>1. PICK a \in DOMAIN s : s[a].state = "wait" /\ s[a].port = k
      BY <2>2
    <3>2. CASE a = i
      BY <1>4, <3>1, <3>2
    <3>3. CASE a # i
      BY <1>1, <3>1, <3>3
    <3>4. QED
      BY <3>2, <3>3
  <2>3. QED
    BY <2>1, <2>2 DEF PortsOf
<1>9. PortsOf(s2, p2)
  BY <1>5, <1>6, <1>7, <1>8 DEF PortsOf
<1>10. QED
  BY <1>9 DEF s2, p2

\* A thread that does not answer to Download.
LEMMA CallsAppend ==
    ASSUME NEW p, NEW d, NEW s \in Seq(Thread), Calls(p, s, d),
           NEW t \in Thread, ~Hosted(t)
    PROVE  Calls(p, Append(s, t), d)
<1> DEFINE s2 == Append(s, t)
<1>1. \A k \in DOMAIN s2 : Hosted(s2[k]) => k \in DOMAIN s /\ s2[k] = s[k]
  BY Appended
<1> HIDE DEF s2, Hosted
<1>2. Calls(p, s2, d)
  BY <1>1 DEF Calls
<1>3. QED
  BY <1>2 DEF s2

\* Download calls ForwardDownload, when no call of it is under way.
LEMMA CallsNew ==
    ASSUME NEW p, NEW d \in Fetch, NEW s \in Seq(Thread), \A i \in DOMAIN s : ~Hosted(s[i]),
           NEW t \in Thread, t.back = <<p, host>>, t.file = d.file,
           d.state \in {"ripple", "direct"}
    PROVE  Calls(p, Append(s, t), d)
<1> DEFINE s2 == Append(s, t)
           n == Len(s) + 1
<1>1. \A k \in DOMAIN s2 : Hosted(s2[k]) => k = n /\ s2[k] = t
  BY Appended
<1> HIDE DEF s2, Hosted, n
<1>2. Calls(p, s2, d)
  BY <1>1 DEF Calls
<1>3. QED
  BY <1>2 DEF s2

LEMMA CallsChange ==
    ASSUME NEW p, NEW d, NEW s \in Seq(Thread), Calls(p, s, d),
           NEW i \in DOMAIN s, NEW t \in Thread,
           Hosted(t) => Hosted(s[i]) /\ t.back = s[i].back /\ t.file = s[i].file
    PROVE  Calls(p, [s EXCEPT ![i] = t], d)
<1> DEFINE s2 == [s EXCEPT ![i] = t]
<1>1. \A k \in DOMAIN s2 : Hosted(s2[k]) =>
        k \in DOMAIN s /\ Hosted(s[k]) /\ s2[k].back = s[k].back /\ s2[k].file = s[k].file
  BY Changed
<1> HIDE DEF s2, Hosted
<1>2. Calls(p, s2, d)
  BY <1>1 DEF Calls
<1>3. QED
  BY <1>2 DEF s2

\* A thread returns; if it was the one that answers to Download, none is left.
LEMMA CallsRemove ==
    ASSUME NEW p, NEW d, NEW s \in Seq(Thread), Calls(p, s, d), NEW i \in DOMAIN s
    PROVE  /\ Calls(p, RemoveAt(s, i), d)
           /\ Hosted(s[i]) => \A k \in DOMAIN RemoveAt(s, i) : ~Hosted(RemoveAt(s, i)[k])
<1> DEFINE s2 == RemoveAt(s, i)
           At(k) == IF k < i THEN k ELSE k + 1
<1>1. \A k \in DOMAIN s2 : At(k) \in DOMAIN s \ {i} /\ s2[k] = s[At(k)]
  BY Removed
<1>2. s2 \in Seq(Thread) /\ i \in Int /\ \A k \in DOMAIN s2 : k \in Int
  BY Removed, LenProperties
<1>3. \A a, b \in DOMAIN s2 : At(a) = At(b) => a = b
  BY <1>2
<1> HIDE DEF s2, At, Hosted
<1>4. Calls(p, s2, d)
  BY <1>1, <1>3 DEF Calls
<1>5. Hosted(s[i]) => \A k \in DOMAIN s2 : ~Hosted(s2[k])
  BY <1>1 DEF Calls
<1>6. QED
  BY <1>4, <1>5 DEF s2

LEMMA CallsNone ==
    ASSUME NEW p, NEW d, NEW s, \A i \in DOMAIN s : ~Hosted(s[i])
    PROVE  Calls(p, s, d)
BY DEF Calls

----------------------------------------------------------------------------
(* Types.                                                                     *)

\* A step of one peer that runs.
LEMMA OnePeerTypes ==
    ASSUME TInv, NEW p \in up, NEW s \in Seq(Thread), NEW d \in {Idle} \cup Fetch,
           NEW pl \in Seq(Ports),
           threads' = [threads EXCEPT ![p] = s],
           download' = [download EXCEPT ![p] = d],
           pool' = [pool EXCEPT ![p] = pl],
           Calls(p, s, d), PortsOf(s, pl),
           UNCHANGED up, disk' \in [Peers -> [Files -> Contents \cup {Absent}]],
           wishes' \in [Peers -> Seq(Files)],
           c_data' \in [Peers -> {NoData} \cup Sent],
           \A q \in Peers \ {p} : c_data'[q] = c_data[q],
           \A i \in DOMAIN s : s[i].state \in Pending => c_data'[p] \in Sent,
           requests' \subseteq Request, \A r \in requests' : r.to \in up,
           answers' \subseteq Reply, gaveUp' \in [Peers -> SUBSET Files],
           noise' \in 0..MaxNoise, crashes' \in 0..MaxCrashes, late' \in 0..MaxLate
    PROVE  TInv'
<1>1. /\ Types /\ p \in Peers
      /\ \A q \in Peers \ {p} : Calls(q, threads[q], download[q])
      /\ \A q \in up \ {p} : PortsOf(threads[q], pool[q])
      /\ \A q \in Peers \ up : threads[q] = <<>>
      /\ \A q \in Peers \ {p} : \A t \in Threads(q) : t.state \in Pending => c_data[q] \in Sent
      /\ up \subseteq Peers
  BY DEF TInv, Types, Gone, Handed
<1>2. /\ threads'[p] = s /\ download'[p] = d /\ pool'[p] = pl
      /\ \A q \in Peers \ {p} : /\ threads'[q] = threads[q] /\ pool'[q] = pool[q]
                                /\ download'[q] = download[q]
      /\ threads' \in [Peers -> Seq(Thread)] /\ pool' \in [Peers -> Seq(Ports)]
      /\ download' \in [Peers -> {Idle} \cup Fetch]
  BY <1>1 DEF Types
<1>3. Types'
  BY <1>1, <1>2 DEF Types
<1>4. Handed'
  <2>1. \A t \in Threads(p)' : t.state \in Pending => c_data'[p] \in Sent
    BY <1>2 DEF Threads
  <2>2. \A q \in Peers \ {p} : Threads(q)' = Threads(q)
    BY <1>2 DEF Threads
  <2>3. ASSUME NEW q \in Peers, NEW t \in Threads(q)', t.state \in Pending
        PROVE  c_data'[q] \in Sent
    <3>1. CASE q = p
      BY <2>1, <2>3, <3>1
    <3>2. CASE q # p
      <4>1. t \in Threads(q) /\ c_data'[q] = c_data[q]
        BY <2>2, <2>3, <3>2
      <4>2. QED
        BY <1>1, <2>3, <3>2, <4>1
    <3>3. QED
      BY <3>1, <3>2
  <2>4. QED
    BY <2>3 DEF Handed
<1>5. Gone'
  BY <1>1, <1>2 DEF Gone
<1>6. (\A q \in Peers : Calls(q, threads[q], download[q]))'
  <2>1. ASSUME NEW q \in Peers PROVE Calls(q, threads'[q], download'[q])
    <3>1. CASE q = p
      BY <1>2, <3>1
    <3>2. CASE q # p
      BY <1>1, <1>2, <3>2
    <3>3. QED
      BY <3>1, <3>2
  <2>2. QED
    BY <2>1 DEF Calls
<1>7. (\A q \in up : PortsOf(threads[q], pool[q]))'
  <2>1. ASSUME NEW q \in up PROVE PortsOf(threads'[q], pool'[q])
    <3>1. CASE q = p
      BY <1>2, <3>1
    <3>2. CASE q # p
      BY <1>1, <1>2, <3>2
    <3>3. QED
      BY <3>1, <3>2
  <2>2. QED
    BY <2>1 DEF PortsOf
<1>8. QED
  BY <1>3, <1>4, <1>5, <1>6, <1>7 DEF TInv

\* What is known of thread i of p.
LEMMA ThreadTypes ==
    ASSUME TInv, NEW p \in Peers, NEW i \in DOMAIN threads[p]
    PROVE  /\ p \in up /\ threads[p] \in Seq(Thread) /\ threads[p][i] \in Thread
           /\ pool[p] \in Seq(Ports) /\ download[p] \in {Idle} \cup Fetch
           /\ Calls(p, threads[p], download[p]) /\ PortsOf(threads[p], pool[p])
           /\ \A k \in DOMAIN threads[p] :
                threads[p][k].state \in Pending => c_data[p] \in Sent
<1>1. /\ threads[p] \in Seq(Thread) /\ pool[p] \in Seq(Ports)
      /\ download[p] \in {Idle} \cup Fetch
  BY DEF TInv, Types
<1>2. threads[p] # <<>>
  BY <1>1
<1>3. p \in up
  BY <1>2 DEF TInv, Gone
<1>4. \A k \in DOMAIN threads[p] : threads[p][k] \in Thread
  BY <1>1, LenProperties
<1>5. QED
  BY <1>1, <1>3, <1>4 DEF TInv, Handed, Threads

\* What a variable that does not change keeps.
LEMMA SameTypes ==
    ASSUME TInv
    PROVE  /\ UNCHANGED disk => disk' \in [Peers -> [Files -> Contents \cup {Absent}]]
           /\ UNCHANGED wishes => wishes' \in [Peers -> Seq(Files)]
           /\ UNCHANGED c_data => /\ c_data' \in [Peers -> {NoData} \cup Sent]
                                  /\ \A q \in Peers : c_data'[q] = c_data[q]
           /\ UNCHANGED gaveUp => gaveUp' \in [Peers -> SUBSET Files]
           /\ UNCHANGED noise => noise' \in 0..MaxNoise
           /\ UNCHANGED crashes => crashes' \in 0..MaxCrashes
           /\ UNCHANGED late => late' \in 0..MaxLate
           /\ UNCHANGED requests => /\ requests' \subseteq Request
                                    /\ \A r \in requests' : r.to \in up
           /\ UNCHANGED answers => answers' \subseteq Reply
           /\ \A q \in Peers :
                /\ UNCHANGED threads => threads' = [threads EXCEPT ![q] = threads[q]]
                /\ UNCHANGED pool => pool' = [pool EXCEPT ![q] = pool[q]]
                /\ UNCHANGED download => download' = [download EXCEPT ![q] = download[q]]
BY DEF TInv, Types, Gone

LEMMA PeerTypes ==
    ASSUME TInv, NEW p \in up
    PROVE  /\ p \in Peers /\ threads[p] \in Seq(Thread) /\ pool[p] \in Seq(Ports)
           /\ download[p] \in {Idle} \cup Fetch
           /\ Calls(p, threads[p], download[p]) /\ PortsOf(threads[p], pool[p])
           /\ \A k \in DOMAIN threads[p] :
                threads[p][k].state \in Pending => c_data[p] \in Sent
<1>1. p \in Peers
  BY DEF TInv, Types
<1>2. QED
  BY <1>1 DEF TInv, Types, Handed, Threads

\* A download changes that waits for no thread, before and after.
LEMMA DownloadTypes ==
    ASSUME TInv, NEW p \in up, NEW d \in {Idle} \cup Fetch,
           \A i \in DOMAIN threads[p] : ~Hosted(threads[p][i]),
           download' = [download EXCEPT ![p] = d],
           UNCHANGED <<up, disk, threads, pool, c_data, requests, answers, noise,
                       crashes, late>>,
           wishes' \in [Peers -> Seq(Files)], gaveUp' \in [Peers -> SUBSET Files]
    PROVE  TInv'
<1>1. /\ threads[p] \in Seq(Thread) /\ pool[p] \in Seq(Ports) /\ p \in Peers
      /\ PortsOf(threads[p], pool[p])
      /\ \A k \in DOMAIN threads[p] :
           threads[p][k].state \in Pending => c_data[p] \in Sent
  BY PeerTypes
<1>2. Calls(p, threads[p], d)
  BY CallsNone
<1>3. QED
  BY <1>1, <1>2, SameTypes, OnePeerTypes

LEMMA NotHosted ==
    ASSUME TInv, NEW p \in Peers, download[p].state \in {"idle", "choose"}
    PROVE  \A i \in DOMAIN threads[p] : ~Hosted(threads[p][i])
BY DEF TInv, Calls

LEMMA DownloadStarts ==
    ASSUME TInv, NEW p \in Peers, Download(p) \/ GiveUp(p)
    PROVE  TInv'
<1>1. p \in up /\ download[p].state \in {"idle", "choose"}
  BY DEF Download, GiveUp, Doing, Idle
<1>2. \A i \in DOMAIN threads[p] : ~Hosted(threads[p][i])
  BY <1>1, NotHosted
<1>3. CASE Download(p)
  <2> DEFINE d == [state |-> "choose", file |-> Head(wishes[p]),
                   nodes |-> Holders[Head(wishes[p])], node |-> p]
  <2>1. wishes[p] \in Seq(Files) /\ wishes[p] # <<>>
    BY <1>3 DEF Download, TInv, Types
  <2>2. Head(wishes[p]) \in Files /\ Tail(wishes[p]) \in Seq(Files)
    BY <2>1, HeadTailProperties
  <2>3. Holders[Head(wishes[p])] \subseteq Peers
    BY <2>2, DownloadAssumption
  <2>4. d \in Fetch
    BY <2>2, <2>3 DEF Fetch
  <2>5. wishes' \in [Peers -> Seq(Files)]
    BY <1>3, <2>2 DEF Download, TInv, Types
  <2>6. /\ download' = [download EXCEPT ![p] = d]
        /\ UNCHANGED <<up, disk, threads, pool, c_data, requests, answers, noise,
                       crashes, late>>
        /\ gaveUp' = gaveUp
    BY <1>3 DEF Download
  <2> HIDE DEF d
  <2>7. QED
    BY <1>1, <1>2, <2>4, <2>5, <2>6, SameTypes, DownloadTypes
<1>4. CASE GiveUp(p)
  <2>1. download[p] \in Fetch
    BY <1>4 DEF GiveUp, Doing, TInv, Types, Idle
  <2>2. gaveUp' \in [Peers -> SUBSET Files]
    BY <1>4, <2>1 DEF GiveUp, TInv, Types, Fetch
  <2>3. /\ download' = [download EXCEPT ![p] = Idle]
        /\ UNCHANGED <<up, disk, threads, pool, c_data, requests, answers, noise,
                       crashes, late>>
        /\ wishes' = wishes
    BY <1>4 DEF GiveUp
  <2>4. QED
    BY <1>1, <1>2, <2>2, <2>3, SameTypes, DownloadTypes
<1>5. QED
  BY <1>3, <1>4

\* The thread that Download waits for.
Ripple(p, f, route) ==
    [state |-> "start", route |-> route, file |-> f, back |-> <<p, host>>, port |-> host]

LEMMA RippleType ==
    ASSUME NEW p \in Peers, NEW f \in Files, NEW route \in Seq(Peers)
    PROVE  Ripple(p, f, route) \in Thread
BY DEF Ripple, Thread, States, Address, Called

LEMMA AddressesType ==
    ASSUME NEW p \in Peers, NEW n \in Peers
    PROVE  Addresses(p, n) \in Seq(Peers)
<1>1. Route[p][n] \in Seq(Peers)
  BY DownloadAssumption
<1>2. /\ DOMAIN Addresses(p, n) = 1..Len(Route[p][n]) /\ Len(Route[p][n]) \in Nat
      /\ \A k \in 1..Len(Route[p][n]) : Addresses(p, n)[k] \in Peers
  BY <1>1, LenProperties DEF Addresses
<1>3. Addresses(p, n) \in [1..Len(Route[p][n]) -> Peers]
  BY <1>2 DEF Addresses
<1>4. QED
  BY <1>2, <1>3, SeqDef

LEMMA MinLoadTypes ==
    ASSUME TInv, NEW p \in Peers, GetMinLoadNode(p)
    PROVE  TInv'
<1>1. /\ p \in up /\ download[p].state = "choose"
      /\ UNCHANGED <<up, disk, wishes, pool, c_data, requests, answers, gaveUp,
                     noise, crashes, late>>
  BY DEF GetMinLoadNode, Doing
<1>2. \A i \in DOMAIN threads[p] : ~Hosted(threads[p][i])
  BY <1>1, NotHosted
<1>3. download[p] \in Fetch
  BY <1>1 DEF TInv, Types, Idle
<1>4. PICK n \in download[p].nodes :
         IF n = p
         THEN /\ download' = [download EXCEPT ![p].nodes = RemoveNodeInfo(p, n)]
              /\ UNCHANGED threads
         ELSE Call(p, "ripple", n, Addresses(p, n))
  BY DEF GetMinLoadNode
<1>5. n \in Peers /\ download \in [Peers -> {Idle} \cup Fetch]
  BY <1>3 DEF Fetch, TInv, Types
<1>6. CASE n = p
  <2> DEFINE d == [download[p] EXCEPT !.nodes = RemoveNodeInfo(p, n)]
  <2>1. d \in Fetch
    BY <1>3 DEF Fetch, RemoveNodeInfo
  <2>2. download' = [download EXCEPT ![p] = d] /\ UNCHANGED threads
    BY <1>4, <1>5, <1>6
  <2> HIDE DEF d
  <2>3. QED
    BY <1>1, <1>2, <2>1, <2>2, SameTypes, DownloadTypes
<1>7. CASE n # p
  <2> DEFINE d == [download[p] EXCEPT !.state = "ripple", !.node = n]
             t == Ripple(p, download[p].file, Addresses(p, n))
             s == Append(threads[p], t)
  <2>1. d \in Fetch /\ d.state = "ripple" /\ d.file = download[p].file /\ d.file \in Files
    BY <1>3, <1>5 DEF Fetch
  <2>2. Addresses(p, n) \in Seq(Peers)
    BY <1>5, AddressesType
  <2>3. t \in Thread /\ t.back = <<p, host>> /\ t.file = d.file /\ t.state = "start"
    BY <2>1, <2>2, RippleType DEF Ripple
  <2>4. download' = [download EXCEPT ![p] = d] /\ threads' = [threads EXCEPT ![p] = s]
    BY <1>4, <1>5, <1>7 DEF Call, Ripple
  <2>5. /\ threads[p] \in Seq(Thread) /\ pool[p] \in Seq(Ports)
        /\ PortsOf(threads[p], pool[p])
        /\ \A k \in DOMAIN threads[p] :
             threads[p][k].state \in Pending => c_data[p] \in Sent
    BY <1>1, PeerTypes
  <2> HIDE DEF d, t
  <2>6. s \in Seq(Thread) /\ PortsOf(s, pool[p]) /\ Calls(p, s, d)
    BY <1>2, <2>1, <2>3, <2>5, Appended, PortsAppend, CallsNew
  <2>7. \A k \in DOMAIN s : s[k].state \in Pending => c_data[p] \in Sent
    BY <2>3, <2>5, Appended DEF Pending
  <2> HIDE DEF s
  <2>8. QED
    BY <1>1, <2>1, <2>4, <2>5, <2>6, <2>7, SameTypes, OnePeerTypes
<1>8. QED
  BY <1>6, <1>7

\* A thread returns with an answer.
LEMMA ReturnTypes ==
    ASSUME TInv, NEW p \in Peers, NEW i \in DOMAIN threads[p],
           NEW a \in Contents \cup {Empty}, NEW inFlight \in SUBSET answers,
           threads[p][i].state \in Called, Return(p, i, a, inFlight),
           NEW pl \in Seq(Ports), PortsOf(RemoveAt(threads[p], i), pl),
           pool' = [pool EXCEPT ![p] = pl],
           UNCHANGED <<up, wishes, c_data, requests, gaveUp, crashes>>,
           noise' \in 0..MaxNoise, late' \in 0..MaxLate
    PROVE  TInv'
<1> DEFINE t == threads[p][i]
           rest == RemoveAt(threads[p], i)
           again == [t EXCEPT !.state = "start", !.port = host,
                              !.route = <<download[p].node>>]
<1>1. /\ p \in up /\ threads[p] \in Seq(Thread) /\ t \in Thread
      /\ pool[p] \in Seq(Ports) /\ download[p] \in {Idle} \cup Fetch
      /\ Calls(p, threads[p], download[p])
      /\ \A k \in DOMAIN threads[p] :
           threads[p][k].state \in Pending => c_data[p] \in Sent
  BY ThreadTypes
<1>2. /\ rest \in Seq(Thread) /\ Calls(p, rest, download[p])
      /\ Hosted(t) => \A k \in DOMAIN rest : ~Hosted(rest[k])
      /\ \A k \in DOMAIN rest : rest[k].state \in Pending => c_data[p] \in Sent
  BY <1>1, CallsRemove, Removed
<1>3. /\ threads \in [Peers -> Seq(Thread)] /\ download \in [Peers -> {Idle} \cup Fetch]
      /\ disk \in [Peers -> [Files -> Contents \cup {Absent}]] /\ answers \subseteq Reply
  BY DEF TInv, Types
<1>4. CASE t.back[2] = host
  <2>1. /\ Hosted(t) /\ download[p] \in Fetch /\ t.back = <<p, host>>
        /\ t.file = download[p].file
    BY <1>1, <1>4 DEF Hosted, Calls
  <2>2. answers' \subseteq Reply
    BY <1>3, <1>4 DEF Return
  <2>3. ASSUME NEW d \in {Idle} \cup Fetch, download' = [download EXCEPT ![p] = d],
               threads' = [threads EXCEPT ![p] = rest],
               disk' \in [Peers -> [Files -> Contents \cup {Absent}]]
        PROVE  TInv'
    <3>1. Calls(p, rest, d)
      BY <1>2, <2>1, CallsNone
    <3> HIDE DEF rest
    <3>2. QED
      BY <1>1, <1>2, <2>2, <2>3, <3>1, SameTypes, OnePeerTypes DEF rest
  <2>4. threads' = [threads EXCEPT ![p] = rest] /\ Stored(p, a) => TInv'
    <3> HAVE threads' = [threads EXCEPT ![p] = rest] /\ Stored(p, a)
    <3>1. disk' \in [Peers -> [Files -> Contents \cup {Absent}]]
      BY <1>3, <2>1 DEF Stored, Fetch
    <3>2. QED
      BY <2>3, <3>1 DEF Stored
  <2>5. threads' = [threads EXCEPT ![p] = rest] /\ Rejected(p, a) => TInv'
    <3> HAVE threads' = [threads EXCEPT ![p] = rest] /\ Rejected(p, a)
    <3> DEFINE d == [download[p] EXCEPT !.state = "choose"]
    <3>1. d \in Fetch /\ download' = [download EXCEPT ![p] = d]
      BY <1>3, <2>1 DEF Rejected, Fetch
    <3>2. UNCHANGED disk
      BY DEF Rejected
    <3> HIDE DEF d
    <3>3. QED
      BY <2>3, <3>1, <3>2, SameTypes
  <2>6. threads' = [threads EXCEPT ![p] = rest] /\ Switched(p, a) => TInv'
    <3> HAVE threads' = [threads EXCEPT ![p] = rest] /\ Switched(p, a)
    <3> DEFINE d == [download[p] EXCEPT !.state = "choose",
                        !.nodes = RemoveNodeInfo(p, download[p].node)]
    <3>1. d \in Fetch /\ download' = [download EXCEPT ![p] = d]
      BY <1>3, <2>1 DEF Switched, Fetch, RemoveNodeInfo
    <3>2. UNCHANGED disk
      BY DEF Switched
    <3> HIDE DEF d
    <3>3. QED
      BY <2>3, <3>1, <3>2, SameTypes
  <2>7. /\ AskedDirectly(p, a)
        /\ threads' = [[threads EXCEPT ![p] = rest] EXCEPT ![p] = Append(@, again)]
        => TInv'
    <3> HAVE /\ AskedDirectly(p, a)
             /\ threads' = [[threads EXCEPT ![p] = rest] EXCEPT ![p] = Append(@, again)]
    <3> DEFINE d == [download[p] EXCEPT !.state = "direct"]
               s == Append(rest, again)
    <3>1. /\ d \in Fetch /\ d.state = "direct" /\ d.file = download[p].file
          /\ download' = [download EXCEPT ![p] = d] /\ UNCHANGED disk
      BY <1>3, <2>1 DEF AskedDirectly, Fetch
    <3>2. threads' = [threads EXCEPT ![p] = s]
      BY <1>3
    <3>3. <<download[p].node>> \in Seq(Peers)
      BY <2>1 DEF Fetch
    <3>4. /\ again \in Thread /\ again.back = <<p, host>> /\ again.file = d.file
          /\ again.state = "start"
      BY <1>1, <2>1, <3>1, <3>3 DEF Thread, States, Called
    <3> HIDE DEF d, again, rest
    <3>5. s \in Seq(Thread) /\ PortsOf(s, pl) /\ Calls(p, s, d)
      BY <1>2, <2>1, <3>1, <3>4, Appended, PortsAppend, CallsNew DEF rest
    <3>6. \A k \in DOMAIN s : s[k].state \in Pending => c_data[p] \in Sent
      BY <1>2, <3>4, Appended DEF Pending
    <3> HIDE DEF s
    <3>7. QED
      BY <1>1, <2>2, <3>1, <3>2, <3>5, <3>6, SameTypes, OnePeerTypes
  <2>8. QED
    BY <1>4, <2>4, <2>5, <2>6, <2>7 DEF Return
<1>5. CASE t.back[2] # host
  <2>1. /\ threads' = [threads EXCEPT ![p] = rest] /\ UNCHANGED <<disk, download>>
        /\ answers' = IF t.back[1] \in up
                      THEN inFlight \cup {[to |-> t.back, answer |-> a]}
                      ELSE inFlight
    BY <1>5 DEF Return
  <2>2. t.back \in Peers \X Ports
    BY <1>1, <1>5 DEF Thread, Address, Called
  <2>3. answers' \subseteq Reply
    BY <1>3, <2>1, <2>2 DEF Reply
  <2> HIDE DEF rest
  <2>4. QED
    BY <1>1, <1>2, <2>1, <2>3, SameTypes, OnePeerTypes DEF rest
<1>6. QED
  BY <1>4, <1>5

LEMMA FindTypes ==
    ASSUME TInv, NEW p \in Peers, NEW i \in DOMAIN threads[p], FindLocally(p, i)
    PROVE  TInv'
<1> DEFINE t == threads[p][i]
           a == PackFileInfo(p, t.file)
<1>1. /\ threads[p] \in Seq(Thread) /\ t \in Thread /\ pool[p] \in Seq(Ports)
      /\ PortsOf(threads[p], pool[p])
  BY ThreadTypes
<1>2. /\ t.state = "start" /\ Return(p, i, a, answers)
      /\ UNCHANGED <<up, wishes, pool, c_data, requests, gaveUp, noise, crashes, late>>
  BY DEF FindLocally
<1>3. a \in Contents \cup {Empty}
  BY <1>1, <1>2 DEF PackFileInfo, Thread, TInv, Types
<1>4. PortsOf(RemoveAt(threads[p], i), pool[p])
  BY <1>1, <1>2, PortsRemove
<1>5. t.state \in Called /\ answers \in SUBSET answers
  BY <1>2 DEF Called
<1> HIDE DEF a
<1>6. QED
  BY <1>1, <1>2, <1>3, <1>4, <1>5, ReturnTypes, SameTypes

LEMMA ForwardTypes ==
    ASSUME TInv, NEW p \in Peers, NEW i \in DOMAIN threads[p], Forward(p, i)
    PROVE  TInv'
<1> DEFINE t == threads[p][i]
           k == Head(pool[p])
           t2 == [t EXCEPT !.state = "wait", !.port = k]
           s == [threads[p] EXCEPT ![i] = t2]
<1>1. /\ p \in up /\ threads[p] \in Seq(Thread) /\ t \in Thread /\ pool[p] \in Seq(Ports)
      /\ download[p] \in {Idle} \cup Fetch
      /\ PortsOf(threads[p], pool[p]) /\ Calls(p, threads[p], download[p])
      /\ \A j \in DOMAIN threads[p] :
           threads[p][j].state \in Pending => c_data[p] \in Sent
  BY ThreadTypes
<1>2. /\ t.state = "start" /\ t.route # <<>> /\ pool[p] # <<>>
      /\ pool' = [pool EXCEPT ![p] = Tail(pool[p])]
      /\ UNCHANGED <<up, disk, wishes, download, c_data, answers, gaveUp,
                     noise, crashes, late>>
      /\ threads \in [Peers -> Seq(Thread)]
  BY DEF Forward, TInv, Types
<1>3. threads' = [threads EXCEPT ![p] = s]
  BY <1>1, <1>2 DEF Forward
<1>4. k \in Ports /\ Tail(pool[p]) \in Seq(Ports)
  BY <1>1, <1>2, Tailed
<1>5. /\ t2 \in Thread /\ t2.state = "wait" /\ t2.port = k /\ t2.back = t.back
      /\ t2.file = t.file
  BY <1>1, <1>2, <1>4 DEF Thread, States, Called
<1>6. /\ s \in Seq(Thread) /\ PortsOf(s, Tail(pool[p]))
      /\ Calls(p, s, download[p])
  <2>1. Hosted(t2) => Hosted(t)
    BY <1>2, <1>5 DEF Hosted, Called
  <2>2. t.state # "wait"
    BY <1>2
  <2> HIDE DEF t2
  <2>3. QED
    BY <1>1, <1>2, <1>5, <2>1, <2>2, Changed, PortsTake, CallsChange
<1>7. \A j \in DOMAIN s : s[j].state \in Pending => c_data[p] \in Sent
  <2> HIDE DEF t2
  <2>1. QED
    BY <1>1, <1>5, Changed DEF Pending
<1>8. requests' \subseteq Request /\ \A r \in requests' : r.to \in up
  <2> DEFINE new == [to |-> Head(t.route), route |-> Tail(t.route), file |-> t.file,
                     back |-> <<p, k>>]
  <2>1. requests' = IF Head(t.route) \in up THEN requests \cup {new} ELSE requests
    BY DEF Forward
  <2>2. t.route \in Seq(Peers) /\ t.file \in Files
    BY <1>1, <1>2 DEF Thread
  <2>3. Head(t.route) \in Peers /\ Tail(t.route) \in Seq(Peers)
    BY <1>2, <2>2, HeadTailProperties
  <2>4. new \in Request /\ new.to = Head(t.route)
    BY <1>4, <2>2, <2>3 DEF Request
  <2>5. requests \subseteq Request /\ \A r \in requests : r.to \in up
    BY DEF TInv, Types, Gone
  <2> HIDE DEF new
  <2>6. QED
    BY <2>1, <2>4, <2>5
<1> HIDE DEF s, t2, k
<1>9. QED
  BY <1>1, <1>2, <1>3, <1>4, <1>6, <1>7, <1>8, SameTypes, OnePeerTypes

LEMMA EndsTypes ==
    ASSUME TInv, NEW p \in Peers, Ends(p), UNCHANGED <<disk, wishes, pool, c_data, gaveUp>>,
           noise' \in 0..MaxNoise, crashes' \in 0..MaxCrashes, late' \in 0..MaxLate
    PROVE  TInv'
<1>1. /\ up' = up \ {p} /\ requests' = {r \in requests : r.to # p} /\ answers' \subseteq answers
      /\ threads' = [threads EXCEPT ![p] = <<>>]
      /\ download' = [download EXCEPT ![p] = Idle]
  BY DEF Ends
<1>2. Types /\ Gone /\ up \subseteq Peers
  BY DEF TInv, Types
<1>3. /\ threads'[p] = <<>> /\ threads' \in [Peers -> Seq(Thread)]
      /\ download' \in [Peers -> {Idle} \cup Fetch]
      /\ \A q \in Peers \ {p} : threads'[q] = threads[q] /\ download'[q] = download[q]
      /\ UNCHANGED pool
  BY <1>1, <1>2 DEF Types
<1>4. Types'
  BY <1>1, <1>2, <1>3 DEF Types
<1>5. Handed'
  <2>1. ASSUME NEW q \in Peers, NEW t \in Threads(q)', t.state \in Pending
        PROVE  c_data'[q] \in Sent
    <3>1. q # p /\ t \in Threads(q)
      BY <1>3, <2>1 DEF Threads
    <3>2. QED
      BY <2>1, <3>1 DEF TInv, Handed
  <2>2. QED
    BY <2>1 DEF Handed
<1>6. Gone'
  BY <1>1, <1>2, <1>3 DEF Gone
<1>7. (\A q \in Peers : Calls(q, threads[q], download[q]))'
  <2>1. ASSUME NEW q \in Peers PROVE Calls(q, threads'[q], download'[q])
    <3>1. CASE q = p
      BY <1>3, <3>1 DEF Calls
    <3>2. CASE q # p
      BY <1>3, <3>2 DEF TInv
    <3>3. QED
      BY <3>1, <3>2
  <2>2. QED
    BY <2>1 DEF Calls
<1>8. (\A q \in up : PortsOf(threads[q], pool[q]))'
  <2>1. \A q \in up' : PortsOf(threads'[q], pool'[q])
    BY <1>1, <1>2, <1>3 DEF TInv
  <2>2. QED
    BY <2>1 DEF PortsOf
<1>9. QED
  BY <1>4, <1>5, <1>6, <1>7, <1>8 DEF TInv

LEMMA NoisyTypes ==
    ASSUME TInv, NEW p \in Peers, NEW i \in DOMAIN threads[p],
           threads[p][i].state = "wait",
           NEW a \in Contents \cup {Empty}, NEW inFlight \in SUBSET answers,
           MayBeNoisy(p, i, a, inFlight), late' \in 0..MaxLate
    PROVE  TInv'
<1> DEFINE pl == ReturnPort(p, threads[p][i].port)
<1>1. /\ threads[p] \in Seq(Thread) /\ threads[p][i] \in Thread /\ pool[p] \in Seq(Ports)
      /\ PortsOf(threads[p], pool[p])
  BY ThreadTypes
<1>2. threads[p][i].port \in Ports
  BY <1>1 DEF Thread
<1>3. pl \in Seq(Ports) /\ PortsOf(RemoveAt(threads[p], i), pl)
  BY <1>1, <1>2, PortsReturn, Appended DEF ReturnPort
<1>4. UNCHANGED <<wishes, c_data, gaveUp, crashes>>
  BY DEF MayBeNoisy
<1>5. noise' \in 0..MaxNoise
  BY DownloadAssumption DEF MayBeNoisy, TInv, Types
<1>6. ASSUME NEW b \in Contents \cup {Empty}, Received(p, i, b, inFlight)
      PROVE  TInv'
  <2>1. /\ pool' = [pool EXCEPT ![p] = pl] /\ Return(p, i, b, inFlight)
        /\ UNCHANGED <<up, requests>> /\ threads[p][i].state \in Called
    BY <1>6 DEF Received, Called
  <2> HIDE DEF pl
  <2>2. QED
    BY <1>3, <1>4, <1>5, <1>6, <2>1, ReturnTypes
<1>7. CASE Ends(p) /\ UNCHANGED <<pool, disk>>
  BY <1>4, <1>5, <1>7, SameTypes, EndsTypes
<1>8. Spoilt \in Contents
  BY DEF Contents
<1>9. QED
  BY <1>6, <1>7, <1>8 DEF MayBeNoisy

LEMMA WaitTypes ==
    ASSUME TInv, NEW p \in Peers, NEW i \in DOMAIN threads[p],
           Timeout(p, i) \/ \E m \in answers : Receive(p, i, m)
    PROVE  TInv'
<1>1. CASE Timeout(p, i)
  <2>1. late' \in 0..MaxLate
    BY <1>1, DownloadAssumption DEF Timeout, TInv, Types
  <2>2. /\ threads[p][i].state = "wait" /\ MayBeNoisy(p, i, Empty, answers)
        /\ answers \in SUBSET answers /\ Empty \in Contents \cup {Empty}
    BY <1>1 DEF Timeout
  <2>3. QED
    BY <2>1, <2>2, NoisyTypes
<1>2. CASE \E m \in answers : Receive(p, i, m)
  <2>1. PICK m \in answers : Receive(p, i, m)
    BY <1>2
  <2>2. m \in Reply /\ late' \in 0..MaxLate
    BY <2>1 DEF Receive, TInv, Types
  <2>3. /\ threads[p][i].state = "wait" /\ MayBeNoisy(p, i, m.answer, answers \ {m})
        /\ answers \ {m} \in SUBSET answers /\ m.answer \in Contents \cup {Empty}
    BY <2>1, <2>2 DEF Receive, Reply
  <2>4. QED
    BY <2>2, <2>3, NoisyTypes
<1>3. QED
  BY <1>1, <1>2

LEMMA ListenTypes ==
    ASSUME TInv, NEW r \in requests, Listen(r)
    PROVE  TInv'
<1> DEFINE p == r.to
           s == Append(threads[p], Born)
           data == [route |-> r.route, file |-> r.file, back |-> r.back]
<1>1. r \in Request /\ p \in up /\ requests \subseteq Request
  BY DEF TInv, Types, Gone
<1>2. /\ p \in Peers /\ threads[p] \in Seq(Thread) /\ pool[p] \in Seq(Ports)
      /\ download[p] \in {Idle} \cup Fetch
      /\ Calls(p, threads[p], download[p]) /\ PortsOf(threads[p], pool[p])
  BY <1>1, PeerTypes
<1>3. /\ requests' \subseteq requests
      /\ c_data' = [c_data EXCEPT ![p] = data]
      /\ threads' = [threads EXCEPT ![p] = s]
      /\ UNCHANGED <<up, disk, wishes, download, pool, answers, gaveUp, noise,
                     crashes, late>>
  BY DEF Listen
<1>4. data \in Sent
  BY <1>1 DEF Sent, Request
<1>5. c_data' \in [Peers -> {NoData} \cup Sent] /\ c_data'[p] = data
      /\ \A q \in Peers \ {p} : c_data'[q] = c_data[q]
  BY <1>2, <1>3, <1>4 DEF TInv, Types
<1>6. Born \in Thread /\ Born.state = "born" /\ ~Hosted(Born)
  <2>1. <<>> \in Seq(Peers)
    BY EmptySeq
  <2>2. QED
    BY <2>1 DEF Born, Thread, States, Called, Hosted
<1>7. s \in Seq(Thread) /\ PortsOf(s, pool[p]) /\ Calls(p, s, download[p])
  <2> HIDE DEF Born
  <2>1. QED
    BY <1>2, <1>6, Appended, PortsAppend, CallsAppend DEF Hosted, Called
<1>8. \A q \in requests' : q.to \in up
  BY <1>3 DEF TInv, Gone
<1> HIDE DEF s, p, data
<1>9. /\ download' = [download EXCEPT ![p] = download[p]]
      /\ pool' = [pool EXCEPT ![p] = pool[p]] /\ UNCHANGED up
      /\ disk' \in [Peers -> [Files -> Contents \cup {Absent}]]
      /\ wishes' \in [Peers -> Seq(Files)] /\ answers' \subseteq Reply
      /\ gaveUp' \in [Peers -> SUBSET Files] /\ noise' \in 0..MaxNoise
      /\ crashes' \in 0..MaxCrashes /\ late' \in 0..MaxLate
  BY <1>2, <1>3, SameTypes
<1>10. requests' \subseteq Request /\ c_data'[p] \in Sent
  BY <1>1, <1>3, <1>4, <1>5
<1>11. QED
  BY <1>1, <1>2, <1>3, <1>5, <1>7, <1>8, <1>9, <1>10, OnePeerTypes

LEMMA CopyTypes ==
    ASSUME TInv, NEW p \in Peers, NEW i \in DOMAIN threads[p],
           CopyRequest(p, i) \/ CopyBack(p, i)
    PROVE  TInv'
<1> DEFINE t == threads[p][i]
<1>1. /\ p \in up /\ threads[p] \in Seq(Thread) /\ t \in Thread /\ pool[p] \in Seq(Ports)
      /\ download[p] \in {Idle} \cup Fetch
      /\ PortsOf(threads[p], pool[p]) /\ Calls(p, threads[p], download[p])
      /\ \A j \in DOMAIN threads[p] :
           threads[p][j].state \in Pending => c_data[p] \in Sent
  BY ThreadTypes
<1>2. /\ UNCHANGED <<up, disk, wishes, download, pool, c_data, requests, answers,
                     gaveUp, noise, crashes, late>>
      /\ threads \in [Peers -> Seq(Thread)] /\ t.state \in Pending
  BY DEF CopyRequest, CopyBack, TInv, Types, Pending
<1>3. c_data[p] \in Sent
  BY <1>1, <1>2
<1>4. PICK t2 \in Thread : /\ threads' = [threads EXCEPT ![p] = [threads[p] EXCEPT ![i] = t2]]
                           /\ t2.state # "wait" /\ ~Hosted(t2)
  <2>1. CASE CopyRequest(p, i)
    <3> DEFINE t2 == [t EXCEPT !.state = "copying", !.route = c_data[p].route,
                               !.file = c_data[p].file]
    <3>1. threads' = [threads EXCEPT ![p] = [threads[p] EXCEPT ![i] = t2]]
      BY <1>1, <1>2, <2>1 DEF CopyRequest
    <3>2. t2 \in Thread /\ t2.state = "copying"
      BY <1>1, <1>3, <2>1 DEF CopyRequest, Thread, Sent, States, Called
    <3> HIDE DEF t2
    <3>3. QED
      BY <3>1, <3>2 DEF Hosted, Called
  <2>2. CASE CopyBack(p, i)
    <3> DEFINE t2 == [t EXCEPT !.state = "start", !.back = c_data[p].back]
    <3>1. threads' = [threads EXCEPT ![p] = [threads[p] EXCEPT ![i] = t2]]
      BY <1>1, <1>2, <2>2 DEF CopyBack
    <3>2. c_data[p].back \in Peers \X Ports
      BY <1>3 DEF Sent
    <3>3. t2 \in Thread /\ t2.state = "start" /\ t2.back = c_data[p].back
      BY <1>1, <2>2, <3>2 DEF CopyBack, Thread, States, Called, Address
    <3>4. c_data[p].back[2] # host
      BY <3>2 DEF Ports, host
    <3> HIDE DEF t2
    <3>5. QED
      BY <3>1, <3>3, <3>4 DEF Hosted
  <2>3. QED
    BY <2>1, <2>2
<1> DEFINE s == [threads[p] EXCEPT ![i] = t2]
<1>5. s \in Seq(Thread) /\ PortsOf(s, pool[p]) /\ Calls(p, s, download[p])
  <2>1. t.state # "wait"
    BY <1>2 DEF Pending
  <2>2. QED
    BY <1>1, <1>4, <2>1, Changed, PortsChange, CallsChange
<1> HIDE DEF s
<1>6. QED
  BY <1>1, <1>2, <1>3, <1>4, <1>5, SameTypes, OnePeerTypes DEF s

LEMMA TypesKept ==
    ASSUME TInv, [Next]_vars
    PROVE  TInv'
<1>1. CASE \E p \in Peers : Download(p) \/ GetMinLoadNode(p) \/ GiveUp(p)
  BY <1>1, DownloadStarts, MinLoadTypes
<1>2. CASE \E p \in Peers : \E i \in DOMAIN threads[p] : ThreadStep(p, i) \/ Timeout(p, i)
  BY <1>2, FindTypes, ForwardTypes, CopyTypes, WaitTypes DEF ThreadStep
<1>3. CASE \E r \in requests : Listen(r)
  BY <1>3, ListenTypes
<1>4. CASE \E p \in Peers : Crash(p)
  <2>1. PICK p \in Peers : Crash(p)
    BY <1>4
  <2>2. crashes' \in 0..MaxCrashes
    BY <2>1, DownloadAssumption DEF Crash, TInv, Types
  <2>3. QED
    BY <2>1, <2>2, SameTypes, EndsTypes DEF Crash
<1>5. CASE (\E m \in answers : Discard(m)) \/ UNCHANGED vars
  <2>1. /\ UNCHANGED <<up, disk, wishes, download, threads, pool, c_data, requests,
                       gaveUp, noise, crashes, late>>
        /\ answers' \subseteq answers
    BY <1>5 DEF Discard, vars
  <2>2. Types' /\ Handed' /\ Gone'
    BY <2>1 DEF TInv, Types, Handed, Gone, Threads
  <2>3. (\A p \in Peers : Calls(p, threads[p], download[p]))'
    BY <2>1 DEF TInv, Calls
  <2>4. (\A p \in up : PortsOf(threads[p], pool[p]))'
    BY <2>1 DEF TInv, PortsOf
  <2>5. QED
    BY <2>2, <2>3, <2>4 DEF TInv
<1>6. QED
  BY <1>1, <1>2, <1>3, <1>4, <1>5 DEF Next, PeerStep

----------------------------------------------------------------------------
LEMMA UpTo ==
    ASSUME NEW n \in Nat
    PROVE  IsFiniteSet(1..n) /\ Cardinality(1..n) = n
<1>1. 1 \in Int /\ n \in Int /\ n - 1 + 1 = n /\ (1 > n => n = 0)
  OBVIOUS
<1>2. QED
  BY <1>1, FS_Interval

\* The ports of the pool and those that are waited on are all the ports.
LEMMA PortsCounted ==
    ASSUME NEW s \in Seq(Thread), NEW pl \in Seq(Ports), PortsOf(s, pl),
           NEW W, W = {i \in DOMAIN s : s[i].state = "wait"}
    PROVE  /\ Len(pl) + Cardinality(W) = PoolSize
           /\ Ports = {s[i].port : i \in W} \cup {pl[i] : i \in DOMAIN pl}
<1> DEFINE A == {pl[i] : i \in DOMAIN pl}
           B == {s[i].port : i \in W}
           held == [i \in W |-> s[i].port]
<1>1. /\ DOMAIN pl = 1..Len(pl) /\ Len(pl) \in Nat /\ pl \in [1..Len(pl) -> Ports]
      /\ DOMAIN s = 1..Len(s) /\ Len(s) \in Nat
  BY LenProperties
<1>2. \A i \in W : i \in DOMAIN s /\ s[i].state = "wait" /\ s[i].port \in Ports
  <2>1. \A i \in DOMAIN s : s[i] \in Thread
    BY LenProperties
  <2>2. QED
    BY <2>1 DEF Thread
<1>3. A \cup B = Ports /\ A \cap B = {}
  <2>1. \A i \in DOMAIN pl : pl[i] \in Ports
    BY <1>1
  <2>2. QED
    BY <1>2, <2>1 DEF PortsOf
<1>4. IsFiniteSet(A) /\ Cardinality(A) = Len(pl)
  <2>1. pl \in Bijection(1..Len(pl), A)
    BY <1>1 DEF PortsOf, Bijection, Injection, Surjection, IsInjective
  <2>2. ExistsBijection(1..Len(pl), A)
    BY <2>1 DEF ExistsBijection
  <2>3. IsFiniteSet(1..Len(pl)) /\ Cardinality(1..Len(pl)) = Len(pl)
    BY <1>1, UpTo
  <2>4. QED
    BY <2>2, <2>3, FS_Bijection
<1>5. Cardinality(W) \in Nat /\ IsFiniteSet(B) /\ Cardinality(B) = Cardinality(W)
  <2>1. held \in Bijection(W, B)
    BY <1>2 DEF PortsOf, Bijection, Injection, Surjection, IsInjective
  <2>2. ExistsBijection(W, B)
    BY <2>1 DEF ExistsBijection
  <2>3. IsFiniteSet(1..Len(s)) /\ W \subseteq 1..Len(s)
    BY <1>1, FS_Interval
  <2>4. IsFiniteSet(W)
    BY <2>3, FS_Subset
  <2>5. QED
    BY <2>2, <2>4, FS_Bijection, FS_CardinalityType
<1>6. Cardinality(Ports) = PoolSize /\ PoolSize \in Nat
  <2>1. PoolSize \in Nat
    BY DownloadAssumption
  <2>2. Cardinality(1..PoolSize) = PoolSize
    BY <2>1, FS_Interval
  <2>3. QED
    BY <2>1, <2>2 DEF Ports
<1> HIDE DEF A, B, held
<1>7. Cardinality(A \cup B) = Cardinality(A) + Cardinality(B) - Cardinality(A \cap B)
  BY <1>4, <1>5, FS_Union
<1>8. Cardinality(A \cap B) = 0
  BY <1>3, FS_EmptySet
<1>9. Len(pl) + Cardinality(W) = PoolSize
  <2>1. Cardinality(A \cup B) = PoolSize
    BY <1>3, <1>6
  <2>2. Len(pl) \in Nat /\ Cardinality(W) \in Nat
    BY <1>1, <1>5
  <2>3. PoolSize = Len(pl) + Cardinality(W) - 0
    BY <1>4, <1>5, <1>7, <1>8, <2>1
  <2>4. QED
    BY <2>2, <2>3
<1>10. QED
  BY <1>3, <1>9 DEF A, B

\* Ports that are taken are counted, or the count starts again.
LEMMA CountsKept ==
    ASSUME outlived \in [Peers -> Nat], [Next]_vars
    PROVE  outlived' \in [Peers -> Nat]
<1>1. CASE UNCHANGED outlived
  BY <1>1
<1>2. CASE \E p \in Peers : \E i \in DOMAIN threads[p] : Forward(p, i)
  <2>1. PICK p \in Peers : \E n \in {0, outlived[p] + 1} : outlived' = [outlived EXCEPT ![p] = n]
    BY <1>2 DEF Forward
  <2>2. QED
    BY <2>1
<1>3. CASE \E p \in Peers : \E i \in DOMAIN threads[p] : Timeout(p, i)
  <2>1. PICK p \in Peers : \E n \in {0, outlived[p]} : outlived' = [outlived EXCEPT ![p] = n]
    BY <1>3 DEF Timeout
  <2>2. QED
    BY <2>1
<1>4. ASSUME NEW p \in Peers, Download(p) \/ GetMinLoadNode(p) \/ GiveUp(p) \/ Crash(p)
      PROVE  UNCHANGED outlived
  BY <1>4 DEF Download, GetMinLoadNode, GiveUp, Crash
<1>5. ASSUME NEW p \in Peers, NEW i \in DOMAIN threads[p], ThreadStep(p, i)
      PROVE  UNCHANGED outlived \/ Forward(p, i)
  BY <1>5 DEF ThreadStep, FindLocally, CopyRequest, CopyBack, Receive
<1>6. (\E r \in requests : Listen(r)) \/ (\E m \in answers : Discard(m)) \/ UNCHANGED vars
        => UNCHANGED outlived
  BY DEF Listen, Discard, vars
<1>7. QED
  BY <1>1, <1>2, <1>3, <1>4, <1>5, <1>6 DEF Next, PeerStep

LEMMA TypesShown ==
    ASSUME TInv, outlived \in [Peers -> Nat]
    PROVE  TypeOK
<1>1. Types
  BY DEF TInv
<1>2. ASSUME NEW p \in Peers
      PROVE  /\ download[p].state \in {"idle", "choose", "ripple", "direct"}
             /\ \A i \in DOMAIN threads[p] : threads[p][i].state \in States
             /\ gaveUp[p] \subseteq Files
  <2>1. download[p] \in {Idle} \cup Fetch /\ gaveUp[p] \subseteq Files
    BY <1>1 DEF Types
  <2>2. download[p].state \in {"idle", "choose", "ripple", "direct"}
    BY <2>1 DEF Idle, Fetch
  <2>3. \A i \in DOMAIN threads[p] : threads[p][i] \in Thread
    BY <1>2, ThreadTypes
  <2>4. \A i \in DOMAIN threads[p] : threads[p][i].state \in States
    BY <2>3 DEF Thread
  <2>5. QED
    BY <2>1, <2>2, <2>4
<1>3. ASSUME NEW p \in up
      PROVE  /\ Len(pool[p]) + Cardinality(Waiting(p)) = PoolSize
             /\ Ports = {threads[p][i].port : i \in Waiting(p)}
                          \cup {pool[p][i] : i \in DOMAIN pool[p]}
  <2>1. /\ threads[p] \in Seq(Thread) /\ pool[p] \in Seq(Ports)
        /\ PortsOf(threads[p], pool[p])
    BY PeerTypes
  <2>2. Waiting(p) = {i \in DOMAIN threads[p] : threads[p][i].state = "wait"}
    BY DEF Waiting
  <2> HIDE DEF Waiting
  <2>3. QED
    BY <2>1, <2>2, PortsCounted
<1>4. QED
  BY <1>1, <1>2, <1>3 DEF Types, TypeOK

LEMMA Initially ==
    ASSUME Init
    PROVE  TInv /\ FileIntegrity /\ Matching
<1>1. /\ up = Peers /\ wishes = Wishes /\ requests = {} /\ answers = {}
      /\ disk = [p \in Peers |-> [f \in Files |->
                   IF p \in Holders[f] \ Stale[f] THEN f ELSE Absent]]
      /\ download = [p \in Peers |-> Idle] /\ threads = [p \in Peers |-> <<>>]
      /\ pool = [p \in Peers |-> [i \in Ports |-> i]]
      /\ c_data = [p \in Peers |-> NoData] /\ gaveUp = [p \in Peers |-> {}]
      /\ noise = 0 /\ crashes = 0 /\ late = 0
  BY DEF Init
<1>2. [i \in Ports |-> i] \in Seq(Ports)
  <2>1. [i \in Ports |-> i] \in [1..PoolSize -> Ports]
    BY DEF Ports
  <2>2. QED
    BY <2>1, DownloadAssumption, SeqDef
<1>3. <<>> \in Seq(Thread) /\ DOMAIN <<>> = {}
  BY EmptySeq
<1>4. Types
  <2>1. disk \in [Peers -> [Files -> Contents \cup {Absent}]]
    BY <1>1 DEF Contents
  <2>2. noise \in 0..MaxNoise /\ crashes \in 0..MaxCrashes /\ late \in 0..MaxLate
    BY <1>1, DownloadAssumption
  <2>3. QED
    BY <1>1, <1>2, <1>3, <2>1, <2>2, DownloadAssumption DEF Types
<1>5. \A p \in Peers : Threads(p) = {}
  BY <1>1, <1>3 DEF Threads
<1>6. \A p \in Peers : Calls(p, threads[p], download[p])
  BY <1>1, <1>3 DEF Calls
<1>7. \A p \in up : PortsOf(threads[p], pool[p])
  <2>1. PortsOf(<<>>, [i \in Ports |-> i])
    BY <1>3 DEF PortsOf
  <2>2. QED
    BY <1>1, <2>1
<1>8. TInv
  BY <1>1, <1>4, <1>5, <1>6, <1>7 DEF TInv, Handed, Gone
<1>9. FileIntegrity /\ Matching
  BY <1>1, <1>5 DEF FileIntegrity, Matching
<1>10. QED
  BY <1>8, <1>9

----------------------------------------------------------------------------
(* What waits, and what is under way to it.                                   *)

LEMMA InUnderWay ==
    /\ \A r \in requests : r.back \in UnderWay
    /\ \A m \in answers : m.to \in UnderWay
    /\ \A p \in Peers : \A t \in Threads(p) :
         /\ t.state \in Called => t.back \in UnderWay
         /\ t.state \in Pending => c_data[p].back \in UnderWay
<1>1. ASSUME NEW p \in Peers, NEW t \in Threads(p)
      PROVE  /\ t.state \in Called => t.back \in UnderWay
             /\ t.state \in Pending => c_data[p].back \in UnderWay
  <2>1. CASE t.state = "start"
    <3>1. t.back \in AnsweredTo(p)
      BY <1>1, <2>1 DEF AnsweredTo
    <3>2. QED
      BY <2>1, <3>1 DEF UnderWay, Pending
  <2>2. CASE t.state = "wait"
    <3>1. t.back \in {u.back : u \in {u \in Threads(p) : u.state = "wait"}}
      BY <1>1, <2>2
    <3>2. QED
      BY <2>2, <3>1 DEF UnderWay, Pending
  <2>3. CASE t.state \in Pending
    <3>1. c_data[p].back \in AnsweredTo(p)
      BY <1>1, <2>3 DEF AnsweredTo, Pending
    <3>2. QED
      BY <2>3, <3>1 DEF UnderWay, Called, Pending
  <2>4. QED
    BY <2>1, <2>2, <2>3 DEF Called
<1>2. (\A r \in requests : r.back \in UnderWay) /\ (\A m \in answers : m.to \in UnderWay)
  BY DEF UnderWay
<1>3. QED
  BY <1>1, <1>2

\* A step that keeps what is waited for wherever something is under way to.
LEMMA MatchStep ==
    ASSUME Matching,
           \A b \in UnderWay : \A x : Wanted(b, x) => Wanted(b, x)',
           \A p \in Peers : \A t \in Threads(p)' :
              (t \in Threads(p) /\ c_data'[p] = c_data[p]) \/ Matched(p, t)',
           \A r \in requests' : r \in requests \/ Wanted(r.back, r.file)',
           \A m \in answers' :
              m \in answers \/ (m.answer \in Files => Wanted(m.to, m.answer)')
    PROVE  Matching'
<1>1. \A r \in requests' : Wanted(r.back, r.file)'
  BY InUnderWay DEF Matching
<1>2. \A m \in answers' : m.answer \in Files => Wanted(m.to, m.answer)'
  BY InUnderWay DEF Matching
<1>3. ASSUME NEW p \in Peers, NEW t \in Threads(p)'
      PROVE  Matched(p, t)'
  <2>1. CASE t \in Threads(p) /\ c_data'[p] = c_data[p]
    <3>1. Matched(p, t)
      BY <2>1 DEF Matching
    <3>2. /\ t.state \in Called => Wanted(t.back, t.file)'
          /\ t.state \in Pending => Wanted(c_data[p].back, c_data[p].file)'
      BY <2>1, <3>1, InUnderWay DEF Matched
    <3>3. QED
      BY <2>1, <3>1, <3>2 DEF Matched, Wanted
  <2>2. QED
    BY <1>3, <2>1
<1>4. QED
  BY <1>1, <1>2, <1>3 DEF Matching

\* Nothing waits that did not wait before.
NoNewWaits ==
    \A p \in Peers : \A t \in Threads(p)' : t.state = "wait" => t \in Threads(p)

LEMMA WantedKept ==
    ASSUME NoNewWaits
    PROVE  \A b, x : Wanted(b, x) => Wanted(b, x)'
BY DEF NoNewWaits, Wanted

\* The threads of p after a step of p.
LEMMA ThreadsOf ==
    ASSUME NEW p \in Peers, NEW s, threads \in [Peers -> Seq(Thread)],
           threads' = [threads EXCEPT ![p] = s]
    PROVE  /\ Threads(p)' = {s[i] : i \in DOMAIN s}
           /\ \A q \in Peers \ {p} : Threads(q)' = Threads(q)
<1>1. threads'[p] = s /\ \A q \in Peers \ {p} : threads'[q] = threads[q]
  OBVIOUS
<1>2. QED
  BY <1>1 DEF Threads

\* Waiting at the host is not modelled by a port.
LEMMA HostWanted ==
    ASSUME TInv, NEW p, NEW x
    PROVE  Wanted(<<p, host>>, x)
<1>1. \A q \in Peers : \A t \in Threads(q) : t \in Thread
  BY ThreadTypes DEF Threads
<1>2. host \notin Ports
  BY DEF host, Ports
<1>3. QED
  BY <1>1, <1>2 DEF Wanted, Thread

\* A thread of p returns a, which is its file, spoilt or empty.
LEMMA ReturnMatches ==
    ASSUME TInv, Matching, FileIntegrity,
           NEW p \in Peers, NEW i \in DOMAIN threads[p],
           NEW a \in Contents \cup {Empty}, NEW inFlight \in SUBSET answers,
           threads[p][i].state \in Called, a \in Files => a = threads[p][i].file,
           Return(p, i, a, inFlight), UNCHANGED <<c_data, requests>>
    PROVE  FileIntegrity' /\ Matching'
<1> DEFINE rest == RemoveAt(threads[p], i)
<1>0. PICK t, again : /\ t = threads[p][i]
                      /\ again = [t EXCEPT !.state = "start", !.port = host,
                                     !.route = <<download[p].node>>]
  OBVIOUS
<1>1. /\ threads[p] \in Seq(Thread) /\ t \in Thread /\ t \in Threads(p)
      /\ Calls(p, threads[p], download[p])
      /\ threads \in [Peers -> Seq(Thread)]
      /\ disk \in [Peers -> [Files -> Contents \cup {Absent}]]
  BY <1>0, ThreadTypes DEF TInv, Types, Threads
<1>2. /\ rest \in Seq(Thread)
      /\ \A k \in DOMAIN rest : rest[k] \in Threads(p)
  BY <1>1, Removed DEF Threads
<1>3. Matched(p, t)
  BY <1>1 DEF Matching
<1>4. /\ again.back = t.back /\ again.file = t.file /\ again.state = "start"
      /\ t.state \in Called
  BY <1>0, <1>1 DEF Thread
<1> HIDE DEF rest
<1>5. PICK s : /\ threads' = [threads EXCEPT ![p] = s]
               /\ \A k \in DOMAIN s : s[k] \in Threads(p) \/ s[k] = again
  <2>1. CASE threads' = [threads EXCEPT ![p] = rest]
    BY <1>2, <2>1
  <2>2. CASE threads' = [[threads EXCEPT ![p] = rest] EXCEPT ![p] = Append(@, again)]
    <3>1. threads' = [threads EXCEPT ![p] = Append(rest, again)]
      BY <1>1, <2>2
    <3>2. \A k \in DOMAIN Append(rest, again) :
            \/ k \in DOMAIN rest /\ Append(rest, again)[k] = rest[k]
            \/ Append(rest, again)[k] = again
      BY <1>2, AppendProperties, LenProperties
    <3>3. QED
      BY <1>2, <3>1, <3>2
  <2>3. QED
    BY <1>0, <2>1, <2>2 DEF Return, rest
<1>6. /\ \A u \in Threads(p)' : u \in Threads(p) \/ u = again
      /\ \A q \in Peers \ {p} : Threads(q)' = Threads(q)
  <2>1. /\ Threads(p)' = {s[k] : k \in DOMAIN s}
        /\ \A q \in Peers \ {p} : Threads(q)' = Threads(q)
    BY <1>1, <1>5, ThreadsOf
  <2>2. QED
    BY <1>5, <2>1
<1>7. NoNewWaits
  BY <1>4, <1>6 DEF NoNewWaits
<1>8. Wanted(t.back, t.file)'
  BY <1>3, <1>4, <1>7, WantedKept DEF Matched
<1>9. Matched(p, again)'
  BY <1>4, <1>8 DEF Matched, Called, Pending
<1>10. \A m \in answers' : m \in answers \/ (m.to = t.back /\ m.answer = a)
  BY <1>0 DEF Return
<1>11. Matching'
  <2>1. \A q \in Peers : \A u \in Threads(q)' :
          (u \in Threads(q) /\ c_data'[q] = c_data[q]) \/ Matched(q, u)'
    BY <1>6, <1>9
  <2>2. \A m \in answers' :
          m \in answers \/ (m.answer \in Files => Wanted(m.to, m.answer)')
    <3>1. a \in Files => a = t.file
      BY <1>0
    <3>2. QED
      BY <1>8, <1>10, <3>1
  <2>3. QED
    BY <1>7, <2>1, <2>2, WantedKept, MatchStep
<1>12. FileIntegrity'
  <2>1. CASE UNCHANGED disk
    BY <2>1 DEF FileIntegrity
  <2>2. CASE Stored(p, a) /\ t.back[2] = host
    <3>1. t.file = download[p].file
      BY <1>0, <1>1, <1>4, <2>2 DEF Calls, Hosted
    <3>2. a = download[p].file
      BY <1>0, <2>2, <3>1 DEF Stored, CompareMD5, Contents
    <3>3. disk' = [disk EXCEPT ![p][a] = a]
      BY <2>2, <3>2 DEF Stored
    <3>4. QED
      BY <1>1, <3>3 DEF FileIntegrity
  <2>3. QED
    BY <1>0, <2>1, <2>2 DEF Return, Rejected, Switched, AskedDirectly
<1>13. QED
  BY <1>11, <1>12

\* The threads of p become s, those of others stay.
NowThreads(p, s) == threads' = [threads EXCEPT ![p] = s]

\* The step of a thread of p that makes it t, or adds it, and waits on no port.
LEMMA ThreadMatches ==
    ASSUME TInv, Matching, NEW p \in Peers, NEW s, NEW t, NowThreads(p, s),
           \A k \in DOMAIN s : s[k] \in Threads(p) \/ s[k] = t,
           t.state # "wait" /\ (NoNewWaits => Matched(p, t)'),
           UNCHANGED <<c_data, requests, answers>>
    PROVE  Matching'
<1>1. /\ \A u \in Threads(p)' : u \in Threads(p) \/ u = t
      /\ \A q \in Peers \ {p} : Threads(q)' = Threads(q)
  <2>1. /\ Threads(p)' = {s[k] : k \in DOMAIN s}
        /\ \A q \in Peers \ {p} : Threads(q)' = Threads(q)
    BY ThreadsOf DEF TInv, Types, NowThreads
  <2>2. QED
    BY <2>1
<1>2. NoNewWaits
  BY <1>1 DEF NoNewWaits
<1>3. \A q \in Peers : \A u \in Threads(q)' :
        (u \in Threads(q) /\ c_data'[q] = c_data[q]) \/ Matched(q, u)'
  BY <1>1, <1>2
<1>4. QED
  BY <1>2, <1>3, WantedKept, MatchStep

LEMMA CopyMatches ==
    ASSUME TInv, Matching, NEW p \in Peers, NEW i \in DOMAIN threads[p],
           CopyRequest(p, i) \/ CopyBack(p, i)
    PROVE  Matching'
<1>1. PICK t : t = threads[p][i]
  OBVIOUS
<1>2. /\ threads[p] \in Seq(Thread) /\ t \in Thread /\ t \in Threads(p)
      /\ threads \in [Peers -> Seq(Thread)]
  BY <1>1, ThreadTypes DEF TInv, Types, Threads
<1>3. Matched(p, t)
  BY <1>2 DEF Matching
<1>4. CASE CopyRequest(p, i)
  <2>1. PICK u : u = [t EXCEPT !.state = "copying", !.route = c_data[p].route,
                                !.file = c_data[p].file]
    OBVIOUS
  <2>2. u.state = "copying" /\ u.file = c_data[p].file
    BY <1>2, <2>1 DEF Thread
  <2>3. NowThreads(p, [threads[p] EXCEPT ![i] = u])
    BY <1>1, <1>2, <1>4, <2>1 DEF CopyRequest, NowThreads
  <2>4. t.state = "born" /\ UNCHANGED <<c_data, requests, answers>>
    BY <1>1, <1>4 DEF CopyRequest
  <2>5. Wanted(c_data[p].back, c_data[p].file)
    BY <1>3, <2>4 DEF Matched, Pending
  <2>6. ASSUME NoNewWaits
        PROVE  Matched(p, u)'
    <3>1. PICK b, f : b = c_data[p].back /\ f = c_data[p].file
      OBVIOUS
    <3>2. Wanted(b, f)'
      BY <2>5, <2>6, <3>1, WantedKept
    <3>3. c_data'[p] = c_data[p]
      BY <2>4
    <3>4. Wanted(c_data[p].back, c_data[p].file)'
      BY <3>1, <3>2, <3>3 DEF Wanted
    <3>5. QED
      BY <2>2, <3>3, <3>4 DEF Matched, Called, Pending
  <2>7. \A k \in DOMAIN [threads[p] EXCEPT ![i] = u] :
          [threads[p] EXCEPT ![i] = u][k] \in Threads(p) \/ [threads[p] EXCEPT ![i] = u][k] = u
    BY DEF Threads
  <2>8. QED
    BY <2>2, <2>3, <2>4, <2>6, <2>7, ThreadMatches
<1>5. CASE CopyBack(p, i)
  <2>1. PICK u : u = [t EXCEPT !.state = "start", !.back = c_data[p].back]
    OBVIOUS
  <2>2. u.state = "start" /\ u.back = c_data[p].back /\ u.file = t.file
    BY <1>2, <2>1 DEF Thread
  <2>3. NowThreads(p, [threads[p] EXCEPT ![i] = u])
    BY <1>1, <1>2, <1>5, <2>1 DEF CopyBack, NowThreads
  <2>4. t.state = "copying" /\ UNCHANGED <<c_data, requests, answers>>
    BY <1>1, <1>5 DEF CopyBack
  <2>5. Wanted(u.back, u.file)
    BY <1>3, <2>2, <2>4 DEF Matched, Pending
  <2>6. ASSUME NoNewWaits
        PROVE  Matched(p, u)'
    <3>1. Wanted(u.back, u.file)'
      BY <2>5, <2>6, WantedKept
    <3>2. QED
      BY <2>2, <3>1 DEF Matched, Called, Pending
  <2>7. \A k \in DOMAIN [threads[p] EXCEPT ![i] = u] :
          [threads[p] EXCEPT ![i] = u][k] \in Threads(p) \/ [threads[p] EXCEPT ![i] = u][k] = u
    BY DEF Threads
  <2>8. QED
    BY <2>2, <2>3, <2>4, <2>6, <2>7, ThreadMatches
<1>6. QED
  BY <1>4, <1>5

\* ForwardDownload is called.
LEMMA CallMatches ==
    ASSUME TInv, Matching, NEW p \in Peers, NEW t, NEW s,
           threads' = [threads EXCEPT ![p] = s], s = Append(threads[p], t),
           t.state = "start", t.back = <<p, host>>, t \in Thread,
           UNCHANGED <<c_data, requests, answers>>
    PROVE  Matching'
<1>1. threads[p] \in Seq(Thread)
  BY DEF TInv, Types
<1>2. \A k \in DOMAIN s : s[k] \in Threads(p) \/ s[k] = t
  BY <1>1, AppendProperties, LenProperties DEF Threads
<1>3. Wanted(t.back, t.file)
  BY HostWanted
<1>4. ASSUME NoNewWaits
      PROVE  Matched(p, t)'
  <2>1. Wanted(t.back, t.file)'
    BY <1>3, <1>4, WantedKept
  <2>2. QED
    BY <2>1 DEF Matched, Pending
<1>5. t.state # "wait" /\ (NoNewWaits => Matched(p, t)')
  BY <1>4
<1>6. NowThreads(p, s)
  BY DEF NowThreads
<1>7. QED
  BY <1>2, <1>5, <1>6, ThreadMatches

\* The port taken is waited for by no other thread, and nothing is under way to it.
LEMMA ForwardMatches ==
    ASSUME TInv, Matching, FreshPorts, NEW p \in Peers, NEW i \in DOMAIN threads[p],
           Forward(p, i)
    PROVE  Matching'
<1>1. PICK t, k, s, u : /\ t = threads[p][i] /\ k = Head(pool[p])
                        /\ u = [t EXCEPT !.state = "wait", !.port = k]
                        /\ s = [threads[p] EXCEPT ![i] = u]
  OBVIOUS
<1>2. /\ p \in up /\ threads[p] \in Seq(Thread) /\ t \in Thread /\ pool[p] \in Seq(Ports)
      /\ PortsOf(threads[p], pool[p]) /\ threads \in [Peers -> Seq(Thread)]
      /\ t \in Threads(p)
  BY <1>1, ThreadTypes DEF TInv, Types, Threads
<1>3. /\ t.state = "start" /\ pool[p] # <<>>
      /\ UNCHANGED <<c_data, answers>>
      /\ threads' = [threads EXCEPT ![p] = s]
  BY <1>1, <1>2 DEF Forward
<1>4. u.state = "wait" /\ u.port = k /\ u.back = t.back /\ u.file = t.file
  BY <1>1, <1>2 DEF Thread
<1>5. /\ \A v \in Threads(p)' : v \in Threads(p) \/ v = u
      /\ \A q \in Peers \ {p} : Threads(q)' = Threads(q)
  <2>1. /\ Threads(p)' = {s[j] : j \in DOMAIN s}
        /\ \A q \in Peers \ {p} : Threads(q)' = Threads(q)
    BY <1>2, <1>3, ThreadsOf
  <2>2. \A j \in DOMAIN s : s[j] \in Threads(p) \/ s[j] = u
    BY <1>1 DEF Threads
  <2>3. QED
    BY <2>1, <2>2
<1>6. \A v \in Threads(p) : v.state = "wait" => v.port # k
  <2>1. 1 \in DOMAIN pool[p] /\ pool[p][1] = k
    BY <1>1, <1>2, <1>3, Tailed
  <2>2. QED
    BY <1>2, <2>1 DEF PortsOf, Threads
<1>7. <<p, k>> \notin UnderWay
  BY <1>1, <1>2, <1>3 DEF FreshPorts
<1>8. ASSUME NEW b \in UnderWay, NEW x, Wanted(b, x)
      PROVE  Wanted(b, x)'
  <2>1. b # <<p, k>>
    BY <1>7
  <2>2. QED
    BY <1>4, <1>5, <1>8, <2>1 DEF Wanted
<1>9. Wanted(<<p, k>>, t.file)'
  <2>1. ASSUME NEW q \in Peers, NEW v \in Threads(q)', v.state = "wait",
               <<p, k>> = <<q, v.port>>
        PROVE  v.file = t.file
    <3>1. q = p /\ v.port = k
      BY <2>1
    <3>2. v = u
      BY <1>5, <1>6, <2>1, <3>1
    <3>3. QED
      BY <1>4, <3>2
  <2>2. PICK b, f : b = <<p, k>> /\ f = t.file
    OBVIOUS
  <2>3. QED
    BY <2>1 DEF Wanted
<1>10. Matched(p, u)'
  <2>1. Wanted(t.back, t.file) /\ t.back \in UnderWay
    BY <1>2, <1>3, InUnderWay DEF Matching, Matched, Called
  <2>2. Wanted(u.back, u.file)'
    BY <1>4, <1>8, <2>1
  <2>3. QED
    BY <1>4, <2>2 DEF Matched, Pending
<1>11. \A q \in Peers : \A v \in Threads(q)' :
         (v \in Threads(q) /\ c_data'[q] = c_data[q]) \/ Matched(q, v)'
  BY <1>3, <1>5, <1>10
<1>12. \A r \in requests' : r \in requests \/ Wanted(r.back, r.file)'
  <2>1. \A r \in requests' : r \in requests \/ (r.back = <<p, k>> /\ r.file = t.file)
    BY <1>1 DEF Forward
  <2>2. QED
    BY <1>9, <2>1
<1>13. \A m \in answers' : m \in answers
  BY <1>3
<1>14. QED
  BY <1>8, <1>11, <1>12, <1>13, MatchStep

\* The listener is done with a request before it takes the next.
LEMMA ListenMatches ==
    ASSUME TInv, Matching, ~Overlap, NEW r \in requests, Listen(r)
    PROVE  Matching'
<1>1. PICK p, data : p = r.to /\ data = [route |-> r.route, file |-> r.file, back |-> r.back]
  OBVIOUS
<1>2. p \in Peers /\ threads \in [Peers -> Seq(Thread)] /\ threads[p] \in Seq(Thread)
  BY <1>1 DEF TInv, Types, Request
<1>3. /\ requests' \subseteq requests /\ UNCHANGED answers
      /\ c_data' = [c_data EXCEPT ![p] = data]
      /\ threads' = [threads EXCEPT ![p] = Append(threads[p], Born)]
      /\ \A t \in Threads(p) : t.state \notin Pending
  BY <1>1, <1>2 DEF Listen, Pending
<1>4. c_data'[p] = data /\ \A q \in Peers \ {p} : c_data'[q] = c_data[q]
  BY <1>2, <1>3 DEF TInv, Types
<1>5. data.back = r.back /\ data.file = r.file
  BY <1>1
<1>6. /\ \A t \in Threads(p)' : t \in Threads(p) \/ t = Born
      /\ \A q \in Peers \ {p} : Threads(q)' = Threads(q)
  <2> DEFINE s == Append(threads[p], Born)
  <2>1. \A k \in DOMAIN s : s[k] \in Threads(p) \/ s[k] = Born
    BY <1>2, AppendProperties, LenProperties DEF Threads
  <2>2. threads' = [threads EXCEPT ![p] = s]
    BY <1>3
  <2> HIDE DEF s
  <2>3. /\ Threads(p)' = {s[k] : k \in DOMAIN s}
        /\ \A q \in Peers \ {p} : Threads(q)' = Threads(q)
    BY <1>2, <2>2, ThreadsOf
  <2>4. QED
    BY <2>1, <2>3
<1>7. Born.state = "born"
  BY DEF Born
<1>8. NoNewWaits
  BY <1>6, <1>7 DEF NoNewWaits
<1>9. Matched(p, Born)'
  <2>1. Wanted(r.back, r.file)'
    BY <1>8, WantedKept DEF Matching
  <2>2. Wanted(c_data[p].back, c_data[p].file)'
    BY <1>4, <1>5, <2>1 DEF Wanted
  <2>3. QED
    BY <1>7, <2>2 DEF Matched, Called, Pending
<1>10. ASSUME NEW t \in Threads(p)
       PROVE  Matched(p, t)'
  <2>1. t.state \notin Pending /\ (t.state \in Called => Wanted(t.back, t.file))
    BY <1>2, <1>3, <1>10 DEF Matching, Matched
  <2>2. t.state \in Called => Wanted(t.back, t.file)'
    BY <1>8, <2>1, WantedKept
  <2>3. QED
    BY <2>1, <2>2 DEF Matched, Pending
<1>11. \A q \in Peers : \A t \in Threads(q)' :
         (t \in Threads(q) /\ c_data'[q] = c_data[q]) \/ Matched(q, t)'
  BY <1>4, <1>6, <1>9, <1>10
<1>12. QED
  BY <1>3, <1>8, <1>11, WantedKept, MatchStep

\* A step after which less is under way.
LEMMA FewerMatch ==
    ASSUME Matching, NEW p \in Peers, threads \in [Peers -> Seq(Thread)],
           threads' = threads \/ threads' = [threads EXCEPT ![p] = <<>>],
           requests' \subseteq requests, answers' \subseteq answers, UNCHANGED c_data
    PROVE  Matching'
<1>1. \A q \in Peers : \A t \in Threads(q)' : t \in Threads(q)
  BY EmptySeq DEF Threads
<1>2. NoNewWaits
  BY <1>1 DEF NoNewWaits
<1>3. \A q \in Peers : \A t \in Threads(q)' :
        (t \in Threads(q) /\ c_data'[q] = c_data[q]) \/ Matched(q, t)'
  BY <1>1
<1>4. QED
  BY <1>2, <1>3, WantedKept, MatchStep

\* A wait is over, with an answer to it or with none.
LEMMA NoisyMatches ==
    ASSUME TInv, Matching, FileIntegrity, NEW p \in Peers, NEW i \in DOMAIN threads[p],
           threads[p][i].state = "wait",
           NEW a \in Contents \cup {Empty}, NEW inFlight \in SUBSET answers,
           a \in Files => a = threads[p][i].file,
           MayBeNoisy(p, i, a, inFlight)
    PROVE  FileIntegrity' /\ Matching'
<1>1. UNCHANGED c_data /\ threads[p][i].state \in Called
  BY DEF MayBeNoisy, Called
<1>2. Spoilt \in Contents \cup {Empty} /\ Spoilt \notin Files
  BY DownloadAssumption DEF Contents
<1>3. ASSUME NEW b \in Contents \cup {Empty}, b \in Files => b = threads[p][i].file,
             Received(p, i, b, inFlight)
      PROVE  FileIntegrity' /\ Matching'
  <2>1. Return(p, i, b, inFlight) /\ UNCHANGED <<c_data, requests>>
    BY <1>1, <1>3 DEF Received
  <2>2. QED
    BY <1>1, <1>3, <2>1, ReturnMatches
<1>4. CASE Ends(p) /\ UNCHANGED disk
  <2>1. /\ threads' = [threads EXCEPT ![p] = <<>>]
        /\ requests' \subseteq requests /\ answers' \subseteq answers
    BY <1>4 DEF Ends
  <2>2. Matching'
    BY <1>1, <2>1, FewerMatch DEF TInv, Types
  <2>3. QED
    BY <1>4, <2>2 DEF FileIntegrity
<1>5. QED
  BY <1>2, <1>3, <1>4 DEF MayBeNoisy

LEMMA FindMatches ==
    ASSUME FInv, NEW p \in Peers, NEW i \in DOMAIN threads[p], FindLocally(p, i)
    PROVE  FileIntegrity' /\ Matching'
<1>1. TInv /\ Matching /\ FileIntegrity
  BY DEF FInv
<1>2. PICK t, a : t = threads[p][i] /\ a = PackFileInfo(p, t.file)
  OBVIOUS
<1>3. t \in Thread /\ t.state = "start" /\ t.state \in Called
  BY <1>1, <1>2, ThreadTypes DEF FindLocally, Called
<1>4. t.file \in Files /\ disk[p][t.file] \in {t.file, Absent}
  BY <1>1, <1>3 DEF Thread, FileIntegrity
<1>5. a \in {t.file, Empty}
  BY <1>2, <1>4 DEF PackFileInfo
<1>6. a \in Contents \cup {Empty} /\ (a \in Files => a = t.file)
  BY <1>4, <1>5, DownloadAssumption DEF Contents
<1>7. Return(p, i, a, answers) /\ UNCHANGED <<c_data, requests>> /\ answers \in SUBSET answers
  BY <1>2 DEF FindLocally
<1>8. QED
  BY <1>1, <1>2, <1>3, <1>6, <1>7, ReturnMatches

LEMMA WaitMatches ==
    ASSUME FInv, NEW p \in Peers, NEW i \in DOMAIN threads[p],
           Timeout(p, i) \/ \E m \in answers : Receive(p, i, m)
    PROVE  FileIntegrity' /\ Matching'
<1>1. TInv /\ Matching /\ FileIntegrity
  BY DEF FInv
<1>2. CASE Timeout(p, i)
  <2>1. /\ threads[p][i].state = "wait" /\ MayBeNoisy(p, i, Empty, answers)
        /\ answers \in SUBSET answers /\ Empty \in Contents \cup {Empty}
    BY <1>2 DEF Timeout
  <2>2. Empty \notin Files
    BY DownloadAssumption
  <2>3. QED
    BY <1>1, <2>1, <2>2, NoisyMatches
<1>3. CASE \E m \in answers : Receive(p, i, m)
  <2>1. PICK m \in answers : Receive(p, i, m)
    BY <1>3
  <2>2. m \in Reply
    BY <1>1 DEF TInv, Types
  <2>3. /\ threads[p][i].state = "wait" /\ m.to = <<p, threads[p][i].port>>
        /\ MayBeNoisy(p, i, m.answer, answers \ {m})
        /\ answers \ {m} \in SUBSET answers /\ m.answer \in Contents \cup {Empty}
    BY <2>1, <2>2 DEF Receive, Reply
  <2>4. m.answer \in Files => m.answer = threads[p][i].file
    BY <1>1, <2>3 DEF Matching, Wanted, Threads
  <2>5. QED
    BY <1>1, <2>3, <2>4, NoisyMatches
<1>4. QED
  BY <1>2, <1>3

LEMMA MinLoadMatches ==
    ASSUME FInv, NEW p \in Peers, GetMinLoadNode(p)
    PROVE  FileIntegrity' /\ Matching'
<1>1. /\ TInv /\ Matching /\ FileIntegrity
      /\ UNCHANGED <<disk, c_data, requests, answers>>
      /\ p \in up /\ download[p].state = "choose"
  BY DEF FInv, GetMinLoadNode, Doing
<1>2. FileIntegrity'
  BY <1>1 DEF FileIntegrity
<1>3. threads \in [Peers -> Seq(Thread)] /\ download[p] \in Fetch
  BY <1>1 DEF TInv, Types, Idle
<1>4. PICK n \in download[p].nodes :
         UNCHANGED threads \/ Call(p, "ripple", n, Addresses(p, n))
  BY DEF GetMinLoadNode
<1>5. CASE UNCHANGED threads
  BY <1>1, <1>2, <1>3, <1>5, FewerMatch
<1>6. CASE Call(p, "ripple", n, Addresses(p, n))
  <2>1. PICK t, s : /\ t = Ripple(p, download[p].file, Addresses(p, n))
                    /\ s = Append(threads[p], t)
    OBVIOUS
  <2>2. /\ threads' = [threads EXCEPT ![p] = s]
        /\ t.state = "start" /\ t.back = <<p, host>>
    BY <1>3, <1>6, <2>1 DEF Call, Ripple
  <2>3. Addresses(p, n) \in Seq(Peers)
    BY <1>3, <1>4, AddressesType DEF Fetch
  <2>4. t \in Thread
    BY <1>3, <2>1, <2>3, RippleType DEF Fetch
  <2>5. QED
    BY <1>1, <1>2, <2>1, <2>2, <2>4, CallMatches
<1>7. QED
  BY <1>4, <1>5, <1>6

LEMMA IntegrityKept ==
    ASSUME FInv, ~Overlap, FreshPorts, [Next]_vars
    PROVE  FInv'
<1>1. TInv /\ Matching /\ FileIntegrity /\ threads \in [Peers -> Seq(Thread)]
  BY DEF FInv, TInv, Types
<1> SUFFICES FileIntegrity' /\ Matching'
  BY <1>1, TypesKept DEF FInv
<1>2. CASE \E p \in Peers : GetMinLoadNode(p)
  BY <1>2, MinLoadMatches
<1>3. CASE \E p \in Peers : Download(p) \/ GiveUp(p) \/ Crash(p)
  <2>1. PICK p \in Peers : Download(p) \/ GiveUp(p) \/ Crash(p)
    BY <1>3
  <2>2. /\ threads' = threads \/ threads' = [threads EXCEPT ![p] = <<>>]
        /\ requests' \subseteq requests /\ answers' \subseteq answers
        /\ UNCHANGED <<c_data, disk>>
    BY <2>1 DEF Download, GiveUp, Crash, Ends
  <2>3. Matching'
    BY <1>1, <2>2, FewerMatch
  <2>4. QED
    BY <1>1, <2>2, <2>3 DEF FileIntegrity
<1>4. CASE \E p \in Peers : \E i \in DOMAIN threads[p] : ThreadStep(p, i) \/ Timeout(p, i)
  <2>0. PICK p \in Peers : \E i \in DOMAIN threads[p] : ThreadStep(p, i) \/ Timeout(p, i)
    BY <1>4
  <2>1. PICK i \in DOMAIN threads[p] : ThreadStep(p, i) \/ Timeout(p, i)
    BY <2>0
  <2>2. CASE FindLocally(p, i)
    BY <2>2, FindMatches
  <2>3. CASE Forward(p, i)
    BY <1>1, <2>3, ForwardMatches DEF Forward, FileIntegrity
  <2>4. CASE CopyRequest(p, i) \/ CopyBack(p, i)
    BY <1>1, <2>4, CopyMatches DEF CopyRequest, CopyBack, FileIntegrity
  <2>5. CASE Timeout(p, i) \/ \E m \in answers : Receive(p, i, m)
    BY <2>5, WaitMatches
  <2>6. QED
    BY <2>1, <2>2, <2>3, <2>4, <2>5 DEF ThreadStep
<1>5. CASE \E r \in requests : Listen(r)
  BY <1>1, <1>5, ListenMatches DEF Listen, FileIntegrity
<1>6. CASE \E m \in answers : Discard(m)
  <2>1. PICK m \in answers : Discard(m)
    BY <1>6
  <2>2. UNCHANGED <<c_data, disk, threads, requests>> /\ answers' \subseteq answers
    BY <2>1 DEF Discard
  <2>3. m.to[1] \in Peers
    BY <1>1 DEF TInv, Types, Reply
  <2>4. QED
    BY <1>1, <2>2, <2>3, FewerMatch DEF FileIntegrity
<1>7. CASE UNCHANGED vars
  <2>1. UNCHANGED <<c_data, disk, threads, requests, answers>>
    BY <1>7 DEF vars
  <2>2. Matching'
    BY <1>1, <2>1 DEF Matching, Matched, Wanted, Threads
  <2>3. QED
    BY <1>1, <2>1, <2>2 DEF FileIntegrity
<1>8. QED
  BY <1>2, <1>3, <1>4, <1>5, <1>6, <1>7 DEF Next, PeerStep

----------------------------------------------------------------------------
(* The checksum.                                                              *)

LEMMA SpoiltAlone == Spoilt # Absent /\ Spoilt \notin Files
<1>1. ASSUME Spoilt = Absent
      PROVE  FALSE
  <2>1. {Absent, Spoilt, Empty} = {Absent} \cup {Empty}
    BY <1>1
  <2>2. IsFiniteSet({Absent}) /\ Cardinality({Absent}) = 1
    BY FS_Singleton
  <2>3. Cardinality({Absent} \cup {Empty}) \in {1, 2}
    BY <2>2, FS_AddElement
  <2>4. PICK S : S = {Absent, Spoilt, Empty}
    OBVIOUS
  <2>5. Cardinality(S) = 3
    BY <2>4, DownloadAssumption
  <2>6. Cardinality(S) \in {1, 2}
    BY <2>1, <2>3, <2>4
  <2>7. QED
    BY <2>5, <2>6
<1>2. QED
  BY <1>1, DownloadAssumption

----------------------------------------------------------------------------
(* Induction, and recursion, about sets and functions of naturals.           *)

\* A nonempty set of naturals has a least element.
LEMMA Smallest ==
    ASSUME NEW T, T \subseteq Nat, T # {}
    PROVE  \E x \in T : \A y \in T : x <= y
<1> DEFINE R == {p \in Nat \X Nat : p[1] < p[2]}
<1>1. IsWellFoundedOn(R, Nat)
  <2>1. R = OpToRel(<, Nat)
    BY Zenon DEF OpToRel
  <2>2. QED
    BY <2>1, NatLessThanWellFounded, Zenon
<1>2. \E x \in T : \A y \in T : <<y, x>> \notin R
  <2> HIDE DEF R
  <2>1. QED
    BY <1>1, WFMin
<1>3. PICK x \in T : \A y \in T : <<y, x>> \notin R
  BY <1>2
<1>4. ASSUME NEW y \in T PROVE x <= y
  <2>1. <<y, x>> \notin R
    BY <1>3
  <2>2. x \in Nat /\ y \in Nat
    OBVIOUS
  <2>3. QED
    BY <2>1, <2>2
<1>5. QED
  BY <1>4

\* Induction up to a bound, about a set of naturals.
LEMMA Inductively ==
    ASSUME NEW m \in Nat, NEW S, 0 \in S,
           \A k \in 1..m : k - 1 \in S => k \in S
    PROVE  \A k \in 0..m : k \in S
<1> DEFINE T == {k \in 0..m : k \notin S}
<1>0. SUFFICES ASSUME T # {} PROVE FALSE
  OBVIOUS
<1>1. PICK x \in T : \A y \in T : x <= y
  <2>1. T \subseteq Nat
    OBVIOUS
  <2> HIDE DEF T
  <2>2. QED
    BY <1>0, <2>1, Smallest
<1>2. x \in 1..m /\ x - 1 \in 0..m
  OBVIOUS
<1>3. x - 1 \notin T
  BY <1>1, <1>2
<1>4. QED
  BY <1>2, <1>3

\* f is what the recursion f[k] = G[k][f[k - 1]] computes from x0 up to m.
Computes(f, m, X, x0, G) ==
    /\ f \in [0..m -> X]
    /\ f[0] = x0
    /\ \A k \in 1..m : f[k] = G[k][f[k - 1]]

\* A recursion over 0..m computes something.
LEMMA Recursion ==
    ASSUME NEW m \in Nat, NEW X, NEW x0 \in X,
           NEW G \in [1..m -> [X -> X]]
    PROVE  \E f : Computes(f, m, X, x0, G)
<1> DEFINE S == {n \in 0..m : \E f : Computes(f, n, X, x0, G)}
<1>1. 0 \in S
  <2>1. Computes([k \in 0..0 |-> x0], 0, X, x0, G)
    BY DEF Computes
  <2>2. QED
    BY <2>1
<1>2. ASSUME NEW n \in 1..m, n - 1 \in S
      PROVE  n \in S
  <2>1. PICK f : Computes(f, n - 1, X, x0, G)
    BY <1>2
  <2> DEFINE g == [k \in 0..n |-> IF k = n THEN G[n][f[n - 1]] ELSE f[k]]
  <2>2. f[n - 1] \in X
    BY <2>1 DEF Computes
  <2>3. g \in [0..n -> X] /\ g[0] = x0
    BY <2>1, <2>2 DEF Computes
  <2>4. ASSUME NEW k \in 1..n
        PROVE  g[k] = G[k][g[k - 1]]
    <3>1. g[k - 1] = f[k - 1]
      OBVIOUS
    <3>2. CASE k = n
      BY <3>1, <3>2
    <3>3. CASE k # n
      <4>1. k \in 1..(n - 1) /\ g[k] = f[k]
        BY <3>3
      <4>2. f[k] = G[k][f[k - 1]]
        BY <2>1, <4>1 DEF Computes
      <4>3. QED
        BY <3>1, <4>1, <4>2
    <3>4. QED
      BY <3>2, <3>3
  <2>5. Computes(g, n, X, x0, G)
    BY <2>3, <2>4 DEF Computes
  <2>6. QED
    BY <2>5
<1>3. m \in S
  <2> HIDE DEF S
  <2>1. \A k \in 0..m : k \in S
    BY <1>1, <1>2, Inductively
  <2>2. QED
    BY <2>1
<1>4. QED
  BY <1>3

----------------------------------------------------------------------------
(* Answerable, which is defined by recursion, has what is asked for directly. *)

AtOnce ==
    {r.back : r \in requests} \cup {m.to : m \in answers} \cup
    UNION {AnsweredTo(p) : p \in Peers}

LEMMA AtOnceAnswerable == AtOnce \subseteq Answerable
<1> DEFINE n == Cardinality(Peers)
           Passed(known) ==
             UNION {{t.back : t \in {u \in Threads(p) :
                u.state = "wait" /\ <<p, u.port>> \in known}} : p \in Peers}
           A == AtOnce \cup UNION {{t.back : t \in Threads(p)} : p \in Peers}
           X == SUBSET A
           G == [k \in 1..n |-> [known \in X |-> known \cup Passed(known)]]
           Shape(h) ==
             [k \in 0..n |->
                IF k = 0
                THEN {r.back : r \in requests} \cup {m.to : m \in answers} \cup
                     UNION {AnsweredTo(p) : p \in Peers}
                ELSE LET known == h[k - 1]
                     IN  known \cup UNION {{t.back : t \in {u \in Threads(p) :
                           u.state = "wait" /\ <<p, u.port>> \in known}} : p \in Peers}]
           after == CHOOSE h : h = Shape(h)
<1>1. n \in Nat
  BY FS_CardinalityType, DownloadAssumption
<1>2. AtOnce \in X /\ \A known \in X : known \cup Passed(known) \in X
  <2>1. ASSUME NEW known, NEW x \in Passed(known)
        PROVE  x \in A
    <3>1. PICK p \in Peers : x \in {t.back : t \in {u \in Threads(p) :
                                u.state = "wait" /\ <<p, u.port>> \in known}}
      OBVIOUS
    <3>2. x \in {t.back : t \in Threads(p)}
      BY <3>1
    <3>3. QED
      BY <3>2
  <2> HIDE DEF Passed
  <2>2. QED
    BY <2>1
<1>3. \A h : Shape(h) =
        [k \in 0..n |-> IF k = 0 THEN AtOnce ELSE h[k - 1] \cup Passed(h[k - 1])]
  BY DEF AtOnce
<1>4. Answerable = after[n]
  BY DEF Answerable
<1> HIDE DEF n, Shape, A, Passed
<1>5. G \in [1..n -> [X -> X]]
  BY <1>2
<1>6. PICK h : Computes(h, n, X, AtOnce, G)
  <2> HIDE DEF X, G, after
  <2>1. QED
    BY <1>1, <1>2, <1>5, Recursion
<1>7. /\ h \in [0..n -> X] /\ h[0] = AtOnce
      /\ \A k \in 1..n : h[k] = h[k - 1] \cup Passed(h[k - 1])
  <2>1. \A k \in 1..n : h[k - 1] \in X
    <3> HIDE DEF X, G, after
    <3>1. QED
      BY <1>1, <1>6 DEF Computes
  <2>2. \A k \in 1..n : h[k] = G[k][h[k - 1]]
    BY <1>6 DEF Computes
  <2>3. \A k \in 1..n : h[k] = h[k - 1] \cup Passed(h[k - 1])
    BY <2>1, <2>2
  <2> HIDE DEF X, G, after
  <2>4. QED
    BY <1>6, <2>3 DEF Computes
<1> HIDE DEF X, G
<1>8. h = Shape(h)
  <2>1. \A k \in 0..n :
          h[k] = IF k = 0 THEN AtOnce ELSE h[k - 1] \cup Passed(h[k - 1])
    BY <1>1, <1>7
  <2>2. h = [k \in 0..n |-> h[k]]
    BY <1>7
  <2>3. QED
    BY <1>3, <2>1, <2>2
<1>9. after = Shape(after)
  BY <1>8
<1> HIDE DEF after
<1>10. after =
         [k \in 0..n |-> IF k = 0 THEN AtOnce ELSE after[k - 1] \cup Passed(after[k - 1])]
  BY <1>3, <1>9
<1> DEFINE S == {k \in 0..n : AtOnce \subseteq after[k]}
<1>11. 0 \in S
  BY <1>1, <1>10
<1>12. \A k \in 1..n : k - 1 \in S => k \in S
  BY <1>1, <1>10
<1>13. \A k \in 0..n : k \in S
  <2> HIDE DEF S
  <2>1. QED
    BY <1>1, <1>11, <1>12, Inductively
<1>14. QED
  BY <1>1, <1>4, <1>13

----------------------------------------------------------------------------
(* What a peer that is asked directly owes.                                   *)

\* n runs, and has been listed for f rightly.
Has(n, f) == n \in up /\ n \in Holders[f] \ Stale[f]

\* What is under way to b is a question put to n about f, or its answer: thread
\* u of q and what it is about to copy.
Fits(q, u, b, n, f) ==
    /\ u.state \in Called /\ u.back = b =>
         q = n /\ u.state = "start" /\ u.route = <<>> /\ u.file = f
    /\ u.state \in Pending /\ c_data[q].back = b =>
         q = n /\ c_data[q].route = <<>> /\ c_data[q].file = f

Direct(b, n, f) ==
    /\ \A r \in requests : r.back = b => r.to = n /\ r.route = <<>> /\ r.file = f
    /\ \A m \in answers : m.to = b => m.answer # Empty
    /\ \A q \in Peers : \A u \in Threads(q) : Fits(q, u, b, n, f)

\* Something is under way to b that does not wait itself.
Owes(q, u, b) ==
    \/ u.state = "start" /\ u.back = b
    \/ u.state \in Pending /\ c_data[q].back = b

Coming(b) ==
    \/ \E r \in requests : r.back = b
    \/ \E m \in answers : m.to = b
    \/ \E q \in Peers : \E u \in Threads(q) : Owes(q, u, b)

\* The thread t by which p asks the node itself, which has the file.
Asking(p, t) ==
    /\ Hosted(t) /\ t.state = "wait" /\ download[p].state = "direct"
    /\ Has(download[p].node, download[p].file)

Answering ==
    \A p \in Peers : \A t \in Threads(p) : Asking(p, t) =>
        /\ Direct(<<p, t.port>>, download[p].node, download[p].file)
        /\ Coming(<<p, t.port>>)

\* A direct question takes the node alone as its route, and a thread that has
\* copied half of a request has what is still in c_data.
Routed ==
    \A p \in Peers : \A t \in Threads(p) :
        /\ Hosted(t) /\ t.state = "start" /\ download[p].state = "direct" =>
             t.route = <<download[p].node>>
        /\ t.state = "copying" => t.route = c_data[p].route /\ t.file = c_data[p].file

\* A file is never lost.
Kept == \A f \in Files : \A n \in Holders[f] \ Stale[f] : disk[n][f] # Absent

\* Whoever has the file is still on the list of nodes.
Tried ==
    late = 0 => \A p \in up : download[p].state # "idle" =>
        \A n \in Peers : Has(n, download[p].file) => n \in download[p].nodes \cup {p}

UInv == TInv /\ Kept /\ Routed /\ Answering /\ Tried /\ Unavailable

----------------------------------------------------------------------------
(* What a step does to a question that is asked directly.                    *)

\* A step that puts nothing else under way to b.
LEMMA DirectStep ==
    ASSUME NEW b, NEW n, NEW f, Direct(b, n, f),
           \A r \in requests' : r \in requests \/ r.back # b,
           \A m \in answers' : m \in answers \/ m.to # b \/ m.answer # Empty,
           \A q \in Peers : \A u \in Threads(q)' :
              (u \in Threads(q) /\ c_data'[q] = c_data[q]) \/ Fits(q, u, b, n, f)'
    PROVE  Direct(b, n, f)'
<1>1. ASSUME NEW q \in Peers, NEW u \in Threads(q)'
      PROVE  Fits(q, u, b, n, f)'
  <2>1. CASE u \in Threads(q) /\ c_data'[q] = c_data[q]
    <3>1. Fits(q, u, b, n, f)
      BY <2>1 DEF Direct
    <3>2. QED
      BY <2>1, <3>1 DEF Fits
  <2>2. QED
    BY <1>1, <2>1
<1>2. \A r \in requests' : r.back = b => r.to = n /\ r.route = <<>> /\ r.file = f
  BY DEF Direct
<1>3. \A m \in answers' : m.to = b => m.answer # Empty
  BY DEF Direct
<1>4. QED
  BY <1>1, <1>2, <1>3 DEF Direct

\* A thread waits for what is under way to b.
Waits(b) == \E p \in Peers : \E t \in Threads(p) : t.state = "wait" /\ b = <<p, t.port>>

LEMMA WaitsFacts ==
    ASSUME TInv, NEW b, Waits(b)
    PROVE  /\ b[1] \in up /\ b[2] # host
           /\ \A q \in up : pool[q] # <<>> => b # <<q, Head(pool[q])>>
<1>1. PICK p \in Peers : \E t \in Threads(p) : t.state = "wait" /\ b = <<p, t.port>>
  BY DEF Waits
<1>2. PICK t \in Threads(p) : t.state = "wait" /\ b = <<p, t.port>>
  BY <1>1
<1>3. PICK i \in DOMAIN threads[p] : t = threads[p][i]
  BY DEF Threads
<1>4. /\ p \in up /\ t \in Thread /\ pool[p] \in Seq(Ports)
      /\ PortsOf(threads[p], pool[p])
  BY <1>3, ThreadTypes
<1>5. t.port \in Ports
  BY <1>2, <1>4 DEF Thread
<1>6. b[1] = p /\ b[2] = t.port
  BY <1>2
<1>7. b[2] # host
  BY <1>5, <1>6 DEF Ports, host
<1>8. ASSUME NEW q \in up, pool[q] # <<>>, b = <<q, Head(pool[q])>>
      PROVE  FALSE
  <2>1. q = p /\ t.port = Head(pool[p])
    BY <1>6, <1>8
  <2>2. 1 \in DOMAIN pool[p] /\ Head(pool[p]) = pool[p][1]
    BY <1>4, <1>8, <2>1, Tailed
  <2>3. QED
    BY <1>2, <1>3, <1>4, <2>1, <2>2 DEF PortsOf
<1>9. QED
  BY <1>4, <1>6, <1>7, <1>8

\* What the return of thread t of p makes of the threads, and what it sends.
Returned(p, t, a, inFlight) ==
    /\ \A u \in Threads(p)' :
         \/ u \in Threads(p)
         \/ /\ u.back = t.back /\ u.state = "start" /\ t.back[2] = host
            /\ u.route = <<download[p].node>>
    /\ t.back[2] = host => \A u \in Threads(p)' : Hosted(u) =>
         u.state = "start" /\ u.route = <<download[p].node>>
    /\ \A u \in Threads(p) : u = t \/ u \in Threads(p)'
    /\ \A q \in Peers \ {p} : Threads(q)' = Threads(q)
    /\ t.state = "wait" =>
         \A u \in Threads(p)' : u.state = "wait" => u.port # t.port
    /\ inFlight \subseteq answers'
    /\ \A m \in answers' :
         m \in inFlight \/ (m.to = t.back /\ m.answer = a /\ t.back[2] # host)
    /\ t.back[2] # host /\ t.back[1] \in up =>
         [to |-> t.back, answer |-> a] \in answers'

LEMMA ReturnThreads ==
    ASSUME TInv, NEW p \in Peers, NEW i \in DOMAIN threads[p], NEW a,
           NEW inFlight, Return(p, i, a, inFlight),
           NEW t, t = threads[p][i], t.state \in Called
    PROVE  Returned(p, t, a, inFlight)
<1> DEFINE rest == RemoveAt(threads[p], i)
           again == [t EXCEPT !.state = "start", !.port = host,
                              !.route = <<download[p].node>>]
           At(k) == IF k < i THEN k ELSE k + 1
           Made(s) ==
             /\ threads' = [threads EXCEPT ![p] = s]
             /\ \A k \in DOMAIN s : (\E j \in DOMAIN rest : s[k] = rest[j])
                                       \/ (s[k] = again /\ t.back[2] = host)
             /\ \A j \in DOMAIN rest : \E k \in DOMAIN s : s[k] = rest[j]
<1>1. /\ threads[p] \in Seq(Thread) /\ t \in Thread
      /\ threads \in [Peers -> Seq(Thread)]
      /\ PortsOf(threads[p], pool[p])
  BY ThreadTypes DEF TInv, Types
<1>2. /\ rest \in Seq(Thread)
      /\ \A k \in DOMAIN rest : At(k) \in DOMAIN threads[p] \ {i} /\ rest[k] = threads[p][At(k)]
      /\ \A j \in DOMAIN threads[p] \ {i} : \E k \in DOMAIN rest : j = At(k)
  BY <1>1, Removed
<1>3. /\ again.back = t.back /\ again.state = "start"
      /\ again.route = <<download[p].node>>
  BY <1>1 DEF Thread
<1> HIDE DEF rest, again, At
<1>4. PICK s : Made(s)
  <2>1. CASE threads' = [threads EXCEPT ![p] = rest]
    <3>1. Made(rest)
      BY <2>1
    <3> HIDE DEF Made
    <3>2. QED
      BY <3>1
  <2>2. CASE /\ threads' = [[threads EXCEPT ![p] = rest] EXCEPT ![p] = Append(@, again)]
             /\ t.back[2] = host
    <3>1. PICK s : s = Append(rest, again)
      OBVIOUS
    <3>2. threads' = [threads EXCEPT ![p] = s]
      BY <1>1, <2>2, <3>1
    <3>3. \A k \in DOMAIN s : (\E j \in DOMAIN rest : s[k] = rest[j]) \/ s[k] = again
      BY <1>2, <3>1, AppendProperties, LenProperties
    <3>4. \A j \in DOMAIN rest : \E k \in DOMAIN s : s[k] = rest[j]
      BY <1>2, <3>1, AppendProperties, LenProperties
    <3>5. Made(s)
      BY <2>2, <3>2, <3>3, <3>4
    <3> HIDE DEF Made
    <3>6. QED
      BY <3>5
  <2> HIDE DEF Made
  <2>3. QED
    BY <2>1, <2>2 DEF Return, rest, again
<1>5. /\ Threads(p)' = {s[k] : k \in DOMAIN s}
      /\ \A q \in Peers \ {p} : Threads(q)' = Threads(q)
  BY <1>1, <1>4, ThreadsOf
<1>6. \A k \in DOMAIN rest : rest[k] \in Threads(p)
  BY <1>2 DEF Threads
<1>7. \A u \in Threads(p)' :
        \/ u \in Threads(p)
        \/ /\ u.back = t.back /\ u.state = "start" /\ t.back[2] = host
           /\ u.route = <<download[p].node>>
  BY <1>3, <1>4, <1>5, <1>6
<1>8. ASSUME NEW u \in Threads(p), u # t
      PROVE  u \in Threads(p)'
  <2>1. PICK j \in DOMAIN threads[p] : u = threads[p][j]
    BY DEF Threads
  <2>2. j \in DOMAIN threads[p] \ {i}
    BY <1>8, <2>1
  <2>3. PICK k \in DOMAIN rest : j = At(k)
    BY <1>2, <2>2
  <2>4. rest[k] = u
    BY <1>2, <2>1, <2>3
  <2>5. QED
    BY <1>4, <1>5, <2>4
<1>9. ASSUME t.state = "wait", NEW u \in Threads(p)', u.state = "wait", u.port = t.port
      PROVE  FALSE
  <2>1. PICK k \in DOMAIN rest : u = rest[k]
    BY <1>3, <1>4, <1>5, <1>9
  <2>2. PICK j \in DOMAIN threads[p] : j # i /\ u = threads[p][j]
    BY <1>2, <2>1
  <2>3. QED
    BY <1>1, <1>9, <2>2 DEF PortsOf
<1>10. /\ inFlight \subseteq answers'
       /\ \A m \in answers' :
            m \in inFlight \/ (m.to = t.back /\ m.answer = a /\ t.back[2] # host)
       /\ t.back[2] # host /\ t.back[1] \in up =>
            [to |-> t.back, answer |-> a] \in answers'
  <2>1. CASE t.back[2] = host
    BY <2>1 DEF Return
  <2>2. CASE t.back[2] # host
    BY <2>2 DEF Return
  <2>3. QED
    BY <2>1, <2>2
<1>11. ASSUME t.back[2] = host, NEW u \in Threads(p)', Hosted(u)
       PROVE  u.state = "start" /\ u.route = <<download[p].node>>
  <2>1. Calls(p, threads[p], download[p]) /\ Hosted(t)
    BY <1>11, ThreadTypes DEF Hosted
  <2>2. \A k \in DOMAIN rest : ~Hosted(rest[k])
    BY <1>1, <2>1, CallsRemove DEF rest
  <2>3. u = again
    BY <1>4, <1>5, <1>11, <2>2
  <2>4. QED
    BY <1>3, <2>3
<1>12. QED
  BY <1>5, <1>7, <1>8, <1>9, <1>10, <1>11 DEF Returned

\* A return leaves what is asked for directly under way.
LEMMA ReturnAsked ==
    ASSUME TInv, NEW p \in Peers, NEW i \in DOMAIN threads[p],
           NEW a, NEW inFlight \in SUBSET answers,
           Return(p, i, a, inFlight), UNCHANGED <<c_data, requests>>,
           NEW t, t = threads[p][i], t.state \in Called,
           NEW b, NEW n, NEW f, Direct(b, n, f), Coming(b), Waits(b),
           \A m \in answers \ inFlight : m.to # b,
           t.back = b => a # Empty
    PROVE  Direct(b, n, f)' /\ Coming(b)'
<1>1. b[1] \in up /\ b[2] # host
  BY WaitsFacts
<1>2. Returned(p, t, a, inFlight)
  BY ReturnThreads
<1>3. ASSUME NEW q \in Peers, NEW u \in Threads(q)'
      PROVE  (u \in Threads(q) /\ c_data'[q] = c_data[q]) \/ Fits(q, u, b, n, f)'
  <2>1. CASE u \in Threads(q)
    BY <2>1
  <2>2. CASE u \notin Threads(q)
    <3>1. u.back = t.back /\ u.state = "start" /\ t.back[2] = host
      BY <1>2, <1>3, <2>2 DEF Returned
    <3>2. QED
      BY <1>1, <3>1 DEF Fits, Pending
  <2>3. QED
    BY <2>1, <2>2
<1>4. Direct(b, n, f)'
  <2>1. \A m \in answers' : m \in answers \/ m.to # b \/ m.answer # Empty
    BY <1>2 DEF Returned
  <2>2. QED
    BY <1>3, <2>1, DirectStep
<1>5. Coming(b)'
  <2>1. CASE \E r \in requests : r.back = b
    BY <2>1 DEF Coming
  <2>2. CASE \E m \in answers : m.to = b
    <3>1. PICK m \in answers : m.to = b
      BY <2>2
    <3>2. m \in answers'
      BY <1>2, <3>1 DEF Returned
    <3>3. QED
      BY <3>1, <3>2 DEF Coming
  <2>3. CASE \E q \in Peers : \E u \in Threads(q) : Owes(q, u, b)
    <3>1. PICK q \in Peers : \E u \in Threads(q) : Owes(q, u, b)
      BY <2>3
    <3>2. PICK u \in Threads(q) : Owes(q, u, b)
      BY <3>1
    <3>3. CASE u \in Threads(q)'
      <4>1. Owes(q, u, b)'
        BY <3>2 DEF Owes
      <4>2. QED
        BY <3>3, <4>1 DEF Coming
    <3>4. CASE u \notin Threads(q)'
      <4>1. u = t
        BY <1>2, <3>2, <3>4 DEF Returned
      <4>2. t.back = b
        BY <3>2, <4>1 DEF Owes, Called, Pending
      <4>3. PICK m : m = [to |-> t.back, answer |-> a]
        OBVIOUS
      <4>4. m \in answers' /\ m.to = b
        BY <1>1, <1>2, <4>2, <4>3 DEF Returned
      <4>5. QED
        BY <4>4 DEF Coming
    <3>5. QED
      BY <3>3, <3>4
  <2>4. QED
    BY <2>1, <2>2, <2>3 DEF Coming
<1>6. QED
  BY <1>4, <1>5

LEMMA EmptyAlone == Empty \notin Contents
<1>1. ASSUME Empty = Spoilt
      PROVE  FALSE
  <2>1. {Absent, Spoilt, Empty} = {Absent} \cup {Empty}
    BY <1>1
  <2>2. IsFiniteSet({Absent}) /\ Cardinality({Absent}) = 1
    BY FS_Singleton
  <2>3. Cardinality({Absent} \cup {Empty}) \in {1, 2}
    BY <2>2, FS_AddElement
  <2>4. PICK S : S = {Absent, Spoilt, Empty}
    OBVIOUS
  <2>5. Cardinality(S) = 3
    BY <2>4, DownloadAssumption
  <2>6. Cardinality(S) \in {1, 2}
    BY <2>1, <2>3, <2>4
  <2>7. QED
    BY <2>5, <2>6
<1>2. QED
  BY <1>1, DownloadAssumption DEF Contents

\* The peer that is asked finds the file.
LEMMA FindAsked ==
    ASSUME TInv, Kept, NEW p \in Peers, NEW i \in DOMAIN threads[p], FindLocally(p, i),
           NEW b, NEW n, NEW f \in Files, Direct(b, n, f), Coming(b), Waits(b), Has(n, f)
    PROVE  Direct(b, n, f)' /\ Coming(b)'
<1>1. PICK t, a : t = threads[p][i] /\ a = PackFileInfo(p, t.file)
  OBVIOUS
<1>2. /\ t.state \in Called /\ t \in Threads(p)
      /\ Return(p, i, a, answers) /\ UNCHANGED <<c_data, requests>>
  BY <1>1 DEF FindLocally, Called, Threads
<1>3. ASSUME t.back = b
      PROVE  a # Empty
  <2>1. p = n /\ t.file = f
    BY <1>2, <1>3 DEF Direct, Fits
  <2>2. disk[p][f] # Absent /\ disk[p][f] \in Contents \cup {Absent}
    BY <2>1 DEF Has, Kept, TInv, Types
  <2>3. QED
    BY <1>1, <2>1, <2>2, EmptyAlone DEF PackFileInfo
<1>4. answers \in SUBSET answers /\ \A m \in answers \ answers : m.to # b
  OBVIOUS
<1>5. QED
  BY <1>1, <1>2, <1>3, <1>4, ReturnAsked

LEMMA EndsAsked ==
    ASSUME TInv, NEW p \in Peers, Ends(p), UNCHANGED c_data,
           NEW b, NEW n, NEW f, Direct(b, n, f), Coming(b), Waits(b)', Has(n, f)'
    PROVE  Direct(b, n, f)' /\ Coming(b)'
<1>1. /\ threads' = [threads EXCEPT ![p] = <<>>] /\ up' = up \ {p}
      /\ requests' = {r \in requests : r.to # p}
      /\ answers' = {m \in answers : m.to[1] # p}
  BY DEF Ends
<1>2. /\ Threads(p)' = {} /\ \A q \in Peers \ {p} : Threads(q)' = Threads(q)
  BY <1>1, EmptySeq DEF TInv, Types, Threads
<1>3. p # n
  BY <1>1 DEF Has
<1>4. p # b[1]
  <2>1. PICK q \in Peers : \E t \in Threads(q)' : b = <<q, t.port>>
    BY DEF Waits
  <2>2. q # p /\ b[1] = q
    BY <1>2, <2>1
  <2>3. QED
    BY <2>2
<1>5. Direct(b, n, f)'
  <2>1. \A q \in Peers : \A u \in Threads(q)' : u \in Threads(q) /\ c_data'[q] = c_data[q]
    BY <1>2
  <2>2. QED
    BY <1>1, <2>1, DirectStep
<1>6. Coming(b)'
  <2>1. CASE \E r \in requests : r.back = b
    <3>1. PICK r \in requests : r.back = b
      BY <2>1
    <3>2. r.to = n
      BY <3>1 DEF Direct
    <3>3. r \in requests'
      BY <1>1, <1>3, <3>2
    <3>4. QED
      BY <3>1, <3>3 DEF Coming
  <2>2. CASE \E m \in answers : m.to = b
    BY <1>1, <1>4, <2>2 DEF Coming
  <2>3. CASE \E q \in Peers : \E u \in Threads(q) : Owes(q, u, b)
    <3>1. PICK q \in Peers : \E u \in Threads(q) : Owes(q, u, b)
      BY <2>3
    <3>2. PICK u \in Threads(q) : Owes(q, u, b)
      BY <3>1
    <3>3. q = n
      BY <3>2 DEF Direct, Fits, Owes, Called
    <3>4. u \in Threads(q)' /\ Owes(q, u, b)'
      BY <1>2, <1>3, <3>2, <3>3 DEF Owes
    <3>5. QED
      BY <3>4 DEF Coming
  <2>4. QED
    BY <2>1, <2>2, <2>3 DEF Coming
<1>7. QED
  BY <1>5, <1>6

\* A thread that waits is not asked directly, and takes no answer but its own.
LEMMA WaitAsked ==
    ASSUME TInv, NEW p \in Peers, NEW i \in DOMAIN threads[p],
           Timeout(p, i) \/ \E m \in answers : Receive(p, i, m),
           NEW b, NEW n, NEW f, Direct(b, n, f), Coming(b),
           Waits(b), Waits(b)', Has(n, f)'
    PROVE  Direct(b, n, f)' /\ Coming(b)'
<1>1. PICK t : t = threads[p][i]
  OBVIOUS
<1>2. t.state = "wait" /\ t.state \in Called /\ t \in Threads(p)
  BY <1>1 DEF Timeout, Receive, Called, Threads
<1>3. t.back # b
  BY <1>2 DEF Direct, Fits
<1>4. PICK a, inFlight :
        /\ inFlight \subseteq answers
        /\ \A m \in answers \ inFlight : m.to = <<p, t.port>>
        /\ MayBeNoisy(p, i, a, inFlight)
  <2>1. CASE Timeout(p, i)
    BY <2>1 DEF Timeout
  <2>2. CASE \E m \in answers : Receive(p, i, m)
    <3>1. PICK m \in answers : Receive(p, i, m)
      BY <2>2
    <3>2. /\ answers \ {m} \subseteq answers
          /\ \A o \in answers \ (answers \ {m}) : o.to = <<p, t.port>>
          /\ MayBeNoisy(p, i, m.answer, answers \ {m})
      BY <1>1, <3>1 DEF Receive
    <3>3. QED
      BY <3>2
  <2>3. QED
    BY <2>1, <2>2
<1>5. UNCHANGED c_data
  BY <1>4 DEF MayBeNoisy
<1>6. ASSUME NEW c, Received(p, i, c, inFlight)
      PROVE  Direct(b, n, f)' /\ Coming(b)'
  <2>1. Return(p, i, c, inFlight) /\ UNCHANGED requests
    BY <1>6 DEF Received
  <2>2. \A u \in Threads(p)' : u.state = "wait" => u.port # t.port
    <3>1. Returned(p, t, c, inFlight)
      BY <1>1, <1>2, <2>1, ReturnThreads
    <3>2. QED
      BY <1>2, <3>1 DEF Returned
  <2>3. b # <<p, t.port>>
    BY <2>2 DEF Waits
  <2>4. \A m \in answers \ inFlight : m.to # b
    BY <1>4, <2>3
  <2>5. /\ inFlight \in SUBSET answers /\ UNCHANGED <<c_data, requests>>
        /\ (t.back = b => c # Empty)
    BY <1>3, <1>4, <1>5, <2>1
  <2>6. QED
    BY <1>1, <1>2, <2>1, <2>4, <2>5, ReturnAsked
<1>7. CASE Ends(p)
  BY <1>5, <1>7, EndsAsked
<1>8. QED
  BY <1>4, <1>6, <1>7 DEF MayBeNoisy

\* Thread t of p becomes u, which waits.
Forwarded(p, t, u) ==
    /\ u.state = "wait" /\ u.port = Head(pool[p])
    /\ u.back = t.back /\ u.file = t.file
    /\ \A v \in Threads(p)' : v \in Threads(p) \/ v = u
    /\ \A v \in Threads(p) : v = t \/ v \in Threads(p)'
    /\ \A q \in Peers \ {p} : Threads(q)' = Threads(q)

LEMMA ForwardThreads ==
    ASSUME TInv, NEW p \in Peers, NEW i \in DOMAIN threads[p], Forward(p, i),
           NEW t, t = threads[p][i],
           NEW u, u = [t EXCEPT !.state = "wait", !.port = Head(pool[p])]
    PROVE  Forwarded(p, t, u)
<1>1. PICK s : s = [threads[p] EXCEPT ![i] = u]
  OBVIOUS
<1>2. /\ threads[p] \in Seq(Thread) /\ t \in Thread
      /\ threads \in [Peers -> Seq(Thread)]
  BY ThreadTypes DEF TInv, Types
<1>3. threads' = [threads EXCEPT ![p] = s]
  BY <1>1, <1>2 DEF Forward
<1>4. /\ u.state = "wait" /\ u.port = Head(pool[p])
      /\ u.back = t.back /\ u.file = t.file
  BY <1>2 DEF Thread
<1>5. /\ Threads(p)' = {s[j] : j \in DOMAIN s}
      /\ \A q \in Peers \ {p} : Threads(q)' = Threads(q)
  BY <1>2, <1>3, ThreadsOf
<1>6. /\ DOMAIN s = DOMAIN threads[p] /\ s[i] = u
      /\ \A j \in DOMAIN threads[p] \ {i} : s[j] = threads[p][j]
  BY <1>1
<1>7. \A v \in Threads(p)' : v \in Threads(p) \/ v = u
  BY <1>5, <1>6 DEF Threads
<1>8. ASSUME NEW v \in Threads(p), v # t
      PROVE  v \in Threads(p)'
  <2>1. PICK j \in DOMAIN threads[p] : v = threads[p][j]
    BY DEF Threads
  <2>2. j # i /\ s[j] = v /\ j \in DOMAIN s
    BY <1>6, <1>8, <2>1
  <2>3. QED
    BY <1>5, <2>2
<1>9. QED
  BY <1>4, <1>5, <1>7, <1>8 DEF Forwarded

\* What is forwarded goes to another port.
LEMMA ForwardAsked ==
    ASSUME TInv, NEW p \in Peers, NEW i \in DOMAIN threads[p], Forward(p, i),
           NEW b, NEW n, NEW f, Direct(b, n, f), Coming(b), Waits(b)
    PROVE  Direct(b, n, f)' /\ Coming(b)'
<1>1. PICK t, k, u : /\ t = threads[p][i] /\ k = Head(pool[p])
                     /\ u = [t EXCEPT !.state = "wait", !.port = Head(pool[p])]
  OBVIOUS
<1>2. t \in Threads(p) /\ p \in up
  BY <1>1, ThreadTypes DEF Threads
<1>3. /\ t.state = "start" /\ t.route # <<>> /\ pool[p] # <<>>
      /\ UNCHANGED <<c_data, answers>>
      /\ requests \subseteq requests'
      /\ \A r \in requests' : r \in requests \/ r.back = <<p, k>>
  <2>1. /\ t.state = "start" /\ t.route # <<>> /\ pool[p] # <<>>
        /\ UNCHANGED <<c_data, answers>>
    BY <1>1 DEF Forward
  <2>2. PICK r : r = [to |-> Head(t.route), route |-> Tail(t.route),
                      file |-> t.file, back |-> <<p, k>>]
    OBVIOUS
  <2>3. requests' = requests \/ requests' = requests \cup {r}
    BY <1>1, <2>2 DEF Forward
  <2>4. r.back = <<p, k>>
    BY <2>2
  <2>5. QED
    BY <2>1, <2>3, <2>4
<1>4. /\ u.state = "wait" /\ u.back = t.back
      /\ \A v \in Threads(p)' : v \in Threads(p) \/ v = u
      /\ \A v \in Threads(p) : v = t \/ v \in Threads(p)'
      /\ \A q \in Peers \ {p} : Threads(q)' = Threads(q)
  <2>1. Forwarded(p, t, u)
    BY <1>1, ForwardThreads
  <2>2. QED
    BY <2>1 DEF Forwarded
<1>5. t.back # b
  BY <1>2, <1>3 DEF Direct, Fits, Called
<1>6. b # <<p, k>>
  BY <1>1, <1>2, <1>3, WaitsFacts
<1>8. Direct(b, n, f)'
  <2>1. \A q \in Peers : \A v \in Threads(q)' :
          (v \in Threads(q) /\ c_data'[q] = c_data[q]) \/ Fits(q, v, b, n, f)'
    BY <1>3, <1>4, <1>5 DEF Fits, Pending
  <2>2. QED
    BY <1>3, <1>6, <2>1, DirectStep
<1>9. Coming(b)'
  <2>1. CASE (\E r \in requests : r.back = b) \/ (\E m \in answers : m.to = b)
    BY <1>3, <2>1 DEF Coming
  <2>2. CASE \E q \in Peers : \E v \in Threads(q) : Owes(q, v, b)
    <3>1. PICK q \in Peers : \E v \in Threads(q) : Owes(q, v, b)
      BY <2>2
    <3>2. PICK v \in Threads(q) : Owes(q, v, b)
      BY <3>1
    <3>3. v # t
      BY <1>3, <1>5, <3>2 DEF Owes, Pending
    <3>4. v \in Threads(q)' /\ Owes(q, v, b)'
      BY <1>3, <1>4, <3>2, <3>3 DEF Owes
    <3>5. QED
      BY <3>4 DEF Coming
  <2>3. QED
    BY <2>1, <2>2 DEF Coming
<1>10. QED
  BY <1>8, <1>9

\* A thread of p becomes u.
Turned(p, t, u) ==
    /\ u \in Threads(p)'
    /\ \A v \in Threads(p)' : v \in Threads(p) \/ v = u
    /\ \A v \in Threads(p) : v = t \/ v \in Threads(p)'
    /\ \A q \in Peers \ {p} : Threads(q)' = Threads(q)

LEMMA ThreadTurned ==
    ASSUME TInv, NEW p \in Peers, NEW i \in DOMAIN threads[p], NEW t, t = threads[p][i],
           NEW u, NowThreads(p, [threads[p] EXCEPT ![i] = u])
    PROVE  Turned(p, t, u)
<1>1. PICK s : s = [threads[p] EXCEPT ![i] = u]
  OBVIOUS
<1>2. /\ Threads(p)' = {s[j] : j \in DOMAIN s}
      /\ \A q \in Peers \ {p} : Threads(q)' = Threads(q)
  <2>1. threads' = [threads EXCEPT ![p] = s] /\ threads \in [Peers -> Seq(Thread)]
    BY <1>1 DEF NowThreads, TInv, Types
  <2>2. QED
    BY <2>1, ThreadsOf
<1>3. /\ DOMAIN s = DOMAIN threads[p] /\ s[i] = u
      /\ \A j \in DOMAIN threads[p] \ {i} : s[j] = threads[p][j]
  BY <1>1
<1>4. \A v \in Threads(p)' : v \in Threads(p) \/ v = u
  BY <1>2, <1>3 DEF Threads
<1>5. ASSUME NEW v \in Threads(p), v # t
      PROVE  v \in Threads(p)'
  <2>1. PICK j \in DOMAIN threads[p] : v = threads[p][j]
    BY DEF Threads
  <2>2. j # i /\ s[j] = v /\ j \in DOMAIN s
    BY <1>3, <1>5, <2>1
  <2>3. QED
    BY <1>2, <2>2
<1>6. u \in Threads(p)'
  BY <1>2, <1>3
<1>7. QED
  BY <1>2, <1>4, <1>5, <1>6 DEF Turned

\* A thread of p that owes something to b hands that over to what it becomes.
LEMMA TurnAsked ==
    ASSUME NEW p \in Peers, NEW t, NEW u, Turned(p, t, u),
           UNCHANGED <<c_data, requests, answers>>,
           NEW b, NEW n, NEW f, Direct(b, n, f), Coming(b),
           Fits(p, u, b, n, f)', Owes(p, t, b) => Owes(p, u, b)'
    PROVE  Direct(b, n, f)' /\ Coming(b)'
<1>1. \A q \in Peers : \A v \in Threads(q)' :
        (v \in Threads(q) /\ c_data'[q] = c_data[q]) \/ Fits(q, v, b, n, f)'
  BY DEF Turned
<1>2. Direct(b, n, f)'
  BY <1>1, DirectStep
<1>3. Coming(b)'
  <2>1. CASE (\E r \in requests : r.back = b) \/ (\E m \in answers : m.to = b)
    BY <2>1 DEF Coming
  <2>2. CASE \E q \in Peers : \E v \in Threads(q) : Owes(q, v, b)
    <3>1. PICK q \in Peers : \E v \in Threads(q) : Owes(q, v, b)
      BY <2>2
    <3>2. PICK v \in Threads(q) : Owes(q, v, b)
      BY <3>1
    <3>3. CASE v \in Threads(q)'
      <4>1. Owes(q, v, b)'
        BY <3>2 DEF Owes
      <4>2. QED
        BY <3>3, <4>1 DEF Coming
    <3>4. CASE v \notin Threads(q)'
      <4>1. q = p /\ v = t
        BY <3>2, <3>4 DEF Turned
      <4>2. u \in Threads(p)' /\ Owes(p, u, b)'
        BY <3>2, <4>1 DEF Turned
      <4>3. QED
        BY <4>2 DEF Coming
    <3>5. QED
      BY <3>3, <3>4
  <2>3. QED
    BY <2>1, <2>2 DEF Coming
<1>4. QED
  BY <1>2, <1>3

\* The thread copies what was asked, nothing else having come meanwhile.
LEMMA CopyAsked ==
    ASSUME TInv, Routed, NEW p \in Peers, NEW i \in DOMAIN threads[p],
           CopyRequest(p, i) \/ CopyBack(p, i),
           NEW b, NEW n, NEW f, Direct(b, n, f), Coming(b)
    PROVE  Direct(b, n, f)' /\ Coming(b)'
<1>1. PICK t : t = threads[p][i]
  OBVIOUS
<1>2. /\ t \in Thread /\ t \in Threads(p) /\ threads \in [Peers -> Seq(Thread)]
  BY <1>1, ThreadTypes DEF TInv, Types, Threads
<1>3. Fits(p, t, b, n, f)
  BY <1>2 DEF Direct
<1>4. UNCHANGED <<c_data, requests, answers>>
  BY DEF CopyRequest, CopyBack
<1>5. CASE CopyRequest(p, i)
  <2>1. PICK u : u = [t EXCEPT !.state = "copying", !.route = c_data[p].route,
                                !.file = c_data[p].file]
    OBVIOUS
  <2>2. u.state = "copying"
    BY <1>2, <2>1 DEF Thread
  <2>3. NowThreads(p, [threads[p] EXCEPT ![i] = u]) /\ t.state = "born"
    BY <1>1, <1>2, <1>5, <2>1 DEF CopyRequest, NowThreads
  <2>4. Turned(p, t, u)
    BY <1>1, <2>3, ThreadTurned
  <2>5. Fits(p, u, b, n, f)'
    BY <1>3, <1>4, <2>2, <2>3 DEF Fits, Pending, Called
  <2>6. Owes(p, t, b) => Owes(p, u, b)'
    BY <1>4, <2>2, <2>3 DEF Owes, Pending
  <2>7. QED
    BY <1>4, <2>4, <2>5, <2>6, TurnAsked
<1>6. CASE CopyBack(p, i)
  <2>1. PICK u : u = [t EXCEPT !.state = "start", !.back = c_data[p].back]
    OBVIOUS
  <2>2. /\ u.state = "start" /\ u.back = c_data[p].back
        /\ u.file = t.file /\ u.route = t.route
    BY <1>2, <2>1 DEF Thread
  <2>3. NowThreads(p, [threads[p] EXCEPT ![i] = u]) /\ t.state = "copying"
    BY <1>1, <1>2, <1>6, <2>1 DEF CopyBack, NowThreads
  <2>4. Turned(p, t, u)
    BY <1>1, <2>3, ThreadTurned
  <2>5. t.route = c_data[p].route /\ t.file = c_data[p].file
    BY <1>2, <2>3 DEF Routed
  <2>6. Fits(p, u, b, n, f)'
    BY <1>3, <1>4, <2>2, <2>3, <2>5 DEF Fits, Pending, Called
  <2>7. Owes(p, t, b) => Owes(p, u, b)'
    BY <1>4, <2>2, <2>3 DEF Owes, Pending
  <2>8. QED
    BY <1>4, <2>4, <2>6, <2>7, TurnAsked
<1>7. QED
  BY <1>5, <1>6

\* A thread is added to p.
Added(p, u) ==
    /\ u \in Threads(p)' /\ Threads(p) \subseteq Threads(p)'
    /\ \A v \in Threads(p)' : v \in Threads(p) \/ v = u
    /\ \A q \in Peers \ {p} : Threads(q)' = Threads(q)

LEMMA ThreadAdded ==
    ASSUME TInv, NEW p \in Peers, NEW u, NowThreads(p, Append(threads[p], u))
    PROVE  Added(p, u)
<1>1. PICK s : s = Append(threads[p], u)
  OBVIOUS
<1>2. /\ Threads(p)' = {s[j] : j \in DOMAIN s}
      /\ \A q \in Peers \ {p} : Threads(q)' = Threads(q)
  <2>1. threads' = [threads EXCEPT ![p] = s] /\ threads \in [Peers -> Seq(Thread)]
    BY <1>1 DEF NowThreads, TInv, Types
  <2>2. QED
    BY <2>1, ThreadsOf
<1>3. /\ DOMAIN s = DOMAIN threads[p] \cup {Len(threads[p]) + 1}
      /\ \A j \in DOMAIN threads[p] : s[j] = threads[p][j]
      /\ s[Len(threads[p]) + 1] = u
  <2>1. threads[p] \in Seq(Thread)
    BY DEF TInv, Types
  <2>2. QED
    BY <1>1, <2>1, LenProperties, AppendProperties
<1>4. u \in Threads(p)'
  BY <1>2, <1>3
<1>5. Threads(p) \subseteq Threads(p)'
  BY <1>2, <1>3 DEF Threads
<1>6. \A v \in Threads(p)' : v \in Threads(p) \/ v = u
  BY <1>2, <1>3 DEF Threads
<1>7. QED
  BY <1>2, <1>4, <1>5, <1>6 DEF Added

\* A request is handed to a thread, nothing else being handed to one meanwhile.
LEMMA ListenAsked ==
    ASSUME TInv, ~Overlap, NEW r \in requests, Listen(r),
           NEW b, NEW n, NEW f, Direct(b, n, f), Coming(b)
    PROVE  Direct(b, n, f)' /\ Coming(b)'
<1>1. PICK p, data : p = r.to /\ data = [route |-> r.route, file |-> r.file, back |-> r.back]
  OBVIOUS
<1>2. p \in Peers /\ c_data \in [Peers -> {NoData} \cup Sent]
  BY <1>1 DEF TInv, Types, Request
<1>3. /\ requests' = requests \ {r} /\ UNCHANGED answers
      /\ c_data' = [c_data EXCEPT ![p] = data]
      /\ NowThreads(p, Append(threads[p], Born))
      /\ \A t \in Threads(p) : t.state \notin Pending
  <2>1. threads \in [Peers -> Seq(Thread)]
    BY DEF TInv, Types
  <2>2. QED
    BY <1>1, <1>2, <2>1 DEF Listen, Pending, NowThreads
<1>4. /\ c_data'[p] = data /\ \A q \in Peers \ {p} : c_data'[q] = c_data[q]
  BY <1>2, <1>3
<1>5. data.back = r.back /\ data.route = r.route /\ data.file = r.file
  BY <1>1
<1>6. Added(p, Born)
  BY <1>2, <1>3, ThreadAdded
<1>7. Born.state = "born" /\ Born.state \in Pending /\ Born.state \notin Called
  BY DEF Born, Pending, Called
<1>8. r.back = b => p = n /\ r.route = <<>> /\ r.file = f
  BY <1>1 DEF Direct
<1>9. ASSUME NEW q \in Peers, NEW v \in Threads(q)'
      PROVE  (v \in Threads(q) /\ c_data'[q] = c_data[q]) \/ Fits(q, v, b, n, f)'
  <2>1. CASE q # p
    BY <1>4, <1>6, <1>9, <2>1 DEF Added
  <2>2. CASE q = p /\ v = Born
    BY <1>4, <1>5, <1>7, <1>8, <2>2 DEF Fits
  <2>3. CASE q = p /\ v \in Threads(p)
    <3>1. v.state \notin Pending /\ Fits(p, v, b, n, f)
      BY <1>2, <1>3, <2>3 DEF Direct
    <3>2. QED
      BY <2>3, <3>1 DEF Fits
  <2>4. QED
    BY <1>6, <1>9, <2>1, <2>2, <2>3 DEF Added
<1>10. Direct(b, n, f)'
  BY <1>3, <1>9, DirectStep
<1>11. Coming(b)'
  <2>1. CASE r.back = b
    <3>1. Owes(p, Born, b)' /\ Born \in Threads(p)'
      BY <1>4, <1>5, <1>6, <1>7, <2>1 DEF Owes, Added
    <3>2. QED
      BY <1>2, <3>1 DEF Coming
  <2>2. CASE r.back # b /\ \E x \in requests : x.back = b
    BY <1>3, <2>2 DEF Coming
  <2>3. CASE \E m \in answers : m.to = b
    BY <1>3, <2>3 DEF Coming
  <2>4. CASE \E q \in Peers : \E v \in Threads(q) : Owes(q, v, b)
    <3>1. PICK q \in Peers : \E v \in Threads(q) : Owes(q, v, b)
      BY <2>4
    <3>2. PICK v \in Threads(q) : Owes(q, v, b)
      BY <3>1
    <3>3. v \in Threads(q)'
      BY <1>6, <3>2 DEF Added
    <3>4. Owes(q, v, b)'
      <4>1. CASE q = p
        BY <1>3, <3>2, <4>1 DEF Owes
      <4>2. CASE q # p
        BY <1>4, <3>2, <4>2 DEF Owes
      <4>3. QED
        BY <4>1, <4>2
    <3>5. QED
      BY <3>3, <3>4 DEF Coming
  <2>5. QED
    BY <2>1, <2>2, <2>3, <2>4 DEF Coming
<1>12. QED
  BY <1>10, <1>11

\* A call of Download itself has nothing to do with b.
LEMMA CallAsked ==
    ASSUME TInv, NEW p \in Peers, GetMinLoadNode(p),
           NEW b, NEW n, NEW f, Direct(b, n, f), Coming(b), Waits(b)
    PROVE  Direct(b, n, f)' /\ Coming(b)'
<1>1. UNCHANGED <<c_data, requests, answers>> /\ threads \in [Peers -> Seq(Thread)]
  BY DEF GetMinLoadNode, TInv, Types
<1>2. \/ UNCHANGED threads
      \/ \E route : NowThreads(p, Append(threads[p], Ripple(p, download[p].file, route)))
  <2>1. PICK k \in download[p].nodes :
          UNCHANGED threads \/ Call(p, "ripple", k, Addresses(p, k))
    BY DEF GetMinLoadNode
  <2>2. CASE Call(p, "ripple", k, Addresses(p, k))
    <3>1. NowThreads(p, Append(threads[p], Ripple(p, download[p].file, Addresses(p, k))))
      BY <1>1, <2>2 DEF Call, NowThreads, Ripple
    <3>2. QED
      BY <3>1
  <2>3. QED
    BY <2>1, <2>2
<1>3. \A q \in Peers : Threads(q) \subseteq Threads(q)' /\
        \A v \in Threads(q)' : v \in Threads(q) \/ (v.state = "start" /\ v.back[2] = host)
  <2>1. CASE UNCHANGED threads
    BY <2>1 DEF Threads
  <2>2. CASE \E route : NowThreads(p, Append(threads[p], Ripple(p, download[p].file, route)))
    <3>1. PICK u : /\ NowThreads(p, Append(threads[p], u))
                   /\ u.state = "start" /\ u.back[2] = host
      BY <2>2 DEF Ripple
    <3>2. Added(p, u)
      BY <3>1, ThreadAdded
    <3>3. QED
      BY <3>1, <3>2 DEF Added
  <2>3. QED
    BY <1>2, <2>1, <2>2
<1>4. b[2] # host
  BY WaitsFacts
<1>5. \A q \in Peers : \A v \in Threads(q)' :
        (v \in Threads(q) /\ c_data'[q] = c_data[q]) \/ Fits(q, v, b, n, f)'
  BY <1>1, <1>3, <1>4 DEF Fits, Pending
<1>6. Direct(b, n, f)'
  BY <1>1, <1>5, DirectStep
<1>7. Coming(b)'
  BY <1>1, <1>3 DEF Coming, Owes
<1>8. QED
  BY <1>6, <1>7

\* What is waited for is not discarded.
LEMMA DiscardAsked ==
    ASSUME TInv, NEW m \in answers, Discard(m),
           NEW b, NEW n, NEW f, Direct(b, n, f), Coming(b), Waits(b)
    PROVE  Direct(b, n, f)' /\ Coming(b)'
<1>1. /\ UNCHANGED <<c_data, requests, threads>> /\ answers' = answers \ {m}
      /\ \A t \in Threads(m.to[1]) : ~(t.state = "wait" /\ t.port = m.to[2])
  BY DEF Discard
<1>2. m.to # b
  BY <1>1 DEF Waits
<1>3. \A q \in Peers : Threads(q)' = Threads(q)
  BY <1>1 DEF Threads
<1>4. \A q \in Peers : \A v \in Threads(q)' :
        (v \in Threads(q) /\ c_data'[q] = c_data[q]) \/ Fits(q, v, b, n, f)'
  BY <1>1, <1>3
<1>5. Direct(b, n, f)'
  BY <1>1, <1>4, DirectStep
<1>6. Coming(b)'
  BY <1>1, <1>2, <1>3 DEF Coming, Owes
<1>7. QED
  BY <1>5, <1>6

\* What only shrinks, and what only grows.
LEMMA OneWay ==
    ASSUME TInv, [Next]_vars
    PROVE  up' \subseteq up /\ (late' = 0 => late = 0)
<1>1. late \in Nat
  BY DownloadAssumption DEF TInv, Types
<1>2. CASE \E p \in Peers : Download(p) \/ GiveUp(p) \/ GetMinLoadNode(p) \/ Crash(p)
  BY <1>2 DEF Download, GiveUp, GetMinLoadNode, Crash, Ends
<1>3. CASE \E p \in Peers : \E i \in DOMAIN threads[p] : ThreadStep(p, i) \/ Timeout(p, i)
  <2>0. PICK p \in Peers : \E i \in DOMAIN threads[p] : ThreadStep(p, i) \/ Timeout(p, i)
    BY <1>3
  <2>1. PICK i \in DOMAIN threads[p] : ThreadStep(p, i) \/ Timeout(p, i)
    BY <2>0
  <2>2. CASE FindLocally(p, i) \/ Forward(p, i) \/ CopyRequest(p, i) \/ CopyBack(p, i)
    BY <2>2 DEF FindLocally, Forward, CopyRequest, CopyBack
  <2>3. ASSUME NEW a, NEW inFlight, MayBeNoisy(p, i, a, inFlight)
        PROVE  up' \subseteq up
    BY <2>3 DEF MayBeNoisy, Received, Ends
  <2>4. CASE \E m \in answers : Receive(p, i, m)
    BY <2>3, <2>4 DEF Receive
  <2>5. CASE Timeout(p, i)
    <3>1. late' \in {late, late + 1}
      BY <2>5 DEF Timeout
    <3>2. late' = 0 => late = 0
      BY <1>1, <3>1
    <3>3. QED
      BY <2>3, <2>5, <3>2 DEF Timeout
  <2>6. QED
    BY <2>1, <2>2, <2>4, <2>5 DEF ThreadStep
<1>4. CASE (\E r \in requests : Listen(r)) \/ (\E m \in answers : Discard(m)) \/ UNCHANGED vars
  BY <1>4 DEF Listen, Discard, vars
<1>5. QED
  BY <1>2, <1>3, <1>4 DEF Next, PeerStep

\* A question that was asked directly, and is still waited for, is under way to
\* the node that was asked, or answered with the file.
LEMMA AskedKept ==
    ASSUME TInv, Kept, Routed, ~Overlap, [Next]_vars,
           NEW b, NEW n, NEW f \in Files, Direct(b, n, f), Coming(b),
           Waits(b), Waits(b)', Has(n, f)'
    PROVE  Direct(b, n, f)' /\ Coming(b)'
<1>1. Has(n, f)
  BY OneWay DEF Has
<1>2. CASE UNCHANGED <<threads, c_data, requests, answers>>
  <2>1. \A q \in Peers : Threads(q)' = Threads(q)
    BY <1>2 DEF Threads
  <2>2. \A q \in Peers : \A u \in Threads(q)' :
          (u \in Threads(q) /\ c_data'[q] = c_data[q]) \/ Fits(q, u, b, n, f)'
    BY <1>2, <2>1
  <2>3. Direct(b, n, f)'
    BY <1>2, <2>2, DirectStep
  <2>4. Coming(b)'
    BY <1>2, <2>1 DEF Coming, Owes
  <2>5. QED
    BY <2>3, <2>4
<1>3. CASE \E p \in Peers : Download(p) \/ GiveUp(p)
  BY <1>2, <1>3 DEF Download, GiveUp
<1>4. CASE \E p \in Peers : Crash(p)
  BY <1>4, EndsAsked DEF Crash
<1>5. CASE \E p \in Peers : GetMinLoadNode(p)
  BY <1>5, CallAsked
<1>6. CASE \E p \in Peers : \E i \in DOMAIN threads[p] : ThreadStep(p, i) \/ Timeout(p, i)
  <2>1. PICK p \in Peers : \E i \in DOMAIN threads[p] : ThreadStep(p, i) \/ Timeout(p, i)
    BY <1>6
  <2>2. PICK i \in DOMAIN threads[p] : ThreadStep(p, i) \/ Timeout(p, i)
    BY <2>1
  <2>3. CASE FindLocally(p, i)
    BY <1>1, <2>3, FindAsked
  <2>4. CASE Forward(p, i)
    BY <2>4, ForwardAsked
  <2>5. CASE CopyRequest(p, i) \/ CopyBack(p, i)
    BY <2>5, CopyAsked
  <2>6. CASE Timeout(p, i) \/ \E m \in answers : Receive(p, i, m)
    BY <2>6, WaitAsked
  <2>7. QED
    BY <2>2, <2>3, <2>4, <2>5, <2>6 DEF ThreadStep
<1>7. CASE \E r \in requests : Listen(r)
  BY <1>7, ListenAsked
<1>8. CASE \E m \in answers : Discard(m)
  BY <1>8, DiscardAsked
<1>9. QED
  BY <1>2, <1>3, <1>4, <1>5, <1>6, <1>7, <1>8 DEF Next, PeerStep, vars

----------------------------------------------------------------------------
(* Who asks directly, and what it has made of the list of nodes.              *)

\* Download is to ask, the node itself if it asks directly.
AsksLater(p) ==
    \A t \in Threads(p)' : Hosted(t) =>
        /\ t.state = "start"
        /\ download'[p].state = "direct" => t.route = <<download'[p].node>>

\* What a step of another peer, or of no thread that answers to Download, keeps.
Unasked(p) ==
    /\ download'[p] = download[p]
    /\ \A t \in Threads(p)' : Hosted(t) => t \in Threads(p)

\* What the return of a thread of p does to the download of q.
LEMMA ReturnAsks ==
    ASSUME TInv, NEW p \in Peers, NEW i \in DOMAIN threads[p], NEW a,
           NEW inFlight, Return(p, i, a, inFlight), threads[p][i].state \in Called,
           NEW q \in Peers
    PROVE  Unasked(q) \/ AsksLater(q)
<1>1. PICK t : t = threads[p][i]
  OBVIOUS
<1>2. Returned(p, t, a, inFlight)
  BY <1>1, ReturnThreads
<1>3. download \in [Peers -> {Idle} \cup Fetch]
  BY DEF TInv, Types
<1>4. CASE q # p
  <2>1. Threads(q)' = Threads(q)
    BY <1>2, <1>4 DEF Returned
  <2>2. download'[q] = download[q]
    BY <1>3, <1>4 DEF Return, Stored, Rejected, Switched, AskedDirectly
  <2>3. QED
    BY <2>1, <2>2 DEF Unasked
<1>5. CASE q = p /\ t.back[2] = host
  <2>1. \A u \in Threads(p)' : Hosted(u) =>
          u.state = "start" /\ u.route = <<download[p].node>>
    BY <1>2, <1>5 DEF Returned
  <2>2. download'[p].state = "direct" => download'[p].node = download[p].node
    <3>1. Hosted(t) /\ Calls(p, threads[p], download[p])
      BY <1>1, <1>5, ThreadTypes DEF Hosted
    <3>2. download[p] \in Fetch
      BY <1>1, <3>1 DEF Calls
    <3>3. Stored(p, a) \/ Rejected(p, a) \/ Switched(p, a) \/ AskedDirectly(p, a)
      BY <1>1, <1>5 DEF Return
    <3>4. CASE Stored(p, a)
      BY <1>3, <3>4 DEF Stored, Idle
    <3>5. CASE Rejected(p, a) \/ Switched(p, a)
      BY <1>3, <3>2, <3>5 DEF Rejected, Switched, Fetch
    <3>6. CASE AskedDirectly(p, a)
      BY <1>3, <3>2, <3>6 DEF AskedDirectly, Fetch
    <3>7. QED
      BY <3>3, <3>4, <3>5, <3>6
  <2>3. QED
    BY <1>5, <2>1, <2>2 DEF AsksLater
<1>6. CASE q = p /\ t.back[2] # host
  <2>1. \A u \in Threads(p)' : u \in Threads(p)
    BY <1>2, <1>6 DEF Returned
  <2>2. download' = download
    BY <1>1, <1>6 DEF Return
  <2>3. QED
    BY <1>6, <2>1, <2>2 DEF Unasked
<1>7. QED
  BY <1>4, <1>5, <1>6

\* One step of thread i of p, as the download of q sees it.
Changes(q) ==
    Unasked(q) \/ AsksLater(q) \/ download'[q].state # "direct"

LEMMA NoisyAsks ==
    ASSUME TInv, NEW p \in Peers, NEW i \in DOMAIN threads[p], NEW a, NEW inFlight,
           threads[p][i].state \in Called, MayBeNoisy(p, i, a, inFlight), NEW q \in Peers
    PROVE  Changes(q)
<1>1. ASSUME NEW c, Received(p, i, c, inFlight)
      PROVE  Changes(q)
  <2>1. Return(p, i, c, inFlight)
    BY <1>1 DEF Received
  <2>2. Unasked(q) \/ AsksLater(q)
    BY <2>1, ReturnAsks
  <2>3. QED
    BY <2>2 DEF Changes
<1>2. CASE Ends(p)
  <2>1. /\ threads' = [threads EXCEPT ![p] = <<>>]
        /\ download' = [download EXCEPT ![p] = Idle]
    BY <1>2 DEF Ends
  <2>2. CASE q = p
    BY <2>1, <2>2 DEF Changes, Idle, TInv, Types
  <2>3. CASE q # p
    <3>1. download'[q] = download[q] /\ Threads(q)' = Threads(q)
      BY <2>1, <2>3 DEF TInv, Types, Threads
    <3>2. QED
      BY <3>1 DEF Changes, Unasked
  <2>4. QED
    BY <2>2, <2>3
<1>3. QED
  BY <1>1, <1>2 DEF MayBeNoisy

\* A step of Download itself.
LEMMA DownloadAsks ==
    ASSUME TInv, NEW p \in Peers, NEW q \in Peers,
           Download(p) \/ GiveUp(p) \/ GetMinLoadNode(p) \/ Crash(p)
    PROVE  Changes(q)
<1>1. download \in [Peers -> {Idle} \cup Fetch] /\ threads \in [Peers -> Seq(Thread)]
  BY DEF TInv, Types
<1>2. PICK d, s : /\ download' = [download EXCEPT ![p] = d] /\ d.state # "direct"
                  /\ threads' = [threads EXCEPT ![p] = s]
  <2>0. threads = [threads EXCEPT ![p] = threads[p]] /\ Idle.state # "direct"
    BY <1>1 DEF Idle
  <2>1. CASE Download(p)
    <3>1. PICK d : d = [state |-> "choose", file |-> Head(wishes[p]),
                        nodes |-> Holders[Head(wishes[p])], node |-> p]
      OBVIOUS
    <3>2. d.state # "direct"
      BY <3>1
    <3>3. download' = [download EXCEPT ![p] = d] /\ threads' = threads
      BY <2>1, <3>1 DEF Download
    <3>4. QED
      BY <2>0, <3>2, <3>3
  <2>2. CASE GiveUp(p)
    <3>1. download' = [download EXCEPT ![p] = Idle] /\ threads' = threads
      BY <2>2 DEF GiveUp
    <3>2. QED
      BY <2>0, <3>1
  <2>3. CASE Crash(p)
    <3>1. download' = [download EXCEPT ![p] = Idle] /\ threads' = [threads EXCEPT ![p] = <<>>]
      BY <2>3 DEF Crash, Ends
    <3>2. QED
      BY <2>0, <3>1
  <2>4. CASE GetMinLoadNode(p)
    <3>1. download[p] \in Fetch /\ download[p].state = "choose"
      BY <1>1, <2>4 DEF GetMinLoadNode, Doing, Idle
    <3>2. PICK n \in download[p].nodes :
            IF n = p
            THEN /\ download' = [download EXCEPT ![p].nodes = RemoveNodeInfo(p, n)]
                 /\ UNCHANGED threads
            ELSE Call(p, "ripple", n, Addresses(p, n))
      BY <2>4 DEF GetMinLoadNode
    <3>3. CASE n = p
      <4>1. PICK d : d = [download[p] EXCEPT !.nodes = RemoveNodeInfo(p, n)]
        OBVIOUS
      <4>2. d.state = "choose"
        BY <3>1, <4>1 DEF Fetch
      <4>3. download' = [download EXCEPT ![p] = d] /\ UNCHANGED threads
        BY <1>1, <3>2, <3>3, <4>1
      <4>4. QED
        BY <1>1, <4>2, <4>3
    <3>4. CASE n # p
      <4>1. PICK d : d = [download[p] EXCEPT !.state = "ripple", !.node = n]
        OBVIOUS
      <4>2. d.state = "ripple"
        BY <3>1, <4>1 DEF Fetch
      <4>3. PICK s : s = Append(threads[p],
              Ripple(p, download[p].file, Addresses(p, n)))
        OBVIOUS
      <4>4. download' = [download EXCEPT ![p] = d] /\ threads' = [threads EXCEPT ![p] = s]
        BY <1>1, <3>2, <3>4, <4>1, <4>3 DEF Call, Ripple
      <4>5. QED
        BY <4>2, <4>4
    <3>5. QED
      BY <3>3, <3>4
  <2>5. QED
    BY <2>1, <2>2, <2>3, <2>4
<1>3. CASE q = p
  BY <1>1, <1>2, <1>3 DEF Changes
<1>4. CASE q # p
  <2>1. download'[q] = download[q] /\ Threads(q)' = Threads(q)
    BY <1>1, <1>2, <1>4 DEF Threads
  <2>2. QED
    BY <2>1 DEF Changes, Unasked
<1>5. QED
  BY <1>3, <1>4

\* The question that download q asks directly goes out.
Forwards(q) ==
    /\ download'[q] = download[q]
    /\ \E i \in DOMAIN threads[q] : Forward(q, i)

\* A thread that answers elsewhere, or waits for nothing yet, is none of Download.
LEMMA TurnAsks ==
    ASSUME UNCHANGED download, NEW p \in Peers, NEW u, ~Hosted(u), NEW q \in Peers,
           Added(p, u) \/ \E t : Turned(p, t, u)
    PROVE  Unasked(q)
BY DEF Added, Turned, Unasked

LEMMA Asks ==
    ASSUME TInv, [Next]_vars, NEW q \in Peers
    PROVE  Changes(q) \/ Forwards(q)
<1>1. CASE UNCHANGED <<download, threads>>
  BY <1>1 DEF Changes, Unasked, Threads
<1>2. CASE \E p \in Peers : Download(p) \/ GiveUp(p) \/ GetMinLoadNode(p) \/ Crash(p)
  BY <1>2, DownloadAsks
<1>3. CASE \E p \in Peers : \E i \in DOMAIN threads[p] : ThreadStep(p, i) \/ Timeout(p, i)
  <2>1. PICK p \in Peers : \E i \in DOMAIN threads[p] : ThreadStep(p, i) \/ Timeout(p, i)
    BY <1>3
  <2>2. PICK i \in DOMAIN threads[p] : ThreadStep(p, i) \/ Timeout(p, i)
    BY <2>1
  <2>3. PICK t : t = threads[p][i]
    OBVIOUS
  <2>4. /\ t \in Thread /\ threads \in [Peers -> Seq(Thread)]
        /\ \A k \in DOMAIN threads[p] :
             threads[p][k].state \in Pending => c_data[p] \in Sent
    BY <2>3, ThreadTypes DEF TInv, Types
  <2>5. CASE FindLocally(p, i)
    <3>1. \E a : Return(p, i, a, answers) /\ threads[p][i].state \in Called
      BY <2>5 DEF FindLocally, Called
    <3>2. QED
      BY <3>1, ReturnAsks DEF Changes
  <2>6. CASE Timeout(p, i) \/ \E m \in answers : Receive(p, i, m)
    <3>1. \E a, inFlight : MayBeNoisy(p, i, a, inFlight) /\ threads[p][i].state \in Called
      BY <2>6 DEF Timeout, Receive, Called
    <3>2. QED
      BY <3>1, NoisyAsks
  <2>7. CASE Forward(p, i)
    <3>1. UNCHANGED download
      BY <2>7 DEF Forward
    <3>2. CASE q = p
      BY <2>7, <3>1, <3>2 DEF Forwards
    <3>3. CASE q # p
      <4>1. PICK u : u = [t EXCEPT !.state = "wait", !.port = Head(pool[p])]
        OBVIOUS
      <4>2. Forwarded(p, t, u)
        BY <2>3, <2>7, <4>1, ForwardThreads
      <4>3. QED
        BY <3>1, <3>3, <4>2 DEF Forwarded, Unasked, Changes
    <3>4. QED
      BY <3>2, <3>3
  <2>8. CASE CopyRequest(p, i)
    <3>1. PICK u : u = [t EXCEPT !.state = "copying", !.route = c_data[p].route,
                                  !.file = c_data[p].file]
      OBVIOUS
    <3>2. u.state = "copying"
      BY <2>4, <3>1 DEF Thread
    <3>3. NowThreads(p, [threads[p] EXCEPT ![i] = u]) /\ UNCHANGED download
      BY <2>3, <2>4, <2>8, <3>1 DEF CopyRequest, NowThreads
    <3>4. Turned(p, t, u)
      BY <2>3, <3>3, ThreadTurned
    <3>5. ~Hosted(u)
      BY <3>2 DEF Hosted, Called
    <3>6. QED
      BY <3>3, <3>4, <3>5, TurnAsks DEF Changes
  <2>9. CASE CopyBack(p, i)
    <3>1. PICK u : u = [t EXCEPT !.state = "start", !.back = c_data[p].back]
      OBVIOUS
    <3>2. u.back = c_data[p].back
      BY <2>4, <3>1 DEF Thread
    <3>3. NowThreads(p, [threads[p] EXCEPT ![i] = u]) /\ UNCHANGED download
      BY <2>3, <2>4, <2>9, <3>1 DEF CopyBack, NowThreads
    <3>4. Turned(p, t, u)
      BY <2>3, <3>3, ThreadTurned
    <3>5. c_data[p].back \in Peers \X Ports
      BY <2>4, <2>9 DEF CopyBack, Pending, Sent
    <3>6. ~Hosted(u)
      BY <3>2, <3>5 DEF Hosted, Ports, host
    <3>7. QED
      BY <3>3, <3>4, <3>6, TurnAsks DEF Changes
  <2>10. QED
    BY <2>2, <2>5, <2>6, <2>7, <2>8, <2>9 DEF ThreadStep
<1>4. CASE \E r \in requests : Listen(r)
  <2>1. PICK r \in requests : Listen(r)
    BY <1>4
  <2>2. r.to \in Peers /\ threads \in [Peers -> Seq(Thread)]
    BY DEF TInv, Types, Request
  <2>3. NowThreads(r.to, Append(threads[r.to], Born)) /\ UNCHANGED download
    BY <2>1, <2>2 DEF Listen, NowThreads
  <2>4. Added(r.to, Born) /\ ~Hosted(Born)
    BY <2>2, <2>3, ThreadAdded DEF Born, Hosted, Called
  <2>5. QED
    BY <2>2, <2>3, <2>4, TurnAsks DEF Changes
<1>5. CASE (\E m \in answers : Discard(m)) \/ UNCHANGED vars
  BY <1>1, <1>5 DEF Discard, vars
<1>6. QED
  BY <1>2, <1>3, <1>4, <1>5 DEF Next, PeerStep

\* What a thread is copying.
Halved ==
    \A p \in Peers : \A t \in Threads(p) :
        t.state = "copying" => t.route = c_data[p].route /\ t.file = c_data[p].file

LEMMA HalvedStep ==
    ASSUME Halved,
           \A q \in Peers : \A t \in Threads(q)' :
              \/ t \in Threads(q) /\ c_data'[q] = c_data[q]
              \/ t.state # "copying"
              \/ t.route = c_data'[q].route /\ t.file = c_data'[q].file
    PROVE  Halved'
BY DEF Halved

LEMMA HalvedKept ==
    ASSUME TInv, Halved, ~Overlap, [Next]_vars
    PROVE  Halved'
<1>0. threads \in [Peers -> Seq(Thread)] /\ c_data \in [Peers -> {NoData} \cup Sent]
  BY DEF TInv, Types
<1>1. CASE UNCHANGED <<c_data, threads>>
  BY <1>1 DEF Halved, Threads
<1>2. CASE \E p \in Peers : Download(p) \/ GiveUp(p)
  BY <1>1, <1>2 DEF Download, GiveUp
<1>3. ASSUME UNCHANGED c_data, NEW p \in Peers, threads' = [threads EXCEPT ![p] = <<>>]
      PROVE  Halved'
  <2>1. \A q \in Peers : \A t \in Threads(q)' : t \in Threads(q)
    BY <1>0, <1>3, EmptySeq DEF Threads
  <2>2. QED
    BY <1>3, <2>1, HalvedStep
<1>4. CASE \E p \in Peers : Crash(p)
  BY <1>3, <1>4 DEF Crash, Ends
<1>5. CASE \E p \in Peers : GetMinLoadNode(p)
  <2>1. PICK p \in Peers : GetMinLoadNode(p)
    BY <1>5
  <2>2. UNCHANGED c_data
    BY <2>1 DEF GetMinLoadNode
  <2>3. PICK n \in download[p].nodes :
          UNCHANGED threads \/ Call(p, "ripple", n, Addresses(p, n))
    BY <2>1 DEF GetMinLoadNode
  <2>4. CASE Call(p, "ripple", n, Addresses(p, n))
    <3>1. PICK u : u = Ripple(p, download[p].file, Addresses(p, n))
      OBVIOUS
    <3>2. NowThreads(p, Append(threads[p], u)) /\ u.state = "start"
      BY <1>0, <2>4, <3>1 DEF Call, NowThreads, Ripple
    <3>3. Added(p, u)
      BY <3>2, ThreadAdded
    <3>4. QED
      BY <2>2, <3>2, <3>3, HalvedStep DEF Added
  <2>5. QED
    BY <1>1, <2>2, <2>3, <2>4
<1>6. CASE \E p \in Peers : \E i \in DOMAIN threads[p] : ThreadStep(p, i) \/ Timeout(p, i)
  <2>1. PICK p \in Peers : \E i \in DOMAIN threads[p] : ThreadStep(p, i) \/ Timeout(p, i)
    BY <1>6
  <2>2. PICK i \in DOMAIN threads[p] : ThreadStep(p, i) \/ Timeout(p, i)
    BY <2>1
  <2>3. PICK t : t = threads[p][i]
    OBVIOUS
  <2>4. t \in Thread /\ t \in Threads(p)
    BY <2>3, ThreadTypes DEF Threads
  <2>5. ASSUME NEW a, NEW inFlight, Return(p, i, a, inFlight), t.state \in Called,
               UNCHANGED c_data
        PROVE  Halved'
    <3>1. Returned(p, t, a, inFlight)
      BY <2>3, <2>5, ReturnThreads
    <3>2. QED
      BY <2>5, <3>1, HalvedStep DEF Returned
  <2>6. CASE FindLocally(p, i)
    BY <2>3, <2>5, <2>6 DEF FindLocally, Called
  <2>7. CASE Timeout(p, i) \/ \E m \in answers : Receive(p, i, m)
    <3>1. PICK a, inFlight : MayBeNoisy(p, i, a, inFlight)
      BY <2>7 DEF Timeout, Receive
    <3>2. t.state \in Called /\ UNCHANGED c_data
      BY <2>3, <2>7, <3>1 DEF Timeout, Receive, Called, MayBeNoisy
    <3>3. CASE Ends(p)
      BY <1>3, <3>2, <3>3 DEF Ends
    <3>4. CASE \E c : Received(p, i, c, inFlight)
      BY <2>5, <3>2, <3>4 DEF Received
    <3>5. QED
      BY <3>1, <3>3, <3>4 DEF MayBeNoisy
  <2>8. CASE Forward(p, i)
    <3>1. PICK u : u = [t EXCEPT !.state = "wait", !.port = Head(pool[p])]
      OBVIOUS
    <3>2. Forwarded(p, t, u) /\ UNCHANGED c_data
      BY <2>3, <2>8, <3>1, ForwardThreads DEF Forward
    <3>3. QED
      BY <3>2, HalvedStep DEF Forwarded
  <2>9. CASE CopyRequest(p, i)
    <3>1. PICK u : u = [t EXCEPT !.state = "copying", !.route = c_data[p].route,
                                  !.file = c_data[p].file]
      OBVIOUS
    <3>2. u.route = c_data[p].route /\ u.file = c_data[p].file
      BY <2>4, <3>1 DEF Thread
    <3>3. NowThreads(p, [threads[p] EXCEPT ![i] = u]) /\ UNCHANGED c_data
      BY <1>0, <2>3, <2>9, <3>1 DEF CopyRequest, NowThreads
    <3>4. Turned(p, t, u)
      BY <2>3, <3>3, ThreadTurned
    <3>5. QED
      BY <3>2, <3>3, <3>4, HalvedStep DEF Turned
  <2>10. CASE CopyBack(p, i)
    <3>1. PICK u : u = [t EXCEPT !.state = "start", !.back = c_data[p].back]
      OBVIOUS
    <3>2. u.state = "start"
      BY <2>4, <3>1 DEF Thread
    <3>3. NowThreads(p, [threads[p] EXCEPT ![i] = u]) /\ UNCHANGED c_data
      BY <1>0, <2>3, <2>10, <3>1 DEF CopyBack, NowThreads
    <3>4. Turned(p, t, u)
      BY <2>3, <3>3, ThreadTurned
    <3>5. QED
      BY <3>2, <3>3, <3>4, HalvedStep DEF Turned
  <2>11. QED
    BY <2>2, <2>6, <2>7, <2>8, <2>9, <2>10 DEF ThreadStep
<1>7. CASE \E r \in requests : Listen(r)
  <2>1. PICK r \in requests : Listen(r)
    BY <1>7
  <2>2. PICK p : p = r.to
    OBVIOUS
  <2>3. p \in Peers
    BY <2>2 DEF TInv, Types, Request
  <2>4. /\ NowThreads(p, Append(threads[p], Born))
        /\ \A q \in Peers \ {p} : c_data'[q] = c_data[q]
        /\ \A t \in Threads(p) : t.state # "copying"
    BY <1>0, <2>1, <2>2, <2>3 DEF Listen, NowThreads
  <2>5. Added(p, Born) /\ Born.state # "copying"
    BY <2>3, <2>4, ThreadAdded DEF Born
  <2>6. QED
    BY <2>4, <2>5, HalvedStep DEF Added
<1>8. CASE (\E m \in answers : Discard(m)) \/ UNCHANGED vars
  BY <1>1, <1>8 DEF Discard, vars
<1>9. QED
  BY <1>2, <1>4, <1>5, <1>6, <1>7, <1>8 DEF Next, PeerStep

LEMMA RoutedKept ==
    ASSUME TInv, Routed, ~Overlap, [Next]_vars
    PROVE  Routed'
<1>1. Halved'
  BY HalvedKept DEF Halved, Routed
<1>2. ASSUME NEW p \in Peers, NEW t \in Threads(p)', Hosted(t), t.state = "start",
             download'[p].state = "direct"
      PROVE  t.route = <<download'[p].node>>
  <2>1. CASE Unasked(p)
    BY <1>2, <2>1 DEF Unasked, Routed
  <2>2. CASE AsksLater(p)
    BY <1>2, <2>2 DEF AsksLater
  <2>3. CASE Forwards(p)
    <3>1. PICK i \in DOMAIN threads[p] : Forward(p, i)
      BY <2>3 DEF Forwards
    <3>2. PICK u : u = [threads[p][i] EXCEPT !.state = "wait", !.port = Head(pool[p])]
      OBVIOUS
    <3>3. Forwarded(p, threads[p][i], u)
      BY <3>1, <3>2, ForwardThreads
    <3>4. t \in Threads(p)
      BY <1>2, <3>3 DEF Forwarded
    <3>5. QED
      BY <1>2, <2>3, <3>4 DEF Forwards, Routed
  <2>4. QED
    BY <1>2, <2>1, <2>2, <2>3, Asks DEF Changes
<1>3. QED
  BY <1>1, <1>2 DEF Routed, Halved, Hosted

\* Download stores what it has received, which is never nothing.
LEMMA ReturnKept ==
    ASSUME TInv, Kept, NEW p \in Peers, NEW i, NEW a \in Contents \cup {Empty},
           NEW inFlight, Return(p, i, a, inFlight)
    PROVE  Kept'
<1>1. /\ disk \in [Peers -> [Files -> Contents \cup {Absent}]]
      /\ \A f \in Files : Holders[f] \subseteq Peers
  BY DownloadAssumption DEF TInv, Types
<1>2. CASE Stored(p, a)
  <2>1. disk' = [disk EXCEPT ![p][download[p].file] = a] /\ a # Empty
    BY <1>2 DEF Stored
  <2>2. a # Absent
    BY <2>1, SpoiltAlone, DownloadAssumption DEF Contents
  <2>3. ASSUME NEW n \in Peers, NEW f \in Files, disk[n][f] # Absent
        PROVE  disk'[n][f] # Absent
    BY <1>1, <2>1, <2>2, <2>3
  <2>4. QED
    BY <1>1, <2>3 DEF Kept
<1>3. CASE UNCHANGED disk
  BY <1>3 DEF Kept
<1>4. QED
  BY <1>2, <1>3 DEF Return, Rejected, Switched, AskedDirectly

LEMMA KeptKept ==
    ASSUME TInv, Kept, [Next]_vars
    PROVE  Kept'
<1>1. CASE UNCHANGED disk
  BY <1>1 DEF Kept
<1>2. CASE \E p \in Peers : Download(p) \/ GiveUp(p) \/ Crash(p) \/ GetMinLoadNode(p)
  BY <1>1, <1>2 DEF Download, GiveUp, Crash, GetMinLoadNode
<1>3. CASE \E p \in Peers : \E i \in DOMAIN threads[p] : ThreadStep(p, i) \/ Timeout(p, i)
  <2>1. PICK p \in Peers : \E i \in DOMAIN threads[p] : ThreadStep(p, i) \/ Timeout(p, i)
    BY <1>3
  <2>2. PICK i \in DOMAIN threads[p] : ThreadStep(p, i) \/ Timeout(p, i)
    BY <2>1
  <2>3. CASE Forward(p, i) \/ CopyRequest(p, i) \/ CopyBack(p, i)
    BY <1>1, <2>3 DEF Forward, CopyRequest, CopyBack
  <2>4. CASE FindLocally(p, i)
    <3>1. PICK f, a : f = threads[p][i].file /\ a = PackFileInfo(p, f)
      OBVIOUS
    <3>2. Return(p, i, a, answers) /\ threads[p][i].state = "start"
      BY <2>4, <3>1 DEF FindLocally
    <3>3. f \in Files
      BY <3>1, <3>2, ThreadTypes DEF Thread
    <3>4. disk[p][f] \in Contents \cup {Absent}
      BY <3>3 DEF TInv, Types
    <3>5. a \in Contents \cup {Empty}
      BY <3>1, <3>4 DEF PackFileInfo
    <3>6. QED
      BY <3>2, <3>5, ReturnKept
  <2>5. CASE Timeout(p, i) \/ \E m \in answers : Receive(p, i, m)
    <3>0. PICK a \in Contents \cup {Empty} : \E inFlight : MayBeNoisy(p, i, a, inFlight)
      BY <2>5 DEF Timeout, Receive, TInv, Types, Reply
    <3>1. PICK inFlight : MayBeNoisy(p, i, a, inFlight)
      BY <3>0
    <3>2. UNCHANGED disk \/ \E b \in Contents \cup {Empty} : Return(p, i, b, inFlight)
      BY <3>1 DEF MayBeNoisy, Received, Contents
    <3>3. QED
      BY <1>1, <3>2, ReturnKept
  <2>6. QED
    BY <2>2, <2>3, <2>4, <2>5 DEF ThreadStep
<1>4. CASE (\E r \in requests : Listen(r)) \/ (\E m \in answers : Discard(m)) \/ UNCHANGED vars
  BY <1>1, <1>4 DEF Listen, Discard, vars
<1>5. QED
  BY <1>2, <1>3, <1>4 DEF Next, PeerStep

\* The question that goes out, on a port to which nothing else is under way.
LEMMA NewQuestion ==
    ASSUME TInv, FreshPorts, NEW p \in Peers, NEW i \in DOMAIN threads[p], Forward(p, i),
           NEW t, t = threads[p][i], t.back = <<p, host>>,
           NEW n \in up, t.route = <<n>>, NEW k, k = Head(pool[p])
    PROVE  Direct(<<p, k>>, n, t.file)' /\ Coming(<<p, k>>)'
<1> DEFINE b == <<p, k>>
<1>1. PICK u : u = [t EXCEPT !.state = "wait", !.port = Head(pool[p])]
  OBVIOUS
<1>2. Forwarded(p, t, u)
  BY <1>1, ForwardThreads
<1>3. p \in up /\ pool[p] \in Seq(Ports) /\ pool[p] # <<>>
  BY ThreadTypes DEF Forward
<1>4. b \notin UnderWay /\ k # host
  <2>1. k \in Ports
    BY <1>3, Tailed
  <2>2. QED
    BY <1>3, <2>1 DEF FreshPorts, Ports, host
<1>5. PICK r : r = [to |-> n, route |-> <<>>, file |-> t.file, back |-> b]
  OBVIOUS
<1>6. /\ requests' = requests \cup {r} /\ UNCHANGED <<answers, c_data>>
  <2>1. Head(t.route) = n /\ Tail(t.route) = <<>>
    OBVIOUS
  <2>2. QED
    BY <1>5, <2>1 DEF Forward
<1> HIDE DEF b
<1>7. r.to = n /\ r.route = <<>> /\ r.file = t.file /\ r.back = b
  BY <1>5
<1>8. ASSUME NEW q \in Peers, NEW v \in Threads(q)'
      PROVE  Fits(q, v, b, n, t.file)'
  <2>1. CASE v \in Threads(q)
    <3>1. /\ v.state \in Called => v.back # b
          /\ v.state \in Pending => c_data[q].back # b
      BY <1>4, <2>1, InUnderWay
    <3>2. QED
      BY <1>6, <3>1 DEF Fits
  <2>2. CASE v = u
    <3>1. u.state = "wait" /\ u.back # b
      BY <1>2, <1>4 DEF Forwarded, b
    <3>2. QED
      BY <2>2, <3>1 DEF Fits, Pending
  <2>3. QED
    BY <1>2, <1>8, <2>1, <2>2 DEF Forwarded
<1>9. Direct(b, n, t.file)'
  <2>1. \A x \in requests' : x.back = b => x = r
    BY <1>4, <1>6, InUnderWay
  <2>2. \A m \in answers' : m.to # b
    BY <1>4, <1>6, InUnderWay
  <2>3. QED
    BY <1>7, <1>8, <2>1, <2>2 DEF Direct
<1>10. Coming(b)'
  BY <1>6, <1>7 DEF Coming
<1>11. QED
  BY <1>9, <1>10 DEF b

LEMMA AnsweringKept ==
    ASSUME TInv, TInv', Kept, Routed, Answering, ~Overlap, FreshPorts, [Next]_vars
    PROVE  Answering'
<1>1. ASSUME NEW p \in Peers, NEW t \in Threads(p)', Asking(p, t)'
      PROVE  /\ Direct(<<p, t.port>>, download[p].node, download[p].file)'
             /\ Coming(<<p, t.port>>)'
  <2>1. /\ Hosted(t) /\ t.state = "wait" /\ download'[p].state = "direct"
        /\ Has(download[p].node, download[p].file)'
    BY <1>1 DEF Asking, Hosted
  <2>2. Unasked(p) \/ Forwards(p)
    <3>1. ~AsksLater(p)
      BY <1>1, <2>1 DEF AsksLater
    <3>2. QED
      BY <2>1, <3>1, Asks DEF Changes
  <2>3. download'[p] = download[p]
    BY <2>2 DEF Unasked, Forwards
  <2>4. PICK b, n, f : b = <<p, t.port>> /\ n = download[p].node /\ f = download[p].file
    OBVIOUS
  <2>5. n = download'[p].node /\ f = download'[p].file /\ Has(n, f)'
    BY <2>1, <2>3, <2>4
  <2>6. f \in Files
    BY <2>1, <2>3, <2>4 DEF TInv, Types, Idle, Fetch
  <2>7. CASE t \in Threads(p)
    <3>1. Has(n, f)
      BY <2>5, OneWay DEF Has
    <3>2. Asking(p, t)
      BY <2>1, <2>3, <2>4, <3>1 DEF Asking
    <3>3. Direct(b, n, f) /\ Coming(b)
      BY <2>4, <2>7, <3>2 DEF Answering
    <3>4. Waits(b) /\ Waits(b)'
      BY <1>1, <2>1, <2>4, <2>7 DEF Waits
    <3>5. Direct(b, n, f)' /\ Coming(b)'
      BY <2>5, <2>6, <3>3, <3>4, AskedKept
    <3>6. QED
      BY <2>4, <2>5, <3>5 DEF Direct, Coming
  <2>8. CASE t \notin Threads(p)
    <3>1. PICK i \in DOMAIN threads[p] : Forward(p, i)
      BY <1>1, <2>1, <2>2, <2>8 DEF Unasked, Forwards
    <3>2. PICK s, u : s = threads[p][i] /\ u = [s EXCEPT !.state = "wait", !.port = Head(pool[p])]
      OBVIOUS
    <3>3. Forwarded(p, s, u)
      BY <3>1, <3>2, ForwardThreads
    <3>4. t = u /\ t.port = Head(pool[p]) /\ t.back = s.back
      BY <1>1, <2>8, <3>3 DEF Forwarded
    <3>5. s.state = "start" /\ Hosted(s) /\ s \in Threads(p)
      BY <2>1, <3>1, <3>2, <3>4 DEF Forward, Hosted, Called, Threads
    <3>6. s.back = <<p, host>> /\ s.file = f
      BY <2>4, <3>2, <3>5, ThreadTypes DEF Calls
    <3>7. s.route = <<n>>
      BY <2>1, <2>3, <2>4, <3>5 DEF Routed
    <3>8. n \in up
      BY <2>5, OneWay DEF Has
    <3>9. Direct(<<p, t.port>>, n, f)' /\ Coming(<<p, t.port>>)'
      BY <3>1, <3>2, <3>4, <3>6, <3>7, <3>8, NewQuestion
    <3>10. QED
      BY <2>4, <2>5, <3>9 DEF Direct, Coming
  <2>9. QED
    BY <2>7, <2>8
<1>2. QED
  BY <1>1 DEF Answering

----------------------------------------------------------------------------
(* The list of nodes, and giving up.                                         *)

LEMMA ComingAnswerable ==
    ASSUME NEW b, Coming(b)
    PROVE  b \in Answerable
<1>1. CASE (\E r \in requests : r.back = b) \/ (\E m \in answers : m.to = b)
  BY <1>1, AtOnceAnswerable DEF AtOnce
<1>2. CASE \E q \in Peers : \E u \in Threads(q) : Owes(q, u, b)
  <2>1. PICK q \in Peers : \E u \in Threads(q) : Owes(q, u, b)
    BY <1>2
  <2>2. PICK u \in Threads(q) : Owes(q, u, b)
    BY <2>1
  <2>3. b \in AnsweredTo(q)
    BY <2>2 DEF Owes, AnsweredTo, Pending
  <2>4. QED
    BY <2>3, AtOnceAnswerable DEF AtOnce
<1>3. QED
  BY <1>1, <1>2 DEF Coming

\* Who has the file is on the list of nodes of p, or is p itself.
Listed(p) ==
    download[p].state # "idle" =>
        \A n \in Peers : Has(n, download[p].file) => n \in download[p].nodes \cup {p}

\* What still has to be tried, which is all but the peer itself.
Remains(p) ==
    download'[p].state # "idle" =>
        /\ download[p].state # "idle" /\ download'[p].file = download[p].file
        /\ download[p].nodes \subseteq download'[p].nodes \cup {p}

LEMMA ListedStep ==
    ASSUME NEW p, Listed(p), Remains(p), up' \subseteq up
    PROVE  Listed(p)'
BY DEF Listed, Remains, Has

\* The node that is taken from the list is one that does not have the file.
LEMMA ReturnListed ==
    ASSUME TInv, NEW q \in Peers, NEW i \in DOMAIN threads[q], NEW t, t = threads[q][i],
           NEW a, NEW inFlight, Return(q, i, a, inFlight), t.state \in Called,
           up' \subseteq up,
           a = Empty /\ Hosted(t) /\ download[q].state = "direct" =>
               ~Has(download[q].node, download[q].file),
           NEW p \in Peers, Listed(p)
    PROVE  Listed(p)'
<1>1. download \in [Peers -> {Idle} \cup Fetch]
  BY DEF TInv, Types
<1>2. CASE download'[p] = download[p]
  BY <1>2, ListedStep DEF Remains
<1>3. CASE q = p /\ t.back[2] = host
  <2>1. Hosted(t) /\ download[p] \in Fetch
    BY <1>3, ThreadTypes DEF Hosted, Calls
  <2>2. Stored(p, a) \/ Rejected(p, a) \/ Switched(p, a) \/ AskedDirectly(p, a)
    BY <1>3 DEF Return
  <2>3. CASE Stored(p, a)
    <3>1. download'[p].state = "idle"
      BY <1>1, <2>3 DEF Stored, Idle
    <3>2. QED
      BY <3>1 DEF Listed
  <2>4. CASE Rejected(p, a) \/ AskedDirectly(p, a)
    <3>1. download[p].state # "idle"
      BY <2>1 DEF Fetch
    <3>2. download'[p].file = download[p].file /\ download'[p].nodes = download[p].nodes
      BY <1>1, <2>1, <2>4 DEF Rejected, AskedDirectly, Fetch
    <3>3. QED
      BY <3>1, <3>2, ListedStep DEF Remains
  <2>5. CASE Switched(p, a)
    <3>1. /\ a = Empty /\ download[p].state = "direct"
          /\ download'[p].file = download[p].file
          /\ download'[p].nodes = download[p].nodes \ {download[p].node}
      BY <1>1, <2>1, <2>5 DEF Switched, RemoveNodeInfo, Fetch
    <3>2. ~Has(download[p].node, download[p].file)
      BY <1>3, <2>1, <3>1
    <3>3. QED
      BY <3>1, <3>2 DEF Listed, Has
  <2>6. QED
    BY <2>2, <2>3, <2>4, <2>5
<1>4. CASE q # p \/ t.back[2] # host
  <2>1. download'[p] = download[p]
    BY <1>1, <1>4 DEF Return, Stored, Rejected, Switched, AskedDirectly
  <2>2. QED
    BY <1>2, <2>1
<1>5. QED
  BY <1>3, <1>4

\* A wait ends with nothing only where nothing could come, or too early.
LEMMA WaitListed ==
    ASSUME TInv, Answering, NEW q \in Peers, NEW i \in DOMAIN threads[q],
           Timeout(q, i) \/ \E m \in answers : Receive(q, i, m),
           late' = 0, up' \subseteq up, NEW p \in up, p \in up', Listed(p)
    PROVE  Listed(p)'
<1>1. PICK t : t = threads[q][i]
  OBVIOUS
<1>2. t.state = "wait" /\ t.state \in Called /\ t \in Threads(q)
  BY <1>1 DEF Timeout, Receive, Called, Threads
<1>3. PICK a, inFlight :
        /\ MayBeNoisy(q, i, a, inFlight)
        /\ a = Empty => ~Asking(q, t)
  <2>1. CASE Timeout(q, i)
    <3>1. late \in Nat
      BY DownloadAssumption DEF TInv, Types
    <3>2. <<q, t.port>> \notin Answerable
      BY <1>1, <2>1, <3>1 DEF Timeout
    <3>3. ~Asking(q, t)
      BY <1>2, <3>2, ComingAnswerable DEF Answering
    <3>4. QED
      BY <2>1, <3>3 DEF Timeout
  <2>2. CASE \E m \in answers : Receive(q, i, m)
    <3>1. PICK m \in answers : Receive(q, i, m)
      BY <2>2
    <3>2. m.to = <<q, t.port>> /\ MayBeNoisy(q, i, m.answer, answers \ {m})
      BY <1>1, <3>1 DEF Receive
    <3>3. m.answer = Empty => ~Asking(q, t)
      BY <1>2, <3>2 DEF Answering, Direct
    <3>4. QED
      BY <3>2, <3>3
  <2>3. QED
    BY <2>1, <2>2
<1>4. ASSUME NEW c, c = Empty => ~Asking(q, t), Received(q, i, c, inFlight)
      PROVE  Listed(p)'
  <2>1. Return(q, i, c, inFlight)
    BY <1>4 DEF Received
  <2>2. c = Empty /\ Hosted(t) /\ download[q].state = "direct" =>
          ~Has(download[q].node, download[q].file)
    BY <1>2, <1>4 DEF Asking
  <2>3. p \in Peers
    BY DEF TInv, Types
  <2>4. QED
    BY <1>1, <1>2, <2>1, <2>2, <2>3, ReturnListed
<1>5. CASE Ends(q)
  <2>1. p # q
    BY <1>5 DEF Ends
  <2>2. download'[p] = download[p]
    BY <1>5, <2>1 DEF Ends, TInv, Types
  <2>3. QED
    BY <2>2, ListedStep DEF Remains
<1>6. Spoilt # Empty
  BY EmptyAlone DEF Contents
<1>7. QED
  BY <1>3, <1>4, <1>5, <1>6 DEF MayBeNoisy

LEMMA DownloadListed ==
    ASSUME TInv, NEW q \in Peers, up' \subseteq up,
           Download(q) \/ GiveUp(q) \/ GetMinLoadNode(q) \/ Crash(q),
           NEW p \in Peers, Listed(p)
    PROVE  Listed(p)'
<1>1. download \in [Peers -> {Idle} \cup Fetch]
  BY DEF TInv, Types
<1>2. CASE download'[p] = download[p]
  BY <1>2, ListedStep DEF Remains
<1>3. CASE Download(p)
  <2>1. PICK d : d = [state |-> "choose", file |-> Head(wishes[p]),
                      nodes |-> Holders[Head(wishes[p])], node |-> p]
    OBVIOUS
  <2>2. download'[p] = d
    BY <1>1, <1>3, <2>1 DEF Download
  <2>3. d.nodes = Holders[d.file]
    BY <2>1
  <2>4. QED
    BY <2>2, <2>3 DEF Listed, Has
<1>4. CASE GiveUp(p) \/ Crash(p)
  <2>1. download'[p].state = "idle"
    BY <1>1, <1>4 DEF GiveUp, Crash, Ends, Idle
  <2>2. QED
    BY <2>1 DEF Listed
<1>5. CASE GetMinLoadNode(p)
  <2>1. download[p] \in Fetch /\ download[p].state = "choose"
    BY <1>1, <1>5 DEF GetMinLoadNode, Doing, Idle
  <2>2. PICK n \in download[p].nodes :
          IF n = p
          THEN /\ download' = [download EXCEPT ![p].nodes = RemoveNodeInfo(p, n)]
               /\ UNCHANGED threads
          ELSE Call(p, "ripple", n, Addresses(p, n))
    BY <1>5 DEF GetMinLoadNode
  <2>3. /\ download'[p].file = download[p].file
        /\ download[p].nodes \subseteq download'[p].nodes \cup {p}
    <3>1. CASE n = p
      BY <1>1, <2>1, <2>2, <3>1 DEF RemoveNodeInfo, Fetch
    <3>2. CASE n # p
      BY <1>1, <2>1, <2>2, <3>2 DEF Call, Fetch
    <3>3. QED
      BY <3>1, <3>2
  <2>4. QED
    BY <2>1, <2>3, ListedStep DEF Remains
<1>6. CASE q # p
  <2>1. download'[p] = download[p]
    BY <1>1, <1>6 DEF Download, GiveUp, Crash, Ends, GetMinLoadNode, Call
  <2>2. QED
    BY <1>2, <2>1
<1>7. QED
  BY <1>3, <1>4, <1>5, <1>6

LEMMA TriedKept ==
    ASSUME TInv, Routed, Answering, Tried, [Next]_vars
    PROVE  Tried'
<1> SUFFICES ASSUME late' = 0, NEW p \in up'
             PROVE  Listed(p)'
  BY DEF Tried, Listed
<1>1. /\ up' \subseteq up /\ late = 0 /\ p \in up /\ p \in Peers /\ Listed(p)
  BY OneWay DEF Tried, Listed, TInv, Types
<1>2. CASE UNCHANGED download
  BY <1>1, <1>2, ListedStep DEF Remains
<1>3. CASE \E q \in Peers : Download(q) \/ GiveUp(q) \/ GetMinLoadNode(q) \/ Crash(q)
  BY <1>1, <1>3, DownloadListed
<1>4. CASE \E q \in Peers : \E i \in DOMAIN threads[q] : ThreadStep(q, i) \/ Timeout(q, i)
  <2>1. PICK q \in Peers : \E i \in DOMAIN threads[q] : ThreadStep(q, i) \/ Timeout(q, i)
    BY <1>4
  <2>2. PICK i \in DOMAIN threads[q] : ThreadStep(q, i) \/ Timeout(q, i)
    BY <2>1
  <2>3. CASE Forward(q, i) \/ CopyRequest(q, i) \/ CopyBack(q, i)
    BY <1>2, <2>3 DEF Forward, CopyRequest, CopyBack
  <2>4. CASE Timeout(q, i) \/ \E m \in answers : Receive(q, i, m)
    BY <1>1, <2>4, WaitListed
  <2>5. CASE FindLocally(q, i)
    <3>1. PICK t, a : t = threads[q][i] /\ a = PackFileInfo(q, t.file)
      OBVIOUS
    <3>2. /\ t.state = "start" /\ t.route = <<>> /\ Return(q, i, a, answers)
          /\ t \in Threads(q) /\ t.state \in Called
      BY <2>5, <3>1 DEF FindLocally, Threads, Called
    <3>3. ~(Hosted(t) /\ download[q].state = "direct")
      <4>1. <<download[q].node>> # <<>>
        OBVIOUS
      <4>2. QED
        BY <3>2, <4>1 DEF Routed
    <3>4. QED
      BY <1>1, <3>1, <3>2, <3>3, ReturnListed
  <2>6. QED
    BY <2>2, <2>3, <2>4, <2>5 DEF ThreadStep
<1>5. CASE (\E r \in requests : Listen(r)) \/ (\E m \in answers : Discard(m)) \/ UNCHANGED vars
  BY <1>2, <1>5 DEF Listen, Discard, vars
<1>6. QED
  BY <1>3, <1>4, <1>5 DEF Next, PeerStep

\* Nothing is found unavailable but by GiveUp.
LEMMA GaveUp ==
    ASSUME TInv, [Next]_vars
    PROVE  UNCHANGED gaveUp \/ \E p \in Peers : GiveUp(p)
<1>1. CASE \E p \in Peers : Download(p) \/ GiveUp(p) \/ GetMinLoadNode(p) \/ Crash(p)
  BY <1>1 DEF Download, GetMinLoadNode, Crash
<1>2. CASE \E p \in Peers : \E i \in DOMAIN threads[p] : ThreadStep(p, i) \/ Timeout(p, i)
  <2>0. PICK p \in Peers : \E i \in DOMAIN threads[p] : ThreadStep(p, i) \/ Timeout(p, i)
    BY <1>2
  <2>1. PICK i \in DOMAIN threads[p] : ThreadStep(p, i) \/ Timeout(p, i)
    BY <2>0
  <2>2. CASE FindLocally(p, i) \/ Forward(p, i) \/ CopyRequest(p, i) \/ CopyBack(p, i)
    BY <2>2 DEF FindLocally, Forward, CopyRequest, CopyBack
  <2>3. CASE Timeout(p, i) \/ \E m \in answers : Receive(p, i, m)
    <3>1. \E a, inFlight : MayBeNoisy(p, i, a, inFlight)
      BY <2>3 DEF Timeout, Receive
    <3>2. QED
      BY <3>1 DEF MayBeNoisy
  <2>4. QED
    BY <2>1, <2>2, <2>3 DEF ThreadStep
<1>3. CASE (\E r \in requests : Listen(r)) \/ (\E m \in answers : Discard(m)) \/ UNCHANGED vars
  BY <1>3 DEF Listen, Discard, vars
<1>4. QED
  BY <1>1, <1>2, <1>3 DEF Next, PeerStep

LEMMA UnavailableKept ==
    ASSUME TInv, Tried, Unavailable, [Next]_vars
    PROVE  Unavailable'
<1> SUFFICES ASSUME late' = 0, NEW p \in up', NEW f \in gaveUp'[p]
             PROVE  (Holders[f] \ Stale[f]) \cap up' \subseteq {p}
  BY DEF Unavailable
<1>1. up' \subseteq up /\ late = 0 /\ p \in up /\ p \in Peers
  BY OneWay DEF TInv, Types
<1>2. CASE f \in gaveUp[p]
  BY <1>1, <1>2 DEF Unavailable
<1>3. CASE f \notin gaveUp[p]
  <2>1. gaveUp \in [Peers -> SUBSET Files]
    BY DEF TInv, Types
  <2>2. PICK q \in Peers : GiveUp(q)
    BY <1>3, GaveUp
  <2>3. /\ download[q].state = "choose" /\ download[q].nodes = {}
        /\ gaveUp' = [gaveUp EXCEPT ![q] = @ \cup {download[q].file}]
    BY <2>2 DEF GiveUp, Doing
  <2>4. q = p /\ f = download[p].file
    BY <1>1, <1>3, <2>1, <2>3
  <2>5. download[p] \in Fetch
    BY <1>1, <2>3, <2>4 DEF TInv, Types, Idle
  <2>6. Holders[f] \subseteq Peers
    BY <2>4, <2>5, DownloadAssumption DEF Fetch
  <2>7. \A n \in Peers : Has(n, f) => n = p
    BY <1>1, <2>3, <2>4 DEF Tried
  <2>8. QED
    BY <1>1, <2>6, <2>7 DEF Has
<1>4. QED
  BY <1>2, <1>3

LEMMA UInvKept ==
    ASSUME UInv, ~Overlap, FreshPorts, [Next]_vars
    PROVE  UInv'
<1>1. TInv /\ Kept /\ Routed /\ Answering /\ Tried /\ Unavailable
  BY DEF UInv
<1>2. TInv'
  BY <1>1, TypesKept
<1>3. Kept' /\ Routed'
  BY <1>1, KeptKept, RoutedKept
<1>4. Answering'
  BY <1>1, <1>2, AnsweringKept
<1>5. Tried' /\ Unavailable'
  BY <1>1, TriedKept, UnavailableKept
<1>6. QED
  BY <1>2, <1>3, <1>4, <1>5 DEF UInv

LEMMA UInvInitially == Init => UInv
<1> SUFFICES ASSUME Init
             PROVE  UInv
  OBVIOUS
<1>1. TInv
  BY Initially
<1>2. Kept
  <2>1. \A f \in Files : f # Absent /\ Holders[f] \subseteq Peers
    BY DownloadAssumption
  <2>2. QED
    BY <2>1 DEF Init, Kept
<1>3. \A p \in Peers : Threads(p) = {}
  BY EmptySeq DEF Init, Threads
<1>4. Routed /\ Answering
  BY <1>3 DEF Routed, Answering
<1>5. Tried /\ Unavailable
  BY DEF Init, Idle, Tried, Unavailable
<1>6. QED
  BY <1>1, <1>2, <1>4, <1>5 DEF UInv

----------------------------------------------------------------------------
\* The shapes, and the ports of a running peer, each of which is in its pool or
\* with one thread that waits on it (GetPort, and the push_back of client.cpp),
\* whatever fails, comes late or is overwritten.
THEOREM TypeCorrect == Spec => []TypeOK
<1> DEFINE Counted == outlived \in [Peers -> Nat]
<1>1. Init => TInv /\ Counted
  BY Initially DEF Init
<1>2. TInv /\ Counted /\ [Next]_vars => TInv' /\ Counted'
  BY TypesKept, CountsKept
<1>3. TInv /\ Counted => TypeOK
  BY TypesShown
<1> HIDE DEF Counted
<1>4. QED
  BY <1>1, <1>2, <1>3, PTL DEF Spec

\* A file is what Download stored under its name or nothing, if the listener
\* waits until c_data has been copied and if a port is not taken from the front
\* of downloadPortPool while something is still under way to it.
THEOREM IntegrityCorrect ==
    ASSUME ~Overlap
    PROVE  Spec /\ []FreshPorts => []FileIntegrity
<1>1. Init => FInv
  BY Initially DEF FInv
<1>2. FInv /\ FreshPorts /\ [Next]_vars => FInv'
  BY IntegrityKept
<1>3. FInv => FileIntegrity
  BY DEF FInv
<1>4. QED
  BY <1>1, <1>2, <1>3, PTL DEF Spec

\* A file is found globally unavailable (GiveUp: LoadServerInfo's list has run
\* out) only if every peer that is listed for it rightly has failed, whoever is
\* on the way to it, however often checksums fail, and unless an answer comes
\* too late; if the listener waits until c_data has been copied, and if a port
\* is not taken from downloadPortPool while something is still under way to it.
THEOREM UnavailableCorrect ==
    ASSUME ~Overlap
    PROVE  Spec /\ []FreshPorts => []Unavailable
<1>1. Init => UInv
  BY UInvInitially
<1>2. UInv /\ FreshPorts /\ [Next]_vars => UInv'
  BY UInvKept
<1>3. UInv => Unavailable
  BY DEF UInv
<1>4. QED
  BY <1>1, <1>2, <1>3, PTL DEF Spec
============================================================================
