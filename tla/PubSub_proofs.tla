---------------------------- MODULE PubSub_proofs ----------------------------
(* Proofs about PubSub, for any servers, clients, filters and bounds.          *)
EXTENDS PubSub, FiniteSetTheorems, SequenceTheorems, TLAPS

----------------------------------------------------------------------------
(* The inductive invariant.                                                   *)

\* In list l, the iterator at x will come to y, or is there.
Reaches(l, x, y) == \E i, j \in DOMAIN l : i <= j /\ l[i] = x /\ l[j] = y

\* As long as its iterator is one of the list, the thread has the servers that
\* were mute all the time ahead of it, or waits in vain for the one it is at.
Ahead ==
    /\ ~freed /\ asked = it
    /\ it = Nobody => silent \cap Listed = {}
    /\ it # Nobody => \A s \in silent \cap Listed : Reaches(g_serverList, it, s)
    /\ it \in silent => ping = "lost"
SilentAhead == ~strayed => Ahead

SilentUnbound == silent \cap bound = {}

\* The server whose ping is lost does not run, and comes back only after the
\* registry has given it up; or it runs, and has not bound the port in time.
LostIsDown == ~QuickRestart /\ ping = "lost" /\ asked \in running => asked \in early

\* A server that is not in svc_run has no clients yet.
SeatServes == \A s \in running : Joined(s) # {} => Serves(s)

\* Where the addresses are that a ping thread uses.
ThreadKnows(c) ==
    /\ client[c].thread # "none" => client[c].life \in {"up", "leaving"}
    /\ client[c].life \notin {"up", "leaving"} => host(c) = Nobody
    /\ client[c].thread \in {"start", "ping", "lookup", "rejoin"} => host(c) \in Servers
    /\ client[c].thread = "cleared" => client[c].next \in Servers

\* A client that has not joined yet; it does so once.
Fresh(c) ==
    \/ client[c].life = "new"
    \/ client[c].life = "up" /\ host(c) = Nobody /\ client[c].thread = "none"

\* A client that is not astray is a member of one running server, with the
\* filters its commands left there.
MemberOfOne(c) ==
    /\ Fresh(c) => \A s \in running : c \notin Joined(s)
    /\ c \notin astray => \A s \in running : c \in Joined(s) =>
         /\ g_clientList[s][c] = believes[c]
         /\ \A t \in running : c \in Joined(t) => t = s

\* Unless an answer was late, the running server that lists a client is the one
\* it uses and pings, and has no filter the client does not think it has.
MemberAtHost(c) ==
    late = 0 /\ client[c].life \in {"up", "leaving"} =>
        \A s \in running : c \in Joined(s) =>
            /\ host(c) = s /\ client[c].thread \in {"none", "start", "ping"}
            /\ client[c].thread = "ping" => client[c].handle = port[s]
            /\ g_clientList[s][c] \subseteq believes[c]

ListShape == g_clientList = [s \in Servers |-> g_clientList[s]]

FiltersValid ==
    \A c \in Clients : \A f \in believes[c] : isValidArticle(f, FALSE)

Passive == \A c \in Clients \ Active : client[c] = Process("new")

IInv ==
    /\ TypeOK /\ ListShape
    /\ SilentAhead /\ SilentUnbound /\ LostIsDown /\ LiveListed
    /\ SeatServes
    /\ Passive /\ FiltersValid
    /\ \A c \in Active : ThreadKnows(c) /\ MemberOfOne(c) /\ MemberAtHost(c)

----------------------------------------------------------------------------
(* The lists of clients.                                                      *)

ProcessType ==
    [life : {"new", "up", "leaving", "ended", "failed"},
     host : Servers \cup {Nobody}, next : Servers \cup {Nobody}, handle : Nat,
     thread : {"none", "start", "ping", "lookup", "cleared", "rejoin"}]

ListOK(l) ==
    /\ DOMAIN l \subseteq Clients /\ Cardinality(DOMAIN l) <= MAXCLIENT
    /\ \A x \in DOMAIN l : l[x] \subseteq Filters

\* A call of c changes nothing about other clients.
OnlyFor(l, s, c) ==
    \A d \in Clients \ {c} :
        /\ d \in DOMAIN l <=> d \in Joined(s)
        /\ d \in Joined(s) => l[d] = g_clientList[s][d]

LEMMA Processes ==
    ASSUME TypeOK, NEW c \in Clients
    PROVE  /\ client \in [Clients -> ProcessType] /\ client[c] \in ProcessType
           /\ believes[c] \subseteq Filters
           /\ host(c) \in Servers \cup {Nobody}
BY DEF TypeOK, ProcessType, host

LEMMA RunningIsServer == TypeOK => running \subseteq Servers /\ Nobody \notin running
BY RegistryAssumption DEF TypeOK, GroupTypeOK

LEMMA JoinedFinite ==
    ASSUME TypeOK, NEW s \in Servers
    PROVE  /\ ListOK(g_clientList[s])
           /\ IsFiniteSet(Joined(s)) /\ Cardinality(Joined(s)) \in Nat
<1>1. ListOK(g_clientList[s]) /\ Joined(s) \subseteq Clients
  BY DEF TypeOK, GroupTypeOK, ListOK, Joined
<1>2. QED
  BY <1>1, GroupAssumption, FS_Subset, FS_CardinalityType

LEMMA JoinList ==
    ASSUME TypeOK, NEW s \in Servers, NEW c \in Clients
    PROVE  /\ ListOK(join(s, c)) /\ OnlyFor(join(s, c), s, c)
           /\ c \in Joined(s) => join(s, c) = g_clientList[s]
           /\ c \notin Joined(s) /\ c \in DOMAIN join(s, c) => join(s, c)[c] = {}
<1>1. ListOK(g_clientList[s]) /\ IsFiniteSet(Joined(s)) /\ Cardinality(Joined(s)) \in Nat
  BY JoinedFinite
<1>2. CASE Cardinality(Joined(s)) >= MAXCLIENT \/ c \in Joined(s)
  <2>1. join(s, c) = g_clientList[s]
    BY <1>2 DEF join
  <2>2. QED
    BY <1>1, <2>1 DEF OnlyFor, Joined
<1>3. CASE ~(Cardinality(Joined(s)) >= MAXCLIENT \/ c \in Joined(s))
  <2> DEFINE l == [x \in Joined(s) \cup {c} |-> IF x = c THEN {} ELSE g_clientList[s][x]]
  <2>1. join(s, c) = l
    BY <1>3 DEF join
  <2>2. Cardinality(DOMAIN l) = Cardinality(Joined(s)) + 1
    BY <1>1, <1>3, FS_AddElement
  <2>3. Cardinality(DOMAIN l) <= MAXCLIENT
    BY <1>1, <1>3, <2>2, GroupAssumption
  <2>4. DOMAIN l \subseteq Clients /\ \A x \in DOMAIN l : l[x] \subseteq Filters
    BY <1>1 DEF ListOK, Joined
  <2>5. QED
    BY <1>3, <2>1, <2>3, <2>4 DEF ListOK, OnlyFor
<1>4. QED
  BY <1>2, <1>3

LEMMA LeaveList ==
    ASSUME TypeOK, NEW s \in Servers, NEW c \in Clients
    PROVE  /\ ListOK(leave(s, c)) /\ OnlyFor(leave(s, c), s, c)
           /\ c \notin DOMAIN leave(s, c)
<1>1. ListOK(g_clientList[s]) /\ IsFiniteSet(Joined(s)) /\ Cardinality(Joined(s)) \in Nat
  BY JoinedFinite
<1>2. DOMAIN leave(s, c) = Joined(s) \ {c}
  BY DEF leave
<1>3. Cardinality(Joined(s) \ {c}) \in Nat
      /\ Cardinality(Joined(s) \ {c}) <= Cardinality(Joined(s))
  BY <1>1, FS_Subset, FS_CardinalityType
<1>4. Cardinality(Joined(s) \ {c}) <= MAXCLIENT
  BY <1>1, <1>3, GroupAssumption DEF ListOK, Joined
<1>5. \A x \in Joined(s) \ {c} : leave(s, c)[x] = g_clientList[s][x]
  BY DEF leave
<1>6. QED
  BY <1>1, <1>2, <1>4, <1>5 DEF ListOK, OnlyFor, Joined

LEMMA FilterLists ==
    ASSUME TypeOK, NEW s \in Servers, NEW c \in Clients, NEW f \in Filters
    PROVE  /\ ListOK(subscribe(s, c, f)) /\ OnlyFor(subscribe(s, c, f), s, c)
           /\ ListOK(unsubscribe(s, c, f)) /\ OnlyFor(unsubscribe(s, c, f), s, c)
           /\ DOMAIN subscribe(s, c, f) = Joined(s)
           /\ DOMAIN unsubscribe(s, c, f) = Joined(s)
           /\ c \in Joined(s) =>
                /\ subscribe(s, c, f)[c] = g_clientList[s][c] \cup {f}
                /\ unsubscribe(s, c, f)[c] = g_clientList[s][c] \ {f}
<1>1. ListOK(g_clientList[s])
  BY JoinedFinite
<1>2. DOMAIN subscribe(s, c, f) = Joined(s) /\ DOMAIN unsubscribe(s, c, f) = Joined(s)
  BY DEF subscribe, unsubscribe
<1>3. \A x \in Joined(s) :
        /\ subscribe(s, c, f)[x] = g_clientList[s][x] \cup IF x = c THEN {f} ELSE {}
        /\ unsubscribe(s, c, f)[x] = g_clientList[s][x] \ IF x = c THEN {f} ELSE {}
  BY DEF subscribe, unsubscribe
<1>4. ListOK(subscribe(s, c, f)) /\ ListOK(unsubscribe(s, c, f))
  BY <1>1, <1>2, <1>3 DEF ListOK, Joined
<1>5. OnlyFor(subscribe(s, c, f), s, c) /\ OnlyFor(unsubscribe(s, c, f), s, c)
  BY <1>2, <1>3 DEF OnlyFor
<1>6. QED
  BY <1>2, <1>3, <1>4, <1>5

\* What a call leaves alone at the server, and at the others.
LEMMA CallFrame ==
    ASSUME TypeOK, ListShape, NEW s \in Servers, NEW c \in Clients, NEW l,
           g_clientList' = [g_clientList EXCEPT ![s] = l],
           ListOK(l), OnlyFor(l, s, c)
    PROVE  /\ g_clientList'[s] = l
           /\ \A t \in Servers \ {s} : g_clientList'[t] = g_clientList[t]
           /\ ListShape'
           /\ \A t \in Servers : ListOK(g_clientList'[t])
           /\ \A t \in Servers, d \in Clients \ {c} :
                /\ d \in Joined(t)' <=> d \in Joined(t)
                /\ d \in Joined(t) => g_clientList'[t][d] = g_clientList[t][d]
<1>1. DOMAIN g_clientList = Servers
  BY DEF ListShape
<1>2. /\ g_clientList'[s] = l
      /\ \A t \in Servers \ {s} : g_clientList'[t] = g_clientList[t]
      /\ ListShape'
  BY <1>1 DEF ListShape
<1>3. \A t \in Servers : ListOK(g_clientList'[t])
  BY <1>2, JoinedFinite
<1>4. QED
  BY <1>2, <1>3 DEF OnlyFor, Joined

----------------------------------------------------------------------------
(* Steps of a client.                                                         *)

\* What every step of c leaves alone: the registry, the processes of the
\* servers, and other clients.
StepOf(c) ==
    /\ UNCHANGED <<registry, starts, running, bound, port, leaving, registered, early, ends>>
    /\ late' \in 0..MaxLate /\ late <= late'
    /\ ListShape' /\ \A s \in Servers : ListOK(g_clientList'[s])
    /\ \E r \in ProcessType : client' = [client EXCEPT ![c] = r]
    /\ \E b \in SUBSET Filters :
         /\ believes' = [believes EXCEPT ![c] = b]
         /\ \A f \in b : isValidArticle(f, FALSE)
    /\ astray \subseteq astray' /\ astray' \subseteq astray \cup {c}
    /\ \A s \in Servers, d \in Clients \ {c} :
         /\ d \in Joined(s)' <=> d \in Joined(s)
         /\ d \in Joined(s) => g_clientList'[s][d] = g_clientList[s][d]
    /\ \A s \in running : c \in Joined(s)' => c \in Joined(s) \/ Serves(s)

\* A step of c that makes no call, or whose call is not answered.
LEMMA QuietStep ==
    ASSUME TypeOK, ListShape, FiltersValid, NEW c \in Clients,
           UNCHANGED <<registry, starts, running, bound, port, leaving, registered, early, ends>>,
           late' \in 0..MaxLate, late <= late',
           UNCHANGED <<g_clientList, believes>>,
           astray \subseteq astray', astray' \subseteq astray \cup {c},
           NEW r \in ProcessType, client' = [client EXCEPT ![c] = r]
    PROVE  StepOf(c)
<1>1. ListShape' /\ \A s \in Servers : ListOK(g_clientList'[s])
  BY JoinedFinite DEF ListShape
<1>2. believes' = [believes EXCEPT ![c] = believes[c]]
      /\ believes[c] \in SUBSET Filters
  BY Processes DEF TypeOK
<1>3. \A f \in believes[c] : isValidArticle(f, FALSE)
  BY DEF FiltersValid
<1>4. \A s \in Servers, d \in Clients \ {c} :
        /\ d \in Joined(s)' <=> d \in Joined(s)
        /\ d \in Joined(s) => g_clientList'[s][d] = g_clientList[s][d]
  BY DEF Joined
<1>5. \A s \in running : c \in Joined(s)' => c \in Joined(s)
  BY DEF Joined
<1>6. QED
  BY <1>1, <1>2, <1>3, <1>4, <1>5 DEF StepOf

\* A step of c with an answered call, by which server s gets list l.
LEMMA AnsweredStep ==
    ASSUME TypeOK, ListShape, NEW c \in Clients, NEW s \in Servers, NEW l,
           UNCHANGED servers, Serves(s),
           g_clientList' = [g_clientList EXCEPT ![s] = l],
           ListOK(l), OnlyFor(l, s, c),
           astray \subseteq astray', astray' \subseteq astray \cup {c},
           NEW r \in ProcessType, client' = [client EXCEPT ![c] = r],
           NEW b \in SUBSET Filters, believes' = [believes EXCEPT ![c] = b],
           \A f \in b : isValidArticle(f, FALSE)
    PROVE  StepOf(c)
<1>1. UNCHANGED <<registry, starts, running, bound, port, leaving, registered, early, ends>>
      /\ late' \in 0..MaxLate /\ late <= late'
  BY PubSubAssumption DEF servers, TypeOK
<1>2. /\ ListShape' /\ \A t \in Servers : ListOK(g_clientList'[t])
      /\ \A t \in Servers, d \in Clients \ {c} :
           /\ d \in Joined(t)' <=> d \in Joined(t)
           /\ d \in Joined(t) => g_clientList'[t][d] = g_clientList[t][d]
  BY CallFrame
<1>3. \A t \in running : c \in Joined(t)' => c \in Joined(t) \/ Serves(t)
  <2>1. \A t \in Servers \ {s} : g_clientList'[t] = g_clientList[t]
    BY CallFrame
  <2>2. QED
    BY <2>1, RunningIsServer DEF Joined
<1>4. QED
  BY <1>1, <1>2, <1>3 DEF StepOf

\* A command of c to server s with list l, answered or not.
LEMMA CommandStep ==
    ASSUME TypeOK, ListShape, FiltersValid, NEW c \in Clients, NEW l,
           NEW after \in ProcessType, NEW wanted \in SUBSET Filters,
           \A f \in wanted : isValidArticle(f, FALSE),
           communicate_prog(c, l, after, wanted),
           Serves(after.host) => ListOK(l) /\ OnlyFor(l, after.host, c),
           UNCHANGED servers,
           astray \subseteq astray', astray' \subseteq astray \cup {c}
    PROVE  StepOf(c)
<1> DEFINE h == after.host
<1>1. CASE Serves(h) /\ Call(h, l)
           /\ client' = [client EXCEPT ![c] = after]
           /\ believes' = [believes EXCEPT ![c] = wanted]
  <2>1. h \in Servers
    BY <1>1, RunningIsServer DEF Serves
  <2>2. g_clientList' = [g_clientList EXCEPT ![h] = l]
    BY <1>1 DEF Call
  <2>3. QED
    BY <1>1, <2>1, <2>2, AnsweredStep
<1>2. CASE NoAnswer(c, h, after, "ended")
  <2>1. UNCHANGED <<registry, starts, running, bound, port, leaving, registered, early, ends>>
        /\ late' \in 0..MaxLate /\ late <= late'
    BY PubSubAssumption DEF servers, TypeOK
  <2>2. Process("ended") \in ProcessType
    BY DEF Process, ProcessType
  <2>3. UNCHANGED <<g_clientList, believes>>
        /\ \E r \in ProcessType : client' = [client EXCEPT ![c] = r]
    BY <1>2, <2>2 DEF NoAnswer
  <2>4. QED
    BY <2>1, <2>3, QuietStep
<1>3. QED
  BY <1>1, <1>2 DEF communicate_prog, Call

----------------------------------------------------------------------------
(* What the steps of c mean for c.                                            *)

Own(c) == ThreadKnows(c) /\ MemberOfOne(c) /\ MemberAtHost(c)

\* The process ends.
LEMMA OwnQuit ==
    ASSUME NEW c \in Active, Own(c), client[c] \in ProcessType,
           UNCHANGED <<running, g_clientList, believes>>, astray \subseteq astray',
           client'[c] = Process("ended") \/ client'[c] = Process("failed")
    PROVE  Own(c)'
<1>1. /\ client'[c].thread = "none" /\ client'[c].life \in {"ended", "failed"}
      /\ client'[c].host = Nobody
  BY DEF Process
<1>2. ThreadKnows(c)' /\ MemberAtHost(c)'
  BY <1>1 DEF ThreadKnows, MemberAtHost, host
<1>3. ~Fresh(c)'
  BY <1>1 DEF Fresh
<1>4. MemberOfOne(c)'
  BY <1>3 DEF Own, MemberOfOne, Joined
<1>5. QED
  BY <1>2, <1>4 DEF Own

LEMMA OwnStartClient ==
    ASSUME IInv, NEW c \in Active, StartClient(c)
    PROVE  StepOf(c) /\ Own(c)'
<1> DEFINE r == Process(IF registryUp THEN "up" ELSE "ended")
<1>1. c \in Clients /\ TypeOK /\ ListShape /\ FiltersValid /\ Own(c)
  BY DEF Active, IInv, Own
<1>2. client' = [client EXCEPT ![c] = r] /\ UNCHANGED <<servers, g_clientList, believes, astray>>
      /\ client[c].life = "new"
  BY DEF StartClient
<1>3. r \in ProcessType /\ r.host = Nobody /\ r.thread = "none"
      /\ r.life \in {"up", "ended"}
  BY DEF Process, ProcessType
<1>4. UNCHANGED <<registry, starts, running, bound, port, leaving, registered, early, ends>>
      /\ late' \in 0..MaxLate /\ late <= late'
  BY <1>1, <1>2, PubSubAssumption DEF servers, TypeOK
<1>5. StepOf(c)
  BY <1>1, <1>2, <1>3, <1>4, QuietStep
<1>6. client'[c] = r
  BY <1>1, <1>2, Processes
<1>7. \A s \in running : c \notin Joined(s)
  BY <1>1, <1>2 DEF Own, MemberOfOne, Fresh
<1>8. Own(c)'
  BY <1>2, <1>3, <1>4, <1>6, <1>7
     DEF Own, ThreadKnows, MemberOfOne, MemberAtHost, Joined, host
<1>9. QED
  BY <1>5, <1>8

LEMMA OwnJoin ==
    ASSUME IInv, NEW c \in Active, NEW s \in Servers, Join(c, s)
    PROVE  StepOf(c) /\ Own(c)'
<1> DEFINE r == [client[c] EXCEPT !.host = s, !.thread = "start"]
<1>1. c \in Clients /\ TypeOK /\ ListShape /\ FiltersValid /\ Own(c)
  BY DEF Active, IInv, Own
<1>2. communicate_prog(c, join(s, c), r, {}) /\ UNCHANGED <<servers, astray>>
      /\ client[c].life = "up" /\ Fresh(c)
  BY DEF Join, Main, Fresh
<1>3. r \in ProcessType /\ r.host = s /\ r.thread = "start" /\ r.life = "up"
  BY <1>1, <1>2, Processes DEF ProcessType
<1>4. ListOK(join(s, c)) /\ OnlyFor(join(s, c), s, c)
      /\ (c \notin Joined(s) /\ c \in DOMAIN join(s, c) => join(s, c)[c] = {})
  BY <1>1, JoinList
<1>5. StepOf(c)
  <2>1. {} \in SUBSET Filters /\ (\A f \in {} : isValidArticle(f, FALSE))
    OBVIOUS
  <2>2. Serves(r.host) => ListOK(join(s, c)) /\ OnlyFor(join(s, c), r.host, c)
    BY <1>3, <1>4
  <2>3. astray \subseteq astray' /\ astray' \subseteq astray \cup {c}
    BY <1>2
  <2>4. QED
    BY <1>1, <1>2, <1>3, <2>1, <2>2, <2>3, CommandStep
<1>6. UNCHANGED <<starts, running, port>> /\ late' = late
  BY <1>2 DEF servers
<1>7. \A t \in running : c \notin Joined(t)
  BY <1>1, <1>2 DEF Own, MemberOfOne
<1>8. CASE Serves(s) /\ Call(s, join(s, c))
           /\ client' = [client EXCEPT ![c] = r]
           /\ believes' = [believes EXCEPT ![c] = {}]
  <2>1. client'[c] = r /\ believes'[c] = {}
    BY <1>1, <1>8, Processes DEF TypeOK
  <2>2. g_clientList'[s] = join(s, c)
        /\ \A t \in Servers \ {s} : g_clientList'[t] = g_clientList[t]
    <3>1. g_clientList' = [g_clientList EXCEPT ![s] = join(s, c)]
      BY <1>8 DEF Call
    <3>2. DOMAIN g_clientList = Servers
      BY <1>1 DEF ListShape
    <3>3. QED
      BY <3>1, <3>2
  <2>3. \A t \in running : c \in Joined(t)' => t = s /\ g_clientList'[t][c] = {}
    BY <1>1, <1>4, <1>7, <2>2, RunningIsServer DEF Joined
  <2>4. ThreadKnows(c)'
    BY <1>3, <1>6, <2>1 DEF ThreadKnows, host
  <2>5. ~Fresh(c)'
    BY <1>3, <2>1, RegistryAssumption DEF Fresh, host
  <2>6. MemberOfOne(c)'
    BY <1>6, <2>1, <2>3, <2>5 DEF MemberOfOne
  <2>7. MemberAtHost(c)'
    BY <1>3, <1>6, <2>1, <2>3 DEF MemberAtHost, host
  <2>8. QED
    BY <1>5, <2>4, <2>6, <2>7 DEF Own
<1>9. CASE NoAnswer(c, s, r, "ended")
  <2>1. UNCHANGED <<running, g_clientList, believes>> /\ astray' = astray
    BY <1>2, <1>6, <1>9 DEF NoAnswer
  <2>2. CASE client' = [client EXCEPT ![c] = Process("ended")]
    <3>1. client'[c] = Process("ended")
      BY <1>1, <2>2, Processes
    <3>2. QED
      BY <1>1, <1>5, <2>1, <3>1, OwnQuit, Processes
  <2>3. CASE client' = [client EXCEPT ![c] = r]
    <3>1. client'[c] = r
      BY <1>1, <2>3, Processes
    <3>2. QED
      BY <1>3, <1>5, <1>6, <1>7, <2>1, <2>3, <3>1, RegistryAssumption
         DEF Own, ThreadKnows, MemberOfOne, MemberAtHost, Fresh, Joined, host
  <2>4. QED
    BY <1>9, <2>2, <2>3 DEF NoAnswer
<1>10. QED
  BY <1>2, <1>3, <1>8, <1>9 DEF communicate_prog, Call

\* A command of the main thread other than "join": it makes c no member, and of
\* the member's filters what its user takes them for.
LEMMA OwnCommand ==
    ASSUME IInv, NEW c \in Active, NEW l, NEW after, NEW wanted \in SUBSET Filters,
           Main(c),
           after = client[c] \/ after = [client[c] EXCEPT !.life = "leaving"],
           \A f \in wanted : isValidArticle(f, FALSE),
           communicate_prog(c, l, after, wanted),
           UNCHANGED servers,
           astray \subseteq astray', astray' \subseteq astray \cup {c},
           Serves(host(c)) =>
             /\ ListOK(l) /\ OnlyFor(l, host(c), c)
             /\ c \in DOMAIN l =>
                  /\ c \in Joined(host(c))
                  /\ g_clientList[host(c)][c] = believes[c] => l[c] = wanted
                  /\ g_clientList[host(c)][c] \subseteq believes[c] => l[c] \subseteq wanted
             /\ c \in Joined(host(c)) \/ c \in astray' \/ wanted = believes[c]
    PROVE  StepOf(c) /\ Own(c)'
<1> DEFINE h == host(c)
<1>1. c \in Clients /\ TypeOK /\ ListShape /\ FiltersValid /\ Own(c)
  BY DEF Active, IInv, Own
<1>2. client[c] \in ProcessType /\ client[c].life = "up"
  BY <1>1, Processes DEF Main
<1>3. /\ after \in ProcessType /\ after.host = h /\ after.thread = client[c].thread
      /\ after.handle = client[c].handle /\ after.next = client[c].next
      /\ after.life \in {"up", "leaving"}
  BY <1>2 DEF ProcessType, host
<1>4. StepOf(c)
  BY <1>1, <1>3, CommandStep
<1>5. UNCHANGED <<starts, running, port>> /\ late' = late
  BY DEF servers
<1>6. CASE Serves(h) /\ Call(h, l)
           /\ client' = [client EXCEPT ![c] = after]
           /\ believes' = [believes EXCEPT ![c] = wanted]
  <2>1. client'[c] = after /\ believes'[c] = wanted
    BY <1>1, <1>6, Processes DEF TypeOK
  <2>2. h \in running /\ h \in Servers /\ running \subseteq Servers
        /\ DOMAIN g_clientList = Servers
    BY <1>1, <1>6, RunningIsServer DEF ListShape, Serves
  <2>3. g_clientList' = [g_clientList EXCEPT ![h] = l]
    BY <1>6 DEF Call
  <2>4. /\ g_clientList'[h] = l
        /\ \A t \in Servers \ {h} : g_clientList'[t] = g_clientList[t]
    BY <2>2, <2>3
  <2>5. \A t \in running : c \in Joined(t)' => c \in Joined(t)
    BY <1>6, <2>2, <2>4 DEF Joined
  <2>6. ThreadKnows(c)'
    BY <1>1, <1>3, <1>5, <2>1 DEF Own, ThreadKnows, host
  <2>7. ~Fresh(c)'
    BY <1>1, <1>3, <2>1, <2>2, RegistryAssumption DEF Fresh, host
  <2>8. ASSUME c \notin astray', NEW t \in running, c \in Joined(t)'
        PROVE  g_clientList'[t][c] = wanted
               /\ \A u \in running : c \in Joined(u)' => u = t
    <3>1. c \notin astray /\ c \in Joined(t)
      BY <2>5, <2>8
    <3>2. g_clientList[t][c] = believes[c] /\ \A u \in running : c \in Joined(u) => u = t
      BY <1>1, <3>1 DEF Own, MemberOfOne
    <3>3. CASE t = h
      <4>1. c \in DOMAIN l
        BY <2>4, <2>8, <3>3 DEF Joined
      <4>2. QED
        BY <1>6, <2>4, <2>5, <3>2, <3>3, <4>1
    <3>4. CASE t # h
      <4>1. c \notin Joined(h)
        BY <2>2, <3>2, <3>4
      <4>2. wanted = believes[c]
        BY <1>6, <2>8, <4>1
      <4>3. QED
        BY <2>2, <2>4, <2>5, <3>2, <3>4, <4>2
    <3>5. QED
      BY <3>3, <3>4
  <2>9. MemberOfOne(c)'
    BY <1>5, <2>1, <2>7, <2>8 DEF MemberOfOne
  <2>10. ASSUME late = 0, NEW t \in running, c \in Joined(t)'
         PROVE  /\ h = t /\ client[c].thread \in {"none", "start", "ping"}
                /\ client[c].thread = "ping" => client[c].handle = port[t]
                /\ g_clientList'[t][c] \subseteq wanted
    <3>1. c \in Joined(t)
      BY <2>5, <2>10
    <3>2. /\ h = t /\ client[c].thread \in {"none", "start", "ping"}
          /\ client[c].thread = "ping" => client[c].handle = port[t]
          /\ g_clientList[t][c] \subseteq believes[c]
      BY <1>1, <1>2, <2>10, <3>1 DEF Own, MemberAtHost
    <3>3. c \in DOMAIN l
      BY <2>4, <2>10, <3>2 DEF Joined
    <3>4. QED
      BY <1>6, <2>4, <3>2, <3>3
  <2>11. MemberAtHost(c)'
    BY <1>3, <1>5, <2>1, <2>10 DEF MemberAtHost, host
  <2>12. QED
    BY <1>4, <2>6, <2>9, <2>11 DEF Own
<1>7. CASE NoAnswer(c, h, after, "ended")
  <2>1. UNCHANGED <<running, g_clientList, believes>>
    BY <1>5, <1>7 DEF NoAnswer
  <2>2. CASE client' = [client EXCEPT ![c] = Process("ended")]
    <3>1. client'[c] = Process("ended")
      BY <1>1, <2>2, Processes
    <3>2. QED
      BY <1>1, <1>2, <1>4, <2>1, <3>1, OwnQuit
  <2>3. CASE client' = [client EXCEPT ![c] = after]
    <3>1. client'[c] = after
      BY <1>1, <2>3, Processes
    <3>2. ThreadKnows(c)'
      BY <1>1, <1>3, <1>5, <3>1 DEF Own, ThreadKnows, host
    <3>3. Fresh(c)' => Fresh(c)
      BY <1>2, <1>3, <3>1 DEF Fresh, host
    <3>4. MemberOfOne(c)'
      BY <1>1, <2>1, <3>3 DEF Own, MemberOfOne, Joined
    <3>5. MemberAtHost(c)'
      BY <1>1, <1>2, <1>3, <1>5, <2>1, <3>1 DEF Own, MemberAtHost, Joined, host
    <3>6. QED
      BY <1>4, <3>2, <3>4, <3>5 DEF Own
  <2>4. QED
    BY <1>7, <2>2, <2>3 DEF NoAnswer
<1>8. QED
  BY <1>3, <1>6, <1>7 DEF communicate_prog, Call

LEMMA NotesFacts ==
    ASSUME NEW c, Notes(c)
    PROVE  /\ astray \subseteq astray' /\ astray' \subseteq astray \cup {c}
           /\ Serves(host(c)) => c \in Joined(host(c)) \/ c \in astray'
BY DEF Notes

LEMMA OwnFilters ==
    ASSUME IInv, NEW c \in Active, NEW f \in Filters, Subscribe(c, f) \/ Unsubscribe(c, f)
    PROVE  StepOf(c) /\ Own(c)'
<1>1. c \in Clients /\ TypeOK /\ FiltersValid
  BY DEF Active, IInv
<1>2. Main(c) /\ isValidArticle(f, FALSE) /\ Notes(c) /\ UNCHANGED servers
  BY DEF Subscribe, Unsubscribe
<1>3. believes[c] \subseteq Filters /\ \A x \in believes[c] : isValidArticle(x, FALSE)
  BY <1>1, Processes DEF FiltersValid
<1>4. /\ astray \subseteq astray' /\ astray' \subseteq astray \cup {c}
      /\ Serves(host(c)) => c \in Joined(host(c)) \/ c \in astray'
  BY <1>2, NotesFacts
<1>5. Serves(host(c)) => host(c) \in Servers
  BY <1>1, RunningIsServer DEF Serves
<1>6. CASE Subscribe(c, f)
  <2> DEFINE l == subscribe(host(c), c, f)
             wanted == believes[c] \cup {f}
  <2>1. communicate_prog(c, l, client[c], wanted)
    BY <1>6 DEF Subscribe
  <2>2. wanted \in SUBSET Filters /\ \A x \in wanted : isValidArticle(x, FALSE)
    BY <1>2, <1>3
  <2>3. Serves(host(c)) =>
          /\ ListOK(l) /\ OnlyFor(l, host(c), c)
          /\ DOMAIN l = Joined(host(c))
          /\ c \in Joined(host(c)) => l[c] = g_clientList[host(c)][c] \cup {f}
    BY <1>1, <1>5, FilterLists
  <2> HIDE DEF l
  <2>4. QED
    BY <1>2, <1>4, <2>1, <2>2, <2>3, OwnCommand
<1>7. CASE Unsubscribe(c, f)
  <2> DEFINE l == unsubscribe(host(c), c, f)
             wanted == believes[c] \ {f}
  <2>1. communicate_prog(c, l, client[c], wanted)
    BY <1>7 DEF Unsubscribe
  <2>2. wanted \in SUBSET Filters /\ \A x \in wanted : isValidArticle(x, FALSE)
    BY <1>3
  <2>3. Serves(host(c)) =>
          /\ ListOK(l) /\ OnlyFor(l, host(c), c)
          /\ DOMAIN l = Joined(host(c))
          /\ c \in Joined(host(c)) => l[c] = g_clientList[host(c)][c] \ {f}
    BY <1>1, <1>5, FilterLists
  <2> HIDE DEF l
  <2>4. QED
    BY <1>2, <1>4, <2>1, <2>2, <2>3, OwnCommand
<1>8. QED
  BY <1>6, <1>7

LEMMA OwnPublish ==
    ASSUME IInv, NEW c \in Active, NEW a, Publish(c, a)
    PROVE  StepOf(c) /\ Own(c)'
<1>1. c \in Clients /\ TypeOK /\ FiltersValid
  BY DEF Active, IInv
<1> DEFINE l == g_clientList[host(c)]
<1>2. /\ Main(c) /\ UNCHANGED servers /\ UNCHANGED astray
      /\ communicate_prog(c, l, client[c], believes[c])
  BY DEF Publish
<1>3. believes[c] \in SUBSET Filters /\ \A x \in believes[c] : isValidArticle(x, FALSE)
  BY <1>1, Processes DEF FiltersValid
<1>4. Serves(host(c)) => ListOK(l) /\ OnlyFor(l, host(c), c)
  BY <1>1, RunningIsServer, JoinedFinite DEF OnlyFor, Joined, Serves
<1>5. DOMAIN l = Joined(host(c))
  BY DEF Joined
<1> HIDE DEF l
<1>6. c \in DOMAIN l =>
         /\ c \in Joined(host(c))
         /\ g_clientList[host(c)][c] = believes[c] => l[c] = believes[c]
         /\ g_clientList[host(c)][c] \subseteq believes[c] => l[c] \subseteq believes[c]
  BY <1>5 DEF l
<1>7. QED
  BY <1>2, <1>3, <1>4, <1>6, OwnCommand

LEMMA OwnLeaveGroup ==
    ASSUME IInv, NEW c \in Active, LeaveGroup(c)
    PROVE  StepOf(c) /\ Own(c)'
<1>1. c \in Clients /\ TypeOK
  BY DEF Active, IInv
<1> DEFINE l == leave(host(c), c)
           after == [client[c] EXCEPT !.life = "leaving"]
<1>2. Main(c) /\ communicate_prog(c, l, after, {}) /\ Notes(c) /\ UNCHANGED servers
  BY DEF LeaveGroup
<1>3. /\ astray \subseteq astray' /\ astray' \subseteq astray \cup {c}
      /\ Serves(host(c)) => c \in Joined(host(c)) \/ c \in astray'
  BY <1>2, NotesFacts
<1>4. Serves(host(c)) =>
        ListOK(l) /\ OnlyFor(l, host(c), c) /\ c \notin DOMAIN l
  BY <1>1, RunningIsServer, LeaveList DEF Serves
<1> HIDE DEF l
<1>5. {} \in SUBSET Filters /\ \A f \in {} : isValidArticle(f, FALSE)
  OBVIOUS
<1>6. QED
  BY <1>2, <1>3, <1>4, <1>5, OwnCommand

LEMMA OwnExit ==
    ASSUME IInv, NEW c \in Active, Exit(c)
    PROVE  StepOf(c) /\ Own(c)'
<1>1. c \in Clients /\ TypeOK /\ ListShape /\ FiltersValid /\ Own(c)
  BY DEF Active, IInv, Own
<1>2. client' = [client EXCEPT ![c] = Process("ended")]
      /\ UNCHANGED <<servers, g_clientList, believes, astray>>
  BY DEF Exit
<1>3. Process("ended") \in ProcessType
  BY DEF Process, ProcessType
<1>4. UNCHANGED <<registry, starts, running, bound, port, leaving, registered, early, ends>>
      /\ late' \in 0..MaxLate /\ late <= late'
  BY <1>1, <1>2, PubSubAssumption DEF servers, TypeOK
<1>5. StepOf(c)
  BY <1>1, <1>2, <1>3, <1>4, QuietStep
<1>6. client'[c] = Process("ended") /\ client[c] \in ProcessType
  BY <1>1, <1>2, Processes
<1>7. UNCHANGED <<running, g_clientList, believes>> /\ astray \subseteq astray'
  BY <1>2, <1>4
<1>8. Own(c)'
  BY <1>1, <1>6, <1>7, OwnQuit
<1>9. QED
  BY <1>5, <1>8

\* A step of the ping thread that makes no call, or gets no answer to it.
LEMMA QuietThread ==
    ASSUME IInv, NEW c \in Active, NEW r \in ProcessType,
           client' = [client EXCEPT ![c] = r],
           UNCHANGED <<registry, group, believes, astray, registered, early, ends>>,
           late' \in 0..MaxLate, late <= late'
    PROVE  /\ StepOf(c) /\ client'[c] = r
           /\ r = Process("failed") => Own(c)'
           /\ ~Fresh(c)' => MemberOfOne(c)'
<1>1. c \in Clients /\ TypeOK /\ ListShape /\ FiltersValid /\ Own(c)
  BY DEF Active, IInv, Own
<1>2. UNCHANGED <<registry, starts, running, bound, port, leaving, registered, early, ends>>
      /\ UNCHANGED <<g_clientList, believes, astray>>
  BY DEF group
<1>3. StepOf(c)
  BY <1>1, <1>2, QuietStep
<1>4. client'[c] = r /\ client[c] \in ProcessType
  BY <1>1, Processes
<1>5. r = Process("failed") => Own(c)'
  BY <1>1, <1>2, <1>4, OwnQuit
<1>6. ~Fresh(c)' => MemberOfOne(c)'
  BY <1>1, <1>2 DEF Own, MemberOfOne, Joined
<1>7. QED
  BY <1>3, <1>4, <1>5, <1>6

LEMMA OwnCreateHandle ==
    ASSUME IInv, NEW c \in Active, CreateHandle(c)
    PROVE  StepOf(c) /\ Own(c)'
<1> DEFINE r == [client[c] EXCEPT !.handle = port[host(c)],
                   !.thread = IF client[c].life = "up" THEN "ping" ELSE "none"]
<1>1. c \in Clients /\ TypeOK /\ SeatServes /\ Own(c) /\ client[c] \in ProcessType
  BY Processes DEF Active, IInv, Own
<1>2. /\ client[c].thread = "start" /\ client[c].life \in {"up", "leaving"}
      /\ host(c) \in Servers /\ Nobody # host(c)
      /\ UNCHANGED <<servers, astray>>
  BY <1>1, RegistryAssumption DEF CreateHandle, Thread, Own, ThreadKnows
<1>3. late' \in 0..MaxLate /\ late <= late' /\ late' = late
  BY <1>1, <1>2, PubSubAssumption DEF servers, TypeOK
<1>4. UNCHANGED <<registry, group, believes, astray, registered, early, ends>>
  BY <1>2 DEF CreateHandle, NoAnswer, servers, group
<1>5. /\ r \in ProcessType /\ r.life = client[c].life /\ r.host = host(c)
      /\ r.handle = port[host(c)] /\ r.thread \in {"ping", "none"}
  <2>1. port[host(c)] \in Nat
    BY <1>1, <1>2 DEF TypeOK, GroupTypeOK
  <2>2. QED
    BY <1>1, <2>1 DEF ProcessType, host
<1>6. CASE client' = [client EXCEPT ![c] = r]
  <2> HIDE DEF r
  <2>1. StepOf(c) /\ client'[c] = r /\ (~Fresh(c)' => MemberOfOne(c)')
    BY <1>3, <1>4, <1>5, <1>6, QuietThread
  <2>2. ~Fresh(c)'
    BY <1>2, <1>5, <2>1 DEF Fresh, host
  <2>3. ThreadKnows(c)'
    BY <1>2, <1>5, <2>1 DEF ThreadKnows, host
  <2>4. MemberAtHost(c)'
    BY <1>1, <1>2, <1>3, <1>4, <1>5, <2>1 DEF Own, MemberAtHost, group, Joined, host
  <2>5. QED
    BY <2>1, <2>2, <2>3, <2>4 DEF Own
<1>7. CASE client' = [client EXCEPT ![c] = Process("failed")]
  <2>1. Process("failed") \in ProcessType
    BY DEF Process, ProcessType
  <2>2. QED
    BY <1>3, <1>4, <1>7, <2>1, QuietThread
<1>8. QED
  BY <1>6, <1>7 DEF CreateHandle, NoAnswer

LEMMA OwnPingFails ==
    ASSUME IInv, NEW c \in Active, PingFails(c)
    PROVE  StepOf(c) /\ Own(c)'
<1> DEFINE r == [client[c] EXCEPT !.thread = "lookup"]
<1>1. c \in Clients /\ TypeOK /\ SeatServes /\ Own(c) /\ client[c] \in ProcessType
  BY Processes DEF Active, IInv, Own
<1>2. /\ client[c].thread = "ping" /\ client[c].life \in {"up", "leaving"}
      /\ host(c) \in Servers /\ host(c) # Nobody
  BY <1>1, RegistryAssumption DEF PingFails, Thread, Own, ThreadKnows
<1>3. /\ client' = [client EXCEPT ![c] = r]
      /\ UNCHANGED <<registry, group, believes, astray, registered, early, ends>>
  BY <1>1, Processes DEF PingFails
<1>4. late' \in 0..MaxLate /\ late <= late' /\ (late' = 0 => late = 0 /\ ~Pings(c))
  BY <1>1, PubSubAssumption DEF TypeOK, PingFails
<1>5. /\ r \in ProcessType /\ r.life = client[c].life /\ r.host = host(c)
      /\ r.thread = "lookup"
  BY <1>1 DEF ProcessType, host
<1> HIDE DEF r
<1>6. StepOf(c) /\ client'[c] = r /\ (~Fresh(c)' => MemberOfOne(c)')
  BY <1>3, <1>4, <1>5, QuietThread
<1>7. ~Fresh(c)'
  BY <1>2, <1>5, <1>6 DEF Fresh, host
<1>8. late' = 0 => \A s \in running : c \notin Joined(s)
  BY <1>1, <1>2, <1>4 DEF Own, MemberAtHost, SeatServes, Pings
<1>9. ThreadKnows(c)'
  BY <1>2, <1>5, <1>6 DEF ThreadKnows, host
<1>10. MemberAtHost(c)'
  BY <1>3, <1>8 DEF MemberAtHost, group, Joined
<1>11. QED
  BY <1>6, <1>7, <1>9, <1>10 DEF Own

LEMMA HeadListed ==
    ASSUME TypeOK, g_serverList # <<>>
    PROVE  Head(g_serverList) \in Listed /\ Head(g_serverList) \in Servers
<1>1. g_serverList \in Seq(Servers)
  BY DEF TypeOK, RegistryTypeOK
<1>2. 1 \in DOMAIN g_serverList /\ Head(g_serverList) = g_serverList[1]
  BY <1>1
<1>3. QED
  BY <1>1, <1>2 DEF Listed, ToSet

LEMMA OwnGetServerList ==
    ASSUME IInv, NEW c \in Active, GetServerList(c)
    PROVE  StepOf(c) /\ Own(c)'
<1>1. c \in Clients /\ TypeOK /\ Own(c) /\ client[c] \in ProcessType
  BY Processes DEF Active, IInv, Own
<1>2. /\ client[c].thread = "lookup" /\ client[c].life \in {"up", "leaving"}
      /\ UNCHANGED <<registry, group, believes, astray, registered, early, ends, late>>
  BY DEF GetServerList, Thread, servers, group
<1>3. late' \in 0..MaxLate /\ late <= late'
  BY <1>1, <1>2, PubSubAssumption DEF TypeOK
<1>4. CASE registryUp /\ g_serverList # <<>>
  <2> DEFINE n == Head(g_serverList)
             r == [client[c] EXCEPT !.thread = "cleared", !.host = Nobody, !.next = n]
  <2>1. client' = [client EXCEPT ![c] = r]
    BY <1>1, <1>4, Processes DEF GetServerList
  <2>2. n \in Servers
    BY <1>1, <1>4, HeadListed
  <2>3. /\ r \in ProcessType /\ r.life = client[c].life
        /\ r.thread = "cleared" /\ r.next = n
    BY <1>1, <2>2 DEF ProcessType
  <2> HIDE DEF r, n
  <2>4. StepOf(c) /\ client'[c] = r /\ (~Fresh(c)' => MemberOfOne(c)')
    BY <1>2, <1>3, <2>1, <2>3, QuietThread
  <2>5. ~Fresh(c)'
    BY <1>2, <2>3, <2>4 DEF Fresh
  <2>6. ThreadKnows(c)'
    BY <1>2, <2>2, <2>3, <2>4 DEF ThreadKnows
  <2>7. MemberAtHost(c)'
    BY <1>1, <1>2, <2>3, <2>4 DEF Own, MemberAtHost, group, Joined
  <2>8. QED
    BY <2>4, <2>5, <2>6, <2>7 DEF Own
<1>5. CASE ~(registryUp /\ g_serverList # <<>>)
  <2>1. client' = [client EXCEPT ![c] = Process("failed")]
    BY <1>5 DEF GetServerList
  <2>2. Process("failed") \in ProcessType
    BY DEF Process, ProcessType
  <2>3. QED
    BY <1>2, <1>3, <2>1, <2>2, QuietThread
<1>6. QED
  BY <1>4, <1>5

LEMMA OwnCopyAddress ==
    ASSUME IInv, NEW c \in Active, CopyAddress(c)
    PROVE  StepOf(c) /\ Own(c)'
<1> DEFINE n == client[c].next
           r == [client[c] EXCEPT !.host = n, !.next = Nobody, !.thread = "rejoin"]
<1>1. c \in Clients /\ TypeOK /\ Own(c) /\ client[c] \in ProcessType
  BY Processes DEF Active, IInv, Own
<1>2. /\ client[c].thread = "cleared" /\ client[c].life \in {"up", "leaving"}
      /\ n \in Servers
  BY <1>1 DEF CopyAddress, Thread, Own, ThreadKnows
<1>3. /\ client' = [client EXCEPT ![c] = r]
      /\ UNCHANGED <<registry, group, believes, astray, registered, early, ends, late>>
  BY <1>1, Processes DEF CopyAddress, servers, group
<1>4. late' \in 0..MaxLate /\ late <= late'
  BY <1>1, <1>3, PubSubAssumption DEF TypeOK
<1>5. /\ r \in ProcessType /\ r.life = client[c].life
      /\ r.thread = "rejoin" /\ r.host = n
  BY <1>1, <1>2 DEF ProcessType
<1> HIDE DEF r, n
<1>6. StepOf(c) /\ client'[c] = r /\ (~Fresh(c)' => MemberOfOne(c)')
  BY <1>3, <1>4, <1>5, QuietThread
<1>7. ~Fresh(c)'
  BY <1>2, <1>5, <1>6 DEF Fresh
<1>8. ThreadKnows(c)'
  BY <1>2, <1>5, <1>6 DEF ThreadKnows, host
<1>9. MemberAtHost(c)'
  BY <1>1, <1>2, <1>3, <1>5, <1>6 DEF Own, MemberAtHost, group, Joined
<1>10. QED
  BY <1>6, <1>7, <1>8, <1>9 DEF Own

LEMMA OwnRejoin ==
    ASSUME IInv, NEW c \in Active, Rejoin(c)
    PROVE  StepOf(c) /\ Own(c)'
<1> DEFINE h == host(c)
           r == Rejoined(c)
           l == join(h, c)
<1>1. c \in Clients /\ TypeOK /\ ListShape /\ FiltersValid /\ Own(c)
      /\ client[c] \in ProcessType
  BY Processes DEF Active, IInv, Own
<1>2. /\ client[c].thread = "rejoin" /\ client[c].life \in {"up", "leaving"}
      /\ h \in Servers /\ h # Nobody /\ UNCHANGED servers
  BY <1>1, RegistryAssumption DEF Rejoin, Thread, Own, ThreadKnows
<1>3. /\ r \in ProcessType /\ r.life = client[c].life /\ r.host = h
      /\ r.thread = "start"
  BY <1>1 DEF ProcessType, Rejoined, host
<1>4. UNCHANGED <<registry, starts, running, bound, port, leaving, registered, early, ends>>
      /\ late' \in 0..MaxLate /\ late <= late' /\ late' = late
  BY <1>1, <1>2, PubSubAssumption DEF servers, TypeOK
<1>5. late = 0 => \A s \in running : c \notin Joined(s)
  BY <1>1, <1>2 DEF Own, MemberAtHost
<1> HIDE DEF r
<1>6. CASE /\ Serves(h) /\ Call(h, l)
           /\ client' = [client EXCEPT ![c] = r]
           /\ Notes(c) /\ UNCHANGED believes
  <2>1. /\ ListOK(l) /\ OnlyFor(l, h, c)
        /\ c \in Joined(h) => l = g_clientList[h]
        /\ c \notin Joined(h) /\ c \in DOMAIN l => l[c] = {}
    BY <1>1, <1>2, JoinList
  <2> HIDE DEF l
  <2>2. /\ h \in running /\ astray \subseteq astray' /\ astray' \subseteq astray \cup {c}
        /\ c \in Joined(h) \/ c \in astray'
    BY <1>6, NotesFacts DEF Serves
  <2>3. g_clientList' = [g_clientList EXCEPT ![h] = l] /\ UNCHANGED <<running, port>>
    BY <1>4, <1>6 DEF Call
  <2>4. believes[c] \in SUBSET Filters /\ believes' = [believes EXCEPT ![c] = believes[c]]
        /\ \A f \in believes[c] : isValidArticle(f, FALSE)
    BY <1>1, <1>6, Processes DEF FiltersValid, TypeOK
  <2>5. StepOf(c)
    BY <1>1, <1>2, <1>3, <1>6, <2>1, <2>2, <2>3, <2>4, AnsweredStep
  <2>6. client'[c] = r
    BY <1>1, <1>6, Processes
  <2>7. /\ g_clientList'[h] = l
        /\ \A t \in Servers \ {h} : g_clientList'[t] = g_clientList[t]
    BY <1>1, <1>2, <2>3 DEF ListShape
  <2>8. ~Fresh(c)'
    BY <1>2, <1>3, <2>6 DEF Fresh, host
  <2>9. ThreadKnows(c)'
    BY <1>2, <1>3, <2>6 DEF ThreadKnows, host
  <2>10. c \notin astray' => \A t \in Servers : g_clientList'[t] = g_clientList[t]
    BY <2>1, <2>2, <2>7
  <2>11. MemberOfOne(c)'
    BY <1>1, <1>6, <2>2, <2>3, <2>8, <2>10, RunningIsServer
       DEF Own, MemberOfOne, Joined
  <2>12. late = 0 => \A t \in running : c \in Joined(t)' => t = h /\ l[c] = {}
    BY <1>1, <1>5, <2>1, <2>2, <2>7, RunningIsServer DEF Joined
  <2>13. MemberAtHost(c)'
    BY <1>3, <1>4, <2>3, <2>6, <2>7, <2>12 DEF MemberAtHost, host
  <2>14. QED
    BY <2>5, <2>9, <2>11, <2>13 DEF Own
<1>7. CASE NoAnswer(c, h, r, "failed") /\ UNCHANGED astray
  <2>1. UNCHANGED <<registry, group, believes, astray, registered, early, ends>>
    BY <1>4, <1>7 DEF NoAnswer, group
  <2>2. CASE client' = [client EXCEPT ![c] = Process("failed")]
    <3>1. Process("failed") \in ProcessType
      BY DEF Process, ProcessType
    <3>2. QED
      BY <1>4, <2>1, <2>2, <3>1, QuietThread
  <2>3. CASE client' = [client EXCEPT ![c] = r]
    <3>1. StepOf(c) /\ client'[c] = r /\ (~Fresh(c)' => MemberOfOne(c)')
      BY <1>3, <1>4, <2>1, <2>3, QuietThread
    <3>2. ~Fresh(c)'
      BY <1>2, <1>3, <3>1 DEF Fresh, host
    <3>3. ThreadKnows(c)'
      BY <1>2, <1>3, <1>4, <3>1 DEF ThreadKnows, host
    <3>4. MemberAtHost(c)'
      BY <1>4, <1>5, <2>1, <3>1 DEF MemberAtHost, group, Joined
    <3>5. QED
      BY <3>1, <3>2, <3>3, <3>4 DEF Own
  <2>4. QED
    BY <1>7, <2>2, <2>3 DEF NoAnswer
<1>8. QED
  BY <1>6, <1>7 DEF Rejoin, Call, r

LEMMA OwnStep ==
    ASSUME IInv, NEW c \in Active, MainStep(c) \/ PingStep(c)
    PROVE  StepOf(c) /\ Own(c)'
BY OwnStartClient, OwnJoin, OwnFilters, OwnPublish, OwnLeaveGroup, OwnExit,
   OwnCreateHandle, OwnPingFails, OwnGetServerList, OwnCopyAddress, OwnRejoin
   DEF MainStep, PingStep

\* What a step of one client means for another.
LEMMA OthersStep ==
    ASSUME IInv, NEW c \in Clients, NEW d \in Active, d # c, StepOf(c)
    PROVE  Own(d)'
<1>1. d \in Clients /\ TypeOK /\ Own(d)
  BY DEF Active, IInv, Own
<1>2. /\ client'[d] = client[d] /\ believes'[d] = believes[d]
      /\ d \in astray' <=> d \in astray
  <2>1. /\ DOMAIN client = Clients /\ DOMAIN believes = Clients
        /\ \E r : client' = [client EXCEPT ![c] = r]
        /\ \E b : believes' = [believes EXCEPT ![c] = b]
        /\ astray \subseteq astray' /\ astray' \subseteq astray \cup {c}
    BY <1>1 DEF StepOf, TypeOK
  <2>2. QED
    BY <1>1, <2>1
<1>3. /\ UNCHANGED <<port, running>>
      /\ late \in Nat /\ late' \in Nat /\ late <= late'
      /\ running \subseteq Servers
  BY <1>1, PubSubAssumption, RunningIsServer DEF StepOf, TypeOK
<1>4. \A s \in Servers :
        /\ d \in Joined(s)' <=> d \in Joined(s)
        /\ d \in Joined(s) => g_clientList'[s][d] = g_clientList[s][d]
  BY <1>1 DEF StepOf
<1>5. ThreadKnows(d)'
  BY <1>1, <1>2 DEF Own, ThreadKnows, host
<1>6. Fresh(d)' => Fresh(d)
  BY <1>2 DEF Fresh, host
<1>7. MemberOfOne(d)'
  BY <1>1, <1>2, <1>3, <1>4, <1>6 DEF Own, MemberOfOne
<1>8. MemberAtHost(d)'
  BY <1>1, <1>2, <1>3, <1>4 DEF Own, MemberAtHost, host
<1>9. QED
  BY <1>5, <1>7, <1>8 DEF Own

LEMMA ClientStep ==
    ASSUME IInv, NEW c \in Clients, StepOf(c),
           c \in Active => Own(c)',
           c \notin Active => client' = client
    PROVE  IInv'
<1>1. TypeOK /\ ListShape
  BY DEF IInv
<1>2. /\ UNCHANGED <<registry, starts, running, bound, port, leaving, registered, early, ends>>
      /\ late \in Nat /\ late' \in 0..MaxLate /\ late <= late'
  BY <1>1, PubSubAssumption DEF StepOf, TypeOK
<1>3. TypeOK'
  <2>1. RegistryTypeOK'
    BY <1>1, <1>2 DEF TypeOK, RegistryTypeOK, registry, heart, Listed
  <2>2. GroupTypeOK'
    BY <1>1, <1>2 DEF TypeOK, GroupTypeOK, StepOf, ListOK, Joined
  <2>3. client' \in [Clients -> ProcessType]
    BY <1>1, Processes DEF StepOf, TypeOK
  <2>4. believes' \in [Clients -> SUBSET Filters]
    BY <1>1 DEF StepOf, TypeOK
  <2>5. astray' \subseteq Clients
    BY <1>1 DEF StepOf, TypeOK
  <2>6. registered' \subseteq running' /\ early' \subseteq Servers /\ ends' \in 0..MaxEnds
    BY <1>1, <1>2 DEF TypeOK
  <2>7. QED
    BY <1>2, <2>1, <2>2, <2>3, <2>4, <2>5, <2>6 DEF TypeOK, ProcessType
<1>4. SilentAhead' /\ SilentUnbound' /\ LostIsDown'
  BY <1>2 DEF IInv, SilentAhead, Ahead, SilentUnbound, Reaches, LostIsDown, registry, heart, Listed
<1>5. SeatServes'
  <2>1. ASSUME NEW s \in running, NEW d \in Joined(s)'
        PROVE  Serves(s)
    <3>1. d \in Clients /\ s \in Servers
      BY <1>1, <2>1, RunningIsServer DEF StepOf, ListOK, Joined
    <3>2. d \in Joined(s) \/ Serves(s)
      BY <2>1, <3>1 DEF StepOf
    <3>3. QED
      BY <2>1, <3>2 DEF IInv, SeatServes
  <2>2. QED
    BY <1>2, <2>1 DEF SeatServes, Serves
<1>6. LiveListed'
  BY <1>2 DEF IInv, LiveListed, registry, Listed
<1>7. Passive'
  <2>1. \A d \in Clients \ Active : client'[d] = client[d]
    BY <1>1 DEF StepOf, TypeOK
  <2>2. QED
    BY <2>1 DEF IInv, Passive
<1>8. FiltersValid'
  <2>1. PICK b \in SUBSET Filters : /\ believes' = [believes EXCEPT ![c] = b]
                                    /\ \A f \in b : isValidArticle(f, FALSE)
    BY DEF StepOf
  <2>2. \A d \in Clients : believes'[d] = IF d = c THEN b ELSE believes[d]
    BY <1>1, <2>1 DEF TypeOK
  <2>3. QED
    BY <2>1, <2>2 DEF IInv, FiltersValid
<1>9. \A d \in Active : Own(d)'
  BY OthersStep
<1>10. QED
  BY <1>3, <1>4, <1>5, <1>6, <1>7, <1>8, <1>9 DEF IInv, Own, StepOf

\* A client that only joins.
LEMMA OtherStep ==
    ASSUME IInv, NEW o \in Others, Other(o[1], o[2])
    PROVE  IInv'
<1> DEFINE c == o[1]
           s == o[2]
<1>1. c \in Clients /\ s \in Servers /\ c \notin Active
  BY PubSubAssumption DEF Active
<1>2. TypeOK /\ ListShape /\ FiltersValid
  BY DEF IInv
<1>3. /\ g_clientList' = [g_clientList EXCEPT ![s] = join(s, c)] /\ Serves(s)
      /\ UNCHANGED servers /\ UNCHANGED <<client, believes, astray>>
  BY DEF Other, Call, servers, users
<1>4. ListOK(join(s, c)) /\ OnlyFor(join(s, c), s, c)
  BY <1>1, <1>2, JoinList
<1>5. client[c] \in ProcessType /\ client' = [client EXCEPT ![c] = client[c]]
  BY <1>1, <1>2, <1>3, Processes
<1>6. believes[c] \in SUBSET Filters /\ believes' = [believes EXCEPT ![c] = believes[c]]
      /\ \A f \in believes[c] : isValidArticle(f, FALSE)
  BY <1>1, <1>2, <1>3, Processes DEF FiltersValid, TypeOK
<1>7. StepOf(c)
  BY <1>1, <1>2, <1>3, <1>4, <1>5, <1>6, AnsweredStep
<1>8. QED
  BY <1>1, <1>3, <1>7, ClientStep

----------------------------------------------------------------------------
(* The list of servers.                                                       *)

LEMMA RemoveAtType ==
    ASSUME NEW S, NEW q \in Seq(S), NEW i \in DOMAIN q
    PROVE  /\ RemoveAt(q, i) \in Seq(S)
           /\ Len(RemoveAt(q, i)) = Len(q) - 1
           /\ \A k \in DOMAIN RemoveAt(q, i) :
                RemoveAt(q, i)[k] = IF k < i THEN q[k] ELSE q[k + 1]
<1> DEFINE left == SubSeq(q, 1, i - 1)
           right == SubSeq(q, i + 1, Len(q))
<1>1. DOMAIN q = 1..Len(q) /\ Len(q) \in Nat /\ i \in 1..Len(q)
  BY LenProperties
<1>2. /\ left \in Seq(S) /\ Len(left) = i - 1
      /\ \A k \in 1..(i - 1) : left[k] = q[k]
  BY <1>1
<1>3. /\ right \in Seq(S) /\ Len(right) = Len(q) - i
      /\ \A k \in 1..(Len(q) - i) : right[k] = q[k + i]
  BY <1>1
<1> HIDE DEF left, right
<1>4. /\ left \o right \in Seq(S)
      /\ Len(left \o right) = Len(q) - 1
      /\ \A k \in 1..(Len(q) - 1) :
           (left \o right)[k] = IF k <= i - 1 THEN left[k] ELSE right[k - (i - 1)]
  <2>1. /\ left \o right \in Seq(S)
        /\ Len(left \o right) = Len(left) + Len(right)
        /\ \A k \in 1..(Len(left) + Len(right)) :
             (left \o right)[k] = IF k <= Len(left) THEN left[k] ELSE right[k - Len(left)]
    BY <1>2, <1>3, ConcatProperties
  <2>2. Len(left) + Len(right) = Len(q) - 1
    BY <1>1, <1>2, <1>3
  <2> QED  BY <1>2, <2>1, <2>2
<1>5. RemoveAt(q, i) = left \o right
  BY DEF RemoveAt, left, right
<1>6. ASSUME NEW k \in 1..(Len(q) - 1)
      PROVE  (left \o right)[k] = IF k < i THEN q[k] ELSE q[k + 1]
  <2>1. CASE k < i
    BY <1>1, <1>2, <1>4, <2>1
  <2>2. CASE ~(k < i)
    <3>1. k - (i - 1) \in 1..(Len(q) - i) /\ (left \o right)[k] = right[k - (i - 1)]
      BY <1>1, <1>4, <2>2
    <3>2. (k - (i - 1)) + i = k + 1
      BY <1>1
    <3> QED  BY <1>3, <2>2, <3>1, <3>2
  <2> QED  BY <2>1, <2>2
<1> QED  BY <1>4, <1>5, <1>6, LenProperties

LEMMA PositionOf ==
    ASSUME g_serverList \in Seq(Servers), NEW s \in Listed
    PROVE  /\ Position(s) \in 1..Len(g_serverList) /\ Len(g_serverList) \in Nat
           /\ g_serverList[Position(s)] = s
           /\ DOMAIN g_serverList = 1..Len(g_serverList)
BY DEF Listed, ToSet, Position

\* Registered at the end of the list, unless it is listed.
LEMMA Added ==
    ASSUME RegistryTypeOK, NEW s \in Servers
    PROVE  /\ addServer(s) \in Seq(Servers) /\ IsInjective(addServer(s))
           /\ ToSet(addServer(s)) = Listed \cup {s}
           /\ \A x, y : Reaches(g_serverList, x, y) => Reaches(addServer(s), x, y)
<1> DEFINE q == g_serverList
<1>1. q \in Seq(Servers) /\ IsInjective(q) /\ Len(q) \in Nat /\ DOMAIN q = 1..Len(q)
  BY DEF RegistryTypeOK
<1>2. CASE s \in Listed
  BY <1>1, <1>2 DEF addServer, Listed
<1>3. CASE s \notin Listed
  <2> DEFINE l == Append(q, s)
  <2>1. addServer(s) = l
    BY <1>3 DEF addServer
  <2>2. /\ l \in Seq(Servers) /\ Len(l) = Len(q) + 1
        /\ l[Len(q) + 1] = s
        /\ \A i \in 1..Len(q) : l[i] = q[i]
    BY <1>1
  <2>3. DOMAIN l = 1..(Len(q) + 1)
    BY <1>1, <2>2
  <2> HIDE DEF l
  <2>4. \A i \in 1..Len(q) : q[i] # s
    BY <1>1, <1>3 DEF Listed, ToSet
  <2>5. IsInjective(l)
    BY <1>1, <2>2, <2>3, <2>4 DEF IsInjective
  <2>6. ToSet(l) = Listed \cup {s}
    BY <1>1, <2>2, <2>3 DEF ToSet, Listed
  <2>7. ASSUME NEW x, NEW y, Reaches(q, x, y)
        PROVE  Reaches(l, x, y)
    BY <1>1, <2>2, <2>3, <2>7 DEF Reaches
  <2>8. QED
    BY <2>1, <2>2, <2>5, <2>6, <2>7
<1>4. QED
  BY <1>2, <1>3

\* Erased, wherever it stands: the others keep their order.
LEMMA Removed ==
    ASSUME RegistryTypeOK, NEW s \in Servers
    PROVE  /\ removeServer(s) \in Seq(Servers) /\ IsInjective(removeServer(s))
           /\ ToSet(removeServer(s)) = Listed \ {s}
           /\ \A x, y : x # s /\ y # s /\ Reaches(g_serverList, x, y)
                           => Reaches(removeServer(s), x, y)
<1> DEFINE q == g_serverList
           p == Position(s)
           l == RemoveAt(q, p)
<1>1. q \in Seq(Servers) /\ IsInjective(q) /\ Len(q) \in Nat /\ DOMAIN q = 1..Len(q)
  BY DEF RegistryTypeOK
<1>2. CASE s \notin Listed
  BY <1>1, <1>2 DEF removeServer, Listed
<1>3. CASE s \in Listed
  <2>1. removeServer(s) = l
    BY <1>3 DEF removeServer
  <2>2. p \in 1..Len(q) /\ q[p] = s
    BY <1>1, <1>3, PositionOf
  <2>3. /\ l \in Seq(Servers) /\ Len(l) = Len(q) - 1
        /\ \A k \in DOMAIN l : l[k] = IF k < p THEN q[k] ELSE q[k + 1]
    BY <1>1, <2>2, RemoveAtType
  <2>4. DOMAIN l = 1..(Len(q) - 1)
    BY <2>3
  <2> HIDE DEF p, l
  <2>5. IsInjective(l)
    BY <1>1, <2>2, <2>3, <2>4 DEF IsInjective
  <2>6. \A i \in 1..Len(q) : q[i] # s =>
          /\ i < p => i \in DOMAIN l /\ l[i] = q[i]
          /\ ~(i < p) => i - 1 \in DOMAIN l /\ l[i - 1] = q[i] /\ i # p
    BY <1>1, <2>2, <2>3, <2>4
  <2>7. ToSet(l) = Listed \ {s}
    <3>1. \A k \in DOMAIN l : l[k] \in Listed /\ l[k] # s
      BY <1>1, <2>2, <2>3, <2>4 DEF Listed, ToSet, IsInjective
    <3>2. \A x \in Listed \ {s} : \E k \in DOMAIN l : l[k] = x
      BY <1>1, <2>6 DEF Listed, ToSet
    <3>3. QED
      BY <3>1, <3>2 DEF ToSet
  <2>8. ASSUME NEW x, NEW y, x # s, y # s, Reaches(q, x, y)
        PROVE  Reaches(l, x, y)
    <3>1. PICK i \in 1..Len(q), j \in 1..Len(q) : i <= j /\ q[i] = x /\ q[j] = y
      BY <1>1, <2>8 DEF Reaches
    <3> DEFINE a == IF i < p THEN i ELSE i - 1
               b == IF j < p THEN j ELSE j - 1
    <3>2. a \in DOMAIN l /\ b \in DOMAIN l /\ l[a] = x /\ l[b] = y
      BY <2>6, <2>8, <3>1
    <3>3. a <= b
      BY <1>1, <2>2, <3>1
    <3>4. QED
      BY <3>2, <3>3 DEF Reaches
  <2>9. QED
    BY <2>1, <2>3, <2>5, <2>7, <2>8
<1>4. QED
  BY <1>2, <1>3

\* The iterator is stepped: it comes to whatever was ahead of it.
LEMMA Stepped ==
    ASSUME RegistryTypeOK, NEW s \in Listed
    PROVE  /\ After(s) = Nobody \/ (After(s) \in Listed /\ After(s) # s)
           /\ \A y : Reaches(g_serverList, s, y) /\ y # s =>
                /\ After(s) # Nobody
                /\ Reaches(g_serverList, After(s), y)
<1> DEFINE q == g_serverList
           p == Position(s)
<1>1. q \in Seq(Servers) /\ IsInjective(q) /\ Len(q) \in Nat /\ DOMAIN q = 1..Len(q)
  BY DEF RegistryTypeOK
<1>2. p \in 1..Len(q) /\ q[p] = s
  BY <1>1, PositionOf
<1>3. After(s) = IF p < Len(q) THEN q[p + 1] ELSE Nobody
  BY DEF After
<1> HIDE DEF p
<1>4. p < Len(q) => p + 1 \in DOMAIN q /\ q[p + 1] \in Listed /\ q[p + 1] # s
  BY <1>1, <1>2 DEF Listed, ToSet, IsInjective
<1>5. ASSUME NEW y, Reaches(q, s, y), y # s
      PROVE  After(s) # Nobody /\ Reaches(q, After(s), y)
  <2>1. PICK i \in 1..Len(q), j \in 1..Len(q) : i <= j /\ q[i] = s /\ q[j] = y
    BY <1>1, <1>5 DEF Reaches
  <2>2. i = p /\ j # p
    BY <1>1, <1>2, <1>5, <2>1 DEF IsInjective
  <2>3. p < Len(q) /\ p + 1 <= j
    BY <1>1, <1>2, <2>1, <2>2
  <2>4. After(s) = q[p + 1] /\ p + 1 \in DOMAIN q /\ q[p + 1] \in Servers
    BY <1>1, <1>2, <1>3, <2>3
  <2>5. Reaches(q, After(s), y)
    BY <1>1, <2>1, <2>3, <2>4 DEF Reaches
  <2>6. QED
    BY <2>4, <2>5, RegistryAssumption
<1>6. QED
  BY <1>3, <1>4, <1>5

----------------------------------------------------------------------------
(* Steps of the registry.                                                     *)

\* None of them touches a server or a client.
LEMMA UsersKept ==
    ASSUME IInv, UNCHANGED <<users, starts, running, port, g_clientList>>,
           late' \in 0..MaxLate, late <= late'
    PROVE  /\ ListShape' /\ SeatServes' /\ Passive' /\ FiltersValid'
           /\ \A c \in Active : ThreadKnows(c)' /\ MemberOfOne(c)' /\ MemberAtHost(c)'
<1>1. late \in Nat /\ late' \in Nat /\ (late' = 0 => late = 0)
  BY PubSubAssumption DEF IInv, TypeOK
<1>2. UNCHANGED <<client, believes, astray>>
  BY DEF users
<1>3. ListShape' /\ SeatServes' /\ Passive' /\ FiltersValid'
  BY <1>2 DEF IInv, ListShape, SeatServes, Serves, Joined, Passive, FiltersValid
<1>4. ASSUME NEW c \in Active
      PROVE  ThreadKnows(c)' /\ MemberOfOne(c)' /\ MemberAtHost(c)'
  <2>1. ThreadKnows(c) /\ MemberOfOne(c) /\ MemberAtHost(c)
    BY DEF IInv
  <2>2. ThreadKnows(c)'
    BY <1>2, <2>1 DEF ThreadKnows, host
  <2>3. MemberOfOne(c)'
    BY <1>2, <2>1 DEF MemberOfOne, Fresh, host, Joined
  <2>4. MemberAtHost(c)'
    BY <1>1, <1>2, <2>1 DEF MemberAtHost, host, Joined
  <2>5. QED
    BY <2>2, <2>3, <2>4
<1>5. QED
  BY <1>3, <1>4

LEMMA RegistryStep ==
    ASSUME IInv, UNCHANGED <<group, users, ends>>,
           late' \in 0..MaxLate, late <= late', registered' \subseteq running,
           early' \subseteq Servers,
           RegistryTypeOK', SilentAhead', SilentUnbound', LostIsDown', LiveListed'
    PROVE  IInv'
<1>1. UNCHANGED <<starts, running, bound, port, leaving, g_clientList, client, believes,
                  astray>>
  BY DEF group, users
<1>2. TypeOK'
  <2>1. GroupTypeOK'
    BY <1>1 DEF IInv, TypeOK, GroupTypeOK, Joined
  <2>2. QED
    BY <1>1, <2>1 DEF IInv, TypeOK
<1>3. /\ ListShape' /\ SeatServes' /\ Passive' /\ FiltersValid'
      /\ \A c \in Active : ThreadKnows(c)' /\ MemberOfOne(c)' /\ MemberAtHost(c)'
  BY <1>1, UsersKept
<1>4. QED
  BY <1>2, <1>3 DEF IInv

LEMMA KeepsRegisters ==
    ASSUME IInv, NEW m \in datagrams, Registers(m)
    PROVE  IInv'
<1> DEFINE s == m.server
<1>1. /\ RegistryTypeOK /\ m \in Datagram /\ s \in Servers /\ s # Nobody
      /\ registered \subseteq running /\ early \subseteq Servers
      /\ late \in 0..MaxLate /\ late <= late
  BY PubSubAssumption, RegistryAssumption DEF IInv, TypeOK, RegistryTypeOK, Datagram
<1>2. /\ UNCHANGED <<group, users, early, ends, late, asked, ping, registryUp>>
      /\ datagrams' = datagrams \ {m}
      /\ UNCHANGED <<running, bound>>
  BY DEF Registers, Listen, Register, Deregister, group
<1>3. registered' = IF m.op = "Register" /\ s \in running
                    THEN registered \cup {s} ELSE registered \ {s}
  BY DEF Registers
<1>4. CASE Register(m)
  <2>1. /\ m.op = "Register" /\ g_serverList' = addServer(s) /\ strayed' = strayed
        /\ silent' = silent \ {s}
        /\ \/ UNCHANGED <<it, freed>>
           \/ freed /\ freed' = FALSE /\ it' = s
    BY <1>4 DEF Register
  <2>2. /\ g_serverList' \in Seq(Servers) /\ IsInjective(g_serverList')
        /\ Listed' = Listed \cup {s}
        /\ \A x, y : Reaches(g_serverList, x, y) => Reaches(g_serverList', x, y)
    BY <1>1, <2>1, Added DEF Listed
  <2>3. RegistryTypeOK'
    <3>1. CASE UNCHANGED <<it, freed>>
      BY <1>1, <1>2, <2>1, <2>2, <3>1 DEF RegistryTypeOK
    <3>2. CASE freed /\ freed' = FALSE /\ it' = s
      BY <1>1, <1>2, <2>1, <2>2, <3>2 DEF RegistryTypeOK
    <3>3. QED
      BY <2>1, <3>1, <3>2
  <2>4. SilentAhead'
    BY <1>2, <2>1, <2>2 DEF IInv, SilentAhead, Ahead
  <2>5. SilentUnbound' /\ LostIsDown'
    BY <1>2, <2>1 DEF IInv, SilentUnbound, LostIsDown
  <2>6. LiveListed'
    BY <1>2, <1>3, <2>1, <2>2 DEF IInv, LiveListed
  <2>7. registered' \subseteq running
    BY <1>1, <1>3
  <2>8. QED
    BY <1>1, <1>2, <2>3, <2>4, <2>5, <2>6, <2>7, RegistryStep
<1>5. CASE Deregister(m)
  <2>1. /\ m.op = "Deregister" /\ g_serverList' = removeServer(s)
        /\ freed' = (freed \/ (it = s /\ ~freed))
        /\ strayed' = (strayed \/ (it = s /\ ~freed))
        /\ UNCHANGED <<it, silent>>
    BY <1>5 DEF Deregister
  <2>2. /\ g_serverList' \in Seq(Servers) /\ IsInjective(g_serverList')
        /\ Listed' = Listed \ {s}
        /\ \A x, y : x # s /\ y # s /\ Reaches(g_serverList, x, y)
                        => Reaches(g_serverList', x, y)
    BY <1>1, <2>1, Removed DEF Listed
  <2>3. RegistryTypeOK'
    BY <1>1, <1>2, <2>1, <2>2 DEF RegistryTypeOK
  <2>4. SilentAhead'
    <3> SUFFICES ASSUME ~strayed'
                 PROVE  Ahead'
      BY DEF SilentAhead
    <3>1. ~strayed /\ it # s /\ ~freed' /\ ~freed
      BY <2>1 DEF IInv, SilentAhead, Ahead
    <3>2. QED
      BY <1>2, <2>1, <2>2, <3>1 DEF IInv, SilentAhead, Ahead
  <2>5. SilentUnbound' /\ LostIsDown'
    BY <1>2, <2>1 DEF IInv, SilentUnbound, LostIsDown
  <2>6. LiveListed'
    <3>1. ~strayed' => ~strayed
      BY <2>1
    <3>2. QED
      BY <1>2, <1>3, <2>1, <2>2, <3>1 DEF IInv, LiveListed
  <2>7. registered' \subseteq running
    BY <1>1, <1>3, <2>1
  <2>8. QED
    BY <1>1, <1>2, <2>3, <2>4, <2>5, <2>6, <2>7, RegistryStep
<1>6. QED
  BY <1>4, <1>5 DEF Registers, Listen

LEMMA KeepsLose ==
    ASSUME IInv, NEW m \in datagrams, Lose(m)
    PROVE  IInv'
<1>1. /\ late' \in 0..MaxLate /\ late <= late' /\ late' # 0
      /\ UNCHANGED <<registryUp, g_serverList, heart, strayed, silent, group, users,
                     registered, early, ends>>
      /\ datagrams' \subseteq datagrams
  BY PubSubAssumption DEF Lose, IInv, TypeOK
<1>2. registered' \subseteq running /\ early' \subseteq Servers
      /\ UNCHANGED <<it, freed, asked, ping, running, bound>>
  BY <1>1 DEF IInv, TypeOK, group, heart
<1>3. RegistryTypeOK'
  BY <1>1, <1>2 DEF IInv, TypeOK, RegistryTypeOK, Listed
<1>4. SilentAhead' /\ SilentUnbound' /\ LostIsDown' /\ LiveListed'
  BY <1>1, <1>2 DEF IInv, SilentAhead, Ahead, SilentUnbound, Reaches, LostIsDown, LiveListed,
                    Listed
<1>5. QED
  BY <1>1, <1>2, <1>3, <1>4, RegistryStep

\* What the thread does besides: it pings the server it comes to.
HeartFrame ==
    /\ UNCHANGED <<group, users, registered, ends, datagrams, strayed>>
    /\ early' = early \cup ({asked'} \cap (running \ bound))
    /\ late' \in 0..MaxLate /\ late <= late'

LEMMA Framed ==
    ASSUME IInv, HeartFrame
    PROVE  /\ RegistryTypeOK /\ registered' \subseteq running /\ early' \subseteq Servers
           /\ UNCHANGED <<running, bound, port, starts, g_clientList>>
           /\ Listed \subseteq Servers /\ Nobody \notin Servers
<1>1. TypeOK /\ running \subseteq Servers
  BY RunningIsServer DEF IInv
<1>2. RegistryTypeOK /\ registered' \subseteq running /\ early' \subseteq Servers
  BY <1>1 DEF TypeOK, HeartFrame
<1>3. Listed \subseteq Servers
  BY <1>2 DEF RegistryTypeOK, Listed, ToSet
<1>4. QED
  BY <1>2, <1>3, RegistryAssumption DEF HeartFrame, group

LEMMA LiveKept ==
    ASSUME IInv, HeartFrame, UNCHANGED <<registryUp, g_serverList>>
    PROVE  LiveListed'
<1>1. late' = 0 => late = 0
  BY PubSubAssumption DEF IInv, TypeOK, HeartFrame
<1>2. QED
  BY <1>1 DEF IInv, LiveListed, Listed, HeartFrame

\* The one it comes to has bound its port, or its ping is lost.
LEMMA Pinged ==
    ASSUME IInv, HeartFrame, NEW s \in Servers \cup {Nobody}, PingTo(s, bound)
    PROVE  /\ it' = s /\ asked' = s /\ ping' \in {"none", "sent", "lost"}
           /\ ping' # "lost" => s \notin Servers \ bound
           /\ LostIsDown'
<1>1. /\ it' = s /\ asked' = s
      /\ ping' = IF s = Nobody THEN "none" ELSE IF s \in bound THEN "sent" ELSE "lost"
  BY DEF PingTo
<1>2. Nobody \notin Servers /\ UNCHANGED <<running, bound>>
  BY Framed
<1>3. LostIsDown'
  BY <1>1, <1>2 DEF LostIsDown, HeartFrame
<1>4. QED
  BY <1>1, <1>2, <1>3

LEMMA KeepsBeginRound ==
    ASSUME IInv, HeartFrame, BeginRound(bound)
    PROVE  IInv'
<1> DEFINE h == Head(g_serverList)
<1>1. /\ RegistryTypeOK /\ registered' \subseteq running /\ early' \subseteq Servers
      /\ UNCHANGED <<running, bound>> /\ Listed \subseteq Servers
  BY Framed
<1>2. /\ UNCHANGED <<registryUp, g_serverList, freed, datagrams, strayed>>
      /\ g_serverList # <<>> /\ it = Nobody /\ silent' = Listed \ bound
      /\ PingTo(h, bound)
  BY DEF BeginRound
<1>3. h \in Listed /\ h \in Servers /\ h # Nobody
  BY <1>2, HeadListed, RegistryAssumption DEF IInv
<1>4. /\ it' = h /\ asked' = h /\ ping' \in {"none", "sent", "lost"} /\ LostIsDown'
      /\ ping' # "lost" => h \in bound
  BY <1>2, <1>3, Pinged
<1>5. RegistryTypeOK'
  BY <1>1, <1>2, <1>3, <1>4 DEF RegistryTypeOK, HeartFrame, Listed
<1>6. SilentAhead'
  <2>1. /\ g_serverList \in Seq(Servers) /\ Len(g_serverList) \in Nat
        /\ DOMAIN g_serverList = 1..Len(g_serverList)
    BY <1>1 DEF RegistryTypeOK
  <2>2. h = g_serverList[1] /\ 1 \in DOMAIN g_serverList
    BY <1>2, <2>1
  <2>3. freed = FALSE
    BY <1>1, <1>2 DEF RegistryTypeOK
  <2> HIDE DEF h
  <2>4. \A s \in Listed : Reaches(g_serverList, h, s)
    BY <2>1, <2>2 DEF Listed, ToSet, Reaches
  <2>5. QED
    BY <1>2, <1>3, <1>4, <2>3, <2>4 DEF SilentAhead, Ahead
<1>7. SilentUnbound'
  BY <1>1, <1>2 DEF SilentUnbound
<1>8. LiveListed'
  BY <1>2, LiveKept
<1>9. QED
  BY <1>1, <1>4, <1>5, <1>6, <1>7, <1>8, RegistryStep DEF HeartFrame

\* From freed memory to wherever it leads.
LEMMA FreedAdvance ==
    ASSUME IInv, HeartFrame, freed, Advance(bound), UNCHANGED silent,
           g_serverList' \in Seq(Servers), IsInjective(g_serverList')
    PROVE  IInv'
<1>1. /\ RegistryTypeOK /\ registered' \subseteq running /\ early' \subseteq Servers
      /\ UNCHANGED <<running, bound>>
  BY Framed
<1>2. strayed /\ strayed' = strayed /\ datagrams' = datagrams
  BY DEF IInv, SilentAhead, Ahead, HeartFrame
<1>3. SilentAhead' /\ SilentUnbound' /\ LiveListed'
  BY <1>1, <1>2 DEF IInv, SilentAhead, SilentUnbound, LiveListed
<1>4. CASE registryUp' = FALSE /\ UNCHANGED heart
  <2>1. UNCHANGED <<it, freed, asked, ping>>
    BY <1>4 DEF heart
  <2>2. RegistryTypeOK'
    BY <1>1, <1>2, <1>4, <2>1 DEF RegistryTypeOK, Listed
  <2>3. LostIsDown'
    BY <1>1, <2>1 DEF IInv, LostIsDown, HeartFrame
  <2>4. QED
    BY <1>1, <1>3, <2>2, <2>3, RegistryStep DEF HeartFrame
<1>5. ASSUME registryUp' = registryUp, NEW s \in Servers \cup {Nobody},
             PingTo(s, bound), freed' \in BOOLEAN, s = Nobody => ~freed',
             s \in Servers \ ToSet(g_serverList') => freed'
      PROVE  IInv'
  <2>1. /\ it' = s /\ asked' = s /\ ping' \in {"none", "sent", "lost"} /\ LostIsDown'
    BY <1>5, Pinged
  <2>2. s = Nobody => ping' = "none"
    BY <1>5 DEF PingTo
  <2>3. RegistryTypeOK'
    BY <1>1, <1>2, <1>5, <2>1, <2>2 DEF RegistryTypeOK, Listed
  <2>4. QED
    BY <1>1, <1>3, <2>1, <2>3, RegistryStep DEF HeartFrame
<1>6. QED
  BY <1>4, <1>5 DEF Advance

LEMMA KeepsAnswered ==
    ASSUME IInv, HeartFrame, Answered(bound)
    PROVE  IInv'
<1> DEFINE n == After(it)
<1>1. /\ RegistryTypeOK /\ registered' \subseteq running /\ early' \subseteq Servers
      /\ UNCHANGED <<running, bound>> /\ Listed \subseteq Servers
      /\ Nobody \notin Servers
  BY Framed
<1>2. /\ UNCHANGED <<g_serverList, datagrams, strayed, silent>>
      /\ ping = "sent" /\ asked \in bound /\ Advance(bound)
  BY DEF Answered
<1>3. CASE freed
  BY <1>1, <1>2, <1>3, FreedAdvance DEF RegistryTypeOK
<1>4. CASE ~freed
  <2>1. /\ it \in Listed /\ UNCHANGED <<registryUp, freed>>
        /\ PingTo(n, bound)
    BY <1>1, <1>2, <1>4 DEF RegistryTypeOK, Advance
  <2>2. /\ n = Nobody \/ (n \in Listed /\ n # it)
        /\ \A y : Reaches(g_serverList, it, y) /\ y # it =>
             n # Nobody /\ Reaches(g_serverList, n, y)
    BY <1>1, <2>1, Stepped
  <2> HIDE DEF n
  <2>3. /\ it' = n /\ asked' = n /\ ping' \in {"none", "sent", "lost"} /\ LostIsDown'
        /\ ping' # "lost" => n \notin Servers \ bound
    BY <1>1, <2>1, <2>2, Pinged
  <2>4. n = Nobody => ping' = "none"
    BY <2>1 DEF PingTo
  <2>5. RegistryTypeOK'
    BY <1>1, <1>2, <1>4, <2>1, <2>2, <2>3, <2>4 DEF RegistryTypeOK, Listed
  <2>6. SilentAhead'
    <3> SUFFICES ASSUME ~strayed
                 PROVE  Ahead'
      BY <1>2 DEF SilentAhead
    <3>1. /\ asked = it /\ it # Nobody /\ it \notin silent
          /\ \A s \in silent \cap Listed : Reaches(g_serverList, it, s)
      BY <1>1, <1>2, <2>1 DEF IInv, SilentAhead, Ahead
    <3>2. \A s \in silent \cap Listed : n # Nobody /\ Reaches(g_serverList, n, s)
      BY <2>2, <3>1
    <3>3. n \in silent => ping' = "lost"
      BY <1>1, <2>2, <2>3 DEF IInv, SilentUnbound, RegistryTypeOK
    <3>4. QED
      BY <1>2, <1>4, <2>1, <2>3, <3>2, <3>3 DEF Ahead, Listed
  <2>7. SilentUnbound' /\ LiveListed'
    BY <1>1, <1>2, <2>1, LiveKept DEF IInv, SilentUnbound
  <2>8. QED
    BY <1>1, <2>3, <2>5, <2>6, <2>7, RegistryStep DEF HeartFrame
<1>5. QED
  BY <1>3, <1>4

\* The server is dropped: it does not answer, or its answer is late.
LEMMA KeepsUnanswered ==
    ASSUME IInv, HeartFrame, Unanswered(bound), ping = "lost" \/ late' # 0
    PROVE  IInv'
<1> DEFINE n == After(it)
<1>1. /\ RegistryTypeOK /\ registered' \subseteq running /\ early' \subseteq Servers
      /\ UNCHANGED <<running, bound>> /\ Listed \subseteq Servers
      /\ Nobody \notin Servers
  BY Framed
<1>2. /\ UNCHANGED <<datagrams, strayed, silent>>
      /\ ping # "none" /\ Advance(bound) /\ it \in Servers
      /\ g_serverList' = removeServer(it) \/ (freed /\ UNCHANGED g_serverList)
  BY <1>1 DEF Unanswered, Dropped, RegistryTypeOK
<1>3. /\ removeServer(it) \in Seq(Servers) /\ IsInjective(removeServer(it))
      /\ ToSet(removeServer(it)) = Listed \ {it}
      /\ \A x, y : x # it /\ y # it /\ Reaches(g_serverList, x, y)
                      => Reaches(removeServer(it), x, y)
  BY <1>1, <1>2, Removed
<1>4. CASE freed
  BY <1>1, <1>2, <1>3, <1>4, FreedAdvance DEF RegistryTypeOK
<1>5. CASE ~freed
  <2>1. /\ it \in Listed /\ UNCHANGED <<registryUp, freed>>
        /\ PingTo(n, bound) /\ g_serverList' = removeServer(it)
        /\ Listed' = Listed \ {it}
    BY <1>1, <1>2, <1>3, <1>5 DEF RegistryTypeOK, Advance, Listed
  <2>2. /\ n = Nobody \/ (n \in Listed /\ n # it)
        /\ \A y : Reaches(g_serverList, it, y) /\ y # it =>
             n # Nobody /\ Reaches(g_serverList, n, y)
    BY <1>1, <2>1, Stepped
  <2> HIDE DEF n
  <2>3. /\ it' = n /\ asked' = n /\ ping' \in {"none", "sent", "lost"} /\ LostIsDown'
        /\ ping' # "lost" => n \notin Servers \ bound
    BY <1>1, <2>1, <2>2, Pinged
  <2>4. n = Nobody => ping' = "none"
    BY <2>1 DEF PingTo
  <2>5. RegistryTypeOK'
    BY <1>1, <1>2, <1>3, <1>5, <2>1, <2>2, <2>3, <2>4 DEF RegistryTypeOK
  <2>6. SilentAhead'
    <3> SUFFICES ASSUME ~strayed
                 PROVE  Ahead'
      BY <1>2 DEF SilentAhead
    <3>1. it # Nobody /\ \A s \in silent \cap Listed : Reaches(g_serverList, it, s)
      BY <1>1, <2>1 DEF IInv, SilentAhead, Ahead
    <3>2. \A s \in silent \cap Listed' :
            n # Nobody /\ n # it /\ s # it /\ Reaches(g_serverList, n, s)
      BY <2>1, <2>2, <3>1
    <3>3. \A s \in silent \cap Listed' : n # Nobody /\ Reaches(g_serverList', n, s)
      BY <1>3, <2>1, <3>2
    <3>4. n \in silent => ping' = "lost"
      BY <1>1, <2>2, <2>3 DEF IInv, SilentUnbound, RegistryTypeOK
    <3>5. QED
      BY <1>2, <1>5, <2>1, <2>3, <3>3, <3>4 DEF Ahead
  <2>7. SilentUnbound'
    BY <1>1, <1>2 DEF IInv, SilentUnbound
  <2>8. LiveListed'
    <3> SUFFICES ASSUME ~strayed, registryUp, late' = 0, ~QuickRestart
                 PROVE  registered' \ early' \subseteq Listed'
      BY <1>2, <2>1 DEF LiveListed
    <3>1. late = 0 /\ ping = "lost" /\ asked = it
      BY PubSubAssumption DEF IInv, TypeOK, HeartFrame, SilentAhead, Ahead
    <3>2. registered \ early \subseteq Listed
      BY <3>1 DEF IInv, LiveListed
    <3>3. it \notin registered \ early
      BY <3>1 DEF IInv, TypeOK, LostIsDown
    <3>4. registered' = registered /\ early \subseteq early'
      BY DEF HeartFrame
    <3>5. QED
      BY <2>1, <3>2, <3>3, <3>4
  <2>9. QED
    BY <1>1, <2>3, <2>5, <2>6, <2>7, <2>8, RegistryStep DEF HeartFrame
<1>6. QED
  BY <1>4, <1>5

LEMMA KeepsHeartBeat ==
    ASSUME IInv, HeartBeat
    PROVE  IInv'
<1>1. /\ late \in 0..MaxLate /\ UNCHANGED <<group, users, registered, ends>>
      /\ early' = early \cup ({asked'} \cap (running \ bound))
  BY DEF IInv, TypeOK, HeartBeat
<1>2. CASE (BeginRound(bound) \/ Answered(bound)) /\ late' = late
  <2>1. HeartFrame
    BY <1>1, <1>2, PubSubAssumption DEF HeartFrame, BeginRound, Answered
  <2>2. QED
    BY <1>2, <2>1, KeepsBeginRound, KeepsAnswered
<1>3. CASE ping = "lost" /\ Unanswered(bound) /\ late' = late
  <2>1. HeartFrame
    BY <1>1, <1>3, PubSubAssumption DEF HeartFrame, Unanswered
  <2>2. QED
    BY <1>3, <2>1, KeepsUnanswered
<1>4. CASE late < MaxLate /\ Unanswered(bound) /\ late' = late + 1
  <2>1. HeartFrame /\ late' # 0
    BY <1>1, <1>4, PubSubAssumption DEF HeartFrame, Unanswered
  <2>2. QED
    BY <1>4, <2>1, KeepsUnanswered
<1>5. QED
  BY <1>2, <1>3, <1>4 DEF HeartBeat

----------------------------------------------------------------------------
(* Steps of a server.                                                         *)

\* A server that starts has no clients; others keep theirs.
ListChange(s) ==
    \/ /\ s \in running /\ g_clientList'[s] = g_clientList[s]
       /\ starts'[s] = starts[s] /\ (port'[s] = port[s] \/ ~Serves(s))
    \/ DOMAIN g_clientList'[s] = {}

\* What clients know and where they are members, with other servers running.
LEMMA ServersChange ==
    ASSUME IInv, UNCHANGED <<users, late>>, \A s \in running' : ListChange(s)
    PROVE  /\ SeatServes'
           /\ \A c \in Active : ThreadKnows(c)' /\ MemberOfOne(c)' /\ MemberAtHost(c)'
<1>1. UNCHANGED <<client, believes, astray>>
  BY DEF users
<1>2. ASSUME NEW s \in running', NEW c, c \in Joined(s)'
      PROVE  /\ s \in running /\ c \in Joined(s) /\ g_clientList'[s][c] = g_clientList[s][c]
             /\ starts'[s] = starts[s] /\ port'[s] = port[s] /\ Serves(s)
  <2>1. /\ s \in running /\ g_clientList'[s] = g_clientList[s]
        /\ starts'[s] = starts[s] /\ (port'[s] = port[s] \/ ~Serves(s))
    BY <1>2 DEF ListChange, Joined
  <2>2. c \in Joined(s)
    BY <1>2, <2>1 DEF Joined
  <2>3. QED
    BY <2>1, <2>2 DEF IInv, SeatServes
<1>3. SeatServes'
  BY <1>2 DEF SeatServes, Serves
<1>4. ASSUME NEW c \in Active
      PROVE  ThreadKnows(c)' /\ MemberOfOne(c)' /\ MemberAtHost(c)'
  <2>1. ThreadKnows(c) /\ MemberOfOne(c) /\ MemberAtHost(c)
    BY DEF IInv
  <2>2. ThreadKnows(c)'
    BY <1>1, <2>1 DEF ThreadKnows, host
  <2>3. MemberOfOne(c)'
    BY <1>1, <1>2, <2>1 DEF MemberOfOne, Fresh, host
  <2>4. MemberAtHost(c)'
    BY <1>1, <1>2, <2>1 DEF MemberAtHost, host
  <2>5. QED
    BY <2>2, <2>3, <2>4
<1>5. QED
  BY <1>3, <1>4

LEMMA KeepsStart ==
    ASSUME IInv, NEW s \in Servers, Start(s)
    PROVE  IInv'
<1>1. /\ TypeOK /\ starts \in [Servers -> Nat] /\ port \in [Servers -> Nat]
      /\ \A t \in Servers : starts[t] <= MaxStarts[t] /\ port[t] <= starts[t]
      /\ running \subseteq Servers /\ DOMAIN g_clientList = Servers
  BY DEF IInv, TypeOK, GroupTypeOK, ListShape
<1>2. /\ s \notin running /\ starts[s] < MaxStarts[s]
      /\ starts' = [starts EXCEPT ![s] = @ + 1]
      /\ running' = running \cup {s}
      /\ g_clientList' = [g_clientList EXCEPT ![s] = <<>>]
      /\ datagrams' = datagrams \cup {[op |-> "Register", server |-> s]}
      /\ UNCHANGED <<bound, port, leaving, registryUp, g_serverList, it, freed, asked, ping,
                     strayed, silent>>
      /\ UNCHANGED <<users, registered, ends, late>> /\ early' = early \ {s}
      /\ QuickRestart \/ ~(asked = s /\ ping = "lost")
  BY DEF Start, StartServer, heart
<1>3. /\ starts'[s] = starts[s] + 1 /\ starts' \in [Servers -> Nat]
      /\ \A t \in Servers \ {s} : starts'[t] = starts[t]
  BY <1>1, <1>2
<1>4. /\ DOMAIN g_clientList'[s] = {}
      /\ \A t \in Servers \ {s} : g_clientList'[t] = g_clientList[t]
      /\ ListShape'
  <2>1. g_clientList'[s] = <<>> /\ DOMAIN <<>> = {}
    BY <1>1, <1>2
  <2>2. QED
    BY <1>1, <1>2, <2>1 DEF ListShape
<1>5. TypeOK'
  <2>1. RegistryTypeOK'
    <3>1. [op |-> "Register", server |-> s] \in Datagram
      BY DEF Datagram
    <3>2. QED
      BY <1>1, <1>2, <3>1 DEF TypeOK, RegistryTypeOK, Listed
  <2>2. \A t \in Servers : starts'[t] <= MaxStarts[t] /\ port[t] <= starts'[t]
    <3>1. starts[s] \in Nat /\ port[s] \in Nat /\ MaxStarts[s] \in Nat
      BY <1>1, GroupAssumption
    <3>2. starts[s] + 1 <= MaxStarts[s] /\ port[s] <= starts[s] + 1
      BY <1>1, <1>2, <3>1
    <3>3. QED
      BY <1>1, <1>3, <3>2
  <2>3. \A t \in Servers : ListOK(g_clientList'[t])
    <3>1. \A t \in Servers \ {s} : ListOK(g_clientList'[t])
      BY <1>1, <1>4, JoinedFinite
    <3>2. ListOK(g_clientList'[s])
      BY <1>4, FS_EmptySet, GroupAssumption DEF ListOK
    <3>3. QED
      BY <3>1, <3>2
  <2>4. GroupTypeOK'
    BY <1>1, <1>2, <1>3, <2>2, <2>3 DEF TypeOK, GroupTypeOK, ListOK, Joined
  <2>5. registered' \subseteq running' /\ early' \subseteq Servers
    BY <1>1, <1>2 DEF TypeOK
  <2>6. QED
    BY <1>1, <1>2, <2>1, <2>4, <2>5 DEF TypeOK, users
<1>6. SilentAhead' /\ SilentUnbound'
  BY <1>2 DEF IInv, SilentAhead, Ahead, SilentUnbound, Reaches, Listed
<1>7. LostIsDown'
  BY <1>2 DEF IInv, LostIsDown
<1>8. LiveListed'
  <2>1. s \notin registered
    BY <1>1, <1>2 DEF TypeOK
  <2>2. QED
    BY <1>2, <2>1 DEF IInv, LiveListed, Listed
<1>9. Passive' /\ FiltersValid'
  BY <1>2 DEF IInv, Passive, FiltersValid, users
<1>10. \A t \in running' : ListChange(t)
  BY <1>1, <1>2, <1>3, <1>4 DEF ListChange
<1>11. /\ SeatServes'
       /\ \A c \in Active : ThreadKnows(c)' /\ MemberOfOne(c)' /\ MemberAtHost(c)'
  BY <1>2, <1>10, ServersChange
<1>12. QED
  BY <1>4, <1>5, <1>6, <1>7, <1>8, <1>9, <1>11 DEF IInv

\* The heartbeat port is bound, or the program entered at the port mapper.
LEMMA KeepsStartsUp ==
    ASSUME IInv, NEW s \in Servers, StartsUp(s)
    PROVE  IInv'
<1>1. /\ TypeOK /\ s \in running
      /\ UNCHANGED <<starts, running, leaving, g_clientList, registryUp, g_serverList,
                     it, freed, asked, ping, datagrams, strayed>>
      /\ UNCHANGED <<users, registered, early, ends, late>>
      /\ \/ bound' = bound \cup {s} /\ silent' = silent \ {s} /\ port' = port
         \/ /\ ~Serves(s) /\ port' = [port EXCEPT ![s] = starts[s]]
            /\ UNCHANGED <<bound, silent>>
  BY DEF StartsUp, Bind, Serve, registry, heart, IInv
<1>2. /\ starts \in [Servers -> Nat] /\ port \in [Servers -> Nat]
      /\ \A t \in Servers : port[t] <= starts[t]
  BY <1>1 DEF TypeOK, GroupTypeOK
<1>3. /\ port' \in [Servers -> Nat] /\ \A t \in Servers : port'[t] <= starts[t]
      /\ \A t \in Servers : port'[t] = port[t] \/ ~Serves(t)
  BY <1>1, <1>2
<1>4. TypeOK'
  <2>1. RegistryTypeOK'
    BY <1>1 DEF TypeOK, RegistryTypeOK, Listed
  <2>2. bound' \subseteq running
    BY <1>1 DEF TypeOK, GroupTypeOK
  <2>3. GroupTypeOK'
    BY <1>1, <1>3, <2>2 DEF TypeOK, GroupTypeOK, Joined
  <2>4. QED
    BY <1>1, <2>1, <2>3 DEF TypeOK, users
<1>5. SilentAhead' /\ SilentUnbound' /\ LostIsDown' /\ LiveListed'
  BY <1>1 DEF IInv, SilentAhead, Ahead, SilentUnbound, Reaches, LostIsDown, LiveListed,
              Listed
<1>6. ListShape' /\ Passive' /\ FiltersValid'
  BY <1>1 DEF IInv, ListShape, Passive, FiltersValid, users
<1>7. \A t \in running' : ListChange(t)
  BY <1>1, <1>3, RunningIsServer DEF ListChange
<1>8. /\ SeatServes'
      /\ \A c \in Active : ThreadKnows(c)' /\ MemberOfOne(c)' /\ MemberAtHost(c)'
  BY <1>1, <1>7, ServersChange
<1>9. QED
  BY <1>4, <1>5, <1>6, <1>8 DEF IInv

LEMMA KeepsEnd ==
    ASSUME IInv, NEW s \in Servers, End(s)
    PROVE  IInv'
<1>1. /\ TypeOK /\ running \subseteq Servers /\ leaving \subseteq running
      /\ bound \subseteq running /\ ends \in Nat
  BY PubSubAssumption DEF IInv, TypeOK, GroupTypeOK
<1>2. /\ s \in running /\ running' = running \ {s} /\ leaving' = leaving \ {s}
      /\ bound' = bound \ {s}
      /\ ping' = IF asked = s /\ ping = "sent" THEN "lost" ELSE ping
      /\ UNCHANGED <<starts, port, g_clientList, registryUp, g_serverList, it, freed, asked,
                     datagrams, strayed, silent>>
      /\ registered' = registered \ {s} /\ UNCHANGED <<users, early, late>>
      /\ ends' \in 0..MaxEnds
  BY <1>1, PubSubAssumption DEF TypeOK, End, CrashServer, EndServer, Gone
<1>3. TypeOK'
  <2>1. RegistryTypeOK'
    BY <1>1, <1>2 DEF TypeOK, RegistryTypeOK, Listed
  <2>2. GroupTypeOK'
    BY <1>1, <1>2 DEF TypeOK, GroupTypeOK, Joined
  <2>3. registered' \subseteq running'
    BY <1>1, <1>2 DEF TypeOK
  <2>4. QED
    BY <1>1, <1>2, <2>1, <2>2, <2>3 DEF TypeOK, users
<1>4. SilentAhead' /\ SilentUnbound'
  BY <1>2 DEF IInv, SilentAhead, Ahead, SilentUnbound, Reaches, Listed
<1>5. LostIsDown' /\ LiveListed'
  BY <1>2 DEF IInv, LostIsDown, LiveListed, Listed
<1>6. ListShape' /\ Passive' /\ FiltersValid'
  BY <1>2 DEF IInv, ListShape, Passive, FiltersValid, users
<1>7. \A t \in running' : ListChange(t)
  BY <1>2 DEF ListChange
<1>8. /\ SeatServes'
      /\ \A c \in Active : ThreadKnows(c)' /\ MemberOfOne(c)' /\ MemberAtHost(c)'
  BY <1>2, <1>7, ServersChange
<1>9. QED
  BY <1>3, <1>4, <1>5, <1>6, <1>8 DEF IInv

LEMMA KeepsLeave ==
    ASSUME IInv, NEW s \in Servers, Leaves(s)
    PROVE  IInv'
<1>1. /\ leaving' = leaving \cup {s} /\ s \in running
      /\ datagrams' = datagrams \cup {[op |-> "Deregister", server |-> s]}
      /\ UNCHANGED <<starts, running, bound, port, g_clientList, registryUp, g_serverList,
                     it, freed, asked, ping, strayed, silent>>
      /\ UNCHANGED <<users, registered, early, late>> /\ ends' \in 0..MaxEnds
  BY PubSubAssumption DEF IInv, TypeOK, Leaves, Leave, heart
<1>2. late' \in 0..MaxLate /\ late <= late'
  BY <1>1, PubSubAssumption DEF IInv, TypeOK
<1>3. /\ ListShape' /\ SeatServes' /\ Passive' /\ FiltersValid'
      /\ \A c \in Active : ThreadKnows(c)' /\ MemberOfOne(c)' /\ MemberAtHost(c)'
  BY <1>1, <1>2, UsersKept
<1>4. TypeOK'
  <2>1. RegistryTypeOK'
    BY <1>1 DEF IInv, TypeOK, RegistryTypeOK, Listed, Datagram
  <2>2. GroupTypeOK'
    BY <1>1 DEF IInv, TypeOK, GroupTypeOK, Joined
  <2>3. QED
    BY <1>1, <2>1, <2>2 DEF IInv, TypeOK, users
<1>5. SilentAhead' /\ SilentUnbound' /\ LostIsDown' /\ LiveListed'
  BY <1>1 DEF IInv, SilentAhead, Ahead, SilentUnbound, Reaches, LostIsDown, LiveListed,
              Listed
<1>6. QED
  BY <1>3, <1>4, <1>5 DEF IInv

----------------------------------------------------------------------------
(* The theorems.                                                              *)

LEMMA Initially == Init => IInv
<1> SUFFICES ASSUME Init PROVE IInv
  OBVIOUS
<1>1. /\ registryUp = TRUE /\ g_serverList = <<>> /\ it = Nobody /\ freed = FALSE
      /\ asked = Nobody /\ ping = "none" /\ strayed = FALSE /\ silent = {}
      /\ datagrams = {} /\ running = {} /\ bound = {} /\ leaving = {}
      /\ starts = [s \in Servers |-> 0] /\ port = [s \in Servers |-> 0]
      /\ g_clientList = [s \in Servers |-> <<>>]
      /\ client = [c \in Clients |-> Process("new")]
      /\ believes = [c \in Clients |-> {}]
      /\ astray = {} /\ registered = {} /\ early = {} /\ ends = 0 /\ late = 0
  BY DEF Init, RegistryInit, GroupInit
<1>2. Listed = {}
  BY <1>1 DEF Listed, ToSet
<1>3. \A s \in Servers : g_clientList[s] = <<>> /\ Joined(s) = {}
  BY <1>1 DEF Joined
<1>4. TypeOK
  <2>1. RegistryTypeOK
    <3>1. g_serverList \in Seq(Servers) /\ IsInjective(g_serverList)
      BY <1>1 DEF IsInjective
    <3>2. QED
      BY <1>1, <1>2, <3>1 DEF RegistryTypeOK
  <2>2. GroupTypeOK
    <3>1. /\ starts \in [Servers -> Nat] /\ \A s \in Servers : starts[s] <= MaxStarts[s]
          /\ port \in [Servers -> Nat] /\ \A s \in Servers : port[s] <= starts[s]
      BY <1>1, GroupAssumption
    <3>2. Cardinality({}) = 0 /\ 0 <= MAXCLIENT
      BY FS_EmptySet, GroupAssumption
    <3>3. \A s \in Servers : Cardinality(Joined(s)) <= MAXCLIENT
      BY <1>3, <3>2
    <3>4. QED
      BY <1>1, <1>3, <3>1, <3>3 DEF GroupTypeOK
  <2>3. client \in [Clients -> ProcessType]
    BY <1>1 DEF Process, ProcessType
  <2>4. QED
    BY <1>1, <2>1, <2>2, <2>3, PubSubAssumption DEF TypeOK, ProcessType
<1>5. ListShape /\ SilentAhead /\ SilentUnbound /\ LostIsDown /\ LiveListed /\ SeatServes
  BY <1>1, <1>2, <1>3 DEF ListShape, SilentAhead, Ahead, SilentUnbound, LostIsDown,
                          LiveListed, SeatServes
<1>6. Passive /\ FiltersValid
  BY <1>1 DEF Passive, FiltersValid
<1>7. ASSUME NEW c \in Active
      PROVE  ThreadKnows(c) /\ MemberOfOne(c) /\ MemberAtHost(c)
  BY <1>1 DEF Active, ThreadKnows, MemberOfOne, MemberAtHost, host, Process
<1>8. QED
  BY <1>4, <1>5, <1>6, <1>7 DEF IInv

LEMMA KeptByNext ==
    ASSUME IInv, [Next]_vars
    PROVE  IInv'
<1>1. CASE Next
  <2>1. CASE \E m \in datagrams : Registers(m) \/ Lose(m)
    BY <2>1, KeepsRegisters, KeepsLose
  <2>2. CASE HeartBeat
    BY <2>2, KeepsHeartBeat
  <2>3. CASE \E s \in Servers : ServerStep(s)
    BY <2>3, KeepsStart, KeepsStartsUp, KeepsEnd, KeepsLeave DEF ServerStep
  <2>4. CASE \E c \in Active : MainStep(c) \/ PingStep(c)
    <3>1. PICK c \in Active : MainStep(c) \/ PingStep(c)
      BY <2>4
    <3>2. c \in Clients
      BY DEF Active
    <3>3. QED
      BY <3>1, <3>2, OwnStep, ClientStep
  <2>5. CASE \E o \in Others : Other(o[1], o[2])
    BY <2>5, OtherStep
  <2>6. QED
    BY <1>1, <2>1, <2>2, <2>3, <2>4, <2>5 DEF Next
<1>2. CASE UNCHANGED vars
  <2>1. /\ UNCHANGED <<group, users, registered, early, ends, late>>
        /\ UNCHANGED <<registryUp, g_serverList, it, freed, asked, ping, datagrams, strayed,
                       silent, running, bound>>
    BY <1>2 DEF vars, registry, heart, group
  <2>2. /\ registered' \subseteq running /\ early' \subseteq Servers
        /\ late' \in 0..MaxLate /\ late <= late'
    BY <2>1, PubSubAssumption DEF IInv, TypeOK
  <2>3. RegistryTypeOK' /\ SilentAhead' /\ SilentUnbound' /\ LostIsDown' /\ LiveListed'
    BY <2>1 DEF IInv, TypeOK, RegistryTypeOK, SilentAhead, Ahead, SilentUnbound, Reaches,
                LostIsDown, LiveListed, Listed
  <2>4. QED
    BY <2>1, <2>2, <2>3, RegistryStep
<1>3. QED
  BY <1>1, <1>2

LEMMA Invariance == Spec => []IInv
<1>1. Init => IInv
  BY Initially
<1>2. IInv /\ [Next]_vars => IInv'
  BY KeptByNext
<1>3. QED
  BY <1>1, <1>2, PTL DEF Spec

\* The shapes of the state hold in every state: no list of a server gets longer
\* than MAXCLIENT (communicate_server.c, join), and the server the heartBeat
\* thread waits for is on the registry's list.
THEOREM TypeCorrect == Spec => []TypeOK
<1>1. IInv => TypeOK
  BY DEF IInv
<1>2. QED
  BY <1>1, Invariance, PTL

\* A round of heartBeat leaves no server on the list that was mute from its
\* beginning on, whoever is erased meanwhile by the thread itself (the iterator is
\* stepped back, super_server.cpp, heartBeat) or by Deregister, as long as none of
\* the nodes that Deregister has erased was the one the iterator was at.
THEOREM RoundClearsCorrect == Spec => []RoundClears
<1>1. IInv => RoundClears
  BY DEF IInv, SilentAhead, Ahead, RoundClears
<1>2. QED
  BY <1>1, Invariance, PTL

\* With no answer late and no restart unnoticed, the registry drops no server that
\* runs, but one that it pinged before it had bound its port; and as long as the
\* iterator has been one of the list.
THEOREM LiveStaysListed == Spec => []LiveListed
<1>1. IInv => LiveListed
  BY DEF IInv
<1>2. QED
  BY <1>1, Invariance, PTL

\* Who is with a server that runs.
LEMMA Home ==
    ASSUME IInv, NEW c \in Clients, AtHome(c)
    PROVE  /\ c \in Active /\ client[c].life \in {"up", "leaving"}
           /\ MemberOfOne(c) /\ MemberAtHost(c)
<1>1. host(c) # Nobody
  BY RunningIsServer DEF AtHome, Serves, IInv
<1>2. c \in Active
  BY <1>1 DEF IInv, Passive, host, Process
<1>3. QED
  BY <1>1, <1>2 DEF IInv, ThreadKnows

\* What a server has as the filters of a member is what the member's commands
\* made them, unless it is astray; and without a late answer it is never more.
THEOREM RememberedCorrect == Spec => []Remembered
<1>1. IInv => Remembered
  <2> SUFFICES ASSUME IInv, NEW c \in Clients, AtHome(c)
               PROVE  /\ c \notin astray => g_clientList[host(c)][c] = believes[c]
                      /\ late = 0 => g_clientList[host(c)][c] \subseteq believes[c]
    BY DEF Remembered
  <2>1. QED
    BY Home DEF AtHome, Serves, MemberOfOne, MemberAtHost
<1>2. QED
  BY <1>1, Invariance, PTL

\* An article goes to the members of the server whose users want it, and to no
\* others, except members gone astray.
THEOREM ServedCorrect == Spec => []Served
<1>1. IInv => Served
  <2> SUFFICES ASSUME IInv, NEW c \in Clients, AtHome(c), c \notin astray,
                      NEW a \in Articles
               PROVE  c \in Recipients(host(c), a) <=> Wants(c, a)
    BY DEF Served
  <2>1. c \in Joined(host(c)) /\ g_clientList[host(c)][c] = believes[c]
    BY Home DEF AtHome, Serves, MemberOfOne
  <2>2. ASSUME NEW f \in believes[c]
        PROVE  Matches(f, a) <=> \A j \in 1..4 : f[j] = Anything \/ f[j] = a[j]
    <3>1. \E j \in 1..3 : f[j] # Anything
      BY <2>2 DEF IInv, FiltersValid, isValidArticle
    <3>2. DOMAIN f = 1..4
      BY <2>2, Processes, GroupAssumption DEF IInv
    <3>3. QED
      BY <3>1, <3>2 DEF Matches
  <2>3. QED
    BY <2>1, <2>2 DEF Recipients, Wants
<1>2. QED
  BY <1>1, Invariance, PTL
============================================================================
