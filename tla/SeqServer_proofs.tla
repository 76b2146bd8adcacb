-------------------------- MODULE SeqServer_proofs --------------------------
(* Proofs about SeqServer, for every value of its constants.                  *)
EXTENDS SeqServer, BoardClient_proofs

(* N servers, at least the primary.                                           *)
LEMMA AtLeastOneServer == N \in Nat \ {0}
BY ClientAssumption, FS_CardinalityType, FS_EmptySet DEF N

(* The lemmas about vectors ask for numbers as IDs.                            *)
LEMMA ArticleIDs == \A x \in Article : x.ID \in Int /\ x.hierachy \in Nat
BY DEF Article

----------------------------------------------------------------------------
(* What the handlers compute is well typed.                                   *)

LEMMA StoredType ==
    ASSUME NEW a \in Seq(Article), NEW u \in Update, Accepts(a, u)
    PROVE  /\ Stored(a, u) \in Seq(Article)
           /\ Len(Stored(a, u)) = Len(a) + 1
           /\ \A i \in DOMAIN a : Stored(a, u)[i] = a[i]
           /\ Stored(a, u)[Len(a) + 1] =
                [ID |-> u.articleID, hierachy |-> Hierachy(a, u), post |-> u.post]
<1> DEFINE new == [ID |-> u.articleID, hierachy |-> Hierachy(a, u), post |-> u.post]
<1>1. Hierachy(a, u) \in Nat
  BY ArticleIDs, HierachyType
<1>2. new \in Article
  BY <1>1 DEF Article, Update
<1> HIDE DEF new
<1>3. Stored(a, u) = Append(a, new)
  BY DEF Stored, new
<1>4. /\ Append(a, new) \in Seq(Article)
      /\ Len(Append(a, new)) = Len(a) + 1
      /\ \A i \in 1..Len(a) : Append(a, new)[i] = a[i]
      /\ Append(a, new)[Len(a) + 1] = new
  BY <1>2, AppendProperties
<1> QED  BY <1>3, <1>4, LenProperties DEF new

(* The slot of a new request is an index of the grown ack_num.                *)
LEMMA FreeSlotType ==
    ASSUME ack_num \in Seq(0..(N - 1))
    PROVE  /\ Grown \in Seq(0..(N - 1))
           /\ FreeSlot \in DOMAIN Grown
           /\ DOMAIN ack_num \subseteq DOMAIN Grown
<1> DEFINE zero == {i \in DOMAIN ack_num : ack_num[i] = 0}
           n == Len(ack_num)
<1>1. n \in Nat /\ DOMAIN ack_num = 1..n /\ zero \in SUBSET (1..n)
  BY LenProperties
<1>2. FreeSlot = IF zero = {} THEN n + 1 ELSE First(zero)
  BY DEF FreeSlot
<1> HIDE DEF zero, n
<1>5. First(zero) \in zero \/ zero = {}
  BY <1>1, FirstIsLeast
<1>0. Grown = IF FreeSlot > n THEN Append(ack_num, 0) ELSE ack_num
  BY DEF Grown, n
<1>3. CASE zero = {}
  <2>1. FreeSlot = n + 1 /\ Grown = Append(ack_num, 0)
    BY <1>0, <1>1, <1>2, <1>3
  <2>2. Append(ack_num, 0) \in Seq(0..(N - 1)) /\ Len(Append(ack_num, 0)) = n + 1
    BY AtLeastOneServer, AppendProperties DEF n
  <2> QED  BY <1>1, <2>1, <2>2, LenProperties
<1>4. CASE zero # {}
  <2>1. FreeSlot \in 1..n
    BY <1>1, <1>2, <1>4, <1>5
  <2>2. Grown = ack_num
    BY <1>0, <1>1, <2>1
  <2> QED  BY <1>1, <2>1, <2>2
<1> QED  BY <1>3, <1>4

----------------------------------------------------------------------------
(* Type correctness.                                                          *)

LEMMA InitType == Init => TypeOK
<1> SUFFICES ASSUME Init PROVE TypeOK
  OBVIOUS
<1>1. [i \in 1..InitialSlots |-> 0] \in Seq(0..(N - 1))
  BY AtLeastOneServer, SeqAssumption, IsASeq
<1>2. NoCall \in [op : Ops, server : Servers, repID : RepID, post : 0..MaxWrites]
  BY ClientAssumption DEF NoCall, Ops, RepID, NewPost
<1>3. NoCall.op \notin Writing
  BY DEF NoCall, Writing
<1>4. <<>> \in Seq(Article) /\ <<>> \in Seq(Update)
      /\ <<>> \in Seq([post : Post, hierachy : Nat]) /\ DOMAIN <<>> = {}
  BY EmptySeq
<1> QED  BY <1>1, <1>2, <1>3, <1>4, ClientAssumption DEF Init, TypeOK, ClientTypeOK, ClientInit

(* One lemma per action; net and client are spelled out where they change.    *)
LEMMA ClientType ==
    ASSUME TypeOK, NEW c \in Clients, NEW s \in Servers,
           \/ ClientPost(c, s) \/ ClientRead(c, s)
           \/ \E id \in DOMAIN view[c] \cup StrayIDs : ClientReply(c, s, id),
           UNCHANGED server
    PROVE  TypeOK'
<1> DEFINE Request == [op : Ops, server : Servers, repID : RepID, post : 0..MaxWrites]
           Sends(r) == /\ Issue(c, r) /\ writes' \in 0..MaxWrites
                       /\ r \in Request
                       /\ r.op \in Writing => r.post \in Post
<1>1. ASSUME NEW op \in Writing, NEW id \in RepID, Write(c, s, op, id)
      PROVE  Sends([op |-> op, server |-> s, repID |-> id, post |-> writes'])
  <2>1. writes \in 0..MaxWrites /\ writes < MaxWrites /\ writes' = writes + 1 /\ MaxWrites \in Nat
    BY <1>1, ClientAssumption DEF Write, TypeOK, ClientTypeOK
  <2>2. writes' \in 0..MaxWrites /\ writes' \in Post
    BY <2>1 DEF Post
  <2> QED  BY <1>1, <2>2 DEF Write, Ops
<1>2. PICK r : Sends(r)
  <2>1. CASE ClientPost(c, s)
    <3>1. "POST" \in Writing /\ NewPost \in RepID
      BY DEF Writing, RepID
    <3> QED  BY <1>1, <2>1, <3>1 DEF ClientPost
  <2>2. CASE ClientRead(c, s)
    <3>1. Issue(c, [op |-> "READ", server |-> s, repID |-> NewPost, post |-> 0])
          /\ writes' \in 0..MaxWrites
      BY <2>2 DEF ClientRead, TypeOK, ClientTypeOK
    <3>2. [op |-> "READ", server |-> s, repID |-> NewPost, post |-> 0] \in Request
          /\ "READ" \notin Writing
      BY ClientAssumption DEF Ops, RepID, Writing
    <3> QED  BY <3>1, <3>2
  <2>3. ASSUME NEW id \in DOMAIN view[c] \cup StrayIDs, ClientReply(c, s, id)
        PROVE  \E r : Sends(r)
    <3>1. view[c] \in Seq([post : Post, hierachy : Nat])
      BY DEF TypeOK, ClientTypeOK
    <3>2. DOMAIN view[c] \subseteq Nat
      BY <3>1, LenProperties
    <3>3. "REPLY" \in Writing /\ id \in RepID
      BY <3>2, ClientAssumption DEF Writing, RepID
    <3> QED  BY <1>1, <2>3, <3>3 DEF ClientReply
  <2> QED  BY <2>1, <2>2, <2>3
<1>3. \A t \in Servers : serving[t] # c
  <2>1. call[c].op \notin Writing
    BY <1>2 DEF Issue, NoCall, Writing
  <2>2. \A t \in Servers : serving[t] # NoClient => call[serving[t]].op \in Writing
    BY DEF TypeOK
  <2> QED  BY <2>1, <2>2, SeqAssumption
<1>4. \A t \in Servers : serving[t] # NoClient => call'[serving[t]] = call[serving[t]]
  BY <1>2, <1>3 DEF TypeOK, Issue
<1>5. r \in Request /\ \A d \in Clients : call'[d] = IF d = c THEN r ELSE call[d]
  BY <1>2 DEF TypeOK, Issue, ClientTypeOK
<1>6. call' \in [Clients -> [op : Ops, server : Servers, repID : RepID, post : 0..MaxWrites]]
  BY <1>2, <1>5 DEF TypeOK, Issue, ClientTypeOK
<1> QED  BY <1>2, <1>4, <1>5, <1>6 DEF TypeOK, Issue, net, server, ClientTypeOK

LEMMA ForwardW2Type ==
    ASSUME TypeOK, NEW c \in Clients, NEW s \in Servers,
           Post_handler(c, s) \/ Reply_handler(c, s)
    PROVE  TypeOK'
<1>1. /\ call[c].op \in Writing /\ call[c].server = s /\ ForwardW2(c, s)
      /\ call[c].post \in Post /\ call[c].repID \in RepID
  BY DEF Post_handler, Reply_handler, Queued, Writing, TypeOK, ClientTypeOK
<1>2. w2' \subseteq [post : Post, repID : RepID, origin : Servers]
  BY <1>1 DEF TypeOK, ForwardW2
<1>3. /\ serving' \in [Servers -> Clients \cup {NoClient}]
      /\ \A t \in Servers : serving'[t] = IF t = s THEN c ELSE serving[t]
  BY <1>1 DEF TypeOK, ForwardW2
<1> QED  BY <1>1, <1>2, <1>3 DEF TypeOK, ForwardW2, client, ClientTypeOK

LEMMA ReadType ==
    ASSUME TypeOK, NEW c \in Clients, NEW s \in Servers, Read_handler(c, s)
    PROVE  TypeOK'
<1> DEFINE a == SortByID(articles[s])
           shown == [i \in DOMAIN articles[s] |->
                       [post |-> a[i].post, hierachy |-> a[i].hierachy]]
<1>1. articles[s] \in Seq(Article) /\ a \in Seq(Article) /\ DOMAIN a = DOMAIN articles[s]
  BY ArticleIDs, SortType DEF TypeOK
<1>2. articles' = [articles EXCEPT ![s] = a] /\ articles'[s] = a
  BY DEF Read_handler, TypeOK
<1>3. shown \in Seq([post : Post, hierachy : Nat])
  <2> HIDE DEF a
  <2>1. \A i \in DOMAIN articles[s] : a[i] \in Article
    BY <1>1, ElementOfSeq, LenProperties
  <2>2. DOMAIN articles[s] = 1..Len(articles[s]) /\ Len(articles[s]) \in Nat
    BY <1>1, LenProperties
  <2>3. shown \in [1..Len(articles[s]) -> [post : Post, hierachy : Nat]]
    BY <2>1, <2>2 DEF Article
  <2> QED  BY <2>2, <2>3, IsASeq
<1>4. view' = [view EXCEPT ![c] = shown]
  BY <1>1, <1>2 DEF Read_handler, Show, Sent
<1>5. \A t \in Servers : serving[t] # c
  BY SeqAssumption DEF TypeOK, Read_handler, Queued, Writing
<1>6. call' = [call EXCEPT ![c] = NoCall]
      /\ NoCall \in [op : Ops, server : Servers, repID : RepID, post : 0..MaxWrites]
      /\ NoCall.op \notin Writing
  BY ClientAssumption DEF Read_handler, NoCall, Ops, Writing, RepID, NewPost, Show, Sent
<1> HIDE DEF a, shown
<1>7. articles' \in [Servers -> Seq(Article)]
  BY <1>1, <1>2 DEF TypeOK
<1>8. view' \in [Clients -> Seq([post : Post, hierachy : Nat])]
  BY <1>3, <1>4 DEF TypeOK, ClientTypeOK
<1>9. UNCHANGED <<ID, ack_num, w2, w3, w4, w5, serving, log, writes, told>>
  BY DEF Read_handler, Show, net
<1> QED  BY <1>5, <1>6, <1>7, <1>8, <1>9 DEF TypeOK, ClientTypeOK

LEMMA W5Type ==
    ASSUME TypeOK, NEW s \in Servers, NEW m \in w5, ReceiveW5(s, m) \/ DropW5(s, m)
    PROVE  TypeOK'
<1>1. w5' = w5 \ {m} /\ m \in [to : Servers, ok : BOOLEAN, from : Servers, post : Post]
  BY DEF ReceiveW5, DropW5, TypeOK
<1>2. CASE DropW5(s, m)
  BY <1>1, <1>2 DEF DropW5, TypeOK, client, ClientTypeOK
<1>3. CASE ReceiveW5(s, m)
  <2> DEFINE c == serving[s]
  <2>1. c \in Clients /\ call[c].op \in Writing /\ call[c].server = s /\ call[c].post \in Post
    BY <1>3 DEF ReceiveW5, TypeOK, ClientTypeOK, Tell
  <2>2. told' \subseteq [client : Clients, post : Post, ok : BOOLEAN]
    BY <1>1, <1>3, <2>1 DEF ReceiveW5, TypeOK, ClientTypeOK, Tell
  <2>3. \A t \in Servers \ {s} : serving[t] # NoClient => serving[t] # c
    BY <2>1 DEF TypeOK
  <2>4. NoCall \in [op : Ops, server : Servers, repID : RepID, post : 0..MaxWrites]
        /\ NoCall.op \notin Writing
    BY ClientAssumption DEF NoCall, Ops, Writing, RepID, NewPost
  <2>5. call' = [call EXCEPT ![c] = NoCall] /\ serving' = [serving EXCEPT ![s] = NoClient]
    BY <1>3 DEF ReceiveW5, Tell
  <2>6. \A t \in Servers : serving'[t] # NoClient =>
          call'[serving'[t]].op \in Writing /\ call'[serving'[t]].server = t
    BY <2>1, <2>3, <2>5 DEF TypeOK
  <2>7. /\ call' \in [Clients -> [op : Ops, server : Servers, repID : RepID, post : 0..MaxWrites]]
        /\ serving' \in [Servers -> Clients \cup {NoClient}]
        /\ \A d \in Clients : call'[d].op \in Writing => call'[d].post \in Post
    BY <2>1, <2>4, <2>5 DEF TypeOK, ClientTypeOK
  <2> QED  BY <1>1, <1>3, <2>2, <2>6, <2>7 DEF ReceiveW5, TypeOK, ClientTypeOK, Tell
<1> QED  BY <1>2, <1>3

LEMMA ForwardType ==
    ASSUME TypeOK, NEW m \in w2, Forward(m)
    PROVE  TypeOK'
<1> DEFINE u == [req_num |-> FreeSlot, articleID |-> ID + 1, repID |-> m.repID,
                 post |-> m.post, origin |-> m.origin]
<1>1. /\ ack_num' = Grown /\ ack_num' \in Seq(0..(N - 1))
      /\ FreeSlot \in DOMAIN ack_num' /\ DOMAIN ack_num \subseteq DOMAIN ack_num'
      /\ FreeSlot \in Nat \ {0}
  BY FreeSlotType, LenProperties DEF Forward, TypeOK
<1>2. u \in Update
  BY <1>1 DEF TypeOK, Update
<1> HIDE DEF u
<1>3. w3' = [t \in Servers |-> Append(w3[t], u)] /\ log' = Append(log, u)
  BY DEF Forward, NextID, u
<1>4. ASSUME NEW t \in Servers
      PROVE  /\ w3'[t] \in Seq(Update)
             /\ \A k \in DOMAIN w3'[t] : w3'[t][k].req_num \in DOMAIN ack_num'
  <2>1. /\ w3[t] \in Seq(Update) /\ w3'[t] = Append(w3[t], u)
        /\ \A k \in DOMAIN w3[t] : w3[t][k].req_num \in DOMAIN ack_num'
    BY <1>1, <1>3 DEF TypeOK
  <2>2. u.req_num \in DOMAIN ack_num'
    BY <1>1 DEF u
  <2>3. /\ Append(w3[t], u) \in Seq(Update) /\ Len(Append(w3[t], u)) = Len(w3[t]) + 1
        /\ \A k \in 1..Len(w3[t]) : Append(w3[t], u)[k] = w3[t][k]
        /\ Append(w3[t], u)[Len(w3[t]) + 1] = u
    BY <1>2, <2>1, AppendProperties
  <2>4. \A k \in DOMAIN Append(w3[t], u) : k \in DOMAIN w3[t] \/ k = Len(w3[t]) + 1
    BY <2>1, <2>3, LenProperties
  <2> QED  BY <2>1, <2>2, <2>3, <2>4, LenProperties
<1>5. w3' \in [Servers -> Seq(Update)] /\ log' \in Seq(Update)
  <2>1. log' \in Seq(Update)
    BY <1>2, <1>3, AppendProperties DEF TypeOK
  <2> QED  BY <1>3, <1>4, <2>1
<1>6. w4' \subseteq [req_num : DOMAIN ack_num', ok : BOOLEAN, origin : Servers,
                   from : Servers, post : Post]
  BY <1>1 DEF TypeOK, Forward
<1>7. ID' \in Int /\ w2' \subseteq [post : Post, repID : RepID, origin : Servers]
  BY DEF TypeOK, Forward, NextID
<1> QED  BY <1>1, <1>4, <1>5, <1>6, <1>7 DEF TypeOK, Forward, client, ClientTypeOK

LEMMA UpdateType ==
    ASSUME TypeOK, NEW s \in Servers, NEW i \in DOMAIN w3[s], UpdateBackup(s, i)
    PROVE  TypeOK'
<1> DEFINE u == w3[s][i]
           ok == Accepts(articles[s], u)
           ack == [req_num |-> u.req_num, ok |-> ok, origin |-> u.origin,
                   from |-> s, post |-> u.post]
<1>1. /\ articles[s] \in Seq(Article) /\ w3[s] \in Seq(Update) /\ u \in Update
      /\ u.req_num \in DOMAIN ack_num
  <2>1. articles[s] \in Seq(Article) /\ w3[s] \in Seq(Update) /\ u.req_num \in DOMAIN ack_num
    BY DEF TypeOK
  <2> QED  BY <2>1, ElementOfSeq, LenProperties
<1>2. ok \in BOOLEAN
  BY DEF Accepts
<1>3. articles' \in [Servers -> Seq(Article)]
  <2>1. (IF ok THEN Stored(articles[s], u) ELSE articles[s]) \in Seq(Article)
    BY <1>1, StoredType
  <2>2. articles' = [articles EXCEPT ![s] = IF ok THEN Stored(articles[s], u) ELSE articles[s]]
    BY DEF UpdateBackup
  <2> QED  BY <2>1, <2>2 DEF TypeOK
<1>4. w4' = w4 \cup {ack}
  BY DEF UpdateBackup
<1>5. ack \in [req_num : DOMAIN ack_num, ok : BOOLEAN, origin : Servers,
               from : Servers, post : Post]
  <2> HIDE DEF ok
  <2> QED  BY <1>1, <1>2 DEF Update
<1>6. w4' \subseteq [req_num : DOMAIN ack_num, ok : BOOLEAN, origin : Servers,
                   from : Servers, post : Post]
  BY <1>4, <1>5 DEF TypeOK
<1>7. w3' = [w3 EXCEPT ![s] = RemoveAt(w3[s], i)]
  BY DEF UpdateBackup
<1>8. RemoveAt(w3[s], i) \in Seq(Update)
      /\ \A k \in DOMAIN RemoveAt(w3[s], i) :
           RemoveAt(w3[s], i)[k].req_num \in DOMAIN ack_num
  <2>1. /\ RemoveAt(w3[s], i) \in Seq(Update)
        /\ Len(RemoveAt(w3[s], i)) = Len(w3[s]) - 1
        /\ \A k \in DOMAIN RemoveAt(w3[s], i) :
             RemoveAt(w3[s], i)[k] = IF k < i THEN w3[s][k] ELSE w3[s][k + 1]
    BY <1>1, RemoveAtType
  <2>2. \A k \in DOMAIN RemoveAt(w3[s], i) : k \in DOMAIN w3[s] /\ k + 1 \in DOMAIN w3[s]
    BY <1>1, <2>1, LenProperties
  <2>3. \A k \in DOMAIN w3[s] : w3[s][k].req_num \in DOMAIN ack_num
    BY DEF TypeOK
  <2> QED  BY <2>1, <2>2, <2>3
<1>9. /\ w3' \in [Servers -> Seq(Update)]
      /\ \A t \in Servers : \A k \in DOMAIN w3'[t] : w3'[t][k].req_num \in DOMAIN ack_num
  BY <1>7, <1>8 DEF TypeOK
<1> QED  BY <1>3, <1>6, <1>9 DEF TypeOK, UpdateBackup, client, ClientTypeOK

LEMMA AckType ==
    ASSUME TypeOK, NEW m \in w4, Ack(m)
    PROVE  TypeOK'
<1>1. m \in [req_num : DOMAIN ack_num, ok : BOOLEAN, origin : Servers,
             from : Servers, post : Post]
  BY DEF TypeOK
<1>2. ack_num \in Seq(0..(N - 1)) /\ N \in Nat \ {0} /\ ack_num[m.req_num] \in 0..(N - 1)
  BY <1>1, AtLeastOneServer, ElementOfSeq, LenProperties DEF TypeOK
<1>3. /\ ack_num' \in Seq(0..(N - 1)) /\ DOMAIN ack_num' = DOMAIN ack_num
      /\ ID' \in Int
      /\ w5' \subseteq [to : Servers, ok : BOOLEAN, from : Servers, post : Post]
  <2>1. CASE Complete(m)
    <3>1. ack_num' = [ack_num EXCEPT ![m.req_num] = 0]
      BY <2>1 DEF Ack, Counted
    <3>2. ack_num' \in Seq(0..(N - 1)) /\ DOMAIN ack_num' = DOMAIN ack_num
      BY <1>1, <1>2, <3>1, ExceptSeq
    <3> QED  BY <1>1, <2>1, <3>2 DEF Ack, TypeOK
  <2>2. CASE ~Complete(m)
    <3>1. ack_num' = [ack_num EXCEPT ![m.req_num] = ack_num[m.req_num] + 1]
      BY <2>2 DEF Ack, Counted
    <3>2. ack_num[m.req_num] + 1 \in 0..(N - 1)
      BY <1>2, <2>2 DEF Complete
    <3>3. ack_num' \in Seq(0..(N - 1)) /\ DOMAIN ack_num' = DOMAIN ack_num
      BY <1>1, <1>2, <3>1, <3>2, ExceptSeq
    <3> QED  BY <2>2, <3>3 DEF Ack, TypeOK
  <2> QED  BY <2>1, <2>2
<1> QED  BY <1>3 DEF TypeOK, Ack, client, ClientTypeOK

LEMMA TypeNext == TypeOK /\ [Next]_vars => TypeOK'
<1> SUFFICES ASSUME TypeOK, [Next]_vars PROVE TypeOK'
  OBVIOUS
<1>1. CASE ClientStep
  BY <1>1, ClientType DEF ClientStep, ClientAction
<1>2. CASE ListenStep
  BY <1>2, ForwardW2Type, ReadType, W5Type DEF ListenStep
<1>3. CASE PrimaryPortStep
  BY <1>3, ForwardType, UpdateType, AckType DEF PrimaryPortStep
<1>4. CASE UNCHANGED vars
  BY <1>4 DEF vars, net, client, TypeOK, ClientTypeOK, server
<1> QED  BY <1>1, <1>2, <1>3, <1>4 DEF Next

(* Every state of every behaviour is well typed: a W3 or W4 in flight always  *)
(* names an existing slot (the code indexes ack_num without a check), and no  *)
(* count ever rests at N.                                                     *)
THEOREM TypeCorrect == Spec => []TypeOK
BY InitType, TypeNext, PTL DEF Spec

----------------------------------------------------------------------------
(* Ordered delivery and replies to articles on display.  The following two    *)
(* invariants then make LogPrefix inductive: every refused reply would revoke *)
(* an ID, so no reply may ever be refused, which needs its parent to be in the *)
(* log before it, in every vector before it, and for that in the view of its  *)
(* author and in every stage of the request's way to the primary.             *)
Careful == Ordered /\ StrayIDs = {}

RepliesTo(id, n) == id = NewPost \/ id \in 1..n

LogShape ==
    /\ ID = Len(log)
    /\ \A k \in DOMAIN log : log[k].articleID = k /\ RepliesTo(log[k].repID, k - 1)

\* What a server stored is the log, what is still queued for it comes next.
StoredShape(s) ==
    /\ Len(articles[s]) + Len(w3[s]) = Len(log)
    /\ \A i \in DOMAIN articles[s] :
         /\ articles[s][i].ID = i
         /\ articles[s][i].post = log[i].post
         /\ articles[s][i].hierachy =
              IF log[i].repID = NewPost THEN 0
              ELSE articles[s][log[i].repID].hierachy + 1
    /\ \A k \in DOMAIN w3[s] : w3[s][k] = log[Len(articles[s]) + k]

SameHierachy ==
    \A s, t \in Servers : \A i \in DOMAIN articles[s] \cap DOMAIN articles[t] :
        articles[s][i].hierachy = articles[t][i].hierachy

\* Replies on their way, verdicts, and what clients were shown.
TrafficShape ==
    /\ \A m \in w2 : RepliesTo(m.repID, Len(log))
    /\ \A m \in w4 : m.ok
    /\ \A c \in Clients : RepliesTo(call[c].repID, Len(log))
    /\ \A c \in Clients :
         /\ Len(view[c]) <= Len(log)
         /\ \A i \in DOMAIN view[c] : view[c][i].post = log[i].post

LogInv == LogShape /\ (\A s \in Servers : StoredShape(s)) /\ SameHierachy /\ TrafficShape

\* A write is in one place on its way: with its client, in a W2, or in the log.
Waiting(c) == call[c].op \in Writing /\ serving[call[c].server] # c
OnceOnly ==
    /\ \A k \in DOMAIN log : log[k].post <= writes
    /\ \A j, k \in DOMAIN log : log[j].post = log[k].post => j = k
    /\ \A m \in w2 : m.post <= writes /\ \A k \in DOMAIN log : log[k].post # m.post
    /\ \A m, n \in w2 : m.post = n.post => m = n
    /\ \A c \in Clients : Waiting(c) =>
         /\ call[c].post <= writes
         /\ \A k \in DOMAIN log : log[k].post # call[c].post
         /\ \A m \in w2 : m.post # call[c].post
         /\ \A d \in Clients : Waiting(d) /\ call[d].post = call[c].post => c = d

LEMMA LogInit == Init => LogInv /\ OnceOnly
<1> SUFFICES ASSUME Init PROVE LogInv /\ OnceOnly
  OBVIOUS
<1>1. Len(<<>>) = 0 /\ DOMAIN <<>> = {}
  OBVIOUS
<1>2. NoCall.op \notin Writing /\ NoCall.repID = NewPost
  BY DEF NoCall, Writing
<1> QED  BY <1>1, <1>2 DEF Init, LogInv, LogShape, StoredShape, SameHierachy,
             TrafficShape, RepliesTo, OnceOnly, Waiting, ClientInit

(* Steps that leave the boards and the log alone.                             *)
LEMMA BoardsKept ==
    ASSUME LogInv, UNCHANGED <<articles, ID, w3, log>>
    PROVE  LogShape' /\ (\A s \in Servers : StoredShape(s)') /\ SameHierachy'
<1>1. LogShape'
  BY DEF LogInv, LogShape, RepliesTo
<1>2. ASSUME NEW s \in Servers PROVE StoredShape(s)'
  <2>1. StoredShape(s)
    BY DEF LogInv
  <2> QED  BY <2>1 DEF StoredShape
<1>3. SameHierachy'
  BY DEF LogInv, SameHierachy
<1> QED  BY <1>1, <1>2, <1>3

(* Steps on which only the reply IDs of the calls matter.                     *)
LEMMA CallsOnly ==
    ASSUME LogInv, UNCHANGED <<articles, ID, w3, view, log>>,
           w2' \subseteq w2, w4' \subseteq w4,
           \A c \in Clients : RepliesTo(call'[c].repID, Len(log))
    PROVE  LogInv'
<1>1. TrafficShape'
  BY DEF LogInv, TrafficShape, RepliesTo
<1> QED  BY <1>1, BoardsKept DEF LogInv

LEMMA LogClient ==
    ASSUME TypeOK, LogInv, Careful, NEW c \in Clients, NEW s \in Servers,
           \/ ClientPost(c, s) \/ ClientRead(c, s)
           \/ \E id \in DOMAIN view[c] \cup StrayIDs : ClientReply(c, s, id),
           UNCHANGED server
    PROVE  LogInv'
<1>1. PICK r : Issue(c, r) /\ RepliesTo(r.repID, Len(log))
  <2>1. CASE ClientPost(c, s)
    BY <2>1 DEF ClientPost, Write, RepliesTo
  <2>2. CASE ClientRead(c, s)
    BY <2>2 DEF ClientRead, RepliesTo
  <2>3. ASSUME NEW id \in DOMAIN view[c] \cup StrayIDs, ClientReply(c, s, id)
        PROVE  \E r : Issue(c, r) /\ RepliesTo(r.repID, Len(log))
    <3>1. view[c] \in Seq([post : Post, hierachy : Nat]) /\ log \in Seq(Update)
          /\ Len(view[c]) <= Len(log)
      BY DEF TypeOK, LogInv, TrafficShape, ClientTypeOK
    <3>2. id \in 1..Len(log)
      BY <3>1, LenProperties DEF Careful
    <3> QED  BY <2>3, <3>2 DEF ClientReply, Write, RepliesTo
  <2> QED  BY <2>1, <2>2, <2>3
<1>2. \A d \in Clients : RepliesTo(call'[d].repID, Len(log))
  BY <1>1 DEF Issue, TypeOK, LogInv, TrafficShape
<1> QED  BY <1>1, <1>2, CallsOnly DEF Issue, net, server

LEMMA LogForwardW2 ==
    ASSUME TypeOK, LogInv, NEW c \in Clients, NEW s \in Servers, ForwardW2(c, s)
    PROVE  LogInv'
<1>1. \A m \in w2' : RepliesTo(m.repID, Len(log))
  BY DEF ForwardW2, LogInv, TrafficShape
<1>2. TrafficShape'
  BY <1>1 DEF ForwardW2, client, LogInv, TrafficShape, RepliesTo
<1> QED  BY <1>2, BoardsKept DEF ForwardW2, client, LogInv

LEMMA LogRead ==
    ASSUME TypeOK, LogInv, NEW c \in Clients, NEW s \in Servers, Read_handler(c, s)
    PROVE  LogInv'
<1>1. articles[s] \in Seq(Article) /\ log \in Seq(Update) /\ w3[s] \in Seq(Update)
  BY DEF TypeOK
<1>2. \A i \in DOMAIN articles[s] : articles[s][i].ID = i
  BY DEF LogInv, StoredShape
<1>3. SortByID(articles[s]) = articles[s]
  BY <1>1, <1>2, ArticleIDs, SortOfNumbered
<1>4. articles' = articles
  BY <1>3 DEF Read_handler, TypeOK
<1>5. view' = [view EXCEPT ![c] = [i \in DOMAIN articles[s] |->
                 [post |-> articles[s][i].post, hierachy |-> articles[s][i].hierachy]]]
  BY <1>4 DEF Read_handler, Show, Sent
<1>6. ASSUME NEW d \in Clients
      PROVE  /\ Len(view'[d]) <= Len(log)
             /\ \A i \in DOMAIN view'[d] : view'[d][i].post = log[i].post
  <2>1. CASE d # c
    BY <1>5, <2>1 DEF TypeOK, LogInv, TrafficShape
  <2>2. CASE d = c
    <3> DEFINE shown == [i \in DOMAIN articles[s] |->
                 [post |-> articles[s][i].post, hierachy |-> articles[s][i].hierachy]]
    <3>1. view'[d] = shown
      BY <1>5, <2>2 DEF TypeOK, ClientTypeOK
    <3>2. DOMAIN shown = 1..Len(articles[s]) /\ Len(articles[s]) \in Nat
      BY <1>1, LenProperties
    <3>3. Len(shown) = Len(articles[s])
      BY <3>2
    <3>4. Len(articles[s]) <= Len(log)
      <4>1. Len(articles[s]) + Len(w3[s]) = Len(log)
        BY DEF LogInv, StoredShape
      <4>2. Len(articles[s]) \in Nat /\ Len(w3[s]) \in Nat /\ Len(log) \in Nat
        BY <1>1, LenProperties
      <4>3. \A x, y, z \in Nat : x + y = z => x <= z
        OBVIOUS
      <4> HIDE DEF shown
      <4> QED  BY <4>1, <4>2, <4>3
    <3>5. \A i \in DOMAIN articles[s] : articles[s][i].post = log[i].post
      BY DEF LogInv, StoredShape
    <3> QED  BY <3>1, <3>2, <3>3, <3>4, <3>5
  <2> QED  BY <2>1, <2>2
<1>7. \A d \in Clients : RepliesTo(call'[d].repID, Len(log))
  BY DEF Read_handler, TypeOK, LogInv, TrafficShape, NoCall, RepliesTo, ClientTypeOK, Show, Sent
<1>8. UNCHANGED <<w2, w3, w4, ID, log>>
  BY DEF Read_handler, net
<1>9. TrafficShape'
  BY <1>6, <1>7, <1>8 DEF LogInv, TrafficShape, RepliesTo
<1> QED  BY <1>4, <1>8, <1>9, BoardsKept DEF LogInv

LEMMA LogW5 ==
    ASSUME TypeOK, LogInv, NEW s \in Servers, NEW m \in w5,
           ReceiveW5(s, m) \/ DropW5(s, m)
    PROVE  LogInv'
<1>1. \A d \in Clients : call'[d] = call[d] \/ call'[d] = NoCall
  BY DEF ReceiveW5, DropW5, client, TypeOK, ClientTypeOK, Tell
<1>2. \A d \in Clients : RepliesTo(call'[d].repID, Len(log))
  BY <1>1 DEF LogInv, TrafficShape, NoCall, RepliesTo
<1> QED  BY <1>2, CallsOnly DEF ReceiveW5, DropW5, client, Tell

LEMMA LogAck ==
    ASSUME TypeOK, LogInv, NEW m \in w4, Ack(m)
    PROVE  LogInv'
<1>1. m.ok
  BY DEF LogInv, TrafficShape
<1>2. ID' = ID
  BY <1>1 DEF Ack
<1>3. \A d \in Clients : RepliesTo(call'[d].repID, Len(log))
  BY DEF Ack, client, LogInv, TrafficShape
<1> QED  BY <1>2, <1>3, CallsOnly DEF Ack, client

LEMMA LogForward ==
    ASSUME TypeOK, LogInv, NEW m \in w2, Forward(m)
    PROVE  LogInv'
<1> DEFINE u == [req_num |-> FreeSlot, articleID |-> ID + 1, repID |-> m.repID,
                 post |-> m.post, origin |-> m.origin]
           n == Len(log)
<1>1. /\ w3' = [t \in Servers |-> Append(w3[t], u)] /\ log' = Append(log, u)
      /\ ID' = ID + 1 /\ w2' = w2 \ {m}
      /\ UNCHANGED <<articles, w4, call, view>>
  BY DEF Forward, NextID, client
<1>2. u.articleID = n + 1 /\ u.repID = m.repID /\ RepliesTo(m.repID, n) /\ ID = n
  BY DEF LogInv, LogShape, TrafficShape
<1> HIDE DEF u
<1>3. /\ n \in Nat /\ DOMAIN log = 1..n /\ Len(log') = n + 1 /\ DOMAIN log' = 1..(n + 1)
      /\ \A k \in 1..n : log'[k] = log[k]
      /\ log'[n + 1] = u
  BY <1>1, LenProperties DEF TypeOK
<1>0. Len(log) = n
  OBVIOUS
<1> HIDE DEF n
<1>4. LogShape'
  <2>1. ASSUME NEW k \in 1..(n + 1)
        PROVE  log'[k].articleID = k /\ RepliesTo(log'[k].repID, k - 1)
    <3>1. CASE k \in 1..n
      BY <1>3, <3>1 DEF LogInv, LogShape
    <3>2. CASE k = n + 1
      BY <1>2, <1>3, <3>2 DEF RepliesTo
    <3> QED  BY <1>3, <3>1, <3>2
  <2>2. ID' = Len(log')
    BY <1>1, <1>2, <1>3
  <2> QED  BY <1>3, <2>1, <2>2 DEF LogShape, RepliesTo
<1>5. ASSUME NEW s \in Servers PROVE StoredShape(s)'
  <2>1. StoredShape(s) /\ articles[s] \in Seq(Article) /\ w3[s] \in Seq(Update)
    BY DEF LogInv, TypeOK
  <2> DEFINE a == Len(articles[s])
             b == Len(w3[s])
  <2>2. a \in Nat /\ b \in Nat /\ a + b = n /\ DOMAIN articles[s] = 1..a /\ DOMAIN w3[s] = 1..b
    BY <1>0, <2>1, LenProperties DEF StoredShape
  <2>3. w3'[s] = Append(w3[s], u)
    BY <1>1
  <2>0. Len(articles[s]) = a /\ Len(w3[s]) = b
    OBVIOUS
  <2>4. /\ Len(w3'[s]) = b + 1 /\ DOMAIN w3'[s] = 1..(b + 1)
        /\ \A k \in 1..b : w3'[s][k] = w3[s][k]
        /\ w3'[s][b + 1] = u
    BY <2>1, <2>3, LenProperties
  <2>5. \A k \in 1..b : w3[s][k] = log[a + k]
    BY <2>1, <2>2 DEF StoredShape
  <2> HIDE DEF a, b
  <2>11. \A k \in 1..b : a + k \in 1..n
    BY <1>3, <2>2
  <2>12. a + (b + 1) = n + 1 /\ \A k \in 1..a : k \in 1..n
    BY <1>3, <2>2
  <2>6. ASSUME NEW k \in 1..(b + 1) PROVE w3'[s][k] = log'[a + k]
    <3>1. CASE k \in 1..b
      BY <1>3, <2>4, <2>5, <2>11, <3>1
    <3>2. CASE k = b + 1
      BY <1>3, <2>4, <2>12, <3>2
    <3> QED  BY <2>2, <3>1, <3>2
  <2>7. \A i \in 1..a : log'[i] = log[i]
    BY <1>3, <2>12
  <2>8. a + Len(w3'[s]) = Len(log')
    BY <1>3, <2>4, <2>12
  <2>9. \A i \in 1..a :
         /\ articles[s][i].ID = i
         /\ articles[s][i].post = log[i].post
         /\ articles[s][i].hierachy =
              IF log[i].repID = NewPost THEN 0
              ELSE articles[s][log[i].repID].hierachy + 1
    BY <2>1, <2>2 DEF StoredShape
  <2>10. articles'[s] = articles[s]
    BY <1>1
  <2>13. Len(articles'[s]) + Len(w3'[s]) = Len(log')
    BY <2>0, <2>8, <2>10
  <2>14. \A k \in DOMAIN w3'[s] : w3'[s][k] = log'[Len(articles'[s]) + k]
    BY <2>0, <2>4, <2>6, <2>10
  <2>15. \A i \in DOMAIN articles'[s] :
         /\ articles'[s][i].ID = i
         /\ articles'[s][i].post = log'[i].post
         /\ articles'[s][i].hierachy =
              IF log'[i].repID = NewPost THEN 0
              ELSE articles'[s][log'[i].repID].hierachy + 1
    BY <2>2, <2>7, <2>9, <2>10
  <2> QED  BY <2>13, <2>14, <2>15 DEF StoredShape
<1>6. SameHierachy'
  BY <1>1 DEF LogInv, SameHierachy
<1>7. TrafficShape'
  <2>1. \A id : RepliesTo(id, n) => RepliesTo(id, Len(log'))
    BY <1>3 DEF RepliesTo
  <2>2. \A x \in w2' : RepliesTo(x.repID, Len(log'))
    BY <1>0, <1>1, <2>1 DEF LogInv, TrafficShape
  <2>3. \A c \in Clients : RepliesTo(call'[c].repID, Len(log'))
    BY <1>0, <1>1, <2>1 DEF LogInv, TrafficShape
  <2>4. ASSUME NEW c \in Clients
        PROVE  /\ Len(view'[c]) <= Len(log')
               /\ \A i \in DOMAIN view'[c] : view'[c][i].post = log'[i].post
    <3>1. /\ view'[c] = view[c] /\ Len(view[c]) <= n /\ Len(view[c]) \in Nat
          /\ DOMAIN view[c] = 1..Len(view[c])
          /\ \A i \in DOMAIN view[c] : view[c][i].post = log[i].post
      BY <1>0, <1>1, LenProperties DEF LogInv, TrafficShape, TypeOK
    <3>2. \A i \in DOMAIN view[c] : i \in 1..n
      BY <1>3, <3>1
    <3> QED  BY <1>3, <3>1, <3>2
  <2>5. \A x \in w4' : x.ok
    BY <1>1 DEF LogInv, TrafficShape
  <2> QED  BY <2>2, <2>3, <2>4, <2>5 DEF TrafficShape
<1> QED  BY <1>4, <1>5, <1>6, <1>7 DEF LogInv

LEMMA LogUpdate ==
    ASSUME TypeOK, LogInv, Careful, NEW s \in Servers, NEW i \in DOMAIN w3[s],
           UpdateBackup(s, i)
    PROVE  LogInv'
<1> DEFINE u == w3[s][i]
           n == Len(log)
           p == Len(articles[s])
           b == Len(w3[s])
<1>1. /\ StoredShape(s) /\ articles[s] \in Seq(Article) /\ w3[s] \in Seq(Update)
      /\ log \in Seq(Update)
  BY DEF LogInv, TypeOK
<1>2. /\ i = 1 /\ n \in Nat /\ p \in Nat /\ b \in Nat /\ p + b = n
      /\ DOMAIN articles[s] = 1..p /\ DOMAIN w3[s] = 1..b /\ DOMAIN log = 1..n
  <2>1. i = 1
    BY DEF UpdateBackup, Receivable, Careful
  <2>2. p + b = n
    BY <1>1 DEF StoredShape
  <2> QED  BY <1>1, <2>1, <2>2, LenProperties
<1>0. Len(log) = n /\ Len(articles[s]) = p /\ Len(w3[s]) = b
  OBVIOUS
<1> HIDE DEF n, p, b
<1>20. b # 0 /\ p + 1 \in 1..n /\ 1 \in 1..b
  BY <1>2
<1>3. u = log[p + 1] /\ p + 1 \in 1..n /\ u \in Update
  <2>1. u = log[p + 1]
    BY <1>0, <1>1, <1>2, <1>20 DEF StoredShape
  <2>2. log[p + 1] \in Update
    BY <1>0, <1>1, <1>20, ElementOfSeq
  <2> QED  BY <1>20, <2>1, <2>2
<1>4. u.articleID = p + 1 /\ RepliesTo(u.repID, p)
  BY <1>2, <1>3 DEF LogInv, LogShape
<1>5. \A j \in 1..p :
         /\ articles[s][j].ID = j
         /\ articles[s][j].post = log[j].post
         /\ articles[s][j].hierachy =
              IF log[j].repID = NewPost THEN 0
              ELSE articles[s][log[j].repID].hierachy + 1
  BY <1>1, <1>2 DEF StoredShape
<1>6. u.repID # NewPost => Carriers(articles[s], u.repID) = {u.repID} /\ u.repID \in 1..p
  BY <1>2, <1>4, <1>5 DEF Carriers, RepliesTo
<1>7. Accepts(articles[s], u)
  BY <1>6 DEF Accepts
<1>8. Hierachy(articles[s], u) = IF u.repID = NewPost THEN 0
                                 ELSE articles[s][u.repID].hierachy + 1
  <2>1. CASE u.repID = NewPost
    BY <2>1 DEF Hierachy
  <2>2. CASE u.repID # NewPost
    <3>1. First({u.repID}) \in {u.repID}
      <4>1. \A x \in {u.repID} : \E y \in {u.repID} : \A z \in {u.repID} : y <= z
        BY <1>2, <1>6, <2>2
      <4> QED  BY <4>1 DEF First
    <3>2. First(Carriers(articles[s], u.repID)) = u.repID
      BY <1>6, <2>2, <3>1
    <3> QED  BY <2>2, <3>2 DEF Hierachy
  <2> QED  BY <2>1, <2>2
<1> DEFINE new == Stored(articles[s], u)
<1>9. /\ new \in Seq(Article) /\ Len(new) = p + 1 /\ DOMAIN new = 1..(p + 1)
      /\ \A j \in 1..p : new[j] = articles[s][j]
      /\ new[p + 1] = [ID |-> u.articleID, hierachy |-> Hierachy(articles[s], u), post |-> u.post]
  <2>1. /\ new \in Seq(Article) /\ Len(new) = p + 1
        /\ \A j \in DOMAIN articles[s] : new[j] = articles[s][j]
        /\ new[p + 1] = [ID |-> u.articleID, hierachy |-> Hierachy(articles[s], u),
                         post |-> u.post]
    BY <1>0, <1>1, <1>3, <1>7, StoredType
  <2> QED  BY <1>2, <2>1, LenProperties
<1>10. articles' = [articles EXCEPT ![s] = new] /\ articles'[s] = new
  BY <1>7 DEF UpdateBackup, TypeOK
<1>11. /\ Len(RemoveAt(w3[s], i)) = b - 1
       /\ \A k \in DOMAIN RemoveAt(w3[s], i) :
             RemoveAt(w3[s], i)[k] = IF k < i THEN w3[s][k] ELSE w3[s][k + 1]
       /\ DOMAIN RemoveAt(w3[s], i) = 1..(b - 1)
  <2>1. /\ RemoveAt(w3[s], i) \in Seq(Update)
        /\ Len(RemoveAt(w3[s], i)) = b - 1
        /\ \A k \in DOMAIN RemoveAt(w3[s], i) :
             RemoveAt(w3[s], i)[k] = IF k < i THEN w3[s][k] ELSE w3[s][k + 1]
    BY <1>0, <1>1, RemoveAtType
  <2> QED  BY <2>1, LenProperties
<1>12. w3' = [w3 EXCEPT ![s] = RemoveAt(w3[s], i)] /\ w3'[s] = RemoveAt(w3[s], i)
  BY DEF UpdateBackup, TypeOK
<1>13. UNCHANGED <<ID, w2, call, view, log>>
  BY DEF UpdateBackup, client
<1>14. w4' = w4 \cup {[req_num |-> u.req_num, ok |-> TRUE, origin |-> u.origin,
                       from |-> s, post |-> u.post]}
  BY <1>7 DEF UpdateBackup, Accepts
<1> HIDE DEF new, u
<1>15. StoredShape(s)'
  <2>1. Len(articles'[s]) + Len(w3'[s]) = Len(log')
    <3>1. (p + 1) + (b - 1) = n
      BY <1>2
    <3> QED  BY <1>0, <1>9, <1>10, <1>11, <1>12, <1>13, <3>1
  <2>2. ASSUME NEW j \in 1..(p + 1)
        PROVE  /\ new[j].ID = j
               /\ new[j].post = log[j].post
               /\ new[j].hierachy = IF log[j].repID = NewPost THEN 0
                                    ELSE new[log[j].repID].hierachy + 1
    <3>1. CASE j \in 1..p
      <4>1. log[j].repID # NewPost => log[j].repID \in 1..p
        <5>1. j \in DOMAIN log /\ j \in Nat /\ j <= p
          BY <1>2, <3>1
        <5>2. RepliesTo(log[j].repID, j - 1)
          BY <5>1 DEF LogInv, LogShape
        <5> QED  BY <1>2, <5>1, <5>2 DEF RepliesTo
      <4> QED  BY <1>5, <1>9, <3>1, <4>1
    <3>2. CASE j = p + 1
      BY <1>3, <1>4, <1>6, <1>8, <1>9, <3>2
    <3> QED  BY <1>2, <3>1, <3>2
  <2>3. ASSUME NEW k \in 1..(b - 1)
        PROVE  RemoveAt(w3[s], i)[k] = log[Len(new) + k]
    <3>1. RemoveAt(w3[s], i)[k] = w3[s][k + 1] /\ k + 1 \in DOMAIN w3[s]
      BY <1>2, <1>11
    <3>2. w3[s][k + 1] = log[p + (k + 1)]
      BY <1>0, <1>1, <3>1 DEF StoredShape
    <3>3. p + (k + 1) = Len(new) + k
      <4>1. p + (k + 1) = (p + 1) + k
        BY <1>2
      <4> QED  BY <1>9, <4>1
    <3> QED  BY <3>1, <3>2, <3>3
  <2>4. \A j \in DOMAIN articles'[s] :
         /\ articles'[s][j].ID = j
         /\ articles'[s][j].post = log'[j].post
         /\ articles'[s][j].hierachy =
              IF log'[j].repID = NewPost THEN 0
              ELSE articles'[s][log'[j].repID].hierachy + 1
    BY <1>9, <1>10, <1>13, <2>2
  <2>5. \A k \in DOMAIN w3'[s] : w3'[s][k] = log'[Len(articles'[s]) + k]
    BY <1>10, <1>11, <1>12, <1>13, <2>3
  <2> QED  BY <2>1, <2>4, <2>5 DEF StoredShape
<1>16. ASSUME NEW t \in Servers, t # s PROVE StoredShape(t)'
  <2>1. StoredShape(t) /\ articles'[t] = articles[t] /\ w3'[t] = w3[t]
    BY <1>10, <1>12, <1>16 DEF LogInv, TypeOK
  <2> QED  BY <1>13, <2>1 DEF StoredShape
<1>17. SameHierachy'
  <2>1. ASSUME NEW t \in Servers, t # s, NEW j \in DOMAIN articles[t], j \in 1..(p + 1)
        PROVE  new[j].hierachy = articles[t][j].hierachy
    <3>1. CASE j \in 1..p
      BY <1>2, <1>9, <2>1, <3>1 DEF LogInv, SameHierachy
    <3>2. CASE j = p + 1
      <4>1. StoredShape(t) /\ articles[t] \in Seq(Article)
        BY DEF LogInv, TypeOK
      <4>2. articles[t][j].hierachy = IF u.repID = NewPost THEN 0
                                      ELSE articles[t][u.repID].hierachy + 1
        BY <1>3, <2>1, <3>2, <4>1 DEF StoredShape
      <4>3. u.repID # NewPost => u.repID \in DOMAIN articles[t] /\ u.repID \in DOMAIN articles[s]
        BY <1>2, <1>6, <2>1, <3>2, <4>1, LenProperties
      <4>4. u.repID # NewPost => articles[t][u.repID].hierachy = articles[s][u.repID].hierachy
        BY <4>3 DEF LogInv, SameHierachy
      <4> QED  BY <1>8, <1>9, <3>2, <4>2, <4>4
    <3> QED  BY <1>2, <2>1, <3>1, <3>2
  <2>2. \A t \in Servers \ {s} : articles'[t] = articles[t]
    BY <1>10
  <2>3. ASSUME NEW t \in Servers, NEW v \in Servers,
               NEW j \in DOMAIN articles'[t] \cap DOMAIN articles'[v]
        PROVE  articles'[t][j].hierachy = articles'[v][j].hierachy
    <3>1. CASE t = s /\ v = s
      BY <3>1
    <3>2. CASE t = s /\ v # s
      BY <1>9, <1>10, <2>1, <2>2, <2>3, <3>2
    <3>3. CASE t # s /\ v = s
      BY <1>9, <1>10, <2>1, <2>2, <2>3, <3>3
    <3>4. CASE t # s /\ v # s
      BY <2>2, <2>3, <3>4 DEF LogInv, SameHierachy
    <3> QED  BY <3>1, <3>2, <3>3, <3>4
  <2> QED  BY <2>3 DEF SameHierachy
<1>18. TrafficShape'
  BY <1>13, <1>14 DEF LogInv, TrafficShape, RepliesTo
<1>19. LogShape'
  BY <1>13 DEF LogInv, LogShape, RepliesTo
<1> QED  BY <1>15, <1>16, <1>17, <1>18, <1>19 DEF LogInv

LEMMA LogNext == TypeOK /\ LogInv /\ Careful /\ [Next]_vars => LogInv'
<1> SUFFICES ASSUME TypeOK, LogInv, Careful, [Next]_vars PROVE LogInv'
  OBVIOUS
<1>1. CASE ClientStep
  BY <1>1, LogClient DEF ClientStep, ClientAction
<1>2. CASE ListenStep
  BY <1>2, LogForwardW2, LogRead, LogW5 DEF ListenStep, Post_handler, Reply_handler
<1>3. CASE PrimaryPortStep
  BY <1>3, LogForward, LogUpdate, LogAck DEF PrimaryPortStep
<1>4. CASE UNCHANGED vars
  <2>1. \A c \in Clients : RepliesTo(call'[c].repID, Len(log))
    BY <1>4 DEF vars, client, LogInv, TrafficShape, server
  <2> QED  BY <1>4, <2>1, CallsOnly DEF vars, net, client, server
<1> QED  BY <1>1, <1>2, <1>3, <1>4 DEF Next

(* With W3 delivered in order and replies to articles on display, each server *)
(* stores a prefix of the primary's broadcasts under the numbers 1, 2, 3...,  *)
(* for any number of servers, clients and concurrent writes, and although     *)
(* concurrent requests share acknowledgement slots.                           *)
THEOREM LogPrefixCorrect ==
    ASSUME Careful
    PROVE  Spec => []LogPrefix
<1>1. TypeOK /\ LogInv => LogPrefix
  <2> SUFFICES ASSUME TypeOK, LogInv, NEW s \in Servers
               PROVE  /\ Len(articles[s]) <= Len(log)
                      /\ \A i \in DOMAIN articles[s] :
                           articles[s][i].ID = i /\ articles[s][i].post = log[i].post
    BY DEF LogPrefix
  <2>1. StoredShape(s)
    BY DEF LogInv
  <2>2. Len(articles[s]) + Len(w3[s]) = Len(log)
    BY <2>1 DEF StoredShape
  <2>3. Len(articles[s]) \in Nat /\ Len(w3[s]) \in Nat
    BY LenProperties DEF TypeOK
  <2>4. Len(articles[s]) <= Len(log)
    <3>1. \A x, y, z : x \in Nat /\ y \in Nat /\ x + y = z => x <= z
      OBVIOUS
    <3> QED  BY <2>2, <2>3, <3>1
  <2> QED  BY <2>1, <2>4 DEF StoredShape
<1>2. Init => LogInv
  BY LogInit
<1> QED  BY <1>1, <1>2, LogNext, TypeCorrect, PTL DEF Spec

----------------------------------------------------------------------------
(* No write is broadcast twice.                                               *)

LEMMA OnceClient ==
    ASSUME TypeOK, OnceOnly, NEW c \in Clients, NEW s \in Servers,
           \/ ClientPost(c, s) \/ ClientRead(c, s)
           \/ \E id \in DOMAIN view[c] \cup StrayIDs : ClientReply(c, s, id),
           UNCHANGED server
    PROVE  OnceOnly'
<1>1. /\ UNCHANGED <<w2, serving, log>> /\ call[c] = NoCall
      /\ \A d \in Clients \ {c} : call'[d] = call[d]
  BY DEF ClientPost, ClientReply, ClientRead, Write, Issue, net, server, TypeOK, ClientTypeOK
<1>2. \/ writes' = writes /\ call'[c].op \notin Writing
      \/ writes' = writes + 1 /\ call'[c].post = writes + 1
  BY DEF ClientPost, ClientReply, ClientRead, Write, Issue, TypeOK, Writing, ClientTypeOK
<1>3. writes \in Nat
  BY ClientAssumption DEF TypeOK, ClientTypeOK
<1>4. \A d \in Clients \ {c} : Waiting(d)' <=> Waiting(d)
  BY <1>1 DEF Waiting
<1>5. ~Waiting(c)
  BY <1>1 DEF Waiting, NoCall, Writing
<1>6. /\ \A k \in DOMAIN log : log[k] \in Update /\ log[k].post \in Nat
      /\ \A m \in w2 : m.post \in Nat
      /\ \A d \in Clients : call[d].post \in Nat
  <2>1. log \in Seq(Update)
    BY DEF TypeOK
  <2>2. \A k \in DOMAIN log : log[k] \in Update
    BY <2>1, ElementOfSeq, LenProperties
  <2>3. \A k \in DOMAIN log : log[k].post \in Nat
    BY <2>2, ClientAssumption DEF Update, Post
  <2>4. \A m \in w2 : m.post \in Nat
    BY ClientAssumption DEF TypeOK, Post
  <2>5. \A d \in Clients : call[d].post \in Nat
    BY ClientAssumption DEF TypeOK, ClientTypeOK
  <2> QED  BY <2>2, <2>3, <2>4, <2>5
<1>7. CASE writes' = writes /\ call'[c].op \notin Writing
  <2>1. ~Waiting(c)'
    BY <1>7 DEF Waiting
  <2> QED  BY <1>1, <1>4, <1>5, <1>7, <2>1 DEF OnceOnly
<1>8. CASE writes' = writes + 1 /\ call'[c].post = writes + 1
  <2>1. \A k \in DOMAIN log' : log'[k].post <= writes'
    BY <1>1, <1>3, <1>6, <1>8 DEF OnceOnly
  <2>2. \A m \in w2' : m.post <= writes' /\ \A k \in DOMAIN log' : log'[k].post # m.post
    BY <1>1, <1>3, <1>6, <1>8 DEF OnceOnly
  <2>3. \A d \in Clients \ {c} : Waiting(d)' =>
         /\ call'[d].post <= writes' /\ call'[d].post # call'[c].post
         /\ \A k \in DOMAIN log' : log'[k].post # call'[d].post
         /\ \A m \in w2' : m.post # call'[d].post
         /\ \A e \in Clients \ {c} : Waiting(e)' /\ call'[e].post = call'[d].post => d = e
    BY <1>1, <1>3, <1>4, <1>6, <1>8 DEF OnceOnly
  <2>4. /\ call'[c].post <= writes'
        /\ \A k \in DOMAIN log' : log'[k].post # call'[c].post
        /\ \A m \in w2' : m.post # call'[c].post
    BY <1>1, <1>3, <1>6, <1>8 DEF OnceOnly
  <2>5. /\ \A j, k \in DOMAIN log' : log'[j].post = log'[k].post => j = k
        /\ \A m, n \in w2' : m.post = n.post => m = n
    BY <1>1 DEF OnceOnly
  <2> QED  BY <2>1, <2>2, <2>3, <2>4, <2>5 DEF OnceOnly
<1> QED  BY <1>2, <1>7, <1>8

LEMMA OnceForwardW2 ==
    ASSUME TypeOK, OnceOnly, NEW c \in Clients, NEW s \in Servers,
           Post_handler(c, s) \/ Reply_handler(c, s)
    PROVE  OnceOnly'
<1> DEFINE new == [post |-> call[c].post, repID |-> call[c].repID, origin |-> s]
<1>1. /\ call[c].op \in Writing /\ call[c].server = s /\ serving[s] = NoClient
      /\ w2' = w2 \cup {new} /\ serving' = [serving EXCEPT ![s] = c]
      /\ UNCHANGED <<call, writes, log>>
  BY DEF Post_handler, Reply_handler, Queued, ForwardW2, Writing, client
<1>2. Waiting(c) /\ ~Waiting(c)'
  BY <1>1, SeqAssumption DEF Waiting, TypeOK
<1>3. \A d \in Clients : Waiting(d)' => Waiting(d) /\ d # c
  BY <1>1, <1>2, SeqAssumption DEF Waiting, TypeOK
<1>4. new.post = call[c].post
  OBVIOUS
<1> HIDE DEF new
<1>5. /\ \A m \in w2' : m.post <= writes' /\ \A k \in DOMAIN log' : log'[k].post # m.post
      /\ \A m, n \in w2' : m.post = n.post => m = n
  BY <1>1, <1>2, <1>4 DEF OnceOnly
<1>6. \A d \in Clients : Waiting(d)' =>
         /\ call'[d].post <= writes'
         /\ \A k \in DOMAIN log' : log'[k].post # call'[d].post
         /\ \A m \in w2' : m.post # call'[d].post
         /\ \A e \in Clients : Waiting(e)' /\ call'[e].post = call'[d].post => d = e
  BY <1>1, <1>2, <1>3, <1>4 DEF OnceOnly
<1> QED  BY <1>1, <1>5, <1>6 DEF OnceOnly

(* Steps that take a request off its way, or move none.                       *)
LEMMA OnceKept ==
    ASSUME OnceOnly, UNCHANGED <<writes, log, w2>>,
           \A d \in Clients : Waiting(d)' => Waiting(d) /\ call'[d] = call[d]
    PROVE  OnceOnly'
BY DEF OnceOnly

LEMMA OnceForward ==
    ASSUME TypeOK, OnceOnly, NEW m \in w2, Forward(m)
    PROVE  OnceOnly'
<1>1. PICK u : log' = Append(log, u) /\ u \in Update /\ u.post = m.post
  <2> DEFINE u == [req_num |-> FreeSlot, articleID |-> ID + 1, repID |-> m.repID,
                   post |-> m.post, origin |-> m.origin]
  <2>1. log' = Append(log, u) /\ u.post = m.post
    BY DEF Forward, NextID
  <2>2. FreeSlot \in Nat \ {0}
    BY FreeSlotType, LenProperties DEF TypeOK
  <2>3. u \in Update
    BY <2>2 DEF TypeOK, Update
  <2> QED  BY <2>1, <2>3
<1>2. w2' = w2 \ {m} /\ UNCHANGED <<call, writes, serving>>
  BY DEF Forward, client
<1>3. \A d \in Clients : Waiting(d)' <=> Waiting(d)
  BY <1>2 DEF Waiting
<1>4. /\ DOMAIN log = 1..Len(log) /\ DOMAIN log' = 1..(Len(log) + 1) /\ Len(log) \in Nat
      /\ \A k \in 1..Len(log) : log'[k] = log[k]
      /\ log'[Len(log) + 1] = u
  BY <1>1, LenProperties DEF TypeOK
<1>5. \A k \in DOMAIN log' : \/ k \in DOMAIN log /\ log'[k].post = log[k].post
                             \/ k = Len(log) + 1 /\ log'[k].post = m.post
  BY <1>1, <1>4
<1>6. \A k \in DOMAIN log : log[k].post # m.post
  BY DEF OnceOnly
<1>7. \A j, k \in DOMAIN log' : log'[j].post = log'[k].post => j = k
  BY <1>5, <1>6 DEF OnceOnly
<1>8. \A k \in DOMAIN log' : log'[k].post <= writes'
  BY <1>2, <1>5 DEF OnceOnly
<1>9. \A n \in w2' : n \in w2 /\ n.post # m.post
  BY <1>2 DEF OnceOnly
<1>10. \A n \in w2' : n.post <= writes' /\ \A k \in DOMAIN log' : log'[k].post # n.post
  BY <1>2, <1>5, <1>9 DEF OnceOnly
<1>11. \A d \in Clients : Waiting(d)' =>
         /\ call'[d].post <= writes'
         /\ \A k \in DOMAIN log' : log'[k].post # call'[d].post
         /\ \A n \in w2' : n.post # call'[d].post
         /\ \A e \in Clients : Waiting(e)' /\ call'[e].post = call'[d].post => d = e
  BY <1>2, <1>3, <1>5, <1>9 DEF OnceOnly
<1> QED  BY <1>2, <1>7, <1>8, <1>9, <1>10, <1>11 DEF OnceOnly

LEMMA OnceNext == TypeOK /\ OnceOnly /\ [Next]_vars => OnceOnly'
<1> SUFFICES ASSUME TypeOK, OnceOnly, [Next]_vars PROVE OnceOnly'
  OBVIOUS
<1>1. CASE ClientStep
  BY <1>1, OnceClient DEF ClientStep, ClientAction
<1>2. ASSUME NEW c \in Clients, NEW s \in Servers, Read_handler(c, s)
      PROVE  OnceOnly'
  <2>1. /\ UNCHANGED <<w2, writes, log, serving>>
        /\ \A d \in Clients : call'[d] = call[d] \/ call'[d] = NoCall
    BY <1>2 DEF Read_handler, net, TypeOK, ClientTypeOK, Show, Sent
  <2>2. \A d \in Clients : Waiting(d)' => Waiting(d) /\ call'[d] = call[d]
    BY <2>1 DEF Waiting, NoCall, Writing
  <2> QED  BY <2>1, <2>2, OnceKept
<1>3. ASSUME NEW s \in Servers, NEW m \in w5, ReceiveW5(s, m) \/ DropW5(s, m)
      PROVE  OnceOnly'
  <2>1. UNCHANGED <<w2, writes, log>>
    BY <1>3 DEF ReceiveW5, DropW5, client, Tell
  <2>2. CASE DropW5(s, m)
    <3>1. \A d \in Clients : Waiting(d)' => Waiting(d) /\ call'[d] = call[d]
      BY <2>2 DEF DropW5, client, Waiting
    <3> QED  BY <2>1, <3>1, OnceKept
  <2>3. CASE ReceiveW5(s, m)
    <3>1. /\ serving[s] \in Clients /\ serving' = [serving EXCEPT ![s] = NoClient]
          /\ call' = [call EXCEPT ![serving[s]] = NoCall]
      BY <2>3 DEF ReceiveW5, TypeOK, ClientTypeOK, Tell
    <3>2. call[serving[s]].server = s
      BY <2>3 DEF ReceiveW5, TypeOK
    <3>3. \A d \in Clients \ {serving[s]} : call'[d] = call[d] /\ (Waiting(d)' => Waiting(d))
      BY <3>1 DEF Waiting, TypeOK
    <3>5. \A d \in Clients : Waiting(d)' => d # serving[s]
      BY <3>1 DEF Waiting, NoCall, Writing, TypeOK, ClientTypeOK
    <3> QED  BY <2>1, <3>3, <3>5, OnceKept
  <2> QED  BY <1>3, <2>2, <2>3
<1>4. CASE ListenStep
  BY <1>2, <1>3, <1>4, OnceForwardW2 DEF ListenStep
<1>5. ASSUME UNCHANGED <<w2, writes, log, serving, call>>
      PROVE  OnceOnly'
  BY <1>5, OnceKept DEF Waiting
<1>6. CASE PrimaryPortStep
  BY <1>5, <1>6, OnceForward DEF PrimaryPortStep, UpdateBackup, Ack, client
<1>7. CASE UNCHANGED vars
  BY <1>5, <1>7 DEF vars, net, client, server
<1> QED  BY <1>1, <1>4, <1>6, <1>7 DEF Next

----------------------------------------------------------------------------
(* Refinement: the servers implement the abstract board.                      *)

LEMMA PostsAppend ==
    ASSUME NEW l \in Seq(Update), NEW u \in Update
    PROVE  Posts(Append(l, u)) = Append(Posts(l), u.post)
<1>1. /\ DOMAIN l = 1..Len(l) /\ Len(l) \in Nat
      /\ Append(l, u) \in Seq(Update) /\ Len(Append(l, u)) = Len(l) + 1
      /\ \A k \in 1..Len(l) : Append(l, u)[k] = l[k]
      /\ Append(l, u)[Len(l) + 1] = u
      /\ DOMAIN Append(l, u) = 1..(Len(l) + 1)
  BY AppendProperties, LenProperties
<1>2. \A k \in 1..Len(l) : l[k].post \in Post
  <2>1. \A k \in 1..Len(l) : l[k] \in Update
    BY ElementOfSeq
  <2> QED  BY <2>1 DEF Update
<1>3. Posts(l) \in Seq(Post) /\ Len(Posts(l)) = Len(l)
      /\ \A k \in 1..Len(l) : Posts(l)[k] = l[k].post
  BY <1>1, <1>2, IsASeq DEF Posts
<1>4. u.post \in Post
  BY DEF Update
<1>5. /\ Append(Posts(l), u.post) \in Seq(Post)
      /\ Len(Append(Posts(l), u.post)) = Len(l) + 1
      /\ \A k \in 1..Len(l) : Append(Posts(l), u.post)[k] = Posts(l)[k]
      /\ Append(Posts(l), u.post)[Len(l) + 1] = u.post
  BY <1>3, <1>4, AppendProperties
<1>6. Posts(Append(l, u)) = [k \in 1..(Len(l) + 1) |-> Append(l, u)[k].post]
  BY <1>1 DEF Posts
<1>7. \A k \in 1..(Len(l) + 1) : Append(l, u)[k].post = Append(Posts(l), u.post)[k]
  BY <1>1, <1>3, <1>5
<1>8. Append(Posts(l), u.post) = [k \in 1..(Len(l) + 1) |-> Append(Posts(l), u.post)[k]]
  BY <1>5, LenProperties
<1> QED  BY <1>6, <1>7, <1>8

LEMMA PostsSubSeq ==
    ASSUME NEW l \in Seq(Update), NEW n \in 0..Len(l), NEW a,
           DOMAIN a = 1..n, \A k \in 1..n : a[k].post = l[k].post
    PROVE  Posts(a) = SubSeq(Posts(l), 1, n)
<1>1. /\ DOMAIN l = 1..Len(l) /\ Len(l) \in Nat
      /\ \A k \in 1..Len(l) : l[k].post \in Post
  <2>1. DOMAIN l = 1..Len(l) /\ Len(l) \in Nat
    BY LenProperties
  <2>2. \A k \in 1..Len(l) : l[k] \in Update
    BY ElementOfSeq
  <2> QED  BY <2>1, <2>2 DEF Update
<1>2. Posts(l) \in Seq(Post) /\ Len(Posts(l)) = Len(l)
      /\ \A k \in 1..Len(l) : Posts(l)[k] = l[k].post
  BY <1>1, IsASeq DEF Posts
<1>3. \A k \in 1..n : k \in 1..Len(l)
  BY <1>1
<1>4. SubSeq(Posts(l), 1, n) = [k \in 1..n |-> Posts(l)[k]]
  BY <1>1, <1>2
<1>5. Posts(a) = [k \in 1..n |-> a[k].post]
  BY DEF Posts
<1> QED  BY <1>2, <1>3, <1>4, <1>5

LEMMA BoardForward ==
    ASSUME TypeOK, OnceOnly, NEW m \in w2, Forward(m)
    PROVE  Board!Next
<1>1. PICK u \in Update : log' = Append(log, u) /\ u.post = m.post
  <2> DEFINE u == [req_num |-> FreeSlot, articleID |-> ID + 1, repID |-> m.repID,
                   post |-> m.post, origin |-> m.origin]
  <2>1. log' = Append(log, u) /\ u.post = m.post
    BY DEF Forward, NextID
  <2>2. FreeSlot \in Nat \ {0}
    BY FreeSlotType, LenProperties DEF TypeOK
  <2>3. u \in Update
    BY <2>2 DEF TypeOK, Update
  <2> QED  BY <2>1, <2>3
<1>2. m.post \in Post
  BY DEF TypeOK
<1>3. Posts(log') = Append(Posts(log), m.post)
  BY <1>1, PostsAppend DEF TypeOK
<1>4. \A i \in DOMAIN Posts(log) : Posts(log)[i] # m.post
  BY DEF Posts, OnceOnly
<1>5. view' = view
  BY DEF Forward, client
<1>6. Board!Add(m.post)
  BY <1>3, <1>4, <1>5 DEF Board!Add
<1> QED  BY <1>2, <1>6 DEF Board!Next

LEMMA BoardRead ==
    ASSUME TypeOK, LogInv, NEW c \in Clients, NEW s \in Servers, Read_handler(c, s)
    PROVE  Board!Next
<1>1. /\ articles[s] \in Seq(Article) /\ log \in Seq(Update) /\ w3[s] \in Seq(Update)
      /\ StoredShape(s)
  BY DEF TypeOK, LogInv
<1> DEFINE n == Len(articles[s])
<1>2. DOMAIN articles[s] = 1..n /\ n \in 0..Len(log)
  <2>1. n + Len(w3[s]) = Len(log)
    BY <1>1 DEF StoredShape
  <2>2. n \in Nat /\ Len(w3[s]) \in Nat /\ Len(log) \in Nat /\ DOMAIN articles[s] = 1..n
    BY <1>1, LenProperties
  <2>3. \A x, y, z \in Nat : x + y = z => x \in 0..z
    OBVIOUS
  <2> HIDE DEF n
  <2> QED  BY <2>1, <2>2, <2>3
<1>3. articles'[s] = articles[s]
  <2>1. \A i \in DOMAIN articles[s] : articles[s][i].ID = i
    BY <1>1 DEF StoredShape
  <2>2. SortByID(articles[s]) = articles[s]
    BY <1>1, <2>1, ArticleIDs, SortOfNumbered
  <2> QED  BY <2>2 DEF Read_handler, TypeOK
<1>4. view' = [view EXCEPT ![c] = [i \in DOMAIN articles[s] |->
                  [post |-> articles[s][i].post, hierachy |-> articles[s][i].hierachy]]]
  BY <1>3 DEF Read_handler, Show, Sent
<1>5. view'[c] = [i \in 1..n |->
                  [post |-> articles[s][i].post, hierachy |-> articles[s][i].hierachy]]
  BY <1>2, <1>4 DEF TypeOK, ClientTypeOK
<1>6. /\ DOMAIN view'[c] = 1..n
      /\ \A i \in 1..n : view'[c][i].post = log[i].post
  <2>1. \A i \in 1..n : articles[s][i].post = log[i].post
    BY <1>1, <1>2 DEF StoredShape
  <2> QED  BY <1>5, <2>1
<1>7. Posts(view'[c]) = SubSeq(Posts(log), 1, n)
  <2> HIDE DEF n
  <2> QED  BY <1>1, <1>2, <1>6, PostsSubSeq
<1>8. log' = log /\ view' \in [Clients -> {view'[d] : d \in Clients}]
      /\ \A d \in Clients \ {c} : view'[d] = view[d]
  BY <1>4 DEF Read_handler, TypeOK, ClientTypeOK, Show, Sent
<1>9. [d \in Clients |-> Posts(view'[d])]
        = [[d \in Clients |-> Posts(view[d])] EXCEPT ![c] = SubSeq(Posts(log), 1, n)]
  BY <1>7, <1>8
<1>10. Board!Read(c, n)
  BY <1>8, <1>9 DEF Board!Read
<1>11. Len(Posts(log)) = Len(log)
  BY <1>1, LenProperties DEF Posts
<1> QED  BY <1>2, <1>10, <1>11 DEF Board!Next

(* Seen through the broadcasts and the views, the servers are one board that  *)
(* only grows at its end and of which a read shows a prefix.                  *)
THEOREM BoardImplemented ==
    ASSUME Careful
    PROVE  Spec => ImplementsBoard
<1>1. Init => Board!Init
  BY DEF Init, ClientInit, Board!Init, Posts
<1>2. ASSUME TypeOK, LogInv, OnceOnly, [Next]_vars
      PROVE  [Board!Next]_<<Posts(log), [c \in Clients |-> Posts(view[c])]>>
  <2>1. CASE UNCHANGED <<log, view>>
    BY <2>1
  <2>2. CASE ClientStep
    BY <2>1, <2>2
    DEF ClientStep, ClientAction, ClientPost, ClientReply, ClientRead, Write, Issue, server
  <2>3. CASE ListenStep
    BY <2>1, <2>3, <1>2, BoardRead
    DEF ListenStep, Post_handler, Reply_handler, ForwardW2, ReceiveW5, DropW5, client, Tell
  <2>4. CASE PrimaryPortStep
    BY <2>1, <2>4, <1>2, BoardForward DEF PrimaryPortStep, UpdateBackup, Ack, client
  <2>5. CASE UNCHANGED vars
    BY <2>1, <2>5 DEF vars, client, server
  <2> QED  BY <1>2, <2>2, <2>3, <2>4, <2>5 DEF Next
<1>3. Init => LogInv /\ OnceOnly
  BY LogInit
<1> QED  BY <1>1, <1>2, <1>3, LogNext, OnceNext, TypeCorrect, PTL
         DEF Spec, ImplementsBoard, Board!Spec

----------------------------------------------------------------------------
(* The slots of ack_num, with replies refused, slots shared and datagrams     *)
(* in any order.                                                              *)

(* A server and a post: an acknowledgement that is still to be counted in     *)
(* slot i, because the update is in the queue of the server or its W4 in      *)
(* flight.                                                                    *)
Queues(s, p, i)   == \E u \in Named(w3[s]) : u.post = p /\ u.req_num = i
Verdict(s, p, i)  == \E m \in w4 : m.from = s /\ m.post = p /\ m.req_num = i
Expected(i)       == {x \in Servers \X Post : Queues(x[1], x[2], i) \/ Verdict(x[1], x[2], i)}

Logged(p) == \E k \in DOMAIN log : log[k].post = p

(* A server has a post to do once, or a verdict on it in flight once.         *)
Apart ==
    /\ \A s \in Servers :
         /\ Distinct(w3[s]) /\ Len(w3[s]) <= Len(log)
         /\ \A u \in Named(w3[s]) : Logged(u.post)
         /\ \A u, v \in Named(w3[s]) : u.post = v.post => u = v
    /\ \A m \in w4 :
         /\ Logged(m.post)
         /\ \A u \in Named(w3[m.from]) : u.post # m.post
         /\ \A n \in w4 : m.from = n.from /\ m.post = n.post => m = n

Whole == \A i \in DOMAIN ack_num : (ack_num[i] + Cardinality(Expected(i))) % N = 0

SlotInv == TypeOK /\ OnceOnly /\ Apart /\ Whole

LEMMA QueueTypes ==
    ASSUME TypeOK, NEW s \in Servers
    PROVE  /\ w3[s] \in Seq(Update) /\ Named(w3[s]) \subseteq Update
           /\ \A u \in Named(w3[s]) : u.req_num \in DOMAIN ack_num
<1>1. w3[s] \in Seq(Update) /\ \A k \in DOMAIN w3[s] : w3[s][k].req_num \in DOMAIN ack_num
  BY DEF TypeOK
<1>2. \A k \in DOMAIN w3[s] : w3[s][k] \in Update
  BY <1>1, ElementOfSeq, LenProperties
<1> QED  BY <1>1, <1>2 DEF Named

LEMMA ExpectedFinite ==
    ASSUME NEW i
    PROVE  /\ Expected(i) \subseteq Servers \X Post
           /\ IsFiniteSet(Expected(i)) /\ Cardinality(Expected(i)) \in Nat
<1>1. IsFiniteSet(Post)
  BY CardinalityUpTo, ClientAssumption DEF Post
<1>2. IsFiniteSet(Servers \X Post)
  BY <1>1, FS_Product, ClientAssumption
<1>3. Expected(i) \subseteq Servers \X Post
  BY DEF Expected
<1>4. IsFiniteSet(Expected(i))
  BY <1>2, <1>3, FS_Subset
<1> QED  BY <1>3, <1>4, FS_CardinalityType

(* Counting in whole requests.                                                *)
LEMMA OneRequestMore ==
    ASSUME NEW n \in Nat \ {0}, NEW x \in Nat, NEW y \in Nat, y = x + n
    PROVE  y % n = x % n /\ y \div n = x \div n + 1
BY Z3T(30)

(* A request changes no count: its slot is one that is there, or a new one.    *)
LEMMA GrownKeeps ==
    ASSUME TypeOK
    PROVE  /\ \A i \in DOMAIN ack_num : Grown[i] = ack_num[i] /\ ack_num[i] \in Nat
           /\ \A i \in DOMAIN Grown \ DOMAIN ack_num : i = FreeSlot /\ Grown[i] = 0
<1> DEFINE n == Len(ack_num)
<1>1. /\ ack_num \in Seq(0..(N - 1)) /\ n \in Nat /\ DOMAIN ack_num = 1..n
      /\ \A i \in DOMAIN ack_num : ack_num[i] \in 0..(N - 1)
  BY ElementOfSeq, LenProperties DEF TypeOK
<1>2. /\ DOMAIN Append(ack_num, 0) = 1..(n + 1)
      /\ \A i \in 1..n : Append(ack_num, 0)[i] = ack_num[i]
      /\ Append(ack_num, 0)[n + 1] = 0
  BY <1>1, AtLeastOneServer, AppendProperties, LenProperties
<1>3. FreeSlot \in DOMAIN Grown
  BY <1>1, FreeSlotType
<1>4. Grown = IF FreeSlot > n THEN Append(ack_num, 0) ELSE ack_num
  BY DEF Grown
<1> HIDE DEF n
<1> QED  BY <1>1, <1>2, <1>3, <1>4, AtLeastOneServer

(* Forward asks every server, once, for the slot it takes.                    *)
LEMMA ForwardExpects ==
    ASSUME SlotInv, NEW m \in w2, Forward(m)
    PROVE  SlotInv'
<1>0. TypeOK /\ OnceOnly /\ Apart /\ Whole
  BY DEF SlotInv
<1>1. TypeOK' /\ OnceOnly'
  BY <1>0, ForwardType, OnceForward
<1>2. PICK j : j = FreeSlot
  OBVIOUS
<1>3. m.post \in Post /\ j \in Nat \ {0} /\ j \in DOMAIN Grown
  BY <1>0, <1>2, FreeSlotType, LenProperties DEF TypeOK
<1>4. PICK u \in Update :
        /\ u.post = m.post /\ u.req_num = j
        /\ w3' = [t \in Servers |-> Append(w3[t], u)] /\ log' = Append(log, u)
        /\ ack_num' = Grown /\ w4' = w4
  <2> DEFINE u == [req_num |-> FreeSlot, articleID |-> ID + 1, repID |-> m.repID,
                   post |-> m.post, origin |-> m.origin]
  <2>1. u \in Update
    BY <1>0, <1>2, <1>3 DEF TypeOK, Update
  <2>2. /\ w3' = [t \in Servers |-> Append(w3[t], u)] /\ log' = Append(log, u)
        /\ ack_num' = Grown /\ w4' = w4
    BY DEF Forward, NextID
  <2>3. u.post = m.post /\ u.req_num = j
    BY <1>2
  <2> QED  BY <2>1, <2>2, <2>3
<1>5. /\ DOMAIN log = 1..Len(log) /\ Len(log) \in Nat /\ DOMAIN log' = 1..(Len(log) + 1)
      /\ Len(log') = Len(log) + 1
      /\ \A k \in 1..Len(log) : log'[k] = log[k]
      /\ log'[Len(log) + 1] = u
  BY <1>0, <1>4, AppendProperties, LenProperties DEF TypeOK
<1>6. \A p : Logged(p) => Logged(p)'
  BY <1>5 DEF Logged
<1>7. Logged(u.post)'
  BY <1>5 DEF Logged
<1>8. \A p : Logged(p) => p # u.post
  BY <1>0, <1>4 DEF Logged, OnceOnly
<1>9. ASSUME NEW s \in Servers
      PROVE  /\ Named(w3'[s]) = Named(w3[s]) \cup {u}
             /\ Distinct(w3'[s]) /\ Len(w3'[s]) <= Len(log')
  <2>1. w3[s] \in Seq(Update) /\ Len(w3[s]) \in Nat /\ w3'[s] = Append(w3[s], u)
    BY <1>0, <1>4, QueueTypes, LenProperties
  <2>2. u \notin Named(w3[s]) /\ Distinct(w3[s]) /\ Len(w3[s]) <= Len(log)
    BY <1>0, <1>8 DEF Apart
  <2>3. Len(w3'[s]) = Len(w3[s]) + 1
    BY <1>4, <2>1, AppendProperties
  <2> QED  BY <1>4, <1>5, <2>1, <2>2, <2>3, AppendNamed
<1>10. Apart'
  <2>1. ASSUME NEW s \in Servers
        PROVE  /\ \A v \in Named(w3'[s]) : Logged(v.post)'
               /\ \A v, w \in Named(w3'[s]) : v.post = w.post => v = w
    <3>1. \A v \in Named(w3'[s]) : v \in Named(w3[s]) \/ v = u
      BY <1>9
    <3>2. \A v \in Named(w3[s]) : Logged(v.post) /\ Logged(v.post)' /\ v.post # u.post
      BY <1>0, <1>6, <1>8 DEF Apart
    <3>3. \A v, w \in Named(w3[s]) : v.post = w.post => v = w
      BY <1>0 DEF Apart
    <3> QED  BY <1>7, <3>1, <3>2, <3>3
  <2>2. ASSUME NEW a \in w4
        PROVE  Logged(a.post)' /\ \A v \in Named(w3'[a.from]) : v.post # a.post
    <3>1. a.from \in Servers
      BY <1>0 DEF TypeOK
    <3> QED  BY <1>0, <1>6, <1>8, <1>9, <3>1 DEF Apart
  <2>3. \A a, n \in w4 : a.from = n.from /\ a.post = n.post => a = n
    BY <1>0 DEF Apart
  <2> QED  BY <1>4, <1>9, <2>1, <2>2, <2>3 DEF Apart
<1>15. ASSUME NEW s \in Servers, NEW p, NEW i
       PROVE  /\ Queues(s, p, i)' <=> Queues(s, p, i) \/ (p = m.post /\ i = j)
              /\ Verdict(s, p, i)' <=> Verdict(s, p, i)
  <2>1. Named(w3'[s]) = Named(w3[s]) \cup {u}
    BY <1>9
  <2>2. Queues(s, p, i)' <=> Queues(s, p, i) \/ (p = m.post /\ i = j)
    BY <1>4, <2>1 DEF Queues
  <2>3. Verdict(s, p, i)' <=> Verdict(s, p, i)
    BY <1>4 DEF Verdict
  <2> QED  BY <2>2, <2>3
<1>11. ASSUME NEW i, i # j
       PROVE  Expected(i)' = Expected(i)
  <2>1. ASSUME NEW x \in Servers \X Post
        PROVE  /\ Queues(x[1], x[2], i)' <=> Queues(x[1], x[2], i)
               /\ Verdict(x[1], x[2], i)' <=> Verdict(x[1], x[2], i)
    BY <1>11, <1>15
  <2> QED  BY <2>1 DEF Expected
<1>12. /\ Expected(j)' = Expected(j) \cup (Servers \X {m.post})
       /\ Expected(j) \cap (Servers \X {m.post}) = {}
  <2>1. ASSUME NEW s \in Servers, NEW p \in Post
        PROVE  <<s, p>> \in Expected(j)' <=> <<s, p>> \in Expected(j) \/ p = m.post
    BY <1>15 DEF Expected
  <2>2. ASSUME NEW s \in Servers
        PROVE  <<s, m.post>> \notin Expected(j)
    BY <1>0, <1>4, <1>8 DEF Expected, Queues, Verdict, Apart
  <2>3. Expected(j)' \subseteq Servers \X Post /\ Expected(j) \subseteq Servers \X Post
    BY DEF Expected
  <2> QED  BY <1>3, <2>1, <2>2, <2>3
<1>13. Cardinality(Expected(j)') = Cardinality(Expected(j)) + N
  <2>1. IsFiniteSet(Servers \X {m.post}) /\ Cardinality(Servers \X {m.post}) = N
    <3>1. IsFiniteSet({m.post}) /\ Cardinality({m.post}) = 1
      BY FS_Singleton
    <3>2. /\ IsFiniteSet(Servers \X {m.post})
          /\ Cardinality(Servers \X {m.post}) = Cardinality(Servers) * 1
      BY <3>1, FS_Product, ClientAssumption
    <3> QED  BY <3>2, AtLeastOneServer DEF N
  <2>2. PICK A, B : A = Expected(j) /\ B = Servers \X {m.post}
    OBVIOUS
  <2>3. IsFiniteSet(A) /\ Cardinality(A) \in Nat /\ IsFiniteSet(B) /\ Cardinality(B) = N
    BY <2>1, <2>2, ExpectedFinite
  <2>4. A \cap B = {} /\ Expected(j)' = A \cup B
    BY <1>12, <2>2
  <2>5. Cardinality(A \cup B) = Cardinality(A) + Cardinality(B) - 0
    BY <2>3, <2>4, FS_Union, FS_EmptySet
  <2>6. Cardinality(A \cup B) = Cardinality(A) + N
    BY <2>3, <2>5, AtLeastOneServer
  <2>7. Cardinality(Expected(j)') = Cardinality(A \cup B)
    BY <2>4
  <2> QED  BY <2>2, <2>6, <2>7
<1>14. ASSUME NEW i \in DOMAIN ack_num'
       PROVE  (ack_num'[i] + Cardinality(Expected(i)')) % N = 0
  <2>1. CASE i \in DOMAIN ack_num
    <3>1. ack_num'[i] = ack_num[i] /\ ack_num[i] \in Nat
      BY <1>0, <1>4, <2>1, GrownKeeps
    <3>2. (ack_num[i] + Cardinality(Expected(i))) % N = 0
      BY <1>0, <2>1 DEF Whole
    <3>3. CASE i # j
      BY <1>11, <3>1, <3>2, <3>3
    <3>4. CASE i = j
      <4> DEFINE x == ack_num[i] + Cardinality(Expected(i))
                 y == ack_num'[i] + Cardinality(Expected(i)')
      <4>1. x \in Nat /\ y \in Nat /\ y = x + N
        BY <1>13, <3>1, <3>4, ExpectedFinite, AtLeastOneServer
      <4> HIDE DEF x, y
      <4>2. y % N = x % N
        BY <4>1, OneRequestMore, AtLeastOneServer
      <4> QED  BY <3>2, <4>2 DEF x, y
    <3> QED  BY <3>3, <3>4
  <2>2. CASE i \notin DOMAIN ack_num
    <3>1. i = j /\ ack_num'[i] = 0
      BY <1>0, <1>2, <1>4, <2>2, GrownKeeps
    <3>2. Expected(j) = {}
      <4> SUFFICES ASSUME NEW s \in Servers, NEW p \in Post
                   PROVE  ~Queues(s, p, j) /\ ~Verdict(s, p, j)
        BY DEF Expected
      <4>1. ~Queues(s, p, j)
        BY <1>0, <2>2, <3>1, QueueTypes DEF Queues
      <4>2. ~Verdict(s, p, j)
        BY <1>0, <2>2, <3>1 DEF Verdict, TypeOK
      <4> QED  BY <4>1, <4>2
    <3>3. Cardinality(Expected(i)') = N
      BY <1>13, <3>1, <3>2, FS_EmptySet, AtLeastOneServer
    <3>4. N % N = 0 % N /\ 0 % N = 0
      BY OneRequestMore, AtLeastOneServer
    <3> QED  BY <3>1, <3>3, <3>4, AtLeastOneServer
  <2> QED  BY <2>1, <2>2
<1> QED  BY <1>1, <1>10, <1>14 DEF SlotInv, Whole

(* UPDATE turns one that is queued into a verdict.                            *)
LEMMA UpdateExpects ==
    ASSUME SlotInv, NEW s \in Servers, NEW k \in DOMAIN w3[s], UpdateBackup(s, k)
    PROVE  SlotInv'
<1>0. TypeOK /\ OnceOnly /\ Apart /\ Whole
  BY DEF SlotInv
<1>1. TypeOK' /\ OnceOnly'
  <2>1. \A d \in Clients : Waiting(d)' => Waiting(d) /\ call'[d] = call[d]
    BY DEF UpdateBackup, client, Waiting
  <2> QED  BY <1>0, <2>1, UpdateType, OnceKept DEF UpdateBackup, client
<1>2. PICK u, m :
        /\ u = w3[s][k] /\ m.req_num = u.req_num /\ m.from = s /\ m.post = u.post
        /\ w4' = w4 \cup {m} /\ w3' = [w3 EXCEPT ![s] = RemoveAt(@, k)]
        /\ UNCHANGED <<ack_num, log>>
  <2> DEFINE u == w3[s][k]
             m == [req_num |-> u.req_num, ok |-> Accepts(articles[s], u), origin |-> u.origin,
                   from |-> s, post |-> u.post]
  <2>1. /\ w4' = w4 \cup {m} /\ w3' = [w3 EXCEPT ![s] = RemoveAt(@, k)]
        /\ UNCHANGED <<ack_num, log>>
    BY DEF UpdateBackup
  <2>2. m.req_num = u.req_num /\ m.from = s /\ m.post = u.post
    OBVIOUS
  <2> QED  BY <2>1, <2>2
<1>3. /\ u \in Named(w3[s]) /\ u \in Update /\ u.post \in Post
      /\ w3[s] \in Seq(Update) /\ w3'[s] = RemoveAt(w3[s], k)
      /\ \A t \in Servers \ {s} : w3'[t] = w3[t]
  <2>1. u \in Named(w3[s])
    BY <1>2 DEF Named
  <2>2. u \in Update /\ w3[s] \in Seq(Update)
    BY <1>0, <2>1, QueueTypes
  <2>3. u.post \in Post
    BY <2>2 DEF Update
  <2>4. w3 \in [Servers -> Seq(Update)]
    BY <1>0 DEF TypeOK
  <2> QED  BY <1>2, <2>1, <2>2, <2>3, <2>4
<1>4. /\ Named(w3'[s]) = Named(w3[s]) \ {u} /\ Distinct(w3'[s])
      /\ Len(w3'[s]) <= Len(log)
  <2>1. Distinct(w3[s]) /\ Len(w3[s]) <= Len(log)
    BY <1>0 DEF Apart
  <2>2. Len(w3'[s]) = Len(w3[s]) - 1 /\ Len(w3[s]) \in Nat /\ Len(log) \in Nat
    BY <1>0, <1>3, RemoveAtType, LenProperties DEF TypeOK
  <2> QED  BY <1>2, <1>3, <2>1, <2>2, RemoveNamed
<1>5. Apart'
  <2>1. ASSUME NEW t \in Servers
        PROVE  /\ Distinct(w3'[t]) /\ Len(w3'[t]) <= Len(log)
               /\ Named(w3'[t]) \subseteq Named(w3[t])
               /\ \A v \in Named(w3'[t]) : Logged(v.post)'
               /\ \A v, w \in Named(w3'[t]) : v.post = w.post => v = w
    <3>1. /\ Distinct(w3'[t]) /\ Len(w3'[t]) <= Len(log)
          /\ Named(w3'[t]) \subseteq Named(w3[t])
      BY <1>0, <1>3, <1>4 DEF Apart
    <3> QED  BY <1>0, <1>2, <3>1 DEF Apart, Logged
  <2>2. ASSUME NEW a \in w4'
        PROVE  /\ Logged(a.post)'
               /\ \A v \in Named(w3'[a.from]) : v.post # a.post
    <3>1. CASE a \in w4
      <4>1. a.from \in Servers
        BY <1>0, <3>1 DEF TypeOK
      <4> QED  BY <1>0, <1>2, <2>1, <3>1, <4>1 DEF Apart, Logged
    <3>2. CASE a = m
      <4>1. \A v \in Named(w3'[s]) : v.post # u.post
        BY <1>0, <1>3, <1>4 DEF Apart
      <4> QED  BY <1>0, <1>2, <1>3, <3>2, <4>1 DEF Apart, Logged
    <3> QED  BY <1>2, <3>1, <3>2
  <2>3. \A a \in w4 : a.from = s => a.post # u.post
    BY <1>0, <1>3 DEF Apart
  <2>4. \A a, n \in w4' : a.from = n.from /\ a.post = n.post => a = n
    BY <1>0, <1>2, <2>3 DEF Apart
  <2> QED  BY <1>2, <2>1, <2>2, <2>4 DEF Apart
<1>6. ASSUME NEW i
      PROVE  Expected(i)' = Expected(i)
  <2>1. ASSUME NEW t \in Servers, NEW p \in Post
        PROVE  Queues(t, p, i)' \/ Verdict(t, p, i)' <=> Queues(t, p, i) \/ Verdict(t, p, i)
    <3>1. CASE t = s
      <4>1. Queues(s, p, i) <=> Queues(s, p, i)' \/ (u.post = p /\ u.req_num = i)
        BY <1>3, <1>4 DEF Queues
      <4>2. Verdict(s, p, i)' <=> Verdict(s, p, i) \/ (u.post = p /\ u.req_num = i)
        BY <1>2 DEF Verdict
      <4> QED  BY <3>1, <4>1, <4>2
    <3>2. CASE t # s
      BY <1>2, <1>3, <3>2 DEF Queues, Verdict
    <3> QED  BY <3>1, <3>2
  <2> QED  BY <2>1 DEF Expected
<1>7. Whole'
  BY <1>0, <1>2, <1>6 DEF Whole
<1> QED  BY <1>1, <1>5, <1>7 DEF SlotInv

(* ACKUP counts one that is expected, and takes N off when the count is full.  *)
LEMMA AckExpects ==
    ASSUME SlotInv, NEW m \in w4, Ack(m)
    PROVE  SlotInv'
<1>0. TypeOK /\ OnceOnly /\ Apart /\ Whole
  BY DEF SlotInv
<1>1. TypeOK' /\ OnceOnly'
  <2>1. \A d \in Clients : Waiting(d)' => Waiting(d) /\ call'[d] = call[d]
    BY DEF Ack, client, Waiting
  <2> QED  BY <1>0, <2>1, AckType, OnceKept DEF Ack, client
<1>2. PICK j : j = m.req_num
  OBVIOUS
<1>3. /\ j \in DOMAIN ack_num /\ m.from \in Servers /\ m.post \in Post
      /\ ack_num[j] \in 0..(N - 1) /\ DOMAIN ack_num' = DOMAIN ack_num
      /\ ack_num'[j] = IF ack_num[j] + 1 = N THEN 0 ELSE ack_num[j] + 1
      /\ \A i \in DOMAIN ack_num : ack_num[i] \in Nat /\ (i # j => ack_num'[i] = ack_num[i])
  <2>1. ack_num \in Seq(0..(N - 1)) /\ j \in DOMAIN ack_num
    BY <1>0, <1>2 DEF TypeOK
  <2>2. \A i \in DOMAIN ack_num : ack_num[i] \in 0..(N - 1)
    BY <2>1, ElementOfSeq, LenProperties
  <2>3. ack_num' = [ack_num EXCEPT ![j] = Counted(m)]
    BY <1>2 DEF Ack
  <2>4. Counted(m) = IF ack_num[j] + 1 = N THEN 0 ELSE ack_num[j] + 1
    BY <1>2 DEF Counted, Complete
  <2> QED  BY <1>0, <2>1, <2>2, <2>3, <2>4, AtLeastOneServer DEF TypeOK
<1>4. w4' = w4 \ {m} /\ UNCHANGED <<w3, log>>
  BY DEF Ack
<1>5. Apart'
  BY <1>0, <1>4 DEF Apart, Logged
<1>6. \A i : i # j => Expected(i)' = Expected(i)
  BY <1>2, <1>4 DEF Expected, Queues, Verdict
<1>7. <<m.from, m.post>> \in Expected(j) /\ Expected(j)' = Expected(j) \ {<<m.from, m.post>>}
  <2>1. <<m.from, m.post>> \in Expected(j)
    BY <1>2, <1>3 DEF Expected, Verdict
  <2>2. ASSUME NEW s \in Servers, NEW p \in Post
        PROVE  <<s, p>> \in Expected(j)' <=>
                 <<s, p>> \in Expected(j) /\ ~(s = m.from /\ p = m.post)
    <3>1. s = m.from /\ p = m.post => ~Queues(s, p, j) /\ ~Verdict(s, p, j)'
      BY <1>0, <1>4 DEF Apart, Queues, Verdict
    <3>2. ~(s = m.from /\ p = m.post) => (Verdict(s, p, j)' <=> Verdict(s, p, j))
      BY <1>4 DEF Verdict
    <3>3. Queues(s, p, j)' <=> Queues(s, p, j)
      BY <1>4 DEF Queues
    <3> QED  BY <3>1, <3>2, <3>3 DEF Expected
  <2>3. Expected(j)' \subseteq Servers \X Post /\ Expected(j) \subseteq Servers \X Post
    BY DEF Expected
  <2> QED  BY <2>1, <2>2, <2>3
<1>8. /\ Cardinality(Expected(j)) \in Nat
      /\ Cardinality(Expected(j)') \in Nat
      /\ Cardinality(Expected(j)') = Cardinality(Expected(j)) - 1
  <2>1. PICK A, x : A = Expected(j) /\ x = <<m.from, m.post>>
    OBVIOUS
  <2>2. /\ IsFiniteSet(A) /\ Cardinality(A) \in Nat /\ x \in A /\ Expected(j)' = A \ {x}
    BY <1>7, <2>1, ExpectedFinite
  <2>3. IsFiniteSet(A \ {x}) /\ Cardinality(A \ {x}) = Cardinality(A) - 1
    BY <2>2, FS_RemoveElement
  <2>4. Cardinality(A \ {x}) \in Nat
    BY <2>3, FS_CardinalityType
  <2> QED  BY <2>1, <2>2, <2>3, <2>4
<1>9. Whole'
  <2> SUFFICES ASSUME NEW i \in DOMAIN ack_num
               PROVE  (ack_num'[i] + Cardinality(Expected(i)')) % N = 0
    BY <1>3 DEF Whole
  <2>1. (ack_num[i] + Cardinality(Expected(i))) % N = 0
    BY <1>0 DEF Whole
  <2>2. CASE i # j
    BY <1>3, <1>6, <2>1, <2>2
  <2>3. CASE i = j
    <3> DEFINE x == ack_num[i] + Cardinality(Expected(i))
               y == ack_num'[i] + Cardinality(Expected(i)')
    <3>1. x \in Nat /\ y \in Nat /\ (x = y \/ x = y + N)
      BY <1>3, <1>8, <2>3, AtLeastOneServer
    <3> HIDE DEF x, y
    <3>2. y % N = x % N
      BY <3>1, OneRequestMore, AtLeastOneServer
    <3> QED  BY <2>1, <3>2 DEF x, y
  <2> QED  BY <2>2, <2>3
<1> QED  BY <1>1, <1>5, <1>9 DEF SlotInv

(* Each expected acknowledgement is one W4 or one update in a queue.          *)
LEMMA ExpectedInTransit ==
    ASSUME TypeOK, Apart, NEW i
    PROVE  InTransit(i) = Cardinality(Expected(i))
<1> DEFINE A == {m \in w4 : m.req_num = i}
           B == {p \in Servers \X DOMAIN log :
                   /\ p[2] \in DOMAIN w3[p[1]]
                   /\ w3[p[1]][p[2]].req_num = i}
           C == {x \in Servers \X Post : Verdict(x[1], x[2], i)}
           D == {x \in Servers \X Post : Queues(x[1], x[2], i)}
           f == [m \in A |-> <<m.from, m.post>>]
           g == [p \in B |-> <<p[1], w3[p[1]][p[2]].post>>]
<1>1. /\ IsFiniteSet(C) /\ IsFiniteSet(D)
      /\ C \cup D = Expected(i) /\ C \cap D = {}
  <2>1. C \cup D = Expected(i)
    BY DEF Expected
  <2>2. C \cap D = {}
    BY DEF Apart, Queues, Verdict
  <2>3. C \subseteq Expected(i) /\ D \subseteq Expected(i)
    BY <2>1
  <2> HIDE DEF C, D
  <2> QED  BY <2>1, <2>2, <2>3, ExpectedFinite, FS_Subset
<1>2. f \in Injection(A, C) /\ f \in Surjection(A, C)
  <2>1. f \in [A -> C]
    BY DEF TypeOK, Verdict
  <2>2. \A m, n \in A : f[m] = f[n] => m = n
    BY DEF Apart
  <2>3. ASSUME NEW x \in C
        PROVE  \E m \in A : f[m] = x
    BY DEF Verdict
  <2> QED  BY <2>1, <2>2, <2>3 DEF Injection, IsInjective, Surjection
<1>3. g \in Injection(B, D) /\ g \in Surjection(B, D)
  <2>1. ASSUME NEW p \in B
        PROVE  /\ p[1] \in Servers /\ p = <<p[1], p[2]>> /\ p[2] \in DOMAIN w3[p[1]]
               /\ w3[p[1]][p[2]] \in Named(w3[p[1]]) /\ w3[p[1]][p[2]].req_num = i
               /\ w3[p[1]][p[2]].post \in Post
    <3>1. /\ p[1] \in Servers /\ p = <<p[1], p[2]>> /\ p[2] \in DOMAIN w3[p[1]]
          /\ w3[p[1]][p[2]].req_num = i
      OBVIOUS
    <3>2. w3[p[1]][p[2]] \in Named(w3[p[1]])
      BY <3>1 DEF Named
    <3>3. w3[p[1]][p[2]] \in Update
      BY <3>1, <3>2, QueueTypes
    <3> HIDE DEF B
    <3> QED  BY <3>1, <3>2, <3>3 DEF Update
  <2>2. g \in [B -> D]
    BY <2>1 DEF Queues
  <2>3. ASSUME NEW p \in B, NEW q \in B, g[p] = g[q]
        PROVE  p = q
    <3> DEFINE s == p[1]
    <3>1. /\ p[1] = q[1] /\ w3[s][p[2]].post = w3[s][q[2]].post
      BY <2>3
    <3>2. w3[s][p[2]] = w3[s][q[2]]
      BY <2>1, <3>1 DEF Apart
    <3>3. p[2] = q[2]
      BY <2>1, <3>1, <3>2 DEF Apart, Distinct
    <3> QED  BY <2>1, <3>1, <3>3
  <2>4. ASSUME NEW x \in D
        PROVE  \E p \in B : g[p] = x
    <3> DEFINE s == x[1]
    <3>1. s \in Servers /\ x[2] \in Post /\ x = <<s, x[2]>> /\ Queues(s, x[2], i)
      OBVIOUS
    <3>2. PICK k \in DOMAIN w3[s] : w3[s][k].post = x[2] /\ w3[s][k].req_num = i
      BY <3>1 DEF Queues, Named
    <3>3. k \in DOMAIN log
      <4>1. /\ DOMAIN w3[s] = 1..Len(w3[s]) /\ DOMAIN log = 1..Len(log)
            /\ Len(w3[s]) \in Nat /\ Len(log) \in Nat
        BY <3>1, QueueTypes, LenProperties DEF TypeOK
      <4>2. Len(w3[s]) <= Len(log)
        BY <3>1 DEF Apart
      <4> QED  BY <4>1, <4>2
    <3>4. <<s, k>> \in B /\ g[<<s, k>>] = x
      BY <3>1, <3>2, <3>3
    <3> QED  BY <3>4
  <2> QED  BY <2>2, <2>3, <2>4 DEF Injection, IsInjective, Surjection
<1> HIDE DEF A, B, C, D, f, g
<1>4. Cardinality(A) = Cardinality(C) /\ Cardinality(B) = Cardinality(D)
  BY <1>1, <1>2, <1>3, FS_Injection
<1>5. Cardinality(C \cup D) = Cardinality(C) + Cardinality(D)
  <2>1. Cardinality(C \cup D) = Cardinality(C) + Cardinality(D) - 0
    BY <1>1, FS_Union, FS_EmptySet
  <2>2. Cardinality(C) \in Nat /\ Cardinality(D) \in Nat
    BY <1>1, FS_CardinalityType
  <2> QED  BY <2>1, <2>2
<1>6. InTransit(i) = Cardinality(A) + Cardinality(B)
  BY DEF InTransit, A, B
<1> QED  BY <1>1, <1>4, <1>5, <1>6

(* Steps on which no acknowledgement is sent or counted.                      *)
LEMMA ExpectsKept ==
    ASSUME SlotInv, [Next]_vars, UNCHANGED <<w3, w4, ack_num, log>>
    PROVE  SlotInv'
<1>1. TypeOK' /\ OnceOnly'
  BY TypeNext, OnceNext DEF SlotInv
<1>2. Apart'
  BY DEF SlotInv, Apart, Logged
<1>3. Whole'
  BY DEF SlotInv, Whole, Expected, Queues, Verdict
<1> QED  BY <1>1, <1>2, <1>3 DEF SlotInv

(* Requests share a slot when forward_update finds the same zero in ack_num,   *)
(* but every slot counts whole requests: a count and the acknowledgements that *)
(* are still to come for it add up to a multiple of SIPs.size(), in whatever   *)
(* order datagrams come and whichever replies are refused.                     *)
THEOREM SlotsBalanced == Spec => []SlotBalance
<1>1. Init => SlotInv
  <2> SUFFICES ASSUME Init
               PROVE  SlotInv
    OBVIOUS
  <2>1. Named(<<>>) = {} /\ Distinct(<<>>) /\ Len(<<>>) = 0
    BY DEF Named, Distinct
  <2>2. \A s \in Servers : w3[s] = <<>>
    BY DEF Init
  <2>3. Apart
    BY <2>1, <2>2 DEF Apart, Init
  <2>4. ASSUME NEW i \in DOMAIN ack_num
        PROVE  (ack_num[i] + Cardinality(Expected(i))) % N = 0
    <3>1. ack_num[i] = 0
      BY DEF Init
    <3>2. Expected(i) = {}
      BY <2>1, <2>2 DEF Expected, Queues, Verdict, Init
    <3>3. 0 % N = 0
      BY AtLeastOneServer
    <3> QED  BY <3>1, <3>2, <3>3, FS_EmptySet
  <2> QED  BY <2>3, <2>4, InitType, LogInit DEF SlotInv, Whole
<1>2. SlotInv /\ [Next]_vars => SlotInv'
  <2> SUFFICES ASSUME SlotInv, [Next]_vars
               PROVE  SlotInv'
    OBVIOUS
  <2>1. CASE ClientStep
    BY <2>1, ExpectsKept DEF ClientStep, server, net
  <2>2. CASE ListenStep
    BY <2>2, ExpectsKept DEF ListenStep, Post_handler, Reply_handler, ForwardW2,
                             Read_handler, ReceiveW5, DropW5, net
  <2>3. CASE PrimaryPortStep
    BY <2>3, ForwardExpects, UpdateExpects, AckExpects DEF PrimaryPortStep
  <2>4. CASE UNCHANGED vars
    BY <2>4, ExpectsKept DEF vars, server, net
  <2> QED  BY <2>1, <2>2, <2>3, <2>4 DEF Next
<1>3. SlotInv => SlotBalance
  BY ExpectedInTransit DEF SlotInv, Whole, SlotBalance
<1> QED  BY <1>1, <1>2, <1>3, PTL DEF Spec

----------------------------------------------------------------------------
(* Replicas are one state machine: with W3 delivered in order every server     *)
(* replays the primary's broadcasts, a refused reply leaving its vector alone. *)
(* Reads sort a vector in place, so two servers may hold the same articles in  *)
(* different orders and append to those; what they show stays the same.        *)

Applied(a, u) == IF Accepts(a, u) THEN Stored(a, u) ELSE a

LEMMA AppliedType ==
    ASSUME NEW a \in Seq(Article), NEW u \in Update
    PROVE  Applied(a, u) \in Seq(Article)
BY StoredType DEF Applied

(* Sorting a vector before an update is applied does not change what is shown  *)
(* after it.                                                                   *)
LEMMA SortBeforeApplied ==
    ASSUME NEW a \in Seq(Article), NEW u \in Update
    PROVE  SortByID(Applied(SortByID(a), u)) = SortByID(Applied(a, u))
<1>1. PICK c : c = SortByID(a)
  OBVIOUS
<1>2. c \in Seq(Article) /\ SortByID(c) = c
  BY <1>1, ArticleIDs, SortType, SortTwice
<1>3. Accepts(c, u) <=> Accepts(a, u)
  BY <1>1, ArticleIDs, SortLooksUp
<1>4. CASE Accepts(a, u)
  <2>1. PICK x : x = [ID |-> u.articleID, hierachy |-> Hierachy(a, u), post |-> u.post]
    OBVIOUS
  <2>2. Hierachy(c, u) = Hierachy(a, u) /\ Hierachy(a, u) \in Nat
    BY <1>1, <1>4, ArticleIDs, SortLooksUp, HierachyType
  <2>3. x \in Article
    BY <2>1, <2>2 DEF Article, Update
  <2>4. Applied(a, u) = Append(a, x) /\ Applied(c, u) = Append(c, x)
    BY <1>3, <1>4, <2>1, <2>2 DEF Applied, Stored
  <2> QED  BY <1>1, <2>3, <2>4, ArticleIDs, SortAppended
<1>5. CASE ~Accepts(a, u)
  BY <1>1, <1>2, <1>3, <1>5 DEF Applied
<1> QED  BY <1>4, <1>5

LEMMA SameAfterApplied ==
    ASSUME NEW a \in Seq(Article), NEW b \in Seq(Article), NEW u \in Update,
           SortByID(a) = SortByID(b)
    PROVE  SortByID(Applied(a, u)) = SortByID(Applied(b, u))
<1>1. SortByID(Applied(SortByID(a), u)) = SortByID(Applied(a, u))
  BY SortBeforeApplied
<1>2. SortByID(Applied(SortByID(b), u)) = SortByID(Applied(b, u))
  BY SortBeforeApplied
<1> QED  BY <1>1, <1>2

(* h lists the boards that the broadcasts up to each one make of an empty one. *)
Replays(h) ==
    /\ h \in [0..Len(log) -> Seq(Article)]
    /\ h[0] = <<>>
    /\ \A k \in 1..Len(log) : h[k] = Applied(h[k - 1], log[k])

(* Server s shows the board before the broadcasts still queued for it.         *)
Follows(s, h) ==
    /\ Len(w3[s]) <= Len(log)
    /\ \A k \in 1..Len(w3[s]) : w3[s][k] = log[Len(log) - Len(w3[s]) + k]
    /\ SortByID(articles[s]) = SortByID(h[Len(log) - Len(w3[s])])

ReplayInv == \E h : Replays(h) /\ \A s \in Servers : Follows(s, h)

LEMMA ReplayInit == Init => ReplayInv
<1> SUFFICES ASSUME Init  PROVE ReplayInv
  OBVIOUS
<1> DEFINE h == [k \in {0} |-> <<>>]
<1>1. /\ log = <<>> /\ Len(log) = 0 /\ 0..0 = {0} /\ 1..0 = {}
      /\ \A s \in Servers : w3[s] = <<>> /\ Len(w3[s]) = 0 /\ articles[s] = <<>>
  BY DEF Init
<1>2. h \in [{0} -> Seq(Article)] /\ h[0] = <<>>
  BY EmptySeq
<1> HIDE DEF h
<1>3. Replays(h)
  BY <1>1, <1>2 DEF Replays
<1>4. ASSUME NEW s \in Servers  PROVE Follows(s, h)
  BY <1>1, <1>2 DEF Follows
<1> QED  BY <1>3, <1>4 DEF ReplayInv

(* A step that neither broadcasts nor applies may sort vectors, no more.       *)
LEMMA ReplayKept ==
    ASSUME ReplayInv, UNCHANGED <<w3, log>>,
           \A s \in Servers : SortByID(articles'[s]) = SortByID(articles[s])
    PROVE  ReplayInv'
<1>1. PICK h : Replays(h) /\ \A s \in Servers : Follows(s, h)
  BY DEF ReplayInv
<1>2. Replays(h)'
  BY <1>1 DEF Replays
<1>3. \A s \in Servers : Follows(s, h)'
  BY <1>1 DEF Follows
<1> QED  BY <1>2, <1>3 DEF ReplayInv

LEMMA ReplayRead ==
    ASSUME TypeOK, ReplayInv, NEW c \in Clients, NEW s \in Servers, Read_handler(c, s)
    PROVE  ReplayInv'
<1>1. UNCHANGED <<w3, log>>
  BY DEF Read_handler, net
<1>2. ASSUME NEW t \in Servers
      PROVE  SortByID(articles'[t]) = SortByID(articles[t])
  <2>1. articles[t] \in Seq(Article)
    BY DEF TypeOK
  <2>2. articles'[t] = IF t = s THEN SortByID(articles[s]) ELSE articles[t]
    BY DEF Read_handler, TypeOK
  <2> QED  BY <2>1, <2>2, ArticleIDs, SortTwice
<1> QED  BY <1>1, <1>2, ReplayKept

(* The primary's next broadcast makes one more board.                          *)
LEMMA ReplayForward ==
    ASSUME TypeOK, ReplayInv, NEW m \in w2, Forward(m)
    PROVE  TypeOK' => ReplayInv'
<1> SUFFICES ASSUME TypeOK'  PROVE ReplayInv'
  OBVIOUS
<1>1. PICK h : Replays(h) /\ \A s \in Servers : Follows(s, h)
  BY DEF ReplayInv
<1>2. PICK u, n : /\ n = Len(log) /\ log' = Append(log, u)
                  /\ w3' = [s \in Servers |-> Append(w3[s], u)]
                  /\ articles' = articles
  BY DEF Forward
<1>3. /\ n \in Nat /\ Len(log') = n + 1 /\ log'[n + 1] = u
      /\ \A k \in 1..n : log'[k] = log[k]
      /\ u \in Update
  <2>1. log \in Seq(Update) /\ log' \in Seq(Update)
    BY DEF TypeOK
  <2>2. n \in Nat /\ Len(log') = n + 1 /\ log'[n + 1] = u
        /\ \A k \in 1..n : log'[k] = log[k]
    BY <1>2, <2>1, LenProperties
  <2>3. n + 1 \in 1..Len(log')
    BY <2>2
  <2> QED  BY <2>1, <2>2, <2>3, ElementOfSeq
<1>4. /\ h \in [0..n -> Seq(Article)] /\ h[0] = <<>>
      /\ \A k \in 1..n : h[k] = Applied(h[k - 1], log[k])
  BY <1>1, <1>2 DEF Replays
<1> DEFINE g == [k \in 0..(n + 1) |-> IF k = n + 1 THEN Applied(h[n], u) ELSE h[k]]
<1>5. /\ g \in [0..(n + 1) -> Seq(Article)]
      /\ g[n + 1] = Applied(h[n], u)
      /\ \A k \in 0..n : g[k] = h[k]
  <2>1. Applied(h[n], u) \in Seq(Article)
    BY <1>3, <1>4, AppliedType
  <2>2. \A k \in 0..(n + 1) : k = n + 1 \/ k \in 0..n
    BY <1>3
  <2>3. n + 1 \in 0..(n + 1) /\ \A k \in 0..n : k \in 0..(n + 1) /\ k # n + 1
    BY <1>3
  <2> QED  BY <1>4, <2>1, <2>2, <2>3
<1> HIDE DEF g
<1>6. Replays(g)'
  <2>1. g[0] = <<>>
    <3>1. 0 \in 0..n
      BY <1>3
    <3>2. g[0] = h[0]
      BY <1>5, <3>1
    <3> QED  BY <1>4, <3>2
  <2>2. ASSUME NEW k \in 1..(n + 1)
        PROVE  g[k] = Applied(g[k - 1], log'[k])
    <3>1. CASE k = n + 1
      <4>1. k - 1 = n /\ n \in 0..n
        BY <1>3, <3>1
      <4> QED  BY <1>3, <1>5, <3>1, <4>1
    <3>2. CASE k \in 1..n
      <4>1. k \in 0..n /\ k - 1 \in 0..n
        BY <1>3, <3>2
      <4> QED  BY <1>3, <1>4, <1>5, <3>2, <4>1
    <3> QED  BY <1>3, <3>1, <3>2
  <2> QED  BY <1>3, <1>5, <2>1, <2>2 DEF Replays
<1>7. ASSUME NEW s \in Servers  PROVE Follows(s, g)'
  <2>1. PICK b : b = Len(w3[s])
    OBVIOUS
  <2>2. /\ b \in Nat /\ b <= n
        /\ \A k \in 1..b : w3[s][k] = log[n - b + k]
        /\ SortByID(articles[s]) = SortByID(h[n - b])
    BY <1>1, <1>2, <2>1, LenProperties DEF Follows, TypeOK
  <2>3. /\ Len(w3'[s]) = b + 1 /\ w3'[s][b + 1] = u
        /\ \A k \in 1..b : w3'[s][k] = w3[s][k]
    BY <1>2, <2>1, LenProperties DEF TypeOK
  <2>4. b + 1 <= n + 1 /\ (n + 1) - (b + 1) = n - b /\ n - b \in 0..n
    BY <1>3, <2>2
  <2>5. ASSUME NEW k \in 1..(b + 1)
        PROVE  w3'[s][k] = log'[(n - b) + k]
    <3>1. CASE k = b + 1
      <4>1. (n - b) + k = n + 1
        BY <1>3, <2>2, <3>1
      <4> QED  BY <1>3, <2>3, <3>1, <4>1
    <3>2. CASE k \in 1..b
      <4>1. (n - b) + k \in 1..n
        BY <1>3, <2>2, <3>2
      <4> QED  BY <1>3, <2>2, <2>3, <3>2, <4>1
    <3> QED  BY <2>2, <3>1, <3>2
  <2>6. SortByID(articles'[s]) = SortByID(g[n - b])
    BY <1>2, <1>5, <2>2, <2>4
  <2> QED  BY <1>3, <2>3, <2>4, <2>5, <2>6 DEF Follows
<1> QED  BY <1>6, <1>7 DEF ReplayInv

(* A server applies the first broadcast of its queue.                          *)
LEMMA ReplayUpdate ==
    ASSUME TypeOK, ReplayInv, Ordered, NEW s \in Servers, NEW i \in DOMAIN w3[s],
           UpdateBackup(s, i)
    PROVE  ReplayInv'
<1>1. PICK h : Replays(h) /\ \A t \in Servers : Follows(t, h)
  BY DEF ReplayInv
<1>2. PICK a, q, u, n, b : /\ a = articles[s] /\ q = w3[s] /\ u = w3[s][1]
                           /\ n = Len(log) /\ b = Len(w3[s])
  OBVIOUS
<1>3. /\ a \in Seq(Article) /\ q \in Seq(Update) /\ log \in Seq(Update) /\ n \in Nat /\ b \in Nat
      /\ i = 1 /\ 1 \in DOMAIN q /\ DOMAIN q = 1..b /\ b # 0 /\ u \in Update
  <2>1. a \in Seq(Article) /\ q \in Seq(Update) /\ log \in Seq(Update)
    BY <1>2 DEF TypeOK
  <2>2. i = 1 /\ 1 \in DOMAIN q
    BY <1>2 DEF UpdateBackup, Receivable
  <2>3. n \in Nat /\ b \in Nat /\ DOMAIN q = 1..b
    BY <1>2, <2>1, LenProperties
  <2> QED  BY <1>2, <2>1, <2>2, <2>3, ElementOfSeq
<1>4. /\ log' = log
      /\ w3' = [w3 EXCEPT ![s] = RemoveAt(q, 1)]
      /\ articles' = [articles EXCEPT ![s] = Applied(a, u)]
  BY <1>2, <1>3 DEF UpdateBackup, Applied
<1>5. Replays(h)'
  BY <1>1, <1>4 DEF Replays
<1>6. Follows(s, h)'
  <2>1. /\ b <= n
        /\ \A k \in 1..b : q[k] = log[n - b + k]
        /\ SortByID(a) = SortByID(h[n - b])
    BY <1>1, <1>2 DEF Follows
  <2>2. n - b \in 0..n /\ n - b + 1 \in 1..n /\ (n - b + 1) - 1 = n - b /\ n - (b - 1) = n - b + 1
        /\ 1 \in 1..b
    BY <1>3, <2>1
  <2>3. h[n - b] \in Seq(Article) /\ h[n - b + 1] = Applied(h[n - b], u)
    <3>1. u = log[n - b + 1]
      BY <1>2, <2>1, <2>2
    <3> QED  BY <1>1, <1>2, <2>2, <3>1 DEF Replays
  <2>4. SortByID(Applied(a, u)) = SortByID(h[n - b + 1])
    BY <1>3, <2>1, <2>3, SameAfterApplied
  <2>5. PICK r : r = RemoveAt(q, 1)
    OBVIOUS
  <2>6. /\ r \in Seq(Update) /\ Len(r) = b - 1 /\ DOMAIN r = 1..(b - 1)
        /\ \A k \in DOMAIN r : r[k] = IF k < 1 THEN q[k] ELSE q[k + 1]
    BY <1>2, <1>3, <2>5, RemoveAtType, LenProperties
  <2>7. ASSUME NEW k \in 1..(b - 1)
        PROVE  r[k] = log[n - (b - 1) + k]
    <3>1. k \in DOMAIN r /\ ~(k < 1) /\ k + 1 \in 1..b /\ r[k] = q[k + 1]
      <4>1. k \in Nat /\ ~(k < 1) /\ k + 1 \in 1..b
        BY <1>3
      <4>2. k \in DOMAIN r
        BY <2>6
      <4> QED  BY <2>6, <4>1, <4>2
    <3>2. n - b + (k + 1) = n - (b - 1) + k
      BY <1>3
    <3> QED  BY <2>1, <3>1, <3>2
  <2>8. w3'[s] = r /\ articles'[s] = Applied(a, u)
    BY <1>4, <2>5 DEF TypeOK
  <2>9. b - 1 <= n
    BY <1>3, <2>1
  <2> QED  BY <1>2, <1>4, <2>2, <2>4, <2>6, <2>7, <2>8, <2>9 DEF Follows
<1>7. ASSUME NEW t \in Servers \ {s}  PROVE Follows(t, h)'
  <2>1. w3'[t] = w3[t] /\ articles'[t] = articles[t]
    BY <1>4 DEF TypeOK
  <2> QED  BY <1>1, <1>4, <2>1 DEF Follows
<1> QED  BY <1>5, <1>6, <1>7 DEF ReplayInv

LEMMA ReplayNext == TypeOK /\ ReplayInv /\ Ordered /\ [Next]_vars => ReplayInv'
<1> SUFFICES ASSUME TypeOK, ReplayInv, Ordered, [Next]_vars  PROVE ReplayInv'
  OBVIOUS
<1>1. CASE ClientStep
  BY <1>1, ReplayKept DEF ClientStep, server, net
<1>2. CASE ListenStep
  BY <1>2, ReplayKept, ReplayRead DEF ListenStep, Post_handler, Reply_handler, ForwardW2,
                                      ReceiveW5, DropW5
<1>3. CASE PrimaryPortStep
  BY <1>3, ReplayKept, ReplayForward, ReplayUpdate, TypeNext DEF PrimaryPortStep, Ack
<1>4. CASE UNCHANGED vars
  BY <1>4, ReplayKept DEF vars, server, net
<1> QED  BY <1>1, <1>2, <1>3, <1>4 DEF Next

(* With W3 delivered in order, two servers that have handled as many updates   *)
(* show the same board, hierachies included, whatever reads have sorted their  *)
(* vectors in between, whichever replies were refused and although a refusal   *)
(* makes ACKUP revoke an ID, so that two articles may carry the same one.      *)
THEOREM ProgressEqual ==
    ASSUME Ordered
    PROVE  Spec => []EqualProgress
<1>1. ReplayInv => EqualProgress
  <2> SUFFICES ASSUME NEW h, \A s \in Servers : Follows(s, h),
                      NEW s \in Servers, NEW t \in Servers, Len(w3[s]) = Len(w3[t])
               PROVE  SortByID(articles[s]) = SortByID(articles[t])
    BY DEF ReplayInv, EqualProgress
  <2> QED  BY DEF Follows
<1> QED  BY <1>1, ReplayInit, ReplayNext, TypeCorrect, PTL DEF Spec

----------------------------------------------------------------------------
(* The order of a read.  A revoked ID may be given to a second article, so IDs *)
(* alone do not order the articles: the stable sort leaves those of one ID in  *)
(* the order in which they were appended, which is that of the broadcasts.     *)

\* Broadcast k is shown before broadcast l, wherever both are shown.
LogLess(k, l) == \/ log[k].articleID < log[l].articleID
                 \/ log[k].articleID = log[l].articleID /\ k < l
Earlier(p, r) ==
    \E k, l \in DOMAIN log : log[k].post = p /\ log[l].post = r /\ LogLess(k, l)

\* Each article came with a broadcast that has left the queue.
Sourced(s) ==
    \A i \in DOMAIN articles[s] : \E k \in DOMAIN log :
        /\ k <= Len(log) - Len(w3[s])
        /\ log[k].post = articles[s][i].post /\ log[k].articleID = articles[s][i].ID
TiesInOrder(s) ==
    \A i, j \in DOMAIN articles[s] :
        i < j /\ articles[s][i].ID = articles[s][j].ID =>
            Earlier(articles[s][i].post, articles[s][j].post)
ViewInOrder(c) ==
    \A i, j \in DOMAIN view[c] : i < j => Earlier(view[c][i].post, view[c][j].post)

OrderInv == /\ \A s \in Servers : Sourced(s) /\ TiesInOrder(s)
            /\ \A c \in Clients : ViewInOrder(c)

LEMMA OrderInit == Init => OrderInv
<1> SUFFICES ASSUME Init  PROVE OrderInv
  OBVIOUS
<1>1. /\ DOMAIN <<>> = {}
      /\ \A s \in Servers : articles[s] = <<>>
      /\ \A c \in Clients : view[c] = <<>>
  BY DEF Init, ClientInit
<1> QED  BY <1>1 DEF OrderInv, Sourced, TiesInOrder, ViewInOrder

(* No two articles are each earlier than the other.                            *)
LEMMA EarlierAsymmetric ==
    ASSUME TypeOK, OnceOnly, NEW p, NEW r, Earlier(p, r), Earlier(r, p)
    PROVE  FALSE
<1>1. PICK k, l \in DOMAIN log : log[k].post = p /\ log[l].post = r /\ LogLess(k, l)
  BY DEF Earlier
<1>2. PICK i, j \in DOMAIN log : log[i].post = r /\ log[j].post = p /\ LogLess(i, j)
  BY DEF Earlier
<1>3. i = l /\ j = k
  BY <1>1, <1>2 DEF OnceOnly
<1>4. /\ log[k].articleID \in Int /\ log[l].articleID \in Int
      /\ k \in Nat /\ l \in Nat
  <2>1. log \in Seq(Update) /\ DOMAIN log = 1..Len(log) /\ Len(log) \in Nat
    BY LenProperties DEF TypeOK
  <2>2. log[k] \in Update /\ log[l] \in Update
    BY <2>1, ElementOfSeq
  <2> QED  BY <2>1, <2>2 DEF Update
<1> QED  BY <1>1, <1>2, <1>3, <1>4 DEF LogLess

(* A sorted vector shows each article after the earlier ones.                  *)
LEMMA SortedEarlier ==
    ASSUME TypeOK, NEW s \in Servers, Sourced(s), TiesInOrder(s),
           NEW k \in DOMAIN articles[s], NEW l \in DOMAIN articles[s], k < l
    PROVE  Earlier(SortByID(articles[s])[k].post, SortByID(articles[s])[l].post)
<1>1. PICK a : a = articles[s]
  OBVIOUS
<1>2. a \in Seq(Article)
  BY <1>1 DEF TypeOK
<1>3. PICK f : Arranges(a, f) /\ \A i \in DOMAIN a : SortByID(a)[i] = a[f[i]]
  BY <1>2, ArticleIDs, SortArranges
<1>4. PICK i, j : /\ i = f[k] /\ j = f[l] /\ i \in DOMAIN a /\ j \in DOMAIN a
                  /\ Precedes(a, i, j)
  BY <1>1, <1>3 DEF Arranges
<1>5. Earlier(a[i].post, a[j].post)
  <2>1. CASE a[i].ID < a[j].ID
    <3>1. /\ \E x \in DOMAIN log : log[x].post = a[i].post /\ log[x].articleID = a[i].ID
          /\ \E y \in DOMAIN log : log[y].post = a[j].post /\ log[y].articleID = a[j].ID
      BY <1>1, <1>4 DEF Sourced
    <3> QED  BY <2>1, <3>1 DEF Earlier, LogLess
  <2>2. CASE a[i].ID = a[j].ID /\ i < j
    BY <1>1, <1>4, <2>2 DEF TiesInOrder
  <2> QED  BY <1>4, <2>1, <2>2 DEF Precedes
<1> QED  BY <1>1, <1>3, <1>4, <1>5

(* A step that changes neither the log, a queue, a vector nor a view.          *)
LEMMA OrderKept ==
    ASSUME OrderInv, UNCHANGED <<log, w3, articles, view>>
    PROVE  OrderInv'
<1>1. \A p, r : Earlier(p, r)' <=> Earlier(p, r)
  BY DEF Earlier, LogLess
<1>2. \A s \in Servers : Sourced(s)' /\ TiesInOrder(s)'
  BY <1>1 DEF OrderInv, Sourced, TiesInOrder
<1>3. \A c \in Clients : ViewInOrder(c)'
  BY <1>1 DEF OrderInv, ViewInOrder
<1> QED  BY <1>2, <1>3 DEF OrderInv

LEMMA OrderRead ==
    ASSUME TypeOK, OrderInv, NEW c \in Clients, NEW s \in Servers, Read_handler(c, s)
    PROVE  OrderInv'
<1>1. PICK a, b : a = articles[s] /\ b = SortByID(articles[s])
  OBVIOUS
<1>2. /\ a \in Seq(Article) /\ DOMAIN b = DOMAIN a /\ DOMAIN a \subseteq Nat
      /\ articles' = [articles EXCEPT ![s] = b]
      /\ view' = [view EXCEPT ![c] = Sent(b)]
      /\ log' = log /\ w3' = w3
  <2>1. a \in Seq(Article)
    BY <1>1 DEF TypeOK
  <2>2. DOMAIN b = DOMAIN a /\ DOMAIN a \subseteq Nat
    BY <1>1, <2>1, ArticleIDs, SortType, LenProperties
  <2>3. articles' = [articles EXCEPT ![s] = b] /\ articles'[s] = b
    BY <1>1 DEF Read_handler, TypeOK
  <2> QED  BY <2>1, <2>2, <2>3 DEF Read_handler, Show, net
<1>3. \A p, r : Earlier(p, r)' <=> Earlier(p, r)
  BY <1>2 DEF Earlier, LogLess
<1>4. \A k, l \in DOMAIN a : k < l => Earlier(b[k].post, b[l].post)
  BY <1>1, SortedEarlier DEF OrderInv
<1>5. \A k \in DOMAIN b : \E i \in DOMAIN a : b[k] = a[i]
  <2>1. \E f : Arranges(a, f) /\ \A k \in DOMAIN a : SortByID(a)[k] = a[f[k]]
    BY <1>2, ArticleIDs, SortArranges
  <2>2. PICK f : Arranges(a, f) /\ \A k \in DOMAIN a : b[k] = a[f[k]]
    BY <1>1, <2>1
  <2> QED  BY <1>2, <2>2 DEF Arranges
<1>6. ASSUME NEW t \in Servers
      PROVE  Sourced(t)' /\ TiesInOrder(t)'
  <2>1. CASE t = s
    <3>1. articles'[s] = b
      BY <1>2 DEF TypeOK
    <3>2. \A i \in DOMAIN a : \E k \in DOMAIN log :
            /\ k <= Len(log) - Len(w3[s])
            /\ log[k].post = a[i].post /\ log[k].articleID = a[i].ID
      BY <1>1 DEF OrderInv, Sourced
    <3>5. ASSUME NEW j \in DOMAIN b
          PROVE  \E k \in DOMAIN log :
                   /\ k <= Len(log) - Len(w3[s])
                   /\ log[k].post = b[j].post /\ log[k].articleID = b[j].ID
      <4>1. PICK i \in DOMAIN a : b[j] = a[i]
        BY <1>5
      <4> QED  BY <3>2, <4>1
    <3>3. Sourced(s)'
      BY <1>2, <3>1, <3>5 DEF Sourced
    <3>4. TiesInOrder(s)'
      BY <1>2, <1>3, <1>4, <3>1 DEF TiesInOrder
    <3> QED  BY <2>1, <3>3, <3>4
  <2>2. CASE t # s
    <3>1. articles'[t] = articles[t]
      BY <1>2, <2>2 DEF TypeOK
    <3> QED  BY <1>2, <1>3, <3>1 DEF OrderInv, Sourced, TiesInOrder
  <2> QED  BY <2>1, <2>2
<1>7. ASSUME NEW d \in Clients
      PROVE  ViewInOrder(d)'
  <2>1. CASE d = c
    <3>1. view'[c] = Sent(b)
      BY <1>2 DEF TypeOK, ClientTypeOK
    <3>2. DOMAIN view'[c] = DOMAIN a /\ \A k \in DOMAIN a : view'[c][k].post = b[k].post
      BY <1>2, <3>1 DEF Sent
    <3> QED  BY <1>3, <1>4, <2>1, <3>2 DEF ViewInOrder
  <2>2. CASE d # c
    <3>1. view'[d] = view[d]
      BY <1>2, <2>2 DEF TypeOK, ClientTypeOK
    <3> QED  BY <1>3, <3>1 DEF OrderInv, ViewInOrder
  <2> QED  BY <2>1, <2>2
<1> QED  BY <1>6, <1>7 DEF OrderInv

LEMMA OrderForward ==
    ASSUME TypeOK, OrderInv, NEW m \in w2, Forward(m)
    PROVE  OrderInv'
<1>1. PICK u, n : /\ n = Len(log) /\ log' = Append(log, u)
                  /\ w3' = [s \in Servers |-> Append(w3[s], u)]
                  /\ articles' = articles /\ view' = view
  BY DEF Forward, client
<1>2. /\ n \in Nat /\ DOMAIN log = 1..n /\ Len(log') = n + 1 /\ DOMAIN log' = 1..(n + 1)
      /\ \A k \in 1..n : k \in 1..(n + 1) /\ log'[k] = log[k]
  BY <1>1, LenProperties DEF TypeOK
<1>3. \A p, r : Earlier(p, r) => Earlier(p, r)'
  BY <1>2 DEF Earlier, LogLess
<1>4. ASSUME NEW s \in Servers
      PROVE  Sourced(s)' /\ TiesInOrder(s)'
  <2>0. PICK b : b = Len(w3[s])
    OBVIOUS
  <2>1. b = Len(w3[s]) /\ b \in Nat /\ Len(w3'[s]) = b + 1
    BY <1>1, <2>0, LenProperties DEF TypeOK
  <2>2. (n + 1) - (b + 1) = n - b
    BY <1>2, <2>1
  <2>5. \A i \in DOMAIN articles[s] : \E k \in 1..n :
          /\ k <= n - b
          /\ log[k].post = articles[s][i].post /\ log[k].articleID = articles[s][i].ID
    BY <1>1, <1>2, <2>1 DEF OrderInv, Sourced
  <2>6. Len(log') - Len(w3'[s]) = n - b
    BY <1>2, <2>1, <2>2
  <2>7. ASSUME NEW i \in DOMAIN articles[s]
        PROVE  \E k \in DOMAIN log' :
                 /\ k <= n - b
                 /\ log'[k].post = articles[s][i].post
                 /\ log'[k].articleID = articles[s][i].ID
    <3>1. PICK k \in 1..n :
            /\ k <= n - b
            /\ log[k].post = articles[s][i].post /\ log[k].articleID = articles[s][i].ID
      BY <2>5
    <3>2. k \in DOMAIN log' /\ log'[k] = log[k]
      BY <1>2
    <3> QED  BY <3>1, <3>2
  <2>3. Sourced(s)'
    BY <1>1, <2>6, <2>7 DEF Sourced
  <2>4. TiesInOrder(s)'
    BY <1>1, <1>3 DEF OrderInv, TiesInOrder
  <2> QED  BY <2>3, <2>4
<1>5. \A c \in Clients : ViewInOrder(c)'
  BY <1>1, <1>3 DEF OrderInv, ViewInOrder
<1> QED  BY <1>4, <1>5 DEF OrderInv

(* The broadcast a server applies comes after those it applied before.         *)
LEMMA OrderUpdate ==
    ASSUME TypeOK, OrderInv, ReplayInv, Ordered, NEW s \in Servers, NEW i \in DOMAIN w3[s],
           UpdateBackup(s, i)
    PROVE  OrderInv'
<1>1. PICK a, q, u, n, b : /\ a = articles[s] /\ q = w3[s] /\ u = w3[s][1]
                           /\ n = Len(log) /\ b = Len(w3[s])
  OBVIOUS
<1>2. /\ a \in Seq(Article) /\ q \in Seq(Update) /\ n \in Nat /\ b \in Nat
      /\ i = 1 /\ 1 \in DOMAIN q /\ DOMAIN q = 1..b /\ b # 0 /\ u \in Update
      /\ DOMAIN log = 1..n
  <2>1. a \in Seq(Article) /\ q \in Seq(Update) /\ log \in Seq(Update)
    BY <1>1 DEF TypeOK
  <2>2. i = 1 /\ 1 \in DOMAIN q
    BY <1>1 DEF UpdateBackup, Receivable
  <2>3. n \in Nat /\ b \in Nat /\ DOMAIN q = 1..b /\ DOMAIN log = 1..n
    BY <1>1, <2>1, LenProperties
  <2> QED  BY <1>1, <2>1, <2>2, <2>3, ElementOfSeq
<1>3. /\ log' = log /\ view' = view
      /\ w3' = [w3 EXCEPT ![s] = RemoveAt(q, 1)]
      /\ articles' = [articles EXCEPT ![s] = Applied(a, u)]
  BY <1>1, <1>2 DEF UpdateBackup, Applied, client
<1>4. PICK z : z = n - b + 1 /\ z \in 1..n /\ log[z] = u
  <2>1. /\ b <= n
        /\ \A k \in 1..b : q[k] = log[n - b + k]
    BY <1>1 DEF ReplayInv, Follows
  <2>2. n - b + 1 \in 1..n /\ 1 \in 1..b
    BY <1>2, <2>1
  <2> QED  BY <1>1, <2>1, <2>2
<1>5. \A p, r : Earlier(p, r)' <=> Earlier(p, r)
  BY <1>3 DEF Earlier, LogLess
<1>6. /\ articles'[s] = Applied(a, u) /\ Len(w3'[s]) = b - 1
      /\ Len(log') - Len(w3'[s]) = z
  <2>1. articles'[s] = Applied(a, u) /\ w3'[s] = RemoveAt(q, 1)
    BY <1>3 DEF TypeOK
  <2>2. Len(RemoveAt(q, 1)) = b - 1
    BY <1>1, <1>2, RemoveAtType
  <2>3. n - (b - 1) = n - b + 1
    BY <1>2
  <2> QED  BY <1>1, <1>3, <1>4, <2>1, <2>2, <2>3
<1>7. \A j \in DOMAIN a : \E k \in DOMAIN log :
        k < z /\ log[k].post = a[j].post /\ log[k].articleID = a[j].ID
  <2>1. \A k \in 1..n : k <= n - b => k < z
    BY <1>2, <1>4
  <2> QED  BY <1>1, <1>2, <2>1 DEF OrderInv, Sourced
<1>8. Sourced(s)' /\ TiesInOrder(s)'
  <2>1. CASE ~Accepts(a, u)
    <3>1. articles'[s] = a
      BY <1>6, <2>1 DEF Applied
    <3>2. \A k \in DOMAIN log : k < z => k <= z
      BY <1>2, <1>4
    <3>3. Sourced(s)'
      BY <1>3, <1>6, <1>7, <3>1, <3>2 DEF Sourced
    <3>4. TiesInOrder(s)'
      BY <1>1, <1>5, <3>1 DEF OrderInv, TiesInOrder
    <3> QED  BY <3>3, <3>4
  <2>2. CASE Accepts(a, u)
    <3>1. PICK w, p : w = articles'[s] /\ p = Len(a)
      OBVIOUS
    <3>2. /\ w = Stored(a, u) /\ w \in Seq(Article) /\ Len(w) = p + 1
          /\ p \in Nat /\ DOMAIN a = 1..p /\ DOMAIN w = 1..(p + 1)
          /\ \A j \in 1..p : w[j] = a[j]
          /\ w[p + 1].ID = u.articleID /\ w[p + 1].post = u.post
      <4>1. w = Stored(a, u)
        BY <1>6, <2>2, <3>1 DEF Applied
      <4>2. p \in Nat /\ DOMAIN a = 1..p
        BY <1>2, <3>1, LenProperties
      <4>3. /\ w \in Seq(Article) /\ Len(w) = p + 1
            /\ \A j \in DOMAIN a : w[j] = a[j]
            /\ w[p + 1] = [ID |-> u.articleID, hierachy |-> Hierachy(a, u), post |-> u.post]
        BY <1>2, <2>2, <3>1, <4>1, StoredType
      <4> QED  BY <4>1, <4>2, <4>3, LenProperties
    <3>3. \A j \in 1..(p + 1) : j \in 1..p \/ j = p + 1
      BY <3>2
    <3>4. \A j \in 1..(p + 1) : \E k \in DOMAIN log :
            k <= z /\ log[k].post = w[j].post /\ log[k].articleID = w[j].ID
      <4>1. \A k \in DOMAIN log : k < z => k <= z
        BY <1>2, <1>4
      <4>2. ASSUME NEW j \in 1..p
            PROVE  \E k \in DOMAIN log :
                     k <= z /\ log[k].post = w[j].post /\ log[k].articleID = w[j].ID
        BY <1>7, <3>2, <4>1
      <4>3. z \in DOMAIN log /\ z <= z
        BY <1>2, <1>4
      <4> QED  BY <1>4, <3>2, <3>3, <4>2, <4>3
    <3>5. Sourced(s)'
      BY <1>3, <1>6, <3>1, <3>2, <3>4 DEF Sourced
    <3>6. ASSUME NEW j \in 1..(p + 1), NEW l \in 1..(p + 1), j < l, w[j].ID = w[l].ID
          PROVE  Earlier(w[j].post, w[l].post)
      <4>1. j \in 1..p
        BY <3>2, <3>6
      <4>2. CASE l \in 1..p
        BY <1>1, <3>2, <3>6, <4>1, <4>2 DEF OrderInv, TiesInOrder
      <4>3. CASE l = p + 1
        <5>1. PICK k \in DOMAIN log :
                k < z /\ log[k].post = a[j].post /\ log[k].articleID = a[j].ID
          BY <1>7, <3>2, <4>1
        <5>2. w[j] = a[j] /\ log[z].post = w[l].post /\ log[z].articleID = w[l].ID
              /\ z \in DOMAIN log
          BY <1>2, <1>4, <3>2, <4>1, <4>3
        <5>3. LogLess(k, z)
          BY <3>6, <5>1, <5>2 DEF LogLess
        <5> QED  BY <5>1, <5>2, <5>3 DEF Earlier
      <4> QED  BY <3>3, <4>2, <4>3
    <3>7. TiesInOrder(s)'
      BY <1>5, <3>1, <3>2, <3>6 DEF TiesInOrder
    <3> QED  BY <3>5, <3>7
  <2> QED  BY <2>1, <2>2
<1>9. ASSUME NEW t \in Servers \ {s}
      PROVE  Sourced(t)' /\ TiesInOrder(t)'
  <2>1. articles'[t] = articles[t] /\ w3'[t] = w3[t]
    BY <1>3 DEF TypeOK
  <2> QED  BY <1>3, <1>5, <2>1 DEF OrderInv, Sourced, TiesInOrder
<1>10. \A c \in Clients : ViewInOrder(c)'
  BY <1>3, <1>5 DEF OrderInv, ViewInOrder
<1> QED  BY <1>8, <1>9, <1>10 DEF OrderInv

LEMMA OrderNext == TypeOK /\ ReplayInv /\ OrderInv /\ Ordered /\ [Next]_vars => OrderInv'
<1> SUFFICES ASSUME TypeOK, ReplayInv, OrderInv, Ordered, [Next]_vars  PROVE OrderInv'
  OBVIOUS
<1>1. CASE ClientStep
  <2>1. view' = view
    BY <1>1 DEF ClientStep, ClientAction, ClientPost, ClientRead, ClientReply, Write, Issue
  <2> QED  BY <1>1, <2>1, OrderKept DEF ClientStep, server, net
<1>2. CASE ListenStep
  BY <1>2, OrderKept, OrderRead DEF ListenStep, Post_handler, Reply_handler, ForwardW2,
                                    ReceiveW5, DropW5, Tell, client
<1>3. CASE PrimaryPortStep
  BY <1>3, OrderKept, OrderForward, OrderUpdate DEF PrimaryPortStep, Ack, client
<1>4. CASE UNCHANGED vars
  BY <1>4, OrderKept DEF vars, server, net, client
<1> QED  BY <1>1, <1>2, <1>3, <1>4 DEF Next

(* The claim of Project2/README.md, "all clients should see the same order of *)
(* articles on a read from any server", holds when W3 is delivered in order:   *)
(* for any number of servers, clients and concurrent writes, whichever replies *)
(* are refused, and although a refusal gives an ID to a second article.        *)
THEOREM ReadOrderCorrect ==
    ASSUME Ordered
    PROVE  Spec => []ReadOrder
<1>1. ASSUME TypeOK, OnceOnly, OrderInv
      PROVE  ReadOrder
  <2> DEFINE InOrder(x) == \A i, j \in DOMAIN x : i < j => Earlier(x[i], x[j])
  <2>1. ASSUME NEW x, NEW y, InOrder(x), InOrder(y)
        PROVE  SameOrder(x, y)
    BY <1>1, <2>1, EarlierAsymmetric DEF SameOrder
  <2>2. ASSUME NEW s \in Servers
        PROVE  InOrder(Shown(s))
    <3>1. DOMAIN Shown(s) = DOMAIN articles[s]
          /\ \A k \in DOMAIN articles[s] : Shown(s)[k] = SortByID(articles[s])[k].post
      <4>1. DOMAIN SortByID(articles[s]) = DOMAIN articles[s]
        BY <1>1, ArticleIDs, SortType DEF TypeOK
      <4> QED  BY <4>1 DEF Shown, Posts
    <3> QED  BY <1>1, <3>1, SortedEarlier DEF OrderInv
  <2>3. ASSUME NEW c \in Clients
        PROVE  InOrder(Posts(view[c]))
    BY <1>1 DEF OrderInv, ViewInOrder, Posts
  <2> HIDE DEF InOrder
  <2> QED  BY <2>1, <2>2, <2>3 DEF ReadOrder
<1>2. Init => OnceOnly
  BY LogInit
<1> QED  BY <1>1, <1>2, ReplayInit, ReplayNext, OrderInit, OrderNext, OnceNext, TypeCorrect,
            PTL DEF Spec
============================================================================
