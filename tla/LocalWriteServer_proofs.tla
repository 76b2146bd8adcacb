---------------------- MODULE LocalWriteServer_proofs ----------------------
(* Proofs about LocalWriteServer, for any servers and clients, any number of   *)
(* posts, replies and reads, and datagrams in order or not.                    *)
EXTENDS LocalWriteServer, BoardClient_proofs

\* The request of a client in a list of datagrams.
Carries(q, i, c) == i \in DOMAIN q /\ q[i].type = "forward_req" /\ q[i].client = c
Has(q, c)   == \E i \in DOMAIN q : Carries(q, i, c)
Twice(q, c) == \E i, j \in DOMAIN q : i # j /\ Carries(q, i, c) /\ Carries(q, j, c)
Fewer(q, r, c) == (Has(r, c) => Has(q, c)) /\ (Twice(r, c) => Twice(q, c))

\* No server asks itself for the board or announces itself to itself.
Allowed(s)  == {m \in PortMessage : m.type \in {"moveX", "broadcastIP"} => m.from # s}
NotToItself == \A s \in Servers : port[s] \in Seq(Allowed(s))

\* A request that was taken is in one place, until it is answered.
InOnePort ==
    /\ \A s \in Servers, c \in Clients : Has(port[s], c) =>
         c \in taken /\ call[c].op \in Writing /\ ~Twice(port[s], c)
    /\ \A s, t \in Servers, c \in Clients : Has(port[s], c) /\ Has(port[t], c) => s = t
ServedOnce ==
    \A s \in Servers : phase[s] # "idle" =>
        /\ serving[s] \in taken /\ call[serving[s]].op \in Writing
        /\ \A t \in Servers : /\ ~Has(port[t], serving[s])
                              /\ phase[t] # "idle" /\ serving[t] = serving[s] => s = t
TInv == TypeOK /\ NotToItself /\ InOnePort /\ ServedOnce

----------------------------------------------------------------------------
(* Datagrams.                                                                 *)

LEMMA Kinds ==
    ASSUME NEW m \in PortMessage
    PROVE  /\ m.type \in {"moveX", "broadcastIP", "forward_req", "update", "ACK_up"}
           /\ m.type # "forward_req" => m.from \in Servers
           /\ m.type = "forward_req" => m.client \in Clients
           /\ m.type \in {"forward_req", "update"} => m.repID \in RepID /\ m.post \in Post
           /\ m.type \in {"update", "ACK_up"} => m.req_num \in Nat \ {0}
           /\ m.type = "update" => m.articleID \in Nat
           /\ m.type = "ACK_up" => m.ok \in BOOLEAN
BY DEF PortMessage

LEMMA AppendOther ==
    ASSUME NEW S, NEW q \in Seq(S), NEW x \in S, NEW c,
           ~(x.type = "forward_req" /\ x.client = c)
    PROVE  Fewer(q, Append(q, x), c)
<1> DEFINE r == Append(q, x)
<1>1. DOMAIN q \subseteq DOMAIN r /\ r[Len(q) + 1] = x
      /\ \A i \in DOMAIN r : i = Len(q) + 1 \/ (i \in DOMAIN q /\ r[i] = q[i])
  BY AppendProperties, LenProperties
<1> HIDE DEF r
<1>2. \A i \in DOMAIN r : Carries(r, i, c) => i \in DOMAIN q /\ Carries(q, i, c)
  BY <1>1 DEF Carries
<1>3. (Has(r, c) => Has(q, c)) /\ (Twice(r, c) => Twice(q, c))
  BY <1>2 DEF Has, Twice
<1> QED  BY <1>3 DEF Fewer, r

LEMMA AppendRequest ==
    ASSUME NEW S, NEW q \in Seq(S), NEW x \in S, NEW c, ~Has(q, c)
    PROVE  ~Twice(Append(q, x), c)
<1> DEFINE r == Append(q, x)
<1>1. \A i \in DOMAIN r : i = Len(q) + 1 \/ (i \in DOMAIN q /\ r[i] = q[i])
  BY AppendProperties, LenProperties
<1> HIDE DEF r
<1>2. \A i \in DOMAIN r : Carries(r, i, c) => i = Len(q) + 1
  BY <1>1 DEF Carries, Has
<1>3. ~Twice(r, c)
  BY <1>2 DEF Twice
<1> QED  BY <1>3 DEF r

LEMMA RemoveFewer ==
    ASSUME NEW S, NEW q \in Seq(S), NEW i \in DOMAIN q, NEW c
    PROVE  /\ Fewer(q, RemoveAt(q, i), c)
           /\ Carries(q, i, c) /\ ~Twice(q, c) => ~Has(RemoveAt(q, i), c)
<1> DEFINE r == RemoveAt(q, i)
           n == Len(q)
           old(k) == IF k < i THEN k ELSE k + 1
<1>1. /\ n \in Nat /\ DOMAIN q = 1..n /\ i \in 1..n /\ DOMAIN r = 1..(n - 1)
      /\ \A k \in DOMAIN r : r[k] = IF k < i THEN q[k] ELSE q[k + 1]
  <2>1. n \in Nat /\ DOMAIN q = 1..n /\ i \in 1..n
    BY LenProperties
  <2> QED  BY <2>1, RemoveAtType, LenProperties
<1> HIDE DEF r, n
<1>2. \A k \in DOMAIN r : old(k) \in DOMAIN q /\ old(k) # i /\ r[k] = q[old(k)]
  BY <1>1
<1>3. \A k, l \in DOMAIN r : old(k) = old(l) => k = l
  BY <1>1
<1> HIDE DEF old
<1>4. \A k \in DOMAIN r : Carries(r, k, c) => Carries(q, old(k), c)
  BY <1>2 DEF Carries
<1>5. (Has(r, c) => Has(q, c)) /\ (Twice(r, c) => Twice(q, c))
  BY <1>2, <1>3, <1>4 DEF Has, Twice
<1>6. Carries(q, i, c) /\ Has(r, c) => Twice(q, c)
  BY <1>2, <1>4 DEF Has, Twice
<1> QED  BY <1>5, <1>6 DEF Fewer, r

\* The ports after a step that sends no request.
Within(t, r) == r \in Seq(Allowed(t)) /\ \A c \in Clients : Fewer(port[t], r, c)

LEMMA SameWithin ==
    ASSUME NotToItself, NEW t \in Servers
    PROVE  Within(t, port[t])
BY DEF Within, NotToItself, Fewer

LEMMA AppendWithin ==
    ASSUME NEW t \in Servers, NEW r, Within(t, r),
           NEW x \in Allowed(t), x.type # "forward_req"
    PROVE  Within(t, Append(r, x))
<1>1. r \in Seq(Allowed(t)) /\ \A c \in Clients : Fewer(port[t], r, c)
  BY DEF Within
<1>2. \A c \in Clients : Fewer(r, Append(r, x), c)
  BY <1>1, AppendOther
<1>3. Append(r, x) \in Seq(Allowed(t))
  BY <1>1, AppendProperties
<1> QED  BY <1>1, <1>2, <1>3 DEF Within, Fewer

LEMMA RemoveWithin ==
    ASSUME NotToItself, NEW t \in Servers, NEW i \in DOMAIN port[t]
    PROVE  Within(t, RemoveAt(port[t], i))
<1>1. port[t] \in Seq(Allowed(t))
  BY DEF NotToItself
<1> QED  BY <1>1, RemoveFewer, RemoveAtType DEF Within

LEMMA AllowedIsMessage ==
    ASSUME NEW t, NEW r \in Seq(Allowed(t))
    PROVE  r \in Seq(PortMessage)
<1>1. Allowed(t) \subseteq PortMessage
  BY DEF Allowed
<1> QED  BY <1>1

LEMMA ReceivedKind ==
    ASSUME TInv, NEW s \in Servers, NEW i, i \in DOMAIN port[s]
    PROVE  port[s][i] \in PortMessage /\ port[s][i] \in Allowed(s)
<1>1. port[s] \in Seq(Allowed(s))
  BY DEF TInv, NotToItself
<1>2. port[s][i] \in Allowed(s)
  BY <1>1, ElementOfSeq, LenProperties
<1> QED  BY <1>2 DEF Allowed

LEMMA ReceivableHere ==
    ASSUME NEW s, NEW i, NEW type, Received(s, i, type)
    PROVE  i \in DOMAIN port[s] /\ port[s][i].type = type
BY DEF Received, Receivable

\* A step that sends no request and begins to serve none.
LEMMA RequestsKept ==
    ASSUME TInv, \A t \in Servers : Within(t, port'[t]), taken' = taken,
           \A c \in Clients : call[c].op \in Writing => call'[c].op \in Writing,
           \A s \in Servers : phase'[s] # "idle" => phase[s] # "idle" /\ serving'[s] = serving[s]
    PROVE  NotToItself' /\ InOnePort' /\ ServedOnce'
<1>1. NotToItself'
  BY DEF NotToItself, Within, Allowed
<1>2. \A t \in Servers, c \in Clients :
        (Has(port'[t], c) => Has(port[t], c)) /\ (Twice(port'[t], c) => Twice(port[t], c))
  BY DEF Within, Fewer
<1>3. InOnePort'
  BY <1>2 DEF TInv, InOnePort
<1>4. \A s \in Servers : phase[s] # "idle" => serving[s] \in Clients
  BY DEF TInv, TypeOK
<1>5. ServedOnce'
  BY <1>2, <1>4 DEF TInv, ServedOnce
<1> QED  BY <1>1, <1>3, <1>5

----------------------------------------------------------------------------
(* Boards.                                                                    *)

LEMMA ArticleFields ==
    \A x \in Article : x.ID \in Int /\ x.hierachy \in Nat /\ x.post \in Post
BY DEF Article

LEMMA LoadedType ==
    ASSUME NEW board \in Board
    PROVE  Loaded(board) \in Seq(Article)
<1>1. DOMAIN board = 1..Len(board) /\ Len(board) \in Nat
  BY LenProperties DEF Board
<1>2. \A i \in DOMAIN board : board[i] \in [post : Post, hierachy : Nat]
  BY <1>1, ElementOfSeq DEF Board
<1>3. Loaded(board) \in [1..Len(board) -> Article]
  BY <1>1, <1>2 DEF Loaded, Article
<1> QED  BY <1>1, <1>3, IsASeq

LEMMA SentBoard ==
    ASSUME NEW a \in Seq(Article)
    PROVE  SortByID(a) \in Seq(Article) /\ Sent(SortByID(a)) \in Board
<1>1. SortByID(a) \in Seq(Article)
  BY ArticleFields, SortType
<1> QED  BY <1>1, ArticleFields, SentType DEF Board, Entry

LEMMA StoredType ==
    ASSUME NEW a \in Seq(Article), NEW u, Accepts(a, u), u.articleID \in Nat, u.post \in Post
    PROVE  Stored(a, u) \in Seq(Article)
<1>1. Hierachy(a, u) \in Nat
  BY ArticleFields, HierachyType
<1>2. [ID |-> u.articleID, hierachy |-> Hierachy(a, u), post |-> u.post] \in Article
  BY <1>1 DEF Article
<1> QED  BY <1>2, AppendProperties DEF Stored

LEMMA SlotType ==
    ASSUME TypeOK, NEW s \in Servers
    PROVE  /\ FreeSlot(s) \in 1..(Len(ack_num[s]) + 1)
           /\ FreeSlot(s) \in DOMAIN ack_num[s] => ack_num[s][FreeSlot(s)] = 0
<1> DEFINE zero == {i \in DOMAIN ack_num[s] : ack_num[s][i] = 0}
<1>1. Len(ack_num[s]) \in Nat /\ DOMAIN ack_num[s] = 1..Len(ack_num[s])
  BY LenProperties DEF TypeOK
<1>2. CASE zero = {}
  <2>1. FreeSlot(s) = Len(ack_num[s]) + 1
    BY <1>2 DEF FreeSlot
  <2> QED  BY <1>1, <2>1
<1>3. CASE zero # {}
  <2>1. FreeSlot(s) = First(zero)
    BY <1>3 DEF FreeSlot
  <2>2. zero \in SUBSET (1..Len(ack_num[s]))
    BY <1>1
  <2>3. First(zero) \in zero
    <3> HIDE DEF zero
    <3> QED  BY <1>1, <1>3, <2>2, FirstIsLeast
  <2> QED  BY <1>1, <2>1, <2>3
<1> QED  BY <1>2, <1>3

----------------------------------------------------------------------------
(* Type correctness, action by action.                                        *)

LEMMA SameClient == ClientTypeOK /\ UNCHANGED client => ClientTypeOK'
BY DEF ClientTypeOK, client

LEMMA InitTypes == Init => TInv
<1> SUFFICES ASSUME Init
             PROVE  TInv
  OBVIOUS
<1>1. /\ <<>> \in Seq(Article) /\ <<>> \in Seq(Post) /\ <<>> \in Seq(PortMessage)
      /\ \A s \in Servers : <<>> \in Seq(Allowed(s))
  BY EmptySeq
<1>2. [i \in 1..InitialSlots |-> 0] \in Seq(Nat)
  BY LocalWriteAssumption, IsASeq
<1>3. ClientTypeOK
  BY ClientInitType DEF Init
<1>4. TypeOK
  BY <1>1, <1>2, <1>3, ClientAssumption DEF Init, TypeOK, Phases
<1>5. \A s \in Servers : port[s] = <<>> /\ phase[s] = "idle"
  BY DEF Init
<1>6. \A s \in Servers, c \in Clients : ~Has(port[s], c)
  BY <1>5 DEF Has
<1> QED  BY <1>1, <1>4, <1>5, <1>6 DEF TInv, NotToItself, InOnePort, ServedOnce

LEMMA ClientTypes ==
    ASSUME TInv, ClientStep
    PROVE  TInv'
<1>1. ClientTypeOK /\ ClientAction /\ UNCHANGED server
  BY DEF ClientStep, TInv, TypeOK
<1>2. PICK c, r : Asks(c, r)
  BY <1>1, ClientAsks
<1>3. ClientTypeOK'
  BY <1>1, <1>2, AsksType
<1>4. TypeOK'
  BY <1>1, <1>3 DEF TInv, TypeOK, server
<1>5. \A d \in Clients : call[d].op \in Writing => call'[d].op \in Writing
  <2>1. call \in [Clients -> CallRecord] /\ call' = [call EXCEPT ![c] = r] /\ call[c] = NoCall
    BY <1>1, <1>2 DEF Asks, ClientTypeOK, CallRecord
  <2> QED  BY <2>1, NoCallType
<1>6. \A t \in Servers : Within(t, port'[t])
  BY <1>1, SameWithin DEF TInv, server
<1>7. phase' = phase /\ serving' = serving /\ taken' = taken
  BY <1>1 DEF server
<1> QED  BY <1>4, <1>5, <1>6, <1>7, RequestsKept DEF TInv

LEMMA ReadTypes ==
    ASSUME TInv, NEW c \in Clients, NEW s \in Servers, Read_handler(c, s)
    PROVE  TInv'
<1>1. /\ articles' = [articles EXCEPT ![s] = SortByID(@)] /\ Show(c, articles'[s])
      /\ call[c].op = "READ" /\ TypeOK /\ ClientTypeOK
      /\ UNCHANGED <<IsCoordinator, coordinatorIP, ack_num, port, back, phase, serving, taken, log>>
  BY DEF Read_handler, Queued, TInv, TypeOK
<1>2. articles' \in [Servers -> Seq(Article)] /\ Sent(articles'[s]) \in Seq(Entry)
  BY <1>1, SentBoard DEF TypeOK, Board, Entry
<1>3. ClientTypeOK'
  BY <1>1, <1>2, ShowType
<1>4. TypeOK'
  BY <1>1, <1>2, <1>3 DEF TypeOK
<1>5. \A d \in Clients : call[d].op \in Writing => call'[d].op \in Writing
  BY <1>1 DEF Show, Writing, ClientTypeOK
<1>6. \A t \in Servers : Within(t, port'[t])
  BY <1>1, SameWithin DEF TInv
<1> QED  BY <1>1, <1>4, <1>5, <1>6, RequestsKept DEF TInv

LEMMA Unserved ==
    ASSUME TInv, NEW c \in Clients, c \notin taken
    PROVE  /\ \A s \in Servers : ~Has(port[s], c)
           /\ \A s \in Servers : phase[s] # "idle" => serving[s] # c
BY DEF TInv, InOnePort, ServedOnce

LEMMA WriteTypes ==
    ASSUME TInv, NEW c \in Clients, NEW s \in Servers, Post_handler(c, s) \/ Reply_handler(c, s)
    PROVE  TInv'
<1> DEFINE m == [type |-> "moveX", from |-> s]
           p == coordinatorIP[s]
<1>1. /\ call[c].op \in Writing /\ c \notin taken /\ phase[s] = "idle"
      /\ taken' = taken \cup {c} /\ serving' = [serving EXCEPT ![s] = c]
      /\ phase' = [phase EXCEPT ![s] = IF IsCoordinator[s] THEN "forward" ELSE "moving"]
      /\ port' = IF IsCoordinator[s] THEN port ELSE [port EXCEPT ![p] = Append(@, m)]
      /\ UNCHANGED <<articles, IsCoordinator, coordinatorIP, ack_num, back, log, client>>
  BY DEF Post_handler, Reply_handler, Queued, BeginWrite, Writing
<1>2. /\ TypeOK /\ p \in Servers /\ (IsCoordinator[s] = (p = s))
      /\ port \in [Servers -> Seq(PortMessage)] /\ m \in PortMessage /\ m.type = "moveX" /\ m.from = s
      /\ phase \in [Servers -> Phases] /\ serving \in [Servers -> Clients \cup {NoClient}]
  BY DEF TInv, TypeOK, PortMessage
<1> HIDE DEF m, p
<1>3. \A t \in Servers : Within(t, port'[t])
  <2> SUFFICES ASSUME NEW t \in Servers
               PROVE  Within(t, port'[t])
    OBVIOUS
  <2>1. Within(t, port[t])
    BY SameWithin DEF TInv
  <2>2. CASE IsCoordinator[s] \/ t # p
    <3>1. port'[t] = port[t]
      BY <1>1, <1>2, <2>2
    <3> QED  BY <2>1, <3>1
  <2>3. CASE ~IsCoordinator[s] /\ t = p
    <3>1. port'[t] = Append(port[t], m) /\ m \in Allowed(t)
      BY <1>1, <1>2, <2>3 DEF Allowed
    <3> QED  BY <1>2, <2>1, <3>1, AppendWithin
  <2> QED  BY <2>2, <2>3
<1>4. port' \in [Servers -> Seq(PortMessage)]
  <2>1. \A t \in Servers : port'[t] \in Seq(PortMessage)
    BY <1>3, AllowedIsMessage DEF Within
  <2>2. port' = [t \in Servers |-> port'[t]]
    BY <1>1, <1>2
  <2> QED  BY <2>1, <2>2
<1>5. ClientTypeOK'
  BY <1>1, <1>2, SameClient DEF TypeOK
<1>6. \A t \in Servers : /\ phase'[t] \in Phases /\ serving'[t] \in Clients \cup {NoClient}
                         /\ (phase'[t] = "idle") = (serving'[t] = NoClient)
  BY <1>1, <1>2, LocalWriteAssumption DEF TypeOK, Phases
<1>7. phase' = [t \in Servers |-> phase'[t]] /\ serving' = [t \in Servers |-> serving'[t]]
  BY <1>1, <1>2
<1>8. taken' \subseteq Clients
  BY <1>1, <1>2 DEF TypeOK
<1>9. TypeOK'
  BY <1>1, <1>2, <1>4, <1>5, <1>6, <1>7, <1>8 DEF TypeOK
<1>10. NotToItself'
  BY <1>3 DEF NotToItself, Within, Allowed
<1>11. call' = call
  BY <1>1 DEF client
<1>12. \A t \in Servers, d \in Clients :
        (Has(port'[t], d) => Has(port[t], d)) /\ (Twice(port'[t], d) => Twice(port[t], d))
  BY <1>3 DEF Within, Fewer
<1>13. InOnePort'
  BY <1>1, <1>11, <1>12 DEF TInv, InOnePort
<1>14. \A t \in Servers : ~Has(port'[t], c) /\ (phase[t] # "idle" => serving[t] # c)
  BY <1>1, <1>12, Unserved
<1>15. /\ phase'[s] # "idle" /\ serving'[s] = c
       /\ \A t \in Servers \ {s} : phase'[t] = phase[t] /\ serving'[t] = serving[t]
  BY <1>1, <1>2 DEF Phases
<1>16. \A t \in Servers : phase[t] # "idle" => serving[t] \in Clients
  BY <1>2 DEF TypeOK
<1>17. ServedOnce'
  BY <1>1, <1>11, <1>12, <1>14, <1>15, <1>16 DEF TInv, ServedOnce
<1> QED  BY <1>9, <1>10, <1>13, <1>17 DEF TInv

\* The ports of a step that sends no request are well typed.
LEMMA PortsTyped ==
    ASSUME \A t \in Servers : Within(t, port'[t]), port' = [t \in Servers |-> port'[t]]
    PROVE  port' \in [Servers -> Seq(PortMessage)]
<1>1. \A t \in Servers : port'[t] \in Seq(PortMessage)
  BY AllowedIsMessage DEF Within
<1> QED  BY <1>1

LEMMA ReceiveBoardTypes ==
    ASSUME TInv, NEW s \in Servers, NEW m \in back, ReceiveBoard(s, m)
    PROVE  TInv'
<1> DEFINE x == [type |-> "broadcastIP", from |-> s]
<1>1. /\ phase[s] = "moving" /\ back' = back \ {m}
      /\ articles' = [articles EXCEPT ![s] = IF m.board = <<>> THEN @ ELSE Loaded(m.board)]
      /\ IsCoordinator' = [IsCoordinator EXCEPT ![s] = TRUE]
      /\ coordinatorIP' = [coordinatorIP EXCEPT ![s] = s]
      /\ port' = [t \in Servers |-> IF t \in Peers(s) THEN Append(port[t], x) ELSE port[t]]
      /\ phase' = [phase EXCEPT ![s] = "forward"]
      /\ UNCHANGED <<ack_num, serving, taken, log, client>>
  BY DEF ReceiveBoard, Broadcast
<1>2. x \in PortMessage /\ x.type = "broadcastIP" /\ x.from = s
  BY DEF PortMessage
<1> HIDE DEF x
<1>3. TypeOK /\ m.board \in Board /\ Loaded(m.board) \in Seq(Article)
  BY LoadedType DEF TInv, TypeOK
<1>4. \A t \in Servers : Within(t, port'[t])
  <2> SUFFICES ASSUME NEW t \in Servers
               PROVE  Within(t, port'[t])
    OBVIOUS
  <2>1. Within(t, port[t])
    BY SameWithin DEF TInv
  <2>2. CASE t = s
    BY <1>1, <2>1, <2>2 DEF Peers
  <2>3. CASE t # s
    <3>1. port'[t] = Append(port[t], x) /\ x \in Allowed(t)
      BY <1>1, <1>2, <2>3 DEF Allowed, Peers
    <3> QED  BY <1>2, <2>1, <3>1, AppendWithin
  <2> QED  BY <2>2, <2>3
<1>5. port' \in [Servers -> Seq(PortMessage)]
  BY <1>1, <1>4, PortsTyped
<1>6. articles' \in [Servers -> Seq(Article)]
  BY <1>1, <1>3 DEF TypeOK
<1>7. ClientTypeOK'
  BY <1>1, <1>3, SameClient DEF TypeOK
<1>8. /\ phase' \in [Servers -> Phases] /\ IsCoordinator' \in [Servers -> BOOLEAN]
      /\ coordinatorIP' \in [Servers -> Servers]
      /\ \A t \in Servers : IsCoordinator'[t] = (coordinatorIP'[t] = t)
      /\ \A t \in Servers : (phase'[t] = "idle") = (serving'[t] = NoClient)
  BY <1>1, <1>3 DEF TypeOK, Phases
<1>9. TypeOK'
  BY <1>1, <1>3, <1>5, <1>6, <1>7, <1>8 DEF TypeOK
<1>10. \A t \in Servers : phase'[t] # "idle" => phase[t] # "idle" /\ serving'[t] = serving[t]
  BY <1>1, <1>3 DEF TypeOK
<1>11. call' = call /\ taken' = taken
  BY <1>1 DEF client
<1> QED  BY <1>4, <1>9, <1>10, <1>11, RequestsKept DEF TInv

LEMMA DropTypes ==
    ASSUME TInv, NEW m \in back, DropBoard(m)
    PROVE  TInv'
<1>1. back' = back \ {m}
      /\ UNCHANGED <<articles, IsCoordinator, coordinatorIP, ack_num, port, phase, serving, taken, log>>
      /\ UNCHANGED client
  BY DEF DropBoard
<1>2. TypeOK'
  BY <1>1, SameClient DEF TInv, TypeOK
<1>3. \A t \in Servers : Within(t, port'[t])
  BY <1>1, SameWithin DEF TInv
<1>4. call' = call
  BY <1>1 DEF client
<1> QED  BY <1>1, <1>2, <1>3, <1>4, RequestsKept DEF TInv

\* A datagram is taken from a port.
LEMMA ConsumedWithin ==
    ASSUME TInv, NEW s \in Servers, NEW i \in DOMAIN port[s]
    PROVE  /\ \A t \in Servers : Within(t, Consumed(s, i)[t])
           /\ Consumed(s, i) = [t \in Servers |-> Consumed(s, i)[t]]
           /\ Consumed(s, i)[s] = RemoveAt(port[s], i)
           /\ \A t \in Servers \ {s} : Consumed(s, i)[t] = port[t]
<1>1. port \in [Servers -> Seq(PortMessage)] /\ NotToItself
  BY DEF TInv, TypeOK
<1>2. /\ Consumed(s, i) = [t \in Servers |-> Consumed(s, i)[t]]
      /\ Consumed(s, i)[s] = RemoveAt(port[s], i)
      /\ \A t \in Servers \ {s} : Consumed(s, i)[t] = port[t]
  BY <1>1 DEF Consumed
<1>3. Within(s, RemoveAt(port[s], i)) /\ \A t \in Servers : Within(t, port[t])
  BY <1>1, SameWithin, RemoveWithin
<1> QED  BY <1>2, <1>3

\* The step that takes it changes no client and no listen thread.
LEMMA PortStepTypes ==
    ASSUME TInv, \A t \in Servers : Within(t, port'[t]), port' = [t \in Servers |-> port'[t]],
           UNCHANGED <<phase, serving, taken, log, client>>,
           articles' \in [Servers -> Seq(Article)], ack_num' \in [Servers -> Seq(Nat)],
           IsCoordinator' \in [Servers -> BOOLEAN], coordinatorIP' \in [Servers -> Servers],
           \A t \in Servers : IsCoordinator'[t] = (coordinatorIP'[t] = t),
           back' \subseteq [to : Servers, board : Board]
    PROVE  TInv'
<1>1. port' \in [Servers -> Seq(PortMessage)]
  BY PortsTyped
<1>2. ClientTypeOK'
  BY SameClient DEF TInv, TypeOK
<1>3. TypeOK'
  BY <1>1, <1>2 DEF TInv, TypeOK
<1>4. call' = call
  BY DEF client
<1> QED  BY <1>3, <1>4, RequestsKept DEF TInv

LEMMA IgnoreTypes ==
    ASSUME TInv, NEW s \in Servers, NEW i \in DOMAIN port[s], Ignore(s, i)
    PROVE  TInv'
<1>1. port' = Consumed(s, i)
      /\ UNCHANGED <<articles, IsCoordinator, coordinatorIP, ack_num, back, phase, serving, taken, log, client>>
  BY DEF Ignore
<1>2. (\A t \in Servers : Within(t, port'[t])) /\ port' = [t \in Servers |-> port'[t]]
  BY <1>1, ConsumedWithin
<1> QED  BY <1>1, <1>2, PortStepTypes DEF TInv, TypeOK

LEMMA MoveTypes ==
    ASSUME TInv, NEW s \in Servers, NEW i \in DOMAIN port[s], MoveX(s, i)
    PROVE  TInv'
<1>1. /\ port' = Consumed(s, i) /\ port[s][i].type = "moveX"
      /\ articles' = [articles EXCEPT ![s] = SortByID(@)]
      /\ back' = back \cup {[to |-> port[s][i].from, board |-> Sent(articles'[s])]}
      /\ UNCHANGED <<IsCoordinator, coordinatorIP, ack_num, phase, serving, taken, log, client>>
  BY ReceivableHere DEF MoveX
<1>2. TypeOK /\ articles' \in [Servers -> Seq(Article)] /\ Sent(articles'[s]) \in Board
  BY <1>1, SentBoard DEF TInv, TypeOK
<1>3. port[s][i].from \in Servers
  BY <1>1, ReceivedKind, Kinds
<1>4. back' \subseteq [to : Servers, board : Board]
  <2>1. back \subseteq [to : Servers, board : Board]
    BY <1>2 DEF TypeOK
  <2>2. [to |-> port[s][i].from, board |-> Sent(articles'[s])] \in [to : Servers, board : Board]
    BY <1>2, <1>3
  <2> QED  BY <1>1, <2>1, <2>2
<1>5. (\A t \in Servers : Within(t, port'[t])) /\ port' = [t \in Servers |-> port'[t]]
  BY <1>1, ConsumedWithin
<1> QED  BY <1>1, <1>2, <1>4, <1>5, PortStepTypes DEF TypeOK

LEMMA PrimaryChangeTypes ==
    ASSUME TInv, NEW s \in Servers, NEW i \in DOMAIN port[s], PrimaryChange(s, i)
    PROVE  TInv'
<1> DEFINE p == port[s][i].from
<1>1. /\ port' = Consumed(s, i) /\ port[s][i].type = "broadcastIP"
      /\ coordinatorIP' = [coordinatorIP EXCEPT ![s] = p]
      /\ IsCoordinator' = [IsCoordinator EXCEPT ![s] = FALSE]
      /\ UNCHANGED <<articles, ack_num, back, phase, serving, taken, log, client>>
  BY ReceivableHere DEF PrimaryChange, Demoted
<1>2. p \in Servers /\ p # s
  BY <1>1, ReceivedKind, Kinds DEF Allowed
<1> HIDE DEF p
<1>3. TypeOK
  BY DEF TInv
<1>4. /\ IsCoordinator' \in [Servers -> BOOLEAN] /\ coordinatorIP' \in [Servers -> Servers]
      /\ \A t \in Servers : IsCoordinator'[t] = (coordinatorIP'[t] = t)
  BY <1>1, <1>2, <1>3 DEF TypeOK
<1>5. (\A t \in Servers : Within(t, port'[t])) /\ port' = [t \in Servers |-> port'[t]]
  BY <1>1, ConsumedWithin
<1> QED  BY <1>1, <1>3, <1>4, <1>5, PortStepTypes DEF TypeOK

LEMMA UpdateTypes ==
    ASSUME TInv, NEW s \in Servers, NEW i \in DOMAIN port[s], Update(s, i)
    PROVE  TInv'
<1> DEFINE u  == port[s][i]
           ok == Accepts(articles[s], u)
           a  == [type |-> "ACK_up", from |-> s, req_num |-> u.req_num, ok |-> ok]
<1>1. /\ u.type = "update"
      /\ articles' = [articles EXCEPT ![s] = IF ok THEN Stored(@, u) ELSE @]
      /\ port' = [Consumed(s, i) EXCEPT ![u.from] = Append(@, a)]
      /\ UNCHANGED <<IsCoordinator, coordinatorIP, ack_num, back, phase, serving, taken, log, client>>
  BY ReceivableHere DEF Update
<1>2. /\ u \in PortMessage /\ u.from \in Servers /\ u.articleID \in Nat /\ u.post \in Post
      /\ u.req_num \in Nat \ {0}
  BY <1>1, ReceivedKind, Kinds
<1>3. TypeOK
  BY DEF TInv
<1>4. articles' \in [Servers -> Seq(Article)]
  <2>1. ok => Stored(articles[s], u) \in Seq(Article)
    BY <1>2, <1>3, StoredType DEF TypeOK
  <2> QED  BY <1>1, <1>3, <2>1 DEF TypeOK
<1>5. a \in PortMessage /\ a.type = "ACK_up"
  BY <1>2 DEF PortMessage, Accepts
<1>6. a \in Allowed(u.from) /\ a.type # "forward_req"
  BY <1>5 DEF Allowed
<1> HIDE DEF u, a, ok
<1>7. /\ \A t \in Servers : Within(t, Consumed(s, i)[t])
      /\ Consumed(s, i) = [t \in Servers |-> Consumed(s, i)[t]]
  BY ConsumedWithin
<1>8. /\ port'[u.from] = Append(Consumed(s, i)[u.from], a)
      /\ \A t \in Servers \ {u.from} : port'[t] = Consumed(s, i)[t]
      /\ port' = [t \in Servers |-> port'[t]]
  BY <1>1, <1>2, <1>7
<1>9. \A t \in Servers : Within(t, port'[t])
  <2>1. Within(u.from, port'[u.from])
    BY <1>2, <1>6, <1>7, <1>8, AppendWithin
  <2> QED  BY <1>7, <1>8, <2>1
<1> QED  BY <1>1, <1>3, <1>4, <1>8, <1>9, PortStepTypes DEF TypeOK

LEMMA AckTypes ==
    ASSUME TInv, NEW s \in Servers, NEW i \in DOMAIN port[s], AckUp(s, i)
    PROVE  TInv'
<1> DEFINE k == port[s][i].req_num
<1>1. /\ port' = Consumed(s, i) /\ port[s][i].type = "ACK_up"
      /\ \/ ack_num' = [ack_num EXCEPT ![s][k] = @ + 1]
         \/ ack_num' = ack_num
      /\ UNCHANGED <<articles, IsCoordinator, coordinatorIP, back, phase, serving, taken, log, client>>
  BY ReceivableHere DEF AckUp
<1> HIDE DEF k
<1>2. TypeOK /\ ack_num \in [Servers -> Seq(Nat)]
  BY DEF TInv, TypeOK
<1>3. [ack_num[s] EXCEPT ![k] = @ + 1] \in Seq(Nat)
  <2> DEFINE q == ack_num[s]
  <2>1. q \in [1..Len(q) -> Nat] /\ Len(q) \in Nat
    BY <1>2, LenProperties
  <2> HIDE DEF q
  <2>2. [q EXCEPT ![k] = @ + 1] \in [1..Len(q) -> Nat]
    <3>1. q[k] \in Nat \/ k \notin 1..Len(q)
      BY <2>1
    <3>2. q[k] \in Nat => q[k] + 1 \in Nat
      OBVIOUS
    <3> QED  BY <2>1, <3>1, <3>2
  <2>3. [q EXCEPT ![k] = @ + 1] \in Seq(Nat)
    BY <2>1, <2>2, IsASeq
  <2> QED  BY <2>3 DEF q
<1>4. ack_num' \in [Servers -> Seq(Nat)]
  BY <1>1, <1>2, <1>3
<1>5. (\A t \in Servers : Within(t, port'[t])) /\ port' = [t \in Servers |-> port'[t]]
  BY <1>1, ConsumedWithin
<1> QED  BY <1>1, <1>2, <1>4, <1>5, PortStepTypes DEF TypeOK

\* The listen thread hands the request it serves to a port.
LEMMA SendForwardTypes ==
    ASSUME TInv, NEW s \in Servers, SendForward(s)
    PROVE  TInv'
<1> DEFINE c == serving[s]
           m == [type |-> "forward_req", client |-> c, repID |-> call[c].repID, post |-> call[c].post]
           p == coordinatorIP[s]
<1>1. /\ phase[s] = "forward" /\ port' = [port EXCEPT ![p] = Append(@, m)]
      /\ phase' = [phase EXCEPT ![s] = "idle"] /\ serving' = [serving EXCEPT ![s] = NoClient]
      /\ UNCHANGED <<articles, IsCoordinator, coordinatorIP, ack_num, back, taken, log, client>>
  BY DEF SendForward
<1>2. TypeOK /\ ClientTypeOK /\ p \in Servers /\ port \in [Servers -> Seq(PortMessage)]
      /\ phase \in [Servers -> Phases] /\ serving \in [Servers -> Clients \cup {NoClient}]
  BY DEF TInv, TypeOK
<1>3. c \in Clients /\ c \in taken /\ call[c].op \in Writing /\ \A t \in Servers : ~Has(port[t], c)
  BY <1>1, <1>2 DEF TInv, TypeOK, ServedOnce
<1>4. call[c].repID \in RepID /\ call[c].post \in Post
  BY <1>2, <1>3 DEF ClientTypeOK
<1>5. m \in PortMessage /\ m.type = "forward_req" /\ m.client = c
  BY <1>3, <1>4 DEF PortMessage
<1>6. m \in Allowed(p)
  BY <1>5 DEF Allowed
<1> HIDE DEF m, p
<1>7. port[p] \in Seq(Allowed(p)) /\ port'[p] = Append(port[p], m)
      /\ \A t \in Servers \ {p} : port'[t] = port[t]
  BY <1>1, <1>2 DEF TInv, NotToItself
<1>8. \A t \in Servers : port'[t] \in Seq(Allowed(t))
  <2>1. port'[p] \in Seq(Allowed(p))
    BY <1>6, <1>7, AppendProperties
  <2> QED  BY <1>7, <2>1 DEF TInv, NotToItself
<1>9. port' \in [Servers -> Seq(PortMessage)]
  <2>1. \A t \in Servers : port'[t] \in Seq(PortMessage)
    BY <1>8, AllowedIsMessage
  <2> QED  BY <1>1, <1>2, <2>1
<1>10. /\ phase' \in [Servers -> Phases] /\ serving' \in [Servers -> Clients \cup {NoClient}]
       /\ \A t \in Servers : (phase'[t] = "idle") = (serving'[t] = NoClient)
  BY <1>1, <1>2 DEF TypeOK, Phases
<1>11. ClientTypeOK' /\ call' = call
  BY <1>1, <1>2, SameClient DEF client
<1>12. TypeOK'
  BY <1>1, <1>2, <1>9, <1>10, <1>11 DEF TypeOK
<1>13. NotToItself'
  BY <1>8 DEF NotToItself, Allowed
<1>14. ~Twice(port'[p], c)
  BY <1>2, <1>3, <1>6, <1>7, AppendRequest
<1>15. \A d \in Clients \ {c} : Fewer(port[p], port'[p], d)
  BY <1>5, <1>6, <1>7, AppendOther
<1>16. \A t \in Servers, d \in Clients :
         d # c \/ t # p => (Has(port'[t], d) => Has(port[t], d)) /\ (Twice(port'[t], d) => Twice(port[t], d))
  BY <1>7, <1>15 DEF Fewer
<1>17. InOnePort'
  <2>1. ASSUME NEW t \in Servers, NEW d \in Clients, Has(port'[t], d)
        PROVE  d \in taken' /\ call'[d].op \in Writing /\ ~Twice(port'[t], d)
    <3>1. CASE d = c /\ t = p
      BY <1>1, <1>3, <1>11, <1>14, <3>1
    <3>2. CASE d # c \/ t # p
      BY <1>1, <1>11, <1>16, <2>1, <3>2 DEF TInv, InOnePort
    <3> QED  BY <3>1, <3>2
  <2>2. ASSUME NEW t \in Servers, NEW r \in Servers, NEW d \in Clients, Has(port'[t], d), Has(port'[r], d)
        PROVE  t = r
    <3>1. CASE d = c
      BY <1>3, <1>16, <2>2, <3>1
    <3>2. CASE d # c
      BY <1>16, <2>2, <3>2 DEF TInv, InOnePort
    <3> QED  BY <3>1, <3>2
  <2> QED  BY <2>1, <2>2 DEF InOnePort
<1>18. \A t \in Servers : phase'[t] # "idle" =>
         t # s /\ phase[t] # "idle" /\ serving'[t] = serving[t] /\ serving[t] # c /\ serving[t] \in Clients
  <2>1. phase'[s] = "idle" /\ \A t \in Servers \ {s} : phase'[t] = phase[t] /\ serving'[t] = serving[t]
    BY <1>1, <1>2
  <2>2. \A t \in Servers \ {s} : phase[t] # "idle" => serving[t] # c /\ serving[t] \in Clients
    BY <1>1, <1>2 DEF TInv, ServedOnce, TypeOK
  <2> QED  BY <2>1, <2>2
<1> HIDE DEF c
<1>19. ServedOnce'
  <2> SUFFICES ASSUME NEW t \in Servers, phase'[t] # "idle"
               PROVE  /\ serving'[t] \in taken' /\ call'[serving'[t]].op \in Writing
                      /\ \A r \in Servers : /\ ~Has(port'[r], serving'[t])
                                            /\ phase'[r] # "idle" /\ serving'[r] = serving'[t] => t = r
    BY DEF ServedOnce
  <2>1. phase[t] # "idle" /\ serving'[t] = serving[t] /\ serving[t] # c /\ serving[t] \in Clients
    BY <1>18
  <2>2. /\ serving[t] \in taken /\ call[serving[t]].op \in Writing
        /\ \A r \in Servers : /\ ~Has(port[r], serving[t])
                              /\ phase[r] # "idle" /\ serving[r] = serving[t] => t = r
    BY <2>1 DEF TInv, ServedOnce
  <2>3. \A r \in Servers : ~Has(port'[r], serving[t])
    BY <1>16, <2>1, <2>2
  <2> QED  BY <1>1, <1>11, <1>18, <2>1, <2>2, <2>3
<1> QED  BY <1>12, <1>13, <1>17, <1>19 DEF TInv

\* What update_local, ACK_comp and forward_update do to the ports and boards.
Spreads(s, i, u) ==
    /\ u = [type |-> "update", from |-> s, req_num |-> FreeSlot(s),
            articleID |-> Len(articles[s]) + 1, repID |-> port[s][i].repID,
            post |-> port[s][i].post]
    /\ port' = [t \in Servers |-> IF t \in Peers(s) THEN Append(port[t], u) ELSE Consumed(s, i)[t]]
    /\ articles' = [articles EXCEPT ![s] = IF Accepts(articles[s], u) THEN Stored(@, u) ELSE @]
    /\ log' = IF Accepts(articles[s], u) THEN Append(log, port[s][i].post) ELSE log
    /\ Tell(port[s][i].client, Accepts(articles[s], u))

LEMMA ForwardParts ==
    ASSUME TInv, NEW s \in Servers, NEW i \in DOMAIN port[s], Forward(s, i)
    PROVE  /\ port[s][i].type = "forward_req" /\ port[s][i].client \in Clients
           /\ port[s][i].post \in Post
           /\ \E u \in PortMessage : /\ Spreads(s, i, u)
                                     /\ u.type = "update" /\ u.from = s /\ u.req_num = FreeSlot(s)
                                     /\ u.articleID = Len(articles[s]) + 1
                                     /\ u.repID = port[s][i].repID /\ u.post = port[s][i].post
           /\ taken' = taken \ {port[s][i].client}
           /\ ack_num' = [ack_num EXCEPT ![s] = IF FreeSlot(s) > Len(@) THEN Append(@, 0) ELSE @]
           /\ UNCHANGED <<IsCoordinator, coordinatorIP, back, phase, serving>>
<1> DEFINE u == [type |-> "update", from |-> s, req_num |-> FreeSlot(s),
                 articleID |-> Len(articles[s]) + 1, repID |-> port[s][i].repID,
                 post |-> port[s][i].post]
<1>1. /\ port[s][i].type = "forward_req" /\ Spreads(s, i, u)
      /\ taken' = taken \ {port[s][i].client}
      /\ ack_num' = [ack_num EXCEPT ![s] = IF FreeSlot(s) > Len(@) THEN Append(@, 0) ELSE @]
      /\ UNCHANGED <<IsCoordinator, coordinatorIP, back, phase, serving>>
  BY ReceivableHere DEF Forward, Spreads
<1>2. port[s][i].client \in Clients /\ port[s][i].repID \in RepID /\ port[s][i].post \in Post
  BY <1>1, ReceivedKind, Kinds
<1>3. Len(articles[s]) + 1 \in Nat
  BY LenProperties DEF TInv, TypeOK
<1>4. FreeSlot(s) \in Nat \ {0}
  <2>1. FreeSlot(s) \in 1..(Len(ack_num[s]) + 1)
    BY SlotType DEF TInv
  <2> QED  BY <2>1
<1>5. u \in PortMessage /\ u.type = "update" /\ u.from = s /\ u.req_num = FreeSlot(s)
      /\ u.articleID = Len(articles[s]) + 1 /\ u.repID = port[s][i].repID /\ u.post = port[s][i].post
  BY <1>2, <1>3, <1>4 DEF PortMessage
<1> HIDE DEF u
<1> QED  BY <1>1, <1>2, <1>5

LEMMA ForwardTypes ==
    ASSUME TInv, NEW s \in Servers, NEW i \in DOMAIN port[s], Forward(s, i)
    PROVE  TInv'
<1> DEFINE c == port[s][i].client
<1>1. PICK u \in PortMessage : Spreads(s, i, u) /\ u.type = "update" /\ u.from = s /\ u.req_num = FreeSlot(s)
        /\ u.articleID = Len(articles[s]) + 1 /\ u.repID = port[s][i].repID /\ u.post = port[s][i].post
  BY ForwardParts
<1>2. PICK ok \in BOOLEAN : ok = Accepts(articles[s], u)
  BY DEF Accepts
<1>3. /\ port[s][i].type = "forward_req" /\ c \in Clients /\ port[s][i].post \in Post
      /\ taken' = taken \ {c}
      /\ ack_num' = [ack_num EXCEPT ![s] = IF FreeSlot(s) > Len(@) THEN Append(@, 0) ELSE @]
      /\ port' = [t \in Servers |-> IF t \in Peers(s) THEN Append(port[t], u) ELSE Consumed(s, i)[t]]
      /\ articles' = [articles EXCEPT ![s] = IF ok THEN Stored(@, u) ELSE @]
      /\ log' = IF ok THEN Append(log, port[s][i].post) ELSE log
      /\ Tell(c, ok)
      /\ UNCHANGED <<IsCoordinator, coordinatorIP, back, phase, serving>>
  BY <1>1, <1>2, ForwardParts DEF Spreads
<1>4. Carries(port[s], i, c) /\ Has(port[s], c)
  BY <1>3 DEF Carries, Has
<1>5. TypeOK /\ ClientTypeOK /\ c \in taken /\ call[c].op \in Writing /\ ~Twice(port[s], c)
  BY <1>3, <1>4 DEF TInv, TypeOK, InOnePort
<1>6. ~Has(Consumed(s, i)[s], c)
  BY <1>4, <1>5, RemoveFewer, ConsumedWithin DEF TypeOK
<1> HIDE DEF c
<1>7. \A t \in Servers : Within(t, port'[t])
  <2> SUFFICES ASSUME NEW t \in Servers
               PROVE  Within(t, port'[t])
    OBVIOUS
  <2>1. CASE t = s
    BY <1>3, <2>1, ConsumedWithin DEF Peers
  <2>2. CASE t # s
    <3>1. port'[t] = Append(port[t], u)
      BY <1>3, <2>2 DEF Peers
    <3>2. Within(t, port[t]) /\ u \in Allowed(t) /\ u.type # "forward_req"
      BY <1>1, SameWithin DEF Allowed, TInv
    <3> QED  BY <3>1, <3>2, AppendWithin
  <2> QED  BY <2>1, <2>2
<1>8. port' \in [Servers -> Seq(PortMessage)]
  BY <1>3, <1>7, PortsTyped
<1>9. ClientTypeOK'
  BY <1>3, <1>5, TellType
<1>10. articles' \in [Servers -> Seq(Article)]
  <2>1. u.articleID \in Nat /\ u.post \in Post /\ articles[s] \in Seq(Article)
    BY <1>1, <1>5, Kinds DEF TypeOK
  <2>2. ok => Stored(articles[s], u) \in Seq(Article)
    BY <1>2, <2>1, StoredType
  <2> QED  BY <1>3, <1>5, <2>2 DEF TypeOK
<1>11. log' \in Seq(Post)
  BY <1>3, <1>5 DEF TypeOK
<1>12. ack_num' \in [Servers -> Seq(Nat)]
  <2>1. ack_num \in [Servers -> Seq(Nat)] /\ Append(ack_num[s], 0) \in Seq(Nat)
    BY <1>5 DEF TypeOK
  <2> QED  BY <1>3, <2>1
<1>13. TypeOK'
  BY <1>3, <1>5, <1>8, <1>9, <1>10, <1>11, <1>12 DEF TypeOK
<1>14. NotToItself'
  BY <1>7 DEF NotToItself, Within, Allowed
<1>15. \A t \in Servers, d \in Clients :
         (Has(port'[t], d) => Has(port[t], d)) /\ (Twice(port'[t], d) => Twice(port[t], d))
  BY <1>7 DEF Within, Fewer
<1>16. \A t \in Servers : ~Has(port'[t], c)
  <2>1. port'[s] = Consumed(s, i)[s]
    BY <1>3 DEF Peers
  <2>2. \A t \in Servers \ {s} : ~Has(port[t], c)
    BY <1>3, <1>4 DEF TInv, InOnePort
  <2> QED  BY <1>3, <1>6, <1>15, <2>1, <2>2
<1>17. \A d \in Clients \ {c} : call'[d] = call[d]
  BY <1>3, <1>5 DEF Tell, ClientTypeOK
<1>18. InOnePort'
  <2>1. ASSUME NEW t \in Servers, NEW d \in Clients, Has(port'[t], d)
        PROVE  d \in taken' /\ call'[d].op \in Writing /\ ~Twice(port'[t], d)
    <3>1. d # c /\ Has(port[t], d)
      BY <1>15, <1>16, <2>1
    <3>2. d \in taken /\ call[d].op \in Writing /\ ~Twice(port[t], d)
      BY <3>1 DEF TInv, InOnePort
    <3> QED  BY <1>3, <1>15, <1>17, <3>1, <3>2
  <2>2. ASSUME NEW t \in Servers, NEW r \in Servers, NEW d \in Clients, Has(port'[t], d), Has(port'[r], d)
        PROVE  t = r
    BY <1>15, <2>2 DEF TInv, InOnePort
  <2> QED  BY <2>1, <2>2 DEF InOnePort
<1>19. ServedOnce'
  <2> SUFFICES ASSUME NEW t \in Servers, phase'[t] # "idle"
               PROVE  /\ serving'[t] \in taken' /\ call'[serving'[t]].op \in Writing
                      /\ \A r \in Servers : /\ ~Has(port'[r], serving'[t])
                                            /\ phase'[r] # "idle" /\ serving'[r] = serving'[t] => t = r
    BY DEF ServedOnce
  <2>1. phase[t] # "idle" /\ serving'[t] = serving[t] /\ serving[t] \in Clients
    BY <1>3, <1>5 DEF TypeOK
  <2>2. /\ serving[t] \in taken /\ call[serving[t]].op \in Writing
        /\ \A r \in Servers : /\ ~Has(port[r], serving[t])
                              /\ phase[r] # "idle" /\ serving[r] = serving[t] => t = r
    BY <2>1 DEF TInv, ServedOnce
  <2>3. serving[t] # c
    BY <1>4, <2>2
  <2> QED  BY <1>3, <1>15, <1>17, <2>1, <2>2, <2>3
<1> QED  BY <1>13, <1>14, <1>18, <1>19 DEF TInv

LEMMA TypesKept == TInv /\ [Next]_vars => TInv'
<1> SUFFICES ASSUME TInv, [Next]_vars
             PROVE  TInv'
  OBVIOUS
<1>1. CASE ClientStep
  BY <1>1, ClientTypes
<1>2. CASE ListenStep
  <2>1. \/ \E s \in Servers, c \in Clients :
             Post_handler(c, s) \/ Reply_handler(c, s) \/ Read_handler(c, s)
        \/ \E s \in Servers, m \in back : ReceiveBoard(s, m)
        \/ \E s \in Servers : SendForward(s)
        \/ \E m \in back : DropBoard(m)
    BY <1>2 DEF ListenStep
  <2> QED  BY <2>1, WriteTypes, ReadTypes, ReceiveBoardTypes, SendForwardTypes, DropTypes
<1>3. CASE PrimaryPortStep
  BY <1>3, IgnoreTypes, MoveTypes, PrimaryChangeTypes, ForwardTypes, UpdateTypes, AckTypes
     DEF PrimaryPortStep
<1>4. CASE UNCHANGED vars
  <2>1. UNCHANGED server /\ UNCHANGED client
    BY <1>4 DEF vars
  <2>2. TypeOK'
    BY <2>1, SameClient DEF TInv, TypeOK, server
  <2>3. \A t \in Servers : Within(t, port'[t])
    BY <2>1, SameWithin DEF TInv, server
  <2>4. call' = call /\ phase' = phase /\ serving' = serving /\ taken' = taken
    BY <2>1 DEF client, server
  <2> QED  BY <2>2, <2>3, <2>4, RequestsKept DEF TInv
<1> QED  BY <1>1, <1>2, <1>3, <1>4 DEF Next

(* The state keeps its shape, in whatever order the datagrams arrive and        *)
(* however the requests overlap: a server takes itself for the coordinator      *)
(* exactly when it acts as one, and so never asks itself for the board, which   *)
(* the one thread of its PRIMARYPORT could not answer while it waits; and a     *)
(* listen thread works for a client exactly while it is in a write.             *)
THEOREM TypeCorrect == Spec => []TypeOK
<1>1. TInv => TypeOK
  BY DEF TInv
<1> QED  BY <1>1, InitTypes, TypesKept, PTL DEF Spec

----------------------------------------------------------------------------
(* Requests that settle one by one.  A write goes through stages: the board    *)
(* moves to the server s written at, s leads and hands the request to itself,  *)
(* and spreads the update; between two requests all is calm.                   *)

Port(s) == Named(port[s])

Matching(a) == Len(a) = Len(log) /\ \A i \in DOMAIN a : a[i].ID = i /\ a[i].post = log[i]
AllSame == \A s, t \in Servers : articles[s] = articles[t] /\ Matching(articles[s])

Full(n) == n = 0 \/ n = N - 1
Slots   == \A s \in Servers : \A i \in DOMAIN ack_num[s] : Full(ack_num[s][i])

OneAtATime ==
    /\ \A s \in Servers : Distinct(port[s])
    /\ \A c, d \in Clients : call[c] # NoCall /\ call[d] # NoCall => c = d
    /\ \A t \in told : t.ok => \E i \in DOMAIN log : log[i] = t.post

Resting       == \A s \in Servers : phase[s] = "idle"
OnlyIn(s, ph) == phase[s] = ph /\ \A t \in Servers \ {s} : phase[t] = "idle"

Request(s)   == [type |-> "moveX", from |-> s]
Change(s)    == [type |-> "broadcastIP", from |-> s]
Answer(p, s) == [to |-> s, board |-> Sent(articles[p])]

Calm ==
    /\ AllSame /\ Slots /\ Resting /\ back = {}
    /\ \A s \in Servers : Port(s) = {}
    /\ \E p \in Servers : \A s \in Servers : coordinatorIP[s] = p

Moving(p, s) ==
    /\ AllSame /\ Slots /\ OnlyIn(s, "moving") /\ p # s
    /\ \A t \in Servers : coordinatorIP[t] = p
    /\ \A t \in Servers \ {p} : Port(t) = {}
    /\ \/ back = {} /\ Port(p) \subseteq {Request(s)}
       \/ back = {Answer(p, s)} /\ Port(p) = {}

\* Every server knows the coordinator s, or is being told.
Heard(s)      == coordinatorIP[s] = s /\ \A t \in Servers : Change(s) \in Port(t) \/ coordinatorIP[t] = s
OnlyChange(s) == \A t \in Servers \ {s} : Port(t) \subseteq {Change(s)}

Leading(s) ==
    /\ AllSame /\ Slots /\ OnlyIn(s, "forward") /\ back = {}
    /\ Heard(s) /\ OnlyChange(s) /\ Port(s) = {}

Asked(s) ==
    /\ AllSame /\ Slots /\ Resting /\ back = {}
    /\ Heard(s) /\ OnlyChange(s)
    /\ \E m \in Port(s) : /\ m.type = "forward_req" /\ m.post = call[m.client].post
                          /\ Port(s) = {m}

\* The update u spreads from s; b is the board it was made for.  A server has
\* it to do, has it acknowledged, or has it counted in the slot of the request.
After(b, u)    == IF Accepts(b, u) THEN Stored(b, u) ELSE b
Acked(t, u, b) == [type |-> "ACK_up", from |-> t, req_num |-> u.req_num, ok |-> Accepts(b, u)]
Counted(s, u, b) == {t \in Peers(s) : u \notin Port(t) /\ Acked(t, u, b) \notin Port(s)}

UpdateOf(s, u) == u \in PortMessage /\ u.type = "update" /\ u.from = s

Pending(s, u, b) ==
    /\ \A t \in Servers \ {s} :
         /\ \A m \in Port(t) : m = u \/ m = Change(s)
         /\ articles[t] = IF u \in Port(t) THEN b ELSE articles[s]
         /\ u \in Port(t) => Acked(t, u, b) \notin Port(s)
    /\ \A m \in Port(s) : \E t \in Servers \ {s} : m = Acked(t, u, b)

Tally(s, u, b) ==
    /\ u.req_num \in DOMAIN ack_num[s]
    /\ ack_num[s][u.req_num] = IF Accepts(b, u) THEN Cardinality(Counted(s, u, b)) ELSE 0
    /\ \A t \in Servers : \A i \in DOMAIN ack_num[t] :
         (t = s /\ i = u.req_num) \/ Full(ack_num[t][i])

Spreading(s, u, b) ==
    /\ Resting /\ back = {} /\ Heard(s) /\ \A c \in Clients : call[c] = NoCall
    /\ UpdateOf(s, u) /\ b \in Seq(Article)
    /\ articles[s] = After(b, u) /\ Matching(articles[s])
    /\ Pending(s, u, b) /\ Tally(s, u, b)

Stage ==
    \/ Calm
    \/ \E p, s \in Servers : Moving(p, s)
    \/ \E s \in Servers : Leading(s)
    \/ \E s \in Servers : Asked(s)
    \/ \E s \in Servers : \E u, b : Spreading(s, u, b)

BInv == TInv /\ OneAtATime /\ Stage

----------------------------------------------------------------------------
(* What a step does to the ports, taken as sets.                               *)

LEMMA PortTypes ==
    ASSUME TInv, NEW s \in Servers
    PROVE  port[s] \in Seq(PortMessage) /\ Port(s) \subseteq PortMessage
           /\ (Port(s) = {} <=> port[s] = <<>>)
<1>1. port[s] \in Seq(PortMessage)
  BY DEF TInv, TypeOK
<1>2. \A i \in DOMAIN port[s] : port[s][i] \in PortMessage
  BY <1>1, ElementOfSeq, LenProperties
<1>3. DOMAIN port[s] = {} => port[s] = <<>>
  <2>1. Len(port[s]) \in Nat /\ DOMAIN port[s] = 1..Len(port[s])
    BY <1>1, LenProperties
  <2>2. DOMAIN port[s] = {} => Len(port[s]) = 0
    BY <2>1
  <2> QED  BY <1>1, <2>2, EmptySeq
<1>4. port[s] = <<>> => DOMAIN port[s] = {}
  OBVIOUS
<1>5. Port(s) \subseteq PortMessage /\ (Port(s) = {} <=> DOMAIN port[s] = {})
  BY <1>2 DEF Port, Named
<1> QED  BY <1>1, <1>3, <1>4, <1>5

Apart == \A t \in Servers : Distinct(port[t])

\* The datagram m is taken from the port of s.
Takes(s, m) ==
    /\ m \in Port(s) /\ Apart'
    /\ Named(port'[s]) = Port(s) \ {m}
    /\ \A t \in Servers \ {s} : Named(port'[t]) = Port(t)

LEMMA ConsumedSet ==
    ASSUME TInv, Apart, NEW s \in Servers, NEW i \in DOMAIN port[s]
    PROVE  /\ port[s][i] \in Port(s)
           /\ Consumed(s, i)[s] \in Seq(PortMessage) /\ Distinct(Consumed(s, i)[s])
           /\ Named(Consumed(s, i)[s]) = Port(s) \ {port[s][i]}
           /\ \A t \in Servers \ {s} : Consumed(s, i)[t] = port[t]
<1>1. port[s] \in Seq(PortMessage) /\ Distinct(port[s])
  BY PortTypes DEF Apart
<1>2. Consumed(s, i)[s] = RemoveAt(port[s], i) /\ \A t \in Servers \ {s} : Consumed(s, i)[t] = port[t]
  BY ConsumedWithin
<1>3. /\ RemoveAt(port[s], i) \in Seq(PortMessage) /\ Distinct(RemoveAt(port[s], i))
      /\ Named(RemoveAt(port[s], i)) = Named(port[s]) \ {port[s][i]}
  BY <1>1, RemoveNamed
<1>4. port[s][i] \in Port(s)
  BY DEF Port, Named
<1> QED  BY <1>2, <1>3, <1>4 DEF Port

LEMMA TakesIt ==
    ASSUME TInv, Apart, NEW s \in Servers, NEW i \in DOMAIN port[s], port' = Consumed(s, i)
    PROVE  Takes(s, port[s][i])
BY ConsumedSet DEF Takes, Apart, Port

\* A datagram x is sent to t.
LEMMA AppendSet ==
    ASSUME TInv, NEW t \in Servers, Distinct(port[t]),
           NEW x \in PortMessage, x \notin Port(t), port'[t] = Append(port[t], x)
    PROVE  Named(port'[t]) = Port(t) \cup {x} /\ Distinct(port'[t])
<1>1. port[t] \in Seq(PortMessage)
  BY PortTypes
<1> QED  BY <1>1, AppendNamed DEF Port

MoveEffect(s, m) ==
    /\ m.type = "moveX" /\ IsCoordinator[s] /\ Takes(s, m)
    /\ articles' = [articles EXCEPT ![s] = SortByID(@)]
    /\ back' = back \cup {[to |-> m.from, board |-> Sent(articles'[s])]}
    /\ UNCHANGED <<IsCoordinator, coordinatorIP, ack_num, phase, serving, taken, log, client>>

ChangeEffect(s, m) ==
    /\ m.type = "broadcastIP" /\ Takes(s, m)
    /\ coordinatorIP' = [coordinatorIP EXCEPT ![s] = m.from]
    /\ UNCHANGED <<articles, ack_num, back, phase, serving, taken, log, client>>

AckEffect(s, m) ==
    /\ m.type = "ACK_up" /\ IsCoordinator[s] /\ Takes(s, m)
    /\ ack_num' = IF m.ok THEN [ack_num EXCEPT ![s][m.req_num] = @ + 1] ELSE ack_num
    /\ UNCHANGED <<articles, IsCoordinator, coordinatorIP, back, phase, serving, taken, log, client>>

UpdateEffect(s, m) ==
    /\ m.type = "update" /\ m \in Port(s)
    /\ articles' = [articles EXCEPT ![s] = IF Accepts(@, m) THEN Stored(@, m) ELSE @]
    /\ LET a == [type |-> "ACK_up", from |-> s, req_num |-> m.req_num, ok |-> Accepts(articles[s], m)]
       IN  m.from # s /\ a \notin Port(m.from) =>
             /\ Apart' /\ Named(port'[s]) = Port(s) \ {m}
             /\ Named(port'[m.from]) = Port(m.from) \cup {a}
             /\ \A t \in Servers \ {s, m.from} : Named(port'[t]) = Port(t)
    /\ UNCHANGED <<IsCoordinator, coordinatorIP, ack_num, back, phase, serving, taken, log, client>>

ForwardEffect(s, m, u) ==
    /\ m.type = "forward_req" /\ m \in Port(s) /\ IsCoordinator[s]
    /\ UpdateOf(s, u) /\ u.req_num = FreeSlot(s) /\ u.articleID = Len(articles[s]) + 1
    /\ u.repID = m.repID /\ u.post = m.post
    /\ articles' = [articles EXCEPT ![s] = After(@, u)]
    /\ log' = IF Accepts(articles[s], u) THEN Append(log, m.post) ELSE log
    /\ Tell(m.client, Accepts(articles[s], u))
    /\ (\A t \in Servers : u \notin Port(t)) =>
         /\ Apart' /\ Named(port'[s]) = Port(s) \ {m}
         /\ \A t \in Servers \ {s} : Named(port'[t]) = Port(t) \cup {u}
    /\ taken' = taken \ {m.client}
    /\ ack_num' = [ack_num EXCEPT ![s] = IF FreeSlot(s) > Len(@) THEN Append(@, 0) ELSE @]
    /\ UNCHANGED <<IsCoordinator, coordinatorIP, back, phase, serving>>

IgnoreEffect(s, m) ==
    m.type \in {"moveX", "forward_req", "ACK_up"} /\ ~IsCoordinator[s] /\ m \in Port(s)

PortEffect(s, m) ==
    \/ IgnoreEffect(s, m) \/ MoveEffect(s, m) \/ ChangeEffect(s, m)
    \/ AckEffect(s, m) \/ UpdateEffect(s, m) \/ \E u : ForwardEffect(s, m, u)

LEMMA UpdateActs ==
    ASSUME TInv, Apart, NEW s \in Servers, NEW i \in DOMAIN port[s], Update(s, i)
    PROVE  UpdateEffect(s, port[s][i])
<1> DEFINE u == port[s][i]
           a == [type |-> "ACK_up", from |-> s, req_num |-> u.req_num, ok |-> Accepts(articles[s], u)]
<1>1. /\ u.type = "update" /\ u \in Port(s)
      /\ articles' = [articles EXCEPT ![s] = IF Accepts(articles[s], u) THEN Stored(@, u) ELSE @]
      /\ port' = [Consumed(s, i) EXCEPT ![u.from] = Append(@, a)]
      /\ UNCHANGED <<IsCoordinator, coordinatorIP, ack_num, back, phase, serving, taken, log, client>>
  BY ReceivableHere, ConsumedSet DEF Update
<1>2. u \in PortMessage /\ u.from \in Servers /\ u.req_num \in Nat \ {0}
  BY <1>1, ReceivedKind, Kinds
<1>3. a \in PortMessage
  BY <1>2 DEF PortMessage, Accepts
<1>4. /\ Consumed(s, i) = [t \in Servers |-> Consumed(s, i)[t]]
      /\ Distinct(Consumed(s, i)[s]) /\ Named(Consumed(s, i)[s]) = Port(s) \ {u}
      /\ \A t \in Servers \ {s} : Consumed(s, i)[t] = port[t]
  BY ConsumedSet, ConsumedWithin
<1> HIDE DEF a, u
<1>5. ASSUME u.from # s, a \notin Port(u.from)
      PROVE  /\ Apart' /\ Named(port'[s]) = Port(s) \ {u}
             /\ Named(port'[u.from]) = Port(u.from) \cup {a}
             /\ \A t \in Servers \ {s, u.from} : Named(port'[t]) = Port(t)
  <2>1. port'[s] = Consumed(s, i)[s] /\ port'[u.from] = Append(port[u.from], a)
        /\ \A t \in Servers \ {s, u.from} : port'[t] = port[t]
    BY <1>1, <1>2, <1>4, <1>5
  <2>2. Named(port'[u.from]) = Port(u.from) \cup {a} /\ Distinct(port'[u.from])
    BY <1>2, <1>3, <1>5, <2>1, AppendSet DEF Apart
  <2> QED  BY <1>4, <2>1, <2>2 DEF Apart, Port
<1> QED  BY <1>1, <1>5 DEF UpdateEffect, a, u

LEMMA ForwardActs ==
    ASSUME TInv, Apart, NEW s \in Servers, NEW i \in DOMAIN port[s], Forward(s, i)
    PROVE  \E u : ForwardEffect(s, port[s][i], u)
<1> DEFINE m == port[s][i]
<1>1. PICK u \in PortMessage : Spreads(s, i, u) /\ u.type = "update" /\ u.from = s /\ u.req_num = FreeSlot(s)
        /\ u.articleID = Len(articles[s]) + 1 /\ u.repID = m.repID /\ u.post = m.post
  BY ForwardParts
<1>2. /\ m.type = "forward_req" /\ m \in Port(s) /\ taken' = taken \ {m.client}
      /\ ack_num' = [ack_num EXCEPT ![s] = IF FreeSlot(s) > Len(@) THEN Append(@, 0) ELSE @]
      /\ UNCHANGED <<IsCoordinator, coordinatorIP, back, phase, serving>>
      /\ IsCoordinator[s]
  <2>1. m \in Port(s)
    BY ConsumedSet
  <2>2. IsCoordinator[s]
    BY DEF Forward
  <2> QED  BY <2>1, <2>2, ForwardParts
<1>3. /\ port' = [t \in Servers |-> IF t \in Peers(s) THEN Append(port[t], u) ELSE Consumed(s, i)[t]]
      /\ articles' = [articles EXCEPT ![s] = After(@, u)]
      /\ log' = IF Accepts(articles[s], u) THEN Append(log, m.post) ELSE log
      /\ Tell(m.client, Accepts(articles[s], u))
  BY <1>1 DEF Spreads, After
<1>4. /\ Distinct(Consumed(s, i)[s]) /\ Named(Consumed(s, i)[s]) = Port(s) \ {m}
  BY ConsumedSet
<1> HIDE DEF m
<1>5. ASSUME \A t \in Servers : u \notin Port(t)
      PROVE  /\ Apart' /\ Named(port'[s]) = Port(s) \ {m}
             /\ \A t \in Servers \ {s} : Named(port'[t]) = Port(t) \cup {u}
  <2>1. port'[s] = Consumed(s, i)[s]
    BY <1>3 DEF Peers
  <2>2. ASSUME NEW t \in Servers \ {s}
        PROVE  Named(port'[t]) = Port(t) \cup {u} /\ Distinct(port'[t])
    <3>1. port'[t] = Append(port[t], u)
      BY <1>3 DEF Peers
    <3> QED  BY <1>1, <1>5, <3>1, AppendSet DEF Apart
  <2> QED  BY <1>4, <2>1, <2>2 DEF Apart
<1>6. UpdateOf(s, u)
  BY <1>1 DEF UpdateOf
<1>7. ForwardEffect(s, m, u)
  BY <1>1, <1>2, <1>3, <1>5, <1>6 DEF ForwardEffect
<1> QED  BY <1>7 DEF m

LEMMA PortActs ==
    ASSUME TInv, Apart, PrimaryPortStep
    PROVE  \E s \in Servers, m \in PortMessage : PortEffect(s, m)
<1>1. PICK s \in Servers : \E i \in DOMAIN port[s] :
         \/ Ignore(s, i) \/ MoveX(s, i) \/ PrimaryChange(s, i)
         \/ Forward(s, i) \/ Update(s, i) \/ AckUp(s, i)
  BY DEF PrimaryPortStep
<1>2. PICK i \in DOMAIN port[s] :
         \/ Ignore(s, i) \/ MoveX(s, i) \/ PrimaryChange(s, i)
         \/ Forward(s, i) \/ Update(s, i) \/ AckUp(s, i)
  BY <1>1
<1>3. PICK m \in PortMessage : m = port[s][i]
  BY ReceivedKind
<1>4. m \in Port(s)
  BY <1>3, ConsumedSet
<1>5. CASE Ignore(s, i)
  <2>1. IgnoreEffect(s, m)
    BY <1>3, <1>4, <1>5, ReceivableHere DEF Ignore, IgnoreEffect
  <2> QED  BY <2>1 DEF PortEffect
<1>6. CASE MoveX(s, i)
  <2>1. MoveEffect(s, m)
    BY <1>3, <1>6, ReceivableHere, TakesIt DEF MoveX, MoveEffect
  <2> QED  BY <2>1 DEF PortEffect
<1>7. CASE PrimaryChange(s, i)
  <2>1. ChangeEffect(s, m)
    BY <1>3, <1>7, ReceivableHere, TakesIt DEF PrimaryChange, ChangeEffect
  <2> QED  BY <2>1 DEF PortEffect
<1>8. CASE Forward(s, i)
  BY <1>3, <1>8, ForwardActs DEF PortEffect
<1>9. CASE Update(s, i)
  BY <1>3, <1>9, UpdateActs DEF PortEffect
<1>10. CASE AckUp(s, i)
  <2>1. AckEffect(s, m)
    BY <1>3, <1>10, ReceivableHere, TakesIt DEF AckUp, AckEffect
  <2> QED  BY <2>1 DEF PortEffect
<1> QED  BY <1>2, <1>5, <1>6, <1>7, <1>8, <1>9, <1>10

----------------------------------------------------------------------------
(* Boards that match the log.                                                 *)

LEMMA MatchingBoard ==
    ASSUME NEW a \in Seq(Article), Matching(a)
    PROVE  SortByID(a) = a /\ Loaded(Sent(a)) = a /\ (Sent(a) = <<>> => a = <<>>)
<1>1. DOMAIN a = 1..Len(a) /\ Len(a) \in Nat /\ \A i \in DOMAIN a : a[i] \in Article
  BY LenProperties, ElementOfSeq
<1>2. \A i \in DOMAIN a : a[i].ID = i
  BY DEF Matching
<1>3. SortByID(a) = a
  BY <1>2, ArticleFields, SortOfNumbered
<1>4. DOMAIN Sent(a) = DOMAIN a
      /\ \A i \in DOMAIN a : Sent(a)[i].post = a[i].post /\ Sent(a)[i].hierachy = a[i].hierachy
  BY DEF Sent
<1>5. DOMAIN Loaded(Sent(a)) = DOMAIN a /\ \A i \in DOMAIN a : Loaded(Sent(a))[i] = a[i]
  <2>1. DOMAIN Loaded(Sent(a)) = DOMAIN a
    BY <1>4 DEF Loaded
  <2>2. ASSUME NEW i \in DOMAIN a
        PROVE  Loaded(Sent(a))[i] = a[i]
    <3>1. Loaded(Sent(a))[i] = [ID |-> i, hierachy |-> a[i].hierachy, post |-> a[i].post]
      BY <1>4 DEF Loaded
    <3>2. a[i] = [ID |-> a[i].ID, hierachy |-> a[i].hierachy, post |-> a[i].post]
      BY <1>1 DEF Article
    <3> QED  BY <1>2, <3>1, <3>2
  <2> QED  BY <2>1, <2>2
<1>6. Loaded(Sent(a)) = a
  <2>1. Sent(a) \in Seq(Entry)
    BY ArticleFields, SentType
  <2>2. Loaded(Sent(a)) \in Seq(Article)
    BY <2>1, LoadedType DEF Board, Entry
  <2> QED  BY <1>1, <1>5, <2>2, SeqEqual, LenProperties
<1>7. Sent(a) = <<>> => a = <<>>
  <2>1. Sent(a) = <<>> => DOMAIN a = {}
    BY <1>4
  <2>2. DOMAIN a = {} => Len(a) = 0
    BY <1>1
  <2> QED  BY <2>1, <2>2, EmptySeq
<1> QED  BY <1>3, <1>6, <1>7

\* The board with the article of an update, and the log with its post.
LEMMA StoredMatches ==
    ASSUME TypeOK, NEW a \in Seq(Article), Matching(a), NEW u \in PortMessage, u.type = "update",
           u.articleID = Len(a) + 1,
           log' = IF Accepts(a, u) THEN Append(log, u.post) ELSE log
    PROVE  Matching(After(a, u))' /\ \A i \in DOMAIN log : i \in DOMAIN log' /\ log'[i] = log[i]
<1> DEFINE x == [ID |-> u.articleID, hierachy |-> Hierachy(a, u), post |-> u.post]
           n == Len(a)
<1>1. log \in Seq(Post) /\ u.post \in Post /\ u.articleID \in Nat
  BY Kinds DEF TypeOK
<1>2. CASE ~Accepts(a, u)
  BY <1>2 DEF After, Matching
<1>3. CASE Accepts(a, u)
  <2>1. Hierachy(a, u) \in Nat
    BY <1>3, ArticleFields, HierachyType
  <2>2. x \in Article /\ x.ID = n + 1 /\ x.post = u.post
    BY <1>1, <2>1 DEF Article
  <2>3. After(a, u) = Append(a, x) /\ log' = Append(log, u.post)
    BY <1>3 DEF After, Stored
  <2> HIDE DEF x
  <2>4. n \in Nat /\ Len(log) = n /\ DOMAIN a = 1..n /\ DOMAIN log = 1..n
        /\ \A i \in 1..n : a[i].ID = i /\ a[i].post = log[i]
    BY <1>1, LenProperties DEF Matching
  <2>5. PICK b : b = Append(a, x)
    OBVIOUS
  <2>6. /\ Len(b) = n + 1 /\ DOMAIN b = 1..(n + 1) /\ b[n + 1] = x
        /\ \A i \in 1..n : b[i] = a[i]
    BY <2>2, <2>4, <2>5, AppendProperties
  <2>7. /\ Len(log') = n + 1 /\ DOMAIN log' = 1..(n + 1) /\ log'[n + 1] = u.post
        /\ \A i \in 1..n : log'[i] = log[i]
    BY <1>1, <2>3, <2>4, AppendProperties
  <2> HIDE DEF n
  <2>8. \A i \in 1..(n + 1) : b[i].ID = i /\ b[i].post = log'[i]
    <3> SUFFICES ASSUME NEW i \in 1..(n + 1)
                 PROVE  b[i].ID = i /\ b[i].post = log'[i]
      OBVIOUS
    <3>1. CASE i = n + 1
      BY <2>2, <2>6, <2>7, <3>1
    <3>2. CASE i # n + 1
      <4>1. i \in 1..n
        BY <2>4, <3>2
      <4> QED  BY <2>4, <2>6, <2>7, <4>1
    <3> QED  BY <3>1, <3>2
  <2>9. Matching(b)'
    BY <2>6, <2>7, <2>8 DEF Matching
  <2> QED  BY <2>3, <2>4, <2>5, <2>7, <2>9
<1> QED  BY <1>2, <1>3

----------------------------------------------------------------------------
(* The stages, one by one.                                                     *)

LEMMA InitStage == Init => BInv
<1> SUFFICES ASSUME Init
             PROVE  BInv
  OBVIOUS
<1>1. TInv
  BY InitTypes
<1>2. /\ articles = [s \in Servers |-> <<>>] /\ port = [s \in Servers |-> <<>>] /\ back = {}
      /\ ack_num = [s \in Servers |-> [i \in 1..InitialSlots |-> 0]]
      /\ phase = [s \in Servers |-> "idle"] /\ coordinatorIP = [s \in Servers |-> Primary]
      /\ log = <<>> /\ told = {} /\ call = [c \in Clients |-> NoCall]
  BY DEF Init, ClientInit
<1>3. \A s \in Servers : Port(s) = {} /\ Distinct(port[s])
  BY <1>2 DEF Port, Named, Distinct
<1>4. OneAtATime
  BY <1>2, <1>3 DEF OneAtATime
<1>5. AllSame /\ Slots /\ Resting
  BY <1>2 DEF AllSame, Matching, Slots, Full, Resting
<1>6. Calm
  BY <1>2, <1>3, <1>5, ClientAssumption DEF Calm
<1> QED  BY <1>1, <1>4, <1>6 DEF BInv, Stage

\* Nobody waits for an answer but the client whose request is under way.
LEMMA NoHandler ==
    ASSUME TInv, OneAtATime, NEW d \in Clients, d \in taken, call[d] # NoCall,
           NEW c \in Clients, NEW s \in Servers, NEW op \in {"POST", "REPLY", "READ"}
    PROVE  ~Queued(c, s, op)
<1>1. ~(call[c].op = op /\ c \notin taken)
  BY NoCallType DEF OneAtATime, Writing, NoCall
<1> QED  BY <1>1 DEF Queued

LEMMA ServedCalls ==
    ASSUME TInv
    PROVE  /\ \A s \in Servers : phase[s] # "idle" =>
                serving[s] \in Clients /\ serving[s] \in taken /\ call[serving[s]] # NoCall
           /\ \A s \in Servers : \A m \in Port(s) : m.type = "forward_req" =>
                m.client \in Clients /\ m.client \in taken /\ call[m.client] # NoCall
                /\ call[m.client].op \in Writing
<1>1. \A s \in Servers : phase[s] # "idle" =>
        serving[s] \in Clients /\ serving[s] \in taken /\ call[serving[s]] # NoCall
  BY NoCallType DEF TInv, TypeOK, ServedOnce
<1>2. ASSUME NEW s \in Servers, NEW m \in Port(s), m.type = "forward_req"
      PROVE  m.client \in Clients /\ m.client \in taken /\ call[m.client] # NoCall
             /\ call[m.client].op \in Writing
  <2>1. m.client \in Clients
    BY <1>2, PortTypes, Kinds
  <2>2. PICK i \in DOMAIN port[s] : m = port[s][i]
    BY DEF Port, Named
  <2>3. Has(port[s], m.client)
    BY <1>2, <2>2 DEF Has, Carries
  <2> QED  BY <2>1, <2>3, NoCallType DEF TInv, InOnePort
<1> QED  BY <1>1, <1>2

\* A request begins when all is calm.
LEMMA BeginsCalm ==
    ASSUME BInv, NEW c \in Clients, NEW s \in Servers, NEW op \in {"POST", "REPLY", "READ"},
           Queued(c, s, op)
    PROVE  Calm
<1>1. TInv /\ OneAtATime /\ Stage /\ call[c] # NoCall
  BY NoCallType DEF BInv, Queued, Writing
<1>2. \A d \in Clients : d \in taken => call[d] = NoCall
  BY <1>1, NoHandler
<1>3. \A t \in Servers : phase[t] = "idle" /\ \A m \in Port(t) : m.type # "forward_req"
  BY <1>1, <1>2, ServedCalls
<1>4. \A t \in Servers : ~Leading(t) /\ (\A p \in Servers : ~Moving(p, t))
  BY <1>3 DEF Leading, Moving, OnlyIn
<1>5. \A t \in Servers : ~Asked(t)
  BY <1>3 DEF Asked
<1>6. \A t \in Servers : \A u, b : ~Spreading(t, u, b)
  BY <1>1 DEF Spreading
<1> QED  BY <1>1, <1>4, <1>5, <1>6 DEF Stage

\* The posts that clients were told of are in the log.
ToldLogged == \A t \in told : t.ok => \E i \in DOMAIN log : log[i] = t.post
OneCalls   == \A c, d \in Clients : call[c] # NoCall /\ call[d] # NoCall => c = d

LEMMA CalmHolds ==
    ASSUME Calm, UNCHANGED server
    PROVE  Calm'
<1>1. /\ articles' = articles /\ log' = log /\ ack_num' = ack_num /\ phase' = phase
      /\ back' = back /\ port' = port /\ coordinatorIP' = coordinatorIP
  BY DEF server
<1>2. AllSame' /\ Slots' /\ Resting'
  BY <1>1 DEF Calm, AllSame, Matching, Slots, Full, N, Resting
<1>3. \A s \in Servers : Named(port'[s]) = {}
  BY <1>1 DEF Calm, Port
<1> QED  BY <1>1, <1>2, <1>3 DEF Calm, Port

LEMMA ReadKeeps ==
    ASSUME BInv, NEW c \in Clients, NEW s \in Servers, Read_handler(c, s)
    PROVE  OneAtATime' /\ Stage' /\ articles' = articles /\ Calm
<1>1. /\ Queued(c, s, "READ") /\ Show(c, articles'[s])
      /\ articles' = [articles EXCEPT ![s] = SortByID(@)]
      /\ UNCHANGED <<IsCoordinator, coordinatorIP, ack_num, port, back, phase, serving, taken, log>>
  BY DEF Read_handler
<1>2. Calm /\ TypeOK /\ ClientTypeOK
  BY <1>1, BeginsCalm DEF BInv, TInv, TypeOK
<1>3. articles' = articles
  <2>1. articles[s] \in Seq(Article) /\ Matching(articles[s])
    BY <1>2 DEF Calm, AllSame, TypeOK
  <2>2. SortByID(articles[s]) = articles[s]
    BY <2>1, MatchingBoard
  <2> QED  BY <1>1, <1>2, <2>2 DEF TypeOK
<1>4. UNCHANGED <<articles, log, ack_num, phase, back, port, coordinatorIP>>
  BY <1>1, <1>3
<1>5. UNCHANGED server
  BY <1>1, <1>3 DEF server
<1>6. Stage'
  BY <1>2, <1>5, CalmHolds DEF Stage
<1>7. call' = [call EXCEPT ![c] = NoCall] /\ told' = told
  BY <1>1 DEF Show
<1>8. OneAtATime'
  BY <1>1, <1>2, <1>7 DEF OneAtATime, BInv, Distinct, ClientTypeOK
<1> QED  BY <1>2, <1>3, <1>6, <1>8

LEMMA BeginKeeps ==
    ASSUME BInv, NEW c \in Clients, NEW s \in Servers, Post_handler(c, s) \/ Reply_handler(c, s)
    PROVE  OneAtATime' /\ Stage'
<1>1. (Queued(c, s, "POST") \/ Queued(c, s, "REPLY")) /\ BeginWrite(c, s) /\ phase[s] = "idle"
  BY DEF Post_handler, Reply_handler, Queued
<1>2. Calm /\ TInv /\ OneAtATime
  BY <1>1, BeginsCalm DEF BInv
<1>3. /\ UNCHANGED <<articles, IsCoordinator, coordinatorIP, ack_num, back, log>>
      /\ call' = call /\ told' = told
      /\ IF IsCoordinator[s]
         THEN phase' = [phase EXCEPT ![s] = "forward"] /\ port' = port
         ELSE /\ phase' = [phase EXCEPT ![s] = "moving"]
              /\ port' = [port EXCEPT ![coordinatorIP[s]] = Append(@, Request(s))]
  BY <1>1 DEF BeginWrite, client, Request
<1>4. PICK p \in Servers : \A t \in Servers : coordinatorIP[t] = p
  BY <1>2 DEF Calm
<1>5. IsCoordinator[s] = (p = s) /\ phase \in [Servers -> Phases] /\ port \in [Servers -> Seq(PortMessage)]
  BY <1>2, <1>4 DEF TInv, TypeOK
<1>6. AllSame' /\ Slots'
  BY <1>2, <1>3 DEF Calm, AllSame, Matching, Slots, Full, N
<1>7. \A t \in Servers : Port(t) = {} /\ phase[t] = "idle" /\ Distinct(port[t])
  BY <1>2 DEF Calm, Resting, OneAtATime
<1>8. CASE p = s
  <2>1. phase' = [phase EXCEPT ![s] = "forward"] /\ port' = port
    BY <1>3, <1>5, <1>8
  <2>2. OnlyIn(s, "forward")'
    BY <1>5, <1>7, <2>1 DEF OnlyIn
  <2>3. \A t \in Servers : Named(port'[t]) = {}
    BY <1>7, <2>1 DEF Port
  <2>4. Leading(s)'
    BY <1>2, <1>3, <1>4, <1>6, <1>8, <2>2, <2>3 DEF Leading, Heard, OnlyChange, Port, Calm
  <2>5. OneAtATime'
    BY <1>2, <1>3, <2>1 DEF OneAtATime, Distinct
  <2> QED  BY <2>4, <2>5 DEF Stage
<1>9. CASE p # s
  <2>1. phase' = [phase EXCEPT ![s] = "moving"] /\ port' = [port EXCEPT ![p] = Append(@, Request(s))]
    BY <1>3, <1>4, <1>5, <1>9
  <2>2. Request(s) \in PortMessage
    BY DEF Request, PortMessage
  <2>3. /\ port'[p] = Append(port[p], Request(s)) /\ Request(s) \notin Port(p)
        /\ \A t \in Servers \ {p} : port'[t] = port[t]
    BY <1>5, <1>7, <2>1
  <2>4. Named(port'[p]) = {Request(s)} /\ Distinct(port'[p])
    BY <1>2, <1>7, <2>2, <2>3, AppendSet
  <2>5. \A t \in Servers \ {p} : Named(port'[t]) = {}
    BY <1>7, <2>3 DEF Port
  <2>6. OnlyIn(s, "moving")'
    BY <1>5, <1>7, <2>1 DEF OnlyIn
  <2>7. \A t \in Servers : coordinatorIP'[t] = p
    BY <1>3, <1>4
  <2>8. back' = {}
    BY <1>2, <1>3 DEF Calm
  <2>9. Moving(p, s)'
    BY <1>6, <1>9, <2>4, <2>5, <2>6, <2>7, <2>8 DEF Moving, Port, Request
  <2>10. \A t \in Servers : Distinct(port'[t])
    BY <1>7, <2>3, <2>4
  <2>11. OneAtATime'
    BY <1>2, <1>3, <2>10 DEF OneAtATime
  <2> QED  BY <2>9, <2>11 DEF Stage
<1> QED  BY <1>8, <1>9

LEMMA ReceiveKeeps ==
    ASSUME BInv, NEW s \in Servers, NEW m \in back, ReceiveBoard(s, m)
    PROVE  OneAtATime' /\ Stage'
<1>1. /\ phase[s] = "moving" /\ back' = back \ {m} /\ m.to = s
      /\ articles' = [articles EXCEPT ![s] = IF m.board = <<>> THEN @ ELSE Loaded(m.board)]
      /\ coordinatorIP' = [coordinatorIP EXCEPT ![s] = s]
      /\ port' = [t \in Servers |-> IF t \in Peers(s) THEN Append(port[t], Change(s)) ELSE port[t]]
      /\ phase' = [phase EXCEPT ![s] = "forward"]
      /\ UNCHANGED <<ack_num, serving, taken, log>>
      /\ call' = call /\ told' = told
  BY DEF ReceiveBoard, Broadcast, Change, client
<1>2. TInv /\ OneAtATime /\ TypeOK
  BY DEF BInv, TInv
<1>3. PICK p \in Servers : Moving(p, s)
  <2>1. ~Calm /\ (\A t \in Servers : ~Leading(t) /\ ~Asked(t) /\ \A u, b : ~Spreading(t, u, b))
    BY DEF Calm, Leading, Asked, Spreading
  <2>2. PICK p \in Servers, t \in Servers : Moving(p, t)
    BY <2>1 DEF BInv, Stage
  <2>3. t = s
    BY <1>1, <2>2 DEF Moving, OnlyIn
  <2> QED  BY <2>2, <2>3
<1>4. /\ AllSame /\ Slots /\ OnlyIn(s, "moving") /\ back = {Answer(p, s)} /\ m = Answer(p, s)
      /\ \A t \in Servers : Port(t) = {}
  BY <1>3 DEF Moving
<1>5. articles' = articles
  <2>1. m.board = Sent(articles[p]) /\ articles[p] = articles[s] /\ Matching(articles[s])
        /\ articles[s] \in Seq(Article)
    BY <1>2, <1>4 DEF Answer, AllSame, TypeOK
  <2>2. Loaded(m.board) = articles[s]
    BY <2>1, MatchingBoard
  <2> QED  BY <1>1, <1>2, <2>2 DEF TypeOK
<1>6. AllSame' /\ Slots'
  BY <1>1, <1>4, <1>5 DEF AllSame, Matching, Slots, Full, N
<1>7. OnlyIn(s, "forward")' /\ back' = {}
  BY <1>1, <1>2, <1>4 DEF OnlyIn, TypeOK
<1>8. Change(s) \in PortMessage
  BY DEF Change, PortMessage
<1>9. Named(port'[s]) = {} /\ Distinct(port'[s])
  BY <1>1, <1>2, <1>4 DEF Peers, Port, OneAtATime
<1>10. ASSUME NEW t \in Servers \ {s}
       PROVE  Named(port'[t]) = {Change(s)} /\ Distinct(port'[t])
  <2>1. port'[t] = Append(port[t], Change(s)) /\ Change(s) \notin Port(t) /\ Distinct(port[t])
    BY <1>1, <1>2, <1>4 DEF Peers, OneAtATime
  <2>2. Named(port'[t]) = Port(t) \cup {Change(s)} /\ Distinct(port'[t])
    BY <1>2, <1>8, <2>1, AppendSet
  <2> QED  BY <1>4, <2>2
<1>11. coordinatorIP'[s] = s
  BY <1>1, <1>2 DEF TypeOK
<1>12. Leading(s)'
  BY <1>6, <1>7, <1>9, <1>10, <1>11 DEF Leading, Heard, OnlyChange, Port, Change
<1>13. \A t \in Servers : Distinct(port'[t])
  BY <1>9, <1>10
<1>14. OneAtATime'
  BY <1>1, <1>2, <1>13 DEF OneAtATime
<1> QED  BY <1>12, <1>14 DEF Stage

LEMMA DropKeeps ==
    ASSUME BInv, NEW m \in back, DropBoard(m)
    PROVE  OneAtATime' /\ Stage'
<1>1. /\ back' = back \ {m}
      /\ UNCHANGED <<articles, coordinatorIP, ack_num, port, phase, log>>
      /\ call' = call /\ told' = told
  BY DEF DropBoard, client
<1>2. PICK p \in Servers, s \in Servers : Moving(p, s)
  <2>1. ~Calm /\ (\A t \in Servers : ~Leading(t) /\ ~Asked(t) /\ \A u, b : ~Spreading(t, u, b))
    BY DEF Calm, Leading, Asked, Spreading
  <2> QED  BY <2>1 DEF BInv, Stage
<1>3. /\ AllSame /\ Slots /\ OnlyIn(s, "moving") /\ p # s /\ back = {Answer(p, s)}
      /\ \A t \in Servers : Port(t) = {} /\ coordinatorIP[t] = p
  BY <1>2 DEF Moving
<1>4. AllSame' /\ Slots' /\ OnlyIn(s, "moving")' /\ back' = {}
  BY <1>1, <1>3 DEF AllSame, Matching, Slots, Full, N, OnlyIn
<1>5. \A t \in Servers : Named(port'[t]) = {} /\ coordinatorIP'[t] = p
  BY <1>1, <1>3 DEF Port
<1>6. Moving(p, s)'
  BY <1>3, <1>4, <1>5 DEF Moving, Port
<1>7. OneAtATime'
  BY <1>1 DEF BInv, OneAtATime, Distinct
<1> QED  BY <1>6, <1>7 DEF Stage

LEMMA SendKeeps ==
    ASSUME BInv, NEW s \in Servers, SendForward(s)
    PROVE  OneAtATime' /\ Stage'
<1> DEFINE c == serving[s]
           m == [type |-> "forward_req", client |-> c, repID |-> call[c].repID, post |-> call[c].post]
<1>1. /\ phase[s] = "forward" /\ port' = [port EXCEPT ![coordinatorIP[s]] = Append(@, m)]
      /\ phase' = [phase EXCEPT ![s] = "idle"]
      /\ UNCHANGED <<articles, coordinatorIP, ack_num, back, log>>
      /\ call' = call /\ told' = told
  BY DEF SendForward, client
<1>2. TInv /\ OneAtATime /\ TypeOK /\ ClientTypeOK
  BY DEF BInv, TInv, TypeOK
<1>3. Leading(s)
  <2>1. ~Calm /\ (\A t \in Servers : ~Asked(t) /\ \A u, b : ~Spreading(t, u, b))
    BY <1>1 DEF Calm, Resting, Asked, Spreading
  <2>2. \A p, t \in Servers : ~Moving(p, t)
    BY <1>1 DEF Moving, OnlyIn
  <2>3. PICK t \in Servers : Leading(t)
    BY <2>1, <2>2 DEF BInv, Stage
  <2>4. t = s
    BY <1>1, <2>3 DEF Leading, OnlyIn
  <2> QED  BY <2>3, <2>4
<1>4. AllSame' /\ Slots' /\ Resting' /\ back' = {} /\ coordinatorIP[s] = s
  BY <1>1, <1>2, <1>3
     DEF Leading, Heard, AllSame, Matching, Slots, Full, N, OnlyIn, Resting, TypeOK
<1>5. m \in PortMessage /\ m.type = "forward_req" /\ m.post = call[m.client].post
  <2>1. c \in Clients /\ call[c].op \in Writing
    BY <1>1, <1>2 DEF TInv, TypeOK, ServedOnce
  <2>2. call[c].repID \in RepID /\ call[c].post \in Post
    BY <1>2, <2>1 DEF ClientTypeOK
  <2> QED  BY <2>1, <2>2 DEF PortMessage
<1> HIDE DEF m
<1>6. port'[s] = Append(port[s], m) /\ \A t \in Servers \ {s} : port'[t] = port[t]
  BY <1>1, <1>2, <1>4 DEF TypeOK
<1>7. Named(port'[s]) = {m} /\ Distinct(port'[s])
  <2>1. Port(s) = {} /\ Distinct(port[s])
    BY <1>2, <1>3 DEF Leading, OneAtATime
  <2>2. m \notin Port(s)
    BY <2>1
  <2> QED  BY <1>2, <1>5, <1>6, <2>1, <2>2, AppendSet
<1>8. \A t \in Servers \ {s} : Named(port'[t]) = Port(t)
  BY <1>6 DEF Port
<1>9. Change(s).type = "broadcastIP"
  BY DEF Change
<1>10. Heard(s)' /\ OnlyChange(s)'
  BY <1>1, <1>3, <1>4, <1>5, <1>7, <1>8, <1>9 DEF Leading, Heard, OnlyChange, Port, Change
<1>11. Asked(s)'
  BY <1>1, <1>4, <1>5, <1>7, <1>10 DEF Asked, Port
<1>12. \A t \in Servers : Distinct(port'[t])
  BY <1>2, <1>6, <1>7 DEF OneAtATime
<1>13. OneAtATime'
  BY <1>1, <1>2, <1>12 DEF OneAtATime
<1> QED  BY <1>11, <1>13 DEF Stage

\* What a server may find in its port tells the stage.
LEMMA Finds ==
    ASSUME BInv, NEW s \in Servers, NEW m \in Port(s)
    PROVE  \/ /\ m.type = "moveX" /\ coordinatorIP[s] = s
              /\ \E r \in Servers : Moving(s, r) /\ m = Request(r)
           \/ /\ m.type = "broadcastIP"
              /\ \E r \in Servers \ {s} : /\ m = Change(r)
                                          /\ Leading(r) \/ Asked(r) \/ \E u, b : Spreading(r, u, b)
           \/ m.type = "forward_req" /\ coordinatorIP[s] = s /\ Asked(s) /\ Port(s) = {m}
           \/ m.type = "update" /\ \E r \in Servers \ {s} : \E b : Spreading(r, m, b)
           \/ /\ m.type = "ACK_up" /\ coordinatorIP[s] = s
              /\ \E t \in Servers \ {s} : \E u, b : Spreading(s, u, b) /\ m = Acked(t, u, b)
<1>1. /\ \A r : Request(r).type = "moveX" /\ Change(r).type = "broadcastIP"
      /\ \A t, u, b : Acked(t, u, b).type = "ACK_up"
  BY DEF Request, Change, Acked
<1>2. CASE Calm
  BY <1>2 DEF Calm
<1>3. CASE \E p, r \in Servers : Moving(p, r)
  <2>1. PICK p \in Servers, r \in Servers : Moving(p, r)
    BY <1>3
  <2>2. s = p /\ m = Request(r) /\ coordinatorIP[s] = s
    BY <2>1 DEF Moving
  <2> QED  BY <1>1, <2>1, <2>2
<1>4. CASE \E r \in Servers : Leading(r)
  <2>1. PICK r \in Servers : Leading(r)
    BY <1>4
  <2>2. s # r /\ m = Change(r)
    BY <2>1 DEF Leading, OnlyChange
  <2> QED  BY <1>1, <2>1, <2>2
<1>5. CASE \E r \in Servers : Asked(r)
  <2>1. PICK r \in Servers : Asked(r)
    BY <1>5
  <2>2. CASE s = r
    BY <2>1, <2>2 DEF Asked, Heard
  <2>3. CASE s # r
    <3>1. m = Change(r)
      BY <2>1, <2>3 DEF Asked, OnlyChange
    <3> QED  BY <1>1, <2>1, <2>3, <3>1
  <2> QED  BY <2>2, <2>3
<1>6. CASE \E r \in Servers : \E u, b : Spreading(r, u, b)
  <2>1. PICK r \in Servers : \E u, b : Spreading(r, u, b)
    BY <1>6
  <2>2. PICK u, b : Spreading(r, u, b)
    BY <2>1
  <2>3. CASE s = r
    <3>1. PICK t \in Servers \ {s} : m = Acked(t, u, b)
      BY <2>2, <2>3 DEF Spreading, Pending
    <3>2. coordinatorIP[s] = s
      BY <2>2, <2>3 DEF Spreading, Heard
    <3> QED  BY <1>1, <2>2, <2>3, <3>1, <3>2
  <2>4. CASE s # r
    <3>1. m = u \/ m = Change(r)
      BY <2>2, <2>4 DEF Spreading, Pending
    <3>2. u.type = "update"
      BY <2>2 DEF Spreading, UpdateOf
    <3> QED  BY <1>1, <2>2, <2>4, <3>1, <3>2
  <2> QED  BY <2>3, <2>4
<1> QED  BY <1>2, <1>3, <1>4, <1>5, <1>6 DEF BInv, Stage

LEMMA MoveKeeps ==
    ASSUME BInv, NEW s \in Servers, NEW m \in PortMessage, MoveEffect(s, m)
    PROVE  OneAtATime' /\ Stage'
<1>1. /\ m.type = "moveX" /\ m \in Port(s) /\ Takes(s, m)
      /\ articles' = [articles EXCEPT ![s] = SortByID(@)]
      /\ back' = back \cup {[to |-> m.from, board |-> Sent(articles'[s])]}
      /\ UNCHANGED <<coordinatorIP, ack_num, phase, log>>
      /\ call' = call /\ told' = told
  BY DEF MoveEffect, Takes, client
<1>2. PICK r \in Servers : Moving(s, r) /\ m = Request(r)
  BY <1>1, Finds
<1>3. /\ AllSame /\ Slots /\ OnlyIn(r, "moving") /\ s # r /\ back = {} /\ Port(s) = {m}
      /\ \A t \in Servers : coordinatorIP[t] = s
      /\ \A t \in Servers \ {s} : Port(t) = {}
  BY <1>1, <1>2 DEF Moving
<1>4. articles' = articles
  <2>1. articles \in [Servers -> Seq(Article)] /\ articles[s] \in Seq(Article) /\ Matching(articles[s])
    BY <1>3 DEF BInv, TInv, TypeOK, AllSame
  <2>2. SortByID(articles[s]) = articles[s]
    BY <2>1, MatchingBoard
  <2> QED  BY <1>1, <2>1, <2>2
<1>5. AllSame' /\ Slots' /\ OnlyIn(r, "moving")'
  BY <1>1, <1>3, <1>4 DEF AllSame, Matching, Slots, Full, N, OnlyIn
<1>6. \A t \in Servers : Named(port'[t]) = {} /\ coordinatorIP'[t] = s
  BY <1>1, <1>3 DEF Takes
<1>7. back' = {Answer(s, r)'}
  BY <1>1, <1>2, <1>3 DEF Answer, Request
<1>8. Moving(s, r)'
  BY <1>3, <1>5, <1>6, <1>7 DEF Moving, Port
<1>9. OneAtATime'
  BY <1>1 DEF BInv, OneAtATime, Takes, Apart
<1> QED  BY <1>8, <1>9 DEF Stage

LEMMA ChangeKeeps ==
    ASSUME BInv, NEW s \in Servers, NEW m \in PortMessage, ChangeEffect(s, m)
    PROVE  OneAtATime' /\ Stage'
<1>1. /\ m.type = "broadcastIP" /\ m \in Port(s) /\ Takes(s, m)
      /\ coordinatorIP' = [coordinatorIP EXCEPT ![s] = m.from]
      /\ UNCHANGED <<articles, ack_num, back, phase, log>>
      /\ call' = call /\ told' = told
  BY DEF ChangeEffect, Takes, client
<1>2. PICK r \in Servers \ {s} : m = Change(r) /\ (Leading(r) \/ Asked(r) \/ \E u, b : Spreading(r, u, b))
  BY <1>1, Finds
<1>3. m.from = r /\ coordinatorIP \in [Servers -> Servers]
  BY <1>2 DEF Change, BInv, TInv, TypeOK
<1>4. /\ Named(port'[s]) = Port(s) \ {m} /\ \A t \in Servers \ {s} : Named(port'[t]) = Port(t)
  BY <1>1 DEF Takes
<1>5. ASSUME Heard(r)
      PROVE  Heard(r)'
  <2>1. coordinatorIP'[s] = r /\ \A t \in Servers \ {s} : coordinatorIP'[t] = coordinatorIP[t]
    BY <1>1, <1>3
  <2> QED  BY <1>2, <1>4, <1>5, <2>1 DEF Heard, Port, Change
<1>6. ASSUME OnlyChange(r)
      PROVE  OnlyChange(r)'
  BY <1>4, <1>6 DEF OnlyChange, Port, Change
<1>7. /\ AllSame => AllSame'
      /\ Slots => Slots'
      /\ Resting => Resting'
      /\ OnlyIn(r, "forward") => OnlyIn(r, "forward")'
  BY <1>1 DEF AllSame, Matching, Slots, Full, N, Resting, OnlyIn
<1>8. OneAtATime'
  BY <1>1 DEF BInv, OneAtATime, Takes, Apart
<1>9. CASE Leading(r)
  <2>1. Named(port'[r]) = {}
    BY <1>2, <1>4, <1>9 DEF Leading
  <2>2. Leading(r)'
    BY <1>1, <1>5, <1>6, <1>7, <1>9, <2>1 DEF Leading, Port
  <2> QED  BY <1>8, <2>2 DEF Stage
<1>10. CASE Asked(r)
  <2>1. Named(port'[r]) = Port(r)
    BY <1>2, <1>4
  <2>2. Asked(r)'
    BY <1>1, <1>5, <1>6, <1>7, <1>10, <2>1 DEF Asked, Port
  <2> QED  BY <1>8, <2>2 DEF Stage
<1>11. CASE \E u, b : Spreading(r, u, b)
  <2>1. PICK u, b : Spreading(r, u, b)
    BY <1>11
  <2>2. u # m
    BY <1>1, <2>1 DEF Spreading, UpdateOf
  <2>3. Named(port'[r]) = Port(r)
        /\ \A t \in Servers \ {r} : Named(port'[t]) \subseteq Port(t) /\ (u \in Named(port'[t]) <=> u \in Port(t))
    BY <1>2, <1>4, <2>2
  <2>4. Pending(r, u, b)'
    BY <1>1, <2>1, <2>3 DEF Spreading, Pending, Port, Acked, Change
  <2>5. Counted(r, u, b)' = Counted(r, u, b)
    BY <2>3 DEF Counted, Peers, Port, Acked
  <2>6. Tally(r, u, b)'
    BY <1>1, <2>1, <2>5 DEF Spreading, Tally, Full, N
  <2>7. Spreading(r, u, b)'
    BY <1>1, <1>5, <1>7, <2>1, <2>4, <2>6 DEF Spreading, UpdateOf, After, Matching
  <2> QED  BY <1>8, <2>7 DEF Stage
<1> QED  BY <1>2, <1>9, <1>10, <1>11

LEMMA IgnoreNever ==
    ASSUME BInv, NEW s \in Servers, NEW m \in PortMessage, IgnoreEffect(s, m)
    PROVE  FALSE
<1>1. coordinatorIP[s] = s
  BY Finds DEF IgnoreEffect
<1> QED  BY <1>1 DEF BInv, TInv, TypeOK, IgnoreEffect

LEMMA ForwardKeeps ==
    ASSUME BInv, NEW s \in Servers, NEW m \in PortMessage, NEW u, ForwardEffect(s, m, u)
    PROVE  OneAtATime' /\ Stage'
<1>1. /\ m.type = "forward_req" /\ m \in Port(s) /\ UpdateOf(s, u) /\ u.req_num = FreeSlot(s)
      /\ u.articleID = Len(articles[s]) + 1 /\ u.post = m.post
      /\ articles' = [articles EXCEPT ![s] = After(@, u)]
      /\ log' = IF Accepts(articles[s], u) THEN Append(log, m.post) ELSE log
      /\ ack_num' = [ack_num EXCEPT ![s] = IF FreeSlot(s) > Len(@) THEN Append(@, 0) ELSE @]
      /\ Tell(m.client, Accepts(articles[s], u))
      /\ UNCHANGED <<coordinatorIP, back, phase>>
  BY DEF ForwardEffect
<1>2. TypeOK /\ ClientTypeOK /\ TInv /\ OneAtATime
  BY DEF BInv, TInv, TypeOK
<1>3. Asked(s) /\ Port(s) = {m} /\ m.post = call[m.client].post
  BY <1>1, Finds DEF Asked
<1>4. /\ AllSame /\ Slots /\ Resting /\ back = {} /\ Heard(s) /\ OnlyChange(s)
  BY <1>3 DEF Asked
<1>5. PICK b : b = articles[s]
  OBVIOUS
<1>6. b \in Seq(Article) /\ Matching(b) /\ \A t \in Servers : articles[t] = b
  BY <1>2, <1>4, <1>5 DEF TypeOK, AllSame
<1>7. u \in PortMessage /\ u.type = "update" /\ u.from = s
  BY <1>1 DEF UpdateOf
<1>8. \A t \in Servers : u \notin Port(t)
  BY <1>1, <1>3, <1>4, <1>7 DEF OnlyChange, Change
<1>9. /\ Apart' /\ Named(port'[s]) = {}
      /\ \A t \in Servers \ {s} : Named(port'[t]) = Port(t) \cup {u}
  BY <1>3, <1>8 DEF ForwardEffect
<1>10. /\ articles'[s] = After(b, u) /\ \A t \in Servers \ {s} : articles'[t] = b
       /\ log' = IF Accepts(b, u) THEN Append(log, u.post) ELSE log
  BY <1>1, <1>2, <1>5, <1>6 DEF TypeOK
<1>11. Matching(After(b, u))' /\ \A i \in DOMAIN log : i \in DOMAIN log' /\ log'[i] = log[i]
  BY <1>1, <1>2, <1>5, <1>6, <1>7, <1>10, StoredMatches
<1>12. Matching(articles[s])'
  BY <1>10, <1>11 DEF Matching
<1>13. Pending(s, u, b)'
  <2>1. ASSUME NEW t \in Servers \ {s}
        PROVE  /\ \A x \in Named(port'[t]) : x = u \/ x = Change(s)
               /\ articles'[t] = IF u \in Named(port'[t]) THEN b ELSE articles'[s]
    BY <1>4, <1>9, <1>10 DEF OnlyChange
  <2> QED  BY <1>9, <2>1 DEF Pending, Port, Change
<1>14. Tally(s, u, b)'
  <2>1. \A t \in Peers(s) : u \in Named(port'[t])
    BY <1>9 DEF Peers
  <2>2. Counted(s, u, b)' = {}
    BY <2>1 DEF Counted, Port, Peers
  <2>3. Cardinality(Counted(s, u, b)') = 0
    BY <2>2, FS_EmptySet
  <2>4. /\ ack_num'[s] = IF FreeSlot(s) > Len(ack_num[s]) THEN Append(ack_num[s], 0) ELSE ack_num[s]
        /\ \A t \in Servers \ {s} : ack_num'[t] = ack_num[t]
        /\ ack_num[s] \in Seq(Nat)
    BY <1>1, <1>2 DEF TypeOK
  <2>5. /\ FreeSlot(s) \in 1..(Len(ack_num[s]) + 1)
        /\ FreeSlot(s) \in DOMAIN ack_num[s] => ack_num[s][FreeSlot(s)] = 0
    BY <1>2, SlotType
  <2>6. PICK k, n : k = FreeSlot(s) /\ n = Len(ack_num[s])
    OBVIOUS
  <2>7. n \in Nat /\ DOMAIN ack_num[s] = 1..n /\ k \in 1..(n + 1)
    BY <2>4, <2>5, <2>6, LenProperties
  <2>8. /\ k \in DOMAIN ack_num'[s] /\ ack_num'[s][k] = 0
        /\ \A i \in DOMAIN ack_num'[s] : i = k \/ (i \in DOMAIN ack_num[s] /\ ack_num'[s][i] = ack_num[s][i])
    <3>1. CASE k > n
      <4>1. k = n + 1 /\ ack_num'[s] = Append(ack_num[s], 0)
        BY <2>4, <2>6, <2>7, <3>1
      <4>2. /\ DOMAIN Append(ack_num[s], 0) = 1..(n + 1) /\ Append(ack_num[s], 0)[n + 1] = 0
            /\ \A i \in 1..n : Append(ack_num[s], 0)[i] = ack_num[s][i]
        BY <2>4, <2>6, AppendProperties, LenProperties
      <4> QED  BY <2>7, <4>1, <4>2
    <3>2. CASE ~(k > n)
      BY <2>4, <2>5, <2>6, <2>7, <3>2
    <3> QED  BY <3>1, <3>2
  <2>9. \A i \in DOMAIN ack_num'[s] : i = k \/ Full(ack_num'[s][i])
    BY <1>4, <2>8 DEF Slots, Full, N
  <2>10. \A t \in Servers \ {s} : \A i \in DOMAIN ack_num'[t] : Full(ack_num'[t][i])
    BY <1>4, <2>4 DEF Slots, Full, N
  <2> QED  BY <1>1, <2>3, <2>6, <2>8, <2>9, <2>10 DEF Tally, Full, N
<1>15. Resting' /\ back' = {} /\ UpdateOf(s, u)
  BY <1>1, <1>4 DEF Resting
<1>16. Heard(s)'
  <2>1. \A t \in Servers : Change(s) \in Port(t) => Change(s) \in Named(port'[t])
    BY <1>1, <1>3, <1>9 DEF Change
  <2> QED  BY <1>1, <1>4, <2>1 DEF Heard, Port, Change
<1>17. call' = [call EXCEPT ![m.client] = NoCall] /\ call[m.client] # NoCall /\ m.client \in Clients
       /\ told' = told \cup {[client |-> m.client, post |-> call[m.client].post,
                              ok |-> Accepts(articles[s], u)]}
  BY <1>1, <1>2, ServedCalls DEF Tell
<1>18. \A c \in Clients : call'[c] = NoCall
  BY <1>2, <1>17 DEF OneAtATime, ClientTypeOK
<1>19. Spreading(s, u, b)'
  BY <1>6, <1>10, <1>12, <1>13, <1>14, <1>15, <1>16, <1>18 DEF Spreading, UpdateOf, After
<1>20. ASSUME NEW t \in told', t.ok
       PROVE  \E i \in DOMAIN log' : log'[i] = t.post
  <2>1. CASE t \in told
    BY <1>2, <1>11, <1>20, <2>1 DEF OneAtATime
  <2>2. CASE t \notin told
    <3>1. t.post = m.post /\ t.ok = Accepts(articles[s], u)
      BY <1>3, <1>17, <2>2
    <3>2. Accepts(b, u)
      BY <1>5, <1>20, <3>1
    <3>3. log \in Seq(Post) /\ u.post \in Post /\ log' = Append(log, u.post)
      BY <1>2, <1>7, <1>10, <3>2, Kinds DEF TypeOK
    <3>4. Len(log) + 1 \in DOMAIN Append(log, u.post) /\ Append(log, u.post)[Len(log) + 1] = u.post
      BY <3>3, AppendProperties, LenProperties
    <3> QED  BY <1>1, <3>1, <3>3, <3>4
  <2> QED  BY <2>1, <2>2
<1>21. OneAtATime'
  BY <1>9, <1>18, <1>20 DEF OneAtATime, Apart
<1> QED  BY <1>19, <1>21 DEF Stage

LEMMA UpdateKeeps ==
    ASSUME BInv, NEW s \in Servers, NEW m \in PortMessage, UpdateEffect(s, m)
    PROVE  OneAtATime' /\ Stage'
<1>1. /\ m.type = "update" /\ m \in Port(s)
      /\ articles' = [articles EXCEPT ![s] = IF Accepts(@, m) THEN Stored(@, m) ELSE @]
      /\ UNCHANGED <<coordinatorIP, ack_num, back, phase, log>>
      /\ call' = call /\ told' = told
  BY DEF UpdateEffect, client
<1>2. PICK r \in Servers \ {s} : \E b : Spreading(r, m, b)
  BY <1>1, Finds
<1>3. PICK b : Spreading(r, m, b)
  BY <1>2
<1>4. /\ Resting /\ back = {} /\ Heard(r) /\ (\A c \in Clients : call[c] = NoCall)
      /\ UpdateOf(r, m) /\ b \in Seq(Article)
      /\ articles[r] = After(b, m) /\ Matching(articles[r]) /\ Pending(r, m, b) /\ Tally(r, m, b)
  BY <1>3 DEF Spreading
<1>5. articles[s] = b /\ Acked(s, m, b) \notin Port(r) /\ m.from = r
  BY <1>1, <1>2, <1>4 DEF Pending, UpdateOf
<1>6. PICK a : a = Acked(s, m, b)
  OBVIOUS
<1>7. /\ Apart' /\ Named(port'[s]) = Port(s) \ {m} /\ Named(port'[r]) = Port(r) \cup {a}
      /\ \A t \in Servers \ {s, r} : Named(port'[t]) = Port(t)
  BY <1>2, <1>5, <1>6 DEF UpdateEffect, Acked
<1>8. /\ articles'[s] = After(b, m) /\ \A t \in Servers \ {s} : articles'[t] = articles[t]
  BY <1>1, <1>5 DEF After, BInv, TInv, TypeOK
<1>9. /\ a.type = "ACK_up" /\ a.from = s /\ Change(r).type = "broadcastIP"
      /\ \A t \in Servers : t # s => Acked(t, m, b) # a
  BY <1>6 DEF Acked, Change
<1>10. \A t \in Servers \ {r} : t # s => (m \in Named(port'[t]) <=> m \in Port(t))
  BY <1>7
<1>11. ASSUME NEW t \in Servers \ {r}
       PROVE  /\ \A x \in Named(port'[t]) : x = m \/ x = Change(r)
              /\ articles'[t] = IF m \in Named(port'[t]) THEN b ELSE articles'[r]
              /\ m \in Named(port'[t]) => Acked(t, m, b) \notin Named(port'[r])
  <2>1. CASE t = s
    BY <1>2, <1>4, <1>7, <1>8, <2>1 DEF Pending
  <2>2. CASE t # s
    BY <1>2, <1>4, <1>7, <1>8, <1>9, <2>2 DEF Pending
  <2> QED  BY <2>1, <2>2
<1>12. \A x \in Named(port'[r]) : \E t \in Servers \ {r} : x = Acked(t, m, b)
  BY <1>2, <1>4, <1>6, <1>7 DEF Pending
<1>13. Pending(r, m, b)'
  BY <1>11, <1>12 DEF Pending, Port, Acked, Change
<1>14. Counted(r, m, b)' = Counted(r, m, b)
  <2>1. ASSUME NEW t \in Peers(r)
        PROVE  (m \notin Named(port'[t]) /\ Acked(t, m, b) \notin Named(port'[r]))
               <=> (m \notin Port(t) /\ Acked(t, m, b) \notin Port(r))
    <3>1. CASE t = s
      BY <1>1, <1>6, <1>7, <3>1
    <3>2. CASE t # s
      BY <1>7, <1>9, <3>2 DEF Peers
    <3> QED  BY <3>1, <3>2
  <2> QED  BY <2>1 DEF Counted, Port, Peers, Acked
<1>15. Tally(r, m, b)'
  BY <1>1, <1>4, <1>14 DEF Tally, Full, N
<1>16. Heard(r)'
  <2>1. \A t \in Servers : Change(r) \in Port(t) => Change(r) \in Named(port'[t])
    BY <1>1, <1>7, <1>9
  <2> QED  BY <1>1, <1>4, <2>1 DEF Heard, Port, Change
<1>17. articles'[r] = articles[r]
  BY <1>2, <1>8
<1>18. Spreading(r, m, b)'
  BY <1>1, <1>4, <1>13, <1>15, <1>16, <1>17 DEF Spreading, UpdateOf, After, Resting, Matching
<1>19. OneAtATime'
  BY <1>1, <1>7 DEF BInv, OneAtATime, Apart
<1> QED  BY <1>18, <1>19 DEF Stage

LEMMA AckKeeps ==
    ASSUME BInv, NEW s \in Servers, NEW m \in PortMessage, AckEffect(s, m)
    PROVE  OneAtATime' /\ Stage'
<1>1. /\ m.type = "ACK_up" /\ m \in Port(s) /\ Takes(s, m)
      /\ ack_num' = IF m.ok THEN [ack_num EXCEPT ![s][m.req_num] = @ + 1] ELSE ack_num
      /\ UNCHANGED <<articles, coordinatorIP, back, phase, log>>
      /\ call' = call /\ told' = told
  BY DEF AckEffect, Takes, client
<1>2. PICK t \in Servers \ {s} : \E u, b : Spreading(s, u, b) /\ m = Acked(t, u, b)
  BY <1>1, Finds
<1>3. PICK u, b : Spreading(s, u, b) /\ m = Acked(t, u, b)
  BY <1>2
<1>4. /\ Resting /\ back = {} /\ Heard(s) /\ (\A c \in Clients : call[c] = NoCall)
      /\ UpdateOf(s, u) /\ b \in Seq(Article)
      /\ articles[s] = After(b, u) /\ Matching(articles[s]) /\ Pending(s, u, b) /\ Tally(s, u, b)
  BY <1>3 DEF Spreading
<1>5. /\ Named(port'[s]) = Port(s) \ {m} /\ \A r \in Servers \ {s} : Named(port'[r]) = Port(r)
  BY <1>1 DEF Takes
<1>6. u \notin Port(t)
  BY <1>1, <1>2, <1>3, <1>4 DEF Pending
<1>7. /\ m.ok = Accepts(b, u) /\ m.req_num = u.req_num
      /\ \A r \in Servers : r # t => Acked(r, u, b) # m
  BY <1>3 DEF Acked
<1>8. Counted(s, u, b)' = Counted(s, u, b) \cup {t} /\ t \notin Counted(s, u, b)
  <2>1. t \notin Counted(s, u, b)
    BY <1>1, <1>3 DEF Counted
  <2>2. ASSUME NEW r \in Peers(s)
        PROVE  (u \notin Named(port'[r]) /\ Acked(r, u, b) \notin Named(port'[s]))
               <=> (u \notin Port(r) /\ Acked(r, u, b) \notin Port(s)) \/ r = t
    <3>1. Named(port'[r]) = Port(r)
      BY <1>5 DEF Peers
    <3>2. CASE r = t
      BY <1>3, <1>5, <1>6, <3>1, <3>2
    <3>3. CASE r # t
      BY <1>5, <1>7, <3>1, <3>3 DEF Peers
    <3> QED  BY <3>2, <3>3
  <2>3. t \in Peers(s)
    BY <1>2 DEF Peers
  <2>4. Counted(s, u, b)' = {r \in Peers(s) : u \notin Named(port'[r]) /\ Acked(r, u, b) \notin Named(port'[s])}
    BY DEF Counted, Port, Peers, Acked
  <2> QED  BY <2>1, <2>2, <2>3, <2>4 DEF Counted
<1>9. /\ Cardinality(Counted(s, u, b)') = Cardinality(Counted(s, u, b)) + 1
      /\ Cardinality(Counted(s, u, b)) \in Nat
  <2>1. Counted(s, u, b) \subseteq Servers
    BY DEF Counted, Peers
  <2>2. IsFiniteSet(Counted(s, u, b))
    BY <2>1, FS_Subset, ClientAssumption
  <2> QED  BY <1>8, <2>2, FS_AddElement, FS_CardinalityType
<1>10. Tally(s, u, b)'
  <2>1. PICK k, n : k = u.req_num /\ n = Cardinality(Counted(s, u, b))
    OBVIOUS
  <2>2. /\ k \in DOMAIN ack_num[s] /\ ack_num[s][k] = (IF Accepts(b, u) THEN n ELSE 0)
        /\ \A r \in Servers : \A i \in DOMAIN ack_num[r] : (r = s /\ i = k) \/ Full(ack_num[r][i])
    BY <1>4, <2>1 DEF Tally
  <2>3. ack_num' = (IF Accepts(b, u) THEN [ack_num EXCEPT ![s][k] = @ + 1] ELSE ack_num)
        /\ ack_num \in [Servers -> Seq(Nat)]
    BY <1>1, <1>7, <2>1 DEF BInv, TInv, TypeOK
  <2>4. /\ DOMAIN ack_num'[s] = DOMAIN ack_num[s]
        /\ \A r \in Servers \ {s} : ack_num'[r] = ack_num[r]
        /\ \A i \in DOMAIN ack_num[s] : i # k => ack_num'[s][i] = ack_num[s][i]
        /\ ack_num'[s][k] = IF Accepts(b, u) THEN n + 1 ELSE 0
    BY <2>2, <2>3
  <2>5. \A r \in Servers : \A i \in DOMAIN ack_num'[r] : (r = s /\ i = k) \/ Full(ack_num'[r][i])
    BY <2>2, <2>4
  <2>6. Cardinality(Counted(s, u, b)') = n + 1
    BY <1>9, <2>1
  <2> QED  BY <2>1, <2>2, <2>4, <2>5, <2>6 DEF Tally, Accepts, Full, N
<1>11. Pending(s, u, b)'
  BY <1>1, <1>4, <1>5 DEF Pending, Port, Acked, Change
<1>12. Heard(s)'
  <2>1. Change(s) # m
    BY <1>1 DEF Change
  <2> QED  BY <1>1, <1>4, <1>5, <2>1 DEF Heard, Port, Change
<1>13. Spreading(s, u, b)'
  BY <1>1, <1>4, <1>10, <1>11, <1>12 DEF Spreading, UpdateOf, After, Resting, Matching
<1>14. OneAtATime'
  BY <1>1 DEF BInv, OneAtATime, Takes, Apart
<1> QED  BY <1>13, <1>14 DEF Stage

----------------------------------------------------------------------------
(* A settled request leaves all calm.                                          *)

LEMMA QuietCalm ==
    ASSUME BInv, Quiet
    PROVE  Calm
<1>1. back = {} /\ \A s \in Servers : Port(s) = {} /\ phase[s] = "idle"
  BY PortTypes DEF BInv, Quiet
<1>2. SUFFICES ASSUME NEW s \in Servers, NEW u, NEW b, Spreading(s, u, b)
               PROVE  Calm
  BY <1>1 DEF BInv, Stage, Moving, Leading, OnlyIn, Asked
<1>3. /\ Resting /\ Heard(s) /\ Matching(articles[s]) /\ Pending(s, u, b) /\ Tally(s, u, b)
  BY <1>2 DEF Spreading
<1>4. AllSame
  <2>1. \A t \in Servers : articles[t] = articles[s]
    BY <1>1, <1>3 DEF Pending
  <2> QED  BY <1>3, <2>1 DEF AllSame
<1>5. \A t \in Servers : coordinatorIP[t] = s
  BY <1>1, <1>3 DEF Heard
<1>6. Cardinality(Counted(s, u, b)) = N - 1
  <2>1. Counted(s, u, b) = Servers \ {s}
    BY <1>1 DEF Counted, Peers
  <2> QED  BY <2>1, FS_RemoveElement, ClientAssumption DEF N
<1>7. Full(ack_num[s][u.req_num])
  BY <1>3, <1>6 DEF Tally, Full
<1>8. Slots
  BY <1>3, <1>7 DEF Tally, Slots
<1> QED  BY <1>1, <1>3, <1>4, <1>5, <1>8 DEF Calm

LEMMA ClientKeeps ==
    ASSUME BInv, Settled, ClientStep
    PROVE  OneAtATime' /\ Stage'
<1>1. Quiet /\ ClientAction /\ UNCHANGED server /\ ClientTypeOK /\ Calm
  BY QuietCalm DEF ClientStep, BInv, TInv, TypeOK
<1>2. PICK c, r : Asks(c, r)
  BY <1>1, ClientAsks
<1>3. call' = [call EXCEPT ![c] = r] /\ told' = told
  BY <1>2 DEF Asks
<1>4. \A d \in Clients : d # c => call'[d] = NoCall
  BY <1>1, <1>3 DEF Quiet, ClientTypeOK
<1>5. OneAtATime'
  BY <1>1, <1>3, <1>4 DEF BInv, OneAtATime, Distinct, server
<1>6. Stage'
  BY <1>1, CalmHolds DEF Stage
<1> QED  BY <1>5, <1>6

LEMMA StutterKeeps ==
    ASSUME BInv, UNCHANGED vars
    PROVE  OneAtATime' /\ Stage'
<1>1. /\ articles' = articles /\ log' = log /\ ack_num' = ack_num /\ phase' = phase
      /\ back' = back /\ port' = port /\ coordinatorIP' = coordinatorIP
      /\ call' = call /\ told' = told /\ UNCHANGED server
  BY DEF vars, server, client
<1>2. OneAtATime'
  BY <1>1 DEF BInv, OneAtATime, Distinct
<1>3. \A s \in Servers : Port(s)' = Port(s)
  BY <1>1 DEF Port
<1>4. /\ AllSame => AllSame'
      /\ Slots => Slots'
      /\ Resting => Resting'
      /\ \A s \in Servers : /\ OnlyIn(s, "moving") => OnlyIn(s, "moving")'
                            /\ OnlyIn(s, "forward") => OnlyIn(s, "forward")'
  BY <1>1 DEF AllSame, Matching, Slots, Full, N, Resting, OnlyIn
<1>5. \A s \in Servers : (Heard(s) => Heard(s)') /\ (OnlyChange(s) => OnlyChange(s)')
  BY <1>1, <1>3 DEF Heard, OnlyChange, Change
<1>6. CASE Calm
  BY <1>1, <1>2, <1>6, CalmHolds DEF Stage
<1>7. CASE \E p, s \in Servers : Moving(p, s)
  <2>1. PICK p \in Servers, s \in Servers : Moving(p, s)
    BY <1>7
  <2>2. Moving(p, s)'
    BY <1>1, <1>3, <1>4, <2>1 DEF Moving, Request, Answer
  <2> QED  BY <1>2, <2>2 DEF Stage
<1>8. CASE \E s \in Servers : Leading(s)
  <2>1. PICK s \in Servers : Leading(s)
    BY <1>8
  <2>2. Leading(s)'
    BY <1>1, <1>3, <1>4, <1>5, <2>1 DEF Leading
  <2> QED  BY <1>2, <2>2 DEF Stage
<1>9. CASE \E s \in Servers : Asked(s)
  <2>1. PICK s \in Servers : Asked(s)
    BY <1>9
  <2>2. Asked(s)'
    BY <1>1, <1>3, <1>4, <1>5, <2>1 DEF Asked
  <2> QED  BY <1>2, <2>2 DEF Stage
<1>10. CASE \E s \in Servers : \E u, b : Spreading(s, u, b)
  <2>1. PICK s \in Servers : \E u, b : Spreading(s, u, b)
    BY <1>10
  <2>2. PICK u, b : Spreading(s, u, b)
    BY <2>1
  <2>3. Pending(s, u, b)'
    BY <1>1, <1>3, <2>2 DEF Spreading, Pending, Acked, Change
  <2>4. Counted(s, u, b)' = Counted(s, u, b)
    BY <1>3 DEF Counted, Peers, Acked
  <2>5. Tally(s, u, b)'
    BY <1>1, <2>2, <2>4 DEF Spreading, Tally, Full, N
  <2>6. Spreading(s, u, b)'
    BY <1>1, <1>4, <1>5, <2>2, <2>3, <2>5 DEF Spreading, UpdateOf, After, Matching
  <2> QED  BY <1>2, <2>6 DEF Stage
<1> QED  BY <1>6, <1>7, <1>8, <1>9, <1>10 DEF BInv, Stage

LEMMA StageKept == BInv /\ Settled /\ [Next]_vars => BInv'
<1> SUFFICES ASSUME BInv, Settled, [Next]_vars
             PROVE  BInv'
  OBVIOUS
<1>1. TInv'
  BY TypesKept DEF BInv
<1>2. CASE ClientStep
  BY <1>1, <1>2, ClientKeeps DEF BInv
<1>3. CASE ListenStep
  <2>1. \/ \E s \in Servers, c \in Clients : Post_handler(c, s) \/ Reply_handler(c, s)
        \/ \E s \in Servers, c \in Clients : Read_handler(c, s)
        \/ \E s \in Servers, m \in back : ReceiveBoard(s, m)
        \/ \E s \in Servers : SendForward(s)
        \/ \E m \in back : DropBoard(m)
    BY <1>3 DEF ListenStep
  <2>2. OneAtATime' /\ Stage'
    BY <2>1, BeginKeeps, ReadKeeps, ReceiveKeeps, SendKeeps, DropKeeps
  <2> QED  BY <1>1, <2>2 DEF BInv
<1>4. CASE PrimaryPortStep
  <2>1. PICK s \in Servers, m \in PortMessage : PortEffect(s, m)
    BY <1>4, PortActs DEF BInv, OneAtATime, Apart
  <2>2. OneAtATime' /\ Stage'
    BY <2>1, IgnoreNever, MoveKeeps, ChangeKeeps, AckKeeps, UpdateKeeps, ForwardKeeps DEF PortEffect
  <2> QED  BY <1>1, <2>2 DEF BInv
<1>5. CASE UNCHANGED vars
  BY <1>1, <1>5, StutterKeeps DEF BInv
<1> QED  BY <1>2, <1>3, <1>4, <1>5 DEF Next

LEMMA StageInvariant ==
    ASSUME Settled
    PROVE  Spec => []BInv
<1>1. BInv /\ [Next]_vars => BInv'
  BY StageKept
<1> QED  BY <1>1, InitStage, PTL DEF Spec

----------------------------------------------------------------------------
(* The theorems.  In all three clients send a request only when the one before *)
(* has settled; whether datagrams keep their order does not matter.            *)

(* Moving the role and the board to the server a client writes at loses,        *)
(* doubles and reorders nothing: once a request has settled, one server is the  *)
(* coordinator, every server knows it, and all boards hold the accepted posts   *)
(* in the order of acceptance, numbered 1, 2, 3, ...                            *)
THEOREM AgreementCorrect ==
    ASSUME Settled
    PROVE  Spec => []Agreement
<1>1. BInv => Agreement
  <2> SUFFICES ASSUME BInv, Quiet
               PROVE  Agreement
    BY DEF Agreement
  <2>1. Calm /\ TypeOK
    BY QuietCalm DEF BInv, TInv
  <2>2. PICK p \in Servers : \A s \in Servers : coordinatorIP[s] = p
    BY <2>1 DEF Calm
  <2>3. \A s \in Servers : IsCoordinator[s] = (s = p) /\ articles[s] = articles[p]
    BY <2>1, <2>2 DEF TypeOK, Calm, AllSame
  <2>4. Primary \in Servers /\ Matching(articles[Primary])
        /\ articles[Primary] \in Seq(Article) /\ log \in Seq(Post)
    BY <2>1, ClientAssumption DEF Calm, AllSame, TypeOK
  <2>5. PICK a : a = articles[Primary]
    OBVIOUS
  <2>6. /\ DOMAIN a = DOMAIN log /\ DOMAIN log = 1..Len(log) /\ Len(log) \in Nat
        /\ \A i \in DOMAIN log : a[i].ID = i /\ a[i].post = log[i]
    BY <2>4, <2>5, LenProperties DEF Matching
  <2>7. Posts(a) = log
    <3>1. DOMAIN Posts(a) = 1..Len(log) /\ \A i \in 1..Len(log) : Posts(a)[i] = log[i]
      BY <2>6 DEF Posts
    <3>2. Posts(a) = [i \in 1..Len(log) |-> Posts(a)[i]] /\ log = [i \in 1..Len(log) |-> log[i]]
      BY <2>4, <2>6, <3>1 DEF Posts
    <3> QED  BY <3>1, <3>2
  <2> QED  BY <2>2, <2>3, <2>5, <2>6, <2>7 DEF Agreement
<1> QED  BY <1>1, StageInvariant, PTL

(* The coordinator counts acknowledgements per request slot and never resets    *)
(* one: a slot has counted every other server for one request, or nothing, so   *)
(* no request finds a slot half filled by another.                              *)
THEOREM SlotsCorrect ==
    ASSUME Settled
    PROVE  Spec => []SlotsCountOneRequest
<1>1. BInv => SlotsCountOneRequest
  BY QuietCalm DEF Calm, Slots, Full, SlotsCountOneRequest
<1> QED  BY <1>1, StageInvariant, PTL

LEMMA ReadShows ==
    ASSUME BInv, [Next]_vars, NEW c \in Clients, call[c].op = "READ", call'[c] = NoCall,
           NEW t \in told, t.ok
    PROVE  \E i \in DOMAIN view'[c] : view'[c][i].post = t.post
<1>1. call[c] # NoCall /\ TInv /\ TypeOK /\ ClientTypeOK /\ OneAtATime
  BY NoCallType DEF BInv, TInv, TypeOK
<1>2. call' # call
  BY <1>1
<1>3. PICK s \in Servers : Read_handler(c, s)
  <2>1. CASE ClientStep
    <3>1. PICK d, r : Asks(d, r)
      BY <1>1, <2>1, ClientAsks DEF ClientStep
    <3>2. call'[c] = call[c]
      BY <1>1, <3>1 DEF Asks, ClientTypeOK
    <3> QED  BY <1>1, <3>2
  <2>2. CASE ListenStep
    <3>1. \/ \E s \in Servers, d \in Clients : Post_handler(d, s) \/ Reply_handler(d, s)
          \/ \E s \in Servers, d \in Clients : Read_handler(d, s)
          \/ \E s \in Servers, m \in back : ReceiveBoard(s, m)
          \/ \E s \in Servers : SendForward(s)
          \/ \E m \in back : DropBoard(m)
      BY <2>2 DEF ListenStep
    <3>2. PICK s \in Servers, d \in Clients : Read_handler(d, s)
      BY <1>2, <3>1 DEF Post_handler, Reply_handler, BeginWrite, ReceiveBoard, SendForward,
                        DropBoard, client
    <3>3. call' = [call EXCEPT ![d] = NoCall]
      BY <3>2 DEF Read_handler, Show
    <3>4. d = c
      BY <1>1, <3>3 DEF ClientTypeOK
    <3> QED  BY <3>2, <3>4
  <2>3. CASE PrimaryPortStep
    <3>1. PICK s \in Servers, m \in PortMessage : PortEffect(s, m)
      BY <1>1, <2>3, PortActs DEF OneAtATime, Apart
    <3>2. ~IgnoreEffect(s, m)
      BY IgnoreNever
    <3>3. PICK u : ForwardEffect(s, m, u)
      BY <1>2, <3>1, <3>2 DEF PortEffect, MoveEffect, ChangeEffect, AckEffect, UpdateEffect, client
    <3>4. call' = [call EXCEPT ![m.client] = NoCall] /\ m.type = "forward_req" /\ m \in Port(s)
      BY <3>3 DEF ForwardEffect, Tell
    <3>5. m.client # c
      BY <1>1, <3>4, ServedCalls DEF Writing
    <3>6. call'[c] = call[c]
      BY <1>1, <3>4, <3>5 DEF ClientTypeOK
    <3> QED  BY <1>1, <3>6
  <2>4. CASE UNCHANGED vars
    BY <1>2, <2>4 DEF vars, client
  <2> QED  BY <2>1, <2>2, <2>3, <2>4 DEF Next
<1>4. Calm /\ articles' = articles
  BY <1>3, ReadKeeps
<1>5. PICK a : a = articles[s]
  OBVIOUS
<1>6. view'[c] = Sent(a)
  BY <1>1, <1>3, <1>4, <1>5 DEF Read_handler, Show, ClientTypeOK
<1>7. PICK i \in DOMAIN log : log[i] = t.post
  BY <1>1 DEF OneAtATime
<1>8. i \in DOMAIN a /\ a[i].post = log[i]
  <2>1. Matching(a) /\ a \in Seq(Article) /\ log \in Seq(Post)
    BY <1>1, <1>4, <1>5 DEF Calm, AllSame, TypeOK
  <2>2. DOMAIN a = DOMAIN log
    BY <2>1, LenProperties DEF Matching
  <2> QED  BY <2>1, <2>2 DEF Matching
<1>9. DOMAIN Sent(a) = DOMAIN a /\ Sent(a)[i].post = a[i].post
  BY <1>8 DEF Sent
<1> QED  BY <1>6, <1>7, <1>8, <1>9

(* A read shows every post its reader was told is accepted, whichever server    *)
(* it asks: the forwarding of updates after the answer has then come to an end. *)
THEOREM ReadYourWritesCorrect ==
    ASSUME Settled
    PROVE  Spec => ReadYourWrites
<1>1. BInv /\ [Next]_vars =>
        [\A c \in Clients :
           call[c].op = "READ" /\ call'[c] = NoCall =>
             \A t \in told : t.client = c /\ t.ok =>
               \E i \in DOMAIN view'[c] : view'[c][i].post = t.post]_vars
  BY ReadShows
<1>2. Spec => []BInv
  BY StageInvariant
<1> QED  BY <1>1, <1>2, PTL DEF Spec, ReadYourWrites
============================================================================
