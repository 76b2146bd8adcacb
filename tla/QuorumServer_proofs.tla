------------------------ MODULE QuorumServer_proofs ------------------------
(* Proofs about QuorumServer, for any servers, clients and quorum sizes, and   *)
(* any number of posts, replies, reads and heartbeats.                         *)
EXTENDS QuorumServer, BoardClient_proofs

Job == task["forward"]

\* What each kind of thread does.
TaskOK(x, t) ==
    /\ t \in Task
    /\ t.step \in {"fetch", "answer", "ask"} => t.newest \in Servers
    /\ t.step \in {"write", "poll", "synch"} => t.todo # <<>>
    /\ t.step \in {"write", "poll"} /\ t.newest = NoServer => t.maxVer = 0
    /\ x = "forward" =>
         /\ \/ t.op = "none" /\ t.step = "idle"
            \/ t.op = "READ" /\ t.step \in {"poll", "answer"}
            \/ t.op = "POST" /\ t.step \in {"write", "poll", "fetch", "synch", "done", "hung"}
         /\ t.step = "write" => t.newest = NoServer
         /\ t.op = "POST" => t.quorum # <<>>
    /\ x = "heartbeat" =>
         t.step \in {"idle", "poll", "fetch", "synch", "hung"} /\ t.op = "none"
    /\ x \in Servers => t.step \in {"idle", "poll", "ask"} /\ t.op = "none"

Types ==
    /\ articles \in [Servers -> Seq(Article)]
    /\ ID \in [Servers -> Nat] /\ VER \in [Servers -> Nat]
    /\ forwarded \subseteq [client : Clients, op : {"READ", "POST"}, preHie : Nat \cup {-1}]
    /\ reads \subseteq [server : Servers, client : Clients]
    /\ taken \subseteq Clients
    /\ task \in [Threads -> Task]

Tasks == \A x \in Threads : TaskOK(x, task[x])

\* The request of a client that has been taken is in one place, until answered.
Serves(x) == x # "heartbeat" /\ task[x].step # "idle"
OpsOf(op) == IF op = "READ" THEN {"READ"} ELSE Writing

Requests ==
    /\ \A m \in forwarded : m.client \in taken /\ call[m.client].op \in OpsOf(m.op)
    /\ \A m \in reads : m.client \in taken /\ call[m.client].op = "READ"
    /\ \A x \in Threads : Serves(x) =>
         task[x].client \in taken /\ call[task[x].client].op \in OpsOf(task[x].op)

Once ==
    /\ \A m, n \in forwarded : m.client = n.client => m = n
    /\ \A m, n \in reads : m.client = n.client => m = n
    /\ \A m \in forwarded, n \in reads : m.client # n.client
    /\ \A x \in Threads : Serves(x) =>
         /\ \A m \in forwarded \cup reads : m.client # task[x].client
         /\ \A y \in Threads : Serves(y) /\ task[y].client = task[x].client => x = y

TInv == ClientTypeOK /\ Types /\ Tasks /\ Requests /\ Once

----------------------------------------------------------------------------
(* Lists of servers, and boards.                                              *)

LEMMA SIPsAll ==
    SIPs \in Seq(Servers) /\ SIPs # <<>> /\ Named(SIPs) = Servers
<1>1. SIPs \in Seq(Servers) /\ Named(SIPs) = Servers
  BY QuorumAssumption DEF Named
<1>2. DOMAIN SIPs # {}
  BY <1>1, ClientAssumption DEF Named
<1> QED  BY <1>1, <1>2, EmptySeq

\* A random order of SIPs, each server once.
LEMMA QuorumNames ==
    ASSUME NEW q \in Quorums
    PROVE  q \in Seq(Servers) /\ q # <<>> /\ Distinct(q)
<1>1. /\ N \in Nat /\ DOMAIN SIPs = 1..N /\ Nr \in 1..N
      /\ SIPs \in [1..N -> Servers] /\ IsFiniteSet(1..N) /\ Cardinality(1..N) = N
  <2>1. SIPs \in Seq(Servers) /\ Nr \in 1..N
    BY QuorumAssumption
  <2>2. N \in Nat /\ DOMAIN SIPs = 1..N /\ SIPs \in [1..N -> Servers]
    BY <2>1, LenProperties DEF N
  <2> QED  BY <2>1, <2>2, CardinalityUpTo
<1>2. PICK o \in Orders : q = [i \in 1..Nr |-> SIPs[o[i]]]
  BY DEF Quorums
<1>3. o \in [1..N -> 1..N] /\ \A S \in SUBSET (1..N) :
        S # {} /\ (\A i \in S : o[i] \in S) => S = 1..N
  BY <1>2 DEF Orders
<1>4. o \in Surjection(1..N, 1..N)
  <2> DEFINE S == {o[i] : i \in 1..N}
  <2>1. S \in SUBSET (1..N) /\ S # {} /\ \A i \in S : o[i] \in S
    BY <1>1, <1>3
  <2>2. S = 1..N
    BY <1>3, <2>1
  <2> QED  BY <1>3, <2>2 DEF Surjection
<1>5. \A i, j \in 1..N : o[i] = o[j] => i = j
  <2>1. o \in Injection(1..N, 1..N)
    BY <1>1, <1>4, FS_Surjection
  <2> QED  BY <2>1 DEF Injection, IsInjective
<1>6. \A i, j \in 1..N : SIPs[i] = SIPs[j] => i = j
  <2>1. Servers = {SIPs[i] : i \in 1..N} /\ N = Cardinality(Servers)
    BY <1>1, QuorumAssumption
  <2>2. SIPs \in Surjection(1..N, Servers)
    BY <1>1, <2>1 DEF Surjection
  <2>3. SIPs \in Injection(1..N, Servers)
    BY <1>1, <2>1, <2>2, FS_Surjection
  <2> QED  BY <2>3 DEF Injection, IsInjective
<1>7. q \in [1..Nr -> Servers] /\ Nr \in Nat \ {0} /\ \A i \in 1..Nr : i \in 1..N
  BY <1>1, <1>2, <1>3
<1>8. q \in Seq(Servers) /\ DOMAIN q = 1..Nr
  BY <1>7, IsASeq
<1>9. q # <<>>
  BY <1>7, <1>8, EmptySeq
<1>10. Distinct(q)
  <2> SUFFICES ASSUME NEW i \in 1..Nr, NEW j \in 1..Nr, q[i] = q[j]
               PROVE  i = j
    BY <1>8 DEF Distinct
  <2>1. SIPs[o[i]] = SIPs[o[j]] /\ i \in 1..N /\ j \in 1..N
    BY <1>2, <1>7
  <2>2. o[i] = o[j]
    BY <1>3, <1>6, <2>1
  <2> QED  BY <1>5, <2>1, <2>2
<1> QED  BY <1>8, <1>9, <1>10

LEMMA ArticleFields ==
    \A x \in Article : x.ID \in Int /\ x.hierachy \in Nat /\ x.post \in Post
BY DEF Article

Numbered(a) == \A i \in DOMAIN a : a[i].ID = i

LEMMA LoadedType ==
    ASSUME NEW board \in Board, NEW a
    PROVE  /\ Loaded(a, board) \in Seq(Article) /\ Numbered(Loaded(a, board))
           /\ \A p : /\ HasNone(board, p) => HasNone(Loaded(a, board), p)
                     /\ HasOnce(board, p) => HasOnce(Loaded(a, board), p)
<1> DEFINE b == Loaded(a, board)
<1>1. /\ DOMAIN board = 1..Len(board) /\ Len(board) \in Nat
      /\ \A i \in DOMAIN board : board[i].hierachy \in Nat /\ board[i].post \in Post
  <2>1. \A i \in DOMAIN board : board[i] \in [post : Post, hierachy : Nat]
    BY ElementOfSeq, LenProperties DEF Board
  <2> QED  BY <2>1, LenProperties DEF Board
<1>2. DOMAIN b = DOMAIN board /\ \A i \in DOMAIN board : b[i].ID = i /\ b[i].post = board[i].post
  BY DEF Loaded
<1>3. b \in [1..Len(board) -> Article]
  BY <1>1 DEF Loaded, Article
<1>4. b \in Seq(Article)
  BY <1>1, <1>3, IsASeq
<1> HIDE DEF b
<1>5. Numbered(b)
  BY <1>2 DEF Numbered
<1>6. \A p : (HasNone(board, p) => HasNone(b, p)) /\ (HasOnce(board, p) => HasOnce(b, p))
  BY <1>2 DEF HasNone, HasOnce
<1> QED  BY <1>4, <1>5, <1>6 DEF b

LEMMA SentBoard ==
    ASSUME NEW a \in Seq(Article)
    PROVE  SortByID(a) \in Seq(Article) /\ Sent(SortByID(a)) \in Board
<1>1. SortByID(a) \in Seq(Article)
  BY ArticleFields, SortType
<1> QED  BY <1>1, ArticleFields, SentType DEF Board, Entry

----------------------------------------------------------------------------
(* Type correctness.                                                          *)

LEMMA IdleOK == Idle \in Task /\ \A x \in Threads : TaskOK(x, Idle)
<1>1. <<>> \in Seq(Servers) /\ <<>> \in Board
  BY EmptySeq DEF Board
<1>2. Idle \in Task /\ Idle.step = "idle" /\ Idle.op = "none"
  BY <1>1 DEF Idle, Task
<1> QED  BY <1>2 DEF TaskOK

LEMMA InitTypes == Init => TInv
<1> SUFFICES ASSUME Init
             PROVE  TInv
  OBVIOUS
<1>1. task = [x \in Threads |-> Idle] /\ forwarded = {} /\ reads = {} /\ taken = {} /\ ClientInit
  BY DEF Init
<1>2. <<>> \in Seq(Article)
  BY EmptySeq
<1>3. Types
  BY <1>1, <1>2, IdleOK DEF Init, Types
<1>4. Tasks
  BY <1>1, IdleOK DEF Tasks
<1>5. \A x \in Threads : ~Serves(x)
  BY <1>1 DEF Serves, Idle
<1> QED  BY <1>1, <1>3, <1>4, <1>5, ClientInitType DEF TInv, Requests, Once

LEMMA TypesShown == TInv => TypeOK
BY DEF TInv, Types, Tasks, TaskOK, TypeOK

LEMMA SameClient == ClientTypeOK /\ UNCHANGED client => ClientTypeOK'
BY DEF ClientTypeOK, client

\* The boards of servers, as far as their types go.
Kept ==
    /\ articles' \in [Servers -> Seq(Article)]
    /\ ID' \in [Servers -> Nat] /\ VER' \in [Servers -> Nat]

\* A thread goes on with its request.
LEMMA TaskGoesOn ==
    ASSUME TInv, NEW x \in Threads, NEW t, TaskOK(x, t), task' = [task EXCEPT ![x] = t],
           \/ x = "heartbeat"
           \/ task[x].step # "idle" /\ t.client = task[x].client /\ t.op = task[x].op,
           UNCHANGED <<client, forwarded, reads, taken>>, Kept
    PROVE  TInv'
<1>1. /\ task \in [Threads -> Task] /\ t \in Task
      /\ task'[x] = t /\ \A y \in Threads \ {x} : task'[y] = task[y]
  BY DEF TInv, Types, TaskOK
<1>2. Types' /\ ClientTypeOK'
  BY <1>1, SameClient DEF TInv, Types, Kept
<1>3. Tasks'
  BY <1>1 DEF TInv, Tasks
<1>4. \A y \in Threads : Serves(y)' =>
        Serves(y) /\ task'[y].client = task[y].client /\ task'[y].op = task[y].op
  BY <1>1 DEF Serves
<1>5. UNCHANGED call
  BY DEF client
<1>6. Requests'
  BY <1>4, <1>5 DEF TInv, Requests
<1>7. Once'
  BY <1>4 DEF TInv, Once
<1> QED  BY <1>2, <1>3, <1>6, <1>7 DEF TInv

LEMMA SortedKept ==
    ASSUME TInv, NEW s \in Servers, articles' = [articles EXCEPT ![s] = SortByID(@)]
    PROVE  articles' \in [Servers -> Seq(Article)] /\ articles'[s] = SortByID(articles[s])
BY SentBoard DEF TInv, Types

\* The task of a thread, field by field.
LEMMA TaskFields ==
    ASSUME TInv, NEW x \in Threads
    PROVE  /\ task[x] \in Task /\ TaskOK(x, task[x])
           /\ task[x].client \in Clients \cup {NoClient} /\ task[x].op \in {"none", "READ", "POST"}
           /\ task[x].preHie \in Nat \cup {-1} /\ task[x].quorum \in Seq(Servers)
           /\ task[x].todo \in Seq(Servers) /\ task[x].newest \in Servers \cup {NoServer}
           /\ task[x].maxVer \in Nat /\ task[x].board \in Board
BY DEF TInv, Types, Tasks, Task

LEMMA PollTypes ==
    ASSUME TInv, NEW x \in Threads, Poll(x)
    PROVE  TInv'
<1> DEFINE s == Head(task[x].todo)
           rest == Tail(task[x].todo)
           t == [task[x] EXCEPT
                   !.todo = rest,
                   !.newest = IF Newer(x, s) THEN s ELSE @,
                   !.maxVer = IF Newer(x, s) THEN VER[s] ELSE @,
                   !.step = IF rest = <<>> THEN AfterPoll(x) ELSE @]
<1>1. /\ task[x].step = "poll" /\ task' = [task EXCEPT ![x] = t]
      /\ UNCHANGED <<articles, ID, VER, forwarded, reads, taken, client>>
  BY DEF Poll, Begin
<1>2. task[x] \in Task /\ TaskOK(x, task[x]) /\ task[x].todo \in Seq(Servers) /\ task[x].todo # <<>>
      /\ task[x].newest \in Servers \cup {NoServer} /\ task[x].maxVer \in Nat
  BY <1>1, TaskFields DEF TaskOK
<1>3. s \in Servers /\ rest \in Seq(Servers) /\ VER[s] \in Nat
  BY <1>2, HeadFirst DEF TInv, Types
<1>4. (IF Newer(x, s) THEN s ELSE task[x].newest) \in Servers
  <2>1. CASE Newer(x, s)
    BY <1>3, <2>1
  <2>2. CASE ~Newer(x, s)
    <3>1. task[x].maxVer # 0
      <4>1. \A v, w \in Nat : ~(v >= w) => w # 0
        OBVIOUS
      <4> QED  BY <1>2, <1>3, <2>2, <4>1 DEF Newer
    <3>2. task[x].newest # NoServer
      BY <1>1, <1>2, <3>1 DEF TaskOK
    <3> QED  BY <1>2, <2>2, <3>2
  <2> QED  BY <2>1, <2>2
<1>5. AfterPoll(x) = IF x \in Servers THEN "ask"
                     ELSE IF x = "forward" /\ task[x].op = "READ" THEN "answer" ELSE "fetch"
  BY DEF AfterPoll
<1>6. PICK newest, maxVer, step :
        /\ newest = (IF Newer(x, s) THEN s ELSE task[x].newest)
        /\ maxVer = (IF Newer(x, s) THEN VER[s] ELSE task[x].maxVer)
        /\ step = (IF rest = <<>> THEN AfterPoll(x) ELSE "poll")
  OBVIOUS
<1>7. newest \in Servers /\ maxVer \in Nat
      /\ (rest = <<>> \/ step = "poll")
      /\ (rest # <<>> \/ step = AfterPoll(x)) /\ NoServer \notin Servers
  BY <1>2, <1>3, <1>4, <1>6, QuorumAssumption
<1>8. t = [task[x] EXCEPT !.todo = rest, !.newest = newest, !.maxVer = maxVer, !.step = step]
  BY <1>1, <1>2, <1>6 DEF Task
<1> HIDE DEF t, rest, s
<1>9. /\ t.todo = rest /\ t.newest = newest /\ t.maxVer = maxVer /\ t.step = step
      /\ t.op = task[x].op /\ t.client = task[x].client /\ t.quorum = task[x].quorum
  BY <1>2, <1>8 DEF Task
<1>10. x \in Servers \/ x = "forward" \/ x = "heartbeat"
  BY DEF Threads
<1>11. step \in {"ask", "answer", "fetch", "poll"}
  BY <1>5, <1>7, <1>6
<1>12. t \in Task
  BY <1>2, <1>3, <1>7, <1>8, <1>11 DEF Task
<1>13. x \in Servers => x # "forward" /\ x # "heartbeat"
  BY QuorumAssumption
<1>14. TaskOK(x, t)
  BY <1>1, <1>2, <1>5, <1>7, <1>9, <1>10, <1>11, <1>12, <1>13 DEF TaskOK
<1>15. Kept
  BY <1>1 DEF Kept, TInv, Types
<1> QED  BY <1>1, <1>9, <1>14, <1>15, TaskGoesOn

\* Who calls other servers for their boards.
LEMMA Callers ==
    ASSUME TInv, NEW x \in Threads, task[x].step \in {"fetch", "synch"}
    PROVE  x = "heartbeat" \/ (x = "forward" /\ task[x].op = "POST")
<1>1. TaskOK(x, task[x]) /\ (x \in Servers \/ x = "forward" \/ x = "heartbeat")
  BY TaskFields DEF Threads
<1> QED  BY <1>1 DEF TaskOK

LEMMA FetchTypes ==
    ASSUME TInv, NEW x \in Threads, Fetch(x)
    PROVE  TInv'
<1> DEFINE s == task[x].newest
           sent == Sent(SortByID(articles[s]))
           t == [task[x] EXCEPT
                   !.board = sent,
                   !.todo = SyncList(x),
                   !.step = IF s = Primary THEN "hung"
                            ELSE IF x = "forward" /\ sent = <<>> THEN "done"
                            ELSE "synch"]
<1>1. /\ task[x].step = "fetch" /\ task' = [task EXCEPT ![x] = t]
      /\ articles' = [articles EXCEPT ![s] = SortByID(@)]
      /\ UNCHANGED <<ID, VER, forwarded, reads, taken, client>>
  BY DEF Fetch, Begin
<1>2. task[x] \in Task /\ TaskOK(x, task[x]) /\ s \in Servers
  BY <1>1, TaskFields DEF TaskOK
<1>3. articles[s] \in Seq(Article) /\ sent \in Board
  BY <1>2, SentBoard DEF TInv, Types
<1>4. PICK step : step = (IF s = Primary THEN "hung"
                          ELSE IF x = "forward" /\ sent = <<>> THEN "done" ELSE "synch")
  OBVIOUS
<1> HIDE DEF s, sent
<1>5. step \in {"hung", "done", "synch"} /\ (step = "done" => x = "forward")
  BY <1>4
<1>6. t = [task[x] EXCEPT !.board = sent, !.todo = SIPs, !.step = step]
  BY <1>4 DEF SyncList
<1> HIDE DEF t
<1>7. /\ t.todo = SIPs /\ t.step = step /\ t.op = task[x].op /\ t.client = task[x].client
      /\ t.quorum = task[x].quorum
  BY <1>2, <1>6 DEF Task
<1>8. t \in Task
  BY <1>2, <1>3, <1>5, <1>6, SIPsAll DEF Task
<1>9. x = "heartbeat" \/ (x = "forward" /\ task[x].op = "POST")
  BY <1>1, Callers
<1>10. x \notin Servers
  BY <1>9, QuorumAssumption
<1>11. TaskOK(x, t)
  BY <1>2, <1>5, <1>7, <1>8, <1>9, <1>10, SIPsAll DEF TaskOK
<1>12. Kept
  BY <1>1, <1>2, SortedKept DEF Kept, TInv, Types, s
<1> QED  BY <1>1, <1>7, <1>11, <1>12, TaskGoesOn

LEMMA SynchTypes ==
    ASSUME TInv, NEW x \in Threads, Synch(x)
    PROVE  TInv'
<1> DEFINE s == Head(task[x].todo)
           rest == Tail(task[x].todo)
           t == IF rest # <<>> THEN [task[x] EXCEPT !.todo = rest]
                ELSE IF x = "heartbeat" THEN Idle
                ELSE [task[x] EXCEPT !.todo = <<>>, !.step = "done"]
<1>1. /\ task[x].step = "synch" /\ task' = [task EXCEPT ![x] = t]
      /\ articles' = [articles EXCEPT ![s] = Loaded(@, task[x].board)]
      /\ UNCHANGED <<ID, VER, forwarded, reads, taken, client>>
  BY DEF Synch, Begin
<1>2. /\ task[x] \in Task /\ TaskOK(x, task[x]) /\ task[x].todo \in Seq(Servers)
      /\ task[x].todo # <<>> /\ task[x].board \in Board
  BY <1>1, TaskFields DEF TaskOK
<1>3. s \in Servers /\ rest \in Seq(Servers)
  BY <1>2, HeadFirst
<1>4. Kept
  BY <1>1, <1>2, LoadedType DEF Kept, TInv, Types
<1>5. x = "heartbeat" \/ (x = "forward" /\ task[x].op = "POST")
  BY <1>1, Callers
<1>6. x \notin Servers
  BY <1>5, QuorumAssumption
<1> HIDE DEF s
<1>7. TaskOK(x, t) /\ (x = "heartbeat" \/ (t.client = task[x].client /\ t.op = task[x].op))
  <2>1. CASE rest # <<>>
    <3>1. t = [task[x] EXCEPT !.todo = rest]
      BY <2>1
    <3> HIDE DEF t, rest
    <3>2. /\ t \in Task /\ t.todo = rest /\ t.step = "synch" /\ t.op = task[x].op
          /\ t.client = task[x].client /\ t.quorum = task[x].quorum
      BY <1>1, <1>2, <1>3, <3>1 DEF Task
    <3> QED  BY <1>1, <1>2, <1>5, <1>6, <2>1, <3>2 DEF TaskOK
  <2>2. CASE rest = <<>> /\ x = "heartbeat"
    <3>1. t = Idle
      BY <2>2
    <3> HIDE DEF t, rest
    <3> QED  BY <2>2, <3>1, IdleOK
  <2>3. CASE rest = <<>> /\ x # "heartbeat"
    <3>1. t = [task[x] EXCEPT !.todo = <<>>, !.step = "done"]
      BY <2>3
    <3>2. <<>> \in Seq(Servers)
      BY EmptySeq
    <3> HIDE DEF t, rest
    <3>3. /\ t \in Task /\ t.step = "done" /\ t.op = task[x].op
          /\ t.client = task[x].client /\ t.quorum = task[x].quorum
      BY <1>1, <1>2, <3>1, <3>2 DEF Task
    <3> QED  BY <1>1, <1>2, <1>5, <1>6, <2>3, <3>3 DEF TaskOK
  <2> QED  BY <2>1, <2>2, <2>3
<1> HIDE DEF t, rest
<1> QED  BY <1>1, <1>4, <1>7, TaskGoesOn

LEMMA WriteTypes ==
    ASSUME TInv, Write1
    PROVE  TInv'
<1> DEFINE s == Head(Job.todo)
           rest == Tail(Job.todo)
           x == [ID |-> ID[s] + 1, hierachy |-> Job.preHie + 1, post |-> call[Job.client].post]
           t == IF rest # <<>> THEN [Job EXCEPT !.todo = rest]
                ELSE [Job EXCEPT !.step = "poll", !.todo = Job.quorum]
<1>1. /\ Job.step = "write" /\ task' = [task EXCEPT !["forward"] = t]
      /\ ID' = [ID EXCEPT ![s] = @ + 1] /\ VER' = [VER EXCEPT ![s] = @ + 1]
      /\ articles' = [articles EXCEPT ![s] =
                        Append(@, [ID |-> ID'[s], hierachy |-> Job.preHie + 1,
                                   post |-> call[Job.client].post])]
      /\ UNCHANGED <<forwarded, reads, taken, client>>
  BY DEF Write1, Begin, Job
<1>2. "forward" \in Threads
  BY DEF Threads
<1>3. /\ Job \in Task /\ TaskOK("forward", Job) /\ Job.todo \in Seq(Servers) /\ Job.todo # <<>>
      /\ Job.quorum \in Seq(Servers) /\ Job.preHie \in Nat \cup {-1}
  BY <1>1, <1>2, TaskFields DEF TaskOK, Job
<1>4. s \in Servers /\ rest \in Seq(Servers)
  BY <1>3, HeadFirst
<1>5. Job.op = "POST" /\ Job.quorum # <<>> /\ Job.newest = NoServer /\ Job.maxVer = 0
  BY <1>1, <1>3 DEF TaskOK
<1>6. Job.client \in Clients /\ call[Job.client].post \in Post
  <2>1. Serves("forward")
    BY <1>1 DEF Serves, Job
  <2>2. Job.client \in taken /\ call[Job.client].op \in Writing
    BY <1>2, <1>5, <2>1 DEF TInv, Requests, OpsOf, Job
  <2> QED  BY <2>2 DEF TInv, Types, ClientTypeOK
<1>7. ID[s] + 1 \in Nat /\ VER[s] + 1 \in Nat /\ ID'[s] = ID[s] + 1
  <2>1. ID \in [Servers -> Nat] /\ VER \in [Servers -> Nat]
    BY DEF TInv, Types
  <2>2. ID[s] \in Nat /\ VER[s] \in Nat
    BY <1>4, <2>1
  <2>3. ID'[s] = ID[s] + 1
    BY <1>1, <1>4, <2>1
  <2> QED  BY <2>2, <2>3
<1>8. x \in Article
  BY <1>3, <1>6, <1>7 DEF Article
<1>9. articles' = [articles EXCEPT ![s] = Append(@, x)]
  BY <1>1, <1>7
<1> HIDE DEF s, x
<1>10. Append(articles[s], x) \in Seq(Article)
  BY <1>4, <1>8, AppendProperties DEF TInv, Types
<1>11. Kept
  BY <1>1, <1>4, <1>7, <1>9, <1>10 DEF Kept, TInv, Types
<1>12. TaskOK("forward", t) /\ t.client = Job.client /\ t.op = Job.op
  <2>1. "forward" \notin Servers
    BY QuorumAssumption
  <2>2. CASE rest # <<>>
    <3>1. t = [Job EXCEPT !.todo = rest]
      BY <2>2
    <3> HIDE DEF t, rest
    <3>2. /\ t \in Task /\ t.todo = rest /\ t.step = "write" /\ t.op = Job.op
          /\ t.client = Job.client /\ t.quorum = Job.quorum
          /\ t.newest = Job.newest /\ t.maxVer = Job.maxVer
      BY <1>1, <1>3, <1>4, <3>1 DEF Task
    <3> QED  BY <1>5, <2>1, <2>2, <3>2 DEF TaskOK
  <2>3. CASE rest = <<>>
    <3>1. t = [Job EXCEPT !.step = "poll", !.todo = Job.quorum]
      BY <2>3
    <3> HIDE DEF t, rest
    <3>2. /\ t \in Task /\ t.todo = Job.quorum /\ t.step = "poll" /\ t.op = Job.op
          /\ t.client = Job.client /\ t.quorum = Job.quorum
          /\ t.newest = Job.newest /\ t.maxVer = Job.maxVer
      BY <1>1, <1>3, <3>1 DEF Task
    <3> QED  BY <1>5, <2>1, <3>2 DEF TaskOK
  <2> QED  BY <2>2, <2>3
<1> HIDE DEF t, rest
<1> QED  BY <1>1, <1>2, <1>11, <1>12, TaskGoesOn DEF Job

LEMMA ClientTypes ==
    ASSUME TInv, ClientStep
    PROVE  TInv'
<1>1. PICK c, r : Asks(c, r)
  BY ClientAsks DEF TInv, ClientStep
<1>2. UNCHANGED <<articles, ID, VER, forwarded, reads, taken, task>>
  BY DEF ClientStep, server
<1>3. \A op : call[c].op \notin OpsOf(op)
  BY <1>1, NoCallType DEF Asks, OpsOf
<1>4. call[c].op # "READ" /\ c \in Clients
  BY <1>1, NoCallType DEF Asks
<1>5. \A d \in Clients \ {c} : call'[d] = call[d]
  BY <1>1 DEF Asks, TInv, ClientTypeOK
<1>6. taken \subseteq Clients
  BY DEF TInv, Types
<1>7. Requests'
  <2>1. \A m \in forwarded : m.client \in taken /\ call[m.client].op \in OpsOf(m.op)
    BY DEF TInv, Requests
  <2>2. \A m \in reads : m.client \in taken /\ call[m.client].op = "READ"
    BY DEF TInv, Requests
  <2>3. \A x \in Threads : Serves(x) =>
          task[x].client \in taken /\ call[task[x].client].op \in OpsOf(task[x].op)
    BY DEF TInv, Requests
  <2>4. \A m \in forwarded : m.client \in taken' /\ call'[m.client].op \in OpsOf(m.op)
    BY <1>2, <1>3, <1>5, <1>6, <2>1
  <2>5. \A m \in reads : m.client \in taken' /\ call'[m.client].op = "READ"
    BY <1>2, <1>4, <1>5, <1>6, <2>2
  <2>6. \A x \in Threads : Serves(x)' =>
          task'[x].client \in taken' /\ call'[task'[x].client].op \in OpsOf(task'[x].op)
    BY <1>2, <1>3, <1>5, <1>6, <2>3 DEF Serves
  <2> QED  BY <1>2, <2>4, <2>5, <2>6 DEF Requests
<1>8. Types' /\ Tasks' /\ Once'
  BY <1>2 DEF TInv, Types, Tasks, TaskOK, Once, Serves
<1>9. ClientTypeOK'
  BY <1>1, AsksType DEF TInv
<1> QED  BY <1>7, <1>8, <1>9 DEF TInv

\* A request that no listen thread has taken is nowhere.
LEMMA NotTaken ==
    ASSUME TInv, NEW c, c \notin taken
    PROVE  /\ \A m \in forwarded \cup reads : m.client # c
           /\ \A x \in Threads : Serves(x) => task[x].client # c
BY DEF TInv, Requests

LEMMA ForwardTypes ==
    ASSUME TInv, NEW c \in Clients, NEW s \in Servers, Post_handler(c, s) \/ Read_handler(c, s)
    PROVE  TInv'
<1>1. PICK op \in {"READ", "POST"} :
        /\ call[c].op = op /\ c \notin taken /\ taken' = taken \cup {c}
        /\ forwarded' = forwarded \cup {[client |-> c, op |-> op, preHie |-> -1]}
        /\ UNCHANGED <<articles, ID, VER, reads, task, client>>
  BY DEF Post_handler, Read_handler, Queued, ForwardQum
<1>2. PICK m : m = [client |-> c, op |-> op, preHie |-> -1]
  OBVIOUS
<1>3. m.client = c /\ m.op = op /\ forwarded' = forwarded \cup {m} /\ call[c].op \in OpsOf(m.op)
      /\ m \in [client : Clients, op : {"READ", "POST"}, preHie : Nat \cup {-1}]
  BY <1>1, <1>2 DEF OpsOf, Writing
<1>4. Types' /\ Tasks' /\ ClientTypeOK'
  BY <1>1, <1>3, SameClient DEF TInv, Types, Tasks, TaskOK
<1>5. UNCHANGED call
  BY <1>1 DEF client
<1>6. Requests'
  <2>1. \A n \in forwarded' : n.client \in taken' /\ call'[n.client].op \in OpsOf(n.op)
    BY <1>1, <1>3, <1>5 DEF TInv, Requests
  <2>2. \A n \in reads' : n.client \in taken' /\ call'[n.client].op = "READ"
    BY <1>1, <1>5 DEF TInv, Requests
  <2>3. \A x \in Threads : Serves(x)' =>
          task'[x].client \in taken' /\ call'[task'[x].client].op \in OpsOf(task'[x].op)
    BY <1>1, <1>5 DEF TInv, Requests, Serves
  <2> QED  BY <2>1, <2>2, <2>3 DEF Requests
<1>7. Once'
  BY <1>1, <1>3, NotTaken DEF TInv, Once, Serves
<1> QED  BY <1>4, <1>6, <1>7 DEF TInv

LEMMA PollingTask ==
    ASSUME NEW list \in Seq(Servers)
    PROVE  /\ Polling(list) \in Task /\ Polling(list).step = "poll" /\ Polling(list).op = "none"
           /\ Polling(list).quorum = <<>> /\ Polling(list).todo = list
           /\ Polling(list).newest = NoServer /\ Polling(list).maxVer = 0
<1>1. Idle \in Task
  BY IdleOK
<1>2. Polling(list) = [Idle EXCEPT !.step = "poll", !.todo = list]
  BY DEF Polling
<1>3. /\ Idle.op = "none" /\ Idle.quorum = <<>> /\ Idle.newest = NoServer /\ Idle.maxVer = 0
  BY DEF Idle
<1> QED  BY <1>1, <1>2, <1>3 DEF Task

LEMMA ReplyTypes ==
    ASSUME TInv, NEW c \in Clients, NEW s \in Servers, Reply_handler(c, s)
    PROVE  TInv'
<1>1. /\ call[c].op = "REPLY" /\ c \notin taken /\ task[s].step = "idle"
      /\ taken' = taken \cup {c}
      /\ task' = [task EXCEPT ![s] = [Polling(SIPs) EXCEPT !.client = c]]
      /\ UNCHANGED <<articles, ID, VER, forwarded, reads, client>>
  BY DEF Reply_handler, Queued, Begin
<1>2. PICK t : t = [Polling(SIPs) EXCEPT !.client = c]
  OBVIOUS
<1>3. SIPs \in Seq(Servers) /\ SIPs # <<>>
  BY SIPsAll
<1>4. /\ t \in Task /\ t.step = "poll" /\ t.client = c /\ t.op = "none"
      /\ t.quorum = <<>> /\ t.todo = SIPs /\ t.newest = NoServer /\ t.maxVer = 0
  BY <1>2, <1>3, PollingTask DEF Task
<1>5. s \in Threads /\ s # "forward" /\ s # "heartbeat"
  BY QuorumAssumption DEF Threads
<1>6. task \in [Threads -> Task] /\ task' = [task EXCEPT ![s] = t]
  BY <1>1, <1>2 DEF TInv, Types
<1>7. task'[s] = t /\ \A y \in Threads \ {s} : task'[y] = task[y]
  BY <1>5, <1>6
<1>8. Types' /\ ClientTypeOK'
  BY <1>1, <1>4, <1>6, SameClient DEF TInv, Types
<1>9. TaskOK(s, t)
  BY <1>4, <1>5, SIPsAll DEF TaskOK
<1>10. Tasks'
  BY <1>5, <1>7, <1>9 DEF TInv, Tasks
<1>11. UNCHANGED call /\ call[c].op \in OpsOf("none")
  BY <1>1 DEF client, OpsOf, Writing
<1>12. \A y \in Threads : y # s => Serves(y)' = Serves(y) /\ task'[y] = task[y]
  BY <1>7 DEF Serves
<1>13. Requests'
  <2>1. /\ \A m \in forwarded' : m.client \in taken' /\ call'[m.client].op \in OpsOf(m.op)
        /\ \A m \in reads' : m.client \in taken' /\ call'[m.client].op = "READ"
    BY <1>1, <1>11 DEF TInv, Requests
  <2>2. task'[s].client \in taken' /\ call'[task'[s].client].op \in OpsOf(task'[s].op)
    <3>1. task'[s].client = c /\ task'[s].op = "none" /\ c \in taken' /\ call'[c].op \in OpsOf("none")
      BY <1>1, <1>4, <1>7, <1>11
    <3> QED  BY <3>1
  <2>3. \A x \in Threads : Serves(x)' =>
          task'[x].client \in taken' /\ call'[task'[x].client].op \in OpsOf(task'[x].op)
    BY <1>1, <1>11, <1>12, <2>2 DEF TInv, Requests
  <2> QED  BY <2>1, <2>3 DEF Requests
<1>14. Once'
  <2>1. \A x \in Threads : Serves(x)' /\ x # s => task'[x].client # c
    BY <1>1, <1>12, NotTaken
  <2>2. \A x \in Threads : Serves(x)' =>
          /\ \A m \in forwarded \cup reads : m.client # task'[x].client
          /\ \A y \in Threads : Serves(y)' /\ task'[y].client = task'[x].client => x = y
    BY <1>1, <1>4, <1>7, <1>12, <2>1, NotTaken DEF TInv, Once
  <2> QED  BY <1>1, <2>2 DEF TInv, Once
<1> QED  BY <1>8, <1>10, <1>13, <1>14 DEF TInv

\* A thread is done: its request goes on as a message, or is answered.
LEMMA OthersServe ==
    ASSUME TInv, NEW x \in Threads, task' = [task EXCEPT ![x] = Idle]
    PROVE  /\ task' \in [Threads -> Task] /\ Tasks' /\ ~Serves(x)'
           /\ \A y \in Threads : Serves(y)' =>
                y # x /\ Serves(y) /\ task'[y] = task[y]
<1>1. /\ task \in [Threads -> Task] /\ task'[x] = Idle
      /\ \A y \in Threads \ {x} : task'[y] = task[y]
  BY DEF TInv, Types
<1>2. Idle.step = "idle"
  BY DEF Idle
<1> QED  BY <1>1, <1>2, IdleOK DEF TInv, Tasks, Serves

LEMMA AskTypes ==
    ASSUME TInv, NEW s \in Servers, Ask(s)
    PROVE  TInv'
<1> DEFINE c == task[s].client
<1>1. /\ task[s].step = "ask" /\ task' = [task EXCEPT ![s] = Idle]
      /\ UNCHANGED <<articles, ID, VER, reads, taken, client>>
  BY DEF Ask, Begin
<1>2. s \in Threads /\ s # "heartbeat" /\ s # "forward" /\ Serves(s)
  BY <1>1, QuorumAssumption DEF Threads, Serves
<1>3. TaskOK(s, task[s]) /\ task[s].newest \in Servers
  BY <1>1, <1>2, TaskFields DEF TaskOK
<1>4. PICK h \in Hierachies(task[s].newest, call[c].repID) :
        forwarded' = forwarded \cup {[client |-> c, op |-> "POST", preHie |-> h]}
  BY DEF Ask, ForwardQum
<1>5. h \in Nat
  <2> DEFINE a == articles[task[s].newest]
             id == call[c].repID
  <2>1. a \in Seq(Article)
    BY <1>3 DEF TInv, Types
  <2>2. CASE Carriers(a, id) = {}
    BY <1>4, <2>2, ClientAssumption DEF Hierachies
  <2>3. CASE Carriers(a, id) # {}
    <3>1. a[First(Carriers(a, id))] \in Article
      BY <2>1, <2>3, CarrierType
    <3> QED  BY <1>4, <2>3, <3>1, ArticleFields DEF Hierachies
  <2> QED  BY <2>2, <2>3
<1>6. c \in taken /\ c \in Clients /\ call[c].op \in Writing
  BY <1>2, <1>3 DEF TInv, Types, Requests, OpsOf, TaskOK
<1>7. PICK m : m = [client |-> c, op |-> "POST", preHie |-> h]
  OBVIOUS
<1>8. /\ m.client = c /\ m.op = "POST" /\ forwarded' = forwarded \cup {m}
      /\ m \in [client : Clients, op : {"READ", "POST"}, preHie : Nat \cup {-1}]
      /\ call[m.client].op \in OpsOf(m.op)
  BY <1>4, <1>5, <1>6, <1>7 DEF OpsOf
<1>9. Types' /\ Tasks' /\ ClientTypeOK'
  BY <1>1, <1>2, <1>8, OthersServe, SameClient DEF TInv, Types
<1>10. UNCHANGED call
  BY <1>1 DEF client
<1>11. \A y \in Threads : Serves(y)' => y # s /\ Serves(y) /\ task'[y] = task[y]
  BY <1>1, <1>2, OthersServe
<1>12. Requests'
  <2>1. \A n \in forwarded' : n.client \in taken' /\ call'[n.client].op \in OpsOf(n.op)
    BY <1>1, <1>6, <1>8, <1>10 DEF TInv, Requests
  <2>2. \A n \in reads' : n.client \in taken' /\ call'[n.client].op = "READ"
    BY <1>1, <1>10 DEF TInv, Requests
  <2>3. \A x \in Threads : Serves(x)' =>
          task'[x].client \in taken' /\ call'[task'[x].client].op \in OpsOf(task'[x].op)
    BY <1>1, <1>10, <1>11 DEF TInv, Requests
  <2> QED  BY <2>1, <2>2, <2>3 DEF Requests
<1>13. Once'
  <2>1. /\ \A n \in forwarded \cup reads : n.client # c
        /\ \A y \in Threads : Serves(y) /\ task[y].client = c => y = s
    BY <1>2 DEF TInv, Once
  <2>2. /\ \A n, k \in forwarded' : n.client = k.client => n = k
        /\ \A n, k \in reads' : n.client = k.client => n = k
        /\ \A n \in forwarded', k \in reads' : n.client # k.client
    BY <1>1, <1>8, <2>1 DEF TInv, Once
  <2>3. \A x \in Threads : Serves(x)' =>
          /\ \A n \in forwarded' \cup reads' : n.client # task'[x].client
          /\ \A y \in Threads : Serves(y)' /\ task'[y].client = task'[x].client => x = y
    BY <1>1, <1>8, <1>11, <2>1 DEF TInv, Once
  <2> QED  BY <2>2, <2>3 DEF Once
<1> QED  BY <1>9, <1>12, <1>13 DEF TInv

\* A request is taken from the port of the coordinator.
LEMMA BeginTypes ==
    ASSUME TInv, NEW m \in forwarded, NEW t, TaskOK("forward", t), task["forward"].step = "idle",
           t.client = m.client, t.op = m.op, task' = [task EXCEPT !["forward"] = t],
           forwarded' = forwarded \ {m},
           UNCHANGED <<articles, ID, VER, reads, taken, client>>
    PROVE  TInv'
<1>1. "forward" \in Threads /\ t \in Task
  BY DEF Threads, TaskOK
<1>2. /\ task \in [Threads -> Task] /\ task'["forward"] = t
      /\ \A y \in Threads \ {"forward"} : task'[y] = task[y]
  BY <1>1 DEF TInv, Types
<1>3. Types' /\ ClientTypeOK'
  BY <1>1, <1>2, SameClient DEF TInv, Types
<1>4. Tasks'
  BY <1>2 DEF TInv, Tasks
<1>5. UNCHANGED call
  BY DEF client
<1>6. \A y \in Threads \ {"forward"} : Serves(y)' = Serves(y) /\ task'[y] = task[y]
  BY <1>2 DEF Serves
<1>7. m.client \in taken /\ call[m.client].op \in OpsOf(m.op)
  BY DEF TInv, Requests
<1>8. Requests'
  <2>1. \A x \in Threads : Serves(x)' =>
          task'[x].client \in taken' /\ call'[task'[x].client].op \in OpsOf(task'[x].op)
    BY <1>2, <1>5, <1>6, <1>7 DEF TInv, Requests
  <2> QED  BY <1>5, <2>1 DEF TInv, Requests
<1>9. Once'
  <2>1. /\ \A n \in forwarded \ {m} : n.client # m.client
        /\ \A n \in reads : n.client # m.client
        /\ \A y \in Threads : Serves(y) => task[y].client # m.client
    BY DEF TInv, Once
  <2>2. \A x \in Threads : Serves(x)' =>
          /\ \A n \in forwarded' \cup reads' : n.client # task'[x].client
          /\ \A y \in Threads : Serves(y)' /\ task'[y].client = task'[x].client => x = y
    BY <1>2, <1>6, <2>1 DEF TInv, Once
  <2> QED  BY <2>2 DEF TInv, Once
<1> QED  BY <1>3, <1>4, <1>8, <1>9 DEF TInv

LEMMA ForwardReadTypes ==
    ASSUME TInv, NEW m \in forwarded, ForwardRead(m)
    PROVE  TInv'
<1>1. PICK q \in Quorums :
        /\ m.op = "READ" /\ task["forward"].step = "idle" /\ forwarded' = forwarded \ {m}
        /\ task' = [task EXCEPT !["forward"] =
                      [Polling(q) EXCEPT !.client = m.client, !.op = "READ"]]
        /\ UNCHANGED <<articles, ID, VER, reads, taken, client>>
  BY DEF ForwardRead, MayBegin, Begin
<1>2. PICK t : t = [Polling(q) EXCEPT !.client = m.client, !.op = "READ"]
  OBVIOUS
<1>3. q \in Seq(Servers) /\ q # <<>> /\ m.client \in Clients
  BY QuorumNames DEF TInv, Types
<1>4. /\ t \in Task /\ t.step = "poll" /\ t.client = m.client /\ t.op = "READ"
      /\ t.todo = q /\ t.newest = NoServer /\ t.maxVer = 0
  <2>1. PICK p : p = Polling(q)
    OBVIOUS
  <2>2. p \in Task /\ p.step = "poll" /\ p.todo = q /\ p.newest = NoServer /\ p.maxVer = 0
    BY <1>3, <2>1, PollingTask
  <2>3. t = [p EXCEPT !.client = m.client, !.op = "READ"]
    BY <1>2, <2>1
  <2>4. t \in Task
    BY <1>3, <2>2, <2>3 DEF Task
  <2> QED  BY <2>2, <2>3, <2>4 DEF Task
<1>5. "forward" \notin Servers
  BY QuorumAssumption
<1>6. TaskOK("forward", t)
  BY <1>3, <1>4, <1>5 DEF TaskOK
<1>7. task' = [task EXCEPT !["forward"] = t]
  BY <1>1, <1>2
<1> QED  BY <1>1, <1>4, <1>6, <1>7, BeginTypes

LEMMA ForwardPostTypes ==
    ASSUME TInv, NEW m \in forwarded, ForwardPost(m)
    PROVE  TInv'
<1>1. PICK q \in Quorums :
        /\ m.op = "POST" /\ task["forward"].step = "idle" /\ forwarded' = forwarded \ {m}
        /\ task' = [task EXCEPT !["forward"] =
                      [Idle EXCEPT !.step = "write", !.client = m.client, !.op = "POST",
                         !.preHie = m.preHie, !.quorum = q, !.todo = q]]
        /\ UNCHANGED <<articles, ID, VER, reads, taken, client>>
  BY DEF ForwardPost, MayBegin, Begin
<1>2. PICK t : t = [Idle EXCEPT !.step = "write", !.client = m.client, !.op = "POST",
                      !.preHie = m.preHie, !.quorum = q, !.todo = q]
  OBVIOUS
<1>3. q \in Seq(Servers) /\ q # <<>> /\ m.client \in Clients /\ m.preHie \in Nat \cup {-1}
  BY QuorumNames DEF TInv, Types
<1>4. /\ t \in Task /\ t.step = "write" /\ t.client = m.client /\ t.op = "POST"
      /\ t.quorum = q /\ t.todo = q /\ t.newest = NoServer /\ t.maxVer = 0
  <2>1. PICK c, h : c = m.client /\ h = m.preHie
    OBVIOUS
  <2>2. t = [Idle EXCEPT !.step = "write", !.client = c, !.op = "POST", !.preHie = h,
               !.quorum = q, !.todo = q]
    BY <1>2, <2>1
  <2>3. c \in Clients /\ h \in Nat \cup {-1} /\ q \in Seq(Servers)
    BY <1>3, <2>1
  <2>4. /\ t \in Task /\ t.step = "write" /\ t.client = c /\ t.op = "POST"
        /\ t.quorum = q /\ t.todo = q /\ t.newest = NoServer /\ t.maxVer = 0
    <3>1. Idle \in Task /\ Idle.newest = NoServer /\ Idle.maxVer = 0
      BY IdleOK DEF Idle
    <3>2. PICK i : i = Idle
      OBVIOUS
    <3>3. t = [i EXCEPT !.step = "write", !.client = c, !.op = "POST", !.preHie = h,
                 !.quorum = q, !.todo = q]
      BY <2>2, <3>2
    <3>4. t \in Task
      BY <2>3, <3>1, <3>2, <3>3 DEF Task
    <3> QED  BY <3>1, <3>2, <3>3, <3>4 DEF Task
  <2> QED  BY <2>1, <2>4
<1>5. "forward" \notin Servers
  BY QuorumAssumption
<1>6. TaskOK("forward", t)
  BY <1>3, <1>4, <1>5 DEF TaskOK
<1>7. task' = [task EXCEPT !["forward"] = t]
  BY <1>1, <1>2
<1> QED  BY <1>1, <1>4, <1>6, <1>7, BeginTypes

\* A client is answered: its request is nowhere any more.
LEMMA AnsweredTypes ==
    ASSUME TInv, NEW c \in Clients, taken' = taken \ {c},
           \A d \in Clients \ {c} : call'[d] = call[d], Types', Tasks', ClientTypeOK',
           forwarded' = forwarded, reads' \subseteq reads, \A m \in reads' : m.client # c,
           \A m \in forwarded : m.client # c,
           \A y \in Threads : Serves(y)' =>
             Serves(y) /\ task[y].client # c /\ task'[y] = task[y]
    PROVE  TInv'
<1>1. \A d \in taken : d \in Clients
  BY DEF TInv, Types
<1>2. Requests'
  <2>1. \A m \in forwarded' : m.client \in taken' /\ call'[m.client].op \in OpsOf(m.op)
    BY <1>1 DEF TInv, Requests
  <2>2. \A m \in reads' : m.client \in taken' /\ call'[m.client].op = "READ"
    BY <1>1 DEF TInv, Requests
  <2>3. \A x \in Threads : Serves(x)' =>
          task'[x].client \in taken' /\ call'[task'[x].client].op \in OpsOf(task'[x].op)
    BY <1>1 DEF TInv, Requests
  <2> QED  BY <2>1, <2>2, <2>3 DEF Requests
<1>3. Once'
  BY DEF TInv, Once
<1> QED  BY <1>2, <1>3 DEF TInv

\* What the coordinator is doing for a client.
LEMMA JobTypes ==
    ASSUME TInv, Job.step # "idle"
    PROVE  /\ "forward" \in Threads /\ TaskOK("forward", Job) /\ Job.op \in {"READ", "POST"}
           /\ Job.client \in taken /\ Job.client \in Clients
           /\ call[Job.client].op \in OpsOf(Job.op)
           /\ \A m \in forwarded \cup reads : m.client # Job.client
           /\ \A y \in Threads : Serves(y) /\ task[y].client = Job.client => y = "forward"
<1>1. "forward" \in Threads
  BY DEF Threads
<1>2. Serves("forward") /\ TaskOK("forward", Job)
  BY <1>1, TaskFields DEF Serves, Job
<1>3. Job.client \in taken /\ call[Job.client].op \in OpsOf(Job.op)
  BY <1>1, <1>2 DEF TInv, Requests, Job
<1>4. /\ \A m \in forwarded \cup reads : m.client # Job.client
      /\ \A y \in Threads : Serves(y) /\ task[y].client = Job.client => y = "forward"
  BY <1>1, <1>2 DEF TInv, Once, Job
<1> QED  BY <1>1, <1>2, <1>3, <1>4 DEF TaskOK, TInv, Types

\* A client is shown the sorted board of a server.
LEMMA ShownTypes ==
    ASSUME TInv, NEW c \in Clients, NEW s \in Servers,
           articles' = [articles EXCEPT ![s] = SortByID(@)], Show(c, articles'[s])
    PROVE  /\ ClientTypeOK' /\ articles' \in [Servers -> Seq(Article)]
           /\ \A d \in Clients \ {c} : call'[d] = call[d]
<1>1. articles' \in [Servers -> Seq(Article)] /\ articles'[s] = SortByID(articles[s])
  BY SortedKept
<1>2. Sent(articles'[s]) \in Seq(Entry)
  BY <1>1, SentBoard DEF TInv, Types, Board, Entry
<1>3. PICK a : a = articles'[s]
  OBVIOUS
<1>4. ClientTypeOK'
  BY <1>2, <1>3, ShowType DEF TInv
<1>5. call' = [call EXCEPT ![c] = NoCall]
  BY DEF Show
<1> QED  BY <1>1, <1>4, <1>5 DEF TInv, ClientTypeOK

LEMMA AnswerReadTypes ==
    ASSUME TInv, AnswerRead
    PROVE  TInv'
<1> DEFINE c == Job.client
<1>1. /\ Job.step = "answer" /\ task' = [task EXCEPT !["forward"] = Idle]
      /\ UNCHANGED <<ID, VER, forwarded>>
  BY DEF AnswerRead, Begin, Job
<1>2. /\ "forward" \in Threads /\ TaskOK("forward", Job) /\ c \in Clients
      /\ c \in taken /\ call[c].op \in OpsOf(Job.op)
      /\ \A m \in forwarded \cup reads : m.client # c
      /\ \A y \in Threads : Serves(y) /\ task[y].client = c => y = "forward"
  BY <1>1, JobTypes
<1>3. Job.op = "READ" /\ Job.newest \in Servers /\ call[c].op = "READ"
  BY <1>1, <1>2 DEF TaskOK, OpsOf
<1>4. /\ task' \in [Threads -> Task] /\ Tasks'
      /\ \A y \in Threads : Serves(y)' => y # "forward" /\ Serves(y) /\ task'[y] = task[y]
  BY <1>1, <1>2, OthersServe
<1>5. CASE Job.newest = Primary
  <2>1. /\ articles' = [articles EXCEPT ![Primary] = SortByID(@)]
        /\ Show(c, articles'[Primary]) /\ taken' = taken \ {c} /\ UNCHANGED reads
    BY <1>5 DEF AnswerRead, Job
  <2>2. /\ ClientTypeOK' /\ articles' \in [Servers -> Seq(Article)]
        /\ \A d \in Clients \ {c} : call'[d] = call[d]
    BY <1>2, <2>1, ClientAssumption, ShownTypes
  <2>3. Types'
    BY <1>1, <1>4, <2>1, <2>2 DEF TInv, Types
  <2> QED  BY <1>1, <1>2, <1>4, <2>1, <2>2, <2>3, AnsweredTypes
<1>6. CASE Job.newest # Primary
  <2>1. /\ reads' = reads \cup {[server |-> Job.newest, client |-> c]}
        /\ UNCHANGED <<articles, taken, client>>
    BY <1>6 DEF AnswerRead, Job
  <2>2. PICK m : m = [server |-> Job.newest, client |-> c]
    OBVIOUS
  <2>3. m.client = c /\ reads' = reads \cup {m} /\ m \in [server : Servers, client : Clients]
    BY <1>2, <1>3, <2>1, <2>2
  <2>4. Types' /\ ClientTypeOK' /\ UNCHANGED call
    BY <1>1, <1>4, <2>1, <2>3, SameClient DEF TInv, Types, client
  <2>5. Requests'
    <3>1. \A n \in reads' : n.client \in taken' /\ call'[n.client].op = "READ"
      BY <1>2, <1>3, <2>1, <2>3, <2>4 DEF TInv, Requests
    <3>2. \A x \in Threads : Serves(x)' =>
            task'[x].client \in taken' /\ call'[task'[x].client].op \in OpsOf(task'[x].op)
      BY <1>4, <2>1, <2>4 DEF TInv, Requests
    <3>3. \A n \in forwarded' : n.client \in taken' /\ call'[n.client].op \in OpsOf(n.op)
      BY <1>1, <2>1, <2>4 DEF TInv, Requests
    <3> QED  BY <3>1, <3>2, <3>3 DEF Requests
  <2>6. Once'
    <3>1. /\ \A n, k \in forwarded' : n.client = k.client => n = k
          /\ \A n, k \in reads' : n.client = k.client => n = k
          /\ \A n \in forwarded', k \in reads' : n.client # k.client
      BY <1>1, <1>2, <2>3 DEF TInv, Once
    <3>2. \A x \in Threads : Serves(x)' =>
            /\ \A n \in forwarded' \cup reads' : n.client # task'[x].client
            /\ \A y \in Threads : Serves(y)' /\ task'[y].client = task'[x].client => x = y
      BY <1>1, <1>2, <1>4, <2>3 DEF TInv, Once
    <3> QED  BY <3>1, <3>2 DEF Once
  <2> QED  BY <1>4, <2>4, <2>5, <2>6 DEF TInv
<1> QED  BY <1>5, <1>6

LEMMA OperationReadTypes ==
    ASSUME TInv, NEW m \in reads, OperationRead(m)
    PROVE  TInv'
<1>1. /\ reads' = reads \ {m} /\ taken' = taken \ {m.client}
      /\ articles' = [articles EXCEPT ![m.server] = SortByID(@)]
      /\ Show(m.client, articles'[m.server]) /\ UNCHANGED <<ID, VER, forwarded, task>>
  BY DEF OperationRead
<1>2. m.client \in Clients /\ m.server \in Servers
  BY DEF TInv, Types
<1>3. /\ ClientTypeOK' /\ articles' \in [Servers -> Seq(Article)]
      /\ \A d \in Clients \ {m.client} : call'[d] = call[d]
  BY <1>1, <1>2, ShownTypes
<1>4. Types' /\ Tasks'
  BY <1>1, <1>3 DEF TInv, Types, Tasks, TaskOK
<1>5. /\ \A n \in reads' : n.client # m.client
      /\ \A n \in forwarded : n.client # m.client
      /\ \A y \in Threads : Serves(y) => task[y].client # m.client
  BY <1>1 DEF TInv, Once
<1>6. \A y \in Threads : Serves(y)' =>
        Serves(y) /\ task[y].client # m.client /\ task'[y] = task[y]
  BY <1>1, <1>5 DEF Serves
<1>7. PICK c : c = m.client
  OBVIOUS
<1> QED  BY <1>1, <1>2, <1>3, <1>4, <1>5, <1>6, <1>7, AnsweredTypes

LEMMA SucceedTypes ==
    ASSUME TInv, Succeed
    PROVE  TInv'
<1> DEFINE c == Job.client
<1>1. /\ Job.step = "done" /\ Tell(c, TRUE) /\ taken' = taken \ {c}
      /\ task' = [task EXCEPT !["forward"] = Idle]
      /\ UNCHANGED <<articles, ID, VER, forwarded, reads>>
  BY DEF Succeed, Begin, Job
<1>2. /\ "forward" \in Threads /\ TaskOK("forward", Job) /\ c \in Clients
      /\ call[c].op \in OpsOf(Job.op)
      /\ \A m \in forwarded \cup reads : m.client # c
      /\ \A y \in Threads : Serves(y) /\ task[y].client = c => y = "forward"
  BY <1>1, JobTypes
<1>3. call[c].op \in Writing
  BY <1>1, <1>2 DEF TaskOK, OpsOf
<1>4. /\ task' \in [Threads -> Task] /\ Tasks'
      /\ \A y \in Threads : Serves(y)' => y # "forward" /\ Serves(y) /\ task'[y] = task[y]
  BY <1>1, <1>2, OthersServe
<1>5. ClientTypeOK'
  BY <1>1, <1>2, <1>3, TellType DEF TInv
<1>6. Types'
  BY <1>1, <1>4 DEF TInv, Types
<1>7. \A d \in Clients \ {c} : call'[d] = call[d]
  BY <1>1 DEF Tell, TInv, ClientTypeOK
<1> QED  BY <1>1, <1>2, <1>4, <1>5, <1>6, <1>7, AnsweredTypes

LEMMA HeartBeatTypes ==
    ASSUME TInv, HeartBeat
    PROVE  TInv'
<1>1. /\ task' = [task EXCEPT !["heartbeat"] = Polling(SIPs)]
      /\ UNCHANGED <<articles, ID, VER, forwarded, reads, taken, client>>
  BY DEF HeartBeat, Begin
<1>2. "heartbeat" \in Threads /\ "heartbeat" \notin Servers
  BY QuorumAssumption DEF Threads
<1>3. TaskOK("heartbeat", Polling(SIPs))
  BY <1>2, SIPsAll, PollingTask DEF TaskOK
<1>4. Kept
  BY <1>1 DEF Kept, TInv, Types
<1>5. PICK t : t = Polling(SIPs)
  OBVIOUS
<1> QED  BY <1>1, <1>2, <1>3, <1>4, <1>5, TaskGoesOn

LEMMA TypesKept == TInv /\ [Next]_vars => TInv'
<1> SUFFICES ASSUME TInv, [Next]_vars
             PROVE  TInv'
  OBVIOUS
<1>1. CASE ClientStep
  BY <1>1, ClientTypes
<1>2. CASE ListenStep
  BY <1>2, ForwardTypes, ReplyTypes, AskTypes DEF ListenStep
<1>3. CASE PrimaryPortStep
  BY <1>3, ForwardReadTypes, ForwardPostTypes, WriteTypes, AnswerReadTypes, SucceedTypes,
     OperationReadTypes DEF PrimaryPortStep
<1>4. CASE CallStep
  BY <1>4, PollTypes, FetchTypes, SynchTypes DEF CallStep
<1>5. CASE HeartBeat
  BY <1>5, HeartBeatTypes
<1>6. CASE UNCHANGED vars
  <2>1. UNCHANGED client /\ UNCHANGED <<articles, ID, VER, forwarded, reads, taken, task, call>>
    BY <1>6 DEF vars, server, client
  <2>2. ClientTypeOK'
    BY <2>1, SameClient DEF TInv
  <2> QED  BY <2>1, <2>2 DEF TInv, Types, Tasks, TaskOK, Requests, Once, Serves
<1> QED  BY <1>1, <1>2, <1>3, <1>4, <1>5, <1>6 DEF Next

\* The state of the quorum servers stays well shaped, whatever the threads of the
\* coordinator do at the same time: the iterator that getNewestServer returns
\* through always points to a server (a first VER of 0 counts as newest), and
\* no call is made along an empty list of servers.
THEOREM TypeCorrect == Spec => []TypeOK
<1>1. Init => TInv
  BY InitTypes
<1>2. TInv /\ [Next]_vars => TInv'
  BY TypesKept
<1>3. TInv => TypeOK
  BY TypesShown
<1> QED  BY <1>1, <1>2, <1>3, PTL DEF Spec

----------------------------------------------------------------------------
(* The boards, when no two threads of the coordinator work at a time.         *)

Exclusive ==
    task["heartbeat"].step \in {"poll", "fetch", "synch"} => Job.step \in {"idle", "hung"}

\* Posts: those a client was told of, and the one that is being written.
Acked == {t.post : t \in {u \in told : u.ok}}
Writes(p) == Job.op = "POST" /\ call[Job.client].post = p

Numbers ==
    /\ \A p \in Acked : p <= writes
    /\ \A c \in Clients : call[c].op \in Writing =>
         /\ call[c].post <= writes /\ call[c].post \notin Acked
         /\ \A d \in Clients : call[d].op \in Writing /\ call[d].post = call[c].post => c = d

Synching(x) == task[x].step = "synch"

Everywhere(p) ==
    /\ \A s \in Servers : HasOnce(articles[s], p)
    /\ \A x \in Threads : Synching(x) => HasOnce(task[x].board, p)
Nowhere(p) ==
    /\ \A s \in Servers : HasNone(articles[s], p)
    /\ \A x \in Threads : Synching(x) => HasNone(task[x].board, p)

\* A post on its way: at the servers of the quorum the write has got to, at all
\* of the quorum, in the board fetched from one of them, on every server.
Spreading(p) ==
    /\ Distinct(Job.todo) /\ Named(Job.todo) \subseteq Named(Job.quorum)
    /\ \A s \in Servers :
         IF s \in Named(Job.quorum) \ Named(Job.todo)
         THEN HasOnce(articles[s], p) ELSE HasNone(articles[s], p)
InQuorum(p) ==
    /\ Named(Job.todo) \subseteq Named(Job.quorum)
    /\ Job.newest \in Named(Job.quorum) \cup {NoServer}
    /\ \A s \in Servers : s \in Named(Job.quorum) => HasOnce(articles[s], p)
Written(p) ==
    /\ Job.step = "write" => Spreading(p)
    /\ Job.step = "poll" => InQuorum(p)
    /\ Job.step = "fetch" => HasOnce(articles[Job.newest], p)
    /\ Job.step = "synch" => HasOnce(Job.board, p)
    /\ Job.step = "done" => \A s \in Servers : HasOnce(articles[s], p)

Placed ==
    /\ \A p \in Acked : Everywhere(p)
    /\ \A p \in Post : p \in Acked \/ Writes(p) \/ Nowhere(p)
    /\ \A p \in Post : Writes(p) => Written(p)

\* The boards of two servers differ only while a post spreads, or a board is
\* copied.
Busy == Job.op = "POST" /\ Job.step # "done"

AllSame == \A s, t \in Servers : articles[s] = articles[t] /\ Numbered(articles[s])
Copied(x) ==
    \A s \in Servers : s \in Named(task[x].todo) \/ articles[s] = Loaded(<<>>, task[x].board)
Same ==
    /\ ~Busy /\ ~Synching("heartbeat") => AllSame
    /\ \A x \in Threads : Synching(x) => Copied(x)

\* Clients were shown posts that are acknowledged, or on their way.
Views ==
    /\ \A c \in Clients : \A i \in DOMAIN view[c] :
         view[c][i].post \in Acked \/ Writes(view[c][i].post)
    /\ \A m \in reads : \A i \in DOMAIN view[m.client] : view[m.client][i].post \in Acked

BInv == TInv /\ Exclusive /\ Numbers /\ Placed /\ Same /\ Views

LEMMA AckedPosts == TInv => Acked \subseteq Post
BY DEF TInv, ClientTypeOK, Acked

LEMMA InitBoards == Init => BInv
<1> SUFFICES ASSUME Init
             PROVE  BInv
  OBVIOUS
<1>1. /\ articles = [s \in Servers |-> <<>>] /\ reads = {} /\ task = [x \in Threads |-> Idle]
      /\ call = [c \in Clients |-> NoCall] /\ view = [c \in Clients |-> <<>>] /\ told = {}
  BY DEF Init, ClientInit
<1>2. /\ \A x \in Threads : task[x].step = "idle" /\ task[x].op = "none"
      /\ "forward" \in Threads /\ "heartbeat" \in Threads
  BY <1>1 DEF Idle, Threads
<1>3. DOMAIN <<>> = {}
  BY EmptySeq
<1>4. TInv
  BY InitTypes
<1>5. Acked = {}
  BY <1>1 DEF Acked
<1>6. Exclusive
  BY <1>2 DEF Exclusive
<1>7. Numbers
  BY <1>1, <1>5, NoCallType DEF Numbers
<1>8. Placed
  BY <1>1, <1>2, <1>3, <1>5 DEF Placed, Nowhere, HasNone, Synching, Writes, Job
<1>9. Same
  BY <1>1, <1>2, <1>3 DEF Same, AllSame, Numbered, Synching
<1>10. Views
  BY <1>1, <1>3 DEF Views
<1> QED  BY <1>4, <1>6, <1>7, <1>8, <1>9, <1>10 DEF BInv

\* What the boards and the counts of a step depend on.
LEMMA NumbersKept ==
    ASSUME TInv, Numbers, NEW c, UNCHANGED <<told, writes>>,
           \A d \in Clients : d # c => call'[d] = call[d], call'[c].op \notin Writing
    PROVE  Numbers'
BY DEF Numbers, Acked

LEMMA Unacked == UNCHANGED told => Acked' = Acked
BY DEF Acked

LEMMA ClientSame ==
    ASSUME Numbers, Views, UNCHANGED client, UNCHANGED reads, \A p : Writes(p)' = Writes(p)
    PROVE  Numbers' /\ Views'
<1>1. UNCHANGED <<call, writes, view, told>>
  BY DEF client
<1>2. Acked' = Acked
  BY <1>1 DEF Acked
<1>3. Numbers'
  BY <1>1, <1>2 DEF Numbers
<1>4. Views'
  BY <1>1, <1>2 DEF Views
<1> QED  BY <1>3, <1>4

\* A step that touches no board.
Quiet ==
    /\ UNCHANGED <<articles, told>>
    /\ \/ Job' = Job /\ (Job.op = "POST" => call'[Job.client] = call[Job.client])
       \/ Job.op # "POST" /\ Job'.op # "POST"
    /\ \A x \in Threads : Synching(x) \/ Synching(x)' => task'[x] = task[x]

LEMMA QuietKeeps ==
    ASSUME Placed, Same, Quiet
    PROVE  Placed' /\ Same' /\ (\A p : Writes(p)' = Writes(p)) /\ Acked' = Acked
<1>1. /\ UNCHANGED articles /\ Acked' = Acked
      /\ \A x \in Threads : Synching(x) \/ Synching(x)' => task'[x] = task[x]
  BY Unacked DEF Quiet
<1>2. \A p : Writes(p)' = Writes(p)
  BY DEF Quiet, Writes
<1>3. Busy' = Busy
  BY DEF Quiet, Busy
<1>4. \A p : Everywhere(p) => Everywhere(p)'
  BY <1>1 DEF Everywhere, Synching
<1>5. \A p : Nowhere(p) => Nowhere(p)'
  BY <1>1 DEF Nowhere, Synching
<1>6. \A p : Writes(p) /\ Written(p) => Written(p)'
  <2> SUFFICES ASSUME NEW p, Writes(p), Written(p)
               PROVE  Written(p)'
    OBVIOUS
  <2>1. Job' = Job
    BY DEF Quiet, Writes
  <2> QED  BY <1>1, <2>1 DEF Written, Spreading, InQuorum
<1>7. Placed'
  BY <1>1, <1>2, <1>4, <1>5, <1>6 DEF Placed
<1>8. \A x \in Threads : Synching(x)' = Synching(x)
  BY <1>1 DEF Synching
<1>9. Same'
  <2>1. AllSame' = AllSame
    BY <1>1 DEF AllSame
  <2>2. \A x \in Threads : Synching(x)' => Copied(x)'
    BY <1>1, <1>8 DEF Same, Copied
  <2>3. "heartbeat" \in Threads
    BY DEF Threads
  <2> QED  BY <1>3, <1>8, <2>1, <2>2, <2>3 DEF Same
<1> QED  BY <1>1, <1>2, <1>7, <1>9

\* Steps that touch no board and serve no client.
LEMMA QuietBoards ==
    ASSUME BInv, TInv', Quiet, Exclusive', UNCHANGED <<client, reads>>
    PROVE  BInv'
BY QuietKeeps, ClientSame DEF BInv

LEMMA ClientBoards ==
    ASSUME BInv, ClientStep
    PROVE  BInv'
<1>1. PICK c, r : Asks(c, r)
  BY ClientAsks DEF BInv, TInv, ClientStep
<1>2. UNCHANGED <<articles, reads, task>> /\ UNCHANGED <<told, view>>
  BY <1>1 DEF ClientStep, server, Asks
<1>3. TInv'
  BY ClientTypes DEF BInv
<1>4. /\ c \in Clients /\ call[c] = NoCall /\ call'[c] = r
      /\ \A d \in Clients : d # c => call'[d] = call[d]
  BY <1>1 DEF Asks, BInv, TInv, ClientTypeOK
<1>5. Job.op = "POST" => Job.client \in Clients \ {c}
  <2>1. ASSUME Job.op = "POST"
        PROVE  Job.step # "idle"
    <3>1. TaskOK("forward", Job)
      BY TaskFields DEF BInv, Threads, Job
    <3> QED  BY <2>1, <3>1 DEF TaskOK
  <2>2. Job.op = "POST" => Job.client \in Clients /\ call[Job.client].op \in Writing
    BY <2>1, JobTypes DEF BInv, OpsOf
  <2> QED  BY <2>2, <1>4, NoCallType
<1>6. Quiet
  BY <1>2, <1>4, <1>5 DEF Quiet, Job
<1>7. Placed' /\ Same' /\ (\A p : Writes(p)' = Writes(p)) /\ Acked' = Acked
  BY <1>6, QuietKeeps DEF BInv
<1>8. Exclusive'
  BY <1>2 DEF BInv, Exclusive, Job
<1>9. Views'
  BY <1>2, <1>7 DEF BInv, Views
<1>10. Numbers'
  <2>1. writes \in Nat /\ \A p \in Acked : p <= writes /\ p \in Nat
    <3>1. writes \in Nat
      BY ClientAssumption DEF BInv, TInv, ClientTypeOK
    <3>2. \A p \in Acked : p \in Nat
      BY AckedPosts, ClientAssumption DEF BInv, Post
    <3> QED  BY <3>1, <3>2 DEF BInv, Numbers
  <2>2. \A d \in Clients : call[d].post \in Nat
    BY DEF BInv, TInv, ClientTypeOK
  <2>3. \/ r.op \in Writing /\ writes' = writes + 1 /\ r.post = writes + 1
        \/ r.op \notin Writing /\ writes' = writes
    BY <1>1 DEF Asks, Writing
  <2>4. \A p \in Acked' : p <= writes'
    BY <1>7, <2>1, <2>3
  <2>5. ASSUME NEW d \in Clients, call'[d].op \in Writing
        PROVE  /\ call'[d].post <= writes' /\ call'[d].post \notin Acked'
               /\ \A e \in Clients : call'[e].op \in Writing /\ call'[e].post = call'[d].post => d = e
    <3>1. CASE d = c
      <4>1. call'[d].post = writes + 1 /\ writes' = writes + 1
        BY <1>4, <2>3, <2>5, <3>1
      <4>2. \A e \in Clients : e # c /\ call'[e].op \in Writing => call'[e].post <= writes /\ call'[e].post \in Nat
        BY <1>4, <2>2 DEF BInv, Numbers
      <4> QED  BY <1>7, <2>1, <3>1, <4>1, <4>2
    <3>2. CASE d # c
      <4>1. /\ call'[d] = call[d] /\ call[d].post \in Nat
            /\ call[d].post <= writes /\ call[d].post \notin Acked
            /\ \A e \in Clients : call[e].op \in Writing /\ call[e].post = call[d].post => d = e
        BY <1>4, <2>2, <2>5, <3>2 DEF BInv, Numbers
      <4>2. call'[c].op \in Writing => call'[c].post # call'[d].post
        BY <1>4, <2>1, <2>3, <4>1
      <4> QED  BY <1>4, <1>7, <2>1, <2>3, <4>1, <4>2
    <3> QED  BY <3>1, <3>2
  <2> QED  BY <2>4, <2>5 DEF Numbers
<1> QED  BY <1>3, <1>7, <1>8, <1>9, <1>10 DEF BInv

LEMMA ListenBoards ==
    ASSUME BInv, ListenStep
    PROVE  BInv'
<1>1. PICK s \in Servers :
        \/ \E c \in Clients : Post_handler(c, s) \/ Reply_handler(c, s) \/ Read_handler(c, s)
        \/ Ask(s)
  BY DEF ListenStep
<1>2. TInv' /\ TInv
  BY ForwardTypes, ReplyTypes, AskTypes DEF BInv, ListenStep
<1>3. UNCHANGED <<articles, client, reads>> /\ UNCHANGED told
  BY <1>1 DEF Post_handler, Reply_handler, Read_handler, Ask, client
<1>4. s # "forward" /\ s # "heartbeat" /\ s \in Threads /\ "forward" \in Threads
  BY QuorumAssumption DEF Threads
<1>5. \A x \in Threads \ {s} : task'[x] = task[x]
  BY <1>1 DEF Post_handler, Reply_handler, Read_handler, Ask, Begin, BInv, TInv, Types
<1>6. task[s].step \in {"idle", "poll", "ask"} /\ task'[s].step \in {"idle", "poll", "ask"}
  BY <1>2, <1>4 DEF TInv, Tasks, TaskOK
<1>7. Job' = Job /\ UNCHANGED call
  BY <1>3, <1>4, <1>5 DEF Job, client
<1>8. \A x \in Threads : Synching(x) \/ Synching(x)' => task'[x] = task[x]
  BY <1>5, <1>6 DEF Synching
<1>9. Quiet
  BY <1>3, <1>7, <1>8 DEF Quiet
<1>10. Exclusive'
  BY <1>4, <1>5, <1>7 DEF BInv, Exclusive, Threads
<1> QED  BY <1>2, <1>3, <1>9, <1>10, QuietBoards

\* The task of a POST is the only one that writes.
LEMMA JobOp ==
    TInv => /\ "forward" \in Threads /\ "heartbeat" \in Threads
            /\ Job \in Task /\ TaskOK("forward", Job)
            /\ Job.op = "POST" => Job.step # "idle"
            /\ Job.step \in {"write", "fetch", "synch", "done", "hung"} => Job.op = "POST"
            /\ Job.step \in {"idle", "answer"} => Job.op # "POST"
            /\ Job.op = "POST" => Job.client \in Clients /\ call[Job.client].op \in Writing
                                  /\ call[Job.client].post \in Post
<1> SUFFICES ASSUME TInv
             PROVE  /\ "forward" \in Threads /\ "heartbeat" \in Threads
                    /\ Job \in Task /\ TaskOK("forward", Job)
                    /\ Job.op = "POST" => Job.step # "idle"
                    /\ Job.step \in {"write", "fetch", "synch", "done", "hung"} => Job.op = "POST"
                    /\ Job.step \in {"idle", "answer"} => Job.op # "POST"
                    /\ Job.op = "POST" => Job.client \in Clients /\ call[Job.client].op \in Writing
                                          /\ call[Job.client].post \in Post
  OBVIOUS
<1>1. "forward" \in Threads /\ "heartbeat" \in Threads
  BY DEF Threads
<1>2. Job \in Task /\ TaskOK("forward", Job)
  BY <1>1, TaskFields DEF Job
<1>3. /\ Job.op = "POST" => Job.step # "idle"
      /\ Job.step \in {"write", "fetch", "synch", "done", "hung"} => Job.op = "POST"
      /\ Job.step \in {"idle", "answer"} => Job.op # "POST"
  BY <1>2 DEF TaskOK
<1>4. Job.op = "POST" => Job.client \in Clients /\ call[Job.client].op \in Writing
                         /\ call[Job.client].post \in Post
  BY <1>3, JobTypes DEF OpsOf, TInv, ClientTypeOK
<1> QED  BY <1>1, <1>2, <1>3, <1>4

\* The heartbeat begins only when the request the coordinator served is done.
LEMMA HeartBeatBoards ==
    ASSUME ~Overlap, BInv, HeartBeat
    PROVE  BInv'
<1>1. /\ task["heartbeat"].step = "idle" /\ task' = [task EXCEPT !["heartbeat"] = Polling(SIPs)]
      /\ \A y \in Threads : Host(y) = Host("heartbeat") => task[y].step \in {"idle", "hung"}
      /\ UNCHANGED <<articles, client, reads>> /\ UNCHANGED <<told, call>>
  BY DEF HeartBeat, MayBegin, Begin, client
<1>2. "forward" \in Threads /\ "heartbeat" \in Threads /\ Host("forward") = Host("heartbeat")
  BY QuorumAssumption DEF Threads, Host
<1>3. TInv'
  BY HeartBeatTypes DEF BInv
<1>4. Job.step \in {"idle", "hung"} /\ Job' = Job
  BY <1>1, <1>2 DEF Job, BInv, TInv, Types
<1>5. task'["heartbeat"].step = "poll" /\ \A x \in Threads : x # "heartbeat" => task'[x] = task[x]
  BY <1>1, <1>2, PollingTask, SIPsAll DEF BInv, TInv, Types
<1>6. Quiet
  BY <1>1, <1>4, <1>5 DEF Quiet, Synching
<1>7. Exclusive'
  BY <1>4 DEF Exclusive
<1> QED  BY <1>1, <1>3, <1>6, <1>7, QuietBoards

LEMMA ForwardReadBoards ==
    ASSUME ~Overlap, BInv, NEW m \in forwarded, ForwardRead(m)
    PROVE  BInv'
<1>1. PICK q \in Quorums :
        /\ m.op = "READ" /\ task["forward"].step = "idle"
        /\ \A y \in Threads : Host(y) = Host("forward") => task[y].step \in {"idle", "hung"}
        /\ task' = [task EXCEPT !["forward"] =
                      [Polling(q) EXCEPT !.client = m.client, !.op = "READ"]]
        /\ UNCHANGED <<articles, client, reads>> /\ UNCHANGED told
  BY DEF ForwardRead, MayBegin, Begin, client
<1>2. "forward" \in Threads /\ "heartbeat" \in Threads /\ Host("forward") = Host("heartbeat")
  BY QuorumAssumption DEF Threads, Host
<1>3. TInv'
  BY ForwardReadTypes DEF BInv
<1>4. q \in Seq(Servers) /\ Polling(q) \in Task /\ Polling(q).step = "poll"
  BY QuorumNames, PollingTask
<1>5. /\ Job'.op = "READ" /\ Job'.step = "poll"
      /\ \A x \in Threads : x # "forward" => task'[x] = task[x]
  BY <1>1, <1>2, <1>4 DEF Job, BInv, TInv, Types, Task
<1>6. Job.step = "idle" /\ Job.op # "POST"
  BY <1>1, JobOp DEF BInv, Job
<1>7. Quiet
  BY <1>1, <1>5, <1>6 DEF Quiet, Synching, Job
<1>8. Exclusive'
  BY <1>1, <1>2, <1>5 DEF Exclusive
<1> QED  BY <1>1, <1>3, <1>7, <1>8, QuietBoards

\* A post is nowhere when the write of it begins.
LEMMA ForwardPostBoards ==
    ASSUME ~Overlap, BInv, NEW m \in forwarded, ForwardPost(m)
    PROVE  BInv'
<1>1. PICK q \in Quorums :
        /\ m.op = "POST" /\ task["forward"].step = "idle"
        /\ \A y \in Threads : Host(y) = Host("forward") => task[y].step \in {"idle", "hung"}
        /\ task' = [task EXCEPT !["forward"] =
                      [Idle EXCEPT !.step = "write", !.client = m.client, !.op = "POST",
                         !.preHie = m.preHie, !.quorum = q, !.todo = q]]
        /\ UNCHANGED <<articles, client, reads>> /\ UNCHANGED <<told, call>>
  BY DEF ForwardPost, MayBegin, Begin, client
<1>2. "forward" \in Threads /\ "heartbeat" \in Threads /\ Host("forward") = Host("heartbeat")
  BY QuorumAssumption DEF Threads, Host
<1>3. TInv' /\ TInv
  BY ForwardPostTypes DEF BInv
<1>4. /\ Job'.op = "POST" /\ Job'.step = "write" /\ Job'.client = m.client
      /\ Job'.quorum = q /\ Job'.todo = q
      /\ \A x \in Threads : x # "forward" => task'[x] = task[x]
  BY <1>1, <1>2, <1>3, IdleOK DEF Job, TInv, Types, Task
<1>5. Job.step = "idle" /\ Job.op # "POST"
  BY <1>1, <1>3, JobOp DEF Job
<1>6. task["heartbeat"].step \in {"idle", "hung"} /\ task'["heartbeat"].step \in {"idle", "hung"}
  BY <1>1, <1>2, <1>4
<1>7. \A x \in Threads : ~Synching(x)'
  <2>1. \A x \in Threads \ {"forward", "heartbeat"} : ~Synching(x)'
    BY <1>3, Callers DEF TInv, Tasks, TaskOK, Threads, Synching
  <2> QED  BY <1>4, <1>6, <2>1 DEF Synching, Job
<1>8. Exclusive'
  BY <1>6 DEF Exclusive
<1>9. /\ m.client \in Clients /\ call[m.client].op \in Writing
      /\ call[m.client].post \in Post /\ call[m.client].post \notin Acked
  <2>1. m.client \in Clients /\ call[m.client].op \in Writing
    BY <1>1, <1>3 DEF TInv, Types, Requests, OpsOf
  <2> QED  BY <2>1, <1>3 DEF BInv, Numbers, TInv, ClientTypeOK
<1>10. \A p : ~Writes(p) /\ (Writes(p)' <=> p = call[m.client].post)
  BY <1>1, <1>4, <1>5 DEF Writes
<1>11. Acked' = Acked
  BY <1>1, Unacked
<1>12. Placed'
  <2>1. \A p \in Acked' : Everywhere(p)'
    BY <1>1, <1>7, <1>11 DEF BInv, Placed, Everywhere
  <2>2. \A p \in Post : p \in Acked' \/ Nowhere(p)'
    BY <1>1, <1>7, <1>10, <1>11 DEF BInv, Placed, Nowhere
  <2>3. ASSUME NEW p \in Post, Writes(p)'
        PROVE  Written(p)'
    <3>1. \A s \in Servers : HasNone(articles'[s], p)
      BY <1>1, <1>9, <1>10, <2>3 DEF BInv, Placed, Nowhere
    <3>2. Spreading(p)'
      BY <1>4, <3>1, QuorumNames DEF Spreading
    <3> QED  BY <1>4, <3>2 DEF Written
  <2> QED  BY <2>1, <2>2, <2>3 DEF Placed
<1>13. Same'
  BY <1>4, <1>7 DEF Same, Busy
<1>14. Numbers'
  BY <1>1, <1>11 DEF BInv, Numbers, client
<1>15. Views'
  BY <1>1, <1>10, <1>11 DEF BInv, Views, client
<1> QED  BY <1>3, <1>8, <1>12, <1>13, <1>14, <1>15 DEF BInv

LEMMA PollBoards ==
    ASSUME ~Overlap, BInv, NEW x \in Threads, Poll(x)
    PROVE  BInv'
<1> DEFINE s == Head(task[x].todo)
           rest == Tail(task[x].todo)
<1>1. /\ task[x].step = "poll"
      /\ task' = [task EXCEPT ![x] = [task[x] EXCEPT
                    !.todo = rest,
                    !.newest = IF Newer(x, s) THEN s ELSE @,
                    !.maxVer = IF Newer(x, s) THEN VER[s] ELSE @,
                    !.step = IF rest = <<>> THEN AfterPoll(x) ELSE @]]
      /\ UNCHANGED <<articles, client, reads>> /\ UNCHANGED <<told, call>>
  BY DEF Poll, Begin, client
<1>2. TInv' /\ TInv
  BY PollTypes DEF BInv
<1>3. task[x] \in Task /\ task[x].todo \in Seq(Servers) /\ task[x].todo # <<>>
  BY <1>1, <1>2, TaskFields DEF TaskOK
<1>4. /\ task'[x].todo = rest /\ task'[x].newest \in {task[x].newest, s}
      /\ task'[x].step \in {"poll", AfterPoll(x)}
      /\ task'[x].op = task[x].op /\ task'[x].client = task[x].client
      /\ task'[x].quorum = task[x].quorum
      /\ \A y \in Threads : y # x => task'[y] = task[y]
  BY <1>1, <1>2, <1>3 DEF TInv, Types, Task
<1> HIDE DEF s, rest
<1>5. AfterPoll(x) \in {"ask", "answer", "fetch"} /\ task'[x].step \in {"poll", "ask", "answer", "fetch"}
  BY <1>4 DEF AfterPoll
<1>6. \A y \in Threads : Synching(y) \/ Synching(y)' => task'[y] = task[y]
  BY <1>1, <1>4, <1>5 DEF Synching
<1>7. "forward" \in Threads /\ "heartbeat" \in Threads
  BY DEF Threads
<1>8. Exclusive'
  <2>1. CASE x = "forward"
    BY <1>1, <1>4, <1>7, <2>1 DEF BInv, Exclusive, Job
  <2>2. CASE x # "forward"
    <3>1. Job' = Job
      BY <1>4, <1>7, <2>2 DEF Job
    <3>2. task'["heartbeat"].step \in {"poll", "fetch", "synch"} =>
            task["heartbeat"].step \in {"poll", "fetch", "synch"}
      BY <1>1, <1>4, <1>7
    <3> QED  BY <3>1, <3>2 DEF BInv, Exclusive
  <2> QED  BY <2>1, <2>2
<1>9. CASE x # "forward" \/ Job.op # "POST"
  <2>1. Quiet
    BY <1>1, <1>4, <1>6, <1>7, <1>9 DEF Quiet, Job
  <2> QED  BY <1>1, <1>2, <1>8, <2>1, QuietBoards
<1>10. CASE x = "forward" /\ Job.op = "POST"
  <2>1. /\ Job.step = "poll" /\ Job'.op = "POST" /\ Job'.client = Job.client
        /\ Job'.quorum = Job.quorum /\ Job'.todo = rest /\ Job'.newest \in {Job.newest, s}
        /\ Job'.step \in {"poll", "fetch"} /\ Job'.step # "done"
    <3>1. AfterPoll(x) = "fetch"
      BY <1>10, QuorumAssumption DEF AfterPoll, Job
    <3> QED  BY <1>1, <1>4, <1>10, <3>1 DEF Job
  <2>2. (\A p : Writes(p)' = Writes(p)) /\ Acked' = Acked
    BY <1>1, <1>10, <2>1, Unacked DEF Writes
  <2>3. Numbers' /\ Views'
    BY <1>1, <2>2, ClientSame DEF BInv
  <2>4. \A y \in Threads : Synching(y)' => Synching(y) /\ task'[y] = task[y]
    BY <1>6 DEF Synching
  <2>5. Same'
    <3>1. Busy'
      BY <2>1 DEF Busy
    <3> QED  BY <1>1, <2>4, <3>1 DEF BInv, Same, Copied
  <2>6. Placed'
    <3>1. \A p \in Acked' : Everywhere(p)'
      BY <1>1, <2>2, <2>4 DEF BInv, Placed, Everywhere
    <3>2. \A p \in Post : p \in Acked' \/ Writes(p)' \/ Nowhere(p)'
      BY <1>1, <2>2, <2>4 DEF BInv, Placed, Nowhere
    <3>3. ASSUME NEW p \in Post, Writes(p)'
          PROVE  Written(p)'
      <4>1. InQuorum(p)
        BY <2>1, <2>2, <3>3 DEF BInv, Placed, Written
      <4>2. Named(Job.todo) = {s} \cup Named(rest)
        BY <1>3, <1>10, HeadFirst DEF Job, s, rest
      <4>3. InQuorum(p)'
        BY <1>1, <2>1, <4>1, <4>2 DEF InQuorum
      <4>4. Job'.step = "fetch" => Job'.newest \in Servers
        BY <1>2, JobOp DEF TInv, Tasks, TaskOK, Job, Threads
      <4>5. Job'.step = "fetch" => HasOnce(articles'[Job'.newest], p)
        BY <4>3, <4>4, QuorumAssumption DEF InQuorum
      <4> QED  BY <2>1, <4>3, <4>5 DEF Written
    <3> QED  BY <3>1, <3>2, <3>3 DEF Placed
  <2> QED  BY <1>2, <1>8, <2>3, <2>5, <2>6 DEF BInv
<1> QED  BY <1>9, <1>10

\* writeSelectedServer puts the post on one more server of the quorum.
LEMMA WriteBoards ==
    ASSUME ~Overlap, BInv, Write1
    PROVE  BInv'
<1>0. PICK p : p = call[Job.client].post
  OBVIOUS
<1> DEFINE s == Head(Job.todo)
           rest == Tail(Job.todo)
           x == [ID |-> ID'[s], hierachy |-> Job.preHie + 1, post |-> p]
           t == IF rest # <<>> THEN [Job EXCEPT !.todo = rest]
                ELSE [Job EXCEPT !.step = "poll", !.todo = Job.quorum]
<1>1. /\ Job.step = "write" /\ task' = [task EXCEPT !["forward"] = t]
      /\ ID' = [ID EXCEPT ![s] = @ + 1]
      /\ articles' = [articles EXCEPT ![s] = Append(@, x)]
      /\ UNCHANGED <<client, reads>> /\ UNCHANGED <<told, call>>
  BY <1>0 DEF Write1, Begin, Job, client
<1>2. TInv' /\ TInv
  BY WriteTypes DEF BInv
<1>3. /\ "forward" \in Threads /\ "heartbeat" \in Threads /\ Job \in Task
      /\ TaskOK("forward", Job) /\ Job.op = "POST" /\ p \in Post
      /\ Job.client \in Clients /\ call[Job.client].op \in Writing
  BY <1>0, <1>1, <1>2, JobOp
<1>4. /\ Job.todo \in Seq(Servers) /\ Job.todo # <<>> /\ Job.newest = NoServer
      /\ Job.preHie \in Nat \cup {-1}
  BY <1>1, <1>3 DEF TaskOK, Task
<1>5. /\ s \in Servers /\ Named(Job.todo) = {s} \cup Named(rest)
      /\ (Distinct(Job.todo) => Distinct(rest) /\ s \notin Named(rest))
  BY <1>4, HeadFirst
<1>6. x \in Article /\ x.post = p
  <2>1. ID'[s] \in Nat
    BY <1>2, <1>5 DEF TInv, Types
  <2>2. Job.preHie + 1 \in Nat
    BY <1>4
  <2> QED  BY <1>3, <2>1, <2>2 DEF Article
<1>7. /\ Job'.op = "POST" /\ Job'.client = Job.client /\ Job'.quorum = Job.quorum
      /\ Job'.newest = NoServer
      /\ \/ rest # <<>> /\ Job'.step = "write" /\ Job'.todo = rest
         \/ rest = <<>> /\ Job'.step = "poll" /\ Job'.todo = Job.quorum
      /\ \A y \in Threads : y # "forward" => task'[y] = task[y]
  <2>1. Job' = t /\ \A y \in Threads : y # "forward" => task'[y] = task[y]
    BY <1>1, <1>2, <1>3 DEF Job, TInv, Types
  <2>2. CASE rest # <<>>
    <3>1. t = [Job EXCEPT !.todo = rest]
      BY <2>2
    <3> HIDE DEF t
    <3> QED  BY <1>1, <1>3, <1>4, <2>1, <2>2, <3>1 DEF Task
  <2>3. CASE rest = <<>>
    <3>1. t = [Job EXCEPT !.step = "poll", !.todo = Job.quorum]
      BY <2>3
    <3> HIDE DEF t
    <3> QED  BY <1>3, <1>4, <2>1, <2>3, <3>1 DEF Task
  <2> QED  BY <2>2, <2>3
<1> HIDE DEF s, rest, x, t
<1>8. \A y \in Threads : ~Synching(y) /\ ~Synching(y)'
  <2>1. ~Synching("heartbeat") /\ ~Synching("heartbeat")'
    BY <1>1, <1>3, <1>7 DEF BInv, Exclusive, Synching
  <2>2. ~Synching("forward") /\ ~Synching("forward")'
    BY <1>1, <1>7 DEF Synching, Job
  <2>3. \A y \in Servers : ~Synching(y)
    BY <1>2 DEF TInv, Tasks, TaskOK, Threads, Synching
  <2> QED  BY <1>7, <2>1, <2>2, <2>3 DEF Threads, Synching
<1>9. (\A q : Writes(q)' = Writes(q)) /\ (\A q : Writes(q) <=> q = p) /\ Acked' = Acked
  BY <1>0, <1>1, <1>3, <1>7, Unacked DEF Writes
<1>10. Exclusive'
  BY <1>1, <1>3, <1>7 DEF BInv, Exclusive
<1>11. Numbers' /\ Views'
  BY <1>1, <1>9, ClientSame DEF BInv
<1>12. Same'
  BY <1>7, <1>8 DEF Same, Busy
<1>13. p \notin Acked
  BY <1>0, <1>3 DEF BInv, Numbers
<1>14. /\ articles'[s] = Append(articles[s], x) /\ articles[s] \in Seq(Article)
       /\ \A r \in Servers : r # s => articles'[r] = articles[r]
  BY <1>1, <1>2, <1>5 DEF TInv, Types
<1>15. ASSUME NEW q
       PROVE  /\ HasNone(articles[s], q) /\ q # p => HasNone(articles'[s], q)
              /\ HasOnce(articles[s], q) /\ q # p => HasOnce(articles'[s], q)
              /\ HasNone(articles[s], q) /\ q = p => HasOnce(articles'[s], q)
  BY <1>6, <1>14, AppendKeeps
<1>16. Spreading(p)
  BY <1>1, <1>3, <1>9 DEF BInv, Placed, Written
<1>17. Placed'
  <2>1. \A q \in Acked' : Everywhere(q)'
    <3> SUFFICES ASSUME NEW q \in Acked
                 PROVE  Everywhere(q)'
      BY <1>9
    <3>1. \A r \in Servers : HasOnce(articles[r], q)
      BY DEF BInv, Placed, Everywhere
    <3>2. \A r \in Servers : HasOnce(articles'[r], q)
      BY <1>5, <1>13, <1>14, <1>15, <3>1
    <3> QED  BY <1>8, <3>2 DEF Everywhere
  <2>2. \A q \in Post : q \in Acked' \/ Writes(q)' \/ Nowhere(q)'
    <3> SUFFICES ASSUME NEW q \in Post, q \notin Acked, q # p
                 PROVE  Nowhere(q)'
      BY <1>9
    <3>1. \A r \in Servers : HasNone(articles[r], q)
      BY <1>9 DEF BInv, Placed, Nowhere
    <3>2. \A r \in Servers : HasNone(articles'[r], q)
      BY <1>5, <1>14, <1>15, <3>1
    <3> QED  BY <1>8, <3>2 DEF Nowhere
  <2>3. Written(p)'
    <3>0. s \notin Named(rest) /\ s \in Named(Job.quorum) /\ Named(rest) \subseteq Named(Job.quorum)
          /\ Distinct(rest) /\ HasNone(articles[s], p)
      BY <1>5, <1>16 DEF Spreading
    <3>1. HasOnce(articles'[s], p)
      BY <1>15, <3>0
    <3>2. CASE rest # <<>>
      <4>1. \A r \in Servers :
              IF r \in Named(Job.quorum) \ Named(rest)
              THEN HasOnce(articles'[r], p) ELSE HasNone(articles'[r], p)
        BY <1>5, <1>14, <1>16, <3>0, <3>1 DEF Spreading
      <4>2. Spreading(p)'
        BY <1>7, <3>0, <3>2, <4>1 DEF Spreading
      <4> QED  BY <1>7, <3>2, <4>2 DEF Written
    <3>3. CASE rest = <<>>
      <4>1. Named(rest) = {}
        BY <3>3, EmptySeq DEF Named
      <4>2. \A r \in Servers : r \in Named(Job.quorum) => HasOnce(articles'[r], p)
        BY <1>5, <1>14, <1>16, <3>1, <4>1 DEF Spreading
      <4>3. InQuorum(p)'
        BY <1>7, <3>3, <4>2 DEF InQuorum
      <4> QED  BY <1>7, <3>3, <4>3 DEF Written
    <3> QED  BY <3>2, <3>3
  <2> QED  BY <1>9, <2>1, <2>2, <2>3 DEF Placed
<1> QED  BY <1>2, <1>10, <1>11, <1>12, <1>17 DEF BInv

\* A board that is sorted keeps its posts, and stays as it is when its articles
\* are numbered in order.
LEMMA SortBoards ==
    ASSUME TInv, NEW s \in Servers, articles' = [articles EXCEPT ![s] = SortByID(@)]
    PROVE  /\ \A p : \A r \in Servers :
                /\ HasNone(articles[r], p) => HasNone(articles'[r], p)
                /\ HasOnce(articles[r], p) => HasOnce(articles'[r], p)
           /\ Numbered(articles[s]) => articles' = articles
<1>1. /\ articles[s] \in Seq(Article) /\ articles'[s] = SortByID(articles[s])
      /\ \A r \in Servers : r # s => articles'[r] = articles[r]
  BY DEF TInv, Types
<1>2. ASSUME NEW p
      PROVE  /\ HasNone(articles[s], p) => HasNone(articles'[s], p)
             /\ HasOnce(articles[s], p) => HasOnce(articles'[s], p)
  BY <1>1, ArticleFields, SortKeeps
<1>3. ASSUME Numbered(articles[s])
      PROVE  articles' = articles
  <2>1. SortByID(articles[s]) = articles[s]
    BY <1>1, <1>3, ArticleFields, SortOfNumbered DEF Numbered
  <2> QED  BY <2>1 DEF TInv, Types
<1> QED  BY <1>1, <1>2, <1>3

\* Of the two threads that call other servers, one works at a time.
LEMMA OneCaller ==
    ASSUME TInv, Exclusive, NEW x \in Threads, task[x].step \in {"fetch", "synch"},
           NEW y \in Threads, y # x
    PROVE  ~Synching(y) /\ (x = "heartbeat" => Job.step \in {"idle", "hung"})
           /\ (x = "forward" => task["heartbeat"].step \in {"idle", "hung"})
<1>1. x = "heartbeat" \/ x = "forward"
  BY Callers
<1>2. y \in Servers => ~Synching(y)
  BY DEF TInv, Tasks, TaskOK, Synching
<1>3. x = "heartbeat" => Job.step \in {"idle", "hung"}
  BY DEF Exclusive
<1>4. x = "forward" => task["heartbeat"].step \in {"idle", "hung"}
  <2>1. TaskOK("heartbeat", task["heartbeat"])
    BY DEF TInv, Tasks, Threads
  <2> QED  BY <2>1 DEF Exclusive, TaskOK, Job
<1> QED  BY <1>1, <1>2, <1>3, <1>4 DEF Threads, Synching, Job

LEMMA FetchBoards ==
    ASSUME ~Overlap, BInv, NEW x \in Threads, Fetch(x)
    PROVE  BInv'
<1> DEFINE s == task[x].newest
           sent == Sent(SortByID(articles[s]))
<1>1. /\ task[x].step = "fetch"
      /\ task' = [task EXCEPT ![x] = [task[x] EXCEPT
                    !.board = sent,
                    !.todo = SIPs,
                    !.step = IF s = Primary THEN "hung"
                             ELSE IF x = "forward" /\ sent = <<>> THEN "done"
                             ELSE "synch"]]
      /\ articles' = [articles EXCEPT ![s] = SortByID(@)]
      /\ UNCHANGED <<client, reads>> /\ UNCHANGED <<told, call>>
  BY DEF Fetch, Begin, SyncList, client
<1>2. TInv' /\ TInv /\ Exclusive
  BY FetchTypes DEF BInv
<1>3. task[x] \in Task /\ s \in Servers /\ articles[s] \in Seq(Article)
  BY <1>1, <1>2, TaskFields DEF TaskOK, TInv, Types
<1>4. /\ task'[x].board = sent /\ task'[x].todo = SIPs
      /\ task'[x].step \in {"hung", "done", "synch"}
      /\ task'[x].step = "done" => x = "forward" /\ sent = <<>>
      /\ task'[x].op = task[x].op /\ task'[x].client = task[x].client
      /\ \A y \in Threads : y # x => task'[y] = task[y]
  BY <1>1, <1>2, <1>3 DEF TInv, Types, Task
<1>5. x = "heartbeat" \/ (x = "forward" /\ task[x].op = "POST")
  BY <1>1, <1>2, Callers
<1>6. /\ "forward" \in Threads /\ "heartbeat" \in Threads
      /\ \A y \in Threads : y # x => ~Synching(y)
      /\ x = "heartbeat" => Job.step \in {"idle", "hung"}
      /\ x = "forward" => task["heartbeat"].step \in {"idle", "hung"}
  BY <1>1, <1>2, <1>5, OneCaller DEF Threads
<1>7. /\ \A p : \A r \in Servers :
           /\ HasNone(articles[r], p) => HasNone(articles'[r], p)
           /\ HasOnce(articles[r], p) => HasOnce(articles'[r], p)
      /\ Numbered(articles[s]) => articles' = articles
  <2> HIDE DEF s
  <2> QED  BY <1>1, <1>2, <1>3, SortBoards
<1>8. ASSUME NEW p
      PROVE  /\ HasNone(articles[s], p) => HasNone(sent, p)
             /\ HasOnce(articles[s], p) => HasOnce(sent, p)
  BY <1>3, ArticleFields, SortKeeps, SentKeeps
<1> HIDE DEF s, sent
<1>9. \A y \in Threads : Synching(y)' => y = x
  BY <1>4, <1>6 DEF Synching
<1>10. (\A p : Writes(p)' = Writes(p)) /\ Acked' = Acked
  <2>1. Job'.op = Job.op /\ Job'.client = Job.client
    BY <1>4, <1>6 DEF Job
  <2> QED  BY <1>1, <2>1, Unacked DEF Writes
<1>11. Numbers' /\ Views'
  BY <1>1, <1>10, ClientSame DEF BInv
<1>12. Exclusive'
  BY <1>4, <1>5, <1>6 DEF Exclusive, Job
\* A write that has got here has a post to fetch.
<1>13. x = "forward" =>
         /\ call[Job.client].post \in Post /\ HasOnce(sent, call[Job.client].post)
         /\ Job'.step # "done" /\ Job'.op = "POST"
  <2> SUFFICES ASSUME x = "forward"
               PROVE  /\ call[Job.client].post \in Post /\ HasOnce(sent, call[Job.client].post)
                      /\ Job'.step # "done" /\ Job'.op = "POST"
    OBVIOUS
  <2>1. PICK p : p = call[Job.client].post
    OBVIOUS
  <2>2. Job.step = "fetch" /\ Job.op = "POST" /\ p \in Post /\ Writes(p)
    BY <1>1, <1>2, <1>5, <2>1, JobOp DEF Job, Writes
  <2>3. HasOnce(articles[s], p)
    BY <2>2 DEF BInv, Placed, Written, Job, s
  <2>4. HasOnce(sent, p) /\ sent # <<>>
    BY <1>8, <2>3, EmptySeq DEF HasOnce
  <2> QED  BY <1>4, <1>5, <2>1, <2>2, <2>4 DEF Job
<1>14. Placed'
  <2>1. \A p \in Acked' : Everywhere(p)'
    BY <1>3, <1>4, <1>7, <1>8, <1>9, <1>10 DEF BInv, Placed, Everywhere
  <2>2. \A p \in Post : p \in Acked' \/ Writes(p)' \/ Nowhere(p)'
    BY <1>3, <1>4, <1>7, <1>8, <1>9, <1>10 DEF BInv, Placed, Nowhere
  <2>3. ASSUME NEW p \in Post, Writes(p)'
        PROVE  Written(p)'
    <3>1. Writes(p)
      BY <1>10, <2>3
    <3>2. CASE x = "forward"
      <4>1. HasOnce(sent, p)
        BY <1>13, <3>1, <3>2 DEF Writes
      <4>2. Job'.step \in {"hung", "synch"} /\ Job'.board = sent
        BY <1>4, <1>13, <3>2 DEF Job
      <4> QED  BY <4>1, <4>2 DEF Written
    <3>3. CASE x = "heartbeat"
      <4>1. Job' = Job /\ Job.step = "hung"
        BY <1>2, <1>4, <1>6, <3>1, <3>3, JobOp DEF Job, Writes
      <4> QED  BY <4>1 DEF Written
    <3> QED  BY <1>5, <3>2, <3>3
  <2> QED  BY <2>1, <2>2, <2>3 DEF Placed
<1>15. Same'
  <2>1. ~Busy' /\ ~Synching("heartbeat")' => AllSame'
    <3> SUFFICES ASSUME ~Busy'
                 PROVE  AllSame'
      OBVIOUS
    <3>1. x = "heartbeat" /\ Job' = Job
      BY <1>4, <1>5, <1>6, <1>13 DEF Busy, Job
    <3>2. AllSame
      BY <1>1, <3>1 DEF BInv, Same, Busy, Synching
    <3>3. articles' = articles
      BY <1>3, <1>7, <3>2 DEF AllSame
    <3> QED  BY <3>2, <3>3 DEF AllSame
  <2>2. \A y \in Threads : Synching(y)' => Copied(y)'
    BY <1>4, <1>9, SIPsAll DEF Copied
  <2> QED  BY <2>1, <2>2 DEF Same
<1> QED  BY <1>2, <1>11, <1>12, <1>14, <1>15 DEF BInv

\* synchSelectedServer brings one more server up to date.
LEMMA SynchBoards ==
    ASSUME ~Overlap, BInv, NEW x \in Threads, Synch(x)
    PROVE  BInv'
<1> DEFINE s == Head(task[x].todo)
           rest == Tail(task[x].todo)
           board == task[x].board
           t == IF rest # <<>> THEN [task[x] EXCEPT !.todo = rest]
                ELSE IF x = "heartbeat" THEN Idle
                ELSE [task[x] EXCEPT !.todo = <<>>, !.step = "done"]
<1>1. /\ task[x].step = "synch" /\ task' = [task EXCEPT ![x] = t]
      /\ articles' = [articles EXCEPT ![s] = Loaded(@, board)]
      /\ UNCHANGED <<client, reads>> /\ UNCHANGED <<told, call>>
  BY DEF Synch, Begin, client
<1>2. TInv' /\ TInv /\ Exclusive
  BY SynchTypes DEF BInv
<1>3. /\ task[x] \in Task /\ board \in Board
      /\ task[x].todo \in Seq(Servers) /\ task[x].todo # <<>>
  BY <1>1, <1>2, TaskFields DEF TaskOK
<1>4. s \in Servers /\ Named(task[x].todo) = {s} \cup Named(rest)
  BY <1>3, HeadFirst
<1>5. x = "heartbeat" \/ (x = "forward" /\ task[x].op = "POST")
  BY <1>1, <1>2, Callers
<1>6. /\ "forward" \in Threads /\ "heartbeat" \in Threads
      /\ \A y \in Threads : y # x => ~Synching(y)
      /\ x = "heartbeat" => Job.step \in {"idle", "hung"}
      /\ x = "forward" => task["heartbeat"].step \in {"idle", "hung"}
  BY <1>1, <1>2, <1>5, OneCaller DEF Threads
<1>7. /\ task'[x] = t /\ \A y \in Threads : y # x => task'[y] = task[y]
      /\ articles'[s] = Loaded(<<>>, board)
      /\ \A r \in Servers : r # s => articles'[r] = articles[r]
  BY <1>1, <1>2, <1>4 DEF TInv, Types, Loaded
<1>8. /\ Numbered(Loaded(<<>>, board))
      /\ \A p : /\ HasNone(board, p) => HasNone(Loaded(<<>>, board), p)
                /\ HasOnce(board, p) => HasOnce(Loaded(<<>>, board), p)
  BY <1>3, LoadedType
<1>9. /\ \/ rest # <<>> /\ task'[x].step = "synch" /\ task'[x].todo = rest /\ task'[x].board = board
         \/ rest = <<>> /\ x = "heartbeat" /\ task'[x].step = "idle"
         \/ rest = <<>> /\ x = "forward" /\ task'[x].step = "done"
      /\ x = "forward" => task'[x].op = task[x].op /\ task'[x].client = task[x].client
  <2>1. CASE rest # <<>>
    <3>1. t = [task[x] EXCEPT !.todo = rest]
      BY <2>1
    <3> HIDE DEF t, rest
    <3> QED  BY <1>1, <1>3, <1>7, <2>1, <3>1 DEF Task
  <2>2. CASE rest = <<>> /\ x = "heartbeat"
    <3>1. t = Idle
      BY <2>2
    <3> HIDE DEF t, rest
    <3> QED  BY <1>7, <2>2, <3>1 DEF Idle
  <2>3. CASE rest = <<>> /\ x # "heartbeat"
    <3>1. t = [task[x] EXCEPT !.todo = <<>>, !.step = "done"]
      BY <2>3
    <3> HIDE DEF t, rest
    <3> QED  BY <1>3, <1>5, <1>7, <2>3, <3>1 DEF Task
  <2> QED  BY <2>1, <2>2, <2>3
<1>10. Synching(x) /\ Copied(x)
  BY <1>1 DEF BInv, Same, Synching
<1> HIDE DEF s, rest, board, t
<1>11. \A r \in Servers : r \in Named(rest) \/ articles'[r] = Loaded(<<>>, board)
  BY <1>4, <1>7, <1>10 DEF Copied, board
<1>12. rest = <<>> => \A r \in Servers : articles'[r] = Loaded(<<>>, board)
  BY <1>11, EmptySeq DEF Named
<1>13. \A y \in Threads : Synching(y)' => y = x /\ rest # <<>>
  BY <1>6, <1>7, <1>9 DEF Synching
<1>14. (\A p : Writes(p)' = Writes(p)) /\ Acked' = Acked
  <2>1. Job'.op = Job.op /\ Job'.client = Job.client
    BY <1>5, <1>6, <1>7, <1>9 DEF Job
  <2> QED  BY <1>1, <2>1, Unacked DEF Writes
<1>15. Numbers' /\ Views'
  BY <1>1, <1>14, ClientSame DEF BInv
<1>16. Exclusive'
  BY <1>5, <1>6, <1>7 DEF Exclusive, Job
<1>17. ASSUME NEW p
       PROVE  /\ HasNone(board, p) /\ (\A r \in Servers : HasNone(articles[r], p)) =>
                   \A r \in Servers : HasNone(articles'[r], p)
              /\ HasOnce(board, p) /\ (\A r \in Servers : HasOnce(articles[r], p)) =>
                   \A r \in Servers : HasOnce(articles'[r], p)
  BY <1>4, <1>7, <1>8
<1>18. Placed'
  <2>1. \A p \in Acked' : Everywhere(p)'
    <3> SUFFICES ASSUME NEW p \in Acked
                 PROVE  Everywhere(p)'
      BY <1>14
    <3>1. HasOnce(board, p) /\ \A r \in Servers : HasOnce(articles[r], p)
      BY <1>10 DEF BInv, Placed, Everywhere, board
    <3>2. \A r \in Servers : HasOnce(articles'[r], p)
      BY <1>17, <3>1
    <3> QED  BY <1>9, <1>13, <3>1, <3>2 DEF Everywhere
  <2>2. \A p \in Post : p \in Acked' \/ Writes(p)' \/ Nowhere(p)'
    <3> SUFFICES ASSUME NEW p \in Post, Nowhere(p)
                 PROVE  Nowhere(p)'
      BY <1>14 DEF BInv, Placed
    <3>1. HasNone(board, p) /\ \A r \in Servers : HasNone(articles[r], p)
      BY <1>10 DEF Nowhere, board
    <3>2. \A r \in Servers : HasNone(articles'[r], p)
      BY <1>17, <3>1
    <3> QED  BY <1>9, <1>13, <3>1, <3>2 DEF Nowhere
  <2>3. ASSUME NEW p \in Post, Writes(p)'
        PROVE  Written(p)'
    <3>1. Writes(p)
      BY <1>14, <2>3
    <3>2. CASE x = "forward"
      <4>1. HasOnce(board, p)
        BY <1>1, <3>1, <3>2 DEF BInv, Placed, Written, Job, board
      <4>2. \/ Job'.step = "synch" /\ Job'.board = board
            \/ Job'.step = "done" /\ rest = <<>>
        BY <1>9, <3>2 DEF Job
      <4>3. rest = <<>> => \A r \in Servers : HasOnce(articles'[r], p)
        BY <1>8, <1>12, <4>1
      <4> QED  BY <4>1, <4>2, <4>3 DEF Written
    <3>3. CASE x = "heartbeat"
      <4>1. Job' = Job /\ Job.step = "hung"
        BY <1>2, <1>6, <1>7, <3>1, <3>3, JobOp DEF Job, Writes
      <4> QED  BY <4>1 DEF Written
    <3> QED  BY <1>5, <3>2, <3>3
  <2> QED  BY <2>1, <2>2, <2>3 DEF Placed
<1>19. Same'
  <2>1. ~Busy' /\ ~Synching("heartbeat")' => AllSame'
    <3> SUFFICES ASSUME ~Busy', ~Synching("heartbeat")'
                 PROVE  AllSame'
      OBVIOUS
    <3>1. rest = <<>>
      <4>1. CASE x = "heartbeat"
        BY <1>9, <4>1 DEF Synching
      <4>2. CASE x = "forward"
        BY <1>5, <1>9, <4>2 DEF Busy, Job
      <4> QED  BY <1>5, <4>1, <4>2
    <3> QED  BY <1>8, <1>12, <3>1 DEF AllSame
  <2>2. \A y \in Threads : Synching(y)' => Copied(y)'
    BY <1>9, <1>11, <1>13 DEF Copied
  <2> QED  BY <2>1, <2>2 DEF Same
<1> QED  BY <1>2, <1>15, <1>16, <1>18, <1>19 DEF BInv

\* A client is shown posts that are on a server: acknowledged, or on their way.
LEMMA ShownPosts ==
    ASSUME BInv, NEW c \in Clients, NEW s \in Servers,
           articles' = [articles EXCEPT ![s] = SortByID(@)], Show(c, articles'[s])
    PROVE  /\ \A d \in Clients : d # c => view'[d] = view[d] /\ call'[d] = call[d]
           /\ call'[c] = NoCall /\ UNCHANGED <<told, writes>>
           /\ \A i \in DOMAIN view'[c] : view'[c][i].post \in Acked \/ Writes(view'[c][i].post)
           /\ \A p \in Acked : \E i \in DOMAIN view'[c] : view'[c][i].post = p
<1>1. /\ articles[s] \in Seq(Article) /\ articles'[s] = SortByID(articles[s])
      /\ view \in [Clients -> Seq([post : Post, hierachy : Nat])]
  BY DEF BInv, TInv, Types, ClientTypeOK
<1>2. view' = [view EXCEPT ![c] = Sent(articles'[s])] /\ call' = [call EXCEPT ![c] = NoCall]
      /\ UNCHANGED <<told, writes>>
  BY DEF Show
<1>3. /\ \A d \in Clients : d # c => view'[d] = view[d] /\ call'[d] = call[d]
      /\ call'[c] = NoCall /\ view'[c] = Sent(SortByID(articles[s]))
  BY <1>1, <1>2 DEF BInv, TInv, ClientTypeOK
<1>4. /\ DOMAIN view'[c] = DOMAIN SortByID(articles[s])
      /\ \A i \in DOMAIN view'[c] : view'[c][i].post = SortByID(articles[s])[i].post
  BY <1>3 DEF Sent
<1>5. /\ \A i \in DOMAIN articles[s] : \E k \in DOMAIN view'[c] : view'[c][k].post = articles[s][i].post
      /\ \A k \in DOMAIN view'[c] : \E i \in DOMAIN articles[s] : view'[c][k].post = articles[s][i].post
  <2>1. /\ \A i \in DOMAIN articles[s] : \E k \in DOMAIN SortByID(articles[s]) :
             SortByID(articles[s])[k].post = articles[s][i].post
        /\ \A k \in DOMAIN SortByID(articles[s]) : \E i \in DOMAIN articles[s] :
             SortByID(articles[s])[k].post = articles[s][i].post
    BY <1>1, ArticleFields, SortShows
  <2> QED  BY <1>4, <2>1
<1>6. ASSUME NEW i \in DOMAIN view'[c]
      PROVE  view'[c][i].post \in Acked \/ Writes(view'[c][i].post)
  <2>1. PICK k \in DOMAIN articles[s] : view'[c][i].post = articles[s][k].post
    BY <1>5
  <2>2. articles[s][k].post \in Post /\ ~Nowhere(articles[s][k].post)
    <3>1. articles[s][k] \in Article
      BY <1>1, ElementOfSeq, LenProperties
    <3> QED  BY <3>1, ArticleFields DEF Nowhere, HasNone
  <2>3. articles[s][k].post \in Acked \/ Writes(articles[s][k].post)
    BY <2>2 DEF BInv, Placed
  <2> QED  BY <2>1, <2>3
<1>7. ASSUME NEW p \in Acked
      PROVE  \E i \in DOMAIN view'[c] : view'[c][i].post = p
  <2>1. \E i \in DOMAIN articles[s] : articles[s][i].post = p
    BY DEF BInv, Placed, Everywhere, HasOnce
  <2> QED  BY <1>5, <2>1
<1> QED  BY <1>2, <1>3, <1>6, <1>7

\* A client that asked to read is answered from a board that is sorted.
LEMMA ShowBoards ==
    ASSUME BInv, TInv', NEW c \in Clients, NEW s \in Servers, call[c].op = "READ",
           articles' = [articles EXCEPT ![s] = SortByID(@)], Show(c, articles'[s]),
           reads' \subseteq reads, \A m \in reads' : m.client # c,
           \/ Job' = Job
           \/ Job.op # "POST" /\ Job'.op # "POST" /\ ~Synching("heartbeat") /\ Exclusive',
           \A x \in Threads : Synching(x) \/ Synching(x)' => task'[x] = task[x],
           task'["heartbeat"] = task["heartbeat"]
    PROVE  BInv'
<1>1. /\ \A d \in Clients : d # c => view'[d] = view[d] /\ call'[d] = call[d]
      /\ call'[c] = NoCall /\ UNCHANGED <<told, writes>>
      /\ \A i \in DOMAIN view'[c] : view'[c][i].post \in Acked \/ Writes(view'[c][i].post)
  BY ShownPosts
<1>2. /\ \A p : \A r \in Servers :
           /\ HasNone(articles[r], p) => HasNone(articles'[r], p)
           /\ HasOnce(articles[r], p) => HasOnce(articles'[r], p)
      /\ Numbered(articles[s]) => articles' = articles
  BY SortBoards DEF BInv
<1>3. Job.op = "POST" => Job.client \in Clients /\ Job.client # c
  BY JobOp DEF BInv, Writing
<1>4. (\A p : Writes(p)' = Writes(p)) /\ Acked' = Acked /\ Busy' = Busy
  <2>1. Acked' = Acked
    BY <1>1, Unacked
  <2> QED  BY <1>1, <1>3, <2>1 DEF Writes, Busy
<1>5. Exclusive'
  BY DEF BInv, Exclusive
<1>6. Numbers'
  BY <1>1, NoCallType, NumbersKept DEF BInv
<1>7. Views'
  <2>1. \A m \in reads : m.client \in Clients
    BY DEF BInv, TInv, Types
  <2>2. \A d \in Clients : \A i \in DOMAIN view'[d] :
          view'[d][i].post \in Acked \/ Writes(view'[d][i].post)
    BY <1>1 DEF BInv, Views
  <2>3. \A m \in reads' : \A i \in DOMAIN view'[m.client] : view'[m.client][i].post \in Acked
    BY <1>1, <2>1 DEF BInv, Views
  <2> QED  BY <1>4, <2>2, <2>3 DEF Views
<1>8. \A x \in Threads : Synching(x)' => Synching(x) /\ task'[x] = task[x]
  BY DEF Synching
<1>9. Placed'
  <2>1. \A p \in Acked' : Everywhere(p)'
    BY <1>2, <1>4, <1>8 DEF BInv, Placed, Everywhere
  <2>2. \A p \in Post : p \in Acked' \/ Writes(p)' \/ Nowhere(p)'
    BY <1>2, <1>4, <1>8 DEF BInv, Placed, Nowhere
  <2>3. ASSUME NEW p \in Post, Writes(p)'
        PROVE  Written(p)'
    <3>1. Writes(p) /\ Written(p) /\ Job' = Job
      BY <1>4, <2>3 DEF BInv, Placed, Writes
    <3>2. Job.step = "write" => Spreading(p)'
      BY <1>2, <3>1 DEF Written, Spreading
    <3>3. Job.step = "poll" => InQuorum(p)'
      BY <1>2, <3>1 DEF Written, InQuorum
    <3>4. Job.step = "fetch" => Job.newest \in Servers
      BY JobOp DEF BInv, TaskOK
    <3> QED  BY <1>2, <3>1, <3>2, <3>3, <3>4 DEF Written
  <2> QED  BY <2>1, <2>2, <2>3 DEF Placed
<1>10. Same'
  <2>1. Synching("heartbeat")' = Synching("heartbeat")
    BY DEF Synching
  <2>2. ~Busy' /\ ~Synching("heartbeat")' => AllSame'
    <3> SUFFICES ASSUME ~Busy', ~Synching("heartbeat")'
                 PROVE  AllSame'
      OBVIOUS
    <3>1. AllSame
      BY <1>4, <2>1 DEF BInv, Same
    <3>2. articles' = articles
      BY <1>2, <3>1 DEF AllSame
    <3> QED  BY <3>1, <3>2 DEF AllSame
  <2>3. \A x \in Threads : Synching(x)' => Copied(x)'
    <3> SUFFICES ASSUME NEW x \in Threads, Synching(x)'
                 PROVE  Copied(x)'
      OBVIOUS
    <3>1. Copied(x) /\ task'[x] = task[x] /\ task[x].board \in Board
      BY <1>8, TaskFields DEF BInv, Same
    <3>2. CASE s \in Named(task[x].todo)
      <4>1. \A r \in Servers : r # s => articles'[r] = articles[r]
        BY DEF BInv, TInv, Types
      <4> QED  BY <3>1, <3>2, <4>1 DEF Copied
    <3>3. CASE s \notin Named(task[x].todo)
      <4>1. Numbered(articles[s])
        BY <3>1, <3>3, LoadedType DEF Copied
      <4> QED  BY <1>2, <3>1, <4>1 DEF Copied
    <3> QED  BY <3>2, <3>3
  <2> QED  BY <2>2, <2>3 DEF Same
<1> QED  BY <1>5, <1>6, <1>7, <1>9, <1>10 DEF BInv

LEMMA OperationReadBoards ==
    ASSUME BInv, NEW m \in reads, OperationRead(m)
    PROVE  BInv'
<1>1. /\ reads' = reads \ {m} /\ articles' = [articles EXCEPT ![m.server] = SortByID(@)]
      /\ Show(m.client, articles'[m.server]) /\ UNCHANGED task
  BY DEF OperationRead
<1>2. /\ m.client \in Clients /\ m.server \in Servers /\ call[m.client].op = "READ"
      /\ \A n \in reads' : n.client # m.client
  BY <1>1 DEF BInv, TInv, Types, Requests, Once
<1>3. TInv'
  BY OperationReadTypes DEF BInv
<1>4. Job' = Job /\ reads' \subseteq reads
  BY <1>1 DEF Job
<1>5. PICK c, s : c = m.client /\ s = m.server
  OBVIOUS
<1> QED  BY <1>1, <1>2, <1>3, <1>4, <1>5, ShowBoards

LEMMA AnswerReadBoards ==
    ASSUME BInv, AnswerRead
    PROVE  BInv'
<1> DEFINE c == Job.client
<1>1. Job.step = "answer" /\ task' = [task EXCEPT !["forward"] = Idle]
  BY DEF AnswerRead, Begin, Job
<1>2. /\ "forward" \in Threads /\ "heartbeat" \in Threads /\ TaskOK("forward", Job)
      /\ c \in Clients /\ call[c].op \in OpsOf(Job.op)
      /\ \A m \in reads : m.client # c
  BY <1>1, JobTypes, JobOp DEF BInv
<1>3. Job.op = "READ" /\ Job.newest \in Servers /\ call[c].op = "READ"
  BY <1>1, <1>2 DEF TaskOK, OpsOf
<1>4. TInv'
  BY AnswerReadTypes DEF BInv
<1>5. /\ Job' = Idle /\ Job'.op # "POST" /\ Job'.step = "idle"
      /\ \A x \in Threads : x # "forward" => task'[x] = task[x]
  BY <1>1, <1>2 DEF Job, BInv, TInv, Types, Idle
<1>6. /\ ~Synching("heartbeat") /\ Exclusive'
      /\ \A x \in Threads : Synching(x) \/ Synching(x)' => task'[x] = task[x]
  BY <1>1, <1>2, <1>5 DEF BInv, Exclusive, Synching, Job
<1>7. CASE Job.newest = Primary
  <2>1. /\ articles' = [articles EXCEPT ![Primary] = SortByID(@)]
        /\ Show(c, articles'[Primary]) /\ UNCHANGED reads
    BY <1>7 DEF AnswerRead, Job
  <2>2. Primary \in Servers /\ task'["heartbeat"] = task["heartbeat"]
    BY <1>2, <1>5, ClientAssumption
  <2>3. PICK d : d = c
    OBVIOUS
  <2>4. /\ d \in Clients /\ call[d].op = "READ" /\ Show(d, articles'[Primary])
        /\ reads' \subseteq reads /\ \A m \in reads' : m.client # d
    BY <1>2, <1>3, <2>1, <2>3
  <2> QED  BY <1>3, <1>4, <1>5, <1>6, <2>1, <2>2, <2>4, ShowBoards
<1>8. CASE Job.newest # Primary
  <2>1. /\ reads' = reads \cup {[server |-> Job.newest, client |-> c]}
        /\ UNCHANGED <<articles, taken, client>> /\ UNCHANGED <<told, call, view>>
    BY <1>8 DEF AnswerRead, Job, client
  <2>2. Quiet
    BY <1>3, <1>5, <1>6, <2>1 DEF Quiet
  <2>3. Placed' /\ Same' /\ (\A p : Writes(p)' = Writes(p)) /\ Acked' = Acked
    BY <2>2, QuietKeeps DEF BInv
  <2>4. Numbers'
    BY <2>1, <2>3 DEF BInv, Numbers, client
\* Nothing is being written: what the client was shown is acknowledged.
  <2>5. Views'
    <3>1. \A i \in DOMAIN view[c] : view[c][i].post \in Acked
      BY <1>2, <1>3 DEF BInv, Views, Writes
    <3>2. \A m \in reads' : m \in reads \/ m.client = c
      BY <2>1
    <3>3. \A m \in reads' : \A i \in DOMAIN view'[m.client] : view'[m.client][i].post \in Acked
      BY <2>1, <3>1, <3>2 DEF BInv, Views
    <3> QED  BY <2>1, <2>3, <3>3 DEF BInv, Views
  <2> QED  BY <1>4, <1>6, <2>3, <2>4, <2>5 DEF BInv
<1> QED  BY <1>7, <1>8

\* "Success;1": the post is acknowledged, and on every server.
LEMMA SucceedBoards ==
    ASSUME BInv, Succeed
    PROVE  BInv'
<1>0. PICK c, p : c = Job.client /\ p = call[c].post
  OBVIOUS
<1>1. /\ Job.step = "done" /\ Tell(c, TRUE) /\ task' = [task EXCEPT !["forward"] = Idle]
      /\ UNCHANGED <<articles, reads>>
  BY <1>0 DEF Succeed, Begin, Job
<1>2. /\ "forward" \in Threads /\ "heartbeat" \in Threads /\ Job.op = "POST"
      /\ c \in Clients /\ call[c].op \in Writing /\ p \in Post
  BY <1>0, <1>1, JobOp DEF BInv
<1>3. TInv'
  BY SucceedTypes DEF BInv
<1>4. /\ Job'.op # "POST" /\ Job'.step = "idle"
      /\ \A x \in Threads : x # "forward" => task'[x] = task[x]
  BY <1>1, <1>2 DEF Job, BInv, TInv, Types, Idle
<1>5. /\ UNCHANGED <<writes, view>> /\ call'[c] = NoCall
      /\ \A d \in Clients : d # c => call'[d] = call[d]
  BY <1>1, <1>2 DEF Tell, BInv, TInv, ClientTypeOK
<1>6. Acked' = Acked \cup {p}
  <2>1. told' = told \cup {[client |-> c, post |-> p, ok |-> TRUE]}
    BY <1>0, <1>1 DEF Tell
  <2>2. PICK t : t = [client |-> c, post |-> p, ok |-> TRUE]
    OBVIOUS
  <2>3. told' = told \cup {t} /\ t.ok /\ t.post = p
    BY <2>1, <2>2
  <2> QED  BY <2>3 DEF Acked
<1>7. (\A q : Writes(q) <=> q = p) /\ \A q : ~Writes(q)'
  BY <1>0, <1>2, <1>4 DEF Writes
<1>8. \A x \in Threads : Synching(x)' => Synching(x) /\ task'[x] = task[x] /\ x # "heartbeat"
  BY <1>1, <1>2, <1>4 DEF BInv, Exclusive, Synching, Job
<1>9. ~Synching("heartbeat") /\ Exclusive'
  BY <1>1, <1>2, <1>4 DEF BInv, Exclusive, Synching
<1>10. \A x \in Threads : ~Synching(x)'
  <2>1. \A x \in Servers : ~Synching(x)'
    BY <1>3 DEF TInv, Tasks, TaskOK, Threads, Synching
  <2> QED  BY <1>4, <1>8, <2>1 DEF Threads, Synching, Job
<1>11. Placed'
  <2>1. \A s \in Servers : HasOnce(articles[s], p)
    BY <1>1, <1>2, <1>7 DEF BInv, Placed, Written
  <2>2. \A q \in Acked' : Everywhere(q)'
    BY <1>1, <1>6, <1>10, <2>1 DEF BInv, Placed, Everywhere
  <2>3. \A q \in Post : q \in Acked' \/ Nowhere(q)'
    BY <1>1, <1>6, <1>7, <1>10 DEF BInv, Placed, Nowhere
  <2> QED  BY <1>7, <2>2, <2>3 DEF Placed
<1>12. Same'
  <2>1. AllSame
    BY <1>1, <1>9 DEF BInv, Same, Busy
  <2>2. AllSame'
    BY <1>1, <2>1 DEF AllSame
  <2> QED  BY <1>10, <2>2 DEF Same
<1>13. Numbers'
  <2>1. p <= writes' /\ \A d \in Clients : d # c /\ call[d].op \in Writing => call[d].post # p
    BY <1>0, <1>2, <1>5 DEF BInv, Numbers
  <2>2. \A q \in Acked' : q <= writes'
    BY <1>5, <1>6, <2>1 DEF BInv, Numbers
  <2>3. \A d \in Clients : call'[d].op \in Writing => d # c /\ call'[d] = call[d]
    BY <1>5, NoCallType
  <2> QED  BY <1>5, <1>6, <2>1, <2>2, <2>3 DEF BInv, Numbers
<1>14. Views'
  BY <1>1, <1>5, <1>6, <1>7 DEF BInv, Views
<1> QED  BY <1>3, <1>9, <1>11, <1>12, <1>13, <1>14 DEF BInv

LEMMA BoardsKept ==
    ASSUME ~Overlap
    PROVE  BInv /\ [Next]_vars => BInv'
<1> SUFFICES ASSUME BInv, [Next]_vars
             PROVE  BInv'
  OBVIOUS
<1>1. CASE ClientStep
  BY <1>1, ClientBoards
<1>2. CASE ListenStep
  BY <1>2, ListenBoards
<1>3. CASE PrimaryPortStep
  BY <1>3, ForwardReadBoards, ForwardPostBoards, WriteBoards, AnswerReadBoards, SucceedBoards,
     OperationReadBoards DEF PrimaryPortStep
<1>4. CASE CallStep
  BY <1>4, PollBoards, FetchBoards, SynchBoards DEF CallStep
<1>5. CASE HeartBeat
  BY <1>5, HeartBeatBoards
<1>6. CASE UNCHANGED vars
  <2>1. UNCHANGED <<client, reads>> /\ UNCHANGED <<articles, told, call, task>>
    BY <1>6 DEF vars, server, client
  <2>2. TInv'
    BY <1>6, TypesKept DEF BInv
  <2>3. Quiet /\ Exclusive'
    BY <2>1 DEF Quiet, Job, BInv, Exclusive
  <2> QED  BY <2>1, <2>2, <2>3, QuietBoards
<1> QED  BY <1>1, <1>2, <1>3, <1>4, <1>5, <1>6 DEF Next

\* A post the client was told of is on every server, once, although it was
\* written at Nr servers only: synchSelectedServer copies the board of one of
\* them to all, and a heartbeat copies it again.
THEOREM AckedCorrect ==
    ASSUME ~Overlap
    PROVE  Spec => []AckedEverywhere
<1>1. Init => BInv
  BY InitBoards
<1>2. BInv /\ [Next]_vars => BInv'
  BY BoardsKept
<1>3. BInv => AckedEverywhere
  <2> SUFFICES ASSUME BInv, NEW t \in told, t.ok, NEW s \in Servers
               PROVE  Holds(s, t.post) = 1
    BY DEF AckedEverywhere
  <2>1. t.post \in Acked
    BY DEF Acked
  <2>2. HasOnce(articles[s], t.post)
    BY <2>1 DEF BInv, Placed, Everywhere
  <2> QED  BY <2>2, OnceCounted DEF Holds
<1> QED  BY <1>1, <1>2, <1>3, PTL DEF Spec

\* Between requests every server holds the same board, although ID and VER
\* differ from one server to the next: articles are numbered anew when they are
\* copied (loadArticle), so that a later sort moves none of them.
THEOREM AgreementCorrect ==
    ASSUME ~Overlap
    PROVE  Spec => []Agreement
<1>1. Init => BInv
  BY InitBoards
<1>2. BInv /\ [Next]_vars => BInv'
  BY BoardsKept
<1>3. BInv => Agreement
  <2> SUFFICES ASSUME BInv, Job.step = "idle", task["heartbeat"].step = "idle"
               PROVE  \A s, t \in Servers : articles[s] = articles[t]
    BY DEF Agreement, Job
  <2>1. Job.op # "POST"
    BY JobOp DEF BInv
  <2>2. AllSame
    BY <2>1 DEF BInv, Same, Busy, Synching
  <2> QED  BY <2>2 DEF AllSame
<1> QED  BY <1>1, <1>2, <1>3, PTL DEF Spec

\* A client that reads is shown what it was shown before.
LEMMA ReadsGoOn ==
    ASSUME BInv, NEW c \in Clients, NEW s \in Servers, call[c].op = "READ",
           \A i \in DOMAIN view[c] : view[c][i].post \in Acked,
           articles' = [articles EXCEPT ![s] = SortByID(@)], Show(c, articles'[s]),
           NEW d \in Clients, call[d].op = "READ", call'[d] = NoCall
    PROVE  \A i \in DOMAIN view[d] : \E j \in DOMAIN view'[d] : view'[d][j].post = view[d][i].post
<1>1. d = c
  BY ShownPosts, NoCallType
<1>2. \A p \in Acked : \E j \in DOMAIN view'[c] : view'[c][j].post = p
  BY ShownPosts
<1> QED  BY <1>1, <1>2

\* What a client was shown does not disappear from its next read, which another
\* server may answer: a read begins when no write is under way, so that what
\* its client was shown is acknowledged by then, and on every server.
THEOREM MonotonicCorrect ==
    ASSUME ~Overlap
    PROVE  Spec => MonotonicReads
<1>1. Init => BInv
  BY InitBoards
<1>2. BInv /\ [Next]_vars => BInv'
  BY BoardsKept
<1>3. ASSUME BInv, [Next]_vars, NEW c \in Clients, call[c].op = "READ", call'[c] = NoCall
      PROVE  \A i \in DOMAIN view[c] : \E j \in DOMAIN view'[c] :
               view'[c][j].post = view[c][i].post
  <2>1. CASE ClientStep
    <3>1. PICK d, r : Asks(d, r)
      BY <1>3, <2>1, ClientAsks DEF BInv, TInv, ClientStep
    <3>2. call[d] = NoCall /\ \A e \in Clients : e # d => call'[e] = call[e]
      BY <1>3, <3>1 DEF Asks, BInv, TInv, ClientTypeOK
    <3> QED  BY <1>3, <3>2, NoCallType
  <2>2. CASE UNCHANGED call
    BY <1>3, <2>2, NoCallType
  <2>3. CASE ListenStep \/ CallStep \/ HeartBeat
    <3>1. UNCHANGED call
      BY <2>3 DEF ListenStep, Post_handler, Reply_handler, Read_handler, Ask, CallStep, Poll,
         Fetch, Synch, HeartBeat, client
    <3> QED  BY <2>2, <3>1
  <2>4. CASE PrimaryPortStep
    <3>1. CASE \E m \in forwarded : ForwardRead(m) \/ ForwardPost(m)
      BY <2>2, <3>1 DEF ForwardRead, ForwardPost, client
    <3>2. CASE Write1
      BY <2>2, <3>2 DEF Write1, client
    <3>3. CASE Succeed
      <4>1. Job.step = "done" /\ Tell(Job.client, TRUE)
        BY <3>3 DEF Succeed, Job
      <4>2. call[Job.client].op \in Writing
        BY <1>3, <4>1, JobOp DEF BInv
      <4>3. c # Job.client /\ call'[c] = call[c]
        BY <1>3, <4>1, <4>2 DEF Tell, BInv, TInv, ClientTypeOK, Writing
      <4> QED  BY <1>3, <4>3, NoCallType
    <3>4. CASE AnswerRead
      <4>1. Job.step = "answer"
        BY <3>4 DEF AnswerRead, Job
      <4>2. CASE Job.newest = Primary
        <5>1. /\ articles' = [articles EXCEPT ![Primary] = SortByID(@)]
              /\ Show(Job.client, articles'[Primary])
          BY <3>4, <4>2 DEF AnswerRead, Job
        <5>2. Job.client \in Clients /\ call[Job.client].op \in OpsOf(Job.op) /\ Job.op = "READ"
          BY <1>3, <4>1, JobTypes DEF BInv, TaskOK
        <5>3. \A i \in DOMAIN view[Job.client] : view[Job.client][i].post \in Acked
          BY <1>3, <5>2 DEF BInv, Views, Writes
        <5>4. call[Job.client].op = "READ" /\ Primary \in Servers
          BY <5>2, ClientAssumption DEF OpsOf
        <5>5. PICK d : d = Job.client
          OBVIOUS
        <5> QED  BY <1>3, <5>1, <5>2, <5>3, <5>4, <5>5, ReadsGoOn
      <4>3. CASE Job.newest # Primary
        BY <2>2, <3>4, <4>3 DEF AnswerRead, Job, client
      <4> QED  BY <4>2, <4>3
    <3>5. CASE \E m \in reads : OperationRead(m)
      <4>1. PICK m \in reads : OperationRead(m)
        BY <3>5
      <4>2. PICK d, s : d = m.client /\ s = m.server
        OBVIOUS
      <4>3. /\ articles' = [articles EXCEPT ![s] = SortByID(@)] /\ Show(d, articles'[s])
        BY <4>1, <4>2 DEF OperationRead
      <4>4. /\ d \in Clients /\ s \in Servers /\ call[d].op = "READ"
            /\ \A i \in DOMAIN view[d] : view[d][i].post \in Acked
        BY <1>3, <4>2 DEF BInv, TInv, Types, Requests, Views
      <4> QED  BY <1>3, <4>3, <4>4, ReadsGoOn
    <3> QED  BY <2>4, <3>1, <3>2, <3>3, <3>4, <3>5 DEF PrimaryPortStep
  <2>5. CASE UNCHANGED vars
    BY <2>2, <2>5 DEF vars, client
  <2> QED  BY <1>3, <2>1, <2>3, <2>4, <2>5 DEF Next
<1>4. BInv /\ [Next]_vars =>
        [\A c \in Clients :
           call[c].op = "READ" /\ call'[c] = NoCall =>
             \A i \in DOMAIN view[c] : \E j \in DOMAIN view'[c] :
               view'[c][j].post = view[c][i].post]_vars
  BY <1>3
<1> QED  BY <1>1, <1>2, <1>4, PTL DEF Spec, MonotonicReads
============================================================================
