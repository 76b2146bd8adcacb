---------------------------- MODULE QuorumServer ----------------------------
(* Project2, consistency option 2 ("quorum"): class qum_server of Server/      *)
(* Server.cpp.                                                                 *)
(*                                                                             *)
(* Every request is forwarded to the PRIMARYPORT thread of the coordinator,    *)
(* which serves them one at a time and drives the other servers by calls       *)
(* (UDP_send, then receive on a port of its own).  A listen thread makes such  *)
(* calls for a REPLY, and the coordinator has a heartbeat thread that makes    *)
(* them on its own account.  Each of these threads is a task here, and a call, *)
(* which blocks its caller, is one step: the called PRIMARYPORT thread takes   *)
(* the request and the answer is received.  A call that is never answered is   *)
(* a step never taken.                                                         *)
(*                                                                             *)
(* Two threads of the coordinator that wait on one port at a time are left     *)
(* out: the second bind fails and receive returns an uninitialized buffer.     *)
EXTENDS BoardClient

CONSTANTS
    NoClient, NoServer,
    SIPs,    \* the list of servers, the coordinator first
    Nr, Nw,  \* quorum sizes typed at start; Nw is only validated
    Overlap  \* TRUE: the threads of the coordinator run at the same time

N == Len(SIPs)

ASSUME QuorumAssumption ==
    /\ NoClient \notin Clients /\ NoServer \notin Servers
    /\ {"forward", "heartbeat"} \cap Servers = {}
    /\ SIPs \in Seq(Servers) /\ Servers = {SIPs[i] : i \in DOMAIN SIPs}
    /\ N = Cardinality(Servers) /\ SIPs[1] = Primary
    /\ Nr \in 1..N /\ Nw \in 1..N
    /\ Nr + Nw > N /\ Nw > N \div 2 \* isValidQ
    /\ Overlap \in BOOLEAN

VARIABLES
    articles,  \* articles[s]: the vector of articles of server s
    ID, VER,   \* counters of s, raised by writeArticle
    forwarded, \* FORWARD_QUM requests in flight to the coordinator
    reads,     \* OPERATION_READ in flight: a server is to answer a client
    taken,     \* clients whose request a listen thread has taken
    task       \* what each thread is doing

server == <<articles, ID, VER, forwarded, reads, taken, task>>
vars   == <<server, client>>

\* FORWARD_handler, heartBeatImpl, and the Reply_handler of each server
Threads == Servers \cup {"forward", "heartbeat"}
Host(x) == IF x \in Servers THEN x ELSE Primary

Idle == [step |-> "idle", client |-> NoClient, op |-> "none", preHie |-> 0,
         quorum |-> <<>>, todo |-> <<>>, newest |-> NoServer, maxVer |-> 0,
         board |-> <<>>]

Article == [ID : Nat, hierachy : Nat, post : Post]
Board   == Seq([post : Post, hierachy : Nat])

\* selectRandomServer swaps quorum[i] with an entry strictly before it, which
\* makes the order one single cycle: no index stays in place, and the
\* coordinator (index 0) is never first.
Orders == {q \in [1..N -> 1..N] :
             \A S \in SUBSET (1..N) :
                S # {} /\ (\A i \in S : q[i] \in S) => S = 1..N}
Quorums == {[i \in 1..Nr |-> SIPs[q[i]]] : q \in Orders}

Init ==
    /\ articles = [s \in Servers |-> <<>>]
    /\ ID = [s \in Servers |-> 0] /\ VER = [s \in Servers |-> 0]
    /\ forwarded = {} /\ reads = {} /\ taken = {}
    /\ task = [x \in Threads |-> Idle]
    /\ ClientInit

----------------------------------------------------------------------------
(* Tasks.                                                                     *)

\* A thread may begin: without Overlap, only when its host's others are done
\* or, after a receive that nothing will answer, gone for good.
MayBegin(x) ==
    /\ task[x].step = "idle"
    /\ ~Overlap => \A y \in Threads :
                      Host(y) = Host(x) => task[y].step \in {"idle", "hung"}

Begin(x, t) == task' = [task EXCEPT ![x] = t]
Polling(list) == [Idle EXCEPT !.step = "poll", !.todo = list]

\* The PRIMARYPORT thread of s answers x: a thread asks its own host by a
\* function call, and the coordinator is deaf while it serves a request.
Answers(s, x) == s = Host(x) \/ s # Primary \/ task["forward"].step = "idle"

\* What follows the version poll.
AfterPoll(x) ==
    IF x \in Servers THEN "ask"
    ELSE IF x = "forward" /\ task[x].op = "READ" THEN "answer" ELSE "fetch"

\* getNewestServer, one server of the list: the last one with the highest VER.
NewerStrictly(x, s) == VER[s] > task[x].maxVer \* mutant: a first VER of 0 is none
Newer(x, s) == VER[s] >= task[x].maxVer

Poll(x) ==
    /\ task[x].step = "poll"
    /\ LET s == Head(task[x].todo)
           rest == Tail(task[x].todo)
       IN  /\ Answers(s, x)
           /\ Begin(x, [task[x] EXCEPT
                !.todo = rest,
                !.newest = IF Newer(x, s) THEN s ELSE @,
                !.maxVer = IF Newer(x, s) THEN VER[s] ELSE @,
                !.step = IF rest = <<>> THEN AfterPoll(x) ELSE @])
    /\ UNCHANGED <<articles, ID, VER, forwarded, reads, taken, client>>

SyncListQuorum(x) == \* mutant: only the quorum is brought up to date
    IF x = "forward" THEN task[x].quorum ELSE SIPs
SyncList(x) == SIPs

\* The board of the newest server is asked for (OPERATION_READ;SYNCH).  When
\* that is the coordinator itself, sendArticle sends it to a port that receive
\* has yet to bind: the thread waits for ever.
Fetch(x) ==
    /\ task[x].step = "fetch"
    /\ LET s == task[x].newest
           board == Sent(SortByID(articles[s]))
       IN  /\ articles' = [articles EXCEPT ![s] = SortByID(@)]
           /\ Begin(x, [task[x] EXCEPT
                !.board = board,
                !.todo = SyncList(x),
                !.step = IF s = Primary THEN "hung"
                         ELSE IF x = "forward" /\ board = <<>> THEN "done"
                         ELSE "synch"])
    /\ UNCHANGED <<ID, VER, forwarded, reads, taken, client>>

\* loadArticle: the vector is replaced, numbered 1, 2, 3, ...; ID and VER stay.
LoadedNotCleared(a, board) == \* mutant: articles.clear() is forgotten
    a \o [i \in DOMAIN board |-> [ID |-> i, hierachy |-> board[i].hierachy,
                                  post |-> board[i].post]]
LoadedButLast(a, board) == \* mutant: the loop stops at bufferLen - 1
    [i \in 1..(Len(board) - 1) |-> [ID |-> i, hierachy |-> board[i].hierachy,
                                    post |-> board[i].post]]
Loaded(a, board) ==
    [i \in DOMAIN board |-> [ID |-> i, hierachy |-> board[i].hierachy,
                             post |-> board[i].post]]

\* synchSelectedServer, one server of the list.
Synch(x) ==
    /\ task[x].step = "synch"
    /\ LET s == Head(task[x].todo)
           rest == Tail(task[x].todo)
       IN  /\ articles' = [articles EXCEPT ![s] = Loaded(@, task[x].board)]
           /\ Begin(x, IF rest # <<>> THEN [task[x] EXCEPT !.todo = rest]
                       ELSE IF x = "heartbeat" THEN Idle
                       ELSE [task[x] EXCEPT !.todo = <<>>, !.step = "done"])
    /\ UNCHANGED <<ID, VER, forwarded, reads, taken, client>>

----------------------------------------------------------------------------
(* The listen thread of server s.                                             *)

Queued(c, s, op) ==
    /\ call[c].op = op /\ call[c].server = s
    /\ c \notin taken /\ task[s].step = "idle"

ForwardQum(c, op, preHie) ==
    forwarded' = forwarded \cup {[client |-> c, op |-> op, preHie |-> preHie]}

Post_handler(c, s) ==
    /\ Queued(c, s, "POST")
    /\ taken' = taken \cup {c}
    /\ ForwardQum(c, "POST", -1)
    /\ UNCHANGED <<articles, ID, VER, reads, task, client>>

Read_handler(c, s) ==
    /\ Queued(c, s, "READ")
    /\ taken' = taken \cup {c}
    /\ ForwardQum(c, "READ", -1)
    /\ UNCHANGED <<articles, ID, VER, reads, task, client>>

Reply_handler(c, s) ==
    /\ Queued(c, s, "REPLY") /\ MayBegin(s)
    /\ taken' = taken \cup {c}
    /\ Begin(s, [Polling(SIPs) EXCEPT !.client = c])
    /\ UNCHANGED <<articles, ID, VER, forwarded, reads, client>>

\* The newest server is asked for the hierachy of the article replied to
\* (OPERATION_REPLY).  It reads through articles.end() when it has no such
\* article: any value.  The request goes on as a POST.
Hierachies(s, id) ==
    IF Carriers(articles[s], id) = {} THEN 0..MaxWrites
    ELSE {articles[s][First(Carriers(articles[s], id))].hierachy}

Ask(s) ==
    /\ task[s].step = "ask"
    /\ Answers(task[s].newest, s)
    /\ LET c == task[s].client
       IN  \E h \in Hierachies(task[s].newest, call[c].repID) : ForwardQum(c, "POST", h)
    /\ Begin(s, Idle)
    /\ UNCHANGED <<articles, ID, VER, reads, taken, client>>

----------------------------------------------------------------------------
(* The PRIMARYPORT threads.                                                   *)

\* FORWARD_handler, READ and POST.
ForwardRead(m) ==
    /\ m \in forwarded /\ m.op = "READ" /\ MayBegin("forward")
    /\ forwarded' = forwarded \ {m}
    /\ \E q \in Quorums :
         Begin("forward", [Polling(q) EXCEPT !.client = m.client, !.op = "READ"])
    /\ UNCHANGED <<articles, ID, VER, reads, taken, client>>

ForwardPost(m) ==
    /\ m \in forwarded /\ m.op = "POST" /\ MayBegin("forward")
    /\ forwarded' = forwarded \ {m}
    /\ \E q \in Quorums :
         Begin("forward", [Idle EXCEPT !.step = "write", !.client = m.client,
                             !.op = "POST", !.preHie = m.preHie,
                             !.quorum = q, !.todo = q])
    /\ UNCHANGED <<articles, ID, VER, reads, taken, client>>

\* writeSelectedServer, one server of the list, with its writeArticle.
Write1 ==
    LET job == task["forward"]
        s == Head(job.todo)
        rest == Tail(job.todo)
    IN  /\ job.step = "write"
        /\ ID' = [ID EXCEPT ![s] = @ + 1]
        /\ VER' = [VER EXCEPT ![s] = @ + 1]
        /\ articles' = [articles EXCEPT ![s] =
                          Append(@, [ID |-> ID'[s], hierachy |-> job.preHie + 1,
                                     post |-> call[job.client].post])]
        /\ Begin("forward", IF rest # <<>> THEN [job EXCEPT !.todo = rest]
                            ELSE [job EXCEPT !.step = "poll", !.todo = job.quorum])
        /\ UNCHANGED <<forwarded, reads, taken, client>>

\* The newest server of the read quorum is to answer the client.
AnswerRead ==
    LET job == task["forward"]
    IN  /\ job.step = "answer"
        /\ Begin("forward", Idle)
        /\ IF job.newest = Primary
           THEN /\ articles' = [articles EXCEPT ![Primary] = SortByID(@)]
                /\ Show(job.client, articles'[Primary])
                /\ taken' = taken \ {job.client}
                /\ UNCHANGED reads
           ELSE /\ reads' = reads \cup {[server |-> job.newest, client |-> job.client]}
                /\ UNCHANGED <<articles, taken, client>>
        /\ UNCHANGED <<ID, VER, forwarded>>

\* OPERATION_READ at another server.
OperationRead(m) ==
    /\ m \in reads
    /\ reads' = reads \ {m}
    /\ articles' = [articles EXCEPT ![m.server] = SortByID(@)]
    /\ Show(m.client, articles'[m.server])
    /\ taken' = taken \ {m.client}
    /\ UNCHANGED <<ID, VER, forwarded, task>>

\* "Success;1"
Succeed ==
    LET job == task["forward"]
    IN  /\ job.step = "done"
        /\ Tell(job.client, TRUE)
        /\ taken' = taken \ {job.client}
        /\ Begin("forward", Idle)
        /\ UNCHANGED <<articles, ID, VER, forwarded, reads>>

\* heartBeatImpl, every 8 seconds or more.
HeartBeat ==
    /\ MayBegin("heartbeat")
    /\ Begin("heartbeat", Polling(SIPs))
    /\ UNCHANGED <<articles, ID, VER, forwarded, reads, taken, client>>

----------------------------------------------------------------------------
ClientStep == ClientAction /\ UNCHANGED server

ListenStep == \E s \in Servers :
    \/ \E c \in Clients :
         Post_handler(c, s) \/ Reply_handler(c, s) \/ Read_handler(c, s)
    \/ Ask(s)

PrimaryPortStep ==
    \/ \E m \in forwarded : ForwardRead(m) \/ ForwardPost(m)
    \/ Write1 \/ AnswerRead \/ Succeed
    \/ \E m \in reads : OperationRead(m)

CallStep == \E x \in Threads : Poll(x) \/ Fetch(x) \/ Synch(x)

Next == ClientStep \/ ListenStep \/ PrimaryPortStep \/ CallStep \/ HeartBeat

Spec == Init /\ [][Next]_vars

----------------------------------------------------------------------------
(* Properties.                                                                *)

Task == [step : {"idle", "write", "poll", "fetch", "synch", "answer", "ask",
                 "done", "hung"},
         client : Clients \cup {NoClient}, op : {"none", "READ", "POST"},
         preHie : Nat \cup {-1}, quorum : Seq(Servers), todo : Seq(Servers),
         newest : Servers \cup {NoServer}, maxVer : Nat, board : Board]

\* Shapes of the state; a poll that is over has found a server, so that the
\* iterator getNewestServer returns through has been assigned, and a call under
\* way has a server to call.
TypeOK ==
    /\ ClientTypeOK
    /\ articles \in [Servers -> Seq(Article)]
    /\ ID \in [Servers -> Nat] /\ VER \in [Servers -> Nat]
    /\ forwarded \subseteq [client : Clients, op : {"READ", "POST"}, preHie : Nat \cup {-1}]
    /\ reads \subseteq [server : Servers, client : Clients]
    /\ taken \subseteq Clients
    /\ task \in [Threads -> Task]
    /\ \A x \in Threads :
         /\ task[x].step \in {"fetch", "answer", "ask"} => task[x].newest \in Servers
         /\ task[x].step \in {"write", "poll", "synch"} => task[x].todo # <<>>

Holds(s, p) == Cardinality({i \in DOMAIN articles[s] : articles[s][i].post = p})

\* A post the client was told of is on every server, once, although it was
\* written at Nr of them: it got there when the board was synchronized, and no
\* synchronization since has undone it.
AckedEverywhere ==
    \A t \in told : t.ok => \A s \in Servers : Holds(s, t.post) = 1

\* Whatever is done at the same time, a post the client was told of is still on
\* some server: the heartbeat "update[s] all" with the "lastest article"
\* (comments in heartBeatImpl), never with an older board.
AckedSomewhere ==
    \A t \in told : t.ok => \E s \in Servers : Holds(s, t.post) > 0

\* Between requests every server holds the same board: neither the ID and VER
\* counters, which differ, nor sorting by them sets two servers apart.
Agreement ==
    (\A x \in {"forward", "heartbeat"} : task[x].step = "idle") =>
        \A s, t \in Servers : articles[s] = articles[t]

\* What a client was shown does not disappear from its next read, which may be
\* answered by another server: quorum reads find what earlier ones found, even
\* an article shown while its post was under way.
MonotonicReads ==
    [][\A c \in Clients :
         call[c].op = "READ" /\ call'[c] = NoCall =>
           \A i \in DOMAIN view[c] : \E j \in DOMAIN view'[c] :
             view'[c][j].post = view[c][i].post]_vars
============================================================================
