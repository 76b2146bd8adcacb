----------------------------- MODULE SeqServer -----------------------------
(* Project2, consistency option 1 ("sequential"): class seq_server of        *)
(* Server/Server.cpp over the dispatch loop of Server/BB_system.cpp, driven   *)
(* by the clients of Client/client.cpp.                                       *)
(*                                                                            *)
(* Every server runs two threads.  The listen thread takes one client request *)
(* at a time from SERVERPORT; for a POST or a REPLY it sends W2 to the        *)
(* primary and then blocks, without timeout, in receive(BACKUPPORT) until a   *)
(* W5 arrives.  The PRIMARYPORT thread handles W2, W3 and W4:                 *)
(*                                                                            *)
(*   W2 forward_req  origin server -> primary                                 *)
(*   W3 update       primary -> every server, itself included                 *)
(*   W4 ACK_up       every server -> primary                                  *)
(*   W5 ACK_comp     primary -> origin named by the last W4 of the request    *)
EXTENDS BoardClient

CONSTANTS
    NoClient,     \* "the listen thread serves nobody"
    InitialSlots, \* size of ack_num at start, 100 in the code
    Ordered       \* TRUE: W3 datagrams reach a server in the order of sending

ASSUME SeqAssumption ==
    /\ NoClient \notin Clients
    /\ InitialSlots \in Nat
    /\ Ordered \in BOOLEAN

VARIABLES
    articles, \* articles[s]: the vector of articles of server s
    ID,       \* seq_server::ID of the primary
    ack_num,  \* W4s counted per request slot; slot i is index i-1 of the code
    w2, w3, w4, w5, \* datagrams in flight; w3[s] is the queue towards s
    serving,  \* serving[s]: the client whose W5 the listen thread of s awaits
    log       \* history: the updates in the order the primary broadcast them

net    == <<w2, w3, w4, w5>>
server == <<articles, ID, ack_num, net, serving, log>>
vars   == <<server, client>>

N       == Cardinality(Servers)
Article == [ID : Int, hierachy : Nat, post : Post]
Update  == [req_num : Nat \ {0}, articleID : Int, repID : RepID,
            post : Post, origin : Servers]

----------------------------------------------------------------------------
Init ==
    /\ articles = [s \in Servers |-> <<>>]
    /\ ID = 0
    /\ ack_num = [i \in 1..InitialSlots |-> 0]
    /\ w2 = {} /\ w3 = [s \in Servers |-> <<>>] /\ w4 = {} /\ w5 = {}
    /\ serving = [s \in Servers |-> NoClient]
    /\ log = <<>>
    /\ ClientInit

----------------------------------------------------------------------------
(* The listen thread of server s.                                            *)

Queued(c, s, op) ==
    /\ call[c].op = op /\ call[c].server = s
    /\ serving[s] = NoClient

ForwardW2(c, s) ==
    /\ w2' = w2 \cup {[post |-> call[c].post, repID |-> call[c].repID,
                       origin |-> s]}
    /\ serving' = [serving EXCEPT ![s] = c]
    /\ UNCHANGED <<articles, ID, ack_num, w3, w4, w5, client, log>>

Post_handler(c, s)  == Queued(c, s, "POST") /\ ForwardW2(c, s)
Reply_handler(c, s) == Queued(c, s, "REPLY") /\ ForwardW2(c, s)

\* sendArticle sorts the vector in place.
Read_handler(c, s) ==
    /\ Queued(c, s, "READ")
    /\ articles' = [articles EXCEPT ![s] = SortByID(@)]
    /\ Show(c, articles'[s])
    /\ UNCHANGED <<ID, ack_num, net, serving, log>>

\* receive(BACKUPPORT) returns and the answer is relayed to the client.
ReceiveW5(s, m) ==
    /\ m \in w5 /\ m.to = s /\ serving[s] # NoClient
    /\ w5' = w5 \ {m}
    /\ Tell(serving[s], m.ok)
    /\ serving' = [serving EXCEPT ![s] = NoClient]
    /\ UNCHANGED <<articles, ID, ack_num, w2, w3, w4, log>>

\* BACKUPPORT is bound only while receive waits.  A W5 that comes when no
\* request is served, or after W2 was sent and before receive has bound the
\* port, finds no socket; how long that takes is up to the scheduler.
DropW5(s, m) ==
    /\ m \in w5 /\ m.to = s
    /\ w5' = w5 \ {m}
    /\ UNCHANGED <<articles, ID, ack_num, w2, w3, w4, serving, client, log>>

----------------------------------------------------------------------------
(* The PRIMARYPORT thread.                                                   *)

\* The first zero of ack_num, or one past its end: nothing reserves the slot,
\* so a second request takes it too until the first W4 of either is counted.
FreeSlot == LET zero == {i \in DOMAIN ack_num : ack_num[i] = 0}
            IN  IF zero = {} THEN Len(ack_num) + 1 ELSE First(zero)
Grown == IF FreeSlot > Len(ack_num) THEN Append(ack_num, 0) ELSE ack_num

NextIDStuck == ID \* mutant: ID is not incremented
NextID == ID + 1

\* FORWARD, then forward_update: the next ID and W3 to every server.
Forward(m) ==
    /\ m \in w2
    /\ w2' = w2 \ {m}
    /\ ack_num' = Grown
    /\ ID' = NextID
    /\ LET u == [req_num |-> FreeSlot, articleID |-> ID', repID |-> m.repID,
                 post |-> m.post, origin |-> m.origin]
       IN  /\ w3' = [s \in Servers |-> Append(w3[s], u)]
           /\ log' = Append(log, u)
    /\ UNCHANGED <<articles, w4, w5, serving, client>>

\* UPDATE at server s: update_backup, then W4 with its verdict.
ReceivableAny(s) == DOMAIN w3[s] \* mutant: updates are applied out of order
Receivable(s) == IF Ordered THEN {1} \cap DOMAIN w3[s] ELSE DOMAIN w3[s]

UpdateBackup(s, i) ==
    /\ i \in Receivable(s)
    /\ LET u == w3[s][i]
           ok == Accepts(articles[s], u)
       IN  /\ articles' = [articles EXCEPT ![s] = IF ok THEN Stored(@, u) ELSE @]
           /\ w4' = w4 \cup {[req_num |-> u.req_num, ok |-> ok, origin |-> u.origin,
                              from |-> s, post |-> u.post]}
    /\ w3' = [w3 EXCEPT ![s] = RemoveAt(@, i)]
    /\ UNCHANGED <<ID, ack_num, w2, w5, serving, client, log>>

Complete(m) == ack_num[m.req_num] + 1 = N
CountedNoReset(m) == ack_num[m.req_num] + 1 \* mutant: the slot is never freed
CountedIfOk(m) == \* mutant: a refusal is not counted
    IF Complete(m) THEN 0 ELSE ack_num[m.req_num] + (IF m.ok THEN 1 ELSE 0)
Counted(m) == IF Complete(m) THEN 0 ELSE ack_num[m.req_num] + 1

\* ACKUP: the W4 that completes the count answers the origin it names, frees
\* the slot, and revokes an ID if it is itself negative.
Ack(m) ==
    /\ m \in w4
    /\ w4' = w4 \ {m}
    /\ ack_num' = [ack_num EXCEPT ![m.req_num] = Counted(m)]
    /\ IF Complete(m)
       THEN /\ ID' = IF m.ok THEN ID ELSE ID - 1
            /\ w5' = w5 \cup {[to |-> m.origin, ok |-> m.ok,
                               from |-> m.from, post |-> m.post]}
       ELSE UNCHANGED <<ID, w5>>
    /\ UNCHANGED <<articles, w2, w3, serving, client, log>>

----------------------------------------------------------------------------
ClientStep == ClientAction /\ UNCHANGED server

ListenStep == \E s \in Servers :
    \/ \E c \in Clients :
         Post_handler(c, s) \/ Reply_handler(c, s) \/ Read_handler(c, s)
    \/ \E m \in w5 : ReceiveW5(s, m) \/ DropW5(s, m)

PrimaryPortStep ==
    \/ \E m \in w2 : Forward(m)
    \/ \E s \in Servers : \E i \in DOMAIN w3[s] : UpdateBackup(s, i)
    \/ \E m \in w4 : Ack(m)

Next == ClientStep \/ ListenStep \/ PrimaryPortStep

Spec == Init /\ [][Next]_vars

(* Each server's thread keeps receiving, whatever the other servers do.      *)
PrimaryFairness ==
    /\ WF_vars(\E m \in w2 : Forward(m))
    /\ \A s \in Servers : WF_vars(\E i \in DOMAIN w3[s] : UpdateBackup(s, i))
FairSpec == Spec /\ PrimaryFairness

----------------------------------------------------------------------------
(* Properties.                                                               *)

\* Shapes of the state, with what indexing relies on: a W3 or W4 in flight
\* names a slot of ack_num, a count never rests at N (the W4 that completes it
\* resets it), and a thread waits only for a client whose write it took.
TypeOK ==
    /\ ClientTypeOK
    /\ articles \in [Servers -> Seq(Article)]
    /\ ID \in Int
    /\ ack_num \in Seq(0..(N - 1))
    /\ w2 \subseteq [post : Post, repID : RepID, origin : Servers]
    /\ w3 \in [Servers -> Seq(Update)]
    /\ \A s \in Servers : \A k \in DOMAIN w3[s] : w3[s][k].req_num \in DOMAIN ack_num
    /\ w4 \subseteq [req_num : DOMAIN ack_num, ok : BOOLEAN, origin : Servers,
                    from : Servers, post : Post]
    /\ w5 \subseteq [to : Servers, ok : BOOLEAN, from : Servers, post : Post]
    /\ serving \in [Servers -> Clients \cup {NoClient}]
    /\ \A s \in Servers : serving[s] # NoClient =>
         call[serving[s]].op \in Writing /\ call[serving[s]].server = s
    /\ log \in Seq(Update)

Shown(s) == Posts(SortByID(articles[s]))

SameOrder(a, b) ==
    ~ \E i, j \in DOMAIN a : \E k, l \in DOMAIN b :
        i < j /\ k < l /\ a[i] = b[l] /\ a[j] = b[k]

\* "All clients should see the same order of articles on a read from any
\* server" (Project2/README.md): no two articles are shown in opposite orders,
\* neither by two servers nor by a server and what a client was shown earlier.
ReadOrder ==
    \A s \in Servers :
        /\ \A t \in Servers : SameOrder(Shown(s), Shown(t))
        /\ \A c \in Clients : SameOrder(Posts(view[c]), Shown(s))

\* Replicas are one state machine: two servers that have handled as many
\* updates show the same board, hierachies included, whatever reads have
\* sorted their vectors in between and whatever replies were refused.
EqualProgress ==
    \A s, t \in Servers :
        Len(w3[s]) = Len(w3[t]) => SortByID(articles[s]) = SortByID(articles[t])

\* With W3 delivered in order and replies to articles on display, every
\* server holds a prefix of the primary's broadcasts, numbered 1, 2, 3..., so
\* that the i+1 a client prints (loadReadContent) is the ID it replies to.
LogPrefix ==
    \A s \in Servers :
        /\ Len(articles[s]) <= Len(log)
        /\ \A i \in DOMAIN articles[s] :
              articles[s][i].ID = i /\ articles[s][i].post = log[i].post

\* Acknowledgements are neither lost nor invented by slot sharing: a slot's
\* count and what is still to come for it make up whole requests, so a slot
\* is free again once the traffic for it has drained.
InTransit(i) ==
    Cardinality({m \in w4 : m.req_num = i})
    + Cardinality({p \in Servers \X DOMAIN log :
                     /\ p[2] \in DOMAIN w3[p[1]]
                     /\ w3[p[1]][p[2]].req_num = i})
SlotBalance ==
    \A i \in DOMAIN ack_num : (ack_num[i] + InTransit(i)) % N = 0

\* A client is told of success only when every server stores its article: the
\* blocking promise of the primary-backup protocol the README names.
AckedEverywhere ==
    \A t \in told : t.ok =>
        \A s \in Servers : \E i \in DOMAIN articles[s] : articles[s][i].post = t.post

\* Every write that reaches the primary is stored by every server in the end.
EventuallyEverywhere ==
    \A p \in Post :
        (\E m \in w2 : m.post = p) ~>
        (\A s \in Servers : \E i \in DOMAIN articles[s] : articles[s][i].post = p)

\* The abstract board: what was broadcast, and what each client was shown.
Board == INSTANCE SequentialBoard WITH
            board <- Posts(log), shown <- [c \in Clients |-> Posts(view[c])]
ImplementsBoard == Board!Spec
============================================================================
