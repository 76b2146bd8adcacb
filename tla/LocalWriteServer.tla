-------------------------- MODULE LocalWriteServer --------------------------
(* Project2, consistency option 3 ("Read-your-Write"): class                   *)
(* LocalWrite_server of Server/Server.cpp.                                     *)
(*                                                                             *)
(* The coordinator role moves to the server a client writes at.  The listen    *)
(* thread of that server fetches the board from the coordinator it knows       *)
(* (moveX, answered on BACKUPPORT), makes itself coordinator, broadcasts the   *)
(* change and sends the request to the PRIMARYPORT of the coordinator, by then *)
(* mostly itself.  The PRIMARYPORT thread there stores the article, answers    *)
(* the client, and only then sends the update to the other servers.            *)
EXTENDS BoardClient

CONSTANTS
    NoClient,     \* "the listen thread serves nobody"
    InitialSlots, \* size of ack_num at start, 100 in the code
    Ordered,      \* TRUE: datagrams reach a server in the order of sending
    Settled       \* TRUE: clients wait until the previous request has settled

ASSUME LocalWriteAssumption ==
    /\ NoClient \notin Clients
    /\ InitialSlots \in Nat
    /\ Ordered \in BOOLEAN /\ Settled \in BOOLEAN

VARIABLES
    articles,      \* articles[s]: the vector of articles of server s
    IsCoordinator, \* IsCoordinator[s], as s believes
    coordinatorIP, \* coordinatorIP[s]: the server s takes for the coordinator
    ack_num,       \* ack_num[s]: ACK_up counted by s per request slot
    port,          \* port[s]: datagrams in flight to the PRIMARYPORT of s
    back,          \* boards in flight to a BACKUPPORT
    phase,         \* phase[s]: where the listen thread of s is in a write
    serving,       \* serving[s]: the client whose write that is
    taken,         \* clients whose request a listen thread has taken
    log            \* history: the posts accepted, in order

server == <<articles, IsCoordinator, coordinatorIP, ack_num, port, back,
            phase, serving, taken, log>>
vars   == <<server, client>>

N       == Cardinality(Servers)
Article == [ID : Nat, hierachy : Nat, post : Post]
Board   == Seq([post : Post, hierachy : Nat])
Phases  == {"idle", "moving", "forward"}

\* for(it=SIPs.begin()...) with the local address skipped
PeersButPrimary(s) == Servers \ {s, Primary} \* mutant: SIPs[0] is skipped as well
Peers(s) == Servers \ {s}

Broadcast(s, m) ==
    port' = [t \in Servers |-> IF t \in Peers(s) THEN Append(port[t], m) ELSE port[t]]

Init ==
    /\ articles = [s \in Servers |-> <<>>]
    /\ IsCoordinator = [s \in Servers |-> s = Primary]
    /\ coordinatorIP = [s \in Servers |-> Primary]
    /\ ack_num = [s \in Servers |-> [i \in 1..InitialSlots |-> 0]]
    /\ port = [s \in Servers |-> <<>>] /\ back = {}
    /\ phase = [s \in Servers |-> "idle"]
    /\ serving = [s \in Servers |-> NoClient]
    /\ taken = {}
    /\ log = <<>>
    /\ ClientInit

----------------------------------------------------------------------------
(* The listen thread of server s.                                             *)

Queued(c, s, op) ==
    /\ call[c].op = op /\ call[c].server = s
    /\ c \notin taken /\ phase[s] = "idle"

\* Post_handler and Reply_handler up to the receive of MoveItemX.
BeginWrite(c, s) ==
    /\ taken' = taken \cup {c}
    /\ serving' = [serving EXCEPT ![s] = c]
    /\ IF IsCoordinator[s]
       THEN /\ phase' = [phase EXCEPT ![s] = "forward"]
            /\ UNCHANGED port
       ELSE /\ phase' = [phase EXCEPT ![s] = "moving"]
            /\ port' = [port EXCEPT ![coordinatorIP[s]] =
                          Append(@, [type |-> "moveX", from |-> s])]
    /\ UNCHANGED <<articles, IsCoordinator, coordinatorIP, ack_num, back, log, client>>

Post_handler(c, s)  == Queued(c, s, "POST") /\ BeginWrite(c, s)
Reply_handler(c, s) == Queued(c, s, "REPLY") /\ BeginWrite(c, s)

Read_handler(c, s) ==
    /\ Queued(c, s, "READ")
    /\ articles' = [articles EXCEPT ![s] = SortByID(@)]
    /\ Show(c, articles'[s])
    /\ UNCHANGED <<IsCoordinator, coordinatorIP, ack_num, port, back, phase,
                   serving, taken, log>>

\* An empty board is an empty datagram, and replaces nothing.
LoadedFrom0(board) == \* mutant: tmpID starts at 0
    [i \in DOMAIN board |-> [ID |-> i - 1, hierachy |-> board[i].hierachy,
                             post |-> board[i].post]]
Loaded(board) ==
    [i \in DOMAIN board |-> [ID |-> i, hierachy |-> board[i].hierachy,
                             post |-> board[i].post]]

\* The rest of MoveItemX.
ReceiveBoard(s, m) ==
    /\ m \in back /\ m.to = s /\ phase[s] = "moving"
    /\ back' = back \ {m}
    /\ articles' = [articles EXCEPT ![s] =
                      IF m.board = <<>> THEN @ ELSE Loaded(m.board)]
    /\ IsCoordinator' = [IsCoordinator EXCEPT ![s] = TRUE]
    /\ coordinatorIP' = [coordinatorIP EXCEPT ![s] = s]
    /\ Broadcast(s, [type |-> "broadcastIP", from |-> s])
    /\ phase' = [phase EXCEPT ![s] = "forward"]
    /\ UNCHANGED <<ack_num, serving, taken, log, client>>

\* The board came before receive had bound BACKUPPORT: the thread waits for ever.
DropBoard(m) ==
    /\ m \in back
    /\ back' = back \ {m}
    /\ UNCHANGED <<articles, IsCoordinator, coordinatorIP, ack_num, port, phase,
                   serving, taken, log, client>>

\* MoveItemX has returned; coordinatorIP is read afresh.
SendForward(s) ==
    /\ phase[s] = "forward"
    /\ LET c == serving[s]
       IN  port' = [port EXCEPT ![coordinatorIP[s]] =
                      Append(@, [type |-> "forward_req", client |-> c,
                                 repID |-> call[c].repID, post |-> call[c].post])]
    /\ phase' = [phase EXCEPT ![s] = "idle"]
    /\ serving' = [serving EXCEPT ![s] = NoClient]
    /\ UNCHANGED <<articles, IsCoordinator, coordinatorIP, ack_num, back, taken,
                   log, client>>

----------------------------------------------------------------------------
(* The PRIMARYPORT thread of server s, on the datagram at i of port[s].        *)

Receivable(s) == IF Ordered THEN {1} \cap DOMAIN port[s] ELSE DOMAIN port[s]

Received(s, i, type) == i \in Receivable(s) /\ port[s][i].type = type
Consumed(s, i) == [port EXCEPT ![s] = RemoveAt(@, i)]

\* moveX, forward_req and ACK_up are unknown commands to a server that is not,
\* or no longer, the coordinator.
Ignore(s, i) ==
    /\ \E type \in {"moveX", "forward_req", "ACK_up"} : Received(s, i, type)
    /\ ~IsCoordinator[s]
    /\ port' = Consumed(s, i)
    /\ UNCHANGED <<articles, IsCoordinator, coordinatorIP, ack_num, back, phase,
                   serving, taken, log, client>>

MoveX(s, i) ==
    /\ Received(s, i, "moveX") /\ IsCoordinator[s]
    /\ port' = Consumed(s, i)
    /\ articles' = [articles EXCEPT ![s] = SortByID(@)]
    /\ back' = back \cup {[to |-> port[s][i].from, board |-> Sent(articles'[s])]}
    /\ UNCHANGED <<IsCoordinator, coordinatorIP, ack_num, phase, serving, taken,
                   log, client>>

DemotedKeepingRole(s) == IsCoordinator \* mutant: the old coordinator stays one
Demoted(s) == [IsCoordinator EXCEPT ![s] = FALSE]

PrimaryChange(s, i) ==
    /\ Received(s, i, "broadcastIP")
    /\ port' = Consumed(s, i)
    /\ coordinatorIP' = [coordinatorIP EXCEPT ![s] = port[s][i].from]
    /\ IsCoordinator' = Demoted(s)
    /\ UNCHANGED <<articles, ack_num, back, phase, serving, taken, log, client>>

\* The first zero of ack_num, or one past its end.
FreeSlotFixed(s) == 1 \* mutant: every request counts in the same slot
FreeSlot(s) == LET zero == {i \in DOMAIN ack_num[s] : ack_num[s][i] = 0}
               IN  IF zero = {} THEN Len(ack_num[s]) + 1 ELSE First(zero)

\* update_local, ACK_comp to the client, forward_update: the others are sent
\* the update whatever the verdict.
Forward(s, i) ==
    /\ Received(s, i, "forward_req") /\ IsCoordinator[s]
    /\ ack_num' = [ack_num EXCEPT ![s] =
                     IF FreeSlot(s) > Len(@) THEN Append(@, 0) ELSE @]
    /\ LET m  == port[s][i]
           u  == [type |-> "update", from |-> s, req_num |-> FreeSlot(s),
                  articleID |-> Len(articles[s]) + 1, repID |-> m.repID,
                  post |-> m.post]
           ok == Accepts(articles[s], u)
       IN  /\ articles' = [articles EXCEPT ![s] = IF ok THEN Stored(@, u) ELSE @]
           /\ log' = IF ok THEN Append(log, m.post) ELSE log
           /\ Tell(m.client, ok)
           /\ taken' = taken \ {m.client}
           /\ port' = [t \in Servers |-> IF t \in Peers(s) THEN Append(port[t], u)
                                         ELSE Consumed(s, i)[t]]
    /\ UNCHANGED <<IsCoordinator, coordinatorIP, back, phase, serving>>

Update(s, i) ==
    /\ Received(s, i, "update")
    /\ LET u  == port[s][i]
           ok == Accepts(articles[s], u)
       IN  /\ articles' = [articles EXCEPT ![s] = IF ok THEN Stored(@, u) ELSE @]
           /\ port' = [Consumed(s, i) EXCEPT ![u.from] =
                         Append(@, [type |-> "ACK_up", from |-> s,
                                    req_num |-> u.req_num, ok |-> ok])]
    /\ UNCHANGED <<IsCoordinator, coordinatorIP, ack_num, back, phase, serving,
                   taken, log, client>>

\* Only positive ACK_up are counted, and no slot is ever reset.
AckUp(s, i) ==
    /\ Received(s, i, "ACK_up") /\ IsCoordinator[s]
    /\ port' = Consumed(s, i)
    /\ LET m == port[s][i]
       IN  ack_num' = IF m.ok THEN [ack_num EXCEPT ![s][m.req_num] = @ + 1] ELSE ack_num
    /\ UNCHANGED <<articles, IsCoordinator, coordinatorIP, back, phase, serving,
                   taken, log, client>>

----------------------------------------------------------------------------
\* Nothing is under way.
Quiet == /\ \A s \in Servers : port[s] = <<>> /\ phase[s] = "idle"
         /\ back = {}
         /\ \A c \in Clients : call[c] = NoCall

ClientStep == (Settled => Quiet) /\ ClientAction /\ UNCHANGED server

ListenStep ==
    \/ \E s \in Servers :
         \/ \E c \in Clients :
              Post_handler(c, s) \/ Reply_handler(c, s) \/ Read_handler(c, s)
         \/ \E m \in back : ReceiveBoard(s, m)
         \/ SendForward(s)
    \/ \E m \in back : DropBoard(m)

PrimaryPortStep == \E s \in Servers : \E i \in DOMAIN port[s] :
    \/ Ignore(s, i) \/ MoveX(s, i) \/ PrimaryChange(s, i)
    \/ Forward(s, i) \/ Update(s, i) \/ AckUp(s, i)

Next == ClientStep \/ ListenStep \/ PrimaryPortStep

Spec == Init /\ [][Next]_vars

----------------------------------------------------------------------------
(* Properties.                                                                *)

PortMessage ==
    [type : {"moveX", "broadcastIP"}, from : Servers]
    \cup [type : {"forward_req"}, client : Clients, repID : RepID, post : Post]
    \cup [type : {"update"}, from : Servers, req_num : Nat \ {0},
          articleID : Nat, repID : RepID, post : Post]
    \cup [type : {"ACK_up"}, from : Servers, req_num : Nat \ {0}, ok : BOOLEAN]

\* Shapes of the state; a coordinator takes itself for the coordinator, and a
\* server that asks for the board never asks itself, which would wait for ever.
TypeOK ==
    /\ ClientTypeOK
    /\ articles \in [Servers -> Seq(Article)]
    /\ IsCoordinator \in [Servers -> BOOLEAN]
    /\ coordinatorIP \in [Servers -> Servers]
    /\ \A s \in Servers : IsCoordinator[s] = (coordinatorIP[s] = s)
    /\ ack_num \in [Servers -> Seq(Nat)]
    /\ port \in [Servers -> Seq(PortMessage)]
    /\ back \subseteq [to : Servers, board : Board]
    /\ phase \in [Servers -> Phases]
    /\ serving \in [Servers -> Clients \cup {NoClient}]
    /\ \A s \in Servers : (phase[s] = "idle") = (serving[s] = NoClient)
    /\ taken \subseteq Clients
    /\ log \in Seq(Post)

\* Once a request has settled there is one coordinator, every server knows it,
\* and every board is the same: the accepted posts in the order of acceptance,
\* numbered 1, 2, 3, ...; moving the board neither lost, doubled nor reordered
\* an article, nor did it drop what a backup had stored from an update.
Agreement ==
    Quiet =>
        /\ \E p \in Servers : \A s \in Servers :
              /\ coordinatorIP[s] = p
              /\ IsCoordinator[s] = (s = p)
              /\ articles[s] = articles[p]
        /\ Posts(articles[Primary]) = log
        /\ \A i \in DOMAIN log : articles[Primary][i].ID = i

\* "Later, if the client C connects to a different server S2 and does a read or
\* choose, they are guaranteed to see the prior updates" (Project2/README.md):
\* a read shows every post the reader was told is accepted.
ReadYourWrites ==
    [][\A c \in Clients :
         call[c].op = "READ" /\ call'[c] = NoCall =>
           \A t \in told : t.client = c /\ t.ok =>
             \E i \in DOMAIN view'[c] : view'[c][i].post = t.post]_vars

\* Requests that settle one by one do not share a slot: each slot has counted
\* the acknowledgements of one request, from every other server, or none.
SlotsCountOneRequest ==
    Quiet => \A s \in Servers : \A i \in DOMAIN ack_num[s] : ack_num[s][i] \in {0, N - 1}
============================================================================
