---------------------------- MODULE BoardClient ----------------------------
(* Project2/Client/client.cpp: the clients of the bulletin board, the same for *)
(* its three consistency protocols.  A client sends one request to a random    *)
(* server and blocks, without timeout, until it is answered.  The answering    *)
(* half (Tell, Show) is driven by the module of the protocol, which leaves     *)
(* "client" unchanged in its other steps.                                      *)
EXTENDS Articles

CONSTANTS
    Servers,   \* SIPs, the registered servers
    Primary,   \* the coordinator at start
    Clients,
    MaxWrites, \* bound: posts and replies issued in all
    StrayIDs   \* article numbers a user may type although none is shown

ASSUME ClientAssumption ==
    /\ IsFiniteSet(Servers) /\ Primary \in Servers
    /\ MaxWrites \in Nat /\ StrayIDs \subseteq Nat

VARIABLES
    call,   \* call[c]: the request client c is blocked on
    writes, \* posts and replies issued so far; their numbers name them
    view,   \* view[c]: articleList, what c was shown by its last read
    told    \* the answers to writes clients were shown

client == <<call, writes, view, told>>

Post    == 1..MaxWrites \* the text of an article, told apart by when it was issued
Writing == {"POST", "REPLY"}
Ops     == Writing \cup {"none", "READ"}
NoCall  == [op |-> "none", server |-> Primary, repID |-> NewPost, post |-> 0]

ClientInit ==
    /\ call = [c \in Clients |-> NoCall]
    /\ writes = 0
    /\ view = [c \in Clients |-> <<>>]
    /\ told = {}

Issue(c, request) ==
    /\ call[c] = NoCall
    /\ call' = [call EXCEPT ![c] = request]
    /\ UNCHANGED <<view, told>>

Write(c, s, op, repID) ==
    /\ writes < MaxWrites
    /\ writes' = writes + 1
    /\ Issue(c, [op |-> op, server |-> s, repID |-> repID, post |-> writes'])

ClientPost(c, s) == Write(c, s, "POST", NewPost)

\* The user types the number of an article on display, or a stray one.
ClientReply(c, s, id) ==
    id \in DOMAIN view[c] \cup StrayIDs /\ Write(c, s, "REPLY", id)

ClientRead(c, s) ==
    /\ Issue(c, [op |-> "READ", server |-> s, repID |-> NewPost, post |-> 0])
    /\ UNCHANGED writes

ClientAction == \E c \in Clients, s \in Servers :
    \/ ClientPost(c, s)
    \/ ClientRead(c, s)
    \/ \E id \in DOMAIN view[c] \cup StrayIDs : ClientReply(c, s, id)

\* communicate_request returns: the verdict on a write ...
Tell(c, ok) ==
    /\ told' = told \cup {[client |-> c, post |-> call[c].post, ok |-> ok]}
    /\ call' = [call EXCEPT ![c] = NoCall]
    /\ UNCHANGED <<writes, view>>

\* ... or a board, which loadReadContent numbers 1, 2, 3, ...
Show(c, board) ==
    /\ view' = [view EXCEPT ![c] = Sent(board)]
    /\ call' = [call EXCEPT ![c] = NoCall]
    /\ UNCHANGED <<writes, told>>

ClientTypeOK ==
    /\ call \in [Clients -> [op : Ops, server : Servers, repID : RepID,
                             post : 0..MaxWrites]]
    /\ \A c \in Clients : call[c].op \in Writing => call[c].post \in Post
    /\ writes \in 0..MaxWrites
    /\ view \in [Clients -> Seq([post : Post, hierachy : Nat])]
    /\ told \subseteq [client : Clients, post : Post, ok : BOOLEAN]
============================================================================
