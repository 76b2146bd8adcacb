--------------------------- MODULE TrackingServer ---------------------------
(* Project3/Server/server.cpp: who holds which file.  Three threads serve      *)
(* UPDATELIST, FIND and HEARTBEAT, each on a port of its own, over one         *)
(* clientInfoList without a lock, which is in memory only.                     *)
(*                                                                             *)
(* A client that is listed without a file is as good as not listed: the list   *)
(* is a function from clients to the names in their fileList.  A name that is  *)
(* pushed again counts once, since only find_if looks at it.                   *)
EXTENDS Naturals, FiniteSets

CONSTANTS
    Peers, Files,
    NoPeer,
    MaxCrashes \* how often the server crashes

ASSUME TrackingAssumption ==
    /\ IsFiniteSet(Peers) /\ IsFiniteSet(Files)
    /\ NoPeer \notin Peers /\ MaxCrashes \in Nat

VARIABLES
    serverUp, crashes,
    fileList, \* fileList[p]: the files listed for client p
    adding,   \* what the UPDATELIST thread still has to push
    requests, replies \* datagrams in flight to and from the server

tracker == <<serverUp, crashes, fileList, adding, requests, replies>>

Ops == {"FIND", "UPDATELIST", "HEARTBEAT"}
Threads == {"main", "heartbeat"} \* of a peer

Request == [op : Ops, peer : Peers, by : Threads, files : SUBSET Files]

\* An answer goes to a port of the peer, and there is one port for each
\* operation: "by" tells requests apart and is not in the datagram.
Reply == [op : Ops, peer : Peers, by : Threads, files : SUBSET Files,
          nodes : SUBSET Peers]

NotAdding == [peer |-> NoPeer, by |-> "main", files |-> {}]

TrackerInit ==
    /\ serverUp = TRUE /\ crashes = 0
    /\ fileList = [p \in Peers |-> {}]
    /\ adding = NotAdding
    /\ requests = {} /\ replies = {}

AnswerTo(r, nodes) ==
    replies' = replies \cup {[op |-> r.op, peer |-> r.peer, by |-> r.by,
                              files |-> r.files, nodes |-> nodes]}

----------------------------------------------------------------------------
\* FIND carries one file name.  No holder is answered "EMPTY".
Holders(files) == {p \in Peers : files \subseteq fileList[p]}

FindRes(r) ==
    /\ r \in requests /\ r.op = "FIND"
    /\ requests' = requests \ {r}
    /\ AnswerTo(r, Holders(r.files))
    /\ UNCHANGED <<serverUp, crashes, fileList, adding>>

\* UPDATELIST: the client is found or added first, then file by file is pushed,
\* while the FIND thread may be looking; then "SUCCESS".
RecvList(r) ==
    /\ r \in requests /\ r.op = "UPDATELIST" /\ adding = NotAdding
    /\ requests' = requests \ {r}
    /\ adding' = [peer |-> r.peer, by |-> r.by, files |-> r.files]
    /\ UNCHANGED <<serverUp, crashes, fileList, replies>>

Push(f) == fileList[adding.peer] \cup {f}

PushFile(f) ==
    /\ f \in adding.files
    /\ fileList' = [fileList EXCEPT ![adding.peer] = Push(f)]
    /\ adding' = [adding EXCEPT !.files = @ \ {f}]
    /\ UNCHANGED <<serverUp, crashes, requests, replies>>

Updated ==
    /\ adding # NotAdding /\ adding.files = {}
    /\ adding' = NotAdding
    /\ AnswerTo([op |-> "UPDATELIST", peer |-> adding.peer, by |-> adding.by,
                 files |-> {}], {})
    /\ UNCHANGED <<serverUp, crashes, fileList, requests>>

Heartbeat(r) ==
    /\ r \in requests /\ r.op = "HEARTBEAT"
    /\ requests' = requests \ {r}
    /\ AnswerTo(r, {})
    /\ UNCHANGED <<serverUp, crashes, fileList, adding>>

ServerStep ==
    \/ \E r \in requests : FindRes(r) \/ RecvList(r) \/ Heartbeat(r)
    \/ \E f \in adding.files : PushFile(f)
    \/ Updated

----------------------------------------------------------------------------
\* The process ends, and with it the list and the datagrams in its sockets.
Crash ==
    /\ serverUp /\ crashes < MaxCrashes
    /\ serverUp' = FALSE
    /\ crashes' = crashes + 1
    /\ fileList' = [p \in Peers |-> {}]
    /\ adding' = NotAdding
    /\ requests' = {}
    /\ UNCHANGED replies

Restart ==
    /\ ~serverUp
    /\ serverUp' = TRUE
    /\ UNCHANGED <<crashes, fileList, adding, requests, replies>>

TrackerTypeOK ==
    /\ serverUp \in BOOLEAN /\ crashes \in 0..MaxCrashes
    /\ fileList \in [Peers -> SUBSET Files]
    /\ adding \in [peer : Peers \cup {NoPeer}, by : Threads, files : SUBSET Files]
    /\ requests \subseteq Request /\ replies \subseteq Reply
============================================================================
