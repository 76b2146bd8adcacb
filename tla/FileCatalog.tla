----------------------------- MODULE FileCatalog -----------------------------
(* Project3, the peers (Client/client.cpp) as users of the tracking server:    *)
(* StartUp, UpdateList, Find and the heartbeat thread, with peers and server   *)
(* that go down and come back.                                                 *)
(*                                                                             *)
(* Communicate sends a request, binds the port for its answer and waits 10     *)
(* seconds.  The main thread and the heartbeat thread use the same ports: the  *)
(* second one to bind fails at once, and the one that waits takes whatever     *)
(* answer comes first.  An answer that comes before the port is bound counts   *)
(* as lost here, one that comes after the 10 seconds as late.                  *)
EXTENDS TrackingServer

CONSTANTS
    global,       \* "global.txt", in the shared directory of every peer
    Share,        \* Share[p]: what p has in that directory at first
    MaxStarts,    \* MaxStarts[p]: how often p is started
    MaxLost,      \* datagrams lost
    MaxLate,      \* answers that take more than 10 seconds
    QuickRestart, \* TRUE: the server may be back before a peer notices
    Overlap       \* TRUE: both threads of a peer may be in Communicate

ASSUME CatalogAssumption ==
    /\ global \in Files
    /\ Share \in [Peers -> SUBSET Files] /\ \A p \in Peers : global \in Share[p]
    /\ MaxStarts \in [Peers -> Nat] /\ MaxLost \in Nat /\ MaxLate \in Nat
    /\ QuickRestart \in BOOLEAN /\ Overlap \in BOOLEAN

VARIABLES
    starts,        \* starts[p]: how often p was started
    disk,          \* disk[p]: the files in its shared directory
    localFileList, \* what it reports: the directory when it started
    online,        \* is_trackingServer_online
    thread,        \* thread[p][t]: where thread t of p is
    aborted,       \* peers ended by an exception nobody catches
    lost, late

peer == <<starts, disk, localFileList, online, thread, aborted, lost, late>>
vars == <<tracker, peer>>

\* A thread: where it is, whether it waits, for what, and the last answer.
None == [text |-> "none", files |-> {}, nodes |-> {}]
Fail == [None EXCEPT !.text = ""]
At(pos) == [pos |-> pos, waiting |-> FALSE, op |-> "HEARTBEAT", answer |-> None]

Down == [t \in Threads |-> At("down")]

Up(p) == thread[p] # Down

Init ==
    /\ TrackerInit
    /\ starts = [p \in Peers |-> 0]
    /\ disk = Share
    /\ localFileList = [p \in Peers |-> {}]
    /\ online = [p \in Peers |-> FALSE] \* not initialized, but set before it is read
    /\ thread = [p \in Peers |-> Down]
    /\ aborted = {} /\ lost = 0 /\ late = 0

----------------------------------------------------------------------------
(* Communicate.                                                               *)

\* The port of the answer is bound by another thread.
Busy(p, t, op) == \E u \in Threads \ {t} : thread[p][u].waiting /\ thread[p][u].op = op

\* The calls of the threads, one thread at a time without Overlap.
Free(p, t) == Overlap \/ \A u \in Threads \ {t} : thread[p][u].pos \in {"down", "idle", "fetch"}

CallingAnew(p, t, pos, op) == \* mutant: what was received is not cleared
    [thread[p][t] EXCEPT !.pos = pos, !.waiting = TRUE, !.op = op]
Calling(p, t, pos, op) ==
    [pos |-> pos, waiting |-> ~Busy(p, t, op), op |-> op,
     answer |-> IF Busy(p, t, op) THEN Fail ELSE None]

Send(p, t, op, files) ==
    requests' = IF serverUp
                THEN requests \cup {[op |-> op, peer |-> p, by |-> t, files |-> files]}
                ELSE requests

Communicate(p, t, pos, op, files) ==
    /\ thread' = [thread EXCEPT ![p][t] = Calling(p, t, pos, op)]
    /\ Send(p, t, op, files)
    /\ UNCHANGED <<serverUp, crashes, fileList, adding, replies>>

\* An answer reaches the thread that waits on the port.
Text(m) == IF m.op = "FIND" THEN "nodes" ELSE "SUCCESS"

Receive(p, t, m) ==
    /\ thread[p][t].waiting
    /\ m \in replies /\ m.peer = p /\ m.op = thread[p][t].op
    /\ replies' = replies \ {m}
    /\ thread' = [thread EXCEPT ![p][t].waiting = FALSE,
                    ![p][t].answer = [text |-> Text(m), files |-> m.files,
                                      nodes |-> m.nodes]]
    /\ UNCHANGED <<serverUp, crashes, fileList, adding, requests,
                   starts, disk, localFileList, online, aborted, lost, late>>

\* Ten seconds without an answer: nothing answers any more, or too late.
Answerable(p, t) ==
    \/ \E r \in requests : r.peer = p /\ r.by = t
    \/ adding.peer = p /\ adding.by = t
    \/ \E m \in replies : m.peer = p /\ m.op = thread[p][t].op

Timeout(p, t) ==
    /\ thread[p][t].waiting
    /\ IF Answerable(p, t) THEN late < MaxLate /\ late' = late + 1 ELSE late' = late
    /\ thread' = [thread EXCEPT ![p][t].waiting = FALSE, ![p][t].answer = Fail]
    /\ UNCHANGED <<tracker, starts, disk, localFileList, online, aborted, lost>>

\* Nobody waits on the port of an answer, or a datagram is lost.
Unbound(m) == \A t \in Threads : ~(thread[m.peer][t].waiting /\ thread[m.peer][t].op = m.op)

Discard(m) ==
    /\ m \in replies /\ Unbound(m)
    /\ replies' = replies \ {m}
    /\ UNCHANGED <<serverUp, crashes, fileList, adding, requests, peer>>

Lose ==
    /\ lost < MaxLost /\ lost' = lost + 1
    /\ \/ \E r \in requests : requests' = requests \ {r} /\ UNCHANGED replies
       \/ \E m \in replies : replies' = replies \ {m} /\ UNCHANGED requests
    /\ UNCHANGED <<serverUp, crashes, fileList, adding,
                   starts, disk, localFileList, online, thread, aborted, late>>

----------------------------------------------------------------------------
(* The main thread.                                                           *)

\* The call of thread t at pos is over, with an answer.
Done(p, t, pos) == thread[p][t].pos = pos /\ ~thread[p][t].waiting
Answer(p, t) == thread[p][t].answer

Move(p, t, pos) == thread' = [thread EXCEPT ![p][t] = At(pos)]

\* StartUp: LoadFileList, then UpdateList before the other threads exist.  A
\* peer comes back quickly, or once nothing of its last run is in flight.
StartUp(p) ==
    /\ ~Up(p) /\ starts[p] < MaxStarts[p]
    /\ QuickRestart \/ \A m \in requests \cup replies \cup {adding} : m.peer # p
    /\ starts' = [starts EXCEPT ![p] = @ + 1]
    /\ localFileList' = [localFileList EXCEPT ![p] = disk[p]]
    /\ Communicate(p, "main", "startup", "UPDATELIST", disk[p])
    /\ UNCHANGED <<disk, online, aborted, lost, late>>

\* UpdateList, after its Communicate.
OnlineOnly(p, a) == a.text = "SUCCESS" \/ online[p] \* mutant: failure is ignored
Online(p, a) == a.text = "SUCCESS" \/ (a.text # "" /\ online[p])

Started(p) ==
    /\ Done(p, "main", "startup")
    /\ online' = [online EXCEPT ![p] = Online(p, Answer(p, "main"))]
    /\ thread' = [thread EXCEPT ![p] = [t \in Threads |-> At("idle")]]
    /\ UNCHANGED <<tracker, starts, disk, localFileList, aborted, lost, late>>

Command(p) == thread[p]["main"].pos = "idle" /\ Free(p, "main")

UpdateList(p) ==
    /\ Command(p)
    /\ Communicate(p, "main", "update", "UPDATELIST", localFileList[p])
    /\ UNCHANGED <<starts, disk, localFileList, online, aborted, lost, late>>

ListUpdated(p) ==
    /\ Done(p, "main", "update")
    /\ online' = [online EXCEPT ![p] = Online(p, Answer(p, "main"))]
    /\ Move(p, "main", "idle")
    /\ UNCHANGED <<tracker, starts, disk, localFileList, aborted, lost, late>>

\* "find", and the Find that Download begins with.
Find(p, f) ==
    /\ Command(p)
    /\ Communicate(p, "main", "find", "FIND", {f})
    /\ UNCHANGED <<starts, disk, localFileList, online, aborted, lost, late>>

Found(p) ==
    /\ Done(p, "main", "find")
    /\ LET a == Answer(p, "main")
       IN  \/ Move(p, "main", "idle")
           \/ /\ a.text = "nodes" /\ a.nodes # {}
              /\ thread' = [thread EXCEPT ![p]["main"] =
                              [At("fetch") EXCEPT !.answer = a]]
    /\ UNCHANGED <<tracker, starts, disk, localFileList, online, aborted, lost, late>>

\* The rest of Download, which PeerDownload models: the file is written to the
\* directory, and UpdateList reports localFileList, which does not have it.
Fetched(p) ==
    /\ thread[p]["main"].pos = "fetch" /\ Free(p, "main")
    /\ disk' = [disk EXCEPT ![p] = @ \cup thread[p]["main"].answer.files]
    /\ Communicate(p, "main", "update", "UPDATELIST", localFileList[p])
    /\ UNCHANGED <<starts, localFileList, online, aborted, lost, late>>

----------------------------------------------------------------------------
(* The heartbeat thread.                                                      *)

Ping(p, pos) == Communicate(p, "heartbeat", pos, "HEARTBEAT", {})

Wake(p) ==
    /\ thread[p]["heartbeat"].pos = "idle" /\ Free(p, "heartbeat")
    /\ Ping(p, IF online[p] THEN "ping" ELSE "reconnect")
    /\ UNCHANGED <<starts, disk, localFileList, online, aborted, lost, late>>

\* The second half of the loop, for a server that is taken to be online.
PingOrSleep(p, isOnline) ==
    IF isOnline THEN Ping(p, "ping") ELSE Move(p, "heartbeat", "idle") /\ UNCHANGED tracker

\* The server is back: the list is sent again.
ResendNothing(p) == Ping(p, "ping") \* mutant: without UpdateList
Resend(p) == Communicate(p, "heartbeat", "update", "UPDATELIST", localFileList[p])

Reconnected(p) ==
    /\ Done(p, "heartbeat", "reconnect")
    /\ IF Answer(p, "heartbeat").text = "SUCCESS"
       THEN /\ online' = [online EXCEPT ![p] = TRUE]
            /\ Resend(p)
       ELSE /\ PingOrSleep(p, online[p])
            /\ UNCHANGED online
    /\ UNCHANGED <<starts, disk, localFileList, aborted, lost, late>>

Resent(p) ==
    /\ Done(p, "heartbeat", "update")
    /\ online' = [online EXCEPT ![p] = Online(p, Answer(p, "heartbeat"))]
    /\ PingOrSleep(p, online'[p])
    /\ UNCHANGED <<starts, disk, localFileList, aborted, lost, late>>

Pinged(p) ==
    /\ Done(p, "heartbeat", "ping")
    /\ IF Answer(p, "heartbeat").text = "SUCCESS"
       THEN /\ Communicate(p, "heartbeat", "find", "FIND", {global})
            /\ UNCHANGED online
       ELSE /\ online' = [online EXCEPT ![p] = FALSE]
            /\ Move(p, "heartbeat", "idle")
            /\ UNCHANGED tracker
    /\ UNCHANGED <<starts, disk, localFileList, aborted, lost, late>>

\* LoadGlobalNodeInfo: LoadServerInfo takes "EMPTY" for the number of a node,
\* and the exception of stoi ends the process.
Aborts(a) == a.text = "nodes" /\ a.nodes = {}

GlobalLoaded(p) ==
    /\ Done(p, "heartbeat", "find")
    /\ IF Aborts(Answer(p, "heartbeat"))
       THEN /\ thread' = [thread EXCEPT ![p] = Down]
            /\ aborted' = aborted \cup {p}
       ELSE /\ Move(p, "heartbeat", "idle")
            /\ UNCHANGED aborted
    /\ UNCHANGED <<tracker, starts, disk, localFileList, online, lost, late>>

\* The process is killed, or its host fails.  The command exit does not end it: it
\* ends the command loop, and main waits for threads that run on.
Stop(p) ==
    /\ Up(p) /\ starts[p] < MaxStarts[p]
    /\ thread' = [thread EXCEPT ![p] = Down]
    /\ UNCHANGED <<tracker, starts, disk, localFileList, online, aborted, lost, late>>

----------------------------------------------------------------------------
CommunicateStep(p) ==
    \E t \in Threads : Timeout(p, t) \/ \E m \in replies : Receive(p, t, m)

MainStep(p) ==
    \/ StartUp(p) \/ Started(p) \/ UpdateList(p) \/ ListUpdated(p)
    \/ (\E f \in Files : Find(p, f)) \/ Found(p) \/ Fetched(p)

HeartbeatStep(p) ==
    Wake(p) \/ Reconnected(p) \/ Resent(p) \/ Pinged(p) \/ GlobalLoaded(p)

\* The operator restarts the server; quickly, or once no answer from before is
\* left and every peer has noticed.
Noticed(p) ==
    /\ ~Up(p) \/ ~online[p]
    /\ \A t \in Threads : thread[p][t].answer.text # "SUCCESS"

RestartServer ==
    /\ QuickRestart \/ (replies = {} /\ \A p \in Peers : Noticed(p))
    /\ Restart

Next ==
    \/ (ServerStep \/ Crash \/ RestartServer) /\ UNCHANGED peer
    \/ \E p \in Peers :
         CommunicateStep(p) \/ MainStep(p) \/ HeartbeatStep(p) \/ Stop(p)
    \/ \E m \in replies : Discard(m)
    \/ Lose

Spec == Init /\ [][Next]_vars

\* A request of p reaches the thread of the server that waits for it.
Serves(p, Handle(_)) == \E r \in requests : r.peer = p /\ Handle(r) /\ UNCHANGED peer
ServesFind(p) == Serves(p, FindRes)
ServesList(p) == Serves(p, RecvList)
ServesPing(p) == Serves(p, Heartbeat)

\* The threads of the server run in loops around recvfrom, and a socket hands
\* out its datagrams in order; those of a peer are held up by Communicate only,
\* for 10 seconds at most, and commands leave the heartbeat thread its turns.
\* Nothing is assumed of users and operators.
FairSpec ==
    /\ Spec
    /\ WF_vars(((\E g \in adding.files : PushFile(g)) \/ Updated) /\ UNCHANGED peer)
    /\ \A p \in Peers :
         /\ WF_vars(ServesFind(p)) /\ SF_vars(ServesList(p)) /\ WF_vars(ServesPing(p))
         /\ WF_vars(CommunicateStep(p))
         /\ WF_vars(Started(p) \/ ListUpdated(p) \/ Found(p))
         /\ SF_vars(HeartbeatStep(p))

----------------------------------------------------------------------------
(* Properties.                                                                *)

Texts == {"none", "", "SUCCESS", "nodes"}
Pos == {"down", "startup", "idle", "update", "find", "fetch", "reconnect", "ping"}

\* Shapes; a thread whose call failed or was answered waits no more.
TypeOK ==
    /\ TrackerTypeOK
    /\ starts \in [Peers -> Nat] /\ \A p \in Peers : starts[p] <= MaxStarts[p]
    /\ disk \in [Peers -> SUBSET Files] /\ localFileList \in [Peers -> SUBSET Files]
    /\ online \in [Peers -> BOOLEAN]
    /\ thread \in [Peers -> [Threads -> [pos : Pos, waiting : BOOLEAN, op : Ops,
         answer : [text : Texts, files : SUBSET Files, nodes : SUBSET Peers]]]]
    /\ aborted \subseteq Peers /\ lost \in 0..MaxLost /\ late \in 0..MaxLate
    /\ \A p \in Peers, t \in Threads :
         thread[p][t].waiting => thread[p][t].answer = None

\* A peer is never ended by an answer of the server: what it finds on the
\* server when its heartbeat is answered includes its own list.
PeersSurvive == aborted = {}

\* A peer that takes the server to be online is on the list of a server that is
\* up, with every file it reports, except while it is sending them.
Settled(p) == thread[p]["main"].pos # "startup" /\ thread[p]["heartbeat"].pos # "update"

OnlineIsListed ==
    \A p \in Peers : serverUp /\ Up(p) /\ online[p] /\ Settled(p) =>
        localFileList[p] \subseteq fileList[p]

\* Once the server stays up, every peer that stays up is on its list for good.
Relisted ==
    \A p \in Peers :
        <>[](serverUp /\ Up(p)) => <>[](localFileList[p] \subseteq fileList[p])
============================================================================
