-------------------------- MODULE FileCatalog_proofs --------------------------
(* Proofs about FileCatalog, for any peers, files and shares, any number of    *)
(* starts, crashes and lost datagrams.                                         *)
EXTENDS FileCatalog, TLAPS

\* "SUCCESS" of UPDATELIST goes to a peer.
AddsForPeer == adding # NotAdding => adding.peer \in Peers

----------------------------------------------------------------------------
(* The inductive invariant for a peer whose threads call one at a time.       *)

Rest == {"down", "idle", "fetch"}
Waits(p, t, op) == thread[p][t].waiting /\ thread[p][t].op = op

OneCall(p) ==
    \A t, u \in Threads :
        t # u /\ thread[p][t].pos \notin Rest => thread[p][u].pos \in Rest

\* What a thread calls, where it is, and which answers it may have.
CallShape(p) == \A t \in Threads :
    LET th == thread[p][t]
    IN  /\ th.pos \in Rest => ~th.waiting
        /\ th.pos \in {"startup", "update"} => th.op = "UPDATELIST"
        /\ th.pos = "find" => th.op = "FIND"
        /\ th.pos \in {"ping", "reconnect"} => th.op = "HEARTBEAT"
        /\ th.pos \notin Rest /\ ~th.waiting =>
             th.answer.text \in {"", IF th.op = "FIND" THEN "nodes" ELSE "SUCCESS"}

\* Of a peer at most one datagram or update is in flight, and the thread it is
\* for waits, or the peer is down.
InFlight ==
    /\ \A r \in requests :
         /\ Up(r.peer) => Waits(r.peer, r.by, r.op)
         /\ \A q \in requests : q.peer = r.peer => q = r
         /\ adding.peer # r.peer
         /\ \A m \in replies : m.peer # r.peer
    /\ adding # NotAdding =>
         /\ Up(adding.peer) => Waits(adding.peer, adding.by, "UPDATELIST")
         /\ \A m \in replies : m.peer # adding.peer
    /\ \A m \in replies :
         /\ Up(m.peer) => Waits(m.peer, m.by, m.op)
         /\ \A n \in replies : n.peer = m.peer => n = m

OfServer == requests # {} \/ adding # NotAdding => serverUp

\* What the requests of a peer that is up carry.
Carried ==
    \A r \in requests : Up(r.peer) =>
        /\ r.op = "UPDATELIST" => r.files = localFileList[r.peer]
        /\ r.op = "FIND" /\ r.by = "heartbeat" => r.files = {global}

Listed(p) == serverUp => localFileList[p] \subseteq fileList[p]

\* "SUCCESS" is said of a list that is there as long as the server is, and the
\* heartbeat looks for the global file only while its peer is listed with it.
Told ==
    /\ adding # NotAdding /\ Up(adding.peer) =>
         localFileList[adding.peer] \subseteq fileList[adding.peer] \cup adding.files
    /\ \A m \in replies : Up(m.peer) =>
         /\ m.op = "UPDATELIST" => Listed(m.peer)
         /\ m.op = "FIND" /\ m.by = "heartbeat" => m.peer \in m.nodes

Knows(p) ==
    /\ \A t \in Threads :
         /\ thread[p][t].pos \in {"startup", "update"}
         /\ thread[p][t].answer.text = "SUCCESS"
         => Listed(p)
    /\ thread[p]["heartbeat"].pos = "find" /\ thread[p]["heartbeat"].answer.text = "nodes"
         => p \in thread[p]["heartbeat"].answer.nodes
    /\ thread[p]["heartbeat"].pos \in {"ping", "find"} => online[p]

Shares ==
    \A p \in Peers : global \in disk[p] /\ (Up(p) => global \in localFileList[p])

IInv ==
    /\ TypeOK /\ AddsForPeer
    /\ InFlight /\ OfServer /\ Carried /\ Told /\ Shares
    /\ \A p \in Peers : OneCall(p) /\ CallShape(p) /\ Knows(p)
    /\ OnlineIsListed /\ PeersSurvive

----------------------------------------------------------------------------
(* Types.                                                                     *)

TInv == TypeOK /\ AddsForPeer

Thread == [pos : Pos, waiting : BOOLEAN, op : Ops,
           answer : [text : Texts, files : SUBSET Files, nodes : SUBSET Peers]]

LEMMA ThreadTypes ==
    ASSUME TInv
    PROVE  /\ thread \in [Peers -> [Threads -> Thread]]
           /\ \A p \in Peers : Down \in [Threads -> Thread]
           /\ \A pos \in Pos : At(pos) \in Thread
           /\ None \in [text : Texts, files : SUBSET Files, nodes : SUBSET Peers]
           /\ Fail \in [text : Texts, files : SUBSET Files, nodes : SUBSET Peers]
<1>1. /\ None \in [text : Texts, files : SUBSET Files, nodes : SUBSET Peers]
      /\ Fail \in [text : Texts, files : SUBSET Files, nodes : SUBSET Peers]
  BY DEF None, Fail, Texts
<1>2. \A pos \in Pos : At(pos) \in Thread
  BY <1>1 DEF At, Thread, Ops
<1>3. Down \in [Threads -> Thread]
  BY <1>2 DEF Down, Pos
<1>4. QED
  BY <1>1, <1>2, <1>3 DEF TInv, TypeOK, Thread

\* What one thread becomes.
LEMMA ThreadStep ==
    ASSUME TInv, NEW p \in Peers, NEW t \in Threads, NEW th \in Thread,
           th.waiting => th.answer = None,
           thread' = [thread EXCEPT ![p][t] = th]
    PROVE  /\ thread' \in [Peers -> [Threads -> Thread]]
           /\ thread'[p][t] = th
           /\ \A u \in Threads \ {t} : thread'[p][u] = thread[p][u]
           /\ \A q \in Peers \ {p} : thread'[q] = thread[q]
           /\ \A q \in Peers, u \in Threads :
                thread'[q][u].waiting => thread'[q][u].answer = None
<1>1. thread \in [Peers -> [Threads -> Thread]]
  BY ThreadTypes
<1>2. \A q \in Peers, u \in Threads : thread[q][u].waiting => thread[q][u].answer = None
  BY DEF TInv, TypeOK
<1>3. /\ thread'[p][t] = th
      /\ \A u \in Threads \ {t} : thread'[p][u] = thread[p][u]
      /\ \A q \in Peers \ {p} : thread'[q] = thread[q]
  BY <1>1
<1>4. thread' \in [Peers -> [Threads -> Thread]]
  BY <1>1
<1>5. QED
  BY <1>2, <1>3, <1>4

\* Only the threads change, and numbers within their bounds.
LEMMA PeerTypes ==
    ASSUME TInv, UNCHANGED <<serverUp, crashes, fileList, adding>>,
           requests' \subseteq Request, replies' \subseteq Reply,
           starts' \in [Peers -> Nat], \A p \in Peers : starts'[p] <= MaxStarts[p],
           disk' \in [Peers -> SUBSET Files],
           localFileList' \in [Peers -> SUBSET Files],
           online' \in [Peers -> BOOLEAN],
           thread' \in [Peers -> [Threads -> Thread]],
           \A p \in Peers, t \in Threads :
              thread'[p][t].waiting => thread'[p][t].answer = None,
           aborted' \subseteq Peers, lost' \in 0..MaxLost, late' \in 0..MaxLate
    PROVE  TInv'
BY DEF TInv, AddsForPeer, TypeOK, TrackerTypeOK, Thread, NotAdding

LEMMA CallTypes ==
    ASSUME TInv, NEW p \in Peers, NEW t \in Threads, NEW pos \in Pos, NEW op \in Ops,
           NEW files \in SUBSET Files, Communicate(p, t, pos, op, files)
    PROVE  /\ UNCHANGED <<serverUp, crashes, fileList, adding, replies>>
           /\ requests' \subseteq Request
           /\ thread' = [thread EXCEPT ![p][t] = Calling(p, t, pos, op)]
           /\ Calling(p, t, pos, op) \in Thread
           /\ Calling(p, t, pos, op).waiting => Calling(p, t, pos, op).answer = None
<1>1. Busy(p, t, op) \in BOOLEAN
  BY DEF Busy
<1>2. Calling(p, t, pos, op) \in Thread
      /\ (Calling(p, t, pos, op).waiting => Calling(p, t, pos, op).answer = None)
  BY <1>1, ThreadTypes DEF Calling, Thread
<1>3. requests' \subseteq Request
  BY DEF Communicate, Send, TInv, TypeOK, TrackerTypeOK, Request
<1>4. QED
  BY <1>2, <1>3 DEF Communicate

\* A step of one thread.
LEMMA OneThreadTypes ==
    ASSUME TInv, NEW p \in Peers, NEW t \in Threads, NEW th \in Thread,
           th.waiting => th.answer = None,
           thread' = [thread EXCEPT ![p][t] = th],
           UNCHANGED <<serverUp, crashes, fileList, adding>>,
           requests' \subseteq Request, replies' \subseteq Reply,
           UNCHANGED <<starts, localFileList, aborted, lost>>,
           disk' \in [Peers -> SUBSET Files], online' \in [Peers -> BOOLEAN],
           late' \in 0..MaxLate
    PROVE  TInv'
<1>1. /\ thread' \in [Peers -> [Threads -> Thread]]
      /\ \A q \in Peers, u \in Threads :
           thread'[q][u].waiting => thread'[q][u].answer = None
  BY ThreadStep
<1>2. /\ starts' \in [Peers -> Nat] /\ \A q \in Peers : starts'[q] <= MaxStarts[q]
      /\ localFileList' \in [Peers -> SUBSET Files]
      /\ aborted' \subseteq Peers /\ lost' \in 0..MaxLost
  BY DEF TInv, TypeOK
<1>3. QED
  BY <1>1, <1>2, PeerTypes

\* A thread makes a call.
LEMMA CallingTypes ==
    ASSUME TInv, NEW p \in Peers, NEW t \in Threads, NEW pos \in Pos, NEW op \in Ops,
           NEW files \in SUBSET Files, Communicate(p, t, pos, op, files),
           UNCHANGED <<starts, localFileList, aborted, lost, late>>,
           disk' \in [Peers -> SUBSET Files], online' \in [Peers -> BOOLEAN]
    PROVE  TInv'
<1>1. /\ UNCHANGED <<serverUp, crashes, fileList, adding, replies>>
      /\ requests' \subseteq Request
      /\ thread' = [thread EXCEPT ![p][t] = Calling(p, t, pos, op)]
      /\ Calling(p, t, pos, op) \in Thread
      /\ Calling(p, t, pos, op).waiting => Calling(p, t, pos, op).answer = None
  BY CallTypes
<1>2. replies' \subseteq Reply /\ late' \in 0..MaxLate
  BY <1>1 DEF TInv, TypeOK, TrackerTypeOK
<1>3. QED
  BY <1>1, <1>2, OneThreadTypes

\* A thread goes to another place.
LEMMA MovingTypes ==
    ASSUME TInv, NEW p \in Peers, NEW t \in Threads, NEW th \in Thread, ~th.waiting,
           thread' = [thread EXCEPT ![p][t] = th], UNCHANGED tracker,
           UNCHANGED <<starts, disk, localFileList, aborted, lost>>,
           online' \in [Peers -> BOOLEAN], late' \in 0..MaxLate
    PROVE  TInv'
<1>1. /\ UNCHANGED <<serverUp, crashes, fileList, adding>>
      /\ requests' \subseteq Request /\ replies' \subseteq Reply
      /\ disk' \in [Peers -> SUBSET Files]
  BY DEF tracker, TInv, TypeOK, TrackerTypeOK
<1>2. QED
  BY <1>1, OneThreadTypes

LEMMA StopTypes ==
    ASSUME TInv, NEW p \in Peers, NEW ths \in [Threads -> Thread],
           \A t \in Threads : ~ths[t].waiting,
           thread' = [thread EXCEPT ![p] = ths], UNCHANGED tracker,
           UNCHANGED <<starts, disk, localFileList, lost, late>>,
           online' \in [Peers -> BOOLEAN], aborted' \subseteq Peers
    PROVE  TInv'
<1>1. /\ UNCHANGED <<serverUp, crashes, fileList, adding>>
      /\ requests' \subseteq Request /\ replies' \subseteq Reply
      /\ starts' \in [Peers -> Nat] /\ \A q \in Peers : starts'[q] <= MaxStarts[q]
      /\ disk' \in [Peers -> SUBSET Files]
      /\ localFileList' \in [Peers -> SUBSET Files]
      /\ lost' \in 0..MaxLost /\ late' \in 0..MaxLate
  BY DEF tracker, TInv, TypeOK, TrackerTypeOK
<1>2. /\ thread' \in [Peers -> [Threads -> Thread]]
      /\ \A q \in Peers, u \in Threads :
           thread'[q][u].waiting => thread'[q][u].answer = None
  <2>1. thread \in [Peers -> [Threads -> Thread]]
    BY ThreadTypes
  <2>2. \A q \in Peers, u \in Threads : thread[q][u].waiting => thread[q][u].answer = None
    BY DEF TInv, TypeOK
  <2>3. thread'[p] = ths /\ \A q \in Peers \ {p} : thread'[q] = thread[q]
    BY <2>1
  <2>4. QED
    BY <2>1, <2>2, <2>3
<1>3. QED
  BY <1>1, <1>2, PeerTypes

LEMMA ServerTypes ==
    ASSUME TInv, ServerStep \/ Crash \/ RestartServer, UNCHANGED peer
    PROVE  TInv'
<1>1. /\ serverUp \in BOOLEAN /\ crashes \in 0..MaxCrashes
      /\ fileList \in [Peers -> SUBSET Files]
      /\ adding \in [peer : Peers \cup {NoPeer}, by : Threads, files : SUBSET Files]
      /\ requests \subseteq Request /\ replies \subseteq Reply
      /\ adding # NotAdding => adding.peer \in Peers
  BY DEF TInv, TypeOK, TrackerTypeOK, AddsForPeer
<1>2. SUFFICES TrackerTypeOK' /\ AddsForPeer'
  BY DEF TInv, TypeOK, peer
<1>3. CASE \E r \in requests : FindRes(r) \/ Heartbeat(r)
  <2>1. PICK r \in requests : FindRes(r) \/ Heartbeat(r)
    BY <1>3
  <2>2. r \in Request /\ UNCHANGED <<serverUp, crashes, fileList, adding>>
        /\ requests' \subseteq Request
    BY <1>1, <2>1 DEF FindRes, Heartbeat
  <2>3. Holders(r.files) \subseteq Peers
    BY DEF Holders
  <2>4. \A nodes \in SUBSET Peers : AnswerTo(r, nodes) => replies' \subseteq Reply
    BY <1>1, <2>2 DEF AnswerTo, Request, Reply
  <2>5. replies' \subseteq Reply
    BY <2>1, <2>3, <2>4 DEF FindRes, Heartbeat
  <2>6. QED
    BY <1>1, <2>2, <2>5 DEF TrackerTypeOK, AddsForPeer
<1>4. CASE \E r \in requests : RecvList(r)
  <2>1. PICK r \in requests : RecvList(r)
    BY <1>4
  <2>2. /\ r \in Request /\ UNCHANGED <<serverUp, crashes, fileList, replies>>
        /\ requests' \subseteq Request
        /\ adding' = [peer |-> r.peer, by |-> r.by, files |-> r.files]
    BY <1>1, <2>1 DEF RecvList
  <2>3. QED
    BY <1>1, <2>2 DEF TrackerTypeOK, AddsForPeer, Request
<1>5. CASE \E f \in adding.files : PushFile(f)
  <2>1. PICK f \in adding.files : PushFile(f)
    BY <1>5
  <2>2. /\ UNCHANGED <<serverUp, crashes, requests, replies>>
        /\ fileList' = [fileList EXCEPT ![adding.peer] = Push(f)]
        /\ adding' = [adding EXCEPT !.files = @ \ {f}]
    BY <2>1 DEF PushFile
  <2>3. adding # NotAdding
    BY <2>1 DEF NotAdding
  <2>4. adding.peer \in Peers /\ f \in Files
    BY <1>1, <2>1, <2>3
  <2>5. Push(f) \subseteq Files
    BY <1>1, <2>4 DEF Push
  <2>6. fileList' \in [Peers -> SUBSET Files]
    BY <1>1, <2>2, <2>4, <2>5
  <2>7. /\ adding' \in [peer : Peers \cup {NoPeer}, by : Threads, files : SUBSET Files]
        /\ adding'.peer \in Peers
    BY <1>1, <2>2, <2>4
  <2>8. QED
    BY <1>1, <2>2, <2>6, <2>7 DEF TrackerTypeOK, AddsForPeer
<1>6. CASE Updated
  <2>1. /\ UNCHANGED <<serverUp, crashes, fileList, requests>>
        /\ adding' = NotAdding /\ adding.peer \in Peers
    BY <1>1, <1>6 DEF Updated
  <2>2. replies' = replies \cup {[op |-> "UPDATELIST", peer |-> adding.peer,
                                  by |-> adding.by, files |-> {}, nodes |-> {}]}
    BY <1>6 DEF Updated, AnswerTo
  <2>3. replies' \subseteq Reply
    BY <1>1, <2>1, <2>2 DEF Reply, Ops
  <2>4. QED
    BY <1>1, <2>1, <2>3 DEF TrackerTypeOK, AddsForPeer, NotAdding, Threads
<1>7. CASE Crash
  <2>1. crashes' \in 0..MaxCrashes
    BY <1>1, <1>7, TrackingAssumption DEF Crash
  <2>2. QED
    BY <1>1, <1>7, <2>1 DEF Crash, TrackerTypeOK, AddsForPeer, NotAdding, Threads
<1>8. CASE RestartServer
  BY <1>1, <1>8 DEF RestartServer, Restart, TrackerTypeOK, AddsForPeer
<1>9. QED
  BY <1>3, <1>4, <1>5, <1>6, <1>7, <1>8 DEF ServerStep

\* What a step that gives one thread a new state makes of it.
LEMMA OnlineTypes ==
    ASSUME TInv, NEW p \in Peers, NEW b \in BOOLEAN
    PROVE  /\ [online EXCEPT ![p] = b] \in [Peers -> BOOLEAN]
           /\ UNCHANGED online => online' \in [Peers -> BOOLEAN]
           /\ UNCHANGED disk => disk' \in [Peers -> SUBSET Files]
           /\ localFileList[p] \in SUBSET Files /\ disk[p] \in SUBSET Files
           /\ \A a : Online(p, a) \in BOOLEAN
           /\ online[p] \in BOOLEAN /\ late \in 0..MaxLate
           /\ UNCHANGED late => late' \in 0..MaxLate
           /\ UNCHANGED aborted => aborted' \subseteq Peers
BY DEF TInv, TypeOK, Online

LEMMA ReceiveTypes ==
    ASSUME TInv, NEW p \in Peers, NEW t \in Threads, NEW m \in replies,
           Receive(p, t, m)
    PROVE  TInv'
<1> DEFINE a == [text |-> Text(m), files |-> m.files, nodes |-> m.nodes]
           th == [thread[p][t] EXCEPT !.waiting = FALSE, !.answer = a]
<1>1. thread[p][t] \in Thread /\ m \in Reply /\ replies \subseteq Reply
      /\ requests \subseteq Request
      /\ thread \in [Peers -> [Threads -> Thread]]
  BY ThreadTypes DEF TInv, TypeOK, TrackerTypeOK
<1>2. a \in [text : Texts, files : SUBSET Files, nodes : SUBSET Peers]
  BY <1>1 DEF Text, Texts, Reply
<1>3. th \in Thread /\ ~th.waiting
  BY <1>1, <1>2 DEF Thread
<1>4. thread' = [thread EXCEPT ![p][t] = th]
  BY <1>1 DEF Receive, Thread
<1>5. /\ UNCHANGED <<serverUp, crashes, fileList, adding, requests>>
      /\ UNCHANGED <<starts, disk, localFileList, online, aborted, lost, late>>
      /\ replies' \subseteq replies
  BY DEF Receive
<1> HIDE DEF th
<1>6. QED
  BY <1>1, <1>3, <1>4, <1>5, OneThreadTypes, OnlineTypes

LEMMA TimeoutTypes ==
    ASSUME TInv, NEW p \in Peers, NEW t \in Threads, Timeout(p, t)
    PROVE  TInv'
<1> DEFINE th == [thread[p][t] EXCEPT !.waiting = FALSE, !.answer = Fail]
<1>1. thread[p][t] \in Thread /\ thread \in [Peers -> [Threads -> Thread]]
  BY ThreadTypes
<1>2. th \in Thread /\ ~th.waiting
  BY <1>1, ThreadTypes DEF Thread
<1>3. thread' = [thread EXCEPT ![p][t] = th]
  BY <1>1 DEF Timeout, Thread
<1>4. late' \in 0..MaxLate
  BY CatalogAssumption DEF Timeout, TInv, TypeOK
<1>5. UNCHANGED tracker
      /\ UNCHANGED <<starts, disk, localFileList, online, aborted, lost>>
  BY DEF Timeout
<1> HIDE DEF th
<1>6. QED
  BY <1>2, <1>3, <1>4, <1>5, MovingTypes, OnlineTypes

LEMMA StartUpTypes ==
    ASSUME TInv, NEW p \in Peers, StartUp(p)
    PROVE  TInv'
<1>1. "main" \in Threads /\ "startup" \in Pos /\ "UPDATELIST" \in Ops
  BY DEF Threads, Pos, Ops
<1>2. disk[p] \in SUBSET Files
  BY OnlineTypes
<1>3. /\ UNCHANGED <<serverUp, crashes, fileList, adding, replies>>
      /\ requests' \subseteq Request
      /\ thread' = [thread EXCEPT ![p]["main"] = Calling(p, "main", "startup", "UPDATELIST")]
      /\ Calling(p, "main", "startup", "UPDATELIST") \in Thread
      /\ Calling(p, "main", "startup", "UPDATELIST").waiting
           => Calling(p, "main", "startup", "UPDATELIST").answer = None
  BY <1>1, <1>2, CallTypes DEF StartUp
<1>4. /\ thread' \in [Peers -> [Threads -> Thread]]
      /\ \A q \in Peers, u \in Threads :
           thread'[q][u].waiting => thread'[q][u].answer = None
  BY <1>1, <1>3, ThreadStep
<1>5. starts' \in [Peers -> Nat] /\ \A q \in Peers : starts'[q] <= MaxStarts[q]
  <2>1. starts \in [Peers -> Nat] /\ starts[p] < MaxStarts[p]
        /\ starts' = [starts EXCEPT ![p] = @ + 1]
        /\ \A q \in Peers : starts[q] <= MaxStarts[q]
    BY DEF StartUp, TInv, TypeOK
  <2>2. starts[p] + 1 \in Nat /\ starts[p] + 1 <= MaxStarts[p]
    <3>1. starts[p] \in Nat /\ MaxStarts[p] \in Nat
      BY <2>1, CatalogAssumption
    <3>2. starts[p] < MaxStarts[p]
      BY <2>1
    <3>3. QED
      BY <3>1, <3>2
  <2>3. /\ starts'[p] = starts[p] + 1
        /\ \A q \in Peers \ {p} : starts'[q] = starts[q]
    BY <2>1
  <2>4. QED
    BY <2>1, <2>2, <2>3
<1>6. /\ replies' \subseteq Reply /\ disk' \in [Peers -> SUBSET Files]
      /\ localFileList' \in [Peers -> SUBSET Files]
      /\ online' \in [Peers -> BOOLEAN] /\ aborted' \subseteq Peers
      /\ lost' \in 0..MaxLost /\ late' \in 0..MaxLate
  BY <1>2, <1>3 DEF StartUp, TInv, TypeOK, TrackerTypeOK
<1>7. QED
  BY <1>3, <1>4, <1>5, <1>6, PeerTypes

LEMMA MainTypes ==
    ASSUME TInv, NEW p \in Peers, MainStep(p)
    PROVE  TInv'
<1>0. /\ "main" \in Threads /\ "heartbeat" \in Threads
      /\ {"startup", "idle", "update", "find", "fetch"} \subseteq Pos
      /\ Ops = {"FIND", "UPDATELIST", "HEARTBEAT"}
  BY DEF Threads, Pos, Ops
<1>1. At("idle") \in Thread /\ ~At("idle").waiting
  BY <1>0, ThreadTypes DEF At
<1>2. CASE StartUp(p)
  BY <1>2, StartUpTypes
<1>3. CASE Started(p)
  <2> DEFINE ths == [t \in Threads |-> At("idle")]
  <2>1. ths \in [Threads -> Thread] /\ \A t \in Threads : ~ths[t].waiting
    BY <1>1
  <2>2. /\ thread' = [thread EXCEPT ![p] = ths] /\ UNCHANGED tracker
        /\ UNCHANGED <<starts, disk, localFileList, aborted, lost, late>>
        /\ online' = [online EXCEPT ![p] = Online(p, Answer(p, "main"))]
    BY <1>3 DEF Started
  <2> HIDE DEF ths
  <2>3. online' \in [Peers -> BOOLEAN]
    BY <2>2, OnlineTypes
  <2>4. QED
    BY <2>1, <2>2, <2>3, StopTypes, OnlineTypes
<1>4. CASE UpdateList(p)
  BY <1>0, <1>4, CallingTypes, OnlineTypes DEF UpdateList
<1>5. CASE ListUpdated(p)
  <2>1. online' \in [Peers -> BOOLEAN]
    BY <1>5, OnlineTypes DEF ListUpdated
  <2>2. QED
    BY <1>0, <1>1, <1>5, <2>1, MovingTypes, OnlineTypes DEF ListUpdated, Move
<1>6. CASE \E f \in Files : Find(p, f)
  <2>1. PICK f \in Files : Find(p, f)
    BY <1>6
  <2>2. {f} \in SUBSET Files
    OBVIOUS
  <2>3. QED
    BY <1>0, <2>1, <2>2, CallingTypes, OnlineTypes DEF Find
<1>7. CASE Found(p)
  <2> DEFINE th == [At("fetch") EXCEPT !.answer = Answer(p, "main")]
  <2>1. th \in Thread /\ ~th.waiting
    <3>1. thread[p]["main"] \in Thread /\ "fetch" \in Pos
      BY <1>0, ThreadTypes
    <3>2. thread[p]["main"].answer
             \in [text : Texts, files : SUBSET Files, nodes : SUBSET Peers]
      BY <3>1 DEF Thread
    <3>3. QED
      BY <3>1, <3>2 DEF At, Thread, Answer, Ops
  <2>2. /\ \/ thread' = [thread EXCEPT ![p]["main"] = At("idle")]
           \/ thread' = [thread EXCEPT ![p]["main"] = th]
        /\ UNCHANGED <<tracker, starts, disk, localFileList, online, aborted, lost, late>>
    BY <1>7 DEF Found, Move
  <2> HIDE DEF th
  <2>3. QED
    BY <1>0, <1>1, <2>1, <2>2, MovingTypes, OnlineTypes
<1>8. CASE Fetched(p)
  <2>1. disk' \in [Peers -> SUBSET Files]
    <3>1. thread[p]["main"].answer.files \subseteq Files
      BY <1>0, ThreadTypes DEF Thread
    <3>2. QED
      BY <1>8, <3>1 DEF Fetched, TInv, TypeOK
  <2>2. QED
    BY <1>0, <1>8, <2>1, CallingTypes, OnlineTypes DEF Fetched
<1>9. QED
  BY <1>2, <1>3, <1>4, <1>5, <1>6, <1>7, <1>8 DEF MainStep

LEMMA HeartbeatTypes ==
    ASSUME TInv, NEW p \in Peers, HeartbeatStep(p)
    PROVE  TInv'
<1>0. /\ "heartbeat" \in Threads /\ {} \in SUBSET Files /\ {global} \in SUBSET Files
      /\ {"idle", "update", "find", "ping", "reconnect"} \subseteq Pos
      /\ Ops = {"FIND", "UPDATELIST", "HEARTBEAT"}
  BY CatalogAssumption DEF Threads, Pos, Ops
<1>1. At("idle") \in Thread /\ ~At("idle").waiting
  BY <1>0, ThreadTypes DEF At
<1>2. UNCHANGED <<starts, localFileList, lost, late>> /\ UNCHANGED disk
      /\ disk' \in [Peers -> SUBSET Files]
  <2>1. UNCHANGED <<starts, disk, localFileList, lost, late>>
    BY DEF HeartbeatStep, Wake, Reconnected, Resent, Pinged, GlobalLoaded
  <2>2. QED
    BY <2>1, OnlineTypes
<1>3. ASSUME UNCHANGED aborted, online' \in [Peers -> BOOLEAN], NEW pos \in Pos, NEW op \in Ops,
             NEW files \in SUBSET Files, Communicate(p, "heartbeat", pos, op, files)
      PROVE  TInv'
  BY <1>0, <1>2, <1>3, CallingTypes
<1>4. ASSUME UNCHANGED aborted, online' \in [Peers -> BOOLEAN], Move(p, "heartbeat", "idle"),
             UNCHANGED tracker
      PROVE  TInv'
  BY <1>0, <1>1, <1>2, <1>4, MovingTypes, OnlineTypes DEF Move
<1>5. CASE Wake(p)
  BY <1>0, <1>3, <1>5, OnlineTypes DEF Wake, Ping
<1>6. CASE Reconnected(p)
  <2>1. UNCHANGED aborted /\ online' \in [Peers -> BOOLEAN]
    BY <1>6, OnlineTypes DEF Reconnected
  <2>2. localFileList[p] \in SUBSET Files
    BY OnlineTypes
  <2>3. QED
    BY <1>0, <1>3, <1>4, <1>6, <2>1, <2>2 DEF Reconnected, Resend, PingOrSleep, Ping
<1>7. CASE Resent(p)
  <2>1. UNCHANGED aborted /\ online' \in [Peers -> BOOLEAN]
    BY <1>7, OnlineTypes DEF Resent
  <2>2. QED
    BY <1>0, <1>3, <1>4, <1>7, <2>1 DEF Resent, PingOrSleep, Ping
<1>8. CASE Pinged(p)
  <2>1. UNCHANGED aborted /\ online' \in [Peers -> BOOLEAN]
    BY <1>8, OnlineTypes DEF Pinged
  <2>2. QED
    BY <1>0, <1>3, <1>4, <1>8, <2>1 DEF Pinged
<1>9. CASE GlobalLoaded(p)
  <2>1. online' \in [Peers -> BOOLEAN] /\ UNCHANGED tracker
    BY <1>9, OnlineTypes DEF GlobalLoaded
  <2>2. CASE thread' = [thread EXCEPT ![p] = Down] /\ aborted' = aborted \cup {p}
    <3>1. Down \in [Threads -> Thread] /\ \A t \in Threads : ~Down[t].waiting
      BY ThreadTypes DEF Down, At
    <3>2. aborted' \subseteq Peers
      BY <2>2 DEF TInv, TypeOK
    <3> HIDE DEF Down
    <3>3. QED
      BY <1>2, <2>1, <2>2, <3>1, <3>2, StopTypes
  <2>3. CASE Move(p, "heartbeat", "idle") /\ UNCHANGED aborted
    BY <1>4, <2>1, <2>3
  <2>4. QED
    BY <1>9, <2>2, <2>3 DEF GlobalLoaded
<1>10. QED
  BY <1>5, <1>6, <1>7, <1>8, <1>9 DEF HeartbeatStep

LEMMA TypesKept ==
    ASSUME TInv, [Next]_vars
    PROVE  TInv'
<1>1. CASE (ServerStep \/ Crash \/ RestartServer) /\ UNCHANGED peer
  BY <1>1, ServerTypes
<1>2. CASE \E p \in Peers : CommunicateStep(p) \/ MainStep(p) \/ HeartbeatStep(p)
  BY <1>2, ReceiveTypes, TimeoutTypes, MainTypes, HeartbeatTypes DEF CommunicateStep
<1>3. CASE \E p \in Peers : Stop(p)
  <2>1. PICK p \in Peers : Stop(p)
    BY <1>3
  <2>2. Down \in [Threads -> Thread] /\ \A t \in Threads : ~Down[t].waiting
    BY <2>1, ThreadTypes DEF Down, At
  <2>3. QED
    BY <2>1, <2>2, StopTypes, OnlineTypes DEF Stop
<1>4. CASE (\E m \in replies : Discard(m)) \/ Lose \/ UNCHANGED vars
  <2>1. /\ UNCHANGED <<serverUp, crashes, fileList, adding>>
        /\ UNCHANGED <<starts, disk, localFileList, online, thread, aborted, late>>
        /\ requests' \subseteq requests /\ replies' \subseteq replies
    BY <1>4 DEF Discard, Lose, vars, tracker, peer
  <2>2. lost' \in 0..MaxLost
    BY <1>4, CatalogAssumption DEF Discard, Lose, vars, peer, TInv, TypeOK
  <2>3. QED
    BY <2>1, <2>2 DEF TInv, TypeOK, TrackerTypeOK, AddsForPeer
<1>5. QED
  BY <1>1, <1>2, <1>3, <1>4 DEF Next

----------------------------------------------------------------------------
(* Steps of a peer.                                                           *)

\* The part of the invariant that is about one peer.
PeerOK(p) ==
    /\ OneCall(p) /\ CallShape(p) /\ Knows(p)
    /\ global \in disk[p] /\ (Up(p) => global \in localFileList[p])
    /\ serverUp /\ Up(p) /\ online[p] /\ Settled(p) => localFileList[p] \subseteq fileList[p]

LEMMA PeersOK == IInv <=> /\ TInv /\ InFlight /\ OfServer /\ Carried /\ Told
                          /\ PeersSurvive /\ \A p \in Peers : PeerOK(p)
BY DEF IInv, TInv, Shares, OnlineIsListed, PeerOK

\* Nothing of p is in flight.
NoItems(p) ==
    /\ \A r \in requests : r.peer # p
    /\ adding.peer # p
    /\ \A m \in replies : m.peer # p

LEMMA Undisturbed ==
    ASSUME IInv, NEW p \in Peers, Up(p), \A t \in Threads : ~thread[p][t].waiting
    PROVE  NoItems(p)
<1>1. /\ requests \subseteq Request /\ replies \subseteq Reply
      /\ adding \in [peer : Peers \cup {NoPeer}, by : Threads, files : SUBSET Files]
      /\ p # NoPeer
  BY TrackingAssumption DEF IInv, TypeOK, TrackerTypeOK
<1>2. InFlight
  BY DEF IInv
<1>3. \A r \in requests : r.peer # p
  BY <1>1, <1>2 DEF InFlight, Waits, Request
<1>4. \A m \in replies : m.peer # p
  BY <1>1, <1>2 DEF InFlight, Waits, Reply
<1>5. adding.peer # p
  BY <1>1, <1>2 DEF InFlight, Waits, NotAdding
<1>6. QED
  BY <1>3, <1>4, <1>5 DEF NoItems

OnlyPeer(p) ==
    \A q \in Peers \ {p} :
        /\ thread'[q] = thread[q] /\ online'[q] = online[q]
        /\ localFileList'[q] = localFileList[q] /\ disk'[q] = disk[q]

\* What a peer does means nothing to others.
LEMMA OthersOK ==
    ASSUME NEW p \in Peers, OnlyPeer(p), UNCHANGED <<serverUp, fileList>>,
           \A q \in Peers : PeerOK(q)
    PROVE  /\ \A q \in Peers \ {p} : PeerOK(q)'
           /\ \A q \in Peers \ {p} : Up(q)' <=> Up(q)
           /\ \A q \in Peers \ {p}, t \in Threads :
                \A op : Waits(q, t, op)' <=> Waits(q, t, op)
           /\ \A q \in Peers \ {p} : Listed(q)' <=> Listed(q)
<1>1. \A q \in Peers \ {p} :
        /\ thread'[q] = thread[q] /\ online'[q] = online[q]
        /\ localFileList'[q] = localFileList[q] /\ disk'[q] = disk[q]
        /\ UNCHANGED <<serverUp, fileList>>
  BY DEF OnlyPeer
<1>2. \A q \in Peers \ {p} : (Up(q)' <=> Up(q)) /\ (Listed(q)' <=> Listed(q))
  BY <1>1 DEF Up, Listed
<1>3. \A q \in Peers \ {p}, t \in Threads : \A op : Waits(q, t, op)' <=> Waits(q, t, op)
  BY <1>1 DEF Waits
<1>4. ASSUME NEW q \in Peers \ {p} PROVE PeerOK(q)'
  <2>0. thread'[q] = thread[q] /\ OneCall(q) /\ CallShape(q)
    BY <1>1 DEF PeerOK
  <2>1. OneCall(q)' /\ CallShape(q)'
    <3>1. OneCall(q)'
      BY <2>0 DEF OneCall
    <3>2. CallShape(q)'
      BY <2>0 DEF CallShape
    <3>3. QED
      BY <3>1, <3>2
  <2>2. Knows(q)'
    BY <1>1, <1>2 DEF PeerOK, Knows
  <2>3. QED
    BY <1>1, <1>2, <2>1, <2>2 DEF PeerOK, Settled
<1>5. QED
  BY <1>2, <1>3, <1>4

\* A step of p that sends nothing, after which nothing of it is in flight.
LEMMA QuietStep ==
    ASSUME IInv, TInv', NEW p \in Peers, OnlyPeer(p),
           UNCHANGED <<serverUp, fileList, adding>>,
           requests' \subseteq requests, replies' \subseteq replies,
           Up(p)' => NoItems(p)', PeerOK(p)', aborted' = {}
    PROVE  IInv'
<1>1. /\ InFlight /\ OfServer /\ Carried /\ Told /\ \A q \in Peers : PeerOK(q)
      /\ requests \subseteq Request /\ replies \subseteq Reply
      /\ adding # NotAdding => adding.peer \in Peers
      /\ adding.by \in Threads
  BY PeersOK DEF IInv, TypeOK, TrackerTypeOK, AddsForPeer
<1>2. /\ \A q \in Peers \ {p} : PeerOK(q)'
      /\ \A q \in Peers \ {p} : Up(q)' <=> Up(q)
      /\ \A q \in Peers \ {p}, t \in Threads : \A op : Waits(q, t, op)' <=> Waits(q, t, op)
      /\ \A q \in Peers \ {p} : Listed(q)' <=> Listed(q)
  BY <1>1, OthersOK
<1>3. /\ \A r \in requests' : /\ r \in requests /\ r.peer \in Peers /\ r.by \in Threads
                              /\ (r.peer = p => ~Up(p)')
      /\ \A m \in replies' : /\ m \in replies /\ m.peer \in Peers /\ m.by \in Threads
                             /\ (m.peer = p => ~Up(p)')
      /\ adding.peer = p => ~Up(p)'
  BY <1>1 DEF NoItems, Request, Reply
<1>4. InFlight'
  BY <1>1, <1>2, <1>3 DEF InFlight
<1>5. OfServer'
  BY <1>1 DEF OfServer
<1>6. Carried'
  BY <1>1, <1>2, <1>3 DEF Carried, OnlyPeer
<1>7. Told'
  BY <1>1, <1>2, <1>3 DEF Told, OnlyPeer
<1>8. \A q \in Peers : PeerOK(q)'
  BY <1>2
<1>9. PeersSurvive'
  BY DEF PeersSurvive
<1>10. QED
  BY <1>4, <1>5, <1>6, <1>7, <1>8, <1>9, PeersOK DEF IInv, TInv, OnlineIsListed, Shares, PeerOK

LEMMA SilentStep ==
    ASSUME IInv, TInv', NEW p \in Peers, OnlyPeer(p), UNCHANGED tracker,
           Up(p)' => NoItems(p), PeerOK(p)', aborted' = {}
    PROVE  IInv'
<1>1. UNCHANGED <<serverUp, fileList, adding, requests, replies>>
  BY DEF tracker
<1>2. NoItems(p)' <=> NoItems(p)
  BY <1>1 DEF NoItems
<1>3. QED
  BY <1>1, <1>2, QuietStep

\* A step of p that calls the server, while nothing of it is in flight.
LEMMA CallingStep ==
    ASSUME IInv, TInv', NEW p \in Peers, OnlyPeer(p),
           UNCHANGED <<serverUp, fileList, adding, replies>>,
           NoItems(p), PeerOK(p)', aborted' = {},
           NEW t \in Threads, NEW op \in Ops, NEW files \in SUBSET Files,
           Send(p, t, op, files),
           Waits(p, t, op)',
           op = "UPDATELIST" => files = localFileList'[p],
           op = "FIND" /\ t = "heartbeat" => files = {global}
    PROVE  IInv'
<1>1. /\ InFlight /\ OfServer /\ Carried /\ Told /\ \A q \in Peers : PeerOK(q)
      /\ requests \subseteq Request /\ replies \subseteq Reply
      /\ adding # NotAdding => adding.peer \in Peers
      /\ adding.by \in Threads
  BY PeersOK DEF IInv, TypeOK, TrackerTypeOK, AddsForPeer
<1>2. /\ \A q \in Peers \ {p} : PeerOK(q)'
      /\ \A q \in Peers \ {p} : Up(q)' <=> Up(q)
      /\ \A q \in Peers \ {p}, u \in Threads : \A o : Waits(q, u, o)' <=> Waits(q, u, o)
      /\ \A q \in Peers \ {p} : Listed(q)' <=> Listed(q)
  BY <1>1, OthersOK
<1>3. /\ \A r \in requests : r.peer \in Peers \ {p} /\ r.by \in Threads
      /\ \A m \in replies : m.peer \in Peers \ {p} /\ m.by \in Threads
      /\ adding.peer # p
  BY <1>1 DEF NoItems, Request, Reply
<1> DEFINE new == [op |-> op, peer |-> p, by |-> t, files |-> files]
<1>4. \A r \in requests' : r \in requests \/ (r = new /\ serverUp)
  BY DEF Send
<1>5. new.op = op /\ new.peer = p /\ new.by = t /\ new.files = files
  OBVIOUS
<1> HIDE DEF new
<1>6. InFlight'
  <2>1. \A r \in requests' :
          /\ Up(r.peer)' => Waits(r.peer, r.by, r.op)'
          /\ adding.peer # r.peer
          /\ \A m \in replies : m.peer # r.peer
    BY <1>1, <1>2, <1>3, <1>4, <1>5 DEF InFlight
  <2>2. \A r, q \in requests' : q.peer = r.peer => q = r
    BY <1>1, <1>3, <1>4, <1>5 DEF InFlight
  <2>3. adding # NotAdding =>
          /\ Up(adding.peer)' => Waits(adding.peer, adding.by, "UPDATELIST")'
          /\ \A m \in replies : m.peer # adding.peer
    BY <1>1, <1>2, <1>3 DEF InFlight
  <2>4. \A m \in replies :
          /\ Up(m.peer)' => Waits(m.peer, m.by, m.op)'
          /\ \A n \in replies : n.peer = m.peer => n = m
    BY <1>1, <1>2, <1>3 DEF InFlight
  <2>5. QED
    BY <2>1, <2>2, <2>3, <2>4 DEF InFlight
<1>7. OfServer'
  BY <1>1, <1>4 DEF OfServer
<1>8. Carried'
  BY <1>1, <1>2, <1>3, <1>4, <1>5 DEF Carried, OnlyPeer
<1>9. Told'
  BY <1>1, <1>2, <1>3 DEF Told, OnlyPeer
<1>10. \A q \in Peers : PeerOK(q)'
  BY <1>2
<1>11. PeersSurvive'
  BY DEF PeersSurvive
<1>12. QED
  BY <1>6, <1>7, <1>8, <1>9, <1>10, <1>11 DEF IInv, TInv, OnlineIsListed, Shares, PeerOK

Fits(pos, op) ==
    \/ pos \in {"startup", "update"} /\ op = "UPDATELIST"
    \/ pos = "find" /\ op = "FIND"
    \/ pos \in {"ping", "reconnect"} /\ op = "HEARTBEAT"

\* A call while the other thread rests: the port is free.
LEMMA CallShaped ==
    ASSUME IInv, NEW p \in Peers, NEW t \in Threads, NEW pos, NEW op \in Ops,
           NEW files, Communicate(p, t, pos, op, files), Fits(pos, op),
           \A u \in Threads \ {t} : thread[p][u].pos \in Rest
    PROVE  /\ thread'[p][t] = [pos |-> pos, waiting |-> TRUE, op |-> op, answer |-> None]
           /\ \A u \in Threads \ {t} : thread'[p][u] = thread[p][u]
           /\ \A q \in Peers \ {p} : thread'[q] = thread[q]
           /\ OneCall(p)' /\ CallShape(p)' /\ Waits(p, t, op)'
<1>1. /\ thread \in [Peers -> [Threads -> Thread]]
      /\ CallShape(p)
  BY ThreadTypes DEF IInv, TInv
<1>2. ~Busy(p, t, op)
  BY <1>1 DEF Busy, CallShape
<1>3. Calling(p, t, pos, op) = [pos |-> pos, waiting |-> TRUE, op |-> op, answer |-> None]
  BY <1>2 DEF Calling
<1>4. /\ thread'[p][t] = [pos |-> pos, waiting |-> TRUE, op |-> op, answer |-> None]
      /\ \A u \in Threads \ {t} : thread'[p][u] = thread[p][u]
      /\ \A q \in Peers \ {p} : thread'[q] = thread[q]
  BY <1>1, <1>3 DEF Communicate
<1>5. pos \notin Rest
  BY DEF Fits, Rest
<1>6. OneCall(p)'
  BY <1>4, <1>5 DEF OneCall
<1>7. CallShape(p)'
  <2> SUFFICES ASSUME NEW u \in Threads
               PROVE  LET th == thread'[p][u]
                      IN  /\ th.pos \in Rest => ~th.waiting
                          /\ th.pos \in {"startup", "update"} => th.op = "UPDATELIST"
                          /\ th.pos = "find" => th.op = "FIND"
                          /\ th.pos \in {"ping", "reconnect"} => th.op = "HEARTBEAT"
                          /\ th.pos \notin Rest /\ ~th.waiting =>
                               th.answer.text \in
                                 {"", IF th.op = "FIND" THEN "nodes" ELSE "SUCCESS"}
    BY DEF CallShape
  <2>1. CASE u = t
    <3>1. /\ thread'[p][u].pos = pos /\ thread'[p][u].op = op
          /\ thread'[p][u].waiting = TRUE
      BY <1>4, <2>1
    <3>2. /\ pos \in {"startup", "update"} => op = "UPDATELIST"
          /\ pos = "find" => op = "FIND"
          /\ pos \in {"ping", "reconnect"} => op = "HEARTBEAT"
      BY DEF Fits
    <3>3. QED
      BY <1>5, <3>1, <3>2
  <2>2. CASE u # t
    <3>1. thread'[p][u] = thread[p][u]
      BY <1>4, <2>2
    <3>2. QED
      BY <1>1, <3>1 DEF CallShape
  <2>3. QED
    BY <2>1, <2>2
<1>8. QED
  BY <1>4, <1>6, <1>7 DEF Waits

LEMMA CallKeeps ==
    ASSUME IInv, TInv', NEW p \in Peers, NEW t \in Threads, NEW pos, NEW op \in Ops,
           NEW files \in SUBSET Files,
           Communicate(p, t, pos, op, files), Fits(pos, op),
           \A u \in Threads \ {t} : thread[p][u].pos \in Rest,
           ~thread[p][t].waiting, Up(p) \/ NoItems(p),
           \A q \in Peers \ {p} : /\ online'[q] = online[q] /\ disk'[q] = disk[q]
                                  /\ localFileList'[q] = localFileList[q],
           aborted' = aborted,
           op = "UPDATELIST" => files = localFileList'[p],
           op = "FIND" /\ t = "heartbeat" => files = {global},
           t = "heartbeat" /\ pos \in {"ping", "find"} => online'[p],
           global \in disk'[p], global \in localFileList'[p],
           \/ t = "main" /\ pos = "startup"
           \/ t = "heartbeat" /\ pos = "update"
           \/ serverUp /\ online'[p] => localFileList'[p] \subseteq fileList[p]
    PROVE  IInv'
<1>1. /\ thread'[p][t] = [pos |-> pos, waiting |-> TRUE, op |-> op, answer |-> None]
      /\ \A u \in Threads \ {t} : thread'[p][u] = thread[p][u]
      /\ \A q \in Peers \ {p} : thread'[q] = thread[q]
      /\ OneCall(p)' /\ CallShape(p)' /\ Waits(p, t, op)'
  BY CallShaped
<1>2. CallShape(p)
  BY DEF IInv
<1>3. NoItems(p)
  BY <1>2, Undisturbed DEF CallShape
<1>4. OnlyPeer(p)
  BY <1>1 DEF OnlyPeer
<1>5. /\ UNCHANGED <<serverUp, fileList, adding, replies>>
      /\ Send(p, t, op, files)
  BY DEF Communicate
<1>6. Knows(p)'
  <2>1. None.text = "none"
    BY DEF None
  <2>2. \A u \in Threads : /\ thread'[p][u].pos \in {"startup", "update", "find"}
                           => thread'[p][u].answer.text = "none"
    BY <1>1, <2>1 DEF Rest
  <2>3. "heartbeat" \in Threads
    BY DEF Threads
  <2>4. thread'[p]["heartbeat"].pos \in {"ping", "find"} => online'[p]
    BY <1>1, <2>3 DEF Rest
  <2>5. QED
    BY <2>2, <2>3, <2>4 DEF Knows
<1>7. Settled(p)' => ~(t = "main" /\ pos = "startup") /\ ~(t = "heartbeat" /\ pos = "update")
  BY <1>1 DEF Settled
<1>8. PeerOK(p)'
  BY <1>1, <1>5, <1>6, <1>7 DEF PeerOK
<1>9. aborted' = {}
  BY DEF IInv, PeersSurvive
<1>10. QED
  BY <1>1, <1>3, <1>4, <1>5, <1>8, <1>9, CallingStep

\* A step after which both threads rest.
LEMMA RestKeeps ==
    ASSUME IInv, TInv', NEW p \in Peers, OnlyPeer(p), UNCHANGED tracker,
           UNCHANGED <<localFileList, disk>>, aborted' = {}, Up(p),
           Up(p)' => NoItems(p),
           \A t \in Threads : thread'[p][t].pos \in Rest /\ ~thread'[p][t].waiting,
           serverUp /\ Up(p)' /\ online'[p] => localFileList[p] \subseteq fileList[p]
    PROVE  IInv'
<1>1. OneCall(p)' /\ CallShape(p)'
  BY DEF OneCall, CallShape, Rest
<1>2. Knows(p)'
  BY DEF Knows, Rest, Threads
<1>3. global \in disk[p] /\ global \in localFileList[p]
  BY DEF IInv, Shares
<1>4. UNCHANGED <<serverUp, fileList>>
  BY DEF tracker
<1>5. PeerOK(p)'
  BY <1>1, <1>2, <1>3, <1>4 DEF PeerOK
<1>6. QED
  BY <1>5, SilentStep

\* A thread whose call is over, or that begins one, is the only one that does.
LEMMA Alone ==
    ASSUME IInv, NEW p \in Peers, NEW t \in Threads, ~thread[p][t].waiting,
           thread[p][t].pos # "down",
           \A u \in Threads \ {t} : thread[p][u].pos \in Rest
    PROVE  /\ Up(p) /\ NoItems(p)
           /\ \A u \in Threads : ~thread[p][u].waiting
           /\ global \in disk[p] /\ global \in localFileList[p]
<1>1. CallShape(p)
  BY DEF IInv
<1>2. \A u \in Threads : ~thread[p][u].waiting
  BY <1>1 DEF CallShape
<1>3. Up(p)
  BY DEF Up, Down, At
<1>4. QED
  BY <1>2, <1>3, Undisturbed DEF IInv, Shares

LEMMA DoneAlone ==
    ASSUME IInv, NEW p \in Peers, NEW t \in Threads, NEW pos, Done(p, t, pos),
           pos \notin Rest
    PROVE  /\ Up(p) /\ NoItems(p)
           /\ \A u \in Threads : ~thread[p][u].waiting
           /\ global \in disk[p] /\ global \in localFileList[p]
           /\ \A u \in Threads \ {t} : thread[p][u].pos \in Rest
           /\ thread[p][t].pos = pos /\ ~thread[p][t].waiting
           /\ pos # "find" => Answer(p, t).text \in {"", "SUCCESS"}
           /\ pos = "find" => Answer(p, t).text \in {"", "nodes"}
<1>1. thread[p][t].pos = pos /\ ~thread[p][t].waiting /\ pos # "down"
  BY DEF Done, Rest
<1>2. \A u \in Threads \ {t} : thread[p][u].pos \in Rest
  BY <1>1 DEF IInv, OneCall
<1>3. pos \in Pos /\ CallShape(p)
  BY <1>1, ThreadTypes DEF IInv, TInv, Thread
<1>4. pos \in {"startup", "update", "find", "reconnect", "ping"}
  BY <1>3 DEF Pos, Rest
<1>5. /\ pos # "find" => thread[p][t].answer.text \in {"", "SUCCESS"}
      /\ pos = "find" => thread[p][t].answer.text \in {"", "nodes"}
  <2>1. /\ pos \in {"startup", "update"} => thread[p][t].op = "UPDATELIST"
        /\ pos = "find" => thread[p][t].op = "FIND"
        /\ pos \in {"ping", "reconnect"} => thread[p][t].op = "HEARTBEAT"
        /\ thread[p][t].answer.text \in
             {"", IF thread[p][t].op = "FIND" THEN "nodes" ELSE "SUCCESS"}
    BY <1>1, <1>3 DEF CallShape
  <2>2. QED
    BY <1>4, <2>1
<1>6. QED
  BY <1>1, <1>2, <1>5, Alone DEF Answer

LEMMA FreeAlone ==
    ASSUME IInv, ~Overlap, NEW p \in Peers, NEW t \in Threads, Free(p, t),
           thread[p][t].pos \in {"idle", "fetch"}
    PROVE  /\ Up(p) /\ NoItems(p)
           /\ \A u \in Threads : ~thread[p][u].waiting /\ thread[p][u].pos \in Rest
           /\ global \in disk[p] /\ global \in localFileList[p]
<1>1. thread[p][t].pos \in Rest /\ thread[p][t].pos # "down" /\ ~thread[p][t].waiting
  BY DEF Rest, IInv, CallShape
<1>2. \A u \in Threads \ {t} : thread[p][u].pos \in Rest
  BY DEF Free, Rest
<1>3. QED
  BY <1>1, <1>2, Alone

LEMMA KeepsStartUp ==
    ASSUME IInv, ~QuickRestart, NEW p \in Peers, StartUp(p)
    PROVE  IInv'
<1>1. TInv /\ TInv'
  BY StartUpTypes DEF IInv, TInv
<1>2. thread[p] = Down /\ "main" \in Threads /\ "UPDATELIST" \in Ops
  BY DEF StartUp, Up, Threads, Ops
<1>3. \A u \in Threads : thread[p][u].pos = "down" /\ ~thread[p][u].waiting
  BY <1>2 DEF Down, At
<1>4. NoItems(p)
  BY DEF StartUp, NoItems
<1>5. /\ localFileList' = [localFileList EXCEPT ![p] = disk[p]]
      /\ Communicate(p, "main", "startup", "UPDATELIST", disk[p])
      /\ UNCHANGED <<disk, online, aborted, lost, late>>
  BY DEF StartUp
<1>6. disk[p] \in SUBSET Files /\ global \in disk[p]
  BY <1>1, OnlineTypes DEF IInv, Shares
<1>7. /\ localFileList'[p] = disk[p]
      /\ \A q \in Peers \ {p} : localFileList'[q] = localFileList[q]
  BY <1>1, <1>5 DEF TInv, TypeOK
<1>8. Fits("startup", "UPDATELIST")
  BY DEF Fits
<1>9. \A u \in Threads \ {"main"} : thread[p][u].pos \in Rest
  BY <1>3 DEF Rest
<1>10. QED
  BY <1>1, <1>2, <1>3, <1>4, <1>5, <1>6, <1>7, <1>8, <1>9, CallKeeps

LEMMA KeepsMain ==
    ASSUME IInv, ~QuickRestart, ~Overlap, NEW p \in Peers, MainStep(p)
    PROVE  IInv'
<1>0. /\ "main" \in Threads /\ "heartbeat" \in Threads /\ Ops = {"FIND", "UPDATELIST", "HEARTBEAT"}
      /\ {"startup", "update", "find"} \cap Rest = {}
  BY DEF Threads, Ops, Rest
<1>1. TInv /\ TInv' /\ aborted = {} /\ Knows(p) /\ PeerOK(p)
  BY MainTypes, PeersOK DEF IInv, TInv, PeersSurvive
<1>2. localFileList[p] \in SUBSET Files
  BY <1>1, OnlineTypes
<1>3. thread \in [Peers -> [Threads -> Thread]] /\ online \in [Peers -> BOOLEAN]
  BY <1>1, ThreadTypes DEF TInv, TypeOK
<1>4. At("idle").pos = "idle" /\ ~At("idle").waiting
  BY DEF At
<1>5. CASE StartUp(p)
  BY <1>5, KeepsStartUp
<1>6. CASE Started(p)
  <2>1. /\ Up(p) /\ NoItems(p) /\ Answer(p, "main").text \in {"", "SUCCESS"}
        /\ thread[p]["main"].pos = "startup"
    BY <1>0, <1>6, DoneAlone DEF Started
  <2>2. /\ online' = [online EXCEPT ![p] = Online(p, Answer(p, "main"))]
        /\ thread' = [thread EXCEPT ![p] = [t \in Threads |-> At("idle")]]
        /\ UNCHANGED <<tracker, starts, disk, localFileList, aborted, lost, late>>
    BY <1>6 DEF Started
  <2>3. OnlyPeer(p) /\ online'[p] = Online(p, Answer(p, "main"))
        /\ thread'[p] = [t \in Threads |-> At("idle")]
    BY <1>3, <2>2 DEF OnlyPeer
  <2>4. serverUp /\ online'[p] => localFileList[p] \subseteq fileList[p]
    <3>1. Online(p, Answer(p, "main")) <=> Answer(p, "main").text = "SUCCESS"
      BY <2>1 DEF Online
    <3>2. online'[p] => thread[p]["main"].answer.text = "SUCCESS"
      BY <2>3, <3>1 DEF Answer
    <3>3. QED
      BY <1>0, <1>1, <2>1, <3>2 DEF Knows, Listed
  <2>5. \A t \in Threads : thread'[p][t].pos \in Rest /\ ~thread'[p][t].waiting
    BY <1>4, <2>3 DEF Rest
  <2>6. QED
    BY <1>1, <2>1, <2>2, <2>3, <2>4, <2>5, RestKeeps
<1>7. CASE UpdateList(p)
  <2>1. /\ Up(p) /\ \A u \in Threads : ~thread[p][u].waiting /\ thread[p][u].pos \in Rest
        /\ global \in disk[p] /\ global \in localFileList[p]
        /\ thread[p]["main"].pos = "idle"
    BY <1>0, <1>7, FreeAlone DEF UpdateList, Command
  <2>2. /\ Communicate(p, "main", "update", "UPDATELIST", localFileList[p])
        /\ UNCHANGED <<disk, localFileList, online, aborted>>
        /\ Fits("update", "UPDATELIST")
    BY <1>7 DEF UpdateList, Fits
  <2>3. serverUp /\ online[p] => localFileList[p] \subseteq fileList[p]
    BY <1>0, <1>1, <2>1 DEF PeerOK, Settled, Rest
  <2>4. QED
    BY <1>0, <1>1, <1>2, <2>1, <2>2, <2>3, CallKeeps
<1>8. CASE ListUpdated(p)
  <2>1. /\ Up(p) /\ NoItems(p) /\ Answer(p, "main").text \in {"", "SUCCESS"}
        /\ thread[p]["main"].pos = "update"
        /\ \A u \in Threads : ~thread[p][u].waiting
        /\ \A u \in Threads \ {"main"} : thread[p][u].pos \in Rest
    BY <1>0, <1>8, DoneAlone DEF ListUpdated
  <2>2. /\ online' = [online EXCEPT ![p] = Online(p, Answer(p, "main"))]
        /\ thread' = [thread EXCEPT ![p]["main"] = At("idle")]
        /\ UNCHANGED <<tracker, starts, disk, localFileList, aborted, lost, late>>
    BY <1>8 DEF ListUpdated, Move
  <2>3. /\ OnlyPeer(p) /\ online'[p] = Online(p, Answer(p, "main"))
        /\ thread'[p]["main"] = At("idle")
        /\ \A u \in Threads \ {"main"} : thread'[p][u] = thread[p][u]
    BY <1>0, <1>3, <2>2 DEF OnlyPeer
  <2>4. serverUp /\ online'[p] => localFileList[p] \subseteq fileList[p]
    <3>1. Online(p, Answer(p, "main")) <=> Answer(p, "main").text = "SUCCESS"
      BY <2>1 DEF Online
    <3>2. online'[p] => thread[p]["main"].answer.text = "SUCCESS"
      BY <2>3, <3>1 DEF Answer
    <3>3. QED
      BY <1>0, <1>1, <2>1, <3>2 DEF Knows, Listed
  <2>5. \A t \in Threads : thread'[p][t].pos \in Rest /\ ~thread'[p][t].waiting
    BY <1>4, <2>1, <2>3 DEF Rest
  <2>6. QED
    BY <1>1, <2>1, <2>2, <2>3, <2>4, <2>5, RestKeeps
<1>9. CASE \E f \in Files : Find(p, f)
  <2>0. PICK f \in Files : Find(p, f)
    BY <1>9
  <2>1. /\ Up(p) /\ \A u \in Threads : ~thread[p][u].waiting /\ thread[p][u].pos \in Rest
        /\ global \in disk[p] /\ global \in localFileList[p]
        /\ thread[p]["main"].pos = "idle"
    BY <1>0, <2>0, FreeAlone DEF Find, Command
  <2>2. /\ Communicate(p, "main", "find", "FIND", {f})
        /\ UNCHANGED <<disk, localFileList, online, aborted>>
        /\ Fits("find", "FIND") /\ {f} \in SUBSET Files
    BY <2>0 DEF Find, Fits
  <2>3. serverUp /\ online[p] => localFileList[p] \subseteq fileList[p]
    BY <1>0, <1>1, <2>1 DEF PeerOK, Settled, Rest
  <2>4. QED
    BY <1>0, <1>1, <1>2, <2>1, <2>2, <2>3, CallKeeps
<1>10. CASE Found(p)
  <2> DEFINE th == [At("fetch") EXCEPT !.answer = Answer(p, "main")]
  <2>1. /\ Up(p) /\ NoItems(p) /\ thread[p]["main"].pos = "find"
        /\ \A u \in Threads : ~thread[p][u].waiting
        /\ \A u \in Threads \ {"main"} : thread[p][u].pos \in Rest
    BY <1>0, <1>10, DoneAlone DEF Found
  <2>2. /\ \/ thread' = [thread EXCEPT ![p]["main"] = At("idle")]
           \/ thread' = [thread EXCEPT ![p]["main"] = th]
        /\ UNCHANGED <<tracker, starts, disk, localFileList, online, aborted, lost, late>>
    BY <1>10 DEF Found, Move
  <2>3. th.pos = "fetch" /\ ~th.waiting
    BY DEF At
  <2> HIDE DEF th
  <2>4. /\ OnlyPeer(p)
        /\ thread'[p]["main"] = At("idle") \/ thread'[p]["main"] = th
        /\ \A u \in Threads \ {"main"} : thread'[p][u] = thread[p][u]
    BY <1>0, <1>3, <2>2 DEF OnlyPeer
  <2>5. serverUp /\ online'[p] => localFileList[p] \subseteq fileList[p]
    BY <1>0, <1>1, <2>1, <2>2 DEF PeerOK, Settled, Rest
  <2>6. \A t \in Threads : thread'[p][t].pos \in Rest /\ ~thread'[p][t].waiting
    BY <1>4, <2>1, <2>3, <2>4 DEF Rest
  <2>7. QED
    BY <1>1, <2>1, <2>2, <2>4, <2>5, <2>6, RestKeeps
<1>11. CASE Fetched(p)
  <2>1. /\ Up(p) /\ \A u \in Threads : ~thread[p][u].waiting /\ thread[p][u].pos \in Rest
        /\ global \in disk[p] /\ global \in localFileList[p]
        /\ thread[p]["main"].pos = "fetch"
    BY <1>0, <1>11, FreeAlone DEF Fetched
  <2>2. /\ Communicate(p, "main", "update", "UPDATELIST", localFileList[p])
        /\ disk' = [disk EXCEPT ![p] = @ \cup thread[p]["main"].answer.files]
        /\ UNCHANGED <<localFileList, online, aborted>>
        /\ Fits("update", "UPDATELIST")
    BY <1>11 DEF Fetched, Fits
  <2>3. serverUp /\ online[p] => localFileList[p] \subseteq fileList[p]
    BY <1>0, <1>1, <2>1 DEF PeerOK, Settled, Rest
  <2>4. /\ global \in disk'[p]
        /\ \A q \in Peers \ {p} : disk'[q] = disk[q]
    BY <1>1, <2>1, <2>2 DEF TInv, TypeOK
  <2>5. QED
    BY <1>0, <1>1, <1>2, <2>1, <2>2, <2>3, <2>4, CallKeeps
<1>12. QED
  BY <1>5, <1>6, <1>7, <1>8, <1>9, <1>10, <1>11 DEF MainStep

LEMMA KeepsHeartbeat ==
    ASSUME IInv, ~Overlap, NEW p \in Peers, HeartbeatStep(p)
    PROVE  IInv'
<1>0. /\ "main" \in Threads /\ "heartbeat" \in Threads
      /\ Ops = {"FIND", "UPDATELIST", "HEARTBEAT"}
      /\ {"reconnect", "update", "find", "ping"} \cap Rest = {} /\ "idle" \in Rest
  BY DEF Threads, Ops, Rest
<1>1. TInv /\ TInv' /\ aborted = {} /\ Knows(p) /\ PeerOK(p)
  BY HeartbeatTypes, PeersOK DEF IInv, TInv, PeersSurvive
<1>2. /\ localFileList[p] \in SUBSET Files /\ {global} \in SUBSET Files
      /\ {} \in SUBSET Files
  BY <1>1, OnlineTypes, CatalogAssumption
<1>3. thread \in [Peers -> [Threads -> Thread]] /\ online \in [Peers -> BOOLEAN]
  BY <1>1, ThreadTypes DEF TInv, TypeOK
<1>4. UNCHANGED <<disk, localFileList>>
  BY DEF HeartbeatStep, Wake, Reconnected, Resent, Pinged, GlobalLoaded
<1>5. At("idle").pos = "idle" /\ ~At("idle").waiting
  BY DEF At
<1> DEFINE Turn == /\ Up(p) /\ NoItems(p)
                   /\ \A u \in Threads : ~thread[p][u].waiting
                   /\ global \in disk[p] /\ global \in localFileList[p]
                   /\ \A u \in Threads \ {"heartbeat"} : thread[p][u].pos \in Rest
           Same == /\ UNCHANGED aborted
                   /\ \A q \in Peers \ {p} : online'[q] = online[q]
           Safe == serverUp /\ online'[p] => localFileList[p] \subseteq fileList[p]
<1>6. ASSUME Turn, Same, Safe, Ping(p, "ping"), online'[p]
      PROVE  IInv'
  <2>1. Fits("ping", "HEARTBEAT") /\ Communicate(p, "heartbeat", "ping", "HEARTBEAT", {})
    BY <1>6 DEF Fits, Ping
  <2>2. QED
    BY <1>0, <1>1, <1>2, <1>4, <1>6, <2>1, CallKeeps
<1>7. ASSUME Turn, Same, Safe, Ping(p, "reconnect")
      PROVE  IInv'
  <2>1. Fits("reconnect", "HEARTBEAT")
        /\ Communicate(p, "heartbeat", "reconnect", "HEARTBEAT", {})
    BY <1>7 DEF Fits, Ping
  <2>2. QED
    BY <1>0, <1>1, <1>2, <1>4, <1>7, <2>1, CallKeeps
<1>8. ASSUME Turn, Same, Safe, Move(p, "heartbeat", "idle"), UNCHANGED tracker
      PROVE  IInv'
  <2>1. thread' = [thread EXCEPT ![p]["heartbeat"] = At("idle")]
    BY <1>8 DEF Move
  <2>2. /\ \A q \in Peers \ {p} : thread'[q] = thread[q]
        /\ thread'[p]["heartbeat"] = At("idle")
        /\ \A u \in Threads \ {"heartbeat"} : thread'[p][u] = thread[p][u]
    BY <1>0, <1>3, <2>1
  <2>3. OnlyPeer(p)
    BY <1>4, <1>8, <2>2 DEF OnlyPeer
  <2>4. \A t \in Threads : thread'[p][t].pos \in Rest /\ ~thread'[p][t].waiting
    BY <1>0, <1>5, <1>8, <2>2
  <2>5. QED
    BY <1>1, <1>4, <1>8, <2>3, <2>4, RestKeeps
<1>9. CASE Wake(p)
  <2>1. Turn /\ Same
    BY <1>0, <1>9, FreeAlone DEF Wake
  <2>2. Safe /\ UNCHANGED online
    BY <1>0, <1>1, <1>9, <2>1 DEF Wake, PeerOK, Settled, Rest
  <2>3. CASE online[p]
    <3>1. Ping(p, "ping") /\ online'[p]
      BY <1>9, <2>2, <2>3 DEF Wake
    <3>2. QED
      BY <1>6, <2>1, <2>2, <3>1
  <2>4. CASE ~online[p]
    <3>1. Ping(p, "reconnect")
      BY <1>9, <2>4 DEF Wake
    <3>2. QED
      BY <1>7, <2>1, <2>2, <3>1
  <2>5. QED
    BY <2>3, <2>4
<1>10. CASE Reconnected(p)
  <2>1. Turn /\ thread[p]["heartbeat"].pos = "reconnect"
    BY <1>0, <1>10, DoneAlone DEF Reconnected
  <2>2. CASE Answer(p, "heartbeat").text = "SUCCESS"
    <3>1. /\ online' = [online EXCEPT ![p] = TRUE] /\ UNCHANGED aborted
          /\ Communicate(p, "heartbeat", "update", "UPDATELIST", localFileList[p])
      BY <1>10, <2>2 DEF Reconnected, Resend
    <3>2. Fits("update", "UPDATELIST") /\ Same
      BY <1>3, <3>1 DEF Fits
    <3>3. QED
      BY <1>0, <1>1, <1>2, <1>4, <2>1, <3>1, <3>2, CallKeeps
  <2>3. CASE Answer(p, "heartbeat").text # "SUCCESS"
    <3>1. PingOrSleep(p, online[p]) /\ UNCHANGED <<online, aborted>>
      BY <1>10, <2>3 DEF Reconnected
    <3>2. Same /\ Safe
      BY <1>0, <1>1, <2>1, <3>1 DEF PeerOK, Settled, Rest
    <3>3. CASE online[p]
      BY <1>6, <2>1, <3>1, <3>2, <3>3 DEF PingOrSleep
    <3>4. CASE ~online[p]
      BY <1>8, <2>1, <3>1, <3>2, <3>4 DEF PingOrSleep
    <3>5. QED
      BY <3>3, <3>4
  <2>4. QED
    BY <2>2, <2>3
<1>11. CASE Resent(p)
  <2>1. Turn /\ thread[p]["heartbeat"].pos = "update"
        /\ Answer(p, "heartbeat").text \in {"", "SUCCESS"}
    BY <1>0, <1>11, DoneAlone DEF Resent
  <2>2. /\ online' = [online EXCEPT ![p] = Online(p, Answer(p, "heartbeat"))]
        /\ UNCHANGED aborted /\ PingOrSleep(p, online'[p])
    BY <1>11 DEF Resent
  <2>3. online'[p] = Online(p, Answer(p, "heartbeat")) /\ Same
    BY <1>3, <2>2
  <2>4. Safe
    <3>1. Online(p, Answer(p, "heartbeat")) <=> Answer(p, "heartbeat").text = "SUCCESS"
      BY <2>1 DEF Online
    <3>2. online'[p] => thread[p]["heartbeat"].answer.text = "SUCCESS"
      BY <2>3, <3>1 DEF Answer
    <3>3. QED
      BY <1>0, <1>1, <2>1, <3>2 DEF Knows, Listed
  <2>5. CASE online'[p]
    BY <1>6, <2>1, <2>2, <2>3, <2>4, <2>5 DEF PingOrSleep
  <2>6. CASE ~online'[p]
    BY <1>8, <2>1, <2>2, <2>3, <2>4, <2>6 DEF PingOrSleep
  <2>7. QED
    BY <2>5, <2>6
<1>12. CASE Pinged(p)
  <2>1. Turn /\ thread[p]["heartbeat"].pos = "ping"
    BY <1>0, <1>12, DoneAlone DEF Pinged
  <2>2. CASE Answer(p, "heartbeat").text = "SUCCESS"
    <3>1. /\ UNCHANGED <<online, aborted>>
          /\ Communicate(p, "heartbeat", "find", "FIND", {global})
      BY <1>12, <2>2 DEF Pinged
    <3>2. Fits("find", "FIND") /\ Same /\ online'[p] /\ Safe
      BY <1>0, <1>1, <2>1, <3>1 DEF Fits, Knows, PeerOK, Settled, Rest
    <3>3. QED
      BY <1>0, <1>1, <1>2, <1>4, <2>1, <3>1, <3>2, CallKeeps
  <2>3. CASE Answer(p, "heartbeat").text # "SUCCESS"
    <3>1. /\ online' = [online EXCEPT ![p] = FALSE] /\ UNCHANGED aborted
          /\ Move(p, "heartbeat", "idle") /\ UNCHANGED tracker
      BY <1>12, <2>3 DEF Pinged
    <3>2. Same /\ Safe
      BY <1>3, <3>1
    <3>3. QED
      BY <1>8, <2>1, <3>1, <3>2
  <2>4. QED
    BY <2>2, <2>3
<1>13. CASE GlobalLoaded(p)
  <2>1. Turn /\ thread[p]["heartbeat"].pos = "find" /\ UNCHANGED <<online, tracker>>
    BY <1>0, <1>13, DoneAlone DEF GlobalLoaded
  <2>2. ~Aborts(Answer(p, "heartbeat"))
    BY <1>1, <2>1 DEF Aborts, Knows, Answer
  <2>3. Move(p, "heartbeat", "idle") /\ UNCHANGED aborted
    BY <1>13, <2>2 DEF GlobalLoaded
  <2>4. Same /\ Safe
    BY <1>0, <1>1, <2>1, <2>3 DEF PeerOK, Settled, Rest
  <2>5. QED
    BY <1>8, <2>1, <2>3, <2>4
<1>14. QED
  BY <1>9, <1>10, <1>11, <1>12, <1>13 DEF HeartbeatStep

\* Only one thread of a peer waits.
LEMMA OneWaits ==
    ASSUME IInv, NEW p \in Peers, NEW t \in Threads, thread[p][t].waiting
    PROVE  /\ Up(p) /\ thread[p][t].pos \notin Rest
           /\ \A u \in Threads : thread[p][u].waiting => u = t
           /\ thread[p][t] \in Thread /\ thread \in [Peers -> [Threads -> Thread]]
           /\ PeerOK(p) /\ thread[p][t].op \in Ops
<1>1. PeerOK(p) /\ thread \in [Peers -> [Threads -> Thread]]
  BY PeersOK, ThreadTypes DEF IInv, TInv
<1>2. \A u \in Threads : thread[p][u].waiting => thread[p][u].pos \notin Rest
  BY <1>1 DEF PeerOK, CallShape
<1>3. \A u \in Threads : thread[p][u].waiting => u = t
  BY <1>1, <1>2 DEF PeerOK, OneCall
<1>4. Up(p)
  BY DEF Up, Down, At
<1>5. QED
  BY <1>1, <1>2, <1>3, <1>4 DEF Thread

\* The call of a thread is over.
LEMMA AnswerKeeps ==
    ASSUME IInv, NEW p \in Peers, NEW t \in Threads, thread[p][t].waiting,
           UNCHANGED <<serverUp, fileList, online, localFileList, disk>>,
           NEW th \in Thread, thread' = [thread EXCEPT ![p][t] = th],
           th.pos = thread[p][t].pos, th.op = thread[p][t].op, ~th.waiting,
           th.answer.text \in {"", IF th.op = "FIND" THEN "nodes" ELSE "SUCCESS"},
           th.op = "UPDATELIST" /\ th.answer.text = "SUCCESS" => Listed(p),
           th.op = "FIND" /\ t = "heartbeat" /\ th.answer.text = "nodes"
             => p \in th.answer.nodes
    PROVE  OnlyPeer(p) /\ PeerOK(p)'
<1>1. /\ thread \in [Peers -> [Threads -> Thread]] /\ PeerOK(p)
      /\ thread[p][t].pos \notin Rest
  BY OneWaits
<1>2. /\ thread'[p][t] = th /\ \A u \in Threads \ {t} : thread'[p][u] = thread[p][u]
      /\ \A q \in Peers \ {p} : thread'[q] = thread[q]
  BY <1>1
<1>3. \A u \in Threads : thread'[p][u].pos = thread[p][u].pos
  BY <1>2
<1>4. OneCall(p)'
  BY <1>1, <1>3 DEF PeerOK, OneCall
<1>5. CallShape(p)'
  <2> DEFINE Shape(call) ==
        /\ call.pos \in Rest => ~call.waiting
        /\ call.pos \in {"startup", "update"} => call.op = "UPDATELIST"
        /\ call.pos = "find" => call.op = "FIND"
        /\ call.pos \in {"ping", "reconnect"} => call.op = "HEARTBEAT"
        /\ call.pos \notin Rest /\ ~call.waiting =>
             call.answer.text \in {"", IF call.op = "FIND" THEN "nodes" ELSE "SUCCESS"}
  <2>1. \A u \in Threads : Shape(thread[p][u])
    BY <1>1 DEF PeerOK, CallShape
  <2>2. Shape(th)
    BY <2>1
  <2> HIDE DEF Shape
  <2>3. \A u \in Threads : Shape(thread'[p][u])
    BY <1>2, <2>1, <2>2
  <2> QED  BY <2>3 DEF CallShape, Shape
<1>6. Up(p) /\ CallShape(p) /\ Knows(p)
  BY <1>1, OneWaits DEF PeerOK
<1>7. "heartbeat" \in Threads /\ "main" \in Threads
  BY DEF Threads
<1>8. Knows(p)'
  <2>1. \A u \in Threads : /\ thread'[p][u].pos \in {"startup", "update"}
                           /\ thread'[p][u].answer.text = "SUCCESS"
                           => Listed(p)
    <3>1. thread[p][t].pos \in {"startup", "update"} => th.op = "UPDATELIST"
      BY <1>6 DEF CallShape
    <3>2. \A u \in Threads : /\ thread[p][u].pos \in {"startup", "update"}
                             /\ thread[p][u].answer.text = "SUCCESS"
                             => Listed(p)
      BY <1>6 DEF Knows
    <3>3. ASSUME NEW u \in Threads, thread'[p][u].pos \in {"startup", "update"},
                 thread'[p][u].answer.text = "SUCCESS"
          PROVE  Listed(p)
      <4>1. CASE u = t
        BY <1>2, <3>1, <3>3, <4>1
      <4>2. CASE u # t
        <5>1. thread'[p][u] = thread[p][u]
          BY <1>2, <4>2
        <5> QED  BY <3>2, <3>3, <5>1
      <4>3. QED
        BY <4>1, <4>2
    <3>4. QED
      BY <3>3
  <2>2. thread'[p]["heartbeat"].pos = "find" /\ thread'[p]["heartbeat"].answer.text = "nodes"
          => p \in thread'[p]["heartbeat"].answer.nodes
    BY <1>2, <1>6, <1>7 DEF CallShape, Knows
  <2>3. thread'[p]["heartbeat"].pos \in {"ping", "find"} => online[p]
    BY <1>3, <1>6, <1>7 DEF Knows
  <2>4. QED
    BY <2>1, <2>2, <2>3 DEF Knows, Listed
<1>9. Settled(p)' <=> Settled(p)
  BY <1>3, <1>7 DEF Settled
<1>10. QED
  BY <1>1, <1>2, <1>4, <1>5, <1>6, <1>8, <1>9 DEF PeerOK, OnlyPeer

LEMMA KeepsReceive ==
    ASSUME IInv, NEW p \in Peers, NEW t \in Threads, NEW m \in replies,
           Receive(p, t, m)
    PROVE  IInv'
<1> DEFINE a == [text |-> Text(m), files |-> m.files, nodes |-> m.nodes]
           th == [thread[p][t] EXCEPT !.waiting = FALSE, !.answer = a]
<1>1. TInv /\ TInv' /\ aborted = {} /\ InFlight /\ Told
  BY ReceiveTypes DEF IInv, TInv, PeersSurvive
<1>2. /\ m \in Reply /\ replies \subseteq Reply
      /\ m.peer = p /\ m.op = thread[p][t].op /\ thread[p][t].waiting
      /\ replies' = replies \ {m}
      /\ UNCHANGED <<serverUp, fileList, adding, requests>>
      /\ UNCHANGED <<disk, localFileList, online, aborted>>
  BY <1>1 DEF Receive, TInv, TypeOK, TrackerTypeOK
<1>3. /\ Up(p) /\ \A u \in Threads : thread[p][u].waiting => u = t
      /\ thread[p][t] \in Thread /\ thread \in [Peers -> [Threads -> Thread]]
  BY <1>2, OneWaits
<1>4. m.by = t
  BY <1>1, <1>2, <1>3 DEF InFlight, Waits, Reply
<1>5. a \in [text : Texts, files : SUBSET Files, nodes : SUBSET Peers]
  BY <1>2 DEF Text, Texts, Reply
<1>6. /\ th \in Thread /\ ~th.waiting /\ th.pos = thread[p][t].pos
      /\ th.op = thread[p][t].op /\ th.answer = a
  BY <1>3, <1>5 DEF Thread
<1>7. thread' = [thread EXCEPT ![p][t] = th]
  BY <1>3 DEF Receive, Thread
<1>8. a.text = Text(m) /\ a.nodes = m.nodes
  OBVIOUS
<1> HIDE DEF th, a
<1>9. /\ m.op = "UPDATELIST" => Listed(p)
      /\ m.op = "FIND" /\ t = "heartbeat" => p \in m.nodes
  BY <1>1, <1>2, <1>3, <1>4 DEF Told
<1>10. OnlyPeer(p) /\ PeerOK(p)'
  <2>1. th.answer.text \in {"", IF th.op = "FIND" THEN "nodes" ELSE "SUCCESS"}
    BY <1>2, <1>6, <1>8 DEF Text
  <2>2. /\ th.op = "UPDATELIST" /\ th.answer.text = "SUCCESS" => Listed(p)
        /\ th.op = "FIND" /\ t = "heartbeat" /\ th.answer.text = "nodes"
             => p \in th.answer.nodes
    BY <1>2, <1>6, <1>8, <1>9
  <2>3. QED
    BY <1>2, <1>6, <1>7, <2>1, <2>2, AnswerKeeps
<1>11. NoItems(p)'
  <2>1. \A r \in requests : r.peer # p
    BY <1>1, <1>2 DEF InFlight
  <2>2. adding.peer # p
    BY <1>1, <1>2, TrackingAssumption DEF InFlight, NotAdding
  <2>3. \A n \in replies : n.peer = p => n = m
    BY <1>1, <1>2 DEF InFlight
  <2>4. QED
    BY <1>2, <2>1, <2>2, <2>3 DEF NoItems
<1>12. QED
  BY <1>1, <1>2, <1>10, <1>11, QuietStep

\* Nothing is late, so that a timeout means that nothing is in flight.
LEMMA KeepsTimeout ==
    ASSUME IInv, MaxLate = 0, NEW p \in Peers, NEW t \in Threads, Timeout(p, t)
    PROVE  IInv'
<1> DEFINE th == [thread[p][t] EXCEPT !.waiting = FALSE, !.answer = Fail]
<1>1. TInv /\ TInv' /\ aborted = {} /\ InFlight
  BY TimeoutTypes DEF IInv, TInv, PeersSurvive
<1>2. /\ thread[p][t].waiting /\ UNCHANGED tracker
      /\ UNCHANGED <<disk, localFileList, online, aborted>>
      /\ ~Answerable(p, t)
  BY <1>1 DEF Timeout, TInv, TypeOK
<1>3. /\ Up(p) /\ \A u \in Threads : thread[p][u].waiting => u = t
      /\ thread[p][t] \in Thread /\ thread \in [Peers -> [Threads -> Thread]]
  BY <1>2, OneWaits
<1>4. /\ th \in Thread /\ ~th.waiting /\ th.pos = thread[p][t].pos
      /\ th.op = thread[p][t].op /\ th.answer = Fail /\ Fail.text = ""
  BY <1>1, <1>3, ThreadTypes DEF Thread, Fail, None
<1>5. thread' = [thread EXCEPT ![p][t] = th]
  BY <1>3 DEF Timeout, Thread
<1> HIDE DEF th
<1>6. UNCHANGED <<serverUp, fileList, adding, requests, replies>>
  BY <1>2 DEF tracker
<1>7. OnlyPeer(p) /\ PeerOK(p)'
  <2>1. th.answer.text = ""
    BY <1>4
  <2>2. QED
    BY <1>2, <1>4, <1>5, <1>6, <2>1, AnswerKeeps
<1>8. NoItems(p)
  <2>1. /\ requests \subseteq Request /\ replies \subseteq Reply /\ adding.by \in Threads
        /\ p # NoPeer
    BY <1>1, TrackingAssumption DEF TInv, TypeOK, TrackerTypeOK
  <2>2. \A r \in requests : r.peer # p
    BY <1>1, <1>2, <1>3, <2>1 DEF InFlight, Waits, Answerable, Request
  <2>3. \A m \in replies : m.peer # p
    BY <1>1, <1>2, <1>3, <2>1 DEF InFlight, Waits, Answerable, Reply
  <2>4. adding.peer # p
    BY <1>1, <1>2, <1>3, <2>1 DEF InFlight, Waits, Answerable, NotAdding
  <2>5. QED
    BY <2>2, <2>3, <2>4 DEF NoItems
<1>9. QED
  BY <1>1, <1>2, <1>7, <1>8, SilentStep

LEMMA KeepsStop ==
    ASSUME IInv, TInv', NEW p \in Peers, Stop(p)
    PROVE  IInv'
<1>1. /\ thread' = [thread EXCEPT ![p] = Down]
      /\ UNCHANGED <<tracker, disk, localFileList, online, aborted>>
      /\ thread \in [Peers -> [Threads -> Thread]] /\ PeerOK(p) /\ aborted = {}
  BY ThreadTypes, PeersOK DEF Stop, IInv, TInv, PeersSurvive
<1>2. thread'[p] = Down /\ \A q \in Peers \ {p} : thread'[q] = thread[q]
  BY <1>1
<1>3. \A t \in Threads : thread'[p][t].pos = "down" /\ ~thread'[p][t].waiting
  BY <1>2 DEF Down, At
<1>4. ~Up(p)' /\ OnlyPeer(p)
  BY <1>1, <1>2 DEF Up, OnlyPeer
<1>5. OneCall(p)' /\ CallShape(p)' /\ Knows(p)'
  BY <1>3 DEF OneCall, CallShape, Knows, Rest, Threads
<1>6. PeerOK(p)'
  BY <1>1, <1>4, <1>5 DEF PeerOK
<1>7. QED
  BY <1>1, <1>4, <1>6, SilentStep

\* What is lost or discarded was all there was of a peer.
LEMMA KeepsDrop ==
    ASSUME IInv, TInv', (\E m \in replies : Discard(m)) \/ Lose \/ UNCHANGED vars
    PROVE  IInv'
<1>1. /\ UNCHANGED <<serverUp, fileList, adding>>
      /\ UNCHANGED <<disk, localFileList, online, thread, aborted>>
      /\ requests' \subseteq requests /\ replies' \subseteq replies
  BY DEF Discard, Lose, vars, tracker, peer
<1>2. /\ InFlight /\ OfServer /\ Carried /\ Told /\ PeersSurvive
      /\ \A p \in Peers : PeerOK(p)
  BY PeersOK DEF IInv, TInv
<1>3. /\ \A p : Up(p)' <=> Up(p)
      /\ \A p, t, op : Waits(p, t, op)' <=> Waits(p, t, op)
      /\ \A p : Listed(p)' <=> Listed(p)
  BY <1>1 DEF Up, Waits, Listed
<1>4. ASSUME NEW p \in Peers
      PROVE  PeerOK(p)'
  <2>1. (OneCall(p)' <=> OneCall(p)) /\ (CallShape(p)' <=> CallShape(p))
    BY <1>1 DEF OneCall, CallShape
  <2>2. Knows(p)' <=> Knows(p)
    BY <1>1, <1>3 DEF Knows
  <2>3. Settled(p)' <=> Settled(p)
    BY <1>1 DEF Settled
  <2>4. PeerOK(p)
    BY <1>2
  <2> QED  BY <1>1, <1>3, <2>1, <2>2, <2>3, <2>4 DEF PeerOK
<1>5. InFlight'
  BY <1>1, <1>2, <1>3 DEF InFlight
<1>6. OfServer' /\ Carried' /\ Told' /\ PeersSurvive'
  BY <1>1, <1>2, <1>3 DEF OfServer, Carried, Told, PeersSurvive
<1>7. QED
  BY <1>4, <1>5, <1>6, PeersOK DEF IInv, TInv, OnlineIsListed, Shares, PeerOK

----------------------------------------------------------------------------
(* Steps of the server.                                                       *)

\* What is true of the peers stays true as long as their lists stay.
LEMMA PeersKept ==
    ASSUME IInv, UNCHANGED peer,
           \A p \in Peers : /\ serverUp' /\ Up(p) /\ online[p] /\ Settled(p)
                               => localFileList[p] \subseteq fileList'[p]
                            /\ \A t \in Threads : thread[p][t].answer.text = "SUCCESS"
                                 => (Listed(p) => Listed(p)')
    PROVE  /\ \A p \in Peers : PeerOK(p) /\ PeerOK(p)'
           /\ \A p : Up(p)' <=> Up(p)
           /\ \A p, t, op : Waits(p, t, op)' <=> Waits(p, t, op)
           /\ PeersSurvive'
<1>1. UNCHANGED <<starts, disk, localFileList, online, thread, aborted>>
  BY DEF peer
<1>2. \A p \in Peers : PeerOK(p)
  BY PeersOK DEF IInv, TInv
<1>3. \A p : Up(p)' <=> Up(p)
  BY <1>1 DEF Up
<1>4. \A p, t, op : Waits(p, t, op)' <=> Waits(p, t, op)
  BY <1>1 DEF Waits
<1>5. ASSUME NEW p \in Peers PROVE PeerOK(p)'
  <2>1. OneCall(p)' /\ CallShape(p)'
    BY <1>1, <1>2 DEF PeerOK, OneCall, CallShape
  <2>2. Knows(p)'
    BY <1>1, <1>2 DEF PeerOK, Knows
  <2>3. (Settled(p)' <=> Settled(p)) /\ (Up(p)' <=> Up(p))
    BY <1>1, <1>3 DEF Settled
  <2>4. QED
    BY <1>1, <1>2, <2>1, <2>2, <2>3 DEF PeerOK
<1>6. PeersSurvive'
  BY <1>1 DEF IInv, PeersSurvive
<1>7. QED
  BY <1>2, <1>3, <1>4, <1>5, <1>6

\* The answer to a FIND or a HEARTBEAT.
LEMMA KeepsAnswer ==
    ASSUME IInv, TInv', UNCHANGED peer, NEW r \in requests, FindRes(r) \/ Heartbeat(r)
    PROVE  IInv'
<1>1. /\ InFlight /\ OfServer /\ Carried /\ Told
      /\ requests \subseteq Request /\ replies \subseteq Reply
      /\ UNCHANGED <<serverUp, fileList, adding, localFileList, disk>>
      /\ requests' = requests \ {r}
  BY DEF IInv, FindRes, Heartbeat, TypeOK, TrackerTypeOK, peer
<1>2. PICK nodes : /\ AnswerTo(r, nodes)
                   /\ r.op # "UPDATELIST" /\ (r.op = "FIND" => nodes = Holders(r.files))
  BY DEF FindRes, Heartbeat
<1>3. PICK n : /\ replies' = replies \cup {n} /\ n.op = r.op /\ n.peer = r.peer
               /\ n.by = r.by /\ n.nodes = nodes
  <2> DEFINE n == [op |-> r.op, peer |-> r.peer, by |-> r.by,
                   files |-> r.files, nodes |-> nodes]
  <2>1. replies' = replies \cup {n}
    BY <1>2 DEF AnswerTo
  <2>2. n.op = r.op /\ n.peer = r.peer /\ n.by = r.by /\ n.nodes = nodes
    OBVIOUS
  <2> HIDE DEF n
  <2>3. QED
    BY <2>1, <2>2
<1>4. /\ \A p \in Peers : PeerOK(p) /\ PeerOK(p)' /\ (Listed(p)' <=> Listed(p))
      /\ \A p : Up(p)' <=> Up(p)
      /\ \A p, t, op : Waits(p, t, op)' <=> Waits(p, t, op)
      /\ PeersSurvive'
  <2>1. \A p \in Peers : PeerOK(p)
    BY PeersOK DEF IInv, TInv
  <2>2. \A p \in Peers : Listed(p)' <=> Listed(p)
    BY <1>1 DEF Listed
  <2>3. \A p \in Peers : serverUp' /\ Up(p) /\ online[p] /\ Settled(p)
                           => localFileList[p] \subseteq fileList'[p]
    BY <1>1, <2>1 DEF PeerOK
  <2>4. QED
    BY <2>2, <2>3, PeersKept
<1>5. r.peer \in Peers /\ r.by \in Threads
  BY <1>1 DEF Request
<1>6. InFlight'
  <2>1. /\ \A m \in requests : m.peer = r.peer => m = r
        /\ \A m \in replies : m.peer # r.peer
        /\ adding.peer # r.peer
        /\ Up(r.peer) => Waits(r.peer, r.by, r.op)
    BY <1>1 DEF InFlight
  <2>2. /\ \A m \in requests' : m \in requests /\ m.peer # r.peer
        /\ \A m \in replies' : (m \in replies /\ m.peer # r.peer) \/ m = n
    BY <1>1, <1>3, <2>1
  <2>3. QED
    BY <1>1, <1>3, <1>4, <2>1, <2>2 DEF InFlight
<1>7. OfServer' /\ Carried'
  BY <1>1, <1>4 DEF OfServer, Carried
<1>8. Told'
  <2>1. ASSUME Up(r.peer), r.op = "FIND", r.by = "heartbeat"
        PROVE  r.peer \in nodes
    <3>1. /\ Waits(r.peer, "heartbeat", "FIND") /\ r.files = {global} /\ serverUp
          /\ PeerOK(r.peer) /\ "heartbeat" \in Threads /\ "main" \in Threads
      BY <1>1, <1>4, <1>5, <2>1 DEF InFlight, Carried, OfServer, Threads
    <3>2. thread[r.peer]["heartbeat"] \in Thread
      BY <1>5, <3>1, ThreadTypes DEF IInv, TInv
    <3>3. thread[r.peer]["heartbeat"].pos = "find"
      BY <3>1, <3>2 DEF PeerOK, CallShape, Waits, Thread, Pos, Rest
    <3>4. online[r.peer] /\ Settled(r.peer)
      BY <3>1, <3>3 DEF PeerOK, Knows, OneCall, Settled, Rest
    <3>5. {global} \subseteq fileList[r.peer]
      BY <2>1, <3>1, <3>4 DEF PeerOK
    <3>6. QED
      BY <1>2, <1>5, <2>1, <3>1, <3>5 DEF Holders
  <2>2. \A m \in replies' : m \in replies \/ m = n
    BY <1>3
  <2>3. replies \subseteq Reply
    BY <1>1
  <2>4. QED
    BY <1>1, <1>2, <1>3, <1>4, <1>5, <2>1, <2>2 DEF Told, Reply
<1>9. QED
  BY <1>4, <1>6, <1>7, <1>8, PeersOK DEF IInv, TInv, OnlineIsListed, Shares, PeerOK

LEMMA KeepsRecvList ==
    ASSUME IInv, TInv', UNCHANGED peer, NEW r \in requests, RecvList(r)
    PROVE  IInv'
<1>1. /\ InFlight /\ OfServer /\ Carried /\ Told
      /\ requests \subseteq Request /\ replies \subseteq Reply
      /\ UNCHANGED <<serverUp, fileList, replies, localFileList, disk>>
      /\ requests' = requests \ {r} /\ r.op = "UPDATELIST"
  BY DEF IInv, RecvList, TypeOK, TrackerTypeOK, peer
<1>2. adding'.peer = r.peer /\ adding'.by = r.by /\ adding'.files = r.files
  BY DEF RecvList
<1>3. /\ \A p \in Peers : PeerOK(p) /\ PeerOK(p)' /\ (Listed(p)' <=> Listed(p))
      /\ \A p : Up(p)' <=> Up(p)
      /\ \A p, t, op : Waits(p, t, op)' <=> Waits(p, t, op)
      /\ PeersSurvive'
  <2>1. \A p \in Peers : PeerOK(p)
    BY PeersOK DEF IInv, TInv
  <2>2. \A p \in Peers : Listed(p)' <=> Listed(p)
    BY <1>1 DEF Listed
  <2>3. \A p \in Peers : serverUp' /\ Up(p) /\ online[p] /\ Settled(p)
                           => localFileList[p] \subseteq fileList'[p]
    BY <1>1, <2>1 DEF PeerOK
  <2>4. QED
    BY <2>2, <2>3, PeersKept
<1>4. r.peer \in Peers
  BY <1>1 DEF Request
<1>5. InFlight'
  <2>1. /\ \A m \in requests : m.peer = r.peer => m = r
        /\ \A m \in replies : m.peer # r.peer
        /\ Up(r.peer) => Waits(r.peer, r.by, "UPDATELIST")
    BY <1>1 DEF InFlight
  <2>2. \A m \in requests' : m \in requests /\ m.peer # r.peer
    BY <1>1, <2>1
  <2>3. QED
    BY <1>1, <1>2, <1>3, <2>1, <2>2 DEF InFlight
<1>6. OfServer' /\ Carried'
  BY <1>1, <1>3 DEF OfServer, Carried
<1>7. Told'
  <2>1. Up(r.peer) => r.files = localFileList[r.peer]
    BY <1>1 DEF Carried
  <2>2. \A m \in replies : m.peer \in Peers
    BY <1>1 DEF Reply
  <2>3. QED
    BY <1>1, <1>2, <1>3, <2>1, <2>2 DEF Told
<1>8. QED
  BY <1>3, <1>5, <1>6, <1>7, PeersOK DEF IInv, TInv, OnlineIsListed, Shares, PeerOK

LEMMA KeepsPushFile ==
    ASSUME IInv, TInv', UNCHANGED peer, NEW f \in adding.files, PushFile(f)
    PROVE  IInv'
<1>1. /\ InFlight /\ OfServer /\ Carried /\ Told
      /\ requests \subseteq Request /\ replies \subseteq Reply
      /\ fileList \in [Peers -> SUBSET Files]
      /\ adding \in [peer : Peers \cup {NoPeer}, by : Threads, files : SUBSET Files]
      /\ UNCHANGED <<serverUp, requests, replies, localFileList, disk>>
  BY DEF IInv, PushFile, TypeOK, TrackerTypeOK, peer
<1>2. adding # NotAdding /\ adding.peer \in Peers
  BY DEF IInv, AddsForPeer, NotAdding
<1>3. /\ fileList'[adding.peer] = fileList[adding.peer] \cup {f}
      /\ \A p \in Peers : fileList[p] \subseteq fileList'[p]
      /\ adding'.peer = adding.peer /\ adding'.by = adding.by
      /\ adding'.files = adding.files \ {f}
  BY <1>1, <1>2 DEF PushFile, Push
<1>4. /\ \A p \in Peers : PeerOK(p) /\ PeerOK(p)' /\ (Listed(p) => Listed(p)')
      /\ \A p : Up(p)' <=> Up(p)
      /\ \A p, t, op : Waits(p, t, op)' <=> Waits(p, t, op)
      /\ PeersSurvive'
  <2>1. \A p \in Peers : PeerOK(p)
    BY PeersOK DEF IInv, TInv
  <2>2. \A p \in Peers : Listed(p) => Listed(p)'
    BY <1>1, <1>3 DEF Listed
  <2>3. \A p \in Peers : serverUp' /\ Up(p) /\ online[p] /\ Settled(p)
                           => localFileList[p] \subseteq fileList'[p]
    BY <1>1, <1>3, <2>1 DEF PeerOK
  <2>4. QED
    BY <2>2, <2>3, PeersKept
<1>5. InFlight'
  BY <1>1, <1>2, <1>3, <1>4 DEF InFlight
<1>6. OfServer' /\ Carried'
  BY <1>1, <1>2, <1>4 DEF OfServer, Carried
<1>7. Told'
  <2>1. \A m \in replies : m.peer \in Peers
    BY <1>1 DEF Reply
  <2>2. QED
    BY <1>1, <1>2, <1>3, <1>4, <2>1 DEF Told
<1>8. QED
  BY <1>4, <1>5, <1>6, <1>7, PeersOK DEF IInv, TInv, OnlineIsListed, Shares, PeerOK

LEMMA KeepsUpdated ==
    ASSUME IInv, TInv', UNCHANGED peer, Updated
    PROVE  IInv'
<1>1. /\ InFlight /\ OfServer /\ Carried /\ Told
      /\ requests \subseteq Request /\ replies \subseteq Reply
      /\ adding # NotAdding /\ adding.peer \in Peers /\ adding.files = {}
      /\ UNCHANGED <<serverUp, fileList, requests, localFileList, disk>>
      /\ adding' = NotAdding /\ NotAdding.peer \notin Peers
  BY TrackingAssumption
     DEF IInv, Updated, TypeOK, TrackerTypeOK, peer, AddsForPeer, NotAdding
<1>2. PICK n : /\ replies' = replies \cup {n} /\ n.op = "UPDATELIST"
               /\ n.peer = adding.peer /\ n.by = adding.by
  <2> DEFINE n == [op |-> "UPDATELIST", peer |-> adding.peer, by |-> adding.by,
                   files |-> {}, nodes |-> {}]
  <2>1. replies' = replies \cup {n}
    BY DEF Updated, AnswerTo
  <2>2. n.op = "UPDATELIST" /\ n.peer = adding.peer /\ n.by = adding.by
    OBVIOUS
  <2> HIDE DEF n
  <2>3. QED
    BY <2>1, <2>2
<1>3. /\ \A p \in Peers : PeerOK(p) /\ PeerOK(p)' /\ (Listed(p)' <=> Listed(p))
      /\ \A p : Up(p)' <=> Up(p)
      /\ \A p, t, op : Waits(p, t, op)' <=> Waits(p, t, op)
      /\ PeersSurvive'
  <2>1. \A p \in Peers : PeerOK(p)
    BY PeersOK DEF IInv, TInv
  <2>2. \A p \in Peers : Listed(p)' <=> Listed(p)
    BY <1>1 DEF Listed
  <2>3. \A p \in Peers : serverUp' /\ Up(p) /\ online[p] /\ Settled(p)
                           => localFileList[p] \subseteq fileList'[p]
    BY <1>1, <2>1 DEF PeerOK
  <2>4. QED
    BY <2>2, <2>3, PeersKept
<1>4. InFlight'
  <2>1. /\ \A r \in requests : r.peer # adding.peer /\ r.peer \in Peers
        /\ \A m \in replies : m.peer # adding.peer
        /\ Up(adding.peer) => Waits(adding.peer, adding.by, "UPDATELIST")
    BY <1>1 DEF InFlight, Request
  <2>2. QED
    BY <1>1, <1>2, <1>3, <2>1 DEF InFlight
<1>5. OfServer' /\ Carried'
  BY <1>1, <1>3 DEF OfServer, Carried
<1>6. Told'
  <2>1. \A m \in replies : m.peer \in Peers
    BY <1>1 DEF Reply
  <2>2. Up(adding.peer) => Listed(adding.peer)
    BY <1>1 DEF Told, Listed
  <2>3. QED
    BY <1>1, <1>2, <1>3, <2>1, <2>2 DEF Told
<1>7. QED
  BY <1>3, <1>4, <1>5, <1>6, PeersOK DEF IInv, TInv, OnlineIsListed, Shares, PeerOK

LEMMA KeepsCrash ==
    ASSUME IInv, TInv', UNCHANGED peer, Crash
    PROVE  IInv'
<1>1. /\ InFlight /\ Told /\ replies \subseteq Reply
      /\ requests' = {} /\ adding' = NotAdding /\ ~serverUp'
      /\ UNCHANGED <<replies, localFileList, disk>>
  BY DEF IInv, Crash, peer, TypeOK, TrackerTypeOK
<1>2. \A p \in Peers : Listed(p)'
  BY <1>1 DEF Listed
<1>3. /\ \A p \in Peers : PeerOK(p) /\ PeerOK(p)'
      /\ \A p : Up(p)' <=> Up(p)
      /\ \A p, t, op : Waits(p, t, op)' <=> Waits(p, t, op)
      /\ PeersSurvive'
  BY <1>1, <1>2, PeersKept
<1>4. InFlight'
  BY <1>1, <1>3 DEF InFlight
<1>5. OfServer' /\ Carried'
  BY <1>1 DEF OfServer, Carried
<1>6. Told'
  <2>1. \A m \in replies : m.peer \in Peers
    BY <1>1 DEF Reply
  <2>2. QED
    BY <1>1, <1>2, <1>3, <2>1 DEF Told
<1>7. QED
  BY <1>3, <1>4, <1>5, <1>6, PeersOK DEF IInv, TInv, OnlineIsListed, Shares, PeerOK

\* Every peer has noticed that the server was gone.
LEMMA KeepsRestart ==
    ASSUME IInv, TInv', UNCHANGED peer, ~QuickRestart, RestartServer
    PROVE  IInv'
<1>1. /\ OfServer /\ replies = {} /\ ~serverUp
      /\ UNCHANGED <<fileList, adding, requests, replies, localFileList, disk>>
  BY DEF IInv, RestartServer, Restart, peer
<1>2. requests = {} /\ adding = NotAdding
  BY <1>1 DEF OfServer
<1>3. \A p \in Peers : Noticed(p)
  BY DEF RestartServer
<1>4. /\ \A p \in Peers : PeerOK(p) /\ PeerOK(p)'
      /\ PeersSurvive'
  BY <1>3, PeersKept DEF Noticed
<1>5. InFlight' /\ OfServer' /\ Carried' /\ Told'
  BY <1>1, <1>2 DEF InFlight, OfServer, Carried, Told
<1>6. QED
  BY <1>4, <1>5, PeersOK DEF IInv, TInv, OnlineIsListed, Shares, PeerOK

----------------------------------------------------------------------------
LEMMA Initially ==
    ASSUME Init
    PROVE  TInv /\ IInv
<1>1. /\ adding = NotAdding /\ requests = {} /\ replies = {} /\ serverUp = TRUE
      /\ crashes = 0 /\ fileList = [p \in Peers |-> {}]
  BY DEF Init, TrackerInit
<1>2. /\ starts = [p \in Peers |-> 0] /\ disk = Share
      /\ localFileList = [p \in Peers |-> {}] /\ online = [p \in Peers |-> FALSE]
      /\ thread = [p \in Peers |-> Down] /\ aborted = {} /\ lost = 0 /\ late = 0
  BY DEF Init
<1>3. TrackerTypeOK /\ AddsForPeer
  BY <1>1, TrackingAssumption DEF TrackerTypeOK, AddsForPeer, NotAdding, Threads
<1>4. TInv
  <2>1. None \in [text : Texts, files : SUBSET Files, nodes : SUBSET Peers]
    BY DEF None, Texts
  <2>2. At("down") \in Thread
    BY <2>1 DEF At, Thread, Pos, Ops
  <2>3. thread \in [Peers -> [Threads -> Thread]]
    BY <1>2, <2>2 DEF Down
  <2>4. \A p \in Peers, t \in Threads : ~thread[p][t].waiting
    BY <1>2 DEF Down, At
  <2>5. /\ starts \in [Peers -> Nat] /\ \A p \in Peers : starts[p] <= MaxStarts[p]
        /\ disk \in [Peers -> SUBSET Files] /\ localFileList \in [Peers -> SUBSET Files]
        /\ online \in [Peers -> BOOLEAN] /\ aborted \subseteq Peers
        /\ lost \in 0..MaxLost /\ late \in 0..MaxLate
    <3>1. \A p \in Peers : MaxStarts[p] \in Nat
      BY CatalogAssumption
    <3>2. \A p \in Peers : starts[p] <= MaxStarts[p]
      BY <1>2, <3>1
    <3>3. QED
      BY <1>2, <3>2, CatalogAssumption
  <2>6. QED
    BY <1>3, <2>3, <2>4, <2>5 DEF TInv, TypeOK, Thread
<1>5. \A p \in Peers : ~Up(p) /\ \A t \in Threads : thread[p][t] = At("down")
  BY <1>2 DEF Up, Down
<1>6. InFlight /\ OfServer /\ Carried /\ Told
  BY <1>1 DEF InFlight, OfServer, Carried, Told
<1>7. \A p \in Peers : OneCall(p) /\ CallShape(p) /\ Knows(p)
  <2>1. \A p \in Peers, t \in Threads : thread[p][t].pos = "down" /\ ~thread[p][t].waiting
    BY <1>5 DEF At
  <2>2. QED
    BY <2>1 DEF OneCall, CallShape, Knows, Rest, Threads
<1>8. Shares
  BY <1>2, <1>5, CatalogAssumption DEF Shares
<1>9. OnlineIsListed /\ PeersSurvive
  BY <1>2, <1>5 DEF OnlineIsListed, PeersSurvive
<1>10. QED
  BY <1>4, <1>6, <1>7, <1>8, <1>9 DEF IInv, TInv

\* The invariant needs that the threads of a peer call one at a time, that the
\* server comes back after everyone noticed, and that no answer comes late.
LEMMA KeptByNext ==
    ASSUME IInv, [Next]_vars, ~Overlap, ~QuickRestart, MaxLate = 0
    PROVE  IInv'
<1>1. TInv'
  BY TypesKept DEF IInv, TInv
<1>2. CASE (ServerStep \/ Crash \/ RestartServer) /\ UNCHANGED peer
  <2>1. UNCHANGED peer
    BY <1>2
  <2>2. CASE ServerStep
    BY <1>1, <2>1, <2>2, KeepsAnswer, KeepsRecvList, KeepsPushFile, KeepsUpdated
       DEF ServerStep
  <2>3. CASE Crash
    BY <1>1, <2>1, <2>3, KeepsCrash
  <2>4. CASE RestartServer
    BY <1>1, <2>1, <2>4, KeepsRestart
  <2>5. QED
    BY <1>2, <2>2, <2>3, <2>4
<1>3. CASE \E p \in Peers :
             CommunicateStep(p) \/ MainStep(p) \/ HeartbeatStep(p) \/ Stop(p)
  <2>1. PICK p \in Peers :
             CommunicateStep(p) \/ MainStep(p) \/ HeartbeatStep(p) \/ Stop(p)
    BY <1>3
  <2>2. CASE CommunicateStep(p)
    BY <2>2, KeepsReceive, KeepsTimeout DEF CommunicateStep
  <2>3. CASE MainStep(p)
    BY <2>3, KeepsMain
  <2>4. CASE HeartbeatStep(p)
    BY <2>4, KeepsHeartbeat
  <2>5. CASE Stop(p)
    BY <1>1, <2>5, KeepsStop
  <2>6. QED
    BY <2>1, <2>2, <2>3, <2>4, <2>5
<1>4. CASE (\E m \in replies : Discard(m)) \/ Lose \/ UNCHANGED vars
  BY <1>1, <1>4, KeepsDrop
<1>5. QED
  BY <1>2, <1>3, <1>4 DEF Next

----------------------------------------------------------------------------
(* Theorems.                                                                  *)

\* The variables of the peers and of the tracking server have their types in
\* every run, and a thread that waits has no answer yet (Communicate,
\* Project3/Client/client.cpp).
THEOREM TypeCorrect == Spec => []TypeOK
<1>1. Init => TInv
  BY Initially
<1>2. TInv /\ [Next]_vars => TInv'
  BY TypesKept
<1>3. TInv => TypeOK
  BY DEF TInv
<1>4. QED
  BY <1>1, <1>2, <1>3, PTL DEF Spec

\* A peer whose threads call one at a time, with a server that comes back after
\* everyone noticed and no answer that is late, is never ended by "EMPTY" for the
\* global file: LoadGlobalNodeInfo looks for it only while its own peer is listed.
THEOREM PeersSurviveCorrect ==
    ASSUME ~Overlap, ~QuickRestart, MaxLate = 0
    PROVE  Spec => []PeersSurvive
<1>1. Init => IInv
  BY Initially
<1>2. IInv /\ [Next]_vars => IInv'
  BY KeptByNext
<1>3. IInv => PeersSurvive
  BY DEF IInv
<1>4. QED
  BY <1>1, <1>2, <1>3, PTL DEF Spec

\* Under the same conditions a peer that takes the server to be online is listed
\* there with all it reports, whatever is lost and however often the server
\* and the peers end (UpdateList and the heartbeat thread).
THEOREM OnlineListedCorrect ==
    ASSUME ~Overlap, ~QuickRestart, MaxLate = 0
    PROVE  Spec => []OnlineIsListed
<1>1. Init => IInv
  BY Initially
<1>2. IInv /\ [Next]_vars => IInv'
  BY KeptByNext
<1>3. IInv => OnlineIsListed
  BY DEF IInv
<1>4. QED
  BY <1>1, <1>2, <1>3, PTL DEF Spec
============================================================================
