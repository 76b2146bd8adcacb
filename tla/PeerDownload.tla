---------------------------- MODULE PeerDownload ----------------------------
(* Project3, Download of Client/client.cpp and what it asks of other peers:    *)
(* requests that are forwarded along a route, answers that travel back, ports  *)
(* taken from a pool, checksums, retries, and peers that fail meanwhile.       *)
(*                                                                             *)
(* The tracking server's answers and the routes are fixed here: FileCatalog    *)
(* and LatencyGraph are about them.  A file is the name of what it holds, and  *)
(* a packed file is that with its checksum.  Load is never initialized, so the *)
(* node of least load may be any of the list.                                  *)
EXTENDS Integers, Sequences, SequencesExt, FiniteSets

CONSTANTS
    Peers, Files,
    Holders,    \* Holders[f]: the clients the tracking server lists for f
    Stale,      \* Stale[f]: those of them that no longer have it
    Route,      \* Route[p][q]: path[p][q], or <<>> if q is too far
    Wishes,     \* Wishes[p]: the files the user of p downloads, in order
    Noisy,      \* the peer with the artificial noise, nodeID 1
    PoolSize,   \* ports of the pool: 901 in the code
    MaxNoise, MaxCrashes, MaxLate, \* bounds on what goes wrong
    MaxOutlived, \* bound: ports a peer takes while answers are overdue to it
    Overlap,    \* TRUE: requests may come faster than threads copy c_data
    Absent,     \* no such file
    Spoilt,     \* content that does not match its checksum
    Empty       \* the empty answer: nothing found, or nothing received

Contents == Files \cup {Spoilt}
Ports == 1..PoolSize
host == 0 \* the answer stays in the process

ASSUME DownloadAssumption ==
    /\ IsFiniteSet(Peers) /\ IsFiniteSet(Files)
    /\ Holders \in [Files -> SUBSET Peers] /\ Stale \in [Files -> SUBSET Peers]
    /\ Route \in [Peers -> [Peers -> Seq(Peers)]]
    /\ Wishes \in [Peers -> Seq(Files)]
    /\ PoolSize \in Nat /\ MaxOutlived \in Nat
    /\ MaxNoise \in Nat /\ MaxCrashes \in Nat /\ MaxLate \in Nat
    /\ Overlap \in BOOLEAN
    /\ {Absent, Spoilt, Empty} \cap Files = {}
    /\ Cardinality({Absent, Spoilt, Empty}) = 3

VARIABLES
    up,       \* the peers that run
    disk,     \* disk[p][f]: what p has under the name f
    wishes,   \* downloads to come
    download, \* download[p]: the one under way
    threads,  \* threads[p]: ForwardDownload calls, in order of creation
    pool,     \* downloadPortPool
    c_data,   \* c_data[p]: what the listener of p hands to its next thread
    requests, answers, \* datagrams
    gaveUp,   \* gaveUp[p]: files found "globally unavailable"
    outlived, \* outlived[p]: ports p has taken since answers are overdue to it
    noise, crashes, late

vars == <<up, disk, wishes, download, threads, pool, c_data, requests, answers,
          gaveUp, outlived, noise, crashes, late>>

Address == Peers \X (Ports \cup {host})

Idle == [state |-> "idle"]
NoData == [route |-> <<>>, file |-> Absent, back |-> <<>>]

Init ==
    /\ up = Peers
    /\ disk = [p \in Peers |-> [f \in Files |->
         IF p \in Holders[f] \ Stale[f] THEN f ELSE Absent]]
    /\ wishes = Wishes
    /\ download = [p \in Peers |-> Idle]
    /\ threads = [p \in Peers |-> <<>>]
    /\ pool = [p \in Peers |-> [i \in Ports |-> i]]
    /\ c_data = [p \in Peers |-> NoData]
    /\ requests = {} /\ answers = {}
    /\ gaveUp = [p \in Peers |-> {}]
    /\ outlived = [p \in Peers |-> 0]
    /\ noise = 0 /\ crashes = 0 /\ late = 0

----------------------------------------------------------------------------
(* The downloading thread.                                                    *)

Doing(p, state) == p \in up /\ download[p].state = state

\* Find has answered, LoadServerInfo has read the list.
Download(p) ==
    /\ Doing(p, "idle") /\ wishes[p] # <<>>
    /\ wishes' = [wishes EXCEPT ![p] = Tail(@)]
    /\ download' = [download EXCEPT ![p] =
         [state |-> "choose", file |-> Head(wishes[p]),
          nodes |-> Holders[Head(wishes[p])], node |-> p]]
    /\ UNCHANGED <<up, disk, threads, pool, c_data, requests, answers, gaveUp, outlived,
                   noise, crashes, late>>

\* ForwardDownload is called: by a thread that Download waits for, or directly.
Call(p, state, n, route) ==
    /\ download' = [download EXCEPT ![p].state = state, ![p].node = n]
    /\ threads' = [threads EXCEPT ![p] = Append(@,
         [state |-> "start", route |-> route, file |-> download[p].file,
          back |-> <<p, host>>, port |-> host])]

\* FillForwardList and LoadInfoListByID: a node on the route that is not on the
\* list of nodes gets the address of the peer itself.
Addresses(p, n) ==
    [i \in DOMAIN Route[p][n] |->
        IF Route[p][n][i] \in download[p].nodes THEN Route[p][n][i] ELSE p]

KeepNode(p, n) == download[p].nodes \* mutant: a failed node stays on the list
NoNodes(p, n) == {} \* mutant: erases them all
RemoveNodeInfo(p, n) == download[p].nodes \ {n}

\* The node of least load, or the peer itself: "File already exist".
GetMinLoadNode(p) ==
    /\ Doing(p, "choose")
    /\ \E n \in download[p].nodes :
         IF n = p
         THEN /\ download' = [download EXCEPT ![p].nodes = RemoveNodeInfo(p, n)]
              /\ UNCHANGED threads
         ELSE Call(p, "ripple", n, Addresses(p, n))
    /\ UNCHANGED <<up, disk, wishes, pool, c_data, requests, answers, gaveUp, outlived,
                   noise, crashes, late>>

GiveUp(p) ==
    /\ Doing(p, "choose") /\ download[p].nodes = {}
    /\ gaveUp' = [gaveUp EXCEPT ![p] = @ \cup {download[p].file}]
    /\ download' = [download EXCEPT ![p] = Idle]
    /\ UNCHANGED <<up, disk, wishes, threads, pool, c_data, requests, answers,
                   outlived, noise, crashes, late>>

\* ValidatePackedData, then String2File; UpdateList is in FileCatalog.
CompareNothing(a) == TRUE \* mutant: the checksum is not looked at
CompareMD5(a) == a # Spoilt

\* Download goes on with what ForwardDownload returned.
Stored(p, a) ==
    /\ a # Empty /\ CompareMD5(a)
    /\ disk' = [disk EXCEPT ![p][download[p].file] = a]
    /\ download' = [download EXCEPT ![p] = Idle]

\* "checksum not match!": the same list again.
Rejected(p, a) ==
    /\ a # Empty /\ ~CompareMD5(a)
    /\ download' = [download EXCEPT ![p].state = "choose"]
    /\ UNCHANGED disk

Switched(p, a) ==
    /\ a = Empty /\ download[p].state = "direct"
    /\ download' = [download EXCEPT ![p].state = "choose",
                      ![p].nodes = RemoveNodeInfo(p, download[p].node)]
    /\ UNCHANGED disk

AskedDirectly(p, a) ==
    /\ a = Empty /\ download[p].state = "ripple"
    /\ download' = [download EXCEPT ![p].state = "direct"]
    /\ UNCHANGED disk

----------------------------------------------------------------------------
(* ForwardDownload.                                                           *)

\* Thread i of p has returned: its answer is sent back, or taken by Download.
\* The seconds that an answer is held back pass while it is in flight.
Return(p, i, a, inFlight) ==
    LET t == threads[p][i]
        rest == [threads EXCEPT ![p] = RemoveAt(@, i)]
    IN  IF t.back[2] = host
        THEN /\ \/ (Stored(p, a) \/ Rejected(p, a) \/ Switched(p, a)) /\ threads' = rest
                \/ /\ AskedDirectly(p, a)
                   /\ threads' = [rest EXCEPT ![p] = Append(@,
                        [t EXCEPT !.state = "start", !.port = host,
                                  !.route = <<download[p].node>>])]
             /\ answers' = inFlight
        ELSE /\ threads' = rest
             /\ answers' = IF t.back[1] \in up
                           THEN inFlight \cup {[to |-> t.back, answer |-> a]}
                           ELSE inFlight
             /\ UNCHANGED <<disk, download>>

\* PackFileInfo, of a file or of nothing.
PackFileInfo(p, f) == IF disk[p][f] = Absent THEN Empty ELSE disk[p][f]

FindLocally(p, i) ==
    LET t == threads[p][i]
    IN  /\ t.state = "start" /\ t.route = <<>>
        /\ Return(p, i, PackFileInfo(p, t.file), answers)
        /\ UNCHANGED <<up, wishes, pool, c_data, requests, gaveUp, outlived, noise,
                       crashes, late>>

Threads(p) == {threads[p][i] : i \in DOMAIN threads[p]}

\* Where something will be answered that now runs or is in flight.
AnsweredTo(p) ==
    {t.back : t \in {u \in Threads(p) : u.state = "start"}} \cup
    IF \E t \in Threads(p) : t.state \in {"born", "copying"} THEN {c_data[p].back} ELSE {}

UnderWay ==
    {r.back : r \in requests} \cup {m.to : m \in answers} \cup
    UNION {AnsweredTo(p) \cup {t.back : t \in {u \in Threads(p) : u.state = "wait"}} :
             p \in Peers}

\* The ports of p at which no one waits any more for what is under way to them.
Overdue(p) == {port \in Ports : <<p, port>> \in UnderWay /\
                 \A t \in Threads(p) : ~(t.state = "wait" /\ t.port = port)}

\* GetPort, then the rest of the route goes to the next peer on it.  What is
\* overdue arrives, at no one, before p has taken MaxOutlived more ports.
Forward(p, i) ==
    LET t == threads[p][i]
    IN  /\ t.state = "start" /\ t.route # <<>> /\ pool[p] # <<>>
        /\ pool' = [pool EXCEPT ![p] = Tail(@)]
        /\ threads' = [threads EXCEPT ![p][i].state = "wait", ![p][i].port = Head(pool[p])]
        /\ requests' = IF Head(t.route) \in up
                       THEN requests \cup {[to |-> Head(t.route), route |-> Tail(t.route),
                              file |-> t.file, back |-> <<p, Head(pool[p])>>]}
                       ELSE requests
        /\ Overdue(p) # {} => outlived[p] < MaxOutlived
        /\ outlived' = [outlived EXCEPT ![p] = IF Overdue(p) = {} THEN 0 ELSE @ + 1]
        /\ UNCHANGED <<up, disk, wishes, download, c_data, answers, gaveUp,
                       noise, crashes, late>>

ReturnFirst(p, port) == <<port>> \o pool[p] \* mutant: push_front, as it once was
PortKept(p, port) == pool[p] \* mutant: it is not returned
ReturnPort(p, port) == Append(pool[p], port)

\* The process is gone, and what was under way to it.
Ends(p) ==
    /\ up' = up \ {p}
    /\ download' = [download EXCEPT ![p] = Idle]
    /\ threads' = [threads EXCEPT ![p] = <<>>]
    /\ requests' = {r \in requests : r.to # p}
    /\ answers' = {m \in answers : m.to[1] # p}

\* The port is returned, whatever was received on it.
Received(p, i, a, inFlight) ==
    /\ pool' = [pool EXCEPT ![p] = ReturnPort(p, threads[p][i].port)]
    /\ Return(p, i, a, inFlight)
    /\ UNCHANGED <<up, requests>>

\* The artificial noise of node 1 spoils what it received.  There is nothing to
\* replace in an empty answer: the exception ends the process.
MayBeNoisy(p, i, a, inFlight) ==
    /\ \/ Received(p, i, a, inFlight) /\ UNCHANGED noise
       \/ /\ p = Noisy /\ noise < MaxNoise /\ noise' = noise + 1
          /\ \/ a # Empty /\ Received(p, i, Spoilt, inFlight)
             \/ a = Empty /\ Ends(p) /\ UNCHANGED <<pool, disk>>
    /\ UNCHANGED <<wishes, c_data, gaveUp, crashes>>

\* The addresses that will be answered, after k other answers at most.
Answerable ==
    LET after[k \in 0..Cardinality(Peers)] ==
          IF k = 0
          THEN {r.back : r \in requests} \cup {m.to : m \in answers} \cup
               UNION {AnsweredTo(p) : p \in Peers}
          ELSE LET known == after[k - 1]
               IN  known \cup UNION {{t.back : t \in {u \in Threads(p) :
                       u.state = "wait" /\ <<p, u.port>> \in known}} : p \in Peers}
    IN  after[Cardinality(Peers)]

\* An answer comes; or ten seconds have passed: nothing will come, or too late.
Receive(p, i, m) ==
    /\ threads[p][i].state = "wait" /\ m.to = <<p, threads[p][i].port>>
    /\ MayBeNoisy(p, i, m.answer, answers \ {m})
    /\ UNCHANGED <<outlived, late>>

Timeout(p, i) ==
    /\ threads[p][i].state = "wait"
    /\ IF <<p, threads[p][i].port>> \in Answerable
       THEN late < MaxLate /\ late' = late + 1
       ELSE late' = late
    /\ outlived' = [outlived EXCEPT ![p] = IF Overdue(p) = {} THEN 0 ELSE @]
    /\ MayBeNoisy(p, i, Empty, answers)

\* No socket is bound to the port any more.
Discard(m) ==
    /\ m \in answers
    /\ \A t \in Threads(m.to[1]) : ~(t.state = "wait" /\ t.port = m.to[2])
    /\ answers' = answers \ {m}
    /\ UNCHANGED <<up, disk, wishes, download, threads, pool, c_data, requests,
                   gaveUp, outlived, noise, crashes, late>>

----------------------------------------------------------------------------
(* The listener, and the threads it starts.                                   *)

Born == [state |-> "born", route |-> <<>>, file |-> Absent, back |-> <<>>,
         port |-> host]

\* Every thread is given a pointer to the same c_data.
Listen(r) ==
    /\ r \in requests
    /\ Overlap \/ \A t \in Threads(r.to) : t.state \notin {"born", "copying"}
    /\ requests' = requests \ {r}
    /\ c_data' = [c_data EXCEPT ![r.to] =
                    [route |-> r.route, file |-> r.file, back |-> r.back]]
    /\ threads' = [threads EXCEPT ![r.to] = Append(@, Born)]
    /\ UNCHANGED <<up, disk, wishes, download, pool, answers, gaveUp, outlived, noise,
                   crashes, late>>

\* The thread copies the request, and then where the answer goes.
CopyRequest(p, i) ==
    /\ threads[p][i].state = "born"
    /\ threads' = [threads EXCEPT ![p][i].state = "copying",
                     ![p][i].route = c_data[p].route, ![p][i].file = c_data[p].file]
    /\ UNCHANGED <<up, disk, wishes, download, pool, c_data, requests, answers,
                   gaveUp, outlived, noise, crashes, late>>

CopyBack(p, i) ==
    /\ threads[p][i].state = "copying"
    /\ threads' = [threads EXCEPT ![p][i].state = "start", ![p][i].back = c_data[p].back]
    /\ UNCHANGED <<up, disk, wishes, download, pool, c_data, requests, answers,
                   gaveUp, outlived, noise, crashes, late>>

\* A peer fails: from outside, or by itself when an answer is sent back while its
\* global_nodeInfoList lacks the address, and getPathLength reads adj[-1].
Crash(p) ==
    /\ p \in up /\ crashes < MaxCrashes
    /\ crashes' = crashes + 1
    /\ Ends(p)
    /\ UNCHANGED <<disk, wishes, pool, c_data, gaveUp, outlived, noise, late>>

----------------------------------------------------------------------------
ThreadStep(p, i) ==
    \/ FindLocally(p, i) \/ Forward(p, i)
    \/ CopyRequest(p, i) \/ CopyBack(p, i)
    \/ (\E m \in answers : Receive(p, i, m))

PeerStep(p) ==
    \/ GetMinLoadNode(p) \/ GiveUp(p)
    \/ \E i \in DOMAIN threads[p] : ThreadStep(p, i)
    \/ \E r \in requests : r.to = p /\ Listen(r)
    \/ \E i \in DOMAIN threads[p] : Timeout(p, i)

Next ==
    \/ \E p \in Peers : Download(p) \/ PeerStep(p) \/ Crash(p)
    \/ \E m \in answers : Discard(m)

Spec == Init /\ [][Next]_vars

\* Some thread that can run does, a wait is over after 10 seconds, and what comes
\* too late comes; users may never start a download.
FairSpec ==
    /\ Spec
    /\ WF_vars(\E p \in Peers : PeerStep(p))
    /\ WF_vars(\E m \in answers : Discard(m))

----------------------------------------------------------------------------
(* Properties.                                                                *)

States == {"born", "copying", "start", "wait"}
Waiting(p) == {i \in DOMAIN threads[p] : threads[p][i].state = "wait"}

\* Shapes; and every port of a running peer is in its pool once, or with one
\* thread that waits on it.
TypeOK ==
    /\ up \subseteq Peers
    /\ disk \in [Peers -> [Files -> Contents \cup {Absent}]]
    /\ wishes \in [Peers -> Seq(Files)]
    /\ \A p \in Peers :
         /\ download[p].state \in {"idle", "choose", "ripple", "direct"}
         /\ \A i \in DOMAIN threads[p] :
              /\ threads[p][i].state \in States
         /\ gaveUp[p] \subseteq Files
    /\ outlived \in [Peers -> Nat]
    /\ noise \in 0..MaxNoise /\ crashes \in 0..MaxCrashes /\ late \in 0..MaxLate
    /\ \A p \in up :
         /\ Len(pool[p]) + Cardinality(Waiting(p)) = PoolSize
         /\ Ports = {threads[p][i].port : i \in Waiting(p)} \cup {pool[p][i] : i \in DOMAIN pool[p]}

\* A port of the pool is not taken again while anything is under way that will
\* be answered to it: a late answer never meets the next request on its port.
FreshPorts == \A p \in up : pool[p] # <<>> => <<p, Head(pool[p])>> \notin UnderWay

\* Under the name of a file a peer has that file or nothing, in spite of noise
\* and of answers that come after their time.
FileIntegrity == \A p \in Peers, f \in Files : disk[p][f] \in {f, Absent}

\* A file is globally unavailable only if every peer listed for it has failed or
\* has lost it, whatever became of the peers on the way to it.
Unavailable ==
    late = 0 =>
        \A p \in up : \A f \in gaveUp[p] : (Holders[f] \ Stale[f]) \cap up \subseteq {p}

\* Every download ends, in spite of failures, late answers and bad checksums:
\* users ask for a finite number of them, and in the end none is under way.
DownloadsEnd == <>[](\A p \in Peers : download[p].state = "idle")
============================================================================
