# Formal models of Intro-Distributed-System

The repository holds three course projects on distributed systems. This directory holds TLA+
modules translated from their source, TLC configurations that check them on small instances, and
proofs checked by TLAPS. Paths below are relative to `src/`; `Server.cpp` and `BB_system.cpp`
without a directory are those of `Project2/Server`.

## 1. The system

### Project 1: publish/subscribe

| part | state | operations | interacts with |
|---|---|---|---|
| registry (`Project1/Registry/super_server.cpp`) | `g_serverList`, shared by two threads without a lock | Register, DeRegister, GetList; heartbeat to every server every 5 s, 2 s timeout, a silent server is erased | group servers (UDP echo), clients (UDP list) |
| group server (`Project1/Server/communicate_server.c`, `communicate_svc.c`) | `g_clientList` (at most MAXCLIENT), each with its filters | RPC: join, leave, subscribe, unsubscribe, publish, ping; sends an article by UDP to each matching client, once | clients, registry |
| client (`Project1/Client/communicate_client.cpp`) | current server, registry address, liveness flag | user commands; ping every 5 s, on failure a new server from the registry's list and a new join | both |

Correct when: the list converges to the live servers; a matching article reaches a subscriber
exactly once and no other client; a client survives the failure of its server. Hard: the list is
iterated and erased by two threads, one of which waits with an iterator in its hand; a late heartbeat answer
counts as a death; a server registers before it can answer; a client's search for a server races with
the registry's notice; a failover loses the subscriptions.

### Project 2: bulletin board

| part | state | operations |
|---|---|---|
| client (`Project2/Client/client.cpp`) | the board it was last shown, numbered from 1 | Post, Reply, Read, Choose, each one blocking request to a random server |
| server base (`BB_system.cpp`) | `articles`, `SIPs`, `coordinatorIP`, `IsCoordinator` | listen thread: POST, READ, REPLY and membership commands, one at a time |
| sequential option (`seq_server`, Server.cpp 29-374) | `ID` and `ack_num` at the primary | W2 forward, W3 update, W4 acknowledgement, W5 completion on a second thread |
| quorum option (`qum_server`, Server.cpp 790-1714) | `ID`, `VER` per server | coordinator drives version polls, writes and synchronization; a third thread synchronizes every 8 s |
| read-your-write option (`LocalWrite_server`, Server.cpp 379-784) | `ack_num` at each coordinator | the coordinator moves to the server that writes |

Correct when: all reads show one order of articles (sequential); a client sees its own writes at any
server (read-your-write); an acknowledged write stays readable (quorum, and the others); a request is
answered. Hard: two threads per server (three in the quorum option) over one vector, several
requests in flight through one primary, datagrams out of order, ports that are bound only
while somebody waits, and a role that moves.

### Project 3: simple xFS

| part | state | operations |
|---|---|---|
| tracking server (`Project3/Server/server.cpp`) | list of peers and their files, in memory, shared by three threads | FIND, UPDATELIST, HEARTBEAT |
| peer (`Project3/Client/client.cpp`) | file list, load, pool of ports, latency graph, view of the other peers | Download (find, least load, forward along the shortest path, checksum, retry with the next peer), serving downloads, recovery heartbeat |

Correct when: a download ends with the file or with the news that it is unavailable, the server's list
recovers after a restart ("any nodes or the server can go down and then recover",
`Project3/README.md`), ports and load return to rest. Hard: shared request records
between threads, answers taken by the wrong thread on a shared port, lists that only grow.

## 2. Plan

1. (done) Board storage and clients: `Articles`, `BoardClient`.
2. (done) Sequential option `SeqServer`, its abstract board `SequentialBoard`, its proofs
   `SeqServer_proofs`.
3. (done) Read-your-write option `LocalWriteServer`; quorum option `QuorumServer`.
4. (done) Publish/subscribe: `Registry`, `GroupServer`, and their composition with clients, `PubSub`.
5. (done) xFS: `TrackingServer` and the peers that use it, `FileCatalog`; downloads between peers,
   `PeerDownload`; the routes, `LatencyGraph`, with their proofs `LatencyGraph_proofs`.
6. Membership of the board (RegisterS, FreshIPs, LeaveS) in the middle of a write; the debug command of xFS.
7. (done) Proofs of the safety properties of the three protocols, of publish/subscribe, of the catalog and of the
   downloads: a proof module for each, on a common module of lemmas, `BoardClient_proofs`.
8. (done) `EqualProgress` and `ReadOrder` of the sequential option without the assumption on replies. Next: what holds of
   the other two protocols when requests overlap.

## 3. Modules

| module | models | notes |
|---|---|---|
| `Articles` | the vector of articles: sort, lookup, append, what is sent | pure operators, no state |
| `BoardClient` | the clients | extended by the three protocols, which answer through `Tell` and `Show` |
| `SeqServer` | sequential option | one action per handler; `Forward`, `UpdateBackup`, `Ack` are the commands of the PRIMARYPORT thread |
| `SequentialBoard` | what the sequential option promises | a board that only grows, reads that show a prefix |
| `LocalWriteServer` | read-your-write option | a listen thread in a move is a `phase`; PRIMARYPORT sockets are queues |
| `QuorumServer` | quorum option | every thread that makes calls is a `task`; a call is one step at the called server |
| `Registry` | registry of Project 1 | its two threads; the node that the heartbeat thread is at is `it`, `freed` if it was erased |
| `GroupServer` | group servers | extends `Registry`; the calls are operators on the list of one server; start-up in three steps |
| `PubSub` | clients | extends `GroupServer`: main thread, ping thread and the whole of Project 1 |
| `TrackingServer` | tracking server of Project 3 | its three threads, crash and restart |
| `FileCatalog` | peers as users of the tracking server | extends `TrackingServer`: main and heartbeat thread of each peer |
| `PeerDownload` | `Download`, forwarding, the listener, the port pool | the lists of holders and the routes are constants |
| `LatencyGraph` | class `Graph` | one action per relaxation; the routes it ends with are what `PeerDownload` takes as given |
| `MCSeqServer`, `MCLocalWriteServer`, `MCQuorumServer`, `MCPubSub`, `MCFileCatalog`, `MCPeerDownload` | | instances for TLC: symmetry, the list of servers, filters, shares, routes |
| `BoardClient_proofs` | | lemmas about the vectors of articles, clients, lists and counts; extended by the next three |
| `SeqServer_proofs`, `LocalWriteServer_proofs`, `QuorumServer_proofs` | | theorems about the three protocols |
| `PubSub_proofs` | | theorems about the registry, the group servers and the clients together |
| `FileCatalog_proofs`, `PeerDownload_proofs`, `LatencyGraph_proofs` | | theorems about the three parts of xFS |

Correspondence, sequential option. `articles[s]`, `ID` and `ack_num` are the variables of those names.
`w2`, `w4`, `w5` are sets of datagrams in flight; the sequence `w3[s]` keeps the order of sending, and
the constant `Ordered` says whether it is kept on arrival. `serving[s]` is the client
whose request the listen thread of `s` is blocked on; while it is set the server takes no other client
request, as in the code, where the handler runs inside the loop of `listen`. A W5 may be lost for two
reasons the code has: the port is bound only inside `receive`, and W2 is sent before that. `log` is a
history variable. Records carry a `post` number in place of a text, and datagrams some fields (`from`,
`post`) that only keep two of them apart.

Correspondence, read-your-write option. `port[s]` holds what is under way to the PRIMARYPORT of `s`,
`back` the boards sent to a waiting listen thread. A handler that calls MoveItemX is three
steps: up to its `receive`, from there to the end of MoveItemX, and the last send, which reads
`coordinatorIP` again. `taken` holds the clients whose request has been taken and not yet answered.

Correspondence, quorum option. `task` has a record for FORWARD_handler, for the heartbeat and
for each listen thread in Reply_handler. Steps `poll`, `write`, `fetch`, `synch` are the calls to one
server each. A coordinator in FORWARD_handler does not answer calls from others (`Answers`).
The quorum is chosen by the code's shuffle, not as any subset: with rand()%i instead of rand()%(i+1) the
order is one cycle (`Orders`), so that for three servers and Nr = 2 there are two quorums.
Writes go to Nr servers (line 1273 passes Nr); Nw is validated and otherwise unused.

Correspondence, publish/subscribe. A remote call with its answer is one step: `communicate_prog` is the
call of a client, `join`, `leave`, `subscribe`, `unsubscribe` give the server's list after it, `Recipients`
the clients an article is sent to. A client that calls a server that is gone is ended by `clnt_create`, or
goes on with "call failed" if the port mapper still knows the port (`NoAnswer`). A server's
start has the order of the code: Register (`Start`), then the bind of the heartbeat port in a thread of its own (`Bind`)
and `svc_register` (`Serve`), in either order; until then a ping to it is lost (`early`), and `port` still names the
process before it, since the port mapper is told neither of a crash nor of an exit. `handle` remembers which start of
a server a client's CLIENT is for.

`it` is the address in the node the heartbeat thread is at, `asked` the server that was pinged; the code's `it--` before
the erase and the loop's `it++` lead to `After(it)`. If Deregister erases that very node (`freed`), the thread reads freed
memory: the address it removes may still be there or not, and the loop may end the process, go on at any server of
the list or its end, or at other freed memory (`Advance`). A server that registers meanwhile may be given the memory
(`Register`): the thread is then at the new server's node, and drops that server when the wait is over.

`registered`, `believes`, `astray`, `early`, `strayed` and `silent` are history variables: running servers whose Register
was the last datagram taken from them, the filters of the calls that were answered, the clients that have given commands
to a server they are not on the list of, servers that were pinged too early, whether the iterator's node
was ever erased by the other thread, and the listed servers that have been mute since the round began.

Correspondence, xFS catalog. `thread[p][t]` has the position of the main and the heartbeat thread of a
peer, whether it waits in `receive`, for which port, and what it got. There is one port per operation, so
that `Receive` takes any answer for the operation, also one to the other thread or to an earlier call.
UPDATELIST is one step per file (`PushFile`), with FIND in between. A crash of the server loses the list
and the requests; answers under way stay under way. `Fetched` is what a download changes of this: a file on
the disk, and an UpdateList that reports the list loaded at the start (the new file is not in it).

Correspondence, download. A call of ForwardDownload is a record in `threads[p]`: of Download itself
(`back` is `host`) or of a thread of the listener. `c_data[p]` is the record that the listener fills for each of
them. `pool[p]` is the queue of ports. A port is `Overdue` while something is under way to it and no thread waits there any
more; `MaxOutlived` bounds how many ports the peer takes meanwhile (`outlived`). A request or an answer to a peer that is
down is lost. A thread that sends an answer back looks for the address in `global_nodeInfoList`, which each heartbeat clears
and fills again, and reads `adj[-1]` if it is not there (client.cpp 909-910): what that does is undefined, and in the model it
is one of the ways to fail of a peer (`Crash`), bounded with the others. `Addresses` has what `LoadInfoListByID` calls CHEATING: a node on the route that is not a holder gets
the address of the downloader itself. Node 1 spoils answers now and then, as the code does for testing.

Correspondence, graph. `dist`, `path`, `pq` are the variables of those names; an array of vertices closed by
-1 is a sequence. `todo` holds the arcs that the inner loop has not looked at; it takes them in the order
of the list, the model in any order. `empty()` in the code empties nothing, and is called once.

What is abstracted, everywhere: texts (update_backup cuts the last character of a text at Server.cpp:106,
and a board of more than 8000 bytes is cut by the receiver's buffer); user interface and logging;
sorting is taken as stable, which std::sort is for at most 16 articles. Accesses of two threads to one
vector are single steps; the code has no lock, so this is an assumption.
Clients, servers and membership of the board are fixed, addresses valid, and SIPs the same at every server. A client
is assumed to have bound its port when its answer comes; a client whose answer is lost does nothing more,
a behaviour the models contain since no step is forced.

## 4. Runs

All runs but `latency_graph` set CHECK_DEADLOCK FALSE: once all posts are issued and answered, once a listen
thread waits for a lost datagram, or once processes have ended, the system really may stop.

| run | configuration | result |
|---|---|---|
| `seq_log` | 2 servers, 2 clients, 3 writes, one initial slot, W3 in order, replies to displayed articles | `TypeOK`, `LogPrefix`, `EventuallyEverywhere`, `ImplementsBoard` hold |
| `seq_stray` | as above, and replies to the article number 1 even before it exists | `ReadOrder`, `EqualProgress`, `SlotBalance` hold |
| `seq_early_ack` | 2 servers, 2 clients, 2 writes | `AckedEverywhere` violated |
| `local_settled` | 3 servers, 2 clients, 3 writes, datagrams in any order, a stray reply, requests one by one | `TypeOK`, `Agreement`, `SlotsCountOneRequest`, `ReadYourWrites` hold |
| `local_read_your_writes` | 2 servers, 1 client, 1 write | `ReadYourWrites` violated |
| `quorum_alone` | 3 servers, 2 clients, 2 writes, Nr = Nw = 2, coordinator's threads one at a time | `TypeOK`, `AckedEverywhere`, `Agreement`, `MonotonicReads` hold |
| `quorum_heartbeat` | 3 servers, 1 client, 1 write, Nr = 1, Nw = 3 | `AckedSomewhere` violated |
| `latency_graph` | 4 vertices, up to 4 latencies of 0, 1 or 3, any number of calls | `TypeOK`, `RoutesAreWalks`, `RoutesFit`, `Relaxed`, `Shortest`, `Returns` hold |
| `pubsub` | 2 servers with one place each, s1 started twice, s2 may be given Deregister, one server that crashes or is deregistered, one late answer or lost datagram, 2 clients | `TypeOK`, `RoundClears`, `LiveListed`, `DeadDropped`, `Served`, `Remembered`, `FailsOver` hold |
| `xfs_catalog` | 2 peers (one started twice), 2 files, one crash of the server, one datagram lost | `TypeOK`, `PeersSurvive`, `OnlineIsListed`, `Relisted` hold |
| `xfs_restart` | as above, nothing lost, the server back at once | `PeersSurvive` violated |
| `xfs_download` | 3 peers, 0 and 2 reach each other by way of 1, 2 files, a stale entry, a pool of 4 ports, one crash, one late answer, one spoilt answer | `TypeOK`, `FreshPorts`, `FileIntegrity`, `Unavailable`, `DownloadsEnd` hold |

Bounds. `MaxWrites` bounds posts and replies, the only source of unbounded growth; reads are
not bounded. Three writes are needed for a revoked ID to meet two articles; two clients for two writes in
flight. `InitialSlots` is 1 instead of 100, so that both a shared slot and a grown vector occur.
Two servers suffice for the sequential option, where the other servers differ only in their own queue;
three are used where a third party matters (a move that others hear of, a server outside the quorum).
In `PubSub` one server that crashes or is deregistered (`MaxEnds`) and one late answer or lost datagram (`MaxLate`) are
enough for each mechanism to be used and to fail: s1 can be added to the list in place of s2, on whose node the heartbeat
waits, and a second start shows a client that comes to a server without its filters. The other client only takes a place
at a server, before the modelled one comes or after. Three
peers are the least for a forwarded download; the peer in the middle downloads as well, so that its ports are
used for both. Four vertices allow a route that is replaced twice, and two routes of equal length.
In `QuorumServer` a lookup through `articles.end()` returns any hierachy up to `MaxWrites`.

Fairness. `FairSpec` assumes weak fairness of `Forward` and of each server's `UpdateBackup` only:
these run in loops around `recvfrom` on threads that wait for nobody else. Nothing is assumed of clients
or listen threads of the board, which may block for ever. In `PubSub` the heartbeat thread of the registry and the
ping thread of each client run in loops in which every wait has a timeout, and a server that was started comes to the bind
and to `svc_register` unless it ends (`StartsUp`). In `FileCatalog` the threads of the server
are loops around `recvfrom`; those of a peer wait at most 10 seconds at a time. A heartbeat that finds a command in
`Communicate` waits for the next moment (Overlap, below), and moments come back, hence strong fairness, as for the
UPDATELIST thread, which may be busy with the list of another peer. In `PeerDownload` some thread that can go on
does, and what is under way to a port where nobody waits any more arrives and is discarded at some time. In `LatencyGraph` a call goes on. Users, operators and the network owe nothing: nobody must send a command,
restart a server or leave.

Restrictions of the environment. In `pubsub` a server does not come back between a ping and the registry's
notice that nobody answers (`QuickRestart`). A client's search may come before or after that notice, since the
code's 6 seconds are no bound on 5 seconds between rounds and 2 for each mute server. `LiveListed` is about runs in which
nothing is late, and not about servers that missed a ping because they had not bound their port: a server dropped in
error never registers again. It and `RoundClears` end where a Deregister erases the node of the iterator (`strayed`; see
below what comes of that); `DeadDropped` and `FailsOver` ask only that the thread does not stay in freed memory for ever.
In `xfs_catalog` the two threads of a peer do not call at the same time (`Overlap`) and no
answer takes more than 10 seconds (`MaxLate`): with either, the heartbeat may take an answer EMPTY that a command
asked for, and TLC finds a peer ended by it. In `xfs_download` a listener's thread copies its request before the next
one is taken (`Overlap`): else a file may be stored under the name of another.

### What the violations show

* `seq_early_ack`. A free slot is one that counts 0, and it counts 0 until the first W4. Two posts in
  flight share a slot; one server's W4 for both make up SIPs.size(), and a client hears "1" when no
  other server has its post. `SlotBalance` shows that nothing worse follows: counts and
  outstanding acknowledgements always add up to whole requests, so no slot is poisoned.
* `local_read_your_writes`. The answer to the writer leaves before the update does.
* `quorum_heartbeat`. The heartbeat writes back what it read before the post.
* `xfs_restart`. A server that restarts within 5 seconds answers the next heartbeat, and then EMPTY to the FIND
  that follows it. The peer takes the word for a node number and is ended by the exception: the list is never
  sent again. `Relisted` in `xfs_catalog` shows that recovery works once peers have noticed the failure.

Known and not a run of its own. Board: with reordered W3 datagrams (`Ordered = FALSE`) and refused replies the sequential
option violates `ReadOrder`, since a revoked ID may be given to two articles; two overlapping moves
of the read-your-write option may leave no coordinator; a quorum coordinator that is the newest server
itself waits for a board it sent to its own unbound port (step "hung"). Registry: while the heartbeat thread waits for an
answer, the server may be deregistered, and the node of the next server that registers be given its memory; if nobody
answers, the address to remove is read from the node (super_server.cpp 238-239), and a server is dropped that answers
every ping. TLC finds this with nothing late or lost when `~strayed` is left out of `LiveListed`. Failover: a client
sleeps 6 seconds before it asks for the list, the registry 5 between rounds and then waits 2 for each mute server; the first
address may still be that of the server that has just ended, and `clnt_create` in the JOIN that follows ends the client
(communicate_client.cpp 75-78) although another server is listed and serves. This too TLC finds with nothing late: no
property says that a client survives, and `FailsOver` is about the clients that do.

The pass runs of the read-your-write and quorum options restrict the environment in the matching way (`Settled`, `Overlap`):
they show what the protocols do when requests do not overlap, and the violations that the
restriction is needed.

## 5. Proofs

Every theorem holds for any sets of servers, clients, peers, files and so on, and for any value of the bounds; the
constants satisfy the assumptions named in the modules, which TLC evaluates in the runs. Where a run restricts the
environment by a constant (`Overlap`, `QuickRestart`, `Settled`, `MaxLate`), the theorem has the same restriction, as
its hypothesis. Theorems that have none hold for the overlapping, reordered or late cases too.

| property | theorem | hypotheses |
|---|---|---|
| `SeqServer`: `TypeOK`, `SlotBalance` | `TypeCorrect`, `SlotsBalanced` | |
| `ReadOrder`, `EqualProgress` | `ReadOrderCorrect`, `ProgressEqual` | W3 in order |
| `LogPrefix`, `ImplementsBoard` | `LogPrefixCorrect`, `BoardImplemented` | W3 in order, no stray replies |
| `LocalWriteServer`: `TypeOK` | `TypeCorrect` | |
| `Agreement`, `SlotsCountOneRequest`, `ReadYourWrites` | `AgreementCorrect`, `SlotsCorrect`, `ReadYourWritesCorrect` | `Settled` |
| `QuorumServer`: `TypeOK` | `TypeCorrect` | |
| `AckedEverywhere`, `Agreement`, `MonotonicReads` | `AckedCorrect`, `AgreementCorrect`, `MonotonicCorrect` | `~Overlap` |
| `PubSub`: `TypeOK`, `RoundClears`, `LiveListed`, `Remembered`, `Served` | `TypeCorrect`, `RoundClearsCorrect`, `LiveStaysListed`, `RememberedCorrect`, `ServedCorrect` | |
| `FileCatalog`: `TypeOK` | `TypeCorrect` | |
| `PeersSurvive`, `OnlineIsListed` | `PeersSurviveCorrect`, `OnlineListedCorrect` | `~Overlap`, `~QuickRestart`, `MaxLate = 0` |
| `PeerDownload`: `TypeOK` | `TypeCorrect` | |
| `FileIntegrity`, `Unavailable` | `IntegrityCorrect`, `UnavailableCorrect` | `~Overlap`, and `[]FreshPorts` |
| `LatencyGraph`: `TypeOK`, `RoutesAreWalks`, `RoutesFit`, `Relaxed`, `Shortest` | `TypeCorrect`, `RoutesWalk`, `RoutesFitArray`, `ExpandedRelaxed`, `LeastLatencies` | |

### Sequential option

`SeqServer_proofs` proves:

* `TypeCorrect`: `Spec => []TypeOK`. The invariant is inductive as stated: that a W3 or W4 in flight names
  a slot needs that `ack_num` never shrinks, and that a count stays below N needs the reset in `Counted`.
* `LogPrefixCorrect`: `Spec => []LogPrefix`, assuming ordered delivery and no stray replies.
* `SlotsBalanced`: `Spec => []SlotBalance`, with replies refused and W3 in any order.
* `BoardImplemented`: `Spec => ImplementsBoard`, assuming ordered delivery and no stray replies: initial states map
  to initial states, `Forward` to `Add`, `Read_handler` to `Read`, every other step to a stutter.
* `ProgressEqual`: `Spec => []EqualProgress` and `ReadOrderCorrect`: `Spec => []ReadOrder`, assuming ordered delivery
  only: replies may be refused and IDs revoked.

The argument. `LogPrefix` is not inductive: the strengthening says that what a server has stored followed
by what is queued for it is the log, that log entry k has ID k, that a W2's post is not in the log yet,
that no answer under way is negative, and that the reply IDs in flight name articles their server will have by
then. With it a refusal never happens, `ID` is the length of the log, and sorting a server's
vector changes nothing: the lemma `RankInjective` (ranks are a permutation) and its consequences give
`SortByID(a) = a` for a numbered vector. The board refinement follows because a sorted prefix is what
`Read_handler` shows.

Without the assumption on replies a server's vector is no prefix of the log, and its order depends on when reads sorted
it. `ReplayInv` names the boards the broadcasts make of an empty one, one after the other: a server's vector, sorted, is
the sorted board before the first broadcast in its queue. That an update keeps this rests on lemmas about
the sort (`BoardClient_proofs`): it is stable and determined by that (`SortArranges`, `SortUnique`), so sorting again
changes nothing (`SortTwice`), nor does sorting before an article is appended (`SortAppended`) or looked up
(`SortLooksUp`). For `ReadOrder`, `OrderInv` orders the broadcasts by ID, and by age where a revoked ID was
given again: articles of one ID stand in a vector in the order of their broadcasts (`TiesInOrder`), which a stable sort
keeps, and what a client was shown follows the order too. The order is asymmetric because no post is
broadcast twice (`OnceOnly`).

For `SlotBalance` the invariant counts, for a slot, the pairs of a server and a post of which the server still has the update
in its queue or its W4 is in flight (`Expected`). A post is broadcast once (`OnceOnly`), hence a pair stands for one
datagram (`Apart`): Forward adds a pair for each server, `UpdateBackup` leaves the set alone, `Ack` takes one away and adds
one to the count, or takes N - 1 off it.

Assumptions used: `ClientAssumption` (finitely many servers, the primary among them),
`SeqAssumption`; in the theorems on `LogPrefix` and the board `Careful` (`Ordered` and no stray IDs), in those on
`ReadOrder` and `EqualProgress` `Ordered`.

### Read-your-write option

`TypeOK` is not inductive: `TInv` adds that a server never asks itself for the board or announces itself to itself
(`NotToItself`), that a request which was taken is in one port (`InOnePort`), and that a listen thread in a move serves
a client nobody else serves (`ServedOnce`). That is what makes a second answer to a client impossible.

With requests one by one (`Settled`), a write goes through stages, and the invariant `BInv` is a disjunction of them
(`Stage`): all is calm; the board is being fetched from the coordinator `p` to the server `s` written at (`Moving`); `s`
leads, and others have still to hear of it (`Leading`); it has handed the request to itself (`Asked`); it spreads the
update (`Spreading`). A server can be in only two states with respect to an update: it has it in its port and the
board of before, or it has stored it. `Tally` says that the slot counts exactly the servers whose acknowledgement has
been taken, as a cardinality, so that the slot is full, or zero again, when the last one is in. Since an announcement
`broadcastIP` may be in a port together with the update and the ports keep no order, every stage after `Moving` has to
say that any server may still have one (`Heard`). The last stage is calm again when all ports are empty.

### Quorum option

`TInv` says what each kind of thread does (`TaskOK`): that a task which fetches, answers or asks has a server to do it
at, and one that writes, polls or synchronizes has servers left, without which `Head` of the empty list
would be taken; and that a taken request is in one place (`Requests`, `Once`). The three theorems about
boards need that the heartbeat and FORWARD_handler do not work at a time (`Exclusive`). A post is then acknowledged and
everywhere, or the one that FORWARD_handler is writing, or nowhere (`Placed`); the one being written is at the servers of the
quorum that the write has got to, then in the whole quorum, then in the board fetched, since the newest server by
version is one of the quorum, then everywhere (`Written`). Two boards differ only in between (`Same`): after the
synchronization all are the copy of one, and a copy has each post of the original once. `Views` keeps what
clients were shown within the acknowledged posts and the one that spreads, and gives `MonotonicReads`. No property of the
quorum's size is used: the synchronization, not the overlap of quorums, is what makes reads see the post.

### Publish/subscribe

One invariant, `IInv`, gives all five theorems. `RoundClears` needs that each server which has been mute since the round
began, and is still listed, stands at or behind the iterator (`Ahead`), and that the ping to such a server is lost: the thread
drops the server it is at and goes on to the one behind, and an erase by the other thread keeps the order of the rest,
whether before or behind the iterator. All this ends when that thread erases the iterator's own node (`SilentAhead`). That a
mute server has not bound its port (`SilentUnbound`) is why no answer saves it. `LiveListed` needs that a server whose
ping was lost does not run, or had not bound the port in time (`LostIsDown`). `Served` and `Remembered` need, for
each client, that it is a member of one running server only, with the filters its commands made (`MemberOfOne`), that
a server has members only once it is known to the port mapper (`SeatServes`), and where the ping thread of a client is
(`ThreadKnows`, `MemberAtHost`).

### xFS catalog

`TypeOK` holds without hypotheses. For the other two theorems, `IInv` says that of a peer at most one thread calls
(`OneCall`) and at most one datagram is in flight for it, for the thread that waits (`InFlight`), so that an answer is
the one that was asked for; that "SUCCESS" is only said of a list that is there for as long as the server is
(`Told`, `Knows`); and that a heartbeat that asks for the global file does so only while its peer is listed with it, hence is
told some node and never EMPTY. With a second thread calling, a late answer or a server restarted unnoticed each of these
fails, and the runs find a peer ended by it.

### xFS downloads

`TypeOK` includes that each port of a running peer is in the pool once or with one thread that waits. `TInv` adds that a thread
which has not copied its request finds one (`Handed`), that a peer that is down has no threads (`Gone`), and that at most
one thread answers to Download itself (`Calls`).  `FileIntegrity` needs that whatever is under way to an address is about the file that is waited for
there (`Matching`), which breaks when a port is taken from the pool while an answer to its former use is
still under way. `FreshPorts` says that this does not happen. It is a hypothesis of this theorem and the next, `[]FreshPorts`, and an
invariant of the run: the pool is a queue, so that a port comes back only after all others. In `xfs_download` ports do come round: the head of the queue
has been used before while another answer is overdue. Four ports are as few as that run can do with: with three, or
with `MaxOutlived = 2` and four, TLC finds `FreshPorts` violated, and so it is with a pool that is used as a stack.
In the code there are 901 ports.

`Unavailable` is about every step between a question and its answer. By `Tried`, who has the file stays on the list of
nodes until a download is given up: a node leaves the list only when it has been asked directly and there was no answer. That there is
one, is `Answering`. While Download waits for a direct question, all that is under way to its port is that question, to
the node itself and with no route left, or an answer to it, which is not empty (`Direct`), and something is (`Coming`):
the request, or a thread of the node that has copied half of it, all of it, or answered. `FreshPorts` is what makes it hold
when the question goes out; `Routed`, what a thread still has to copy; `Kept`, that the file
has not been lost when the thread looks for it. A wait that is over without an answer is then over too early, which
`late` counts, and that is the one place where `Answerable` is looked into: its recursion starts from all that
`Coming` names (`AtOnceAnswerable`). The invariant is `UInv`, the conjunction of these.

### Latency graph

`LatencyGraph_proofs` proves, from `GraphAssumption` alone:

* `TypeCorrect`: `Spec => []TypeOK`, and with it that `INT_MAX` is never added to.
* `RoutesWalk`: `Spec => []RoutesAreWalks`; `RoutesFitArray`: `Spec => []RoutesFit`.
* `ExpandedRelaxed`: `Spec => []Relaxed`.
* `LeastLatencies`: `Spec => []Shortest`.

The argument. Within a call distances only fall, so what is queued or being expanded has been reached, and
`dist[src]` stays 0: the route of `src` is never written and no arc from a vertex to itself is taken. A relaxation
therefore copies the route of another, reached vertex (`RoutesAreWalks`). `RoutesFit` is not inductive: the
strengthening says that what a route passes is no further than where it leads (`Nearer`), so a vertex that a relaxation
brings nearer is not on the route it is given; no route, those left by earlier calls included, ever has `src` or a vertex
twice (`NoneTwice`), and the pigeonhole principle bounds its length. `Relaxed` becomes inductive arc by arc
(`LookedAt`): an arc that was looked at stays satisfied until the vertex it leaves is queued again.
`Shortest` compares two recursions with `dist`. After a call nothing is queued, so every reached vertex is expanded
and `Relaxed` says that no arc shortens a distance: by induction on the number of hops, no `AtMost[n]` is below `dist`
(`NoneLess`). The other way, the distance of a vertex is what the arcs of its route cost (`Priced`, an invariant with the
costs up to each hop as witness), of at most `V` hops by `RoutesFit`, and so many hops cost no less than `AtMost` (`NoneCheaper`). `Along`
takes the least arc between two vertices, hence costs no more than that price, and no less than `dist`.

Both this proof and that of `Unavailable` need induction over data. The induction theorems of the library
take an operator as parameter and cannot be used here; the proofs state induction about a set of naturals
instead, from its least element (`Smallest`), and get from it that the functions the modules define
recursively exist and obey their recursion (`Recursion`).

### Only model-checked

* All liveness (`EventuallyEverywhere`, `Returns`, `DeadDropped`, `FailsOver`, `Relisted`, `DownloadsEnd`): liveness under
  fairness is out of the prover's reach.
* `FreshPorts`, the hypothesis on the pool of ports: it is a matter of numbers, of more ports than a peer takes while an
  answer is overdue, and not true of any pool.
* What the three protocols and the catalog do when requests overlap, of which the violations are examples.

## 6. Not modelled

Membership of the board, the SYNCH branch of the
quorum coordinator (no client command reaches it), two threads receiving on one port (undefined
behaviour), tokenizers and socket wrappers (their effect is in the models), generated RPC code, and
`Server2.cpp`, an earlier draft no makefile builds.

Project 1: the RMI format, `listC`, `listS` and `list`, which print; a second join command of a client, which
would start a second ping thread; RPC retransmissions, which may repeat a publish. Project 3: GETLOAD (`Load` is
never initialized, so any holder may be chosen), the debug command, the bytes beyond a datagram's buffer, files that
are read while String2File rewrites them, and the artificial latency of an answer, which is time in flight (`getPathLength(-1, ..)`, see above, is a crash).
