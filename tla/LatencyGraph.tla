---------------------------- MODULE LatencyGraph ----------------------------
(* Project3, class Graph of Client/client.cpp: the latencies a peer loads when *)
(* it starts, and shortestPath, by which it routes its downloads.              *)
(*                                                                             *)
(* shortestPath has no set of settled vertices: a vertex goes back to the      *)
(* queue whenever its distance falls, and its route is copied from that of the *)
(* vertex being expanded.  dist is cleared by every call, path never is.       *)
(* The array path[src][v] holds a route followed by -1: a sequence here.       *)
EXTENDS Integers, Sequences, FiniteSets

CONSTANTS
    V,        \* MAX_NODENUM
    src,      \* nodeID of the peer
    Weights,  \* latencies a line of the file may have
    MaxLines, \* lines of the file
    INT_MAX

Node == 0..(V - 1)

ASSUME GraphAssumption ==
    /\ V \in Nat /\ src \in Node
    /\ Weights \subseteq Nat
    /\ MaxLines \in Nat /\ INT_MAX \in Nat \ {0}

VARIABLES
    lines, \* lines of the latency file read so far
    adj,   \* adj[u] for every u, as arcs
    dist, path,
    pq,    \* pairs <<vertex, distance when pushed>>
    todo,  \* arcs of the vertex being expanded, not looked at yet
    pc

vars == <<lines, adj, dist, path, pq, todo, pc>>

Arc == [from : Node, to : Node, w : Weights]

Init ==
    /\ lines = 0 /\ adj = {}
    /\ dist = [v \in Node |-> INT_MAX]
    /\ path = [v \in Node |-> <<>>]
    /\ pq = {} /\ todo = {}
    /\ pc = "load"

\* One line of LoadLatencyList; a latency holds both ways.
addEdge(u, v, w) ==
    {[from |-> u, to |-> v, w |-> w], [from |-> v, to |-> u, w |-> w]}

LoadLine ==
    /\ pc = "load" /\ lines < MaxLines
    /\ lines' = lines + 1
    /\ \E u, v \in Node, w \in Weights : adj' = adj \cup addEdge(u, v, w)
    /\ UNCHANGED <<dist, path, pq, todo, pc>>

\* The beginning of a call; a call may follow another.
Cleared == [v \in Node |-> IF v = src THEN 0 ELSE INT_MAX]

StartAll == {<<v, Cleared[v]>> : v \in Node} \* mutant: every vertex is pushed
Start == {<<src, 0>>}

shortestPath ==
    /\ pc \in {"load", "done"}
    /\ dist' = Cleared
    /\ pq' = Start
    /\ pc' = "run"
    /\ UNCHANGED <<lines, adj, path, todo>>

Nearest(e) == \A o \in pq : e[2] <= o[2]

RestKept(e) == pq \* mutant: pq.pop() is forgotten
Rest(e) == pq \ {e}

Pop ==
    /\ pc = "run" /\ todo = {}
    /\ \E e \in pq :
         /\ Nearest(e)
         /\ pq' = Rest(e)
         /\ todo' = {a \in adj : a.from = e[1]}
    /\ UNCHANGED <<lines, adj, dist, path, pc>>

\* One arc of the vertex being expanded.
ShorterOrEqual(a) == dist[a.to] >= dist[a.from] + a.w \* mutant
FirstReached(a) == dist[a.to] = INT_MAX \* mutant: a distance never falls
Shorter(a) == dist[a.to] > dist[a.from] + a.w

RouteOnto(a) == Append(path[a.to], a.to) \* mutant: appends to its old route
RouteTo(a) == Append(path[a.from], a.to)

Pushed(a) == pq \cup {<<a.to, dist[a.from] + a.w>>}

Relax(a) ==
    /\ a \in todo
    /\ todo' = todo \ {a}
    /\ IF Shorter(a)
       THEN /\ dist' = [dist EXCEPT ![a.to] = dist[a.from] + a.w]
            /\ path' = [path EXCEPT ![a.to] = RouteTo(a)]
            /\ pq' = Pushed(a)
       ELSE UNCHANGED <<dist, path, pq>>
    /\ UNCHANGED <<lines, adj, pc>>

Return ==
    /\ pc = "run" /\ todo = {} /\ pq = {}
    /\ pc' = "done"
    /\ UNCHANGED <<lines, adj, dist, path, pq, todo>>

Next == LoadLine \/ shortestPath \/ Pop \/ (\E a \in todo : Relax(a)) \/ Return

Spec == Init /\ [][Next]_vars

\* A call runs on its own thread and waits for nothing.
FairSpec == Spec /\ WF_vars(Pop \/ (\E a \in todo : Relax(a)) \/ Return)

----------------------------------------------------------------------------
(* Properties.                                                                *)

\* Shapes; an arc waiting to be looked at leaves a vertex that was reached, so
\* that the sum compared in shortestPath never starts from INT_MAX.
TypeOK ==
    /\ lines \in 0..MaxLines
    /\ adj \subseteq Arc
    /\ dist \in [Node -> Nat]
    /\ path \in [Node -> Seq(Node)]
    /\ pq \subseteq Node \X Nat
    /\ todo \subseteq adj
    /\ pc \in {"load", "run", "done"}
    /\ \A a \in todo : dist[a.from] < INT_MAX

Reached(v) == pc # "load" /\ dist[v] < INT_MAX

Joined(u, v) == \E a \in adj : a.from = u /\ a.to = v

\* Every route on record is a walk from src, latency by latency, to the vertex
\* it is on record for, even while the route it was copied from is replaced.
RoutesAreWalks ==
    \A v \in Node : Reached(v) =>
        /\ v # src => path[v] # <<>> /\ path[v][Len(path[v])] = v
        /\ \A k \in DOMAIN path[v] :
             Joined(IF k = 1 THEN src ELSE path[v][k - 1], path[v][k])

\* A route fits the V entries of path[src][v], the closing -1 included: neither
\* zero latencies nor repeated calls let a route pass a vertex twice.
RoutesFit == \A v \in Node : Len(path[v]) < V

\* A peer whose expansion is over offers no shorter way to a neighbour.
Expanded(u) == Reached(u) /\ (\A e \in pq : e[1] # u) /\ (\A a \in todo : a.from # u)

Relaxed ==
    \A a \in adj : Expanded(a.from) => dist[a.to] <= dist[a.from] + a.w

\* The least latency from src with at most n hops, INT_MAX if there is none.
Least(S) == CHOOSE x \in S : \A y \in S : x <= y
AtMost[n \in 0..V] ==
    IF n = 0 THEN Cleared
    ELSE [v \in Node |->
            Least({AtMost[n - 1][v]} \cup
                  {AtMost[n - 1][a.from] + a.w : a \in {b \in adj : b.to = v}})]

\* After a call, dist is the least latency to every vertex, and a vertex that
\* cannot be reached has INT_MAX, which FillForwardList takes as too far.
\* The route on record is one of that latency.
Along(r) ==
    LET at[k \in 0..Len(r)] ==
          IF k = 0 THEN 0
          ELSE at[k - 1] + Least({a.w : a \in {b \in adj :
                 b.from = (IF k = 1 THEN src ELSE r[k - 1]) /\ b.to = r[k]}})
    IN  at[Len(r)]

Shortest ==
    pc = "done" =>
        /\ dist = AtMost[V]
        /\ \A v \in Node : Reached(v) => Along(path[v]) = dist[v]

\* Every call ends, in spite of zero latencies and repeated expansions.
Returns == (pc = "run") ~> (pc = "done")
============================================================================
