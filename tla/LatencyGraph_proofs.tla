------------------------ MODULE LatencyGraph_proofs ------------------------
(* What holds of shortestPath for any number of peers and any latencies: the   *)
(* shapes, that every route on record is a walk of the loaded graph and fits   *)
(* its array, that a vertex whose expansion is over offers no shorter way to a *)
(* neighbour, and that after a call the distances are the least latencies.     *)
(*                                                                             *)
(* The argument.  Distances only fall between two calls, so a vertex of the    *)
(* queue has been reached, and so has the vertex being expanded.  The distance *)
(* of src is 0 from the first call on: no arc shortens it, its route is never  *)
(* written, and no arc of a vertex to itself is ever taken.  So the route      *)
(* copied by a relaxation is that of another, reached vertex.  The vertices of *)
(* a route are no further than the one it leads to: one that a relaxation      *)
(* brings nearer is therefore not on the route it gets, and no route ever has  *)
(* a vertex twice, those kept from earlier calls included.                     *)
(*                                                                             *)
(* A distance is also the sum of latencies of arcs along the route it was      *)
(* stored with (Priced), so no route on record is dearer than it says; and     *)
(* since every arc was looked at after its vertex was last brought nearer, no  *)
(* walk, by induction on its hops, is cheaper than what is on record.          *)
EXTENDS LatencyGraph, FiniteSetTheorems, WellFoundedInduction, TLAPS

\* Between calls nothing waits to be expanded.
Idle == pc # "run" => pq = {} /\ todo = {}

\* No distance is above INT_MAX, and every vertex of the queue was reached.
Distances ==
    /\ \A v \in Node : dist[v] <= INT_MAX
    /\ \A e \in pq : dist[e[1]] < INT_MAX

\* The peer itself is at distance 0, over the empty route.
Source == (pc # "load" => dist[src] = 0) /\ path[src] = <<>>

Walk(r, v) ==
    /\ v # src => r # <<>> /\ r[Len(r)] = v
    /\ \A k \in DOMAIN r : Joined(IF k = 1 THEN src ELSE r[k - 1], r[k])

\* An arc that was looked at stays satisfied until the vertex it leaves is
\* queued again: Relaxed, arc by arc.
LookedAt ==
    \A a \in adj :
        Reached(a.from) /\ (\A e \in pq : e[1] # a.from) /\ a \notin todo
            => dist[a.to] <= dist[a.from] + a.w

NoRepeat(r) ==
    /\ \A k \in DOMAIN r : r[k] # src
    /\ \A j, k \in DOMAIN r : r[j] = r[k] => j = k

\* No route has src or a vertex twice, whichever call left it.
NoneTwice == \A v \in Node : NoRepeat(path[v])

\* What a route passes is no further than where it leads.
Nearer ==
    \A v \in Node : Reached(v) =>
        \A k \in DOMAIN path[v] : dist[path[v][k]] <= dist[v]

IInv ==
    /\ TypeOK /\ Idle /\ Distances /\ Source
    /\ RoutesAreWalks /\ LookedAt
    /\ NoneTwice /\ Nearer

LEMMA NodeFacts == src \in Node /\ INT_MAX \in Nat /\ 0 < INT_MAX
BY GraphAssumption DEF Node

LEMMA ArcFacts ==
    ASSUME NEW a \in Arc
    PROVE  a.from \in Node /\ a.to \in Node /\ a.w \in Nat
BY GraphAssumption DEF Arc

\* The distances a call starts from.
LEMMA ClearedFacts ==
    /\ Cleared \in [Node -> Nat]
    /\ Cleared[src] = 0
    /\ \A v \in Node : Cleared[v] <= INT_MAX
    /\ \A v \in Node : Cleared[v] < INT_MAX => v = src
BY NodeFacts DEF Cleared

\* A walk to u, extended by an arc from u, is a walk.
LEMMA WalkExtends ==
    ASSUME NEW r \in Seq(Node), NEW a \in adj, a \in Arc,
           Walk(r, a.from), a.from = src => r = <<>>
    PROVE  Walk(Append(r, a.to), a.to)
<1> DEFINE s == Append(r, a.to)
<1>1. a.from \in Node /\ a.to \in Node
  BY ArcFacts
<1>2. s \in Seq(Node) /\ Len(s) = Len(r) + 1 /\ s[Len(s)] = a.to /\ s # <<>>
  BY <1>1
<1>3. ASSUME NEW k \in DOMAIN s
      PROVE  Joined(IF k = 1 THEN src ELSE s[k - 1], s[k])
  <2>1. k \in 1..(Len(r) + 1)
    BY <1>2
  <2>2. CASE k = Len(r) + 1
    <3>1. s[k] = a.to
      BY <1>2, <2>2
    <3>2. a.from = IF k = 1 THEN src ELSE s[k - 1]
      <4>1. CASE k = 1
        BY <2>2, <4>1 DEF Walk
      <4>2. CASE k # 1
        <5>1. k - 1 = Len(r) /\ Len(r) \in 1..Len(r) /\ r # <<>>
          BY <2>1, <2>2, <4>2
        <5>2. s[k - 1] = r[Len(r)]
          BY <5>1, <1>1
        <5>3. QED
          BY <5>1, <5>2, <4>2 DEF Walk
      <4>3. QED
        BY <4>1, <4>2
    <3>3. QED
      BY <3>1, <3>2 DEF Joined
  <2>3. CASE k # Len(r) + 1
    <3>1. k \in DOMAIN r /\ s[k] = r[k] /\ (k # 1 => s[k - 1] = r[k - 1])
      BY <2>1, <2>3, <1>1
    <3>2. QED
      BY <3>1 DEF Walk
  <2>4. QED
    BY <2>2, <2>3
<1>4. QED
  BY <1>2, <1>3 DEF Walk

\* A route grows by a vertex that is not src and not on it.
LEMMA NoRepeatExtends ==
    ASSUME NEW r \in Seq(Node), NEW v \in Node, NoRepeat(r),
           v # src, \A k \in DOMAIN r : r[k] # v
    PROVE  NoRepeat(Append(r, v))
BY DEF NoRepeat

\* A route without repetition has fewer than V vertices.
LEMMA NoRepeatFits ==
    ASSUME NEW r \in Seq(Node), NoRepeat(r)
    PROVE  Len(r) < V
<1> DEFINE T == Node \ {src}
<1>1. IsFiniteSet(Node) /\ Cardinality(Node) = V
  BY FS_Interval, GraphAssumption DEF Node
<1>2. IsFiniteSet(T) /\ Cardinality(T) = V - 1
  BY <1>1, NodeFacts, FS_RemoveElement
<1>3. IsFiniteSet(1..Len(r)) /\ Cardinality(1..Len(r)) = Len(r)
  <2>1. Len(r) \in Nat
    OBVIOUS
  <2>2. /\ IsFiniteSet(1..Len(r))
        /\ Cardinality(1..Len(r)) = IF 1 > Len(r) THEN 0 ELSE Len(r) - 1 + 1
    BY <2>1, FS_Interval
  <2>3. QED
    BY <2>1, <2>2
<1>4. r \in [1..Len(r) -> T]
  BY DEF NoRepeat
<1>5. ~(Cardinality(T) < Cardinality(1..Len(r)))
  <2> SUFFICES ASSUME Cardinality(T) < Cardinality(1..Len(r)) PROVE FALSE
    OBVIOUS
  <2>1. \E j, k \in 1..Len(r) : j # k /\ r[j] = r[k]
    BY <1>2, <1>3, <1>4, FS_PigeonHole
  <2>2. QED
    BY <2>1 DEF NoRepeat
<1>6. QED
  BY <1>2, <1>3, <1>5, GraphAssumption

----------------------------------------------------------------------------
LEMMA InitInv == Init => IInv
<1> SUFFICES ASSUME Init PROVE IInv
  OBVIOUS
<1>1. TypeOK
  BY NodeFacts, GraphAssumption DEF Init, TypeOK
<1>2. Idle /\ Distances /\ Source
  BY NodeFacts DEF Init, Idle, Distances, Source
<1>3. RoutesAreWalks /\ LookedAt /\ Nearer
  BY DEF Init, RoutesAreWalks, LookedAt, Nearer, Reached
<1>4. NoneTwice
  BY DEF Init, NoneTwice, NoRepeat
<1>5. QED
  BY <1>1, <1>2, <1>3, <1>4 DEF IInv

LEMMA LoadLineInv == IInv /\ LoadLine => IInv'
<1> SUFFICES ASSUME IInv, LoadLine PROVE IInv'
  OBVIOUS
<1>1. PICK u \in Node, v \in Node, w \in Weights :
        adj' = adj \cup addEdge(u, v, w)
  BY DEF LoadLine
<1>2. addEdge(u, v, w) \subseteq Arc
  BY DEF addEdge, Arc
<1>3. TypeOK'
  BY <1>1, <1>2, GraphAssumption DEF IInv, TypeOK, LoadLine
<1>4. Idle' /\ Distances' /\ Source'
  BY DEF IInv, Idle, Distances, Source, LoadLine
<1>5. RoutesAreWalks' /\ LookedAt' /\ Nearer'
  BY DEF LoadLine, RoutesAreWalks, LookedAt, Nearer, Reached
<1>6. NoneTwice'
  BY DEF LoadLine, IInv, NoneTwice, NoRepeat
<1>7. QED
  BY <1>3, <1>4, <1>5, <1>6 DEF IInv

LEMMA CallInv == IInv /\ shortestPath => IInv'
<1> SUFFICES ASSUME IInv, shortestPath PROVE IInv'
  OBVIOUS
<1>1. todo = {} /\ todo' = {} /\ pq' = {<<src, 0>>} /\ dist' = Cleared
  BY DEF IInv, Idle, shortestPath, Start
<1>2. TypeOK'
  BY <1>1, NodeFacts, ClearedFacts DEF IInv, TypeOK, shortestPath
<1>3. Idle' /\ Distances' /\ Source'
  BY <1>1, NodeFacts, ClearedFacts
     DEF IInv, Idle, Distances, Source, shortestPath
<1>4. \A v \in Node : Reached(v)' => v = src
  BY <1>1, ClearedFacts DEF Reached
<1>5. RoutesAreWalks'
  BY <1>3, <1>4 DEF RoutesAreWalks, Source
<1>6. NoneTwice' /\ Nearer'
  BY <1>3, <1>4 DEF IInv, NoneTwice, NoRepeat, Nearer, Source, shortestPath
<1>7. LookedAt'
  <2>1. ASSUME NEW a \in adj', Reached(a.from)'
        PROVE  \E e \in pq' : e[1] = a.from
    <3>1. a.from \in Node
      BY <1>2, ArcFacts DEF TypeOK
    <3>2. QED
      BY <1>1, <1>4, <2>1, <3>1
  <2>2. QED
    BY <2>1 DEF LookedAt
<1>8. QED
  BY <1>2, <1>3, <1>5, <1>6, <1>7 DEF IInv

LEMMA PopInv == IInv /\ Pop => IInv'
<1> SUFFICES ASSUME IInv, Pop PROVE IInv'
  OBVIOUS
<1>1. PICK e \in pq : pq' = pq \ {e} /\ todo' = {a \in adj : a.from = e[1]}
  BY DEF Pop, Rest
<1>2. pc = "run" /\ todo = {} /\ UNCHANGED <<lines, adj, dist, path, pc>>
  BY DEF Pop
<1>3. TypeOK'
  BY <1>1, <1>2 DEF IInv, TypeOK, Distances
<1>4. Idle' /\ Distances' /\ Source'
  BY <1>1, <1>2 DEF IInv, Idle, Distances, Source
<1>5. RoutesAreWalks'
  BY <1>2 DEF IInv, RoutesAreWalks, Reached, Joined
<1>6. LookedAt'
  BY <1>1, <1>2 DEF IInv, LookedAt, Reached
<1>7. NoneTwice' /\ Nearer'
  BY <1>2 DEF IInv, NoneTwice, NoRepeat, Nearer, Reached
<1>8. QED
  BY <1>3, <1>4, <1>5, <1>6, <1>7 DEF IInv

\* A relaxation goes from a reached vertex to another one, which is not src.
LEMMA RelaxFacts ==
    ASSUME IInv, NEW a \in todo, Relax(a)
    PROVE  /\ a \in adj /\ a \in Arc
           /\ pc = "run" /\ Reached(a.from)
           /\ dist[a.to] \in Nat /\ dist[a.from] \in Nat
           /\ dist[a.to] <= INT_MAX
           /\ Shorter(a) => a.to # src /\ a.to # a.from
<1>1. a \in adj /\ a \in Arc /\ dist[a.from] < INT_MAX
  BY DEF IInv, TypeOK
<1>2. a.from \in Node /\ a.to \in Node /\ a.w \in Nat
  BY <1>1, ArcFacts
<1>3. pc = "run"
  BY DEF IInv, Idle
<1>4. dist[a.to] \in Nat /\ dist[a.from] \in Nat /\ dist[a.to] <= INT_MAX
  BY <1>2 DEF IInv, TypeOK, Distances
<1>5. Shorter(a) => a.to # src /\ a.to # a.from
  BY <1>2, <1>3, <1>4 DEF Shorter, IInv, Source
<1>6. QED
  BY <1>1, <1>3, <1>4, <1>5 DEF Reached

LEMMA RelaxInv ==
    ASSUME IInv, NEW a \in todo, Relax(a)
    PROVE  IInv'
<1>1. /\ a \in adj /\ a \in Arc
      /\ pc = "run" /\ Reached(a.from)
      /\ dist[a.to] \in Nat /\ dist[a.from] \in Nat
      /\ dist[a.to] <= INT_MAX
      /\ Shorter(a) => a.to # src /\ a.to # a.from
  BY RelaxFacts
<1>2. a.from \in Node /\ a.to \in Node /\ a.w \in Nat
  BY <1>1, ArcFacts
<1>3. todo' = todo \ {a} /\ UNCHANGED <<lines, adj, pc>>
  BY DEF Relax
<1>4. CASE Shorter(a)
  <2> DEFINE d == dist[a.from] + a.w
  <2>1. /\ dist' = [dist EXCEPT ![a.to] = d]
        /\ path' = [path EXCEPT ![a.to] = Append(path[a.from], a.to)]
        /\ pq' = pq \cup {<<a.to, d>>}
    BY <1>4 DEF Relax, RouteTo, Pushed
  <2>2. d \in Nat /\ d < dist[a.to]
    BY <1>1, <1>2, <1>4 DEF Shorter
  <2>3. dist \in [Node -> Nat] /\ path \in [Node -> Seq(Node)]
    BY DEF IInv, TypeOK
  <2>4. /\ \A v \in Node : v # a.to => dist'[v] = dist[v] /\ path'[v] = path[v]
        /\ dist'[a.to] = d /\ path'[a.to] = Append(path[a.from], a.to)
        /\ \A v \in Node : dist'[v] \in Nat /\ dist'[v] <= dist[v]
    BY <1>2, <2>1, <2>2, <2>3
  <2>5. TypeOK'
    <3>1. dist' \in [Node -> Nat] /\ path' \in [Node -> Seq(Node)]
      BY <1>2, <2>1, <2>2, <2>3
    <3>2. pq' \subseteq Node \X Nat
      BY <1>2, <2>1, <2>2 DEF IInv, TypeOK
    <3>3. \A b \in todo' : dist'[b.from] < INT_MAX
      <4>1. SUFFICES ASSUME NEW b \in todo' PROVE dist'[b.from] < INT_MAX
        OBVIOUS
      <4>2. b.from \in Node /\ dist[b.from] < INT_MAX
        BY <1>3, ArcFacts DEF IInv, TypeOK
      <4>3. QED
        BY <4>2, <2>3, <2>4, NodeFacts
    <3>4. QED
      BY <1>3, <3>1, <3>2, <3>3 DEF IInv, TypeOK
  <2>6. Idle'
    BY <1>1, <1>3 DEF Idle
  <2>7. Distances'
    <3>1. \A v \in Node : dist'[v] <= INT_MAX
      BY <2>3, <2>4, NodeFacts DEF IInv, Distances
    <3>2. ASSUME NEW e \in pq' PROVE dist'[e[1]] < INT_MAX
      <4>1. CASE e = <<a.to, d>>
        BY <4>1, <1>1, <2>2, <2>4, NodeFacts
      <4>2. CASE e \in pq
        <5>1. e[1] \in Node /\ dist[e[1]] < INT_MAX
          BY <4>2 DEF IInv, TypeOK, Distances
        <5>2. QED
          BY <5>1, <2>3, <2>4, NodeFacts
      <4>3. QED
        BY <2>1, <4>1, <4>2
    <3>3. QED
      BY <3>1, <3>2 DEF Distances
  <2>8. Source'
    BY <1>1, <1>3, <1>4, <2>4, NodeFacts DEF IInv, Source
  <2>9. RoutesAreWalks'
    <3>1. SUFFICES ASSUME NEW v \in Node, Reached(v)'
                   PROVE  Walk(path'[v], v)
      BY <1>3 DEF RoutesAreWalks, Walk, Joined
    <3>2. CASE v = a.to
      <4>1. Walk(path[a.from], a.from)
        BY <1>1, <1>2 DEF IInv, RoutesAreWalks, Walk
      <4>2. path[a.from] \in Seq(Node) /\ (a.from = src => path[a.from] = <<>>)
        BY <1>2, <2>3 DEF IInv, Source
      <4>3. Walk(Append(path[a.from], a.to), a.to)
        BY <1>1, <4>1, <4>2, WalkExtends
      <4>4. QED
        BY <2>4, <3>2, <4>3
    <3>3. CASE v # a.to
      <4>1. Reached(v)
        BY <1>3, <2>4, <3>1, <3>3 DEF Reached
      <4>2. QED
        BY <2>4, <3>3, <4>1 DEF IInv, RoutesAreWalks, Walk
    <3>4. QED
      BY <3>2, <3>3
  <2>10. LookedAt'
    <3>1. SUFFICES ASSUME NEW b \in adj, Reached(b.from)',
                          \A e \in pq' : e[1] # b.from, b \notin todo'
                   PROVE  dist'[b.to] <= dist'[b.from] + b.w
      BY <1>3 DEF LookedAt
    <3>2. b.from \in Node /\ b.to \in Node /\ b.w \in Nat
      BY ArcFacts DEF IInv, TypeOK
    <3>3. b.from # a.to
      <4>1. <<a.to, d>> \in pq' /\ <<a.to, d>>[1] = a.to
        BY <2>1
      <4>2. QED
        BY <3>1, <4>1
    <3>4. dist'[b.from] = dist[b.from]
      BY <2>4, <3>2, <3>3
    <3>5. CASE b = a
      BY <2>2, <2>4, <3>4, <3>5
    <3>6. CASE b # a
      <4>1. dist[b.to] <= dist[b.from] + b.w
        BY <1>3, <2>1, <3>1, <3>4, <3>6 DEF IInv, LookedAt, Reached
      <4>2. QED
        BY <2>3, <2>4, <3>2, <3>4, <4>1
    <3>7. QED
      BY <3>5, <3>6
  <2>11. path[a.from] \in Seq(Node)
         /\ \A k \in DOMAIN path[a.from] :
              path[a.from][k] \in Node /\ dist[path[a.from][k]] <= dist[a.from]
    BY <1>1, <1>2, <2>3 DEF IInv, Nearer
  <2>12. NoneTwice'
    <3>1. \A k \in DOMAIN path[a.from] : path[a.from][k] # a.to
      BY <1>1, <1>2, <2>2, <2>11
    <3>2. NoRepeat(path[a.from])
      BY <1>2 DEF IInv, NoneTwice
    <3>3. NoRepeat(Append(path[a.from], a.to))
      BY <1>1, <1>2, <1>4, <2>11, <3>1, <3>2, NoRepeatExtends
    <3>4. \A v \in Node : NoRepeat(path'[v])
      BY <2>4, <3>3 DEF IInv, NoneTwice
    <3>5. QED
      BY <3>4 DEF NoneTwice, NoRepeat
  <2>13. Nearer'
    <3>1. SUFFICES ASSUME NEW v \in Node, Reached(v)', NEW k \in DOMAIN path'[v]
                   PROVE  dist'[path'[v][k]] <= dist'[v]
      BY DEF Nearer
    <3>2. CASE v = a.to
      <4>1. path'[v][k] = a.to \/ (k \in DOMAIN path[a.from]
                                   /\ path'[v][k] = path[a.from][k])
        <5>1. path'[v] = Append(path[a.from], a.to)
          BY <2>4, <3>2
        <5>2. k \in DOMAIN Append(path[a.from], a.to)
          BY <3>1, <5>1
        <5>3. \/ Append(path[a.from], a.to)[k] = a.to
              \/ /\ k \in DOMAIN path[a.from]
                 /\ Append(path[a.from], a.to)[k] = path[a.from][k]
          BY <1>2, <2>11, <5>2
        <5>4. QED
          BY <5>1, <5>3
      <4>2. CASE path'[v][k] = a.to
        BY <2>2, <2>4, <3>2, <4>2
      <4>3. CASE k \in DOMAIN path[a.from] /\ path'[v][k] = path[a.from][k]
        <5>1. path'[v][k] \in Node /\ dist[path'[v][k]] <= dist[a.from]
          BY <2>11, <4>3
        <5>2. dist'[path'[v][k]] <= dist[path'[v][k]]
              /\ dist'[path'[v][k]] \in Nat /\ dist[path'[v][k]] \in Nat
          BY <2>3, <2>4, <5>1
        <5>3. QED
          BY <1>1, <1>2, <2>4, <3>2, <5>1, <5>2
      <4>4. QED
        BY <4>1, <4>2, <4>3
    <3>3. CASE v # a.to
      <4>1. path'[v] = path[v] /\ dist'[v] = dist[v] /\ Reached(v)
        BY <1>3, <2>4, <3>1, <3>3 DEF Reached
      <4>2. path[v][k] \in Node /\ dist[path[v][k]] <= dist[v]
        BY <2>3, <3>1, <4>1 DEF IInv, Nearer
      <4>3. dist'[path[v][k]] <= dist[path[v][k]]
            /\ dist'[path[v][k]] \in Nat /\ dist[path[v][k]] \in Nat
            /\ dist[v] \in Nat
        BY <2>3, <2>4, <4>2
      <4>4. QED
        BY <4>1, <4>2, <4>3
    <3>4. QED
      BY <3>2, <3>3
  <2>14. QED
    BY <2>5, <2>6, <2>7, <2>8, <2>9, <2>10, <2>12, <2>13 DEF IInv
<1>5. CASE ~Shorter(a)
  <2>1. UNCHANGED <<dist, path, pq>>
    BY <1>5 DEF Relax
  <2>2. TypeOK'
    BY <1>3, <2>1 DEF IInv, TypeOK
  <2>3. Idle' /\ Distances' /\ Source'
    BY <1>1, <1>3, <2>1 DEF IInv, Idle, Distances, Source
  <2>4. RoutesAreWalks'
    BY <1>3, <2>1 DEF IInv, RoutesAreWalks, Reached, Joined
  <2>5. LookedAt'
    <3>1. dist[a.to] <= dist[a.from] + a.w
      BY <1>1, <1>2, <1>5 DEF Shorter
    <3>2. QED
      BY <1>3, <2>1, <3>1 DEF IInv, LookedAt, Reached
  <2>6. NoneTwice' /\ Nearer'
    BY <1>3, <2>1 DEF IInv, NoneTwice, NoRepeat, Nearer, Reached
  <2>7. QED
    BY <2>2, <2>3, <2>4, <2>5, <2>6 DEF IInv
<1>6. QED
  BY <1>4, <1>5

LEMMA ReturnInv == IInv /\ Return => IInv'
<1> SUFFICES ASSUME IInv, Return PROVE IInv'
  OBVIOUS
<1>1. pc = "run" /\ todo = {} /\ pq = {} /\ pc' = "done"
      /\ UNCHANGED <<lines, adj, dist, path, pq, todo>>
  BY DEF Return
<1>2. TypeOK' /\ Idle' /\ Distances' /\ Source'
  BY <1>1 DEF IInv, TypeOK, Idle, Distances, Source
<1>3. RoutesAreWalks' /\ LookedAt'
  BY <1>1 DEF IInv, RoutesAreWalks, LookedAt, Reached, Joined
<1>4. NoneTwice' /\ Nearer'
  BY <1>1 DEF IInv, NoneTwice, NoRepeat, Nearer, Reached
<1>5. QED
  BY <1>2, <1>3, <1>4 DEF IInv

LEMMA StutterInv == IInv /\ UNCHANGED vars => IInv'
<1> SUFFICES ASSUME IInv, UNCHANGED vars PROVE IInv'
  OBVIOUS
<1>1. UNCHANGED <<lines, adj, dist, path, pq, todo, pc>>
  BY DEF vars
<1>2. TypeOK' /\ Idle' /\ Distances' /\ Source'
  BY <1>1 DEF IInv, TypeOK, Idle, Distances, Source
<1>3. RoutesAreWalks' /\ LookedAt'
  BY <1>1 DEF IInv, RoutesAreWalks, LookedAt, Reached, Joined
<1>4. NoneTwice' /\ Nearer'
  BY <1>1 DEF IInv, NoneTwice, NoRepeat, Nearer, Reached
<1>5. QED
  BY <1>2, <1>3, <1>4 DEF IInv

LEMMA Invariance == Spec => []IInv
<1>1. IInv /\ [Next]_vars => IInv'
  <2> SUFFICES ASSUME IInv, [Next]_vars PROVE IInv'
    OBVIOUS
  <2>1. CASE LoadLine
    BY <2>1, LoadLineInv
  <2>2. CASE shortestPath
    BY <2>2, CallInv
  <2>3. CASE Pop
    BY <2>3, PopInv
  <2>4. CASE \E a \in todo : Relax(a)
    BY <2>4, RelaxInv
  <2>5. CASE Return
    BY <2>5, ReturnInv
  <2>6. CASE UNCHANGED vars
    BY <2>6, StutterInv
  <2>7. QED
    BY <2>1, <2>2, <2>3, <2>4, <2>5, <2>6 DEF Next
<1>2. QED
  BY InitInv, <1>1, PTL DEF Spec

\* Type correctness; the sum compared in shortestPath never starts from INT_MAX.
THEOREM TypeCorrect == Spec => []TypeOK
<1>1. IInv => TypeOK
  BY DEF IInv
<1>2. QED
  BY Invariance, <1>1, PTL

\* Every route shortestPath has on record for a vertex it has reached is a walk
\* of the loaded graph from the peer to that vertex, at every moment of a call.
THEOREM RoutesWalk == Spec => []RoutesAreWalks
<1>1. IInv => RoutesAreWalks
  BY DEF IInv
<1>2. QED
  BY Invariance, <1>1, PTL

\* A route fits path[src][v], its closing -1 included, however many calls
\* shortestPath has run since the entry was last written.
THEOREM RoutesFitArray == Spec => []RoutesFit
<1>1. IInv => RoutesFit
  BY NoRepeatFits DEF IInv, TypeOK, NoneTwice, RoutesFit
<1>2. QED
  BY Invariance, <1>1, PTL

\* A vertex whose expansion is over offers no shorter way to a neighbour: after
\* a call no latency can shorten a distance any more.
THEOREM ExpandedRelaxed == Spec => []Relaxed
<1>1. IInv => Relaxed
  BY DEF IInv, LookedAt, Relaxed, Expanded
<1>2. QED
  BY Invariance, <1>1, PTL

----------------------------------------------------------------------------
(* Induction.  The induction theorems of the library take an operator, which  *)
(* no prover here can be given; stated about a set, or a function, induction  *)
(* is first-order, and follows from the library's least elements.             *)

\* A nonempty set of naturals has a least element.
LEMMA Smallest ==
    ASSUME NEW T, T \subseteq Nat, T # {}
    PROVE  \E x \in T : \A y \in T : x <= y
<1> DEFINE R == {p \in Nat \X Nat : p[1] < p[2]}
<1>1. IsWellFoundedOn(R, Nat)
  <2>1. R = OpToRel(<, Nat)
    BY Zenon DEF OpToRel
  <2>2. QED
    BY <2>1, NatLessThanWellFounded, Zenon
<1>2. \E x \in T : \A y \in T : <<y, x>> \notin R
  <2> HIDE DEF R
  <2>1. QED
    BY <1>1, WFMin
<1>3. PICK x \in T : \A y \in T : <<y, x>> \notin R
  BY <1>2
<1>4. ASSUME NEW y \in T PROVE x <= y
  <2>1. <<y, x>> \notin R
    BY <1>3
  <2>2. x \in Nat /\ y \in Nat
    OBVIOUS
  <2>3. QED
    BY <2>1, <2>2
<1>5. QED
  BY <1>4

\* Induction up to a bound, about a set of naturals.
LEMMA UpTo ==
    ASSUME NEW m \in Nat, NEW S, 0 \in S,
           \A k \in 1..m : k - 1 \in S => k \in S
    PROVE  \A k \in 0..m : k \in S
<1> DEFINE T == {k \in 0..m : k \notin S}
<1>0. SUFFICES ASSUME T # {} PROVE FALSE
  OBVIOUS
<1>1. PICK x \in T : \A y \in T : x <= y
  <2>1. T \subseteq Nat
    OBVIOUS
  <2> HIDE DEF T
  <2>2. QED
    BY <1>0, <2>1, Smallest
<1>2. x \in 1..m /\ x - 1 \in 0..m
  OBVIOUS
<1>3. x - 1 \notin T
  BY <1>1, <1>2
<1>4. QED
  BY <1>2, <1>3

\* f is what the recursion f[k] = G[k][f[k - 1]] computes from x0 up to m.
Computes(f, m, X, x0, G) ==
    /\ f \in [0..m -> X]
    /\ f[0] = x0
    /\ \A k \in 1..m : f[k] = G[k][f[k - 1]]

\* A recursion over 0..m computes something.
LEMMA Recursion ==
    ASSUME NEW m \in Nat, NEW X, NEW x0 \in X,
           NEW G \in [1..m -> [X -> X]]
    PROVE  \E f : Computes(f, m, X, x0, G)
<1> DEFINE S == {n \in 0..m : \E f : Computes(f, n, X, x0, G)}
<1>1. 0 \in S
  <2>1. Computes([k \in 0..0 |-> x0], 0, X, x0, G)
    BY DEF Computes
  <2>2. QED
    BY <2>1
<1>2. ASSUME NEW n \in 1..m, n - 1 \in S
      PROVE  n \in S
  <2>1. PICK f : Computes(f, n - 1, X, x0, G)
    BY <1>2
  <2> DEFINE g == [k \in 0..n |-> IF k = n THEN G[n][f[n - 1]] ELSE f[k]]
  <2>2. f[n - 1] \in X
    BY <2>1 DEF Computes
  <2>3. g \in [0..n -> X] /\ g[0] = x0
    BY <2>1, <2>2 DEF Computes
  <2>4. ASSUME NEW k \in 1..n
        PROVE  g[k] = G[k][g[k - 1]]
    <3>1. g[k - 1] = f[k - 1]
      OBVIOUS
    <3>2. CASE k = n
      BY <3>1, <3>2
    <3>3. CASE k # n
      <4>1. k \in 1..(n - 1) /\ g[k] = f[k]
        BY <3>3
      <4>2. f[k] = G[k][f[k - 1]]
        BY <2>1, <4>1 DEF Computes
      <4>3. QED
        BY <3>1, <4>1, <4>2
    <3>4. QED
      BY <3>2, <3>3
  <2>5. Computes(g, n, X, x0, G)
    BY <2>3, <2>4 DEF Computes
  <2>6. QED
    BY <2>5
<1>3. m \in S
  <2> HIDE DEF S
  <2>1. \A k \in 0..m : k \in S
    BY <1>1, <1>2, UpTo
  <2>2. QED
    BY <2>1
<1>4. QED
  BY <1>3

----------------------------------------------------------------------------
(* The definitions by recursion of LatencyGraph: that there is a function of  *)
(* the stated shape is proved, not assumed.                                   *)

Offers(f, v) ==
    {f[v]} \cup {f[a.from] + a.w : a \in {b \in adj : b.to = v}}

Better(f) == [v \in Node |-> Least(Offers(f, v))]

\* The latencies of the arcs a route may take for its k-th hop.
Hops(r, k) ==
    {a.w : a \in {b \in adj :
        b.from = (IF k = 1 THEN src ELSE r[k - 1]) /\ b.to = r[k]}}

LEMMA LeastFacts ==
    ASSUME NEW S, S \subseteq Nat, S # {}
    PROVE  Least(S) \in S /\ \A y \in S : Least(S) <= y
<1>1. \E x \in S : \A y \in S : x <= y
  BY Smallest
<1>2. QED
  BY <1>1 DEF Least

LEMMA OffersFacts ==
    ASSUME adj \subseteq Arc, NEW f \in [Node -> Nat], NEW v \in Node
    PROVE  /\ Offers(f, v) \subseteq Nat
           /\ Better(f)[v] \in Offers(f, v)
           /\ \A y \in Offers(f, v) : Better(f)[v] <= y
<1>1. Offers(f, v) \subseteq Nat
  <2>1. ASSUME NEW a \in {b \in adj : b.to = v}
        PROVE  f[a.from] + a.w \in Nat
    BY ArcFacts
  <2>2. QED
    BY <2>1 DEF Offers
<1>2. Offers(f, v) # {}
  BY DEF Offers
<1>3. Better(f)[v] = Least(Offers(f, v))
  BY DEF Better
<1>4. QED
  BY <1>1, <1>2, <1>3, LeastFacts

LEMMA BetterType ==
    ASSUME adj \subseteq Arc, NEW f \in [Node -> Nat]
    PROVE  Better(f) \in [Node -> Nat]
<1>1. \A v \in Node : Least(Offers(f, v)) \in Nat
  BY OffersFacts DEF Better
<1>2. QED
  BY <1>1 DEF Better

\* AtMost is what its definition says: the latencies with one hop more are
\* those of one hop less, bettered once.
LEMMA AtMostFacts ==
    ASSUME adj \subseteq Arc
    PROVE  /\ AtMost[0] = Cleared
           /\ \A n \in 0..V : AtMost[n] \in [Node -> Nat]
           /\ \A n \in 1..V : AtMost[n] = Better(AtMost[n - 1])
<1> DEFINE X == [Node -> Nat]
           G == [n \in 1..V |-> [f \in X |-> Better(f)]]
<1>1. V \in Nat /\ Cleared \in X
  BY GraphAssumption, ClearedFacts
<1>2. G \in [1..V -> [X -> X]]
  BY BetterType
<1>3. PICK g \in [0..V -> X] :
        g[0] = Cleared /\ \A k \in 1..V : g[k] = G[k][g[k - 1]]
  <2> HIDE DEF X, G
  <2>1. \E g : Computes(g, V, X, Cleared, G)
    BY <1>1, <1>2, Recursion
  <2>2. QED
    BY <2>1 DEF Computes
<1>4. ASSUME NEW n \in 1..V
      PROVE  g[n] = Better(g[n - 1])
  <2>1. g[n - 1] \in X
    BY <1>1, <1>3
  <2>2. QED
    BY <1>3, <2>1
<1> DEFINE Shape(t) ==
      [n \in 0..V |->
         IF n = 0 THEN Cleared
         ELSE [v \in Node |->
            Least({t[n - 1][v]} \cup
                  {t[n - 1][a.from] + a.w : a \in {b \in adj : b.to = v}})]]
<1>5. \A t : Shape(t) = [n \in 0..V |-> IF n = 0 THEN Cleared ELSE Better(t[n - 1])]
  BY DEF Better, Offers
<1>6. g = Shape(g)
  <2>1. \A n \in 0..V : g[n] = IF n = 0 THEN Cleared ELSE Better(g[n - 1])
    BY <1>1, <1>3, <1>4
  <2> HIDE DEF X, G, Shape
  <2>2. g = [n \in 0..V |-> g[n]]
    BY <1>3
  <2>3. QED
    BY <1>5, <2>1, <2>2
<1>7. AtMost = CHOOSE t : t = Shape(t)
  BY DEF AtMost
<1>8. AtMost = Shape(AtMost)
  <2> HIDE DEF Shape
  <2>1. QED
    BY <1>6, <1>7
<1>9. AtMost = [n \in 0..V |-> IF n = 0 THEN Cleared ELSE Better(AtMost[n - 1])]
  <2> HIDE DEF Shape
  <2>1. QED
    BY <1>5, <1>8
<1>10. AtMost[0] = Cleared /\ \A n \in 1..V : AtMost[n] = Better(AtMost[n - 1])
  BY <1>1, <1>9
<1>11. \A n \in 0..V : AtMost[n] \in X
  <2> DEFINE S == {n \in 0..V : AtMost[n] \in X}
  <2>1. 0 \in S
    BY <1>1, <1>10
  <2>2. \A k \in 1..V : k - 1 \in S => k \in S
    BY <1>1, <1>10, BetterType
  <2>3. \A k \in 0..V : k \in S
    <3> HIDE DEF S
    <3>1. QED
      BY <1>1, <2>1, <2>2, UpTo
  <2>4. QED
    BY <2>3
<1>12. QED
  BY <1>10, <1>11

\* The latency along a route, hop by hop.
LEMMA AlongFacts ==
    ASSUME adj \subseteq Arc, NEW r \in Seq(Node),
           \A k \in DOMAIN r : Hops(r, k) # {}
    PROVE  \E at \in [0..Len(r) -> Nat] :
             /\ at[0] = 0 /\ Along(r) = at[Len(r)]
             /\ \A k \in 1..Len(r) : at[k] = at[k - 1] + Least(Hops(r, k))
<1> DEFINE m == Len(r)
           Shape(t) ==
             [k \in 0..m |->
                IF k = 0 THEN 0
                ELSE t[k - 1] + Least({a.w : a \in {b \in adj :
                       b.from = (IF k = 1 THEN src ELSE r[k - 1])
                       /\ b.to = r[k]}})]
           at == CHOOSE t : t = Shape(t)
<1>1. m \in Nat /\ 0 \in Nat /\ DOMAIN r = 1..m
  OBVIOUS
<1>2. \A k \in 1..m : Least(Hops(r, k)) \in Nat
  <2>1. \A k \in 1..m : Hops(r, k) \subseteq Nat
    BY ArcFacts DEF Hops
  <2>2. QED
    BY <1>1, <2>1, LeastFacts
<1> DEFINE G == [k \in 1..m |-> [x \in Nat |-> x + Least(Hops(r, k))]]
<1>3. G \in [1..m -> [Nat -> Nat]]
  BY <1>2
<1>4. PICK g : Computes(g, m, Nat, 0, G)
  <2> HIDE DEF m, G, Shape, at
  <2>1. QED
    BY <1>1, <1>3, Recursion
<1>5. /\ g \in [0..m -> Nat] /\ g[0] = 0
      /\ \A k \in 1..m : g[k] = g[k - 1] + Least(Hops(r, k))
  <2>1. \A k \in 1..m : g[k - 1] \in Nat
    BY <1>1, <1>4 DEF Computes
  <2>2. QED
    BY <1>4, <2>1 DEF Computes
<1>6. \A t : Shape(t) =
        [k \in 0..m |-> IF k = 0 THEN 0 ELSE t[k - 1] + Least(Hops(r, k))]
  BY DEF Hops
<1>7. g = Shape(g)
  <2>1. \A k \in 0..m :
          g[k] = IF k = 0 THEN 0 ELSE g[k - 1] + Least(Hops(r, k))
    BY <1>1, <1>5
  <2> HIDE DEF m, G, Shape
  <2>2. g = [k \in 0..m |-> g[k]]
    BY <1>5
  <2>3. QED
    BY <1>6, <2>1, <2>2
<1>8. at = Shape(at)
  <2> HIDE DEF Shape
  <2>1. QED
    BY <1>7
<1>9. at = [k \in 0..m |-> IF k = 0 THEN 0 ELSE at[k - 1] + Least(Hops(r, k))]
  <2> HIDE DEF Shape, at
  <2>1. QED
    BY <1>6, <1>8
<1>10. Along(r) = at[m]
  BY DEF Along
<1> HIDE DEF at, Shape
<1>11. /\ at[0] = 0
       /\ \A k \in 1..m : at[k] = at[k - 1] + Least(Hops(r, k))
  BY <1>1, <1>9
<1>12. at \in [0..m -> Nat]
  <2> DEFINE S == {k \in 0..m : at[k] \in Nat}
  <2>1. 0 \in S
    BY <1>1, <1>11
  <2>2. \A k \in 1..m : k - 1 \in S => k \in S
    BY <1>1, <1>2, <1>11
  <2>3. \A k \in 0..m : k \in S
    <3> HIDE DEF S
    <3>1. QED
      BY <1>1, <2>1, <2>2, UpTo
  <2>4. \A k \in 0..m : at[k] \in Nat
    BY <2>3
  <2>5. QED
    BY <1>9, <2>4
<1>13. QED
  BY <1>10, <1>11, <1>12

\* With more hops allowed a latency never grows.
LEMMA MoreHops ==
    ASSUME adj \subseteq Arc, NEW n \in 0..V, NEW v \in Node
    PROVE  AtMost[V][v] <= AtMost[n][v]
<1> DEFINE S == {k \in 0..V : AtMost[V][v] <= AtMost[V - k][v]}
<1>1. V \in Nat /\ \A k \in 0..V : AtMost[k] \in [Node -> Nat]
  BY GraphAssumption, AtMostFacts
<1>2. ASSUME NEW k \in 1..V
      PROVE  AtMost[k][v] <= AtMost[k - 1][v]
  <2>1. AtMost[k - 1] \in [Node -> Nat]
    BY <1>1
  <2>2. AtMost[k] = Better(AtMost[k - 1])
    BY AtMostFacts
  <2>3. AtMost[k - 1][v] \in Offers(AtMost[k - 1], v)
    BY DEF Offers
  <2>4. QED
    BY <2>1, <2>2, <2>3, OffersFacts
<1>3. 0 \in S
  BY <1>1
<1>4. ASSUME NEW k \in 1..V, k - 1 \in S
      PROVE  k \in S
  <2>1. V - k + 1 \in 1..V /\ (V - k + 1) - 1 = V - k /\ V - (k - 1) = V - k + 1
    BY <1>1
  <2>2. AtMost[V - k + 1][v] <= AtMost[V - k][v]
    BY <1>2, <2>1
  <2>3. AtMost[V][v] <= AtMost[V - k + 1][v]
    BY <1>4, <2>1
  <2>4. AtMost[V] \in [Node -> Nat] /\ AtMost[V - k] \in [Node -> Nat]
        /\ AtMost[V - k + 1] \in [Node -> Nat]
    BY <1>1, <2>1
  <2>5. AtMost[V][v] \in Nat /\ AtMost[V - k][v] \in Nat
        /\ AtMost[V - k + 1][v] \in Nat
    BY <2>4
  <2>6. AtMost[V][v] <= AtMost[V - k][v]
    BY <2>2, <2>3, <2>5
  <2>7. QED
    BY <2>6
<1>5. \A k \in 0..V : k \in S
  <2> HIDE DEF S
  <2>1. QED
    BY <1>1, <1>3, <1>4, UpTo
<1>6. V - n \in S /\ V - (V - n) = n
  BY <1>1, <1>5
<1>7. QED
  BY <1>6

\* The vertex a route has reached after k hops.
After(r, k) == IF k = 0 THEN src ELSE r[k]

\* No route is cheaper than the least latency with as many hops.
LEMMA NoneCheaper ==
    ASSUME adj \subseteq Arc, NEW r \in Seq(Node), Len(r) <= V,
           \A k \in DOMAIN r : Hops(r, k) # {},
           NEW at \in [0..Len(r) -> Nat], at[0] = 0,
           \A k \in 1..Len(r) : at[k] = at[k - 1] + Least(Hops(r, k))
    PROVE  AtMost[Len(r)][After(r, Len(r))] <= at[Len(r)]
<1> DEFINE m == Len(r)
           S == {k \in 0..m : AtMost[k][After(r, k)] <= at[k]}
<1>1. m \in Nat /\ V \in Nat /\ m <= V
  BY GraphAssumption
<1>2. /\ AtMost[0] = Cleared
      /\ \A n \in 0..V : AtMost[n] \in [Node -> Nat]
      /\ \A n \in 1..V : AtMost[n] = Better(AtMost[n - 1])
  BY AtMostFacts
<1>3. 0 \in S
  BY <1>1, <1>2, ClearedFacts DEF After
<1>4. ASSUME NEW k \in 1..m, k - 1 \in S
      PROVE  k \in S
  <2> DEFINE f == AtMost[k - 1]
  <2>1. k \in DOMAIN r /\ r[k] \in Node /\ k \in 1..V /\ k - 1 \in 0..V
    BY <1>1
  <2>2. Hops(r, k) \subseteq Nat
    BY ArcFacts DEF Hops
  <2>3. Least(Hops(r, k)) \in Hops(r, k)
    BY <2>1, <2>2, LeastFacts
  <2>4. PICK a \in adj :
          /\ a.from = (IF k = 1 THEN src ELSE r[k - 1])
          /\ a.to = r[k] /\ a.w = Least(Hops(r, k))
    BY <2>3 DEF Hops
  <2>5. a.from \in Node /\ a.to \in Node /\ a.w \in Nat
    BY ArcFacts
  <2>6. a.from = After(r, k - 1) /\ a.to = After(r, k)
    BY <2>4 DEF After
  <2>7. f \in [Node -> Nat] /\ AtMost[k] = Better(f)
    BY <1>2, <2>1
  <2>8. f[a.from] + a.w \in Offers(f, a.to)
    BY DEF Offers
  <2> HIDE DEF f
  <2>9. Better(f)[a.to] <= f[a.from] + a.w /\ Better(f)[a.to] \in Nat
    BY <2>5, <2>7, <2>8, OffersFacts
  <2>10. f[a.from] <= at[k - 1]
    BY <1>4, <2>6 DEF f
  <2>11. at[k] = at[k - 1] + a.w
    BY <2>4
  <2>12. at[k - 1] \in Nat
    BY <1>1
  <2>13. f[a.from] \in Nat
    BY <2>5, <2>7
  <2>14. Better(f)[a.to] <= at[k]
    BY <2>5, <2>9, <2>10, <2>11, <2>12, <2>13
  <2>15. AtMost[k][After(r, k)] <= at[k]
    BY <2>6, <2>7, <2>14
  <2>16. QED
    BY <2>15
<1>5. \A k \in 0..m : k \in S
  <2> HIDE DEF S, m
  <2>1. QED
    BY <1>1, <1>3, <1>4, UpTo
<1>6. m \in S
  BY <1>1, <1>5
<1>7. QED
  BY <1>6

----------------------------------------------------------------------------
(* What a route on record costs.                                              *)

\* c adds up latencies of arcs that join what r passes.
Prices(c, r) ==
    /\ c \in [0..Len(r) -> Nat] /\ c[0] = 0
    /\ \A k \in 1..Len(r) : \E h \in Hops(r, k) : c[k] = c[k - 1] + h

\* The distance of a reached vertex is the price of the route it is on record
\* with, the one the peer it was copied from had at that moment.
Priced ==
    \A v \in Node : Reached(v) =>
        \E c : Prices(c, path[v]) /\ c[Len(path[v])] = dist[v]

LEMMA PriceExtends ==
    ASSUME adj \subseteq Arc, NEW r \in Seq(Node), NEW a \in adj,
           Walk(r, a.from), a.from = src => r = <<>>,
           NEW c, Prices(c, r)
    PROVE  \E d : /\ Prices(d, Append(r, a.to))
                  /\ d[Len(Append(r, a.to))] = c[Len(r)] + a.w
<1> DEFINE s == Append(r, a.to)
           n == Len(r) + 1
           d == [k \in 0..n |-> IF k = n THEN c[Len(r)] + a.w ELSE c[k]]
<1>1. a.from \in Node /\ a.to \in Node /\ a.w \in Nat
  BY ArcFacts
<1>2. s \in Seq(Node) /\ Len(s) = n /\ n - 1 = Len(r) /\ n \in Nat /\ Len(r) \in Nat
  BY <1>1
<1>3. c \in [0..Len(r) -> Nat] /\ c[0] = 0
  BY DEF Prices
<1>4. d \in [0..n -> Nat] /\ d[0] = 0
  BY <1>1, <1>2, <1>3
<1>5. ASSUME NEW k \in 1..n
      PROVE  \E h \in Hops(s, k) : d[k] = d[k - 1] + h
  <2>1. CASE k = n
    <3>1. d[k] = d[k - 1] + a.w
      <4>1. d[n] = c[Len(r)] + a.w
        BY <1>2
      <4>2. n - 1 \in 0..n /\ n - 1 # n
        <5>1. Len(r) \in Nat
          OBVIOUS
        <5>2. QED
          BY <5>1
      <4>3. d[n - 1] = c[Len(r)]
        BY <1>2, <4>2
      <4>4. QED
        BY <2>1, <4>1, <4>3
    <3>2. s[k] = a.to
      BY <1>1, <2>1
    <3>3. a.from = IF k = 1 THEN src ELSE s[k - 1]
      <4>1. CASE k = 1
        BY <2>1, <4>1 DEF Walk
      <4>2. CASE k # 1
        <5>1. k - 1 = Len(r) /\ Len(r) \in 1..Len(r) /\ r # <<>>
          BY <1>2, <2>1, <4>2
        <5>2. s[k - 1] = r[Len(r)]
          BY <5>1, <1>1
        <5>3. QED
          BY <5>1, <5>2, <4>2 DEF Walk
      <4>3. QED
        BY <4>1, <4>2
    <3>4. a.w \in Hops(s, k)
      BY <3>2, <3>3 DEF Hops
    <3>5. QED
      BY <3>1, <3>4
  <2>2. CASE k # n
    <3>1. k \in 1..Len(r) /\ s[k] = r[k] /\ (k # 1 => s[k - 1] = r[k - 1])
      BY <1>1, <1>2, <2>2
    <3>2. Hops(s, k) = Hops(r, k)
      BY <3>1 DEF Hops
    <3>3. d[k] = c[k] /\ d[k - 1] = c[k - 1]
      BY <1>2, <2>2, <3>1
    <3>4. QED
      BY <3>1, <3>2, <3>3 DEF Prices
  <2>3. QED
    BY <2>1, <2>2
<1>6. d[n] = c[Len(r)] + a.w
  BY <1>2
<1> HIDE DEF d
<1>7. Prices(d, s)
  BY <1>2, <1>4, <1>5 DEF Prices
<1>8. QED
  BY <1>2, <1>6, <1>7

\* Steps that leave the arcs, the routes and the distances alone.
LEMMA PricedStays ==
    ASSUME Priced, UNCHANGED <<adj, dist, path>>, pc # "load"
    PROVE  Priced'
<1>1. \A c, r : Prices(c, r) => Prices(c, r)'
  BY DEF Prices, Hops
<1>2. \A v \in Node : Reached(v)' => Reached(v)
  BY DEF Reached
<1>3. QED
  BY <1>1, <1>2 DEF Priced

LEMMA PricedRelax ==
    ASSUME IInv, Priced, NEW a \in todo, Relax(a)
    PROVE  Priced'
<1>1. /\ a \in adj /\ a \in Arc
      /\ pc = "run" /\ Reached(a.from)
  BY RelaxFacts
<1>2. a.from \in Node /\ a.to \in Node
  BY <1>1, ArcFacts
<1>3. UNCHANGED <<adj, pc>>
  BY DEF Relax
<1>4. CASE Shorter(a)
  <2> DEFINE r == path[a.from]
  <2>1. dist \in [Node -> Nat] /\ path \in [Node -> Seq(Node)] /\ adj \subseteq Arc
    BY DEF IInv, TypeOK
  <2>2. /\ dist' = [dist EXCEPT ![a.to] = dist[a.from] + a.w]
        /\ path' = [path EXCEPT ![a.to] = Append(r, a.to)]
    BY <1>4 DEF Relax, RouteTo
  <2>3. r \in Seq(Node) /\ Walk(r, a.from) /\ (a.from = src => r = <<>>)
    BY <1>1, <1>2, <2>1 DEF IInv, RoutesAreWalks, Walk, Source
  <2>4. PICK c : Prices(c, r) /\ c[Len(r)] = dist[a.from]
    BY <1>1, <1>2 DEF Priced
  <2>5. PICK d : /\ Prices(d, Append(r, a.to))
                 /\ d[Len(Append(r, a.to))] = c[Len(r)] + a.w
    BY <1>1, <2>1, <2>3, <2>4, PriceExtends
  <2>6. \A e, s : Prices(e, s) => Prices(e, s)'
    BY <1>3 DEF Prices, Hops
  <2>7. ASSUME NEW v \in Node, Reached(v)'
        PROVE  \E e : Prices(e, path[v])' /\ e[Len(path'[v])] = dist'[v]
    <3>1. CASE v = a.to
      <4>1. path'[v] = Append(r, a.to) /\ dist'[v] = dist[a.from] + a.w
        BY <1>2, <2>1, <2>2, <3>1
      <4>2. Prices(d, path[v])'
        BY <2>5, <2>6, <4>1
      <4>3. QED
        BY <2>4, <2>5, <4>1, <4>2
    <3>2. CASE v # a.to
      <4>1. path'[v] = path[v] /\ dist'[v] = dist[v]
        BY <1>2, <2>1, <2>2, <3>2
      <4>2. Reached(v)
        BY <1>3, <2>7, <4>1 DEF Reached
      <4>3. PICK e : Prices(e, path[v]) /\ e[Len(path[v])] = dist[v]
        BY <4>2 DEF Priced
      <4>4. Prices(e, path[v])'
        BY <2>6, <4>1, <4>3
      <4>5. QED
        BY <4>1, <4>3, <4>4
    <3>3. QED
      BY <3>1, <3>2
  <2>8. QED
    BY <2>7 DEF Priced
<1>5. CASE ~Shorter(a)
  BY <1>1, <1>3, <1>5, PricedStays DEF Relax
<1>6. QED
  BY <1>4, <1>5

LEMMA PricedInvariance == Spec => []Priced
<1>1. Init => Priced
  BY DEF Init, Priced, Reached
<1>2. IInv /\ Priced /\ [Next]_vars => Priced'
  <2> SUFFICES ASSUME IInv, Priced, [Next]_vars PROVE Priced'
    OBVIOUS
  <2>1. CASE LoadLine
    BY <2>1 DEF LoadLine, Priced, Reached
  <2>2. CASE shortestPath
    <3>1. \A v \in Node : Reached(v)' => v = src
      BY <2>2, ClearedFacts DEF Reached, shortestPath
    <3>2. path'[src] = <<>> /\ dist'[src] = 0
      BY <2>2, ClearedFacts DEF IInv, Source, shortestPath
    <3> DEFINE c == [k \in 0..0 |-> 0]
    <3>3. c \in [0..0 -> Nat] /\ c[0] = 0
      OBVIOUS
    <3>4. Len(path'[src]) = 0
      BY <3>2
    <3> HIDE DEF c
    <3>5. Prices(c, path[src])'
      BY <3>3, <3>4 DEF Prices
    <3>6. c[Len(path'[src])] = dist'[src]
      BY <3>2, <3>3, <3>4
    <3>7. QED
      BY <3>1, <3>5, <3>6 DEF Priced
  <2>3. CASE Pop
    BY <2>3, PricedStays DEF Pop
  <2>4. CASE \E a \in todo : Relax(a)
    BY <2>4, PricedRelax
  <2>5. CASE Return
    BY <2>5, PricedStays DEF Return
  <2>6. CASE UNCHANGED vars
    <3>1. CASE pc = "load"
      BY <2>6, <3>1 DEF vars, Priced, Reached
    <3>2. CASE pc # "load"
      BY <2>6, <3>2, PricedStays DEF vars
    <3>3. QED
      BY <3>1, <3>2
  <2>7. QED
    BY <2>1, <2>2, <2>3, <2>4, <2>5, <2>6 DEF Next
<1>3. QED
  BY Invariance, <1>1, <1>2, PTL DEF Spec

----------------------------------------------------------------------------
(* After a call.                                                              *)

\* No latency, of however many hops, is less than the distance on record.
LEMMA NoneLess ==
    ASSUME IInv, pc = "done", NEW n \in 0..V, NEW v \in Node
    PROVE  dist[v] <= AtMost[n][v]
<1> DEFINE S == {k \in 0..V : \A u \in Node : dist[u] <= AtMost[k][u]}
<1>1. adj \subseteq Arc /\ dist \in [Node -> Nat] /\ V \in Nat
  BY GraphAssumption DEF IInv, TypeOK
<1>2. pq = {} /\ todo = {}
  BY DEF IInv, Idle
<1>3. /\ AtMost[0] = Cleared
      /\ \A k \in 0..V : AtMost[k] \in [Node -> Nat]
      /\ \A k \in 1..V : AtMost[k] = Better(AtMost[k - 1])
  BY <1>1, AtMostFacts
<1>4. \A u \in Node : dist[u] <= INT_MAX
  BY DEF IInv, Distances
<1>5. dist[src] = 0
  BY DEF IInv, Source
<1>6. 0 \in S
  <2>1. \A u \in Node : dist[u] <= Cleared[u]
    BY <1>4, <1>5 DEF Cleared
  <2>2. QED
    BY <1>1, <1>3, <2>1
<1>7. ASSUME NEW k \in 1..V, k - 1 \in S
      PROVE  k \in S
  <2> DEFINE f == AtMost[k - 1]
  <2>1. f \in [Node -> Nat] /\ AtMost[k] = Better(f)
    <3>1. k - 1 \in 0..V
      BY <1>1
    <3>2. QED
      BY <1>3, <3>1
  <2>2. \A u \in Node : dist[u] <= f[u]
    BY <1>7
  <2> HIDE DEF f
  <2>3. ASSUME NEW u \in Node, NEW y \in Offers(f, u)
        PROVE  dist[u] <= y
    <3>1. CASE y = f[u]
      BY <2>2, <3>1
    <3>2. ASSUME NEW a \in adj, a.to = u, y = f[a.from] + a.w
          PROVE  dist[u] <= y
      <4>1. a.from \in Node /\ a.w \in Nat
        BY <1>1, ArcFacts
      <4>2. dist[u] <= dist[a.from] + a.w
        <5>1. CASE dist[a.from] < INT_MAX
          BY <1>2, <3>2, <5>1 DEF IInv, LookedAt, Reached
        <5>2. CASE ~(dist[a.from] < INT_MAX)
          <6>1. dist[a.from] \in Nat /\ dist[u] \in Nat
            BY <1>1, <4>1
          <6>2. QED
            BY <1>4, <4>1, <5>2, <6>1, NodeFacts
        <5>3. QED
          BY <5>1, <5>2
      <4>3. dist[a.from] <= f[a.from]
        BY <2>2, <4>1
      <4>4. dist[u] \in Nat /\ dist[a.from] \in Nat /\ f[a.from] \in Nat
        BY <1>1, <2>1, <4>1
      <4>5. QED
        BY <3>2, <4>1, <4>2, <4>3, <4>4
    <3>3. QED
      BY <2>3, <3>1, <3>2 DEF Offers
  <2>4. \A u \in Node : dist[u] <= AtMost[k][u]
    BY <1>1, <2>1, <2>3, OffersFacts
  <2>5. QED
    BY <2>4
<1>8. \A k \in 0..V : k \in S
  <2> HIDE DEF S
  <2>1. QED
    BY <1>1, <1>6, <1>7, UpTo
<1>9. QED
  BY <1>8

\* A price is no less than the latency along the route.
LEMMA PriceFacts ==
    ASSUME adj \subseteq Arc, NEW r \in Seq(Node), NEW c, Prices(c, r),
           NEW at \in [0..Len(r) -> Nat], at[0] = 0,
           \A k \in 1..Len(r) : at[k] = at[k - 1] + Least(Hops(r, k))
    PROVE  at[Len(r)] <= c[Len(r)]
<1> DEFINE m == Len(r)
           S == {k \in 0..m : at[k] <= c[k]}
<1>1. m \in Nat
  OBVIOUS
<1>2. c \in [0..m -> Nat] /\ c[0] = 0
  BY DEF Prices
<1>3. 0 \in S
  BY <1>1, <1>2
<1>4. ASSUME NEW k \in 1..m, k - 1 \in S
      PROVE  k \in S
  <2>1. PICK h \in Hops(r, k) : c[k] = c[k - 1] + h
    BY DEF Prices
  <2>2. Hops(r, k) \subseteq Nat
    BY ArcFacts DEF Hops
  <2>3. Least(Hops(r, k)) <= h /\ Least(Hops(r, k)) \in Nat /\ h \in Nat
    BY <2>1, <2>2, LeastFacts
  <2>4. at[k] = at[k - 1] + Least(Hops(r, k))
    OBVIOUS
  <2>5. k - 1 \in 0..m
    BY <1>1
  <2>6. at[k - 1] \in Nat /\ c[k - 1] \in Nat
    BY <1>2, <2>5
  <2>7. at[k - 1] <= c[k - 1]
    BY <1>4
  <2>8. at[k] <= c[k]
    BY <2>1, <2>3, <2>4, <2>6, <2>7
  <2>9. QED
    BY <2>8
<1>5. \A k \in 0..m : k \in S
  <2> HIDE DEF S, m
  <2>1. QED
    BY <1>1, <1>3, <1>4, UpTo
<1>6. m \in S
  BY <1>1, <1>5
<1>7. QED
  BY <1>6

\* A reached vertex: what is on record is what its route costs, and the least
\* there is.
LEMMA ReachedShortest ==
    ASSUME IInv, Priced, pc = "done", NEW v \in Node, Reached(v)
    PROVE  Along(path[v]) = dist[v] /\ AtMost[V][v] = dist[v]
<1> DEFINE r == path[v]
           m == Len(r)
<1>1. adj \subseteq Arc /\ dist[v] \in Nat /\ r \in Seq(Node) /\ V \in Nat
  BY GraphAssumption DEF IInv, TypeOK
<1>2. Walk(r, v) /\ NoRepeat(r)
  BY DEF IInv, RoutesAreWalks, Walk, NoneTwice
<1>3. m \in Nat /\ m <= V /\ m \in 0..V
  <2>1. m < V
    BY <1>1, <1>2, NoRepeatFits
  <2>2. QED
    BY <1>1, <2>1
<1>4. \A k \in DOMAIN r : Hops(r, k) # {}
  BY <1>2 DEF Walk, Joined, Hops
<1>5. After(r, m) = v
  <2>1. CASE v = src
    <3>1. r = <<>>
      BY <2>1 DEF IInv, Source
    <3>2. QED
      BY <2>1, <3>1 DEF After
  <2>2. CASE v # src
    <3>1. r # <<>> /\ r[m] = v
      BY <1>2, <2>2 DEF Walk
    <3>2. m # 0
      BY <1>1, <3>1
    <3>3. QED
      BY <3>1, <3>2 DEF After
  <2>3. QED
    BY <2>1, <2>2
<1> HIDE DEF r
<1>6. PICK at \in [0..m -> Nat] :
        /\ at[0] = 0 /\ Along(r) = at[m]
        /\ \A k \in 1..m : at[k] = at[k - 1] + Least(Hops(r, k))
  BY <1>1, <1>4, AlongFacts
<1>7. AtMost[m][v] <= at[m]
  BY <1>1, <1>3, <1>4, <1>5, <1>6, NoneCheaper
<1>8. PICK c : Prices(c, r) /\ c[m] = dist[v]
  BY DEF Priced, r
<1>9. at[m] <= c[m]
  BY <1>1, <1>6, <1>8, PriceFacts
<1>10. dist[v] <= AtMost[m][v] /\ dist[v] <= AtMost[V][v]
  BY <1>1, <1>3, NoneLess
<1>11. AtMost[V][v] <= AtMost[m][v]
  BY <1>1, <1>3, MoreHops
<1>12. at[m] \in Nat /\ AtMost[m][v] \in Nat /\ AtMost[V][v] \in Nat
  <2>1. AtMost[m] \in [Node -> Nat] /\ AtMost[V] \in [Node -> Nat]
    BY <1>1, <1>3, AtMostFacts
  <2>2. QED
    BY <1>3, <1>6, <2>1
<1>13. at[m] = dist[v] /\ AtMost[V][v] = dist[v]
  <2> HIDE DEF m
  <2>1. QED
    BY <1>1, <1>7, <1>8, <1>9, <1>10, <1>11, <1>12
<1>14. QED
  BY <1>6, <1>13 DEF r

\* After a call every distance shortestPath has on record is the least latency
\* there is to the vertex, INT_MAX if there is none, and the route on record
\* has that latency, whatever the latencies, the peers and the calls before.
THEOREM LeastLatencies == Spec => []Shortest
<1>1. IInv /\ Priced => Shortest
  <2> SUFFICES ASSUME IInv, Priced, pc = "done" PROVE Shortest
    BY DEF Shortest
  <2>1. adj \subseteq Arc /\ dist \in [Node -> Nat] /\ V \in Nat /\ V \in 0..V
    BY GraphAssumption DEF IInv, TypeOK
  <2>2. ASSUME NEW v \in Node
        PROVE  dist[v] = AtMost[V][v]
    <3>1. CASE Reached(v)
      BY <3>1, ReachedShortest
    <3>2. CASE ~Reached(v)
      <4>1. dist[v] = INT_MAX
        BY <2>1, <3>2, NodeFacts DEF IInv, Distances, Reached
      <4>2. dist[v] <= AtMost[V][v]
        BY <2>1, NoneLess
      <4>3. AtMost[V][v] <= AtMost[0][v]
        BY <2>1, MoreHops
      <4>4. AtMost[0][v] <= INT_MAX /\ AtMost[0][v] \in Nat
        BY <2>1, AtMostFacts, ClearedFacts
      <4>5. AtMost[V][v] \in Nat
        BY <2>1, AtMostFacts
      <4>6. QED
        BY <4>1, <4>2, <4>3, <4>4, <4>5, NodeFacts
    <3>3. QED
      BY <3>1, <3>2
  <2>3. dist = AtMost[V]
    <3>1. AtMost[V] \in [Node -> Nat]
      BY <2>1, AtMostFacts
    <3>2. QED
      BY <2>1, <2>2, <3>1
  <2>4. \A v \in Node : Reached(v) => Along(path[v]) = dist[v]
    BY ReachedShortest
  <2>5. QED
    BY <2>3, <2>4 DEF Shortest
<1>2. QED
  BY Invariance, PricedInvariance, <1>1, PTL
============================================================================
