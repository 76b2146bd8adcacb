------------------------- MODULE BoardClient_proofs -------------------------
(* Lemmas about the vectors of articles and the clients of Project2, for the   *)
(* proofs of the three protocols, and for every value of the constants.        *)
EXTENDS BoardClient, FiniteSetTheorems, FunctionTheorems, SequenceTheorems, TLAPS

LEMMA CardinalityUpTo ==
    ASSUME NEW n \in Nat
    PROVE  IsFiniteSet(1..n) /\ Cardinality(1..n) = n
<1>1. IsFiniteSet(1..n) /\ Cardinality(1..n) = IF 1 > n THEN 0 ELSE n - 1 + 1
  BY FS_Interval
<1> QED  BY <1>1

----------------------------------------------------------------------------
(* The sort of sendArticle.                                                   *)

(* The rank of a position counts the positions not after it, itself included. *)
Before(a, i) == {j \in DOMAIN a : \/ a[j].ID < a[i].ID
                                  \/ a[j].ID = a[i].ID /\ j <= i}

(* Ranks are positions, and different positions have different ranks.         *)
LEMMA RankInjective ==
    ASSUME NEW S, \A x \in S : x.ID \in Int, NEW a \in Seq(S)
    PROVE  /\ \A i \in DOMAIN a : Rank(a, i) \in DOMAIN a
           /\ \A i, j \in DOMAIN a : Rank(a, i) = Rank(a, j) => i = j
<1> DEFINE n == Len(a)
<1>0. /\ n \in Nat /\ DOMAIN a = 1..n /\ IsFiniteSet(1..n) /\ Cardinality(1..n) = n
      /\ \A i \in 1..n : a[i].ID \in Int
  <2>1. n \in Nat /\ DOMAIN a = 1..n
    BY LenProperties
  <2>2. IsFiniteSet(1..n) /\ Cardinality(1..n) = n
    BY <2>1, CardinalityUpTo
  <2>3. \A i \in 1..n : a[i] \in S
    BY <2>1, ElementOfSeq
  <2> QED  BY <2>1, <2>2, <2>3
<1>1. ASSUME NEW i \in 1..n
      PROVE  /\ IsFiniteSet(Before(a, i)) /\ Before(a, i) \subseteq 1..n
             /\ i \in Before(a, i)
             /\ Rank(a, i) = Cardinality(Before(a, i))
             /\ Rank(a, i) \in 1..n
  <2>1. Before(a, i) \in SUBSET (1..n) /\ i \in Before(a, i)
    BY <1>0 DEF Before
  <2>2. IsFiniteSet(Before(a, i)) /\ Cardinality(Before(a, i)) <= n
    BY <1>0, <2>1, FS_Subset
  <2>3. Cardinality(Before(a, i)) \in Nat \ {0}
    BY <2>1, <2>2, FS_CardinalityType, FS_EmptySet
  <2>4. Rank(a, i) = Cardinality(Before(a, i))
    BY DEF Rank, Before
  <2> QED  BY <1>0, <2>1, <2>2, <2>3, <2>4
<1>2. ASSUME NEW i \in 1..n, NEW j \in 1..n, Rank(a, i) = Rank(a, j)
      PROVE  i = j
  <2>1. \/ Before(a, i) \subseteq Before(a, j)
        \/ Before(a, j) \subseteq Before(a, i)
    BY <1>0 DEF Before
  <2>2. Before(a, i) = Before(a, j)
    BY <1>1, <1>2, <2>1, FS_Subset
  <2> QED  BY <1>0, <1>1, <2>2 DEF Before
<1> QED  BY <1>0, <1>1, <1>2

(* Every rank is taken.                                                       *)
LEMMA RankOnto ==
    ASSUME NEW S, \A x \in S : x.ID \in Int, NEW a \in Seq(S), NEW k \in DOMAIN a
    PROVE  \E i \in DOMAIN a : Rank(a, i) = k
<1> DEFINE D == DOMAIN a
           f == [i \in D |-> Rank(a, i)]
<1>1. IsFiniteSet(D) /\ D = 1..Len(a)
  BY FS_Interval, LenProperties
<1>2. f \in Injection(D, D)
  BY RankInjective DEF Injection, IsInjective
<1>3. f \in Surjection(D, D)
  BY <1>1, <1>2, FS_Injection
<1> QED  BY <1>3 DEF Surjection

(* Sorting gives a sequence of the same articles, of the same length.         *)
LEMMA SortType ==
    ASSUME NEW S, \A x \in S : x.ID \in Int, NEW a \in Seq(S)
    PROVE  /\ SortByID(a) \in Seq(S)
           /\ Len(SortByID(a)) = Len(a)
           /\ DOMAIN SortByID(a) = DOMAIN a
<1>1. ASSUME NEW k \in DOMAIN a
      PROVE  SortByID(a)[k] \in S
  <2>1. (CHOOSE i \in DOMAIN a : Rank(a, i) = k) \in DOMAIN a
    BY RankOnto
  <2> QED  BY <2>1, ElementOfSeq, LenProperties DEF SortByID
<1>2. DOMAIN a = 1..Len(a) /\ Len(a) \in Nat
  BY LenProperties
<1>3. SortByID(a) \in [1..Len(a) -> S]
  BY <1>1, <1>2 DEF SortByID
<1> QED  BY <1>2, <1>3, IsASeq, LenProperties

(* An article vector whose IDs are its positions is left as it is.            *)
LEMMA SortOfNumbered ==
    ASSUME NEW S, \A x \in S : x.ID \in Int, NEW a \in Seq(S), \A i \in DOMAIN a : a[i].ID = i
    PROVE  SortByID(a) = a
<1>1. DOMAIN a = 1..Len(a) /\ Len(a) \in Nat
  BY LenProperties
<1>2. ASSUME NEW i \in DOMAIN a
      PROVE  Rank(a, i) = i
  <2>1. Before(a, i) = 1..i
    BY <1>1 DEF Before
  <2>2. i \in Nat /\ Cardinality(1..i) = i
    BY <1>1, CardinalityUpTo
  <2>3. Rank(a, i) = Cardinality(Before(a, i))
    BY DEF Rank, Before
  <2> QED  BY <2>1, <2>2, <2>3
<1>3. ASSUME NEW k \in DOMAIN a
      PROVE  (CHOOSE i \in DOMAIN a : Rank(a, i) = k) = k
  <2> DEFINE c == CHOOSE i \in DOMAIN a : Rank(a, i) = k
  <2>1. \E i \in DOMAIN a : Rank(a, i) = k
    BY <1>2
  <2>2. c \in DOMAIN a /\ Rank(a, c) = k
    BY <2>1
  <2> QED  BY <1>2, <2>2
<1>4. ASSUME NEW k \in DOMAIN a
      PROVE  SortByID(a)[k] = a[k]
  BY <1>3 DEF SortByID
<1> QED  BY <1>1, <1>4, SortType, SeqEqual

----------------------------------------------------------------------------
(* The first element of a nonempty set of positions: find and                 *)
(* findArticlebyID stop at the first hit.                                     *)
LEMMA FirstIsLeast ==
    ASSUME NEW n \in Nat, NEW S \in SUBSET (1..n), S # {}
    PROVE  First(S) \in S /\ \A j \in S : First(S) <= j
<1> DEFINE upto(i) == {j \in S : j <= i}
           m == Cardinality(S)
           f == [i \in S |-> Cardinality(upto(i))]
<1>1. IsFiniteSet(S) /\ m \in Nat /\ m # 0
  <2>1. IsFiniteSet(1..n)
    BY FS_Interval
  <2>2. IsFiniteSet(S)
    BY <2>1, FS_Subset
  <2> QED  BY <2>2, FS_CardinalityType, FS_EmptySet
<1>2. IsFiniteSet(1..m) /\ Cardinality(1..m) = m
  BY <1>1, CardinalityUpTo
<1>3. ASSUME NEW i \in S
      PROVE  IsFiniteSet(upto(i)) /\ i \in upto(i) /\ f[i] \in 1..m
  <2>1. upto(i) \in SUBSET S /\ i \in upto(i)
    OBVIOUS
  <2>2. /\ IsFiniteSet(upto(i)) /\ Cardinality(upto(i)) <= m
        /\ Cardinality(upto(i)) \in Nat \ {0}
    BY <1>1, <2>1, FS_Subset, FS_CardinalityType, FS_EmptySet
  <2> QED  BY <1>1, <2>1, <2>2
<1>4. ASSUME NEW i \in S, NEW j \in S, f[i] = f[j]
      PROVE  i = j
  <2>1. upto(i) \subseteq upto(j) \/ upto(j) \subseteq upto(i)
    <3>1. i \in Nat /\ j \in Nat /\ \A k \in S : k \in Nat
      OBVIOUS
    <3>2. CASE i <= j
      <4>1. \A k \in S : k <= i => k <= j
        BY <3>1, <3>2
      <4> QED  BY <4>1
    <3>3. CASE j <= i
      <4>1. \A k \in S : k <= j => k <= i
        BY <3>1, <3>3
      <4> QED  BY <4>1
    <3> QED  BY <3>1, <3>2, <3>3
  <2>2. upto(i) = upto(j)
    BY <1>3, <1>4, <2>1, FS_Subset
  <2>3. i \in upto(j) /\ j \in upto(i)
    BY <1>3, <2>2
  <2> QED  BY <2>3
<1>5. f \in Injection(S, 1..m)
  BY <1>3, <1>4 DEF Injection, IsInjective
<1>6. f \in Surjection(S, 1..m)
  BY <1>1, <1>2, <1>5, FS_Injection
<1>7. PICK i \in S : f[i] = 1
  <2>1. 1 \in 1..m
    BY <1>1
  <2>2. \A t \in 1..m : \E i \in S : f[i] = t
    <3> HIDE DEF f
    <3> QED  BY <1>6 DEF Surjection
  <2> QED  BY <2>1, <2>2
<1>8. ASSUME NEW j \in S
      PROVE  i <= j
  <2>1. SUFFICES ASSUME j < i  PROVE FALSE
    OBVIOUS
  <2>2. {i, j} \in SUBSET upto(i) /\ i # j
    BY <2>1
  <2>3. Cardinality({i, j}) = 2
    <3>1. IsFiniteSet({i}) /\ Cardinality({i}) = 1
      BY FS_Singleton
    <3>2. Cardinality({i} \cup {j}) = 2
      BY <2>2, <3>1, FS_AddElement
    <3>3. {i, j} = {i} \cup {j}
      OBVIOUS
    <3> QED  BY <3>2, <3>3
  <2>4. Cardinality({i, j}) <= f[i]
    BY <1>3, <2>2, FS_Subset
  <2> QED  BY <1>7, <2>3, <2>4
<1> QED  BY <1>8 DEF First

LEMMA RemoveAtType ==
    ASSUME NEW S, NEW q \in Seq(S), NEW i \in DOMAIN q
    PROVE  /\ RemoveAt(q, i) \in Seq(S)
           /\ Len(RemoveAt(q, i)) = Len(q) - 1
           /\ \A k \in DOMAIN RemoveAt(q, i) :
                RemoveAt(q, i)[k] = IF k < i THEN q[k] ELSE q[k + 1]
<1> DEFINE left == SubSeq(q, 1, i - 1)
           right == SubSeq(q, i + 1, Len(q))
<1>1. DOMAIN q = 1..Len(q) /\ Len(q) \in Nat /\ i \in 1..Len(q)
  BY LenProperties
<1>2. /\ left \in Seq(S) /\ Len(left) = i - 1
      /\ \A k \in 1..(i - 1) : left[k] = q[k]
  BY <1>1
<1>3. /\ right \in Seq(S) /\ Len(right) = Len(q) - i
      /\ \A k \in 1..(Len(q) - i) : right[k] = q[k + i]
  BY <1>1
<1> HIDE DEF left, right
<1>4. /\ left \o right \in Seq(S)
      /\ Len(left \o right) = Len(q) - 1
      /\ \A k \in 1..(Len(q) - 1) :
           (left \o right)[k] = IF k <= i - 1 THEN left[k] ELSE right[k - (i - 1)]
  <2>1. /\ left \o right \in Seq(S)
        /\ Len(left \o right) = Len(left) + Len(right)
        /\ \A k \in 1..(Len(left) + Len(right)) :
             (left \o right)[k] = IF k <= Len(left) THEN left[k] ELSE right[k - Len(left)]
    BY <1>2, <1>3, ConcatProperties
  <2>2. Len(left) + Len(right) = Len(q) - 1
    BY <1>1, <1>2, <1>3
  <2> QED  BY <1>2, <2>1, <2>2
<1>5. RemoveAt(q, i) = left \o right
  BY DEF RemoveAt, left, right
<1>6. ASSUME NEW k \in 1..(Len(q) - 1)
      PROVE  (left \o right)[k] = IF k < i THEN q[k] ELSE q[k + 1]
  <2>1. CASE k < i
    BY <1>1, <1>2, <1>4, <2>1
  <2>2. CASE ~(k < i)
    <3>1. k - (i - 1) \in 1..(Len(q) - i) /\ (left \o right)[k] = right[k - (i - 1)]
      BY <1>1, <1>4, <2>2
    <3>2. (k - (i - 1)) + i = k + 1
      BY <1>1
    <3> QED  BY <1>3, <2>2, <3>1, <3>2
  <2> QED  BY <2>1, <2>2
<1> QED  BY <1>4, <1>5, <1>6, LenProperties

(* The articles of a vector after the sort are those before it, each as often.  *)
LEMMA SortMoves ==
    ASSUME NEW S, \A x \in S : x.ID \in Int, NEW a \in Seq(S)
    PROVE  \E f \in [DOMAIN a -> DOMAIN a] :
             /\ \A k \in DOMAIN a : SortByID(a)[k] = a[f[k]]
             /\ \A i \in DOMAIN a : \E k \in DOMAIN a : f[k] = i
             /\ \A k, l \in DOMAIN a : f[k] = f[l] => k = l
<1> DEFINE f == [k \in DOMAIN a |-> CHOOSE i \in DOMAIN a : Rank(a, i) = k]
<1>1. \A k \in DOMAIN a : f[k] \in DOMAIN a /\ Rank(a, f[k]) = k
  BY RankOnto
<1>2. f \in [DOMAIN a -> DOMAIN a]
  BY <1>1
<1>3. \A k \in DOMAIN a : SortByID(a)[k] = a[f[k]]
  BY DEF SortByID
<1> HIDE DEF f
<1>4. ASSUME NEW i \in DOMAIN a
      PROVE  \E k \in DOMAIN a : f[k] = i
  <2>1. Rank(a, i) \in DOMAIN a
    BY RankInjective
  <2>2. f[Rank(a, i)] \in DOMAIN a /\ Rank(a, f[Rank(a, i)]) = Rank(a, i)
    BY <1>1, <2>1
  <2>3. f[Rank(a, i)] = i
    BY <2>2, RankInjective
  <2> QED  BY <2>1, <2>3
<1>5. \A k, l \in DOMAIN a : f[k] = f[l] => k = l
  BY <1>1
<1> QED  BY <1>2, <1>3, <1>4, <1>5

(* A post on a vector, or on a board that was sent: not at all, or once.        *)
HasNone(a, p) == \A i \in DOMAIN a : a[i].post # p
HasOnce(a, p) ==
    \E i \in DOMAIN a : a[i].post = p /\ \A j \in DOMAIN a : a[j].post = p => j = i

LEMMA SortKeeps ==
    ASSUME NEW S, \A x \in S : x.ID \in Int, NEW a \in Seq(S), NEW p
    PROVE  /\ HasNone(a, p) => HasNone(SortByID(a), p)
           /\ HasOnce(a, p) => HasOnce(SortByID(a), p)
<1>1. DOMAIN SortByID(a) = DOMAIN a
  BY DEF SortByID
<1>2. PICK f \in [DOMAIN a -> DOMAIN a] :
        /\ \A k \in DOMAIN a : SortByID(a)[k] = a[f[k]]
        /\ \A i \in DOMAIN a : \E k \in DOMAIN a : f[k] = i
        /\ \A k, l \in DOMAIN a : f[k] = f[l] => k = l
  BY SortMoves
<1>3. HasNone(a, p) => HasNone(SortByID(a), p)
  <2>1. \A k \in DOMAIN a : f[k] \in DOMAIN a /\ SortByID(a)[k] = a[f[k]]
    BY <1>2
  <2> QED  BY <1>1, <2>1 DEF HasNone
<1>4. ASSUME HasOnce(a, p)
      PROVE  HasOnce(SortByID(a), p)
  <2>1. PICK i \in DOMAIN a : a[i].post = p /\ \A j \in DOMAIN a : a[j].post = p => j = i
    BY <1>4 DEF HasOnce
  <2>2. PICK k \in DOMAIN a : f[k] = i
    BY <1>2, <2>1
  <2>3. SortByID(a)[k].post = p
    BY <1>2, <2>1, <2>2
  <2>4. ASSUME NEW l \in DOMAIN a, SortByID(a)[l].post = p
        PROVE  l = k
    <3>1. f[l] \in DOMAIN a /\ a[f[l]].post = p
      BY <1>2, <2>4
    <3>2. f[l] = i
      BY <2>1, <3>1
    <3> QED  BY <1>2, <2>2, <3>2
  <2> QED  BY <1>1, <2>3, <2>4 DEF HasOnce
<1> QED  BY <1>3, <1>4

(* A vector in the order of its sort, none of it new and none of it lost.       *)
LEMMA SortShows ==
    ASSUME NEW S, \A x \in S : x.ID \in Int, NEW a \in Seq(S)
    PROVE  /\ \A i \in DOMAIN a : \E k \in DOMAIN SortByID(a) : SortByID(a)[k].post = a[i].post
           /\ \A k \in DOMAIN SortByID(a) : \E i \in DOMAIN a : SortByID(a)[k].post = a[i].post
<1>1. DOMAIN SortByID(a) = DOMAIN a
  BY DEF SortByID
<1>2. PICK f \in [DOMAIN a -> DOMAIN a] :
        /\ \A k \in DOMAIN a : SortByID(a)[k] = a[f[k]]
        /\ \A i \in DOMAIN a : \E k \in DOMAIN a : f[k] = i
        /\ \A k, l \in DOMAIN a : f[k] = f[l] => k = l
  BY SortMoves
<1>3. \A i \in DOMAIN a : \E k \in DOMAIN SortByID(a) : SortByID(a)[k].post = a[i].post
  <2> SUFFICES ASSUME NEW i \in DOMAIN a
               PROVE  \E k \in DOMAIN SortByID(a) : SortByID(a)[k].post = a[i].post
    OBVIOUS
  <2>1. PICK k \in DOMAIN a : f[k] = i
    BY <1>2
  <2> QED  BY <1>1, <1>2, <2>1
<1>4. \A k \in DOMAIN SortByID(a) : \E i \in DOMAIN a : SortByID(a)[k].post = a[i].post
  BY <1>1, <1>2
<1> QED  BY <1>3, <1>4

LEMMA SentKeeps ==
    ASSUME NEW a, NEW p
    PROVE  /\ HasNone(a, p) => HasNone(Sent(a), p)
           /\ HasOnce(a, p) => HasOnce(Sent(a), p)
<1>1. DOMAIN Sent(a) = DOMAIN a /\ \A i \in DOMAIN a : Sent(a)[i].post = a[i].post
  BY DEF Sent
<1> QED  BY <1>1 DEF HasNone, HasOnce

(* One more article.                                                            *)
LEMMA AppendKeeps ==
    ASSUME NEW S, NEW a \in Seq(S), NEW x \in S, NEW p
    PROVE  /\ HasNone(a, p) /\ x.post # p => HasNone(Append(a, x), p)
           /\ HasOnce(a, p) /\ x.post # p => HasOnce(Append(a, x), p)
           /\ HasNone(a, p) /\ x.post = p => HasOnce(Append(a, x), p)
<1> DEFINE b == Append(a, x)
           n == Len(a) + 1
<1>1. /\ DOMAIN b = DOMAIN a \cup {n} /\ n \notin DOMAIN a
      /\ b[n] = x /\ \A k \in DOMAIN a : b[k] = a[k]
  BY AppendProperties, LenProperties
<1> HIDE DEF b, n
<1>2. HasNone(a, p) /\ x.post # p => HasNone(b, p)
  BY <1>1 DEF HasNone
<1>3. HasOnce(a, p) /\ x.post # p => HasOnce(b, p)
  BY <1>1 DEF HasOnce
<1>4. HasNone(a, p) /\ x.post = p => HasOnce(b, p)
  BY <1>1 DEF HasNone, HasOnce
<1> QED  BY <1>2, <1>3, <1>4 DEF b

LEMMA OnceCounted ==
    ASSUME NEW a, NEW p, HasOnce(a, p)
    PROVE  Cardinality({i \in DOMAIN a : a[i].post = p}) = 1
<1>1. PICK i \in DOMAIN a : a[i].post = p /\ \A j \in DOMAIN a : a[j].post = p => j = i
  BY DEF HasOnce
<1>2. {j \in DOMAIN a : a[j].post = p} = {i}
  BY <1>1
<1> QED  BY <1>2, FS_Singleton

----------------------------------------------------------------------------
(* The vectors and the clients are well typed.                                  *)

Entry == [post : Post, hierachy : Nat]

LEMMA SentType ==
    ASSUME NEW S, \A x \in S : x.post \in Post /\ x.hierachy \in Nat, NEW a \in Seq(S)
    PROVE  Sent(a) \in Seq(Entry) /\ DOMAIN Sent(a) = DOMAIN a
<1>1. DOMAIN a = 1..Len(a) /\ Len(a) \in Nat /\ \A k \in DOMAIN a : a[k] \in S
  BY LenProperties, ElementOfSeq
<1>2. Sent(a) \in [1..Len(a) -> Entry]
  BY <1>1 DEF Sent, Entry
<1> QED  BY <1>1, <1>2, IsASeq DEF Sent

LEMMA CarrierType ==
    ASSUME NEW S, NEW a \in Seq(S), NEW id, Carriers(a, id) # {}
    PROVE  First(Carriers(a, id)) \in DOMAIN a /\ a[First(Carriers(a, id))] \in S
<1> DEFINE C == Carriers(a, id)
<1>1. C \in SUBSET (1..Len(a)) /\ C # {} /\ Len(a) \in Nat /\ DOMAIN a = 1..Len(a)
  BY LenProperties DEF Carriers
<1>2. First(C) \in 1..Len(a)
  <2> HIDE DEF C
  <2> QED  BY <1>1, FirstIsLeast
<1> QED  BY <1>1, <1>2, ElementOfSeq

LEMMA HierachyType ==
    ASSUME NEW S, \A x \in S : x.hierachy \in Nat, NEW a \in Seq(S), NEW u, Accepts(a, u)
    PROVE  Hierachy(a, u) \in Nat
<1>1. CASE u.repID = NewPost
  BY <1>1 DEF Hierachy
<1>2. CASE u.repID # NewPost
  <2>1. Carriers(a, u.repID) # {}
    BY <1>2 DEF Accepts
  <2>2. a[First(Carriers(a, u.repID))] \in S
    BY <2>1, CarrierType
  <2> QED  BY <1>2, <2>2 DEF Hierachy
<1> QED  BY <1>1, <1>2

CallRecord == [op : Ops, server : Servers, repID : RepID, post : 0..MaxWrites]

LEMMA NoCallType == NoCall \in CallRecord /\ NoCall.op \notin Writing /\ NoCall.op # "READ"
BY ClientAssumption DEF NoCall, CallRecord, Ops, Writing, RepID, NewPost

LEMMA ClientInitType == ClientInit => ClientTypeOK
<1>1. <<>> \in Seq(Entry)
  BY EmptySeq
<1>2. ClientInit => ClientTypeOK
  BY <1>1, NoCallType, ClientAssumption DEF ClientInit, ClientTypeOK, Entry, CallRecord
<1> QED  BY <1>2

(* A client begins to wait for one answer.                                      *)
Asks(c, r) ==
    /\ c \in Clients /\ call[c] = NoCall /\ r \in CallRecord
    /\ call' = [call EXCEPT ![c] = r]
    /\ UNCHANGED <<view, told>>
    /\ \/ r.op \in Writing /\ writes' = writes + 1 /\ r.post = writes + 1 /\ r.post \in Post
       \/ r.op = "READ" /\ writes' = writes

LEMMA ClientAsks ==
    ASSUME ClientTypeOK, ClientAction
    PROVE  \E c, r : Asks(c, r)
<1>1. PICK c \in Clients, s \in Servers :
        \/ ClientPost(c, s)
        \/ ClientRead(c, s)
        \/ \E id \in DOMAIN view[c] \cup StrayIDs : ClientReply(c, s, id)
  BY DEF ClientAction
<1>2. ASSUME NEW op \in Writing, NEW id \in RepID, Write(c, s, op, id)
      PROVE  \E r : Asks(c, r)
  <2> DEFINE r == [op |-> op, server |-> s, repID |-> id, post |-> writes']
  <2>1. writes \in 0..MaxWrites /\ writes < MaxWrites /\ writes' = writes + 1 /\ MaxWrites \in Nat
    BY <1>2, ClientAssumption DEF Write, ClientTypeOK
  <2>2. writes' \in 0..MaxWrites /\ writes' \in Post
    BY <2>1 DEF Post
  <2>3. r \in CallRecord /\ r.op = op /\ r.post = writes + 1 /\ r.post \in Post
    BY <2>1, <2>2 DEF CallRecord, Ops
  <2>4. call[c] = NoCall /\ call' = [call EXCEPT ![c] = r] /\ UNCHANGED <<view, told>>
    BY <1>2 DEF Write, Issue
  <2> HIDE DEF r
  <2> QED  BY <2>1, <2>3, <2>4 DEF Asks
<1>3. CASE ClientPost(c, s)
  <2>1. "POST" \in Writing /\ NewPost \in RepID
    BY DEF Writing, RepID
  <2> QED  BY <1>2, <1>3, <2>1 DEF ClientPost
<1>4. CASE ClientRead(c, s)
  <2> DEFINE r == [op |-> "READ", server |-> s, repID |-> NewPost, post |-> 0]
  <2>1. r \in CallRecord /\ r.op = "READ"
    BY ClientAssumption DEF CallRecord, Ops, RepID
  <2>2. call[c] = NoCall /\ call' = [call EXCEPT ![c] = r] /\ UNCHANGED <<view, told, writes>>
    BY <1>4 DEF ClientRead, Issue
  <2> HIDE DEF r
  <2> QED  BY <2>1, <2>2 DEF Asks
<1>5. ASSUME NEW id \in DOMAIN view[c] \cup StrayIDs, ClientReply(c, s, id)
      PROVE  \E r : Asks(c, r)
  <2>1. view[c] \in Seq(Entry)
    BY DEF ClientTypeOK, Entry
  <2>2. DOMAIN view[c] \subseteq Nat
    BY <2>1, LenProperties
  <2>3. "REPLY" \in Writing /\ id \in RepID
    BY <2>2, ClientAssumption DEF Writing, RepID
  <2> QED  BY <1>2, <1>5, <2>3 DEF ClientReply
<1> QED  BY <1>1, <1>3, <1>4, <1>5

LEMMA AsksType ==
    ASSUME ClientTypeOK, NEW c, NEW r, Asks(c, r)
    PROVE  ClientTypeOK'
<1>1. call' \in [Clients -> CallRecord]
  BY DEF Asks, ClientTypeOK, CallRecord
<1>2. \A d \in Clients : call'[d].op \in Writing => call'[d].post \in Post
  BY DEF Asks, ClientTypeOK, Writing
<1>3. writes' \in 0..MaxWrites
  BY DEF Asks, ClientTypeOK, Post
<1> QED  BY <1>1, <1>2, <1>3 DEF Asks, ClientTypeOK, CallRecord

(* A client gets its answer.                                                    *)
LEMMA TellType ==
    ASSUME ClientTypeOK, NEW c \in Clients, call[c].op \in Writing, NEW ok \in BOOLEAN, Tell(c, ok)
    PROVE  ClientTypeOK'
<1>1. call' \in [Clients -> CallRecord]
  BY NoCallType DEF Tell, ClientTypeOK, CallRecord
<1>2. \A d \in Clients : call'[d].op \in Writing => call'[d].post \in Post
  BY NoCallType DEF Tell, ClientTypeOK
<1>3. told' \subseteq [client : Clients, post : Post, ok : BOOLEAN]
  BY DEF Tell, ClientTypeOK
<1> QED  BY <1>1, <1>2, <1>3 DEF Tell, ClientTypeOK, CallRecord

LEMMA ShowType ==
    ASSUME ClientTypeOK, NEW c \in Clients, NEW a, Sent(a) \in Seq(Entry), Show(c, a)
    PROVE  ClientTypeOK'
<1>1. call' \in [Clients -> CallRecord]
  BY NoCallType DEF Show, ClientTypeOK, CallRecord
<1>2. \A d \in Clients : call'[d].op \in Writing => call'[d].post \in Post
  BY NoCallType DEF Show, ClientTypeOK
<1>3. view' \in [Clients -> Seq(Entry)]
  BY DEF Show, ClientTypeOK, Entry
<1> QED  BY <1>1, <1>2, <1>3 DEF Show, ClientTypeOK, CallRecord, Entry
----------------------------------------------------------------------------
(* A list of things, each there once, is a set.                                 *)

Named(q) == {q[i] : i \in DOMAIN q}
Distinct(q) == \A i, j \in DOMAIN q : q[i] = q[j] => i = j

LEMMA HeadFirst ==
    ASSUME NEW S, NEW q \in Seq(S), q # <<>>
    PROVE  /\ Head(q) \in S /\ Tail(q) \in Seq(S)
           /\ Named(q) = {Head(q)} \cup Named(Tail(q))
           /\ Distinct(q) => Distinct(Tail(q)) /\ Head(q) \notin Named(Tail(q))
<1>1. /\ DOMAIN q = 1..Len(q) /\ Len(q) \in Nat \ {0} /\ Head(q) = q[1]
      /\ Head(q) \in S /\ Tail(q) \in Seq(S) /\ DOMAIN Tail(q) = 1..(Len(q) - 1)
      /\ \A k \in 1..(Len(q) - 1) : Tail(q)[k] = q[k + 1]
  BY LenProperties, HeadTailProperties, EmptySeq
<1>2. Named(q) \subseteq {Head(q)} \cup Named(Tail(q))
  <2> SUFFICES ASSUME NEW i \in DOMAIN q
               PROVE  q[i] = Head(q) \/ q[i] \in Named(Tail(q))
    BY DEF Named
  <2>1. CASE i = 1
    BY <1>1, <2>1
  <2>2. CASE i # 1
    <3>1. i - 1 \in DOMAIN Tail(q) /\ Tail(q)[i - 1] = q[i]
      BY <1>1, <2>2
    <3> QED  BY <3>1 DEF Named
  <2> QED  BY <2>1, <2>2
<1>3. Named(Tail(q)) \subseteq Named(q) /\ Head(q) \in Named(q)
  BY <1>1 DEF Named
<1>4. ASSUME Distinct(q)
      PROVE  Distinct(Tail(q)) /\ Head(q) \notin Named(Tail(q))
  BY <1>1, <1>4 DEF Distinct, Named
<1> QED  BY <1>1, <1>2, <1>3, <1>4

LEMMA AppendNamed ==
    ASSUME NEW S, NEW q \in Seq(S), NEW x \in S
    PROVE  /\ Append(q, x) \in Seq(S) /\ Named(Append(q, x)) = Named(q) \cup {x}
           /\ Distinct(q) /\ x \notin Named(q) => Distinct(Append(q, x))
<1> DEFINE r == Append(q, x)
           n == Len(q)
<1>1. /\ r \in Seq(S) /\ n \in Nat /\ DOMAIN q = 1..n /\ DOMAIN r = 1..(n + 1)
      /\ r[n + 1] = x /\ \A i \in 1..n : r[i] = q[i]
  BY AppendProperties, LenProperties
<1> HIDE DEF r, n
<1>2. Named(r) = Named(q) \cup {x}
  <2>1. Named(r) \subseteq Named(q) \cup {x}
    <3> SUFFICES ASSUME NEW i \in DOMAIN r
                 PROVE  r[i] \in Named(q) \cup {x}
      BY DEF Named
    <3>1. i = n + 1 \/ i \in 1..n
      BY <1>1
    <3> QED  BY <1>1, <3>1 DEF Named
  <2>2. Named(q) \subseteq Named(r) /\ x \in Named(r)
    <3>1. \A i \in DOMAIN q : i \in DOMAIN r /\ r[i] = q[i]
      BY <1>1
    <3>2. n + 1 \in DOMAIN r /\ r[n + 1] = x
      BY <1>1
    <3> QED  BY <3>1, <3>2 DEF Named
  <2> QED  BY <2>1, <2>2
<1>3. ASSUME Distinct(q), x \notin Named(q), NEW i \in DOMAIN r, NEW j \in DOMAIN r, r[i] = r[j]
      PROVE  i = j
  <2>1. (i = n + 1 \/ i \in DOMAIN q) /\ (j = n + 1 \/ j \in DOMAIN q)
    BY <1>1
  <2>2. \A k \in DOMAIN q : q[k] # x /\ r[k] = q[k]
    BY <1>1, <1>3 DEF Named
  <2> QED  BY <1>1, <1>3, <2>1, <2>2 DEF Distinct
<1> QED  BY <1>1, <1>2, <1>3 DEF Distinct, r

LEMMA RemoveNamed ==
    ASSUME NEW S, NEW q \in Seq(S), NEW i \in DOMAIN q
    PROVE  /\ RemoveAt(q, i) \in Seq(S) /\ Named(RemoveAt(q, i)) \subseteq Named(q)
           /\ Distinct(q) => /\ Distinct(RemoveAt(q, i))
                             /\ Named(RemoveAt(q, i)) = Named(q) \ {q[i]}
<1> DEFINE r == RemoveAt(q, i)
           n == Len(q)
           old(k) == IF k < i THEN k ELSE k + 1
<1>1. /\ n \in Nat /\ DOMAIN q = 1..n /\ i \in 1..n
      /\ r \in Seq(S) /\ DOMAIN r = 1..(n - 1)
      /\ \A k \in DOMAIN r : r[k] = IF k < i THEN q[k] ELSE q[k + 1]
  <2>1. n \in Nat /\ DOMAIN q = 1..n /\ i \in 1..n
    BY LenProperties
  <2> QED  BY <2>1, RemoveAtType, LenProperties
<1> HIDE DEF r, n
<1>2. \A k \in DOMAIN r : old(k) \in DOMAIN q /\ old(k) # i /\ r[k] = q[old(k)]
  BY <1>1
<1>3. \A k, l \in DOMAIN r : old(k) = old(l) => k = l
  BY <1>1
<1>4. \A k \in DOMAIN q : k # i => \E l \in DOMAIN r : r[l] = q[k]
  <2> SUFFICES ASSUME NEW k \in DOMAIN q, k # i
               PROVE  \E l \in DOMAIN r : r[l] = q[k]
    OBVIOUS
  <2>1. CASE k < i
    BY <1>1, <2>1
  <2>2. CASE k > i
    <3>1. k - 1 \in DOMAIN r /\ r[k - 1] = q[k]
      BY <1>1, <2>2
    <3> QED  BY <3>1
  <2> QED  BY <1>1, <2>1, <2>2
<1> HIDE DEF old
<1>5. Named(r) \subseteq Named(q)
  BY <1>2 DEF Named
<1>6. ASSUME Distinct(q)
      PROVE  Distinct(r) /\ Named(r) = Named(q) \ {q[i]}
  <2>1. Distinct(r)
    BY <1>2, <1>3, <1>6 DEF Distinct
  <2>2. q[i] \notin Named(r)
    BY <1>2, <1>6 DEF Distinct, Named
  <2>3. Named(q) \subseteq Named(r) \cup {q[i]}
    BY <1>4 DEF Named
  <2> QED  BY <1>5, <2>1, <2>2, <2>3
<1> QED  BY <1>1, <1>5, <1>6 DEF r

----------------------------------------------------------------------------
(* The sort is stable, and a stable sort is determined by its input.  Two      *)
(* servers may have sorted their vectors at different moments.                 *)

(* Position i of a comes before j in the sorted vector.                        *)
Precedes(a, i, j) == a[i].ID < a[j].ID \/ (a[i].ID = a[j].ID /\ i < j)

(* f lists the positions of a in the order of the sort.                        *)
Arranges(a, f) ==
    /\ f \in [DOMAIN a -> DOMAIN a]
    /\ \A i \in DOMAIN a : \E k \in DOMAIN a : f[k] = i
    /\ \A k, l \in DOMAIN a : k < l => Precedes(a, f[k], f[l])

LEMMA SortArranges ==
    ASSUME NEW S, \A x \in S : x.ID \in Int, NEW a \in Seq(S)
    PROVE  \E f : Arranges(a, f) /\ \A k \in DOMAIN a : SortByID(a)[k] = a[f[k]]
<1> DEFINE f == [k \in DOMAIN a |-> CHOOSE i \in DOMAIN a : Rank(a, i) = k]
<1>1. \A k \in DOMAIN a : f[k] \in DOMAIN a /\ Rank(a, f[k]) = k
  BY RankOnto
<1>2. f \in [DOMAIN a -> DOMAIN a]
  BY <1>1
<1>3. \A k \in DOMAIN a : SortByID(a)[k] = a[f[k]]
  BY DEF SortByID
<1> HIDE DEF f
<1>4. ASSUME NEW i \in DOMAIN a
      PROVE  \E k \in DOMAIN a : f[k] = i
  <2>1. Rank(a, i) \in DOMAIN a
    BY RankInjective
  <2>2. f[Rank(a, i)] \in DOMAIN a /\ Rank(a, f[Rank(a, i)]) = Rank(a, i)
    BY <1>1, <2>1
  <2>3. f[Rank(a, i)] = i
    BY <2>2, RankInjective
  <2> QED  BY <2>1, <2>3
<1>5. /\ DOMAIN a = 1..Len(a) /\ Len(a) \in Nat /\ IsFiniteSet(DOMAIN a)
      /\ \A i \in DOMAIN a : a[i].ID \in Int
  <2>1. DOMAIN a = 1..Len(a) /\ Len(a) \in Nat
    BY LenProperties
  <2> QED  BY <2>1, CardinalityUpTo, ElementOfSeq
<1>6. ASSUME NEW k \in DOMAIN a, NEW l \in DOMAIN a, k < l
      PROVE  Precedes(a, f[k], f[l])
  <2>1. PICK i, j : i = f[k] /\ j = f[l] /\ i \in DOMAIN a /\ j \in DOMAIN a
                    /\ Rank(a, i) = k /\ Rank(a, j) = l
    BY <1>1
  <2>2. SUFFICES ASSUME ~Precedes(a, i, j)
                 PROVE  l <= k
    BY <1>5, <1>6, <2>1
  <2>3. Before(a, j) \subseteq Before(a, i)
    BY <1>5, <2>1, <2>2 DEF Precedes, Before
  <2>4. IsFiniteSet(Before(a, i))
    BY <1>5, FS_Subset DEF Before
  <2>5. Cardinality(Before(a, j)) <= Cardinality(Before(a, i))
    BY <2>3, <2>4, FS_Subset
  <2> QED  BY <2>1, <2>5 DEF Rank, Before
<1> QED  BY <1>2, <1>3, <1>4, <1>6 DEF Arranges

LEMMA SortUnique ==
    ASSUME NEW S, \A x \in S : x.ID \in Int, NEW a \in Seq(S), NEW f, Arranges(a, f),
           NEW k \in DOMAIN a
    PROVE  SortByID(a)[k] = a[f[k]]
<1>1. /\ DOMAIN a = 1..Len(a) /\ Len(a) \in Nat
      /\ \A i \in DOMAIN a : a[i].ID \in Int
  <2>1. DOMAIN a = 1..Len(a) /\ Len(a) \in Nat
    BY LenProperties
  <2> QED  BY <2>1, ElementOfSeq
<1>2. f[k] \in DOMAIN a
  BY DEF Arranges
<1> DEFINE g == [l \in 1..k |-> f[l]]
<1>3. ASSUME NEW l \in DOMAIN a
      PROVE  f[l] \in Before(a, f[k]) <=> l <= k
  <2>1. f[l] \in DOMAIN a
    BY DEF Arranges
  <2>2. CASE l <= k
    <3>1. l = k \/ Precedes(a, f[l], f[k])
      BY <1>1, <2>2 DEF Arranges
    <3> QED  BY <1>1, <1>2, <2>1, <2>2, <3>1 DEF Precedes, Before
  <2>3. CASE k < l
    <3>1. Precedes(a, f[k], f[l])
      BY <2>3 DEF Arranges
    <3> QED  BY <1>1, <1>2, <2>1, <2>3, <3>1 DEF Precedes, Before
  <2> QED  BY <1>1, <2>2, <2>3
<1>4. g \in [1..k -> Before(a, f[k])] /\ 1..k \subseteq DOMAIN a
  BY <1>1, <1>3
<1>5. \A l, m \in 1..k : g[l] = g[m] => l = m
  <2> SUFFICES ASSUME NEW l \in 1..k, NEW m \in 1..k, l < m
               PROVE  f[l] # f[m]
    BY <1>1
  <2>1. Precedes(a, f[l], f[m]) /\ f[l] \in DOMAIN a /\ f[m] \in DOMAIN a
    BY <1>4 DEF Arranges
  <2> QED  BY <1>1, <2>1 DEF Precedes
<1>6. \A i \in Before(a, f[k]) : \E l \in 1..k : g[l] = i
  <2> SUFFICES ASSUME NEW i \in Before(a, f[k])
               PROVE  \E l \in 1..k : f[l] = i
    OBVIOUS
  <2>1. PICK l \in DOMAIN a : f[l] = i
    BY DEF Arranges, Before
  <2>2. l <= k
    BY <1>3, <2>1
  <2> QED  BY <1>1, <2>1, <2>2
<1> HIDE DEF g
<1>7. g \in Bijection(1..k, Before(a, f[k]))
  BY <1>4, <1>5, <1>6 DEF Bijection, Injection, IsInjective, Surjection
<1>8. Cardinality(Before(a, f[k])) = k
  <2>1. ExistsBijection(1..k, Before(a, f[k]))
    BY <1>7 DEF ExistsBijection
  <2>2. IsFiniteSet(1..k) /\ Cardinality(1..k) = k
    BY <1>1, CardinalityUpTo
  <2> QED  BY <2>1, <2>2, FS_Bijection
<1>9. Rank(a, f[k]) = k
  BY <1>8 DEF Rank, Before
<1>10. (CHOOSE i \in DOMAIN a : Rank(a, i) = k) = f[k]
  <2> DEFINE c == CHOOSE i \in DOMAIN a : Rank(a, i) = k
  <2>1. c \in DOMAIN a /\ Rank(a, c) = k
    BY <1>2, <1>9
  <2> HIDE DEF c
  <2>2. c = f[k]
    BY <1>2, <1>9, <2>1, RankInjective
  <2> QED  BY <2>2 DEF c
<1> QED  BY <1>10 DEF SortByID

(* Sorting a second time changes nothing.                                      *)
LEMMA SortTwice ==
    ASSUME NEW S, \A x \in S : x.ID \in Int, NEW a \in Seq(S)
    PROVE  SortByID(SortByID(a)) = SortByID(a)
<1>1. PICK c : c = SortByID(a)
  OBVIOUS
<1>2. PICK f : Arranges(a, f) /\ \A k \in DOMAIN a : c[k] = a[f[k]]
  <2>1. \E f : Arranges(a, f) /\ \A k \in DOMAIN a : SortByID(a)[k] = a[f[k]]
    BY SortArranges
  <2> QED  BY <1>1, <2>1
<1>3. /\ c \in Seq(S) /\ DOMAIN c = DOMAIN a
      /\ DOMAIN a = 1..Len(a) /\ Len(a) \in Nat
      /\ \A i \in DOMAIN a : a[i].ID \in Int
  <2>1. DOMAIN a = 1..Len(a) /\ Len(a) \in Nat
    BY LenProperties
  <2> QED  BY <1>1, <2>1, SortType, ElementOfSeq
<1> DEFINE id == [k \in DOMAIN c |-> k]
<1>4. ASSUME NEW k \in DOMAIN a, NEW l \in DOMAIN a, k < l
      PROVE  Precedes(c, k, l)
  <2>1. Precedes(a, f[k], f[l]) /\ f[k] \in DOMAIN a /\ f[l] \in DOMAIN a
    BY <1>2, <1>4 DEF Arranges
  <2>2. c[k] = a[f[k]] /\ c[l] = a[f[l]]
    BY <1>2
  <2> QED  BY <1>3, <1>4, <2>1, <2>2 DEF Precedes
<1>5. Arranges(c, id)
  <2>1. id \in [DOMAIN c -> DOMAIN c] /\ \A k \in DOMAIN c : id[k] = k
    OBVIOUS
  <2>2. \A k, l \in DOMAIN c : k < l => Precedes(c, k, l)
    BY <1>3, <1>4
  <2> HIDE DEF id
  <2> QED  BY <2>1, <2>2 DEF Arranges
<1>6. ASSUME NEW k \in DOMAIN c
      PROVE  SortByID(c)[k] = c[k]
  <2>1. PICK e : e = id
    OBVIOUS
  <2>2. Arranges(c, e) /\ e[k] = k
    BY <1>5, <2>1
  <2>3. SortByID(c)[k] = c[e[k]]
    BY <1>3, <2>2, SortUnique
  <2> QED  BY <2>2, <2>3
<1>7. SortByID(c) = c
  <2>1. PICK d : d = SortByID(c)
    OBVIOUS
  <2>2. d \in Seq(S) /\ Len(d) = Len(c) /\ c \in Seq(S)
    BY <1>3, <2>1, SortType
  <2>3. \A i \in 1..Len(d) : d[i] = c[i]
    BY <1>6, <2>1, <2>2, LenProperties
  <2>4. d = c
    BY <2>2, <2>3, SeqEqual
  <2> QED  BY <2>1, <2>4
<1> QED  BY <1>1, <1>7

(* An article appended to a vector or to its sorted form: the same vector in   *)
(* the end.                                                                    *)
LEMMA SortAppended ==
    ASSUME NEW S, \A x \in S : x.ID \in Int, NEW a \in Seq(S), NEW x \in S
    PROVE  SortByID(Append(SortByID(a), x)) = SortByID(Append(a, x))
<1>1. PICK c, A, C, n : c = SortByID(a) /\ A = Append(a, x) /\ C = Append(c, x) /\ n = Len(a)
  OBVIOUS
<1>2. PICK f : Arranges(a, f) /\ \A k \in DOMAIN a : c[k] = a[f[k]]
  <2>1. \E f : Arranges(a, f) /\ \A k \in DOMAIN a : SortByID(a)[k] = a[f[k]]
    BY SortArranges
  <2> QED  BY <1>1, <2>1
<1>3. /\ n \in Nat /\ DOMAIN a = 1..n
      /\ c \in Seq(S) /\ Len(c) = n /\ DOMAIN c = 1..n
      /\ \A i \in 1..n : a[i].ID \in Int
  <2>1. DOMAIN a = 1..n /\ n \in Nat
    BY <1>1, LenProperties
  <2> QED  BY <1>1, <2>1, SortType, ElementOfSeq
<1>4. /\ A \in Seq(S) /\ DOMAIN A = 1..(n + 1) /\ A[n + 1] = x /\ \A i \in 1..n : A[i] = a[i]
      /\ C \in Seq(S) /\ DOMAIN C = 1..(n + 1) /\ C[n + 1] = x /\ \A i \in 1..n : C[i] = c[i]
      /\ \A i \in 1..(n + 1) : A[i].ID \in Int
  <2>1. /\ A \in Seq(S) /\ DOMAIN A = 1..(n + 1) /\ A[n + 1] = x /\ \A i \in 1..n : A[i] = a[i]
        /\ C \in Seq(S) /\ DOMAIN C = 1..(n + 1) /\ C[n + 1] = x /\ \A i \in 1..n : C[i] = c[i]
    BY <1>1, <1>3, AppendProperties, LenProperties
  <2> QED  BY <2>1, ElementOfSeq, LenProperties
<1>5. PICK g : Arranges(C, g) /\ \A k \in DOMAIN C : SortByID(C)[k] = C[g[k]]
  BY <1>4, SortArranges
<1>6. PICK e \in [1..(n + 1) -> 1..(n + 1)] :
        e[n + 1] = n + 1 /\ \A i \in 1..n : e[i] = f[i] /\ e[i] \in 1..n
  <2> DEFINE e == [i \in 1..(n + 1) |-> IF i = n + 1 THEN n + 1 ELSE f[i]]
  <2>1. \A i \in 1..n : f[i] \in 1..n /\ i # n + 1 /\ i \in 1..(n + 1)
    BY <1>2, <1>3 DEF Arranges
  <2>2. e \in [1..(n + 1) -> 1..(n + 1)]
    BY <1>3, <2>1
  <2>3. e[n + 1] = n + 1 /\ \A i \in 1..n : e[i] = f[i] /\ e[i] \in 1..n
    BY <1>3, <2>1
  <2> QED  BY <2>2, <2>3
<1>7. \A i \in 1..(n + 1) : C[i] = A[e[i]] /\ (i = n + 1 \/ i \in 1..n)
  <2>1. \A i \in 1..(n + 1) : i = n + 1 \/ i \in 1..n
    BY <1>3
  <2>2. C[n + 1] = A[e[n + 1]]
    BY <1>4, <1>6
  <2>3. ASSUME NEW i \in 1..n
        PROVE  C[i] = A[e[i]]
    <3>1. C[i] = c[i] /\ c[i] = a[f[i]]
      BY <1>2, <1>3, <1>4
    <3>2. e[i] = f[i] /\ e[i] \in 1..n
      BY <1>6
    <3>3. A[e[i]] = a[e[i]]
      BY <1>4, <3>2
    <3> QED  BY <3>1, <3>2, <3>3
  <2> QED  BY <2>1, <2>2, <2>3
<1>8. \A i \in 1..(n + 1) : \E j \in 1..(n + 1) : e[j] = i
  <2> SUFFICES ASSUME NEW i \in 1..n
               PROVE  \E j \in 1..(n + 1) : e[j] = i
    BY <1>3, <1>6, <1>7
  <2>1. PICK j \in 1..n : f[j] = i
    BY <1>2, <1>3 DEF Arranges
  <2> QED  BY <1>3, <1>6, <2>1
<1>9. ASSUME NEW i \in 1..(n + 1), NEW j \in 1..(n + 1), Precedes(C, i, j)
      PROVE  Precedes(A, e[i], e[j])
  <2>1. CASE C[i].ID < C[j].ID
    BY <1>7, <2>1 DEF Precedes
  <2>2. CASE C[i].ID = C[j].ID /\ i < j
    <3>1. i \in 1..n
      BY <1>3, <2>2
    <3>2. e[i] < e[j]
      <4>1. CASE j = n + 1
        BY <1>3, <1>6, <3>1, <4>1
      <4>2. CASE j \in 1..n
        <5>1. Precedes(a, f[i], f[j])
          BY <1>2, <1>3, <2>2, <3>1, <4>2 DEF Arranges
        <5>2. a[f[i]].ID = a[f[j]].ID /\ a[f[i]].ID \in Int
          BY <1>2, <1>3, <1>4, <1>6, <2>2, <3>1, <4>2
        <5>3. f[i] < f[j]
          BY <5>1, <5>2 DEF Precedes
        <5> QED  BY <1>6, <3>1, <4>2, <5>3
      <4> QED  BY <1>7, <4>1, <4>2
    <3> QED  BY <1>7, <2>2, <3>2 DEF Precedes
  <2> QED  BY <1>9, <2>1, <2>2 DEF Precedes
<1> DEFINE h == [k \in 1..(n + 1) |-> e[g[k]]]
<1>10. \A k \in 1..(n + 1) : g[k] \in 1..(n + 1)
  BY <1>4, <1>5 DEF Arranges
<1>11. Arranges(A, h)
  <2>1. h \in [1..(n + 1) -> 1..(n + 1)]
    BY <1>6, <1>10
  <2>2. \A i \in 1..(n + 1) : \E k \in 1..(n + 1) : h[k] = i
    <3> SUFFICES ASSUME NEW i \in 1..(n + 1)
                 PROVE  \E k \in 1..(n + 1) : h[k] = i
      OBVIOUS
    <3>1. PICK j \in 1..(n + 1) : e[j] = i
      BY <1>8
    <3>2. PICK k \in 1..(n + 1) : g[k] = j
      BY <1>4, <1>5 DEF Arranges
    <3> QED  BY <3>1, <3>2
  <2>3. \A k, l \in 1..(n + 1) : k < l => Precedes(A, h[k], h[l])
    <3>1. \A k, l \in 1..(n + 1) : k < l => Precedes(C, g[k], g[l])
      BY <1>4, <1>5 DEF Arranges
    <3> QED  BY <1>9, <1>10, <3>1
  <2> QED  BY <1>4, <2>1, <2>2, <2>3 DEF Arranges
<1>12. ASSUME NEW k \in 1..(n + 1)
       PROVE  SortByID(C)[k] = SortByID(A)[k]
  <2>1. SortByID(A)[k] = A[h[k]]
    <3>1. PICK p : p = h
      OBVIOUS
    <3>2. A \in Seq(S) /\ k \in DOMAIN A /\ Arranges(A, p)
      BY <1>4, <1>11, <3>1
    <3>3. SortByID(A)[k] = A[p[k]]
      BY <3>2, SortUnique
    <3> QED  BY <3>1, <3>3
  <2>2. SortByID(C)[k] = C[g[k]] /\ h[k] = e[g[k]]
    BY <1>4, <1>5
  <2> QED  BY <1>7, <1>10, <2>1, <2>2
<1>13. SortByID(C) = SortByID(A)
  <2>1. /\ SortByID(A) \in Seq(S) /\ Len(SortByID(A)) = Len(A)
        /\ SortByID(C) \in Seq(S) /\ Len(SortByID(C)) = Len(C)
        /\ DOMAIN SortByID(A) = 1..(n + 1)
    BY <1>4, SortType
  <2>2. Len(A) = n + 1 /\ Len(C) = n + 1
    BY <1>1, <1>3, AppendProperties
  <2> QED  BY <1>12, <2>1, <2>2, SeqEqual, LenProperties
<1> QED  BY <1>1, <1>13

(* Sorting changes neither whether an update is accepted nor the hierachy its   *)
(* article gets: the first article carrying an ID stays the first one.          *)
LEMMA SortLooksUp ==
    ASSUME NEW S, \A x \in S : x.ID \in Int, NEW a \in Seq(S), NEW u
    PROVE  /\ Accepts(SortByID(a), u) <=> Accepts(a, u)
           /\ Accepts(a, u) => Hierachy(SortByID(a), u) = Hierachy(a, u)
<1>1. PICK c, A, C : c = SortByID(a) /\ A = Carriers(a, u.repID) /\ C = Carriers(c, u.repID)
  OBVIOUS
<1>2. PICK f : Arranges(a, f) /\ \A k \in DOMAIN a : c[k] = a[f[k]]
  <2>1. \E f : Arranges(a, f) /\ \A k \in DOMAIN a : SortByID(a)[k] = a[f[k]]
    BY SortArranges
  <2> QED  BY <1>1, <2>1
<1>3. /\ DOMAIN c = DOMAIN a /\ DOMAIN a = 1..Len(a) /\ Len(a) \in Nat
      /\ \A i \in DOMAIN a : a[i].ID \in Int
  <2>1. DOMAIN a = 1..Len(a) /\ Len(a) \in Nat
    BY LenProperties
  <2> QED  BY <1>1, <2>1, SortType, ElementOfSeq
<1>4. /\ \A i : i \in A <=> i \in DOMAIN a /\ a[i].ID = u.repID
      /\ \A k : k \in C <=> k \in DOMAIN a /\ a[f[k]].ID = u.repID
  BY <1>1, <1>2, <1>3 DEF Carriers
<1>5. \A k \in C : f[k] \in A
  BY <1>2, <1>4 DEF Arranges
<1>6. \A i \in A : \E k \in C : f[k] = i
  BY <1>2, <1>4 DEF Arranges
<1>7. C # {} <=> A # {}
  BY <1>5, <1>6
<1>8. ASSUME A # {}
      PROVE  c[First(C)] = a[First(A)]
  <2>1. A \in SUBSET (1..Len(a)) /\ C \in SUBSET (1..Len(a))
    BY <1>3, <1>4
  <2>2. PICK p, q : p = First(A) /\ q = First(C)
    OBVIOUS
  <2>3. /\ p \in A /\ \A i \in A : p <= i
        /\ q \in C /\ \A k \in C : q <= k
    BY <1>3, <1>7, <1>8, <2>1, <2>2, FirstIsLeast
  <2>4. PICK k \in C : f[k] = p
    BY <1>6, <2>3
  <2>5. p <= f[q] /\ q <= k
    BY <1>5, <2>3
  <2>6. q = k
    <3>1. SUFFICES ASSUME q < k  PROVE FALSE
      BY <1>3, <2>1, <2>3, <2>5
    <3>2. Precedes(a, f[q], f[k])
      BY <1>2, <1>4, <2>3, <3>1 DEF Arranges
    <3>3. a[f[q]].ID = a[f[k]].ID /\ f[q] \in 1..Len(a) /\ f[k] \in 1..Len(a)
          /\ a[f[q]].ID \in Int
      BY <1>3, <1>4, <1>5, <2>1, <2>3
    <3> QED  BY <2>4, <2>5, <3>2, <3>3 DEF Precedes
  <2>7. c[q] = a[f[q]]
    BY <1>2, <1>4, <2>3
  <2> QED  BY <2>2, <2>4, <2>6, <2>7
<1> QED  BY <1>1, <1>7, <1>8 DEF Accepts, Hierachy
============================================================================
