------------------------------ MODULE Articles ------------------------------
(* The vector of articles every server of Project2 keeps: what Server/         *)
(* BB_system.cpp and the update_backup / update_local of Server/Server.cpp do  *)
(* with it.  An article is a record with an ID, a hierachy (the depth of the   *)
(* reply) and a post, which stands for its text.                               *)
(*                                                                             *)
(* Operators marked "mutant", here and in the other modules, are slips the     *)
(* properties must catch; no specification uses them.                          *)
EXTENDS Integers, Sequences, FiniteSets

NewPost == -1 \* the reply ID of a new post
RepID   == Nat \cup {NewPost}

\* sort(articles.begin(), articles.end(), comp) by increasing ID.  Equal IDs
\* keep their order, as they do in the insertion sort libstdc++ uses for
\* vectors of at most 16 elements.
RankReversingTies(a, i) == \* mutant: a sort that swaps equal IDs
    Cardinality({j \in DOMAIN a : \/ a[j].ID < a[i].ID
                                  \/ a[j].ID = a[i].ID /\ j >= i})
Rank(a, i) == Cardinality({j \in DOMAIN a : \/ a[j].ID < a[i].ID
                                            \/ a[j].ID = a[i].ID /\ j <= i})
SortDescending(a) == \* mutant: comp compares the wrong way round
    [k \in DOMAIN a |-> a[CHOOSE i \in DOMAIN a : Rank(a, i) = Len(a) + 1 - k]]
SortByID(a) == [k \in DOMAIN a |-> a[CHOOSE i \in DOMAIN a : Rank(a, i) = k]]

\* findArticlebyID: the articles of a that carry the ID, first one first.
Carriers(a, id) == {i \in DOMAIN a : a[i].ID = id}
First(S) == CHOOSE i \in S : \A j \in S : i <= j

\* update_backup returns false when the article replied to is not here.
AcceptsNoPost(a, u) == Carriers(a, u.repID) # {} \* mutant: -1 is looked up too
Accepts(a, u) == u.repID = NewPost \/ Carriers(a, u.repID) # {}
Hierachy(a, u) == IF u.repID = NewPost THEN 0
                  ELSE a[First(Carriers(a, u.repID))].hierachy + 1
Stored(a, u) == Append(a, [ID |-> u.articleID, hierachy |-> Hierachy(a, u),
                           post |-> u.post])

\* sendArticle sends content and hierachy, not the ID, of the sorted vector.
Sent(a) == [i \in DOMAIN a |-> [post |-> a[i].post, hierachy |-> a[i].hierachy]]

Posts(a) == [i \in DOMAIN a |-> a[i].post]

RemoveAt(q, i) == SubSeq(q, 1, i - 1) \o SubSeq(q, i + 1, Len(q))
============================================================================
