-------------------------- MODULE SequentialBoard --------------------------
(* What the sequential bulletin board promises its readers: there is one      *)
(* board, articles are only ever added at its end, and a read shows a prefix  *)
(* of it.  A client may be shown a shorter prefix than before, since every    *)
(* read picks a random server.                                                *)
EXTENDS Naturals, Sequences

CONSTANTS Clients, Post

VARIABLES board, shown

Init == board = <<>> /\ shown = [c \in Clients |-> <<>>]

\* An article is posted once.
Add(p) ==
    /\ \A i \in DOMAIN board : board[i] # p
    /\ board' = Append(board, p)
    /\ UNCHANGED shown

Read(c, n) ==
    /\ shown' = [shown EXCEPT ![c] = SubSeq(board, 1, n)]
    /\ UNCHANGED board

Next ==
    \/ \E p \in Post : Add(p)
    \/ \E c \in Clients, n \in 0..Len(board) : Read(c, n)

Spec == Init /\ [][Next]_<<board, shown>>
============================================================================
