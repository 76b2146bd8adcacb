------------------------- MODULE MCLocalWriteServer -------------------------
(* Small instances of LocalWriteServer for TLC.                                *)
EXTENDS LocalWriteServer, TLC

Symm == Permutations(Clients) \cup Permutations(Servers \ {Primary})
============================================================================
