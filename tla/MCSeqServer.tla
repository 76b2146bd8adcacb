---------------------------- MODULE MCSeqServer ----------------------------
(* Small instances of SeqServer for TLC.                                      *)
EXTENDS SeqServer, TLC

\* Servers are told apart from the primary, clients only by name.
Symm == Permutations(Clients) \cup Permutations(Servers \ {Primary})
============================================================================
