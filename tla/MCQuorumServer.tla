--------------------------- MODULE MCQuorumServer ---------------------------
(* Small instances of QuorumServer for TLC.                                    *)
EXTENDS QuorumServer, TLC

CONSTANTS s1, s2, s3

ThreeServers == <<s1, s2, s3>>

Symm == Permutations(Clients)
============================================================================
