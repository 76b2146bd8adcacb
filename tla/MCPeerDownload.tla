--------------------------- MODULE MCPeerDownload --------------------------
(* latency.txt: 150 between 0 and 1, 350 between 1 and 2, 900 between 0 and 2, *)
(* so that 0 and 2 reach each other by way of 1.  1 is listed for g, which it  *)
(* has lost and which its user downloads again.                                *)
EXTENDS PeerDownload

CONSTANTS f, g

MCPeers == {0, 1, 2}
MCHolders == [x \in Files |-> {1, 2}]
MCStale == [x \in Files |-> IF x = f THEN {} ELSE {1}]
MCRoute == [p \in MCPeers |-> [q \in MCPeers |->
    IF p = q THEN <<>> ELSE IF {p, q} = {0, 2} THEN <<1, q>> ELSE <<q>>]]
MCWishes == [p \in MCPeers |-> CASE p = 0 -> <<f>> [] p = 1 -> <<g>> [] OTHER -> <<>>]
============================================================================
