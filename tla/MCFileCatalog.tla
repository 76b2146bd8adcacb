--------------------------- MODULE MCFileCatalog ---------------------------
(* Two peers; p1 has a file to be found, p2 has not.                           *)
EXTENDS FileCatalog

CONSTANTS p1, p2, f

MCShare == [p \in Peers |-> IF p = p1 THEN Files ELSE {global}]
MCMaxStarts == [p \in Peers |-> IF p = p1 THEN 1 ELSE 2]
============================================================================
