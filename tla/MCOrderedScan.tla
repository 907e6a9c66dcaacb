--------------------------- MODULE MCOrderedScan ---------------------------
(***************************************************************************)
(* Four keys, walked in the order of their numbers.                        *)
(***************************************************************************)
EXTENDS OrderedScan

MCKey  == 1..4
MCRank == [k \in MCKey |-> k]
=============================================================================
