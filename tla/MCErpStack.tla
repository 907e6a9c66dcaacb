------------------------------- MODULE MCErpStack -------------------------------
(* Two calls, of a tool that reads, one that may and one that writes; two     *)
(* stops.                                                                     *)
EXTENDS ErpStack, TLC
MCTools == {"erp_get", "erp_method", "erp_create"}
MCSymmetry == Permutations(Calls)
===============================================================================
