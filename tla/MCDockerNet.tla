------------------------------ MODULE MCDockerNet ------------------------------
(* Two runs at a time, three altogether, two uplinks and one upset.          *)
EXTENDS DockerNet, TLC
MCSymmetry == Permutations(Runs) \union Permutations(Uplinks)
===============================================================================
