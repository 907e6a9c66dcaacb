------------------------------- MODULE MCDaemon -------------------------------
(* Two runs at a time.  Four pids: two daemons of each kind.                  *)
EXTENDS Daemon, TLC
MCSymmetry == Permutations(Runs) \union Permutations(Pids)
===============================================================================
