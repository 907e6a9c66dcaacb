-------------------------------- MODULE Walk --------------------------------
(***************************************************************************)
(* What a caller sees of a walk over a map that is updated meanwhile, and  *)
(* what it may rely on.  OrderedScan says how the keys come, LpmTrie how   *)
(* trie_get_next_key() finds them.                                         *)
(***************************************************************************)

VARIABLES
  cursor,   \* the key passed to the next call
  phase,    \* "scanning", "done" after -ENOENT, "failed" after -ENOMEM
  visited,  \* the keys returned so far
  stable,   \* the keys in the map since the walk began
  deleted   \* whether a key was deleted since then

\* A walk that ended has returned every key that was in the map all the time,
\* whatever was inserted or deleted meanwhile, the cursor itself included.
NeverSkips == phase = "done" => stable \subseteq visited

\* As long as nothing is deleted, no call returns a key a second time.
NoRepeats == [][~deleted => cursor' \notin visited]_cursor

=============================================================================
