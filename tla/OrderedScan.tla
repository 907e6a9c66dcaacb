---------------------------- MODULE OrderedScan ----------------------------
(***************************************************************************)
(* What a map with a get_next_key() promises to a caller that walks it     *)
(* (getFirstKey() and then one call per key, each call a separate bpf(2)): *)
(* keys come in one fixed order, given by Rank, from the first key on; a   *)
(* key that is not, or no longer, in the map starts the walk over.  The    *)
(* map is updated between the calls.                                       *)
(***************************************************************************)
EXTENDS Naturals, Walk

CONSTANTS
  Key,        \* every key the map may hold
  Rank,       \* the place of a key in the order of the walk
  NoKey,      \* the key pointer NULL, or a key that cannot be in the map
  MaxUpdates  \* bound on the updates during the walk

ASSUME KeyAssumption ==
  /\ NoKey \notin Key
  /\ Rank \in [Key -> Nat]
  /\ \A j, k \in Key : Rank[j] = Rank[k] => j = k
ASSUME UpdatesAssumption == MaxUpdates \in Nat

VARIABLES
  keys,     \* the keys in the map
  updates   \* the updates so far

vars == <<keys, cursor, phase, visited, stable, deleted, updates>>

TypeOK ==
  /\ keys \subseteq Key
  /\ cursor \in Key \union {NoKey}
  /\ phase \in {"scanning", "done", "failed"}
  /\ visited \subseteq Key
  /\ stable \subseteq Key
  /\ deleted \in BOOLEAN
  /\ updates \in Nat

Init ==
  /\ keys \in SUBSET Key
  /\ cursor = NoKey
  /\ phase = "scanning"
  /\ visited = {}
  /\ stable = keys
  /\ deleted = FALSE
  /\ updates = 0

\* Mutants: a missing key ends the walk; the key itself is not excluded;
\* nothing but the key itself is excluded.
MissingEnds ==
  IF cursor = NoKey THEN keys
  ELSE {k \in keys : cursor \in keys /\ Rank[cursor] < Rank[k]}
AtOrAhead ==
  IF cursor \in keys THEN {k \in keys : Rank[cursor] <= Rank[k]} ELSE keys
AnyOther == keys \ {cursor}

\* The keys still to come.
Ahead == IF cursor \in keys THEN {k \in keys : Rank[cursor] < Rank[k]} ELSE keys

Visit(k) ==
  /\ phase = "scanning"
  /\ k \in Ahead
  /\ \A j \in Ahead : Rank[k] <= Rank[j]
  /\ cursor' = k
  /\ visited' = visited \union {k}
  /\ UNCHANGED <<keys, phase, stable, deleted, updates>>

Finish ==
  /\ phase = "scanning"
  /\ Ahead = {}
  /\ phase' = "done"
  /\ UNCHANGED <<keys, cursor, visited, stable, deleted, updates>>

Fail ==
  /\ phase = "scanning"
  /\ phase' = "failed"
  /\ UNCHANGED <<keys, cursor, visited, stable, deleted, updates>>

Insert(k) ==
  /\ updates < MaxUpdates
  /\ k \notin keys
  /\ keys' = keys \union {k}
  /\ updates' = updates + 1
  /\ UNCHANGED <<cursor, phase, visited, stable, deleted>>

Delete(k) ==
  /\ updates < MaxUpdates
  /\ k \in keys
  /\ keys' = keys \ {k}
  /\ stable' = stable \ {k}
  /\ deleted' = TRUE
  /\ updates' = updates + 1
  /\ UNCHANGED <<cursor, phase, visited>>

Next ==
  \/ \E k \in Key : Visit(k) \/ Insert(k) \/ Delete(k)
  \/ Finish
  \/ Fail

Spec == Init /\ [][Next]_vars

\* The caller goes on until there is no next key.
FairSpec == Spec /\ WF_vars(Finish \/ \E k \in Key : Visit(k))

-----------------------------------------------------------------------------
\* The walk ends, updates being finitely many: a key that went missing sends it
\* back to the first key, but not for ever.
WalkEnds == <>(phase # "scanning")

=============================================================================
