------------------------------ MODULE LpmTrie ------------------------------
(***************************************************************************)
(* trie_get_next_key() as scripts/backport_trie_get_next_key.py puts it    *)
(* into kernel/bpf/lpm_trie.c: the postorder walk over a trie of bit       *)
(* prefixes, with its explicit stack.  The trie itself is kernel code the  *)
(* script does not touch; it is modelled by the property the walk relies   *)
(* on ("all intermediate nodes have exact two children"): the nodes are    *)
(* the keys and the points where two keys part.                            *)
(*                                                                         *)
(* A caller walks the whole map, one call per key, while keys come and go. *)
(***************************************************************************)
EXTENDS Naturals, Sequences, FiniteSets, SequencesExt, Walk

CONSTANTS
  MaxPrefixLen,  \* trie->max_prefixlen
  MaxUpdates,    \* bound on the updates during a walk
  MaxKeys,       \* bound on the keys in the map when the walk begins
  NoKey,         \* key == NULL, or key->prefixlen > trie->max_prefixlen
  NoNode         \* the node pointer NULL

Prefix == UNION {[1..n -> {0, 1}] : n \in 0..MaxPrefixLen}

ASSUME BoundsAssumption == MaxPrefixLen \in Nat /\ MaxUpdates \in Nat /\ MaxKeys \in Nat
ASSUME NullAssumption == NoKey \notin Prefix /\ NoNode \notin Prefix

VARIABLES keys, updates

vars == <<keys, cursor, phase, visited, stable, deleted, updates>>

-----------------------------------------------------------------------------
(* The trie over a set of keys.                                            *)

longest_prefix_match(node, key) ==
  Cardinality({n \in 1..MaxPrefixLen :
    /\ n <= Len(node) /\ n <= Len(key)
    /\ \A i \in 1..n : node[i] = key[i]})

Nodes == {SubSeq(j, 1, longest_prefix_match(j, k)) : j, k \in keys}

Intermediate(node) == node \notin keys

\* node->child[b]: the shortest node below `node` on the side of bit b.
Child(node, b) ==
  LET below == {m \in Nodes : IsStrictPrefix(node, m) /\ m[Len(node) + 1] = b}
  IN IF below = {} THEN NoNode
     ELSE CHOOSE m \in below : \A o \in below : Len(m) <= Len(o)

Root == CHOOSE m \in Nodes : \A o \in Nodes : Len(m) <= Len(o)

\* What the variable of a loop `node = next[node]' holds, n times round.
Iterates(next, node, n) ==
  LET at[i \in 0..n] == IF i = 0 THEN node ELSE next[at[i - 1]] IN at

-----------------------------------------------------------------------------
(* The three loops of trie_get_next_key().                                 *)

\* Where the search for the key stops: the node differs from the key, or is
\* as long as it.
StopsAt(node, key) ==
  LET matchlen == longest_prefix_match(node, key)
  IN Len(node) # matchlen \/ Len(node) = Len(key)

\* Mutant: one slot too few.
NoSlotForTheLast == MaxPrefixLen

\* kmalloc_array(trie->max_prefixlen + 1, ...)
StackSize == MaxPrefixLen + 1

\* One turn of the search; NoNode once it has stopped.
SearchStep(key) ==
  [node \in Nodes \union {NoNode} |->
     IF node = NoNode \/ StopsAt(node, key) THEN NoNode
     ELSE Child(node, key[Len(node) + 1])]

\* node_stack: the nodes on the way from the root to the key.
NodeStack(key) ==
  LET turns == 0..Cardinality(Nodes)
      at    == Iterates(SearchStep(key), Root, Cardinality(Nodes))
      depth == Cardinality({i \in turns : at[i] # NoNode})
  IN [i \in 1..depth |-> at[i - 1]]

\* Mutant: the last node of the search is taken for the key.
LastIsFound(key) == ~Intermediate(Last(NodeStack(key)))

\* The search ended by a break on a node that matches and holds a key.
ExactMatch(key) ==
  LET node == Last(NodeStack(key))
  IN /\ StopsAt(node, key)
     /\ Len(node) = longest_prefix_match(node, key)
     /\ ~Intermediate(node)

\* Mutant: a node that holds a key is returned before its children.
Preorder(search_root) ==
  LET down == [node \in Nodes |->
                 IF Intermediate(node) THEN Child(node, 0) ELSE node]
  IN Iterates(down, search_root, MaxPrefixLen)[MaxPrefixLen]

\* One turn of find_leftmost: to the first child there is.
LeftStep ==
  [node \in Nodes \union {NoNode} |->
     IF node = NoNode THEN NoNode
     ELSE IF Intermediate(node) \/ Child(node, 0) # NoNode
          THEN Child(node, 0)
          ELSE Child(node, 1)]

\* find_leftmost: down to a node without children, and back to the last key on
\* that way.
Leftmost(search_root) ==
  LET at    == Iterates(LeftStep, search_root, MaxPrefixLen)
      found == {at[i] : i \in 0..MaxPrefixLen} \intersect keys
  IN CHOOSE k \in found : \A j \in found : Len(j) <= Len(k)

\* On the way up from stack[i + 1] to stack[i] there is a right subtree left.
RightSubtree(stack, i) ==
  /\ Child(stack[i], 0) = stack[i + 1]
  /\ Child(stack[i], 1) # NoNode

\* Mutant: at the end of the way up err is not set.
ErrForgotten(stack) ==
  LET hits == {i \in 1..(Len(stack) - 1) :
                 RightSubtree(stack, i) \/ ~Intermediate(stack[i])}
      i == CHOOSE h \in hits : \A g \in hits : g <= h
  IN IF hits = {} THEN NoNode
     ELSE IF RightSubtree(stack, i) THEN Leftmost(Child(stack[i], 1))
     ELSE stack[i]

\* Up the stack to the first right subtree or the first key; the lowest one,
\* which has the largest index, decides.
AfterMatch(stack) ==
  LET hits == {i \in 1..(Len(stack) - 1) :
                 RightSubtree(stack, i) \/ ~Intermediate(stack[i])}
      i == CHOOSE h \in hits : \A g \in hits : g <= h
  IN IF hits = {} THEN NoKey
     ELSE IF RightSubtree(stack, i) THEN Leftmost(Child(stack[i], 1))
     ELSE stack[i]

\* The whole function; NoKey stands for -ENOENT.
trie_get_next_key(key) ==
  IF keys = {} THEN NoKey
  ELSE IF key = NoKey THEN Leftmost(Root)
  ELSE IF ExactMatch(key) THEN AfterMatch(NodeStack(key))
  ELSE Leftmost(Root)

-----------------------------------------------------------------------------
Init ==
  /\ keys \in {K \in SUBSET Prefix : Cardinality(K) <= MaxKeys}
  /\ cursor = NoKey
  /\ phase = "scanning"
  /\ visited = {}
  /\ stable = keys
  /\ deleted = FALSE
  /\ updates = 0

GetNextKey ==
  /\ phase = "scanning"
  /\ \E next \in {trie_get_next_key(cursor)} :
       \/ /\ next = NoKey
          /\ phase' = "done"
          /\ UNCHANGED <<cursor, visited>>
       \/ /\ next # NoKey
          /\ cursor' = next
          /\ visited' = visited \union {next}
          /\ UNCHANGED phase
  /\ UNCHANGED <<keys, stable, deleted, updates>>

\* kmalloc_array() fails: -ENOMEM.  No stack is needed for the first key or on
\* an empty trie.
NoMemory ==
  /\ phase = "scanning"
  /\ keys # {} /\ cursor # NoKey
  /\ phase' = "failed"
  /\ UNCHANGED <<keys, cursor, visited, stable, deleted, updates>>

\* Updates by others, between two calls.
Update ==
  /\ updates < MaxUpdates
  /\ updates' = updates + 1
  /\ \E k \in Prefix :
       \/ /\ k \notin keys
          /\ keys' = keys \union {k}
          /\ UNCHANGED <<stable, deleted>>
       \/ /\ k \in keys
          /\ keys' = keys \ {k}
          /\ stable' = stable \ {k}
          /\ deleted' = TRUE
  /\ UNCHANGED <<cursor, phase, visited>>

Next == GetNextKey \/ NoMemory \/ Update

Spec == Init /\ [][Next]_vars

-----------------------------------------------------------------------------
\* j comes before k in postorder: j is more specific than k, or lies to the
\* left of it.
Before(j, k) ==
  LET m == longest_prefix_match(j, k)
  IN \/ IsStrictPrefix(k, j)
     \/ m < Len(j) /\ m < Len(k) /\ j[m + 1] < k[m + 1]

\* The last of the addresses a prefix covers, bit after bit.
LastAddress(k) ==
  LET last[i \in 0..MaxPrefixLen] ==
        IF i = 0 THEN 0 ELSE 2 * last[i - 1] + (IF i <= Len(k) THEN k[i] ELSE 1)
  IN last

\* The same order as numbers: by that address, the longer of two prefixes with the
\* same one first.
PostorderRank ==
  [k \in Prefix |->
     LastAddress(k)[MaxPrefixLen] * (MaxPrefixLen + 1) + (MaxPrefixLen - Len(k))]

TypeOK ==
  /\ keys \subseteq Prefix
  /\ cursor \in Prefix \union {NoKey}
  /\ phase \in {"scanning", "done", "failed"}
  /\ visited \subseteq Prefix
  /\ stable \subseteq keys
  /\ deleted \in BOOLEAN
  /\ updates \in 0..MaxUpdates

\* "The get_next_key follows postorder, returning more specific keys before
\* less specific ones" (backport_trie_get_next_key.py:58-60): wherever the walk
\* stands the function returns what the order says, the first key of the map if
\* the one it is given has been deleted.
NextInPostorder ==
  LET after == IF cursor \in keys THEN {k \in keys : Before(cursor, k)} ELSE keys
      next  == trie_get_next_key(cursor)
  IN IF after = {} THEN next = NoKey
     ELSE next \in after /\ \A k \in after \ {next} : Before(next, k)

\* The search never writes past the end of node_stack.
StackFits == keys # {} /\ cursor # NoKey => Len(NodeStack(cursor)) <= StackSize

\* The walk over the trie is a scan in a fixed order.
Scan == INSTANCE OrderedScan WITH Key <- Prefix, Rank <- PostorderRank
ScanImplemented == Scan!Init /\ [][Scan!Next]_vars

=============================================================================
