--------------------------- MODULE LpmTrie_proofs ---------------------------
(* The walk over the trie visits its keys in postorder, for every prefix     *)
(* length and every set of keys: the function returns the next key, its      *)
(* stack is large enough, and the walk is a scan in a fixed order.  Any scan *)
(* in a fixed order neither skips nor repeats a key; the second half of the  *)
(* module is about those, whatever the keys and their order.                 *)
EXTENDS LpmTrie, WellFoundedInduction, SequenceTheorems, FiniteSetTheorems, TLAPS

CONSTANTS
  AnyKey,  \* the keys of a map walked in a fixed order,
  AnyRank  \* and that order

-----------------------------------------------------------------------------
(* Induction and recursion.                                                 *)

LEMMA Least ==
  ASSUME NEW S, S \subseteq Nat, S # {}
  PROVE  \E m \in S : \A k \in S : m <= k
<1> DEFINE R == OpToRel(<, Nat)
<1>1. IsWellFoundedOn(R, Nat)
  BY NatLessThanWellFounded
<1>2. \A a, b \in Nat : a < b => <<a, b>> \in R
  BY DEF OpToRel
<1> HIDE DEF R
<1>3. \E m \in S : \A k \in S : <<k, m>> \notin R
  BY <1>1, WFMin
<1>4. PICK m \in S : \A k \in S : <<k, m>> \notin R
  BY <1>3
<1>5. ASSUME NEW k \in S PROVE m <= k
  <2>1. m \in Nat /\ k \in Nat /\ ~(k < m)
    BY <1>2, <1>4
  <2> QED BY <2>1
<1> QED BY <1>5

LEMMA Induct ==
  ASSUME NEW S, 0 \in S, \A n \in Nat : n \in S => n + 1 \in S
  PROVE  Nat \subseteq S
<1> SUFFICES ASSUME Nat \ S # {} PROVE FALSE
  OBVIOUS
<1>1. PICK m \in Nat \ S : \A k \in Nat \ S : m <= k
  BY Least
<1>2. m - 1 \in Nat /\ m - 1 \notin Nat \ S
  BY <1>1
<1> QED BY <1>1, <1>2

\* The values of T the functions F[1], F[2], ... lead to from x on.
HasRun(T, x, n, F) ==
  \E f \in [0..n -> T] : f[0] = x /\ \A i \in 1..n : f[i] = F[i][f[i - 1]]

\* A function can be defined by recursion along 0..n.
LEMMA Recursion ==
  ASSUME NEW T, NEW x \in T, NEW n \in Nat, NEW F \in [1..n -> [T -> T]]
  PROVE  HasRun(T, x, n, F)
<1> DEFINE Upto(m, f) == f[0] = x /\ \A i \in 1..m : f[i] = F[i][f[i - 1]]
           S == {m \in Nat : m <= n => \E f \in [0..m -> T] : Upto(m, f)}
<1>1. 0 \in S
  <2>1. [i \in 0..0 |-> x] \in [0..0 -> T] /\ Upto(0, [i \in 0..0 |-> x])
    OBVIOUS
  <2> QED BY <2>1
<1>2. ASSUME NEW m \in Nat, m \in S PROVE m + 1 \in S
  <2> SUFFICES ASSUME m + 1 <= n PROVE \E f \in [0..(m + 1) -> T] : Upto(m + 1, f)
    OBVIOUS
  <2>1. PICK f \in [0..m -> T] : Upto(m, f)
    BY <1>2
  <2> DEFINE g == [i \in 0..(m + 1) |-> IF i <= m THEN f[i] ELSE F[m + 1][f[m]]]
  <2>2. F[m + 1][f[m]] \in T
    BY <2>1
  <2>3. g \in [0..(m + 1) -> T]
    BY <2>1, <2>2
  <2>4. \A i \in 1..m : g[i] = f[i] /\ g[i - 1] = f[i - 1]
    BY <2>1
  <2>5. g[0] = x /\ g[m + 1] = F[m + 1][g[m]]
    BY <2>1
  <2>6. \A i \in 1..(m + 1) : i \in 1..m \/ i = m + 1
    OBVIOUS
  <2>7. Upto(m + 1, g)
    <3> HIDE DEF g
    <3> QED BY <2>1, <2>4, <2>5, <2>6
  <2> QED BY <2>3, <2>7
<1>3. n \in S
  <2> HIDE DEF S
  <2> QED BY <1>1, <1>2, Induct
<1> QED BY <1>3 DEF HasRun

LEMMA IteratesFollow ==
  ASSUME NEW T, NEW x \in T, NEW n \in Nat, NEW next \in [T -> T]
  PROVE  /\ Iterates(next, x, n) \in [0..n -> T]
         /\ Iterates(next, x, n)[0] = x
         /\ \A i \in 1..n : Iterates(next, x, n)[i] = next[Iterates(next, x, n)[i - 1]]
<1> DEFINE F == [i \in 1..n |-> next]
<1>1. HasRun(T, x, n, F)
  <2>1. F \in [1..n -> [T -> T]]
    OBVIOUS
  <2> HIDE DEF F
  <2> QED BY <2>1, Recursion
<1>2. PICK f \in [0..n -> T] : f[0] = x /\ \A i \in 1..n : f[i] = F[i][f[i - 1]]
  BY <1>1 DEF HasRun
<1>3. \A i \in 0..n : f[i] = IF i = 0 THEN x ELSE next[f[i - 1]]
  BY <1>2
<1>4. f = [i \in 0..n |-> IF i = 0 THEN x ELSE next[f[i - 1]]]
  BY <1>3
<1> DEFINE at   == Iterates(next, x, n)
           P(g) == g = [i \in 0..n |-> IF i = 0 THEN x ELSE next[g[i - 1]]]
<1>5. P(at)
  <2>1. P(f)
    BY <1>4
  <2>2. at = CHOOSE g : P(g)
    BY DEF Iterates
  <2> HIDE DEF P, at
  <2> QED BY <2>1, <2>2
<1> HIDE DEF at
<1>6. at[0] = x /\ \A i \in 1..n : at[i] = next[at[i - 1]]
  BY <1>5
<1>7. at \in [0..n -> T]
  <2> DEFINE S == {m \in Nat : m <= n => at[m] \in T}
  <2>1. 0 \in S
    BY <1>6
  <2>2. ASSUME NEW m \in Nat, m \in S PROVE m + 1 \in S
    <3>1. m + 1 <= n => at[m + 1] = next[at[m]]
      BY <1>6
    <3> QED BY <2>2, <3>1
  <2>3. Nat \subseteq S
    <3> HIDE DEF S
    <3> QED BY <2>1, <2>2, Induct
  <2>4. \A i \in 0..n : at[i] \in T
    BY <2>3
  <2> QED BY <1>5, <2>4
<1> QED BY <1>6, <1>7 DEF at

-----------------------------------------------------------------------------
(* Prefixes.                                                                *)

\* a covers k: k begins with a.
Covers(a, k) == Len(a) <= Len(k) /\ \A i \in 1..Len(a) : a[i] = k[i]

LEMMA PrefixType ==
  ASSUME NEW p \in Prefix
  PROVE  /\ p \in Seq({0, 1}) /\ Len(p) \in Nat /\ Len(p) <= MaxPrefixLen
         /\ \A i \in 1..Len(p) : p[i] \in {0, 1}
<1>1. PICK n \in 0..MaxPrefixLen : p \in [1..n -> {0, 1}]
  BY DEF Prefix
<1>2. p \in Seq({0, 1})
  BY <1>1, BoundsAssumption, SeqDef
<1>3. Len(p) = n
  BY <1>1, <1>2, LenProperties, BoundsAssumption
<1> QED BY <1>1, <1>2, <1>3, BoundsAssumption

LEMMA PrefixIntro ==
  ASSUME NEW p \in Seq({0, 1}), Len(p) <= MaxPrefixLen
  PROVE  p \in Prefix
<1>1. p \in [1..Len(p) -> {0, 1}] /\ Len(p) \in 0..MaxPrefixLen
  BY LenProperties, BoundsAssumption
<1> QED BY <1>1 DEF Prefix

LEMMA SamePrefix ==
  ASSUME NEW a \in Prefix, NEW b \in Prefix, Covers(a, b), Len(b) <= Len(a)
  PROVE  a = b
<1>1. Len(a) = Len(b) /\ \A i \in 1..Len(a) : a[i] = b[i]
  BY PrefixType DEF Covers
<1> QED BY <1>1, PrefixType, SeqEqual

LEMMA CoversTransitive ==
  ASSUME NEW a \in Prefix, NEW b \in Prefix, NEW c \in Prefix, Covers(a, b), Covers(b, c)
  PROVE  Covers(a, c)
BY PrefixType DEF Covers

\* Two prefixes of one key: the shorter covers the longer.
LEMMA CoversChain ==
  ASSUME NEW a \in Prefix, NEW b \in Prefix, NEW k \in Prefix, Covers(a, k), Covers(b, k),
         Len(a) <= Len(b)
  PROVE  Covers(a, b)
BY PrefixType DEF Covers

LEMMA StrictPrefix ==
  ASSUME NEW a \in Prefix, NEW b \in Prefix
  PROVE  IsStrictPrefix(a, b) <=> Covers(a, b) /\ Len(a) < Len(b)
<1>1. Len(a) \in Nat /\ Len(b) \in Nat /\ a \in Seq({0, 1}) /\ b \in Seq({0, 1})
  BY PrefixType
<1>2. ASSUME Len(a) <= Len(b)
      PROVE  SubSeq(a, 1, Len(a)) = SubSeq(b, 1, Len(a)) <=> Covers(a, b)
  <2>1. SubSeq(a, 1, Len(a)) = a
    BY <1>1, SubSeqFull
  <2>2. \A i \in 1..Len(a) : b[i] \in {0, 1}
    BY <1>1, <1>2, PrefixType
  <2> DEFINE t == SubSeq(b, 1, Len(a))
  <2>3. t \in Seq({0, 1}) /\ Len(t) = Len(a) /\ \A i \in 1..Len(a) : t[i] = b[i]
    <3>1. /\ t \in Seq({0, 1}) /\ Len(t) = IF 1 <= Len(a) THEN Len(a) - 1 + 1 ELSE 0
          /\ \A i \in 1..(Len(a) - 1 + 1) : t[i] = b[1 + i - 1]
      BY <1>1, <2>2, SubSeqProperties, 1 \in Int, Len(a) \in Int
    <3> HIDE DEF t
    <3> QED BY <1>1, <3>1
  <2>4. a = t <=> \A i \in 1..Len(a) : a[i] = t[i]
    BY <1>1, <2>3, SeqEqual
  <2> QED BY <1>2, <2>1, <2>3, <2>4 DEF Covers
<1>3. Covers(a, b) /\ a # b => Len(a) < Len(b)
  BY <1>1, SamePrefix DEF Covers
<1> QED BY <1>1, <1>2, <1>3 DEF IsStrictPrefix, IsPrefix, Covers

\* a and b agree in their first m bits and no further.
Parts(a, b, m) ==
  /\ m \in Nat /\ m <= Len(a) /\ m <= Len(b)
  /\ \A i \in 1..m : a[i] = b[i]
  /\ m < Len(a) /\ m < Len(b) => a[m + 1] # b[m + 1]

LEMMA MatchLength ==
  ASSUME NEW a \in Prefix, NEW b \in Prefix
  PROVE  Parts(a, b, longest_prefix_match(a, b))
<1> DEFINE Agree(n) == n <= Len(a) /\ n <= Len(b) /\ \A i \in 1..n : a[i] = b[i]
           S == {n \in Nat : ~Agree(n + 1)}
<1>1. Len(a) \in S /\ S \subseteq Nat
  BY PrefixType
<1>2. PICK m \in S : \A n \in S : m <= n
  BY <1>1, Least
<1>3. m \in Nat /\ ~Agree(m + 1) /\ \A n \in 1..m : Agree(n)
  <2>1. ASSUME NEW n \in 1..m PROVE Agree(n)
    <3>1. n - 1 \in Nat /\ n - 1 \notin S
      BY <1>2
    <3> QED BY <3>1
  <2> QED BY <1>2, <2>1
<1>4. Agree(m) /\ m <= MaxPrefixLen
  <2>1. CASE m = 0
    BY <2>1, PrefixType, BoundsAssumption
  <2>2. CASE m > 0
    BY <1>3, <2>2, PrefixType, BoundsAssumption
  <2> QED BY <1>3, <2>1, <2>2
<1>5. Parts(a, b, m)
  <2>1. m < Len(a) /\ m < Len(b) => a[m + 1] # b[m + 1]
    <3> SUFFICES ASSUME m < Len(a), m < Len(b), a[m + 1] = b[m + 1] PROVE Agree(m + 1)
      BY <1>3
    <3>1. \A i \in 1..(m + 1) : i \in 1..m \/ i = m + 1
      BY <1>3
    <3> QED BY <1>3, <1>4, <3>1, PrefixType
  <2> QED BY <1>3, <1>4, <2>1 DEF Parts
<1>6. {n \in 1..MaxPrefixLen : Agree(n)} = 1..m
  <2>1. ASSUME NEW n \in 1..MaxPrefixLen, Agree(n) PROVE n <= m
    <3> SUFFICES ASSUME m + 1 <= n PROVE Agree(m + 1)
      BY <1>3
    <3> QED BY <1>3, <2>1, PrefixType
  <2> QED BY <1>3, <1>4, <2>1, BoundsAssumption
<1>7. Cardinality(1..m) = m
  BY <1>3, FS_Interval
<1> HIDE DEF S
<1>8. longest_prefix_match(a, b) = m
  BY <1>6, <1>7 DEF longest_prefix_match
<1> QED BY <1>5, <1>8

LEMMA PartsOnce ==
  ASSUME NEW a \in Prefix, NEW b \in Prefix, NEW m, NEW n, Parts(a, b, m), Parts(a, b, n)
  PROVE  m = n
BY PrefixType DEF Parts

\* The longest prefix that covers both.
Meet(a, b) == SubSeq(a, 1, longest_prefix_match(a, b))

LEMMA MeetType ==
  ASSUME NEW a \in Prefix, NEW b \in Prefix
  PROVE  /\ Meet(a, b) \in Prefix /\ Len(Meet(a, b)) = longest_prefix_match(a, b)
         /\ Covers(Meet(a, b), a) /\ Covers(Meet(a, b), b)
<1> DEFINE m == longest_prefix_match(a, b)
           t == SubSeq(a, 1, m)
<1>1. Parts(a, b, m)
  BY MatchLength
<1>2. \A i \in 1..m : a[i] \in {0, 1}
  BY <1>1, PrefixType DEF Parts
<1>3. m \in Int /\ 1 \in Int /\ m \in Nat
  BY <1>1 DEF Parts
<1> HIDE DEF m
<1>4. /\ t \in Seq({0, 1}) /\ Len(t) = IF 1 <= m THEN m - 1 + 1 ELSE 0
      /\ \A i \in 1..(m - 1 + 1) : t[i] = a[1 + i - 1]
  BY <1>2, <1>3, SubSeqProperties
<1> HIDE DEF t
<1>5. Len(t) = m /\ \A i \in 1..m : t[i] = a[i]
  BY <1>3, <1>4
<1>6. t \in Prefix
  BY <1>1, <1>4, <1>5, PrefixType, PrefixIntro, BoundsAssumption DEF Parts
<1>7. Covers(t, a) /\ Covers(t, b)
  BY <1>1, <1>5 DEF Parts, Covers
<1> QED BY <1>5, <1>6, <1>7 DEF Meet, m, t

-----------------------------------------------------------------------------
(* The trie.                                                                *)

LEMMA MeetOfCovering ==
  ASSUME NEW a \in Prefix, NEW b \in Prefix, Covers(a, b)
  PROVE  Meet(a, b) = a /\ Meet(b, a) = a
<1>1. Parts(a, b, Len(a)) /\ Parts(b, a, Len(a))
  BY PrefixType DEF Covers, Parts
<1>2. longest_prefix_match(a, b) = Len(a) /\ longest_prefix_match(b, a) = Len(a)
  BY <1>1, MatchLength, PartsOnce
<1> QED BY <1>2, MeetType, SamePrefix, PrefixType

LEMMA NodesType ==
  ASSUME keys \subseteq Prefix
  PROVE  /\ Nodes \subseteq Prefix /\ keys \subseteq Nodes
         /\ \A n \in Nodes : \E j, k \in keys : n = Meet(j, k)
         /\ \A j, k \in keys : Meet(j, k) \in Nodes
<1>1. Nodes = {Meet(j, k) : j, k \in keys}
  BY DEF Nodes, Meet
<1>2. ASSUME NEW k \in keys PROVE Meet(k, k) = k
  <2>1. k \in Prefix /\ Covers(k, k)
    BY PrefixType DEF Covers
  <2> QED BY <2>1, MeetOfCovering
<1>3. \A j, k \in keys : Meet(j, k) \in Prefix
  BY MeetType
<1> QED BY <1>1, <1>2, <1>3

\* Two nodes part in a node.
LEMMA NodesMeet ==
  ASSUME keys \subseteq Prefix, NEW a \in Nodes, NEW b \in Nodes
  PROVE  Meet(a, b) \in Nodes
<1>1. a \in Prefix /\ b \in Prefix
  BY NodesType
<1>2. CASE Covers(a, b) \/ Covers(b, a)
  BY <1>1, <1>2, MeetOfCovering
<1>3. CASE ~Covers(a, b) /\ ~Covers(b, a)
  <2>1. PICK j \in keys, k \in keys : Covers(a, j) /\ Covers(b, k)
    <3>1. PICK j1 \in keys, j2 \in keys : a = Meet(j1, j2)
      BY NodesType
    <3>2. PICK k1 \in keys, k2 \in keys : b = Meet(k1, k2)
      BY NodesType
    <3> QED BY <3>1, <3>2, MeetType
  <2> DEFINE m == longest_prefix_match(a, b)
  <2>2. Parts(a, b, m)
    BY <1>1, MatchLength
  <2>3. j \in Prefix /\ k \in Prefix
    BY <2>1
  <2>4. Len(a) \in Nat /\ Len(b) \in Nat /\ Len(j) \in Nat /\ Len(k) \in Nat
    BY <1>1, <2>3, PrefixType
  <2> HIDE DEF m
  <2>5. m < Len(a) /\ m < Len(b)
    BY <1>3, <2>2, <2>4 DEF Parts, Covers
  <2>6. Parts(j, k, m)
    <3>1. m \in Nat /\ \A i \in 1..(m + 1) : i \in 1..Len(a) /\ i \in 1..Len(b)
      BY <2>2, <2>4, <2>5 DEF Parts
    <3>2. \A i \in 1..(m + 1) : a[i] = j[i] /\ b[i] = k[i]
      BY <2>1, <3>1 DEF Covers
    <3>3. m <= Len(j) /\ m <= Len(k)
      BY <2>1, <2>4, <2>5, <3>1 DEF Covers
    <3>4. \A i \in 1..m : i \in 1..(m + 1) /\ a[i] = b[i]
      BY <2>2, <3>1 DEF Parts
    <3>5. a[m + 1] # b[m + 1] /\ m + 1 \in 1..(m + 1)
      BY <2>2, <2>5, <3>1 DEF Parts
    <3> QED BY <3>1, <3>2, <3>3, <3>4, <3>5 DEF Parts
  <2>7. longest_prefix_match(j, k) = m
    BY <2>6, <2>3, MatchLength, PartsOnce
  <2>8. /\ Meet(a, b) \in Prefix /\ Len(Meet(a, b)) = m /\ Covers(Meet(a, b), a)
        /\ Meet(j, k) \in Prefix /\ Len(Meet(j, k)) = m /\ Covers(Meet(j, k), j)
    BY <1>1, <2>3, <2>7, MeetType DEF m
  <2>9. Covers(Meet(a, b), j)
    BY <1>1, <2>1, <2>3, <2>8, CoversTransitive
  <2>10. m \in Nat
    BY <2>2 DEF Parts
  <2>11. Covers(Meet(a, b), Meet(j, k))
    BY <2>3, <2>8, <2>9, <2>10, CoversChain
  <2>12. Meet(a, b) = Meet(j, k)
    BY <2>8, <2>10, <2>11, SamePrefix
  <2> QED BY <2>12, NodesType
<1> QED BY <1>2, <1>3

\* m lies below n on the side of bit b.
Side(n, b, m) == Covers(n, m) /\ Len(n) < Len(m) /\ m[Len(n) + 1] = b

\* Intermediate nodes have exactly two children.
LEMMA Branches ==
  ASSUME keys \subseteq Prefix, NEW n \in Nodes, Intermediate(n), NEW b \in {0, 1}
  PROVE  \E k \in keys : Side(n, b, k)
<1>1. PICK j \in keys, k \in keys : n = Meet(j, k)
  BY NodesType
<1>2. j \in Prefix /\ k \in Prefix /\ n \in Prefix
  BY <1>1, NodesType
<1>3. Covers(n, j) /\ Covers(n, k) /\ Parts(j, k, Len(n))
  BY <1>1, <1>2, MeetType, MatchLength
<1>4. n # j /\ n # k
  BY <1>1 DEF Intermediate
<1>5. Len(n) < Len(j) /\ Len(n) < Len(k)
  BY <1>2, <1>3, <1>4, SamePrefix, PrefixType DEF Covers
<1>6. j[Len(n) + 1] # k[Len(n) + 1] /\ j[Len(n) + 1] \in {0, 1} /\ k[Len(n) + 1] \in {0, 1}
  BY <1>2, <1>3, <1>5, PrefixType DEF Parts
<1> QED BY <1>3, <1>5, <1>6 DEF Side

\* Of the nodes of a set closed under Meet, the shortest covers all.
LEMMA ShortestCovers ==
  ASSUME NEW S, S \subseteq Prefix, S # {}, \A a, b \in S : Meet(a, b) \in S
  PROVE  LET c == CHOOSE m \in S : \A o \in S : Len(m) <= Len(o)
         IN c \in S /\ \A o \in S : Covers(c, o)
<1> DEFINE c == CHOOSE m \in S : \A o \in S : Len(m) <= Len(o)
<1>1. \E m \in S : \A o \in S : Len(m) <= Len(o)
  <2> DEFINE N == {Len(o) : o \in S}
  <2>1. N \subseteq Nat /\ N # {}
    BY PrefixType
  <2>2. PICK l \in N : \A k \in N : l <= k
    BY <2>1, Least
  <2> QED BY <2>2
<1>2. c \in S /\ \A o \in S : Len(c) <= Len(o)
  BY <1>1
<1> HIDE DEF c
<1>3. ASSUME NEW o \in S PROVE Covers(c, o)
  <2>1. c \in Prefix /\ o \in Prefix /\ Meet(c, o) \in S /\ Meet(c, o) \in Prefix
    BY <1>2
  <2>2. Covers(Meet(c, o), c) /\ Covers(Meet(c, o), o) /\ Len(c) <= Len(Meet(c, o))
    BY <1>2, <2>1, MeetType
  <2> QED BY <2>1, <2>2, SamePrefix
<1> QED BY <1>2, <1>3 DEF c

LEMMA ChildType ==
  ASSUME keys \subseteq Prefix, NEW n \in Nodes, NEW b \in {0, 1}
  PROVE  \/ Child(n, b) = NoNode /\ \A m \in Nodes : ~Side(n, b, m)
         \/ /\ Child(n, b) \in Nodes /\ Side(n, b, Child(n, b))
            /\ \A m \in Nodes : Side(n, b, m) => Covers(Child(n, b), m)
<1> DEFINE below == {m \in Nodes : IsStrictPrefix(n, m) /\ m[Len(n) + 1] = b}
<1>0. Nodes \subseteq Prefix
  BY NodesType
<1>1. \A m \in Nodes : m \in below <=> Side(n, b, m)
  BY <1>0, StrictPrefix DEF Side
<1>2. below \subseteq Nodes
  OBVIOUS
<1>3. Child(n, b) = IF below = {} THEN NoNode
                    ELSE CHOOSE m \in below : \A o \in below : Len(m) <= Len(o)
  BY DEF Child
<1> HIDE DEF below
<1>4. ASSUME NEW x \in below, NEW y \in below PROVE Meet(x, y) \in below
  <2>1. x \in Prefix /\ y \in Prefix /\ n \in Prefix /\ Meet(x, y) \in Prefix /\ Meet(x, y) \in Nodes
    BY <1>0, <1>2, NodesMeet
  <2>2. Side(n, b, x) /\ Side(n, b, y)
    BY <1>1, <1>2
  <2> DEFINE l == longest_prefix_match(x, y)
  <2>3. Parts(x, y, l) /\ Len(Meet(x, y)) = l /\ Covers(Meet(x, y), x)
    BY <2>1, MatchLength, MeetType
  <2> HIDE DEF l
  <2>4. Len(n) < l
    BY <2>1, <2>2, <2>3, PrefixType DEF Side, Covers, Parts
  <2>5. Side(n, b, Meet(x, y))
    BY <2>1, <2>2, <2>3, <2>4, PrefixType DEF Side, Covers
  <2> QED BY <1>1, <2>1, <2>5
<1>5. CASE below = {}
  BY <1>1, <1>3, <1>5
<1>6. CASE below # {}
  <2> DEFINE c == CHOOSE m \in below : \A o \in below : Len(m) <= Len(o)
  <2>1. c \in below /\ \A o \in below : Covers(c, o)
    BY <1>0, <1>2, <1>4, <1>6, ShortestCovers
  <2>2. Child(n, b) = c
    BY <1>3, <1>6
  <2> HIDE DEF c
  <2> QED BY <1>1, <1>2, <2>1, <2>2
<1> QED BY <1>5, <1>6

LEMMA RootType ==
  ASSUME keys \subseteq Prefix, keys # {}
  PROVE  Root \in Nodes /\ \A m \in Nodes : Covers(Root, m)
<1>1. Nodes \subseteq Prefix /\ Nodes # {}
  BY NodesType
<1>2. \A a, b \in Nodes : Meet(a, b) \in Nodes
  BY NodesMeet
<1> QED BY <1>1, <1>2, ShortestCovers DEF Root

-----------------------------------------------------------------------------
(* The loops.                                                               *)

Pointers == Nodes \union {NoNode}

\* The loop goes on to a node below, or ends.
GoesDown(next) ==
  /\ next \in [Pointers -> Pointers]
  /\ next[NoNode] = NoNode
  /\ \A n \in Nodes : next[n] # NoNode => Covers(n, next[n]) /\ Len(n) < Len(next[n])

\* The first d values are nodes, one below the other.
IsPath(at, n, d) ==
  /\ d \in 1..(n + 1)
  /\ \A i \in 0..n : at[i] # NoNode <=> i < d
  /\ \A i \in 0..(d - 1) : at[i] \in Nodes
  /\ \A i, j \in 0..(d - 1) : i <= j => Covers(at[i], at[j]) /\ Len(at[i]) + (j - i) <= Len(at[j])

LEMMA NullIsNoNode == keys \subseteq Prefix => NoNode \notin Nodes /\ NoNode \notin keys
BY NodesType, NullAssumption

LEMMA ChainDown ==
  ASSUME keys \subseteq Prefix, NEW at, NEW d \in Nat, \A i \in 0..(d - 1) : at[i] \in Nodes,
         \A i \in 1..(d - 1) : Covers(at[i - 1], at[i]) /\ Len(at[i - 1]) < Len(at[i])
  PROVE  \A i, j \in 0..(d - 1) :
           i <= j => Covers(at[i], at[j]) /\ Len(at[i]) + (j - i) <= Len(at[j])
<1> SUFFICES ASSUME NEW i \in 0..(d - 1)
             PROVE  \A j \in 0..(d - 1) : i <= j =>
                      Covers(at[i], at[j]) /\ Len(at[i]) + (j - i) <= Len(at[j])
  OBVIOUS
<1> DEFINE Q(k) == Covers(at[i], at[i + k]) /\ Len(at[i]) + k <= Len(at[i + k])
           S == {k \in Nat : i + k <= d - 1 => Q(k)}
<1>0. \A j \in 0..(d - 1) : at[j] \in Prefix /\ Len(at[j]) \in Nat
  BY NodesType, PrefixType
<1>1. Q(0)
  <2>1. i + 0 = i
    OBVIOUS
  <2> QED BY <1>0, <2>1 DEF Covers
<1>2. ASSUME NEW k \in Nat, i + (k + 1) <= d - 1, Q(k) PROVE Q(k + 1)
  <2>1. /\ i + k \in 0..(d - 1) /\ i + (k + 1) \in 1..(d - 1) /\ i + (k + 1) \in 0..(d - 1)
        /\ (i + (k + 1)) - 1 = i + k
    BY <1>2
  <2> DEFINE p == at[i + k]
             q == at[i + (k + 1)]
  <2>2. Covers(p, q) /\ Len(p) < Len(q)
    BY <2>1
  <2>3. /\ at[i] \in Prefix /\ p \in Prefix /\ q \in Prefix
        /\ Len(at[i]) \in Nat /\ Len(p) \in Nat /\ Len(q) \in Nat
    BY <1>0, <2>1
  <2>4. Covers(at[i], p) /\ Len(at[i]) + k <= Len(p)
    BY <1>2
  <2> HIDE DEF p, q
  <2>5. Covers(at[i], q)
    BY <2>2, <2>3, <2>4, CoversTransitive
  <2>6. Len(at[i]) + (k + 1) <= Len(q)
    <3>1. \A x, y, z \in Nat : x + k <= y /\ y < z => x + (k + 1) <= z
      OBVIOUS
    <3> QED BY <2>2, <2>3, <2>4, <3>1
  <2> QED BY <2>5, <2>6 DEF q
<1>3. Nat \subseteq S
  <2> HIDE DEF Q
  <2>1. 0 \in S
    BY <1>1
  <2>2. ASSUME NEW k \in Nat, k \in S PROVE k + 1 \in S
    BY <1>2, <2>2
  <2> HIDE DEF S
  <2> QED BY <2>1, <2>2, Induct
<1>4. ASSUME NEW j \in 0..(d - 1), i <= j PROVE Q(j - i)
  <2>1. j - i \in Nat /\ i + (j - i) <= d - 1
    BY <1>4
  <2> HIDE DEF Q
  <2> QED BY <1>3, <2>1
<1>5. \A j \in 0..(d - 1) : i + (j - i) = j
  OBVIOUS
<1> QED BY <1>4, <1>5

LEMMA PathDown ==
  ASSUME keys \subseteq Prefix, NEW next, GoesDown(next), NEW x \in Nodes, NEW n \in Nat
  PROVE  \E d \in 1..(n + 1) : IsPath(Iterates(next, x, n), n, d)
<1> DEFINE at == Iterates(next, x, n)
<1>1. /\ at \in [0..n -> Pointers] /\ at[0] = x
      /\ \A i \in 1..n : at[i] = next[at[i - 1]]
  <2>1. next \in [Pointers -> Pointers] /\ x \in Pointers
    BY DEF GoesDown, Pointers
  <2> QED BY <2>1, IteratesFollow
<1>2. Nodes \subseteq Prefix /\ NoNode \notin Nodes
  BY NodesType, NullIsNoNode
<1> HIDE DEF at
<1> DEFINE E == {i \in Nat : i = n + 1 \/ (i <= n /\ at[i] = NoNode)}
<1>3. PICK d \in E : \A i \in E : d <= i
  <2>1. E \subseteq Nat /\ n + 1 \in E
    OBVIOUS
  <2> HIDE DEF E
  <2> QED BY <2>1, Least
<1>4. d \in 1..(n + 1) /\ \A i \in 0..(d - 1) : at[i] # NoNode /\ at[i] \in Nodes
  <2>1. d # 0
    BY <1>1, <1>2, <1>3
  <2>2. d \in Nat /\ d <= n + 1
    BY <1>3
  <2>3. \A i \in 0..(d - 1) : i \in Nat /\ i <= n /\ i \notin E
    BY <1>3, <2>2
  <2>4. \A i \in 0..(d - 1) : at[i] # NoNode /\ at[i] \in Pointers
    BY <1>1, <2>3
  <2> QED BY <2>1, <2>2, <2>4 DEF Pointers
<1>5. \A i \in 0..n : i >= d => at[i] = NoNode
  <2> DEFINE S == {k \in Nat : d + k <= n => at[d + k] = NoNode}
  <2>1. 0 \in S
    BY <1>3, <1>4
  <2>2. ASSUME NEW k \in Nat, k \in S PROVE k + 1 \in S
    <3> SUFFICES ASSUME d + (k + 1) <= n PROVE at[d + (k + 1)] = NoNode
      OBVIOUS
    <3>1. at[d + k] = NoNode /\ d + (k + 1) \in 1..n /\ (d + (k + 1)) - 1 = d + k
      BY <1>4, <2>2
    <3> QED BY <1>1, <3>1 DEF GoesDown
  <2>3. Nat \subseteq S
    <3> HIDE DEF S
    <3> QED BY <2>1, <2>2, Induct
  <2> SUFFICES ASSUME NEW i \in 0..n, i >= d PROVE at[i] = NoNode
    OBVIOUS
  <2>4. i - d \in Nat /\ d + (i - d) = i
    BY <1>4
  <2> QED BY <2>3, <2>4
<1>6. \A i \in 0..(d - 1) : Covers(at[i], at[i]) /\ Len(at[i]) \in Nat
  BY <1>2, <1>4, PrefixType DEF Covers
<1>7. ASSUME NEW i \in 1..(d - 1) PROVE Covers(at[i - 1], at[i]) /\ Len(at[i - 1]) < Len(at[i])
  <2>1. i - 1 \in 0..(d - 1) /\ i \in 0..(d - 1) /\ i \in 1..n
    BY <1>4
  <2>2. at[i - 1] \in Nodes /\ at[i] = next[at[i - 1]] /\ at[i] # NoNode
    BY <1>1, <1>4, <2>1
  <2> QED BY <2>2 DEF GoesDown
<1>8. \A i, j \in 0..(d - 1) :
        i <= j => Covers(at[i], at[j]) /\ Len(at[i]) + (j - i) <= Len(at[j])
  <2> HIDE DEF E
  <2>1. d \in Nat
    BY <1>4
  <2> QED BY <1>4, <1>7, <2>1, ChainDown
<1>9. IsPath(at, n, d)
  BY <1>4, <1>5, <1>8 DEF IsPath
<1> QED BY <1>4, <1>9 DEF at

LEMMA NodesFinite == keys \subseteq Prefix => IsFiniteSet(Nodes)
<1> SUFFICES ASSUME keys \subseteq Prefix PROVE IsFiniteSet(Nodes)
  OBVIOUS
<1> DEFINE Ones(p) == {i \in 1..MaxPrefixLen : i <= Len(p) /\ p[i] = 1}
           code == [p \in Prefix |-> <<Len(p), Ones(p)>>]
           T == (0..MaxPrefixLen) \X SUBSET (1..MaxPrefixLen)
<1>1. IsFiniteSet(T)
  <2>1. IsFiniteSet(0..MaxPrefixLen) /\ IsFiniteSet(1..MaxPrefixLen)
    BY FS_Interval, BoundsAssumption
  <2>2. IsFiniteSet(SUBSET (1..MaxPrefixLen))
    BY <2>1, FS_SUBSET
  <2> QED BY <2>1, <2>2, FS_Product
<1>2. code \in [Prefix -> T]
  BY PrefixType, BoundsAssumption
<1>3. ASSUME NEW p \in Prefix, NEW q \in Prefix, code[p] = code[q] PROVE p = q
  <2>1. Len(p) = Len(q) /\ Ones(p) = Ones(q)
    BY <1>3
  <2>2. ASSUME NEW i \in 1..Len(p) PROVE p[i] = q[i]
    <3>1. p[i] \in {0, 1} /\ q[i] \in {0, 1} /\ i \in 1..MaxPrefixLen /\ i <= Len(p) /\ i <= Len(q)
      BY <2>1, <2>2, PrefixType, BoundsAssumption
    <3>2. i \in Ones(p) <=> p[i] = 1
      BY <3>1
    <3>3. i \in Ones(q) <=> q[i] = 1
      BY <3>1
    <3> HIDE DEF Ones
    <3> QED BY <2>1, <3>1, <3>2, <3>3
  <2>3. Covers(p, q) /\ Len(q) <= Len(p)
    BY <2>1, <2>2, PrefixType DEF Covers
  <2> QED BY <2>3, SamePrefix
<1> HIDE DEF code, T
<1>4. code \in Injection(Prefix, T)
  BY <1>2, <1>3 DEF Injection, IsInjective
<1>5. IsFiniteSet(Prefix)
  BY <1>1, <1>4, FS_Injection
<1> QED BY <1>5, NodesType, FS_Subset

LEMMA SearchGoesDown ==
  ASSUME keys \subseteq Prefix, NEW key \in Prefix
  PROVE  /\ GoesDown(SearchStep(key))
         /\ \A n \in Nodes : ~StopsAt(n, key) =>
              Covers(n, key) /\ Len(n) < Len(key) /\ key[Len(n) + 1] \in {0, 1}
<1>1. Nodes \subseteq Prefix /\ NoNode \notin Nodes
  BY NodesType, NullIsNoNode
<1>2. ASSUME NEW n \in Nodes, ~StopsAt(n, key)
      PROVE  Covers(n, key) /\ Len(n) < Len(key) /\ key[Len(n) + 1] \in {0, 1}
  <2>1. Parts(n, key, longest_prefix_match(n, key))
    BY <1>1, MatchLength
  <2>2. Parts(n, key, Len(n)) /\ Len(n) # Len(key)
    BY <1>2, <2>1 DEF StopsAt
  <2>3. Covers(n, key) /\ Len(n) < Len(key) /\ Len(n) + 1 \in 1..Len(key)
    BY <1>1, <2>2, PrefixType DEF Parts, Covers
  <2> QED BY <2>3, PrefixType
<1>3. ASSUME NEW n \in Nodes, ~StopsAt(n, key)
      PROVE  LET c == Child(n, key[Len(n) + 1])
             IN c = NoNode \/ (c \in Nodes /\ Covers(n, c) /\ Len(n) < Len(c))
  BY <1>2, <1>3, ChildType DEF Side
<1>4. SearchStep(key)[NoNode] = NoNode
  BY DEF SearchStep
<1>5. \A n \in Nodes : SearchStep(key)[n] = IF StopsAt(n, key) THEN NoNode
                                            ELSE Child(n, key[Len(n) + 1])
  BY <1>1 DEF SearchStep
<1>6. SearchStep(key) = [n \in Pointers |-> SearchStep(key)[n]]
  BY DEF SearchStep, Pointers
<1>7. \A n \in Pointers : SearchStep(key)[n] \in Pointers
  BY <1>3, <1>4, <1>5 DEF Pointers
<1>8. SearchStep(key) \in [Pointers -> Pointers]
  BY <1>6, <1>7
<1>9. \A n \in Nodes : SearchStep(key)[n] # NoNode =>
        Covers(n, SearchStep(key)[n]) /\ Len(n) < Len(SearchStep(key)[n])
  BY <1>3, <1>5
<1> QED BY <1>2, <1>4, <1>8, <1>9 DEF GoesDown

\* What the search leaves in node_stack.
LEMMA StackType ==
  ASSUME keys \subseteq Prefix, keys # {}, NEW key \in Prefix
  PROVE  LET s == NodeStack(key)
         IN /\ s \in Seq(Nodes) /\ Len(s) \in 1..(MaxPrefixLen + 1)
            /\ s[1] = Root
            /\ \A i \in 1..(Len(s) - 1) : s[i + 1] = SearchStep(key)[s[i]]
            /\ SearchStep(key)[s[Len(s)]] = NoNode
            /\ \A i, j \in 1..Len(s) : i < j => Covers(s[i], s[j]) /\ Len(s[i]) < Len(s[j])
<1> DEFINE N == Cardinality(Nodes)
           at == Iterates(SearchStep(key), Root, N)
<1>1. IsFiniteSet(Nodes) /\ N \in Nat /\ Root \in Nodes /\ Nodes \subseteq Prefix
  BY NodesFinite, FS_CardinalityType, RootType, NodesType
<1>2. GoesDown(SearchStep(key))
  BY SearchGoesDown
<1> HIDE DEF N
<1>3. PICK d \in 1..(N + 1) : IsPath(at, N, d)
  BY <1>1, <1>2, PathDown
<1>4. at[0] = Root /\ \A i \in 1..N : at[i] = SearchStep(key)[at[i - 1]]
  <2>1. SearchStep(key) \in [Pointers -> Pointers] /\ Root \in Pointers
    BY <1>1, <1>2 DEF GoesDown, Pointers
  <2> QED BY <1>1, <2>1, IteratesFollow
<1> HIDE DEF at
<1>5. \A i, j \in 0..(d - 1) : i < j => Covers(at[i], at[j]) /\ Len(at[i]) + (j - i) <= Len(at[j])
  BY <1>1, <1>3 DEF IsPath
<1>6. \A i \in 0..(d - 1) : at[i] \in Nodes /\ Len(at[i]) \in Nat
  BY <1>1, <1>3, PrefixType DEF IsPath
\* The nodes of the path are different nodes.
<1>7. d <= N
  <2> SUFFICES ASSUME d = N + 1 PROVE FALSE
    BY <1>1
  <2> DEFINE f == [i \in 0..N |-> at[i]]
  <2>1. f \in [0..N -> Nodes]
    BY <1>1, <1>6
  <2>2. ASSUME NEW i \in 0..N, NEW j \in 0..N, i # j PROVE at[i] # at[j]
    <3>1. i \in 0..(d - 1) /\ j \in 0..(d - 1)
      BY <1>1
    <3>2. CASE i < j
      BY <1>1, <1>5, <1>6, <3>1, <3>2
    <3>3. CASE j < i
      BY <1>1, <1>5, <1>6, <3>1, <3>3
    <3> QED BY <1>1, <2>2, <3>2, <3>3
  <2>3. f \in Injection(0..N, Nodes)
    BY <2>1, <2>2 DEF Injection, IsInjective
  <2>4. Cardinality(0..N) <= N
    BY <1>1, <2>3, FS_Injection DEF N
  <2>5. Cardinality(0..N) = N + 1
    BY <1>1, FS_Interval
  <2> QED BY <1>1, <2>4, <2>5
<1>8. NodeStack(key) = [i \in 1..d |-> at[i - 1]]
  <2>1. {i \in 0..N : at[i] # NoNode} = 0..(d - 1)
    BY <1>1, <1>3, <1>7 DEF IsPath
  <2>2. Cardinality(0..(d - 1)) = d
    BY <1>1, FS_Interval
  <2> QED BY <2>1, <2>2 DEF NodeStack, at, N
<1> DEFINE s == NodeStack(key)
<1>9. s \in Seq(Nodes) /\ Len(s) = d /\ \A i \in 1..d : s[i] = at[i - 1]
  <2>1. \A i \in 1..d : i - 1 \in 0..(d - 1)
    BY <1>1
  <2>2. s \in [1..d -> Nodes] /\ d \in Nat
    BY <1>1, <1>6, <1>8, <2>1
  <2>3. s \in Seq(Nodes)
    BY <2>2, SeqDef
  <2>4. Len(s) = d
    BY <2>2, <2>3, LenProperties
  <2> QED BY <1>8, <2>3, <2>4
<1> HIDE DEF s
<1>10. d <= MaxPrefixLen + 1
  <2>1. CASE d = 1
    BY <2>1, BoundsAssumption
  <2>2. CASE d > 1
    <3>1. 0 \in 0..(d - 1) /\ d - 1 \in 0..(d - 1) /\ 0 < d - 1
      BY <1>1, <2>2
    <3>2. Len(at[0]) + ((d - 1) - 0) <= Len(at[d - 1]) /\ Len(at[0]) \in Nat
      BY <1>5, <1>6, <3>1
    <3>3. Len(at[d - 1]) <= MaxPrefixLen /\ Len(at[d - 1]) \in Nat
      BY <1>1, <1>6, <3>1, PrefixType
    <3> QED BY <1>1, <3>2, <3>3, BoundsAssumption
  <2> QED BY <1>1, <2>1, <2>2
<1>11. s[1] = Root
  BY <1>1, <1>4, <1>9
<1>12. ASSUME NEW i \in 1..(d - 1) PROVE s[i + 1] = SearchStep(key)[s[i]]
  <2>1. i \in 1..N /\ i \in 1..d /\ i + 1 \in 1..d /\ (i + 1) - 1 = i
    BY <1>1, <1>7
  <2> QED BY <1>4, <1>9, <2>1
<1>13. SearchStep(key)[s[d]] = NoNode
  <2>1. d \in 1..N /\ d \in 0..N /\ d \in 1..d
    BY <1>1, <1>7
  <2>2. at[d] = NoNode
    BY <1>1, <1>3, <2>1 DEF IsPath
  <2> QED BY <1>4, <1>9, <2>1, <2>2
<1>14. ASSUME NEW i \in 1..d, NEW j \in 1..d, i < j
       PROVE  Covers(s[i], s[j]) /\ Len(s[i]) < Len(s[j])
  <2>1. i - 1 \in 0..(d - 1) /\ j - 1 \in 0..(d - 1) /\ i - 1 < j - 1
    BY <1>1, <1>14
  <2>2. Covers(at[i - 1], at[j - 1]) /\ Len(at[i - 1]) + ((j - 1) - (i - 1)) <= Len(at[j - 1])
    BY <1>5, <2>1
  <2>3. Len(at[i - 1]) \in Nat /\ Len(at[j - 1]) \in Nat
    BY <1>6, <2>1
  <2>4. Len(at[i - 1]) < Len(at[j - 1])
    BY <2>1, <2>2, <2>3, <1>1
  <2> QED BY <1>9, <2>2, <2>4
<1>15. d \in 1..(MaxPrefixLen + 1)
  BY <1>1, <1>10, BoundsAssumption
<1> QED BY <1>9, <1>11, <1>12, <1>13, <1>14, <1>15 DEF s

\* A key of the map is found, and every node on the way to it is on the stack.
LEMMA StackOfKey ==
  ASSUME keys \subseteq Prefix, NEW key \in keys
  PROVE  LET s == NodeStack(key)
         IN /\ s[Len(s)] = key
            /\ \A i \in 1..Len(s) : Covers(s[i], key)
            /\ \A n \in Nodes : Covers(n, key) => \E i \in 1..Len(s) : s[i] = n
            /\ \A i \in 1..(Len(s) - 1) : s[i + 1] = Child(s[i], key[Len(s[i]) + 1])
<1> DEFINE s == NodeStack(key)
           step == SearchStep(key)
<1>0. keys # {} /\ key \in Prefix /\ key \in Nodes /\ Nodes \subseteq Prefix /\ NoNode \notin Nodes
  BY NodesType, NullIsNoNode
<1>1. /\ s \in Seq(Nodes) /\ Len(s) \in 1..(MaxPrefixLen + 1)
      /\ s[1] = Root
      /\ \A i \in 1..(Len(s) - 1) : s[i + 1] = step[s[i]]
      /\ step[s[Len(s)]] = NoNode
      /\ \A i, j \in 1..Len(s) : i < j => Covers(s[i], s[j]) /\ Len(s[i]) < Len(s[j])
  BY <1>0, StackType
<1>2. Len(s) \in Nat /\ \A i \in 1..Len(s) : s[i] \in Nodes /\ s[i] \in Prefix
  BY <1>0, <1>1, ElementOfSeq
<1>3. \A n \in Nodes : step[n] = IF StopsAt(n, key) THEN NoNode ELSE Child(n, key[Len(n) + 1])
  BY <1>0 DEF SearchStep
<1>4. \A n \in Nodes : ~StopsAt(n, key) => key[Len(n) + 1] \in {0, 1}
  BY <1>0, SearchGoesDown
<1> HIDE DEF s, step
<1>5. ASSUME NEW i \in 1..(Len(s) - 1) PROVE s[i + 1] = Child(s[i], key[Len(s[i]) + 1]) /\ ~StopsAt(s[i], key)
  <2>1. i \in 1..Len(s) /\ i + 1 \in 1..Len(s)
    BY <1>2
  <2> QED BY <1>0, <1>1, <1>2, <1>3, <2>1
\* A node that does not stop the search and covers the key has it on one side.
<1>6. ASSUME NEW n \in Nodes, Covers(n, key), ~StopsAt(n, key)
      PROVE  Side(n, key[Len(n) + 1], key)
  BY <1>0, <1>6, SearchGoesDown DEF Side
<1>7. \A i \in 1..Len(s) : Covers(s[i], key)
  <2> DEFINE S == {i \in Nat : i + 1 <= Len(s) => Covers(s[i + 1], key)}
  <2>1. 0 \in S
    BY <1>0, <1>1, RootType
  <2>2. ASSUME NEW i \in Nat, i \in S PROVE i + 1 \in S
    <3> SUFFICES ASSUME (i + 1) + 1 <= Len(s) PROVE Covers(s[(i + 1) + 1], key)
      OBVIOUS
    <3>1. i + 1 \in 1..(Len(s) - 1) /\ i + 1 \in 1..Len(s) /\ (i + 1) + 1 \in 1..Len(s)
      BY <1>2
    <3> DEFINE n == s[i + 1]
    <3>2. n \in Nodes /\ Covers(n, key) /\ ~StopsAt(n, key)
      BY <1>2, <1>5, <2>2, <3>1
    <3>3. s[(i + 1) + 1] = Child(n, key[Len(n) + 1]) /\ s[(i + 1) + 1] # NoNode
      BY <1>0, <1>2, <1>5, <3>1
    <3> HIDE DEF n
    <3>4. Side(n, key[Len(n) + 1], key) /\ key[Len(n) + 1] \in {0, 1}
      BY <1>4, <1>6, <3>2
    <3> QED BY <1>0, <3>2, <3>3, <3>4, ChildType
  <2>3. Nat \subseteq S
    <3> HIDE DEF S
    <3> QED BY <2>1, <2>2, Induct
  <2> SUFFICES ASSUME NEW i \in 1..Len(s) PROVE Covers(s[i], key)
    OBVIOUS
  <2>4. i - 1 \in Nat /\ (i - 1) + 1 = i /\ i <= Len(s)
    BY <1>2
  <2> QED BY <2>3, <2>4
<1>8. s[Len(s)] = key
  <2> DEFINE n == s[Len(s)]
  <2>1. Len(s) \in 1..Len(s)
    BY <1>1, <1>2
  <2>2. n \in Nodes /\ n \in Prefix /\ Covers(n, key) /\ step[n] = NoNode
    BY <1>1, <1>2, <1>7, <2>1
  <2> HIDE DEF n
  <2>3. StopsAt(n, key)
    <3> SUFFICES ASSUME ~StopsAt(n, key) PROVE FALSE
      OBVIOUS
    <3>1. Side(n, key[Len(n) + 1], key) /\ key[Len(n) + 1] \in {0, 1}
      BY <1>4, <1>6, <2>2
    <3>2. Child(n, key[Len(n) + 1]) = NoNode
      BY <1>3, <2>2
    <3> QED BY <1>0, <2>2, <3>1, <3>2, ChildType
  <2>4. longest_prefix_match(n, key) = Len(n)
    <3>1. Parts(n, key, Len(n))
      BY <1>0, <2>2, PrefixType DEF Covers, Parts
    <3> QED BY <1>0, <2>2, <3>1, MatchLength, PartsOnce
  <2>5. Len(n) = Len(key)
    BY <2>3, <2>4 DEF StopsAt
  <2>6. n = key
    BY <1>0, <2>2, <2>5, SamePrefix, PrefixType
  <2> QED BY <2>6 DEF n
<1>9. ASSUME NEW n \in Nodes, Covers(n, key) PROVE \E i \in 1..Len(s) : s[i] = n
  <2> DEFINE S == {i \in 1..Len(s) : Len(n) <= Len(s[i])}
  <2>1. Len(s) \in S /\ S \subseteq Nat
    BY <1>0, <1>1, <1>8, <1>9 DEF Covers
  <2>2. PICK i \in S : \A j \in S : i <= j
    BY <2>1, Least
  <2>3. i \in 1..Len(s) /\ Len(n) <= Len(s[i]) /\ \A j \in 1..(i - 1) : ~(Len(n) <= Len(s[j]))
    <3>1. \A j \in 1..(i - 1) : j \in 1..Len(s) /\ ~(i <= j)
      BY <1>2, <2>2
    <3> QED BY <2>2, <3>1
  <2>4. n \in Prefix /\ s[i] \in Prefix /\ Len(n) \in Nat /\ Covers(s[i], key)
    BY <1>0, <1>2, <1>7, <2>3, PrefixType
  <2>5. CASE i = 1
    <3>1. Covers(s[i], n)
      BY <1>0, <1>1, <2>5, RootType
    <3> QED BY <2>3, <2>4, <3>1, SamePrefix
  <2>6. CASE i # 1
    <3>1. i - 1 \in 1..(Len(s) - 1) /\ i - 1 \in 1..(i - 1) /\ i - 1 \in 1..Len(s) /\ (i - 1) + 1 = i
      BY <1>2, <2>3, <2>6
    <3> DEFINE p == s[i - 1]
    <3>2. p \in Nodes /\ p \in Prefix /\ Covers(p, key) /\ ~StopsAt(p, key)
      BY <1>2, <1>5, <1>7, <3>1
    <3>3. s[i] = Child(p, key[Len(p) + 1]) /\ s[i] \in Nodes
      BY <1>2, <1>5, <2>3, <3>1
    <3>4. ~(Len(n) <= Len(p))
      BY <2>3, <3>1
    <3> HIDE DEF p
    <3>5. Len(p) \in Nat /\ Len(p) < Len(n)
      BY <2>4, <3>2, <3>4, PrefixType
    <3>6. Covers(p, n)
      BY <1>0, <1>9, <2>4, <3>2, <3>5, CoversChain
    <3>7. n[Len(p) + 1] = key[Len(p) + 1]
      BY <1>9, <2>4, <3>5 DEF Covers
    <3>8. Side(p, key[Len(p) + 1], n) /\ key[Len(p) + 1] \in {0, 1}
      BY <1>4, <3>2, <3>5, <3>6, <3>7 DEF Side
    <3>9. Covers(s[i], n)
      BY <1>0, <3>2, <3>3, <3>8, ChildType
    <3> QED BY <2>3, <2>4, <3>9, SamePrefix
  <2> QED BY <2>5, <2>6
<1> QED BY <1>5, <1>7, <1>8, <1>9 DEF s

LEMMA ExactMatchIsMember ==
  ASSUME keys \subseteq Prefix, keys # {}, NEW key \in Prefix
  PROVE  ExactMatch(key) <=> key \in keys
<1> DEFINE s == NodeStack(key)
           n == Last(s)
<1>1. s \in Seq(Nodes) /\ Len(s) \in 1..(MaxPrefixLen + 1) /\ Nodes \subseteq Prefix
  BY StackType, NodesType
<1>2. n \in Nodes /\ n \in Prefix /\ n = s[Len(s)]
  BY <1>1, ElementOfSeq DEF Last
<1> HIDE DEF n
<1>3. Parts(n, key, longest_prefix_match(n, key))
  BY <1>2, MatchLength
<1>4. ASSUME ExactMatch(key) PROVE key \in keys
  <2>1. StopsAt(n, key) /\ Len(n) = longest_prefix_match(n, key) /\ n \in keys
    BY <1>4 DEF ExactMatch, Intermediate, n
  <2>2. Len(n) = Len(key) /\ Covers(n, key)
    BY <1>2, <1>3, <2>1, PrefixType DEF StopsAt, Parts, Covers
  <2>3. n = key
    BY <1>2, <2>2, SamePrefix, PrefixType
  <2> QED BY <2>1, <2>3
<1>5. ASSUME key \in keys PROVE ExactMatch(key)
  <2>1. n = key
    BY <1>2, <1>5, StackOfKey
  <2>2. longest_prefix_match(key, key) = Len(key)
    <3>1. Parts(key, key, Len(key))
      BY PrefixType DEF Parts
    <3> QED BY <3>1, MatchLength, PartsOnce
  <2> QED BY <1>5, <2>1, <2>2 DEF ExactMatch, Intermediate, StopsAt, n
<1> QED BY <1>4, <1>5

-----------------------------------------------------------------------------
(* The postorder.                                                           *)

\* a and b part at bit m, a to the left.
LeftAt(a, b, m) == Parts(a, b, m) /\ m < Len(a) /\ m < Len(b) /\ a[m + 1] = 0 /\ b[m + 1] = 1

LEMMA BeforeIs ==
  ASSUME NEW j \in Prefix, NEW k \in Prefix
  PROVE  Before(j, k) <=> \/ Covers(k, j) /\ Len(k) < Len(j)
                          \/ \E m \in Nat : LeftAt(j, k, m)
<1> DEFINE m == longest_prefix_match(j, k)
<1>1. Parts(j, k, m)
  BY MatchLength
<1>2. Before(j, k) <=> IsStrictPrefix(k, j) \/ (m < Len(j) /\ m < Len(k) /\ j[m + 1] < k[m + 1])
  BY DEF Before
<1> HIDE DEF m
<1>3. \A n \in Nat : Parts(j, k, n) => n = m
  BY <1>1, PartsOnce
<1>4. m < Len(j) /\ m < Len(k) => j[m + 1] \in {0, 1} /\ k[m + 1] \in {0, 1}
  BY <1>1, PrefixType DEF Parts
<1>5. \A x, y \in {0, 1} : x < y <=> x = 0 /\ y = 1
  OBVIOUS
<1>6. (\E n \in Nat : LeftAt(j, k, n)) <=> (m < Len(j) /\ m < Len(k) /\ j[m + 1] < k[m + 1])
  BY <1>1, <1>3, <1>4, <1>5 DEF LeftAt, Parts
<1> QED BY <1>2, <1>6, StrictPrefix

LEMMA LeftStable ==
  ASSUME NEW a \in Prefix, NEW b \in Prefix, NEW m \in Nat, LeftAt(a, b, m),
         NEW y \in Prefix, NEW z \in Prefix, Covers(a, y), Covers(b, z)
  PROVE  LeftAt(y, z, m)
<1>1. /\ Len(a) \in Nat /\ Len(b) \in Nat /\ Len(y) \in Nat /\ Len(z) \in Nat
      /\ m < Len(a) /\ m < Len(b) /\ Len(a) <= Len(y) /\ Len(b) <= Len(z)
  BY PrefixType DEF LeftAt, Covers
<1>2. \A i \in 1..(m + 1) : i \in 1..Len(a) /\ i \in 1..Len(b)
  BY <1>1
<1>3. \A i \in 1..(m + 1) : a[i] = y[i] /\ b[i] = z[i]
  BY <1>2 DEF Covers
<1>4. a[m + 1] = y[m + 1] /\ b[m + 1] = z[m + 1] /\ \A i \in 1..m : a[i] = y[i] /\ b[i] = z[i]
  BY <1>3
<1> QED BY <1>1, <1>4 DEF LeftAt, Parts

\* What comes before a key, all below it comes before that key too.
LEMMA BeforeBelow ==
  ASSUME NEW a \in Prefix, NEW k \in Prefix, NEW z \in Prefix, Before(a, k), Covers(a, z)
  PROVE  Before(z, k)
<1>1. CASE Covers(k, a) /\ Len(k) < Len(a)
  <2>1. Covers(k, z)
    BY <1>1, CoversTransitive
  <2>2. Len(k) < Len(z)
    BY <1>1, PrefixType DEF Covers
  <2> QED BY <2>1, <2>2, BeforeIs
<1>2. CASE \E m \in Nat : LeftAt(a, k, m)
  <2>1. Covers(k, k)
    BY PrefixType DEF Covers
  <2> QED BY <1>2, <2>1, LeftStable, BeforeIs
<1> QED BY <1>1, <1>2, BeforeIs

\* The order is strict and total.
LEMMA BeforeEither ==
  ASSUME NEW j \in Prefix, NEW k \in Prefix
  PROVE  /\ ~(Before(j, k) /\ Before(k, j)) /\ ~Before(j, j)
         /\ j = k \/ Before(j, k) \/ Before(k, j)
<1> DEFINE m == longest_prefix_match(j, k)
<1>1. Parts(j, k, m)
  BY MatchLength
<1> HIDE DEF m
<1>2. Len(j) \in Nat /\ Len(k) \in Nat
  BY PrefixType
<1>3. j = k \/ Before(j, k) \/ Before(k, j)
  <2>1. CASE m = Len(j)
    <3>1. Covers(j, k)
      BY <1>1, <2>1 DEF Parts, Covers
    <3>2. j = k \/ Len(j) < Len(k)
      BY <1>2, <3>1, SamePrefix
    <3> QED BY <3>1, <3>2, BeforeIs
  <2>2. CASE m = Len(k)
    <3>1. Covers(k, j)
      BY <1>1, <2>2 DEF Parts, Covers
    <3>2. j = k \/ Len(k) < Len(j)
      BY <1>2, <3>1, SamePrefix
    <3> QED BY <3>1, <3>2, BeforeIs
  <2>3. CASE m < Len(j) /\ m < Len(k)
    <3>1. m \in Nat /\ j[m + 1] \in {0, 1} /\ k[m + 1] \in {0, 1} /\ j[m + 1] # k[m + 1]
      BY <1>1, <2>3, PrefixType DEF Parts
    <3>2. Parts(k, j, m)
      BY <1>1 DEF Parts
    <3>3. LeftAt(j, k, m) \/ LeftAt(k, j, m)
      BY <1>1, <2>3, <3>1, <3>2 DEF LeftAt
    <3> QED BY <3>1, <3>3, BeforeIs
  <2> QED BY <1>1, <1>2, <2>1, <2>2, <2>3 DEF Parts
<1>4. ASSUME NEW x \in Prefix, NEW y \in Prefix, Before(x, y), Before(y, x) PROVE FALSE
  <2>1. Len(x) \in Nat /\ Len(y) \in Nat
    BY PrefixType
  <2>2. ASSUME NEW n \in Nat, LeftAt(x, y, n) PROVE ~Before(y, x)
    <3>1. Parts(x, y, n) /\ Parts(y, x, n) /\ x[n + 1] = 0 /\ y[n + 1] = 1 /\ n < Len(x) /\ n < Len(y)
      BY <2>2 DEF LeftAt, Parts
    <3>2. ~(\E o \in Nat : LeftAt(y, x, o))
      BY <3>1, PartsOnce DEF LeftAt
    <3>3. ~Covers(x, y)
      BY <2>1, <3>1 DEF Covers
    <3> QED BY <3>2, <3>3, BeforeIs
  <2>3. ASSUME NEW n \in Nat, LeftAt(y, x, n) PROVE ~Before(x, y)
    <3>1. Parts(x, y, n) /\ Parts(y, x, n) /\ y[n + 1] = 0 /\ x[n + 1] = 1 /\ n < Len(x) /\ n < Len(y)
      BY <2>3 DEF LeftAt, Parts
    <3>2. ~(\E o \in Nat : LeftAt(x, y, o))
      BY <3>1, PartsOnce DEF LeftAt
    <3>3. ~Covers(y, x)
      BY <2>1, <3>1 DEF Covers
    <3> QED BY <3>2, <3>3, BeforeIs
  <2>4. ~(Len(x) < Len(y) /\ Len(y) < Len(x))
    BY <2>1
  <2> QED BY <1>4, <2>2, <2>3, <2>4, BeforeIs
<1> QED BY <1>3, <1>4

-----------------------------------------------------------------------------
(* find_leftmost.                                                           *)

LEMMA LeftGoesDown ==
  ASSUME keys \subseteq Prefix
  PROVE  GoesDown(LeftStep)
<1>1. Nodes \subseteq Prefix /\ NoNode \notin Nodes
  BY NodesType, NullIsNoNode
<1>2. LeftStep[NoNode] = NoNode
  BY DEF LeftStep
<1>3. \A n \in Nodes : LeftStep[n] = Child(n, 0) \/ LeftStep[n] = Child(n, 1)
  BY <1>1 DEF LeftStep
<1>4. \A n \in Nodes : \A b \in {0, 1} :
        Child(n, b) = NoNode \/ (Child(n, b) \in Nodes /\ Covers(n, Child(n, b)) /\ Len(n) < Len(Child(n, b)))
  BY ChildType DEF Side
<1>5. \A n \in Nodes :
        LeftStep[n] = NoNode \/ (LeftStep[n] \in Nodes /\ Covers(n, LeftStep[n]) /\ Len(n) < Len(LeftStep[n]))
  <2> TAKE n \in Nodes
  <2>1. 0 \in {0, 1} /\ 1 \in {0, 1}
    OBVIOUS
  <2> QED BY <1>3, <1>4, <2>1
<1>6. LeftStep = [n \in Pointers |-> LeftStep[n]]
  BY DEF LeftStep, Pointers
<1>7. \A n \in Pointers : LeftStep[n] \in Pointers
  BY <1>2, <1>5 DEF Pointers
<1> QED BY <1>2, <1>5, <1>6, <1>7 DEF GoesDown

\* A key is below a node on one of its sides, or is that node.
LEMMA OnOneSide ==
  ASSUME NEW n \in Prefix, NEW k \in Prefix, Covers(n, k)
  PROVE  n = k \/ \E b \in {0, 1} : Side(n, b, k)
<1>1. CASE Len(k) <= Len(n)
  BY <1>1, SamePrefix
<1>2. CASE Len(n) < Len(k)
  <2>1. Len(n) + 1 \in 1..Len(k)
    BY <1>2, PrefixType
  <2>2. k[Len(n) + 1] \in {0, 1}
    BY <2>1, PrefixType
  <2> QED BY <1>2, <2>2 DEF Side
<1> QED BY <1>1, <1>2, PrefixType

\* Where the loop goes on there is nothing further left.
LEMMA LeftStepType ==
  ASSUME keys \subseteq Prefix, NEW n \in Nodes
  PROVE  \/ /\ LeftStep[n] = NoNode
            /\ \A k \in keys, b \in {0, 1} : ~Side(n, b, k)
            /\ n \in keys
         \/ /\ LeftStep[n] \in Nodes
            /\ \E b \in {0, 1} :
                 /\ Side(n, b, LeftStep[n])
                 /\ \A k \in keys : Side(n, b, k) => Covers(LeftStep[n], k)
                 /\ \A k \in keys : b = 1 => ~Side(n, 0, k)
<1>1. NoNode \notin Nodes /\ keys \subseteq Nodes /\ 0 \in {0, 1} /\ 1 \in {0, 1}
  BY NodesType, NullIsNoNode
<1>2. LeftStep[n] = IF Intermediate(n) \/ Child(n, 0) # NoNode THEN Child(n, 0) ELSE Child(n, 1)
  BY <1>1 DEF LeftStep
<1>3. \A b \in {0, 1} : \/ Child(n, b) = NoNode /\ \A m \in Nodes : ~Side(n, b, m)
                        \/ /\ Child(n, b) \in Nodes /\ Side(n, b, Child(n, b))
                           /\ \A m \in Nodes : Side(n, b, m) => Covers(Child(n, b), m)
  BY ChildType
<1>4. Intermediate(n) => Child(n, 0) # NoNode
  BY <1>1, <1>3, Branches
<1>5. CASE Child(n, 0) # NoNode
  <2>1. LeftStep[n] = Child(n, 0) /\ Child(n, 0) \in Nodes /\ Side(n, 0, LeftStep[n])
    BY <1>1, <1>2, <1>3, <1>5
  <2>2. \A k \in keys : Side(n, 0, k) => Covers(LeftStep[n], k)
    BY <1>1, <1>3, <1>5, <2>1
  <2> QED BY <2>1, <2>2
<1>6. CASE Child(n, 0) = NoNode
  <2>1. n \in keys /\ LeftStep[n] = Child(n, 1) /\ \A k \in keys : ~Side(n, 0, k)
    BY <1>1, <1>2, <1>3, <1>4, <1>6 DEF Intermediate
  <2> QED BY <1>1, <1>3, <2>1
<1> QED BY <1>5, <1>6

\* find_leftmost returns the first key, in postorder, below a node.
LEMMA LeftmostType ==
  ASSUME keys \subseteq Prefix, NEW r \in Nodes
  PROVE  /\ Leftmost(r) \in keys /\ Covers(r, Leftmost(r))
         /\ \A k \in keys : Covers(r, k) => k = Leftmost(r) \/ Before(Leftmost(r), k)
<1> DEFINE at == Iterates(LeftStep, r, MaxPrefixLen)
<1>0. MaxPrefixLen \in Nat /\ Nodes \subseteq Prefix /\ keys \subseteq Nodes /\ NoNode \notin Nodes
  BY BoundsAssumption, NodesType, NullIsNoNode
<1>1. PICK d \in 1..(MaxPrefixLen + 1) : IsPath(at, MaxPrefixLen, d)
  BY <1>0, LeftGoesDown, PathDown
<1>2. at[0] = r /\ \A i \in 1..MaxPrefixLen : at[i] = LeftStep[at[i - 1]]
  <2>1. LeftStep \in [Pointers -> Pointers] /\ r \in Pointers
    BY LeftGoesDown DEF GoesDown, Pointers
  <2> QED BY <1>0, <2>1, IteratesFollow
<1>3. Leftmost(r) = LET found == {at[i] : i \in 0..MaxPrefixLen} \intersect keys
                    IN CHOOSE k \in found : \A j \in found : Len(j) <= Len(k)
  BY DEF Leftmost
<1> HIDE DEF at
<1>4. /\ \A i \in 0..MaxPrefixLen : at[i] # NoNode <=> i < d
      /\ \A i \in 0..(d - 1) : at[i] \in Nodes /\ at[i] \in Prefix /\ Len(at[i]) \in Nat
      /\ \A i, j \in 0..(d - 1) : i <= j => Covers(at[i], at[j]) /\ Len(at[i]) + (j - i) <= Len(at[j])
  BY <1>0, <1>1, PrefixType DEF IsPath
<1> DEFINE z == at[d - 1]
<1>5. 0 \in 0..(d - 1) /\ d - 1 \in 0..(d - 1) /\ d - 1 \in 0..MaxPrefixLen /\ d \in Nat
  BY <1>0
<1>6. z \in Nodes /\ z \in Prefix /\ Len(z) \in Nat /\ Len(z) <= MaxPrefixLen
  BY <1>4, <1>5, PrefixType
\* The last node is a key without a key below it.
<1>7. z \in keys /\ \A k \in keys, b \in {0, 1} : ~Side(z, b, k)
  <2>1. CASE d <= MaxPrefixLen
    <3>1. d \in 1..MaxPrefixLen /\ d \in 0..MaxPrefixLen
      BY <1>5, <2>1
    <3>2. at[d] = NoNode
      BY <1>4, <3>1
    <3>3. LeftStep[z] = NoNode
      BY <1>2, <3>1, <3>2
    <3> HIDE DEF z
    <3> QED BY <1>0, <1>6, <3>3, LeftStepType
  <2>2. CASE d = MaxPrefixLen + 1
    <3>1. Len(at[0]) + ((d - 1) - 0) <= Len(z) /\ Len(at[0]) \in Nat
      BY <1>4, <1>5
    <3>2. Len(z) = MaxPrefixLen
      BY <1>0, <1>6, <2>2, <3>1
    <3> HIDE DEF z
    <3>3. \A k \in keys, b \in {0, 1} : ~Side(z, b, k)
      BY <1>0, <3>2, PrefixType DEF Side
    <3>4. z \in keys
      BY <1>6, <3>3, Branches DEF Intermediate
    <3> QED BY <3>3, <3>4
  <2> QED BY <1>0, <2>1, <2>2
<1>8. Leftmost(r) = z
  <2> DEFINE found == {at[i] : i \in 0..MaxPrefixLen} \intersect keys
  <2>1. z \in found
    BY <1>5, <1>7
  <2>2. ASSUME NEW j \in found PROVE j \in Prefix /\ Len(j) \in Nat /\ Covers(j, z)
    <3>1. PICK i \in 0..MaxPrefixLen : j = at[i] /\ at[i] \in keys
      OBVIOUS
    <3>2. i \in 0..(d - 1) /\ i <= d - 1
      BY <1>0, <1>4, <1>5, <3>1
    <3> QED BY <1>4, <1>5, <3>1, <3>2
  <2>3. \A j \in found : Len(j) <= Len(z)
    BY <2>2 DEF Covers
  <2>4. \A j \in found : Len(z) <= Len(j) => j = z
    BY <1>6, <2>2, SamePrefix
  <2>5. Leftmost(r) = CHOOSE k \in found : \A j \in found : Len(j) <= Len(k)
    BY <1>3
  <2> HIDE DEF found, z
  <2> QED BY <2>1, <2>3, <2>4, <2>5
<1>9. Covers(r, z)
  BY <1>2, <1>4, <1>5
<1>10. ASSUME NEW k \in keys, Covers(r, k) PROVE k = z \/ Before(z, k)
  <2>1. k \in Prefix /\ Len(k) \in Nat
    BY <1>0, PrefixType
  <2> DEFINE S == {i \in Nat : i <= d - 1 => Covers(at[i], k) \/ Before(z, k)}
  <2>2. 0 \in S
    BY <1>2, <1>10
  <2>3. ASSUME NEW i \in Nat, i \in S PROVE i + 1 \in S
    <3> SUFFICES ASSUME i + 1 <= d - 1, Covers(at[i], k) PROVE Covers(at[i + 1], k) \/ Before(z, k)
      BY <1>5, <2>3
    <3>1. i \in 0..(d - 1) /\ i + 1 \in 0..(d - 1) /\ i + 1 \in 1..MaxPrefixLen /\ (i + 1) - 1 = i
      BY <1>0, <1>5
    <3> DEFINE n == at[i]
               c == at[i + 1]
    <3>2. /\ n \in Nodes /\ n \in Prefix /\ Len(n) \in Nat
          /\ c \in Nodes /\ c \in Prefix /\ Len(c) \in Nat
          /\ c = LeftStep[n] /\ Covers(c, z) /\ Covers(n, k)
      BY <1>2, <1>4, <1>5, <3>1
    <3> HIDE DEF n, c, z
    <3>3. PICK b \in {0, 1} : /\ Side(n, b, c)
                              /\ \A j \in keys : Side(n, b, j) => Covers(c, j)
                              /\ \A j \in keys : b = 1 => ~Side(n, 0, j)
      BY <1>0, <3>2, LeftStepType
    <3>4. CASE n = k
      <4>1. Covers(k, c) /\ Len(k) < Len(c)
        BY <3>3, <3>4 DEF Side
      <4>2. Before(c, k)
        BY <2>1, <3>2, <4>1, BeforeIs
      <4> QED BY <1>6, <2>1, <3>2, <4>2, BeforeBelow DEF z
    <3>5. CASE Side(n, b, k)
      BY <3>3, <3>5 DEF c
    <3>6. CASE b = 0 /\ Side(n, 1, k)
      <4>1. \A i_1 \in 1..Len(n) : c[i_1] = k[i_1]
        BY <3>2, <3>3 DEF Side, Covers
      <4>2. LeftAt(c, k, Len(n))
        BY <2>1, <3>2, <3>3, <3>6, <4>1 DEF Side, LeftAt, Parts
      <4>3. Before(c, k)
        BY <2>1, <3>2, <4>2, BeforeIs
      <4> QED BY <1>6, <2>1, <3>2, <4>3, BeforeBelow DEF z
    <3>7. n = k \/ Side(n, b, k) \/ (b = 0 /\ Side(n, 1, k))
      BY <2>1, <3>2, <3>3, OnOneSide
    <3> QED BY <3>4, <3>5, <3>6, <3>7
  <2>4. Nat \subseteq S
    <3> HIDE DEF S
    <3> QED BY <2>2, <2>3, Induct
  <2>5. Covers(z, k) \/ Before(z, k)
    BY <1>5, <2>4
  <2> HIDE DEF z
  <2> QED BY <1>6, <1>7, <2>1, <2>5, OnOneSide
<1> QED BY <1>7, <1>8, <1>9, <1>10

-----------------------------------------------------------------------------
(* The way up.                                                              *)

\* k is what a turn of the way up finds at the node n: the node, or a key in its
\* right subtree.
FoundAt(n, k) == k = n \/ Side(n, 1, k)

LEMMA AfterMatchType ==
  ASSUME keys \subseteq Prefix, NEW key \in keys
  PROVE  LET after == {k \in keys : Before(key, k)}
             next  == AfterMatch(NodeStack(key))
         IN IF after = {} THEN next = NoKey
            ELSE next \in after /\ \A k \in after : k = next \/ Before(next, k)
<1> DEFINE s     == NodeStack(key)
           n     == Len(s)
           after == {k \in keys : Before(key, k)}
           next  == AfterMatch(s)
           Hit(i) == RightSubtree(s, i) \/ ~Intermediate(s[i])
<1>0. /\ keys # {} /\ key \in Prefix /\ key \in Nodes /\ Nodes \subseteq Prefix
      /\ keys \subseteq Nodes /\ NoNode \notin Nodes /\ 0 \in {0, 1} /\ 1 \in {0, 1}
  BY NodesType, NullIsNoNode
<1>1. /\ s \in Seq(Nodes) /\ n \in 1..(MaxPrefixLen + 1)
      /\ \A i, j \in 1..n : i < j => Covers(s[i], s[j]) /\ Len(s[i]) < Len(s[j])
  BY <1>0, StackType
<1>2. /\ s[n] = key
      /\ \A i \in 1..n : Covers(s[i], key)
      /\ \A m \in Nodes : Covers(m, key) => \E i \in 1..n : s[i] = m
      /\ \A i \in 1..(n - 1) : s[i + 1] = Child(s[i], key[Len(s[i]) + 1])
  BY StackOfKey
<1>3. n \in Nat /\ \A i \in 1..n : s[i] \in Nodes /\ s[i] \in Prefix /\ Len(s[i]) \in Nat
  BY <1>0, <1>1, ElementOfSeq, PrefixType
<1>4. next = LET hits == {i \in 1..(n - 1) : Hit(i)}
                 i == CHOOSE h \in hits : \A g \in hits : g <= h
             IN IF hits = {} THEN NoKey
                ELSE IF RightSubtree(s, i) THEN Leftmost(Child(s[i], 1)) ELSE s[i]
  BY DEF AfterMatch
<1> HIDE DEF s, next
<1>5. ASSUME NEW i \in 1..(n - 1)
      PROVE  /\ i \in 1..n /\ i + 1 \in 1..n /\ n \in 1..n
             /\ Side(s[i], key[Len(s[i]) + 1], key) /\ key[Len(s[i]) + 1] \in {0, 1}
             /\ RightSubtree(s, i) => key[Len(s[i]) + 1] = 0 /\ Child(s[i], 1) # NoNode
             /\ key[Len(s[i]) + 1] = 0 /\ Child(s[i], 1) # NoNode => RightSubtree(s, i)
             /\ Side(s[i], key[Len(s[i]) + 1], s[i + 1])
  <2> DEFINE p == s[i]
             b == key[Len(p) + 1]
  <2>1. i \in 1..n /\ i + 1 \in 1..n /\ n \in 1..n /\ i < n
    BY <1>3
  <2>2. p \in Nodes /\ p \in Prefix /\ Len(p) \in Nat /\ Covers(p, key) /\ Len(p) < Len(key)
    BY <1>1, <1>2, <1>3, <2>1
  <2>3. s[i + 1] = Child(p, b) /\ s[i + 1] \in Nodes
    BY <1>2, <1>3, <2>1
  <2> HIDE DEF p
  <2>4. Side(p, b, key) /\ b \in {0, 1}
    <3>1. Len(p) + 1 \in 1..Len(key)
      BY <1>0, <2>2, PrefixType
    <3> QED BY <1>0, <2>2, <3>1, PrefixType DEF Side
  <2> HIDE DEF b
  <2>5. Side(p, b, s[i + 1])
    BY <1>0, <2>2, <2>3, <2>4, ChildType
  <2>6. ASSUME Child(p, 0) = s[i + 1] PROVE b = 0
    <3>1. Side(p, 0, s[i + 1])
      BY <1>0, <2>2, <2>3, <2>6, ChildType
    <3> QED BY <2>5, <3>1 DEF Side
  <2>7. RightSubtree(s, i) <=> Child(p, 0) = s[i + 1] /\ Child(p, 1) # NoNode
    BY DEF RightSubtree, p
  <2> QED BY <2>1, <2>3, <2>4, <2>5, <2>6, <2>7 DEF p, b
\* The way up passes every key still to come.
<1>6. ASSUME NEW k \in after
      PROVE  \E i \in 1..(n - 1) : /\ Hit(i) /\ FoundAt(s[i], k)
                                   /\ k # s[i] => RightSubtree(s, i)
  <2>1. k \in keys /\ k \in Prefix /\ k \in Nodes /\ Before(key, k)
    BY <1>0
  <2>2. CASE Covers(k, key) /\ Len(k) < Len(key)
    <3>1. PICK i \in 1..n : s[i] = k
      BY <1>2, <2>1, <2>2
    <3>2. i # n
      BY <1>0, <1>2, <2>2, <3>1, PrefixType
    <3>3. i \in 1..(n - 1)
      BY <1>3, <3>2
    <3> QED BY <2>1, <3>1, <3>3 DEF Intermediate, FoundAt
  <2>3. ASSUME NEW m \in Nat, LeftAt(key, k, m)
        PROVE  \E i \in 1..(n - 1) : RightSubtree(s, i) /\ Side(s[i], 1, k)
    <3> DEFINE p == Meet(key, k)
    <3>1. longest_prefix_match(key, k) = m
      BY <1>0, <2>1, <2>3, MatchLength, PartsOnce DEF LeftAt
    <3>2. p \in Nodes /\ Len(p) = m /\ Covers(p, key) /\ Covers(p, k)
      BY <1>0, <2>1, <3>1, NodesMeet, MeetType
    <3> HIDE DEF p
    <3>3. PICK i \in 1..n : s[i] = p
      BY <1>2, <3>2
    <3>4. i # n
      BY <1>0, <1>2, <2>3, <3>2, <3>3, PrefixType DEF LeftAt
    <3>5. i \in 1..(n - 1)
      BY <1>3, <3>4
    <3>6. Side(p, 1, k)
      BY <2>3, <3>2 DEF LeftAt, Side
    <3>7. Child(p, 1) # NoNode
      BY <1>0, <2>1, <3>2, <3>6, ChildType
    <3>8. key[Len(p) + 1] = 0
      BY <2>3, <3>2 DEF LeftAt
    <3> QED BY <1>5, <3>3, <3>5, <3>6, <3>7, <3>8
  <2> QED BY <1>0, <2>1, <2>2, <2>3, BeforeIs DEF FoundAt
\* Below a node of the stack everything comes before what is found further up.
<1>7. ASSUME NEW i \in 1..(n - 1), NEW j \in 1..(n - 1), j < i, NEW y \in Prefix, Covers(s[i], y),
             NEW k \in keys, FoundAt(s[j], k), k # s[j] => RightSubtree(s, j)
      PROVE  Before(y, k)
  <2>1. k \in Prefix /\ Len(k) \in Nat /\ Len(y) \in Nat
    BY <1>0, PrefixType
  <2>2. i \in 1..n /\ j \in 1..n /\ j + 1 \in 1..n /\ (j + 1 < i \/ j + 1 = i)
    BY <1>3, <1>7
  <2>3. /\ s[i] \in Prefix /\ s[j] \in Prefix /\ s[j + 1] \in Prefix
        /\ Len(s[i]) \in Nat /\ Len(s[j]) \in Nat /\ Len(s[j + 1]) \in Nat
        /\ Covers(s[j], s[i]) /\ Len(s[j]) < Len(s[i])
    BY <1>1, <1>3, <1>7, <2>2
  <2>4. Covers(s[j + 1], s[i])
    BY <1>1, <2>2, <2>3 DEF Covers
  <2>5. CASE k = s[j]
    <3>1. Covers(k, y)
      BY <1>7, <2>3, <2>5, CoversTransitive
    <3>2. Len(k) < Len(y)
      BY <1>7, <2>1, <2>3, <2>5 DEF Covers
    <3> QED BY <2>1, <3>1, <3>2, BeforeIs
  <2>6. CASE k # s[j]
    <3> DEFINE p == s[j]
               c == s[j + 1]
    <3>1. Side(p, 1, k) /\ Side(p, 0, c)
      BY <1>5, <1>7, <2>6 DEF FoundAt
    <3>2. p \in Prefix /\ c \in Prefix /\ Len(p) \in Nat
      BY <2>3
    <3> HIDE DEF p, c
    <3>3. LeftAt(c, k, Len(p))
      <4>1. Len(p) < Len(c) /\ Len(p) < Len(k) /\ c[Len(p) + 1] = 0 /\ k[Len(p) + 1] = 1
        BY <3>1 DEF Side
      <4>2. \A l \in 1..Len(p) : p[l] = c[l] /\ p[l] = k[l]
        BY <3>1 DEF Side, Covers
      <4>3. Len(c) \in Nat
        BY <3>2, PrefixType
      <4>4. \A l \in 1..Len(p) : c[l] = k[l]
        BY <4>2
      <4> QED BY <2>1, <3>2, <4>1, <4>3, <4>4 DEF LeftAt, Parts
    <3>4. Covers(c, y)
      BY <1>7, <2>3, <2>4, CoversTransitive DEF c
    <3>5. Before(c, k)
      BY <2>1, <3>2, <3>3, BeforeIs
    <3> QED BY <2>1, <3>2, <3>4, <3>5, BeforeBelow
  <2> QED BY <2>5, <2>6
<1> DEFINE hits == {i \in 1..(n - 1) : Hit(i)}
<1>8. CASE hits = {}
  <2>1. next = NoKey
    BY <1>4, <1>8
  <2>2. after = {}
    BY <1>6, <1>8
  <2> QED BY <2>1, <2>2 DEF next, s
<1>9. CASE hits # {}
  <2> DEFINE i == CHOOSE h \in hits : \A g \in hits : g <= h
  <2>1. \E h \in hits : \A g \in hits : g <= h
    <3> DEFINE S == {n - h : h \in hits}
    <3>1. S \subseteq Nat /\ S # {}
      BY <1>3, <1>9
    <3>2. PICK l \in S : \A o \in S : l <= o
      BY <3>1, Least
    <3>3. PICK h \in hits : l = n - h
      BY <3>2
    <3>4. \A g \in hits : n - h <= n - g
      BY <3>2, <3>3
    <3>5. \A g \in hits : g <= h
      BY <1>3, <3>4
    <3> QED BY <3>5
  <2>2. i \in hits /\ \A g \in hits : g <= i
    BY <2>1
  <2>3. next = IF RightSubtree(s, i) THEN Leftmost(Child(s[i], 1)) ELSE s[i]
    BY <1>4, <1>9
  <2>4. \A k \in after : \E j \in hits : FoundAt(s[j], k) /\ (k # s[j] => RightSubtree(s, j))
    BY <1>6
  <2> HIDE DEF i
  <2>5. /\ i \in 1..(n - 1) /\ i \in 1..n /\ i < n /\ n \in 1..n
        /\ Hit(i) /\ s[i] \in Nodes /\ s[i] \in Prefix /\ Len(s[i]) \in Nat
    BY <1>3, <1>5, <2>2
  <2>6. next \in keys /\ Covers(s[i], next) /\ Before(key, next)
    <3>1. CASE RightSubtree(s, i)
      <4> DEFINE p == s[i]
                 c == Child(p, 1)
      <4>1. p \in Nodes /\ p \in Prefix /\ Len(p) \in Nat /\ next = Leftmost(c)
        BY <2>3, <2>5, <3>1
      <4>2. key[Len(p) + 1] = 0 /\ c # NoNode /\ Side(p, 0, key)
        BY <1>5, <2>5, <3>1
      <4> HIDE DEF p
      <4>3. c \in Nodes /\ c \in Prefix /\ Side(p, 1, c)
        BY <1>0, <4>1, <4>2, ChildType
      <4> HIDE DEF c
      <4>4. next \in keys /\ Covers(c, next) /\ next \in Prefix
        BY <1>0, <4>1, <4>3, LeftmostType
      <4>5. LeftAt(key, c, Len(p))
        <5>1. \A l \in 1..Len(p) : p[l] = c[l] /\ p[l] = key[l]
          BY <4>2, <4>3 DEF Side, Covers
        <5>2. Len(key) \in Nat /\ Len(c) \in Nat
          BY <1>0, <4>3, PrefixType
        <5>3. \A l \in 1..Len(p) : key[l] = c[l]
          BY <5>1
        <5> QED BY <4>1, <4>2, <4>3, <5>2, <5>3 DEF Side, LeftAt, Parts
      <4>6. Covers(key, key)
        BY <1>0, PrefixType DEF Covers
      <4>7. LeftAt(key, next, Len(p))
        BY <1>0, <4>1, <4>3, <4>4, <4>5, <4>6, LeftStable
      <4>8. Covers(p, next)
        BY <4>1, <4>3, <4>4, CoversTransitive DEF Side
      <4> QED BY <1>0, <4>1, <4>4, <4>7, <4>8, BeforeIs DEF p
    <3>2. CASE ~RightSubtree(s, i)
      <4>1. next = s[i] /\ next \in keys
        BY <2>3, <2>5, <3>2 DEF Intermediate
      <4>2. Covers(s[i], key) /\ Len(s[i]) < Len(key) /\ Covers(s[i], s[i])
        BY <1>1, <1>2, <2>5 DEF Covers
      <4> QED BY <1>0, <2>5, <4>1, <4>2, BeforeIs
    <3> QED BY <3>1, <3>2
  <2>7. ASSUME NEW k \in after PROVE k = next \/ Before(next, k)
    <3>1. PICK j \in hits : FoundAt(s[j], k) /\ (k # s[j] => RightSubtree(s, j))
      BY <2>4
    <3>2. j \in 1..(n - 1) /\ (j < i \/ j = i) /\ next \in Prefix /\ k \in keys /\ k \in Prefix
      BY <1>0, <1>3, <2>2, <2>5, <2>6
    <3>3. CASE j < i
      BY <1>7, <2>5, <2>6, <3>1, <3>2, <3>3
    <3>4. CASE j = i
      <4>1. CASE k = s[i]
        <5>1. next = s[i] \/ Len(s[i]) < Len(next)
          BY <2>5, <2>6, <3>2, SamePrefix, PrefixType
        <5> QED BY <2>6, <3>2, <4>1, <5>1, BeforeIs
      <4>2. CASE k # s[i]
        <5> DEFINE p == s[i]
                   c == Child(p, 1)
        <5>1. RightSubtree(s, i) /\ next = Leftmost(c) /\ Side(p, 1, k) /\ p \in Nodes
          BY <2>3, <2>5, <3>1, <3>4, <4>2 DEF FoundAt
        <5>2. c \in Nodes /\ Covers(c, k)
          <6> HIDE DEF p
          <6> QED BY <1>0, <3>2, <5>1, ChildType
        <5> HIDE DEF c
        <5> QED BY <3>2, <5>1, <5>2, LeftmostType
      <4> QED BY <4>1, <4>2
    <3> QED BY <3>2, <3>3, <3>4
  <2>8. next \in after
    BY <2>6
  <2> QED BY <2>7, <2>8 DEF next, s
<1> QED BY <1>8, <1>9

LEMMA PostorderWalk == TypeOK => NextInPostorder
<1> SUFFICES ASSUME TypeOK PROVE NextInPostorder
  OBVIOUS
<1> DEFINE after == IF cursor \in keys THEN {k \in keys : Before(cursor, k)} ELSE keys
           next  == trie_get_next_key(cursor)
<1>1. keys \subseteq Prefix /\ cursor \in Prefix \union {NoKey} /\ NoKey \notin keys
  BY NullAssumption DEF TypeOK
<1>2. CASE keys = {}
  BY <1>2 DEF NextInPostorder, trie_get_next_key
<1>3. CASE cursor \in keys
  <2>1. next = AfterMatch(NodeStack(cursor))
    BY <1>1, <1>3, ExactMatchIsMember DEF trie_get_next_key
  <2> HIDE DEF next
  <2>2. /\ after = {k \in keys : Before(cursor, k)}
        /\ IF after = {} THEN next = NoKey
           ELSE next \in after /\ \A k \in after : k = next \/ Before(next, k)
    BY <1>1, <1>3, <2>1, AfterMatchType
  <2> HIDE DEF after
  <2> QED BY <2>2 DEF NextInPostorder, after, next
<1>4. CASE keys # {} /\ cursor \notin keys
  <2>1. next = Leftmost(Root)
    BY <1>1, <1>4, ExactMatchIsMember DEF trie_get_next_key
  <2>2. after = keys
    BY <1>4
  <2>3. Root \in Nodes /\ \A k \in keys : Covers(Root, k)
    BY <1>1, <1>4, NodesType, RootType
  <2> HIDE DEF next, after
  <2>4. next \in keys /\ \A k \in keys : k = next \/ Before(next, k)
    BY <1>1, <2>1, <2>3, LeftmostType
  <2> QED BY <1>4, <2>2, <2>4 DEF NextInPostorder, next, after
<1> QED BY <1>2, <1>3, <1>4

-----------------------------------------------------------------------------
(* The postorder as numbers.                                                *)

\* The bits of an address, the last one in k.
Bit(k, i) == IF i <= Len(k) THEN k[i] ELSE 1

LEMMA BitType ==
  ASSUME NEW k \in Prefix, NEW i \in 1..MaxPrefixLen
  PROVE  Bit(k, i) \in {0, 1}
<1>1. i <= Len(k) => i \in 1..Len(k)
  BY PrefixType, BoundsAssumption
<1> QED BY <1>1, PrefixType DEF Bit

LEMMA LastAddressType ==
  ASSUME NEW k \in Prefix
  PROVE  /\ LastAddress(k) \in [0..MaxPrefixLen -> Nat]
         /\ LastAddress(k)[0] = 0
         /\ \A i \in 1..MaxPrefixLen : LastAddress(k)[i] = 2 * LastAddress(k)[i - 1] + Bit(k, i)
<1> DEFINE L == MaxPrefixLen
           F == [i \in 1..L |-> [x \in Nat |-> 2 * x + Bit(k, i)]]
<1>1. L \in Nat /\ F \in [1..L -> [Nat -> Nat]]
  BY BitType, BoundsAssumption
<1>2. HasRun(Nat, 0, L, F)
  <2> HIDE DEF F, L
  <2> QED BY <1>1, 0 \in Nat, Recursion, Zenon
<1>3. PICK f \in [0..L -> Nat] : \A i \in 0..L : f[i] = IF i = 0 THEN 0 ELSE 2 * f[i - 1] + Bit(k, i)
  <2>1. PICK f \in [0..L -> Nat] : f[0] = 0 /\ \A i \in 1..L : f[i] = F[i][f[i - 1]]
    BY <1>2 DEF HasRun
  <2>2. ASSUME NEW i \in 1..L PROVE f[i] = 2 * f[i - 1] + Bit(k, i)
    <3>1. f[i - 1] \in Nat
      BY <1>1
    <3>2. F[i][f[i - 1]] = 2 * f[i - 1] + Bit(k, i)
      BY <3>1
    <3> HIDE DEF F
    <3> QED BY <2>1, <3>2
  <2>3. \A i \in 0..L : i = 0 \/ i \in 1..L
    BY <1>1
  <2> HIDE DEF F, L
  <2> QED BY <2>1, <2>2, <2>3
<1> DEFINE P(g) == g = [i \in 0..L |-> IF i = 0 THEN 0 ELSE 2 * g[i - 1] + Bit(k, i)]
<1>4. P(f)
  <2> HIDE DEF F, L
  <2>1. f = [i \in 0..L |-> f[i]]
    BY <1>2
  <2> QED BY <1>3, <2>1
<1>5. LastAddress(k) = CHOOSE g : P(g)
  BY DEF LastAddress, Bit
<1>6. P(LastAddress(k))
  <2> HIDE DEF P
  <2> QED BY <1>4, <1>5
<1> DEFINE g == LastAddress(k)
<1> HIDE DEF g
<1>7. g[0] = 0 /\ \A i \in 1..L : g[i] = 2 * g[i - 1] + Bit(k, i)
  BY <1>1, <1>6 DEF g
<1>8. \A i \in 0..L : g[i] \in Nat
  <2> DEFINE S == {i \in Nat : i <= L => g[i] \in Nat}
  <2>1. 0 \in S
    BY <1>7
  <2>2. ASSUME NEW i \in Nat, i \in S PROVE i + 1 \in S
    <3> SUFFICES ASSUME i + 1 <= L PROVE g[i + 1] \in Nat
      OBVIOUS
    <3>1. i + 1 \in 1..L /\ (i + 1) - 1 = i /\ g[i] \in Nat
      BY <1>1, <2>2
    <3>2. Bit(k, i + 1) \in {0, 1} /\ g[i + 1] = 2 * g[i] + Bit(k, i + 1)
      BY <1>7, <3>1, BitType
    <3> QED BY <3>1, <3>2
  <2> HIDE DEF S
  <2>3. Nat \subseteq S
    BY <2>1, <2>2, Induct
  <2> QED BY <2>3, <1>1 DEF S
<1>9. g = [i \in 0..L |-> g[i]]
  BY <1>6 DEF g
<1> QED BY <1>7, <1>8, <1>9 DEF g

\* As long as the bits of a do not exceed those of b, the address does not.
LEMMA AddressUpTo ==
  ASSUME NEW a \in Prefix, NEW b \in Prefix, NEW m \in 0..MaxPrefixLen,
         \A i \in 1..m : Bit(a, i) <= Bit(b, i)
  PROVE  \A i \in 0..m : LastAddress(a)[i] <= LastAddress(b)[i]
<1> DEFINE x == LastAddress(a)
           y == LastAddress(b)
           S == {i \in Nat : i <= m => x[i] <= y[i]}
<1>1. /\ x \in [0..MaxPrefixLen -> Nat] /\ y \in [0..MaxPrefixLen -> Nat] /\ x[0] = 0 /\ y[0] = 0
      /\ \A i \in 1..MaxPrefixLen : x[i] = 2 * x[i - 1] + Bit(a, i)
      /\ \A i \in 1..MaxPrefixLen : y[i] = 2 * y[i - 1] + Bit(b, i)
  BY LastAddressType
<1> HIDE DEF x, y
<1>2. 0 \in S
  BY <1>1
<1>3. ASSUME NEW i \in Nat, i \in S PROVE i + 1 \in S
  <2> SUFFICES ASSUME i + 1 <= m PROVE x[i + 1] <= y[i + 1]
    OBVIOUS
  <2>1. i + 1 \in 1..m /\ i + 1 \in 1..MaxPrefixLen /\ (i + 1) - 1 = i /\ i \in 0..MaxPrefixLen /\ x[i] <= y[i]
    BY <1>3, BoundsAssumption
  <2>2. x[i + 1] = 2 * x[i] + Bit(a, i + 1) /\ y[i + 1] = 2 * y[i] + Bit(b, i + 1)
    BY <1>1, <2>1
  <2>3. Bit(a, i + 1) <= Bit(b, i + 1) /\ Bit(a, i + 1) \in {0, 1} /\ Bit(b, i + 1) \in {0, 1}
    BY <2>1, BitType
  <2>4. x[i] \in Nat /\ y[i] \in Nat
    BY <1>1, <2>1
  <2> QED BY <2>1, <2>2, <2>3, <2>4
<1>4. Nat \subseteq S
  <2> HIDE DEF S
  <2> QED BY <1>2, <1>3, Induct
<1>5. \A i \in 0..m : x[i] <= y[i]
  BY <1>4, BoundsAssumption
<1> QED BY <1>5 DEF x, y

\* Once smaller, the address stays smaller.
LEMMA AddressStaysBelow ==
  ASSUME NEW a \in Prefix, NEW b \in Prefix, NEW m \in 0..MaxPrefixLen,
         LastAddress(a)[m] < LastAddress(b)[m]
  PROVE  LastAddress(a)[MaxPrefixLen] < LastAddress(b)[MaxPrefixLen]
<1> DEFINE x == LastAddress(a)
           y == LastAddress(b)
           S == {i \in Nat : m + i <= MaxPrefixLen => x[m + i] < y[m + i]}
<1>1. /\ x \in [0..MaxPrefixLen -> Nat] /\ y \in [0..MaxPrefixLen -> Nat]
      /\ \A i \in 1..MaxPrefixLen : x[i] = 2 * x[i - 1] + Bit(a, i)
      /\ \A i \in 1..MaxPrefixLen : y[i] = 2 * y[i - 1] + Bit(b, i)
      /\ x[m] < y[m]
  BY LastAddressType
<1> HIDE DEF x, y
<1>2. 0 \in S
  BY <1>1, BoundsAssumption
<1>3. ASSUME NEW i \in Nat, i \in S PROVE i + 1 \in S
  <2> SUFFICES ASSUME m + (i + 1) <= MaxPrefixLen PROVE x[m + (i + 1)] < y[m + (i + 1)]
    OBVIOUS
  <2> DEFINE n == m + i
  <2>1. /\ n + 1 \in 1..MaxPrefixLen /\ (n + 1) - 1 = n /\ n \in 0..MaxPrefixLen /\ x[n] < y[n]
        /\ m + (i + 1) = n + 1
    BY <1>3, BoundsAssumption
  <2> HIDE DEF n
  <2>2. x[n + 1] = 2 * x[n] + Bit(a, n + 1) /\ y[n + 1] = 2 * y[n] + Bit(b, n + 1)
    BY <1>1, <2>1
  <2>3. Bit(a, n + 1) \in {0, 1} /\ Bit(b, n + 1) \in {0, 1}
    BY <2>1, BitType
  <2>4. x[n] \in Nat /\ y[n] \in Nat
    BY <1>1, <2>1
  <2> QED BY <2>1, <2>2, <2>3, <2>4
<1>4. Nat \subseteq S
  <2> HIDE DEF S
  <2> QED BY <1>2, <1>3, Induct
<1>5. MaxPrefixLen - m \in Nat /\ m + (MaxPrefixLen - m) = MaxPrefixLen
  BY BoundsAssumption
<1>6. x[MaxPrefixLen] < y[MaxPrefixLen]
  BY <1>4, <1>5
<1> QED BY <1>6 DEF x, y

LEMMA Scaled == \A a, b, w \in Nat : a < b => a * w + w <= b * w
<1> SUFFICES ASSUME NEW a \in Nat, NEW b \in Nat, NEW w \in Nat, a < b PROVE a * w + w <= b * w
  OBVIOUS
<1>1. PICK c \in Nat : b = a + 1 + c
  <2>1. b - (a + 1) \in Nat /\ b = a + 1 + (b - (a + 1))
    OBVIOUS
  <2> QED BY <2>1
<1>2. b * w = a * w + w + c * w
  BY <1>1
<1>3. c * w \in Nat /\ a * w \in Nat
  OBVIOUS
<1> QED BY <1>2, <1>3

LEMMA RankGrows ==
  ASSUME NEW j \in Prefix, NEW k \in Prefix, Before(j, k)
  PROVE  PostorderRank[j] < PostorderRank[k]
<1> DEFINE L == MaxPrefixLen
           x == LastAddress(j)[L]
           y == LastAddress(k)[L]
<1>1. L \in Nat /\ Len(j) \in 0..L /\ Len(k) \in 0..L
  BY PrefixType, BoundsAssumption
<1>2. x \in Nat /\ y \in Nat
  BY <1>1, LastAddressType
<1>3. PostorderRank[j] = x * (L + 1) + (L - Len(j)) /\ PostorderRank[k] = y * (L + 1) + (L - Len(k))
  BY DEF PostorderRank
<1>4. x < y \/ (x <= y /\ Len(k) < Len(j))
  <2>1. CASE Covers(k, j) /\ Len(k) < Len(j)
    <3>1. ASSUME NEW i \in 1..L PROVE Bit(j, i) <= Bit(k, i)
      <4>1. CASE i <= Len(k)
        <5>1. i \in 1..Len(k) /\ i <= Len(j) /\ j[i] = k[i]
          BY <1>1, <2>1, <4>1 DEF Covers
        <5>2. Bit(j, i) = Bit(k, i)
          BY <4>1, <5>1 DEF Bit
        <5> QED BY <5>2, BitType, 0 <= 0, 1 <= 1
      <4>2. CASE ~(i <= Len(k))
        <5>1. Bit(k, i) = 1
          BY <4>2 DEF Bit
        <5> QED BY <5>1, BitType, 0 <= 1, 1 <= 1
      <4> QED BY <4>1, <4>2
    <3>2. L \in 0..L
      BY <1>1
    <3>3. x <= y
      BY <3>1, <3>2, AddressUpTo
    <3> QED BY <2>1, <3>3
  <2>2. ASSUME NEW m \in Nat, LeftAt(j, k, m) PROVE x < y
    <3>1. m < Len(j) /\ m < Len(k) /\ m + 1 \in 1..L /\ m \in 0..L /\ m + 1 \in 0..L /\ (m + 1) - 1 = m
      BY <1>1, <2>2 DEF LeftAt
    <3>2. ASSUME NEW i \in 1..m PROVE Bit(j, i) <= Bit(k, i) /\ Bit(k, i) <= Bit(j, i)
      <4>1. i <= Len(j) /\ i <= Len(k) /\ j[i] = k[i] /\ i \in 1..L
        BY <1>1, <2>2, <3>1 DEF LeftAt, Parts
      <4>2. Bit(j, i) = Bit(k, i) /\ Bit(j, i) \in {0, 1}
        BY <4>1, BitType DEF Bit
      <4> QED BY <4>2, 0 <= 0, 1 <= 1
    <3> DEFINE u == LastAddress(j)
               v == LastAddress(k)
    <3>3. u[m] <= v[m] /\ v[m] <= u[m]
      <4>1. m \in 0..m
        BY <3>1
      <4> QED BY <3>1, <3>2, <4>1, AddressUpTo
    <3>4. /\ u[m] \in Nat /\ v[m] \in Nat
          /\ u[m + 1] = 2 * u[m] + Bit(j, m + 1) /\ v[m + 1] = 2 * v[m] + Bit(k, m + 1)
      BY <3>1, LastAddressType
    <3>5. Bit(j, m + 1) = 0 /\ Bit(k, m + 1) = 1
      BY <1>1, <2>2, <3>1 DEF LeftAt, Bit
    <3>6. u[m + 1] < v[m + 1]
      <4> HIDE DEF u, v
      <4> QED BY <3>3, <3>4, <3>5
    <3> QED BY <3>1, <3>6, AddressStaysBelow
  <2> QED BY <2>1, <2>2, BeforeIs
<1> HIDE DEF x, y, L
<1> DEFINE p == x * (L + 1)
           q == y * (L + 1)
<1>5. p \in Nat /\ q \in Nat
  BY <1>1, <1>2
<1>6. CASE x < y
  <2>1. L + 1 \in Nat
    BY <1>1
  <2>2. p + (L + 1) <= q
    BY <1>2, <1>6, <2>1, Scaled
  <2> HIDE DEF p, q
  <2> QED BY <1>1, <1>3, <1>5, <2>2 DEF p, q
<1>7. CASE x = y /\ Len(k) < Len(j)
  <2>1. p = q
    BY <1>7
  <2> HIDE DEF p, q
  <2> QED BY <1>1, <1>3, <1>5, <1>7, <2>1 DEF p, q
<1> QED BY <1>2, <1>4, <1>6, <1>7

LEMMA RankType ==
  /\ PostorderRank \in [Prefix -> Nat]
  /\ \A j, k \in Prefix : PostorderRank[j] < PostorderRank[k] <=> Before(j, k)
  /\ \A j, k \in Prefix : PostorderRank[j] = PostorderRank[k] => j = k
<1>1. ASSUME NEW k \in Prefix
      PROVE  LastAddress(k)[MaxPrefixLen] * (MaxPrefixLen + 1) + (MaxPrefixLen - Len(k)) \in Nat
  <2>1. LastAddress(k)[MaxPrefixLen] \in Nat /\ MaxPrefixLen \in Nat /\ MaxPrefixLen - Len(k) \in Nat
    BY LastAddressType, PrefixType, BoundsAssumption
  <2> QED BY <2>1
<1>2. PostorderRank \in [Prefix -> Nat]
  BY <1>1 DEF PostorderRank
<1>3. ASSUME NEW j \in Prefix, NEW k \in Prefix
      PROVE  /\ PostorderRank[j] < PostorderRank[k] <=> Before(j, k)
             /\ PostorderRank[j] = PostorderRank[k] => j = k
  <2>1. PostorderRank[j] \in Nat /\ PostorderRank[k] \in Nat
    BY <1>2
  <2> QED BY <2>1, RankGrows, BeforeEither
<1> QED BY <1>2, <1>3

-----------------------------------------------------------------------------
(* The walk.                                                                *)

LEMMA NextKeyType ==
  ASSUME TypeOK
  PROVE  LET after == IF cursor \in keys THEN {k \in keys : Before(cursor, k)} ELSE keys
             next  == trie_get_next_key(cursor)
         IN IF after = {} THEN next = NoKey
            ELSE next \in after /\ next # NoKey /\ \A k \in after : k = next \/ Before(next, k)
<1>1. NoKey \notin keys
  BY NullAssumption DEF TypeOK
<1> QED BY <1>1, PostorderWalk DEF NextInPostorder

LEMMA TypeInit == Init => TypeOK
<1> SUFFICES ASSUME Init PROVE TypeOK
  OBVIOUS
<1>1. keys \subseteq Prefix
  BY DEF Init
<1>2. updates \in 0..MaxUpdates
  BY BoundsAssumption DEF Init
<1> QED BY <1>1, <1>2 DEF Init, TypeOK

LEMMA TypeStep == TypeOK /\ [Next]_vars => TypeOK'
<1> SUFFICES ASSUME TypeOK, [Next]_vars PROVE TypeOK'
  OBVIOUS
<1>1. CASE GetNextKey
  <2>1. trie_get_next_key(cursor) = NoKey \/ trie_get_next_key(cursor) \in keys
    BY NextKeyType
  <2> QED BY <1>1, <2>1 DEF GetNextKey, TypeOK
<1>2. CASE NoMemory
  BY <1>2 DEF NoMemory, TypeOK
<1>3. CASE Update
  <2>1. updates' \in 0..MaxUpdates
    BY <1>3, BoundsAssumption DEF Update, TypeOK
  <2>2. keys' \subseteq Prefix /\ stable' \subseteq keys' /\ deleted' \in BOOLEAN
    BY <1>3 DEF Update, TypeOK
  <2> QED BY <1>3, <2>1, <2>2 DEF Update, TypeOK
<1>4. CASE UNCHANGED vars
  BY <1>4 DEF vars, TypeOK
<1> QED BY <1>1, <1>2, <1>3, <1>4 DEF Next

\* The walk stays among the prefixes the map can hold.
THEOREM TypeCorrect == Spec => []TypeOK
BY TypeInit, TypeStep, PTL DEF Spec

\* The function returns what the order says at every state of the walk.
THEOREM WalkIsPostorder == Spec => []NextInPostorder
BY TypeCorrect, PostorderWalk, PTL

\* node_stack has room for every search.
THEOREM StackIsLargeEnough == Spec => []StackFits
<1>1. TypeOK => StackFits
  <2> SUFFICES ASSUME TypeOK, keys # {}, cursor # NoKey PROVE Len(NodeStack(cursor)) <= StackSize
    BY DEF StackFits
  <2>1. Len(NodeStack(cursor)) \in 1..(MaxPrefixLen + 1)
    BY StackType DEF TypeOK
  <2> QED BY <2>1, BoundsAssumption DEF StackSize
<1> QED BY <1>1, TypeCorrect, PTL

LEMMA TrieStep == TypeOK /\ [Next]_vars => [Scan!Next]_vars
<1> SUFFICES ASSUME TypeOK, Next PROVE Scan!Next
  OBVIOUS
<1> DEFINE next  == trie_get_next_key(cursor)
           after == IF cursor \in keys THEN {k \in keys : Before(cursor, k)} ELSE keys
<1>0. keys \subseteq Prefix
  BY DEF TypeOK
<1>1. IF after = {} THEN next = NoKey
      ELSE next \in after /\ next # NoKey /\ \A k \in after : k = next \/ Before(next, k)
  BY NextKeyType
<1>2. after = Scan!Ahead
  BY <1>0, RankType DEF Scan!Ahead
<1>3. CASE GetNextKey
  <2>1. CASE after = {}
    <3>1. Scan!Finish
      BY <1>1, <1>2, <1>3, <2>1 DEF GetNextKey, Scan!Finish
    <3> QED BY <3>1 DEF Scan!Next
  <2>2. CASE after # {}
    <3>1. next \in after /\ next # NoKey /\ \A k \in after : k = next \/ Before(next, k)
      BY <1>1, <2>2
    <3>2. next \in Prefix /\ after \subseteq Prefix
      BY <1>0, <3>1
    <3>3. \A k \in after : PostorderRank[next] <= PostorderRank[k]
      <4> HIDE DEF next, after
      <4>1. ASSUME NEW k \in after PROVE PostorderRank[next] <= PostorderRank[k]
        <5>1. PostorderRank[next] \in Nat /\ PostorderRank[k] \in Nat
          BY <3>2, RankType
        <5>2. k = next \/ PostorderRank[next] < PostorderRank[k]
          BY <3>1, <3>2, RankType
        <5> QED BY <5>1, <5>2
      <4> QED BY <4>1
    <3>4. Scan!Visit(next)
      <4> HIDE DEF after
      <4> QED BY <1>2, <1>3, <3>1, <3>3 DEF GetNextKey, Scan!Visit
    <3> QED BY <3>2, <3>4 DEF Scan!Next
  <2> QED BY <2>1, <2>2
<1>4. CASE NoMemory
  <2>1. Scan!Fail
    BY <1>4 DEF NoMemory, Scan!Fail
  <2> QED BY <2>1 DEF Scan!Next
<1>5. CASE Update
  <2>1. PICK k \in Prefix : Scan!Insert(k) \/ Scan!Delete(k)
    BY <1>5 DEF Update, Scan!Insert, Scan!Delete
  <2> QED BY <2>1 DEF Scan!Next
<1> QED BY <1>3, <1>4, <1>5 DEF Next

\* The walk over the trie is a scan in the order PostorderRank gives.
THEOREM TrieIsOrderedScan == Spec => ScanImplemented
<1>1. Init => Scan!Init
  BY DEF Init, Scan!Init
<1> QED BY <1>1, TypeCorrect, TrieStep, PTL DEF Spec, ScanImplemented

-----------------------------------------------------------------------------
(* What a walk in any fixed order promises.                                 *)

Ordered == INSTANCE OrderedScan WITH Key <- AnyKey, Rank <- AnyRank

AnyOrder ==
  /\ NoKey \notin AnyKey
  /\ AnyRank \in [AnyKey -> Nat]
  /\ \A j, k \in AnyKey : AnyRank[j] = AnyRank[k] => j = k

\* Every key that stayed and does not come after the cursor has been returned.
Progress ==
  /\ stable \subseteq keys
  /\ cursor \in visited \union {NoKey}
  /\ cursor # NoKey => \A k \in stable : AnyRank[k] <= AnyRank[cursor] => k \in visited

\* Without a deletion the cursor is in the map and is the last key returned.
Ascending ==
  ~deleted => /\ cursor = NoKey => visited = {}
              /\ cursor # NoKey => cursor \in keys
              /\ \A k \in visited : AnyRank[k] <= AnyRank[cursor]

ScanInv == Ordered!TypeOK /\ Progress /\ Ascending /\ NeverSkips

LEMMA ScanInit == Ordered!Init => ScanInv
<1> SUFFICES ASSUME Ordered!Init PROVE ScanInv
  OBVIOUS
<1> USE DEF Ordered!Init
<1>1. Ordered!TypeOK
  BY DEF Ordered!TypeOK
<1>2. Progress /\ NeverSkips
  BY DEF Progress, NeverSkips
<1>3. Ascending
  BY DEF Ascending
<1> QED BY <1>1, <1>2, <1>3 DEF ScanInv

LEMMA VisitStep ==
  ASSUME AnyOrder
  PROVE  ScanInv /\ (\E k \in AnyKey : Ordered!Visit(k)) => ScanInv'
<1> SUFFICES ASSUME ScanInv, NEW k \in AnyKey, Ordered!Visit(k) PROVE ScanInv'
  OBVIOUS
<1> USE DEF AnyOrder, ScanInv, Ordered!Visit
<1>1. Ordered!TypeOK'
  BY DEF Ordered!TypeOK
<1>2. Progress'
  <2>1. ASSUME NEW j \in stable, AnyRank[j] <= AnyRank[k] PROVE j \in visited'
    <3>1. CASE j \in Ordered!Ahead
      BY <2>1, <3>1 DEF Ordered!Ahead, Ordered!TypeOK
    <3>2. CASE j \notin Ordered!Ahead
      <4>1. j \in keys /\ cursor \in keys /\ ~(AnyRank[cursor] < AnyRank[j])
        BY <3>2 DEF Ordered!Ahead, Progress
      <4>2. AnyRank[j] <= AnyRank[cursor] /\ cursor # NoKey
        BY <4>1 DEF Ordered!TypeOK
      <4> QED BY <4>2 DEF Progress
    <3> QED BY <3>1, <3>2
  <2> QED BY <2>1 DEF Progress
<1>3. Ascending'
  <2> SUFFICES ASSUME ~deleted PROVE k \in keys /\ \A j \in visited \union {k} : AnyRank[j] <= AnyRank[k]
    BY DEF Ascending, Ordered!TypeOK
  <2>1. k \in keys
    BY DEF Ordered!Ahead
  <2>2. CASE cursor = NoKey
    BY <2>1, <2>2 DEF Ascending, Ordered!TypeOK
  <2>3. CASE cursor # NoKey
    <3>1. AnyRank[cursor] < AnyRank[k] /\ cursor \in AnyKey
      BY <2>3 DEF Ascending, Ordered!Ahead, Ordered!TypeOK
    <3>2. ASSUME NEW j \in visited PROVE AnyRank[j] <= AnyRank[k]
      <4>1. AnyRank[j] <= AnyRank[cursor] /\ AnyRank[j] \in Nat /\ AnyRank[k] \in Nat /\ AnyRank[cursor] \in Nat
        BY <2>3, <3>1 DEF Ascending, Ordered!TypeOK
      <4> QED BY <3>1, <4>1
    <3> QED BY <2>1, <3>2
  <2> QED BY <2>2, <2>3
<1>4. NeverSkips'
  BY DEF NeverSkips
<1> QED BY <1>1, <1>2, <1>3, <1>4

LEMMA FinishStep ==
  ASSUME AnyOrder
  PROVE  ScanInv /\ (Ordered!Finish \/ Ordered!Fail) => ScanInv'
<1> SUFFICES ASSUME ScanInv, Ordered!Finish \/ Ordered!Fail PROVE ScanInv'
  OBVIOUS
<1> USE DEF AnyOrder, ScanInv
<1>1. Ordered!TypeOK' /\ Progress' /\ Ascending'
  BY DEF Ordered!Finish, Ordered!Fail, Ordered!TypeOK, Progress, Ascending
<1>2. CASE Ordered!Finish
  <2>1. ASSUME NEW k \in stable PROVE k \in visited
    <3>1. k \in keys /\ k \notin Ordered!Ahead
      BY <1>2 DEF Ordered!Finish, Progress
    <3>2. cursor \in keys /\ cursor # NoKey /\ AnyRank[k] <= AnyRank[cursor]
      BY <3>1 DEF Ordered!Ahead, Ordered!TypeOK
    <3> QED BY <3>2 DEF Progress
  <2> QED BY <1>1, <1>2, <2>1 DEF Ordered!Finish, NeverSkips
<1>3. CASE Ordered!Fail
  BY <1>1, <1>3 DEF Ordered!Fail, NeverSkips
<1> QED BY <1>2, <1>3

LEMMA UpdateStep ==
  ASSUME AnyOrder
  PROVE  ScanInv /\ (\E k \in AnyKey : Ordered!Insert(k) \/ Ordered!Delete(k)) => ScanInv'
<1> SUFFICES ASSUME ScanInv, NEW k \in AnyKey, Ordered!Insert(k) \/ Ordered!Delete(k) PROVE ScanInv'
  OBVIOUS
<1> USE DEF ScanInv
<1>1. Ordered!TypeOK'
  <2>1. keys' \subseteq AnyKey /\ stable' \subseteq AnyKey /\ updates' \in Nat
    BY DEF Ordered!Insert, Ordered!Delete, Ordered!TypeOK
  <2>2. UNCHANGED <<cursor, phase, visited>> /\ deleted' \in BOOLEAN
    BY DEF Ordered!Insert, Ordered!Delete, Ordered!TypeOK
  <2> QED BY <2>1, <2>2 DEF Ordered!TypeOK
<1>2. Progress'
  <2>1. CASE Ordered!Insert(k)
    BY <2>1 DEF Ordered!Insert, Progress
  <2>2. CASE Ordered!Delete(k)
    BY <2>2 DEF Ordered!Delete, Progress
  <2> QED BY <2>1, <2>2
<1>3. Ascending'
  <2>1. CASE Ordered!Insert(k)
    BY <2>1 DEF Ordered!Insert, Ascending
  <2>2. CASE Ordered!Delete(k)
    BY <2>2 DEF Ordered!Delete, Ascending
  <2> QED BY <2>1, <2>2
<1>4. NeverSkips'
  BY DEF Ordered!Insert, Ordered!Delete, NeverSkips
<1> QED BY <1>1, <1>2, <1>3, <1>4

LEMMA ScanStep ==
  ASSUME AnyOrder
  PROVE  ScanInv /\ [Ordered!Next]_(Ordered!vars) => ScanInv'
<1>1. ScanInv /\ UNCHANGED Ordered!vars => ScanInv'
  BY DEF ScanInv, Ordered!vars, Ordered!TypeOK, Progress, Ascending, NeverSkips
<1> QED BY <1>1, VisitStep, FinishStep, UpdateStep DEF Ordered!Next

\* No update between the calls makes the walk miss a key that was there all
\* the time.
THEOREM ScanIsComplete ==
  ASSUME AnyOrder
  PROVE  Ordered!Spec => []NeverSkips
<1>1. ScanInv => NeverSkips
  BY DEF ScanInv
<1> QED BY <1>1, ScanInit, ScanStep, PTL DEF Ordered!Spec

\* Insertions alone never make it return a key twice.
THEOREM ScanIsStrict ==
  ASSUME AnyOrder
  PROVE  Ordered!Spec => NoRepeats
<1>1. ScanInv /\ [Ordered!Next]_(Ordered!vars) => [~deleted => cursor' \notin visited]_cursor
  <2> SUFFICES ASSUME ScanInv, Ordered!Next, cursor' # cursor, ~deleted PROVE cursor' \notin visited
    BY DEF Ordered!vars
  <2>1. PICK k \in AnyKey : Ordered!Visit(k)
    BY DEF Ordered!Next, Ordered!Insert, Ordered!Delete, Ordered!Finish, Ordered!Fail
  <2>2. CASE cursor = NoKey
    BY <2>1, <2>2 DEF ScanInv, Ascending
  <2>3. CASE cursor # NoKey
    <3>1. AnyRank[cursor] < AnyRank[k] /\ cursor' = k
      BY <2>1, <2>3 DEF ScanInv, Ascending, Ordered!Visit, Ordered!Ahead
    <3>2. AnyRank[cursor] \in Nat /\ AnyRank[k] \in Nat
      BY <2>3 DEF AnyOrder, ScanInv, Ordered!TypeOK
    <3> QED BY <3>1, <3>2 DEF ScanInv, Ascending
  <2> QED BY <2>2, <2>3
<1> QED BY <1>1, ScanInit, ScanStep, PTL DEF Ordered!Spec, NoRepeats

\* With the keys and the order of the trie, which AnyKey and AnyRank may be, the
\* walk over the trie misses no key that was there all the time, and without a
\* deletion it returns none twice.
THEOREM TrieWalkIsComplete ==
  ASSUME AnyKey = Prefix, AnyRank = PostorderRank
  PROVE  Spec => []NeverSkips /\ NoRepeats
<1>1. AnyOrder
  BY RankType, NullAssumption DEF AnyOrder
<1>2. Scan!Init => Ordered!Init
  BY DEF Scan!Init, Ordered!Init
<1>3. [Scan!Next]_vars => [Ordered!Next]_(Ordered!vars)
  <2>1. ASSUME NEW k \in Prefix, Scan!Visit(k) \/ Scan!Insert(k) \/ Scan!Delete(k)
        PROVE  Ordered!Visit(k) \/ Ordered!Insert(k) \/ Ordered!Delete(k)
    BY <2>1 DEF Scan!Visit, Ordered!Visit, Scan!Ahead, Ordered!Ahead, Scan!Insert, Ordered!Insert,
           Scan!Delete, Ordered!Delete
  <2>2. Scan!Finish \/ Scan!Fail => Ordered!Finish \/ Ordered!Fail
    BY DEF Scan!Finish, Ordered!Finish, Scan!Ahead, Ordered!Ahead, Scan!Fail, Ordered!Fail
  <2>3. Scan!Next => Ordered!Next
    <3> SUFFICES ASSUME Scan!Next PROVE Ordered!Next
      OBVIOUS
    <3>1. CASE Scan!Finish \/ Scan!Fail
      BY <2>2, <3>1 DEF Ordered!Next
    <3>2. CASE ~(Scan!Finish \/ Scan!Fail)
      <4>1. PICK k \in Prefix : Scan!Visit(k) \/ Scan!Insert(k) \/ Scan!Delete(k)
        BY <3>2 DEF Scan!Next
      <4>2. k \in AnyKey /\ (Ordered!Visit(k) \/ Ordered!Insert(k) \/ Ordered!Delete(k))
        BY <2>1, <4>1
      <4> QED BY <4>2 DEF Ordered!Next
    <3> QED BY <3>1, <3>2
  <2>4. UNCHANGED vars => UNCHANGED Ordered!vars
    BY DEF vars, Ordered!vars
  <2> QED BY <2>3, <2>4
<1>4. Spec => Ordered!Spec
  BY <1>2, <1>3, TrieIsOrderedScan, PTL DEF ScanImplemented, Ordered!Spec
<1> QED BY <1>1, <1>4, ScanIsComplete, ScanIsStrict, PTL

=============================================================================
