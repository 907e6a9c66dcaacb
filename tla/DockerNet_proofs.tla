--------------------------- MODULE DockerNet_proofs ---------------------------
(* Proofs about DockerNet, for any number of runs, uplinks and upsets.      *)
EXTENDS DockerNet, TLAPS

USE BoundsAssumption

-----------------------------------------------------------------------------
(* The lists.                                                               *)

LEMMA WithoutType ==
  ASSUME NEW S, NEW s \in Seq(S), NEW e
  PROVE  Without(s, e) \in Seq(S)
<1>1. CASE e \notin In(s)
  BY <1>1 DEF Without
<1>2. CASE e \in In(s)
  <2>1. Len(s) - 1 \in Nat
    BY <1>2 DEF In
  <2>2. \A i \in 1..(Len(s) - 1) : s[i] \in S /\ s[i + 1] \in S
    OBVIOUS
  <2> DEFINE w == [i \in 1..(Len(s) - 1) |-> IF \E j \in 1..i : s[j] = e THEN s[i + 1] ELSE s[i]]
  <2>3. w \in [1..(Len(s) - 1) -> S]
    BY <2>2
  <2>4. w \in Seq(S)
    BY <2>1, <2>3
  <2> QED
    BY <1>2, <2>4 DEF Without
<1> QED
  BY <1>1, <1>2

LEMMA InsertedType ==
  ASSUME NEW S, NEW s \in Seq(S), NEW e \in S, NEW n \in Nat \ {0}
  PROVE  InsertedAt(s, n, e) \in Seq(S)
<1>1. CASE n > Len(s) + 1
  BY <1>1 DEF InsertedAt
<1>2. CASE ~(n > Len(s) + 1)
  <2>1. SubSeq(s, 1, n - 1) \in Seq(S) /\ SubSeq(s, n, Len(s)) \in Seq(S)
    BY <1>2
  <2>2. InsertedAt(s, n, e) = SubSeq(s, 1, n - 1) \o <<e>> \o SubSeq(s, n, Len(s))
    BY <1>2 DEF InsertedAt
  <2>3. <<e>> \in Seq(S)
    OBVIOUS
  <2> QED
    BY <2>1, <2>2, <2>3
<1> QED
  BY <1>1, <1>2

LEMMA PoppedType ==
  ASSUME root \in Seq(Uplinks)
  PROVE  Popped \in Seq(Uplinks)
  BY DEF Popped

LEMMA Appended ==
  ASSUME NEW S, NEW s \in Seq(S), NEW e \in S
  PROVE  In(Append(s, e)) = In(s) \union {e}
<1>1. /\ Len(Append(s, e)) = Len(s) + 1 /\ Append(s, e)[Len(s) + 1] = e
      /\ \A i \in 1..Len(s) : Append(s, e)[i] = s[i]
  OBVIOUS
<1>2. 1..(Len(s) + 1) = (1..Len(s)) \union {Len(s) + 1}
  OBVIOUS
<1> QED
  BY <1>1, <1>2 DEF In

-----------------------------------------------------------------------------
(* The types.                                                               *)

LEMMA Bare == /\ << >> \in Seq(Uplinks) /\ <<"tether">> \in Seq(Jumps \union {"tether"})
              /\ "src" \in Jumps \union {"tether"} /\ "dst" \in Jumps \union {"tether"}
  BY DEF Jumps

LEMMA InitType == Init => TypeOK
<1> SUFFICES ASSUME Init PROVE TypeOK
  OBVIOUS
<1>1. egress \subseteq Uplinks /\ return \in BOOLEAN /\ root \in Seq(Uplinks)
  BY Bare DEF Init
<1>2. forward \in Seq(Jumps \union {"tether"}) /\ live \subseteq Uplinks /\ named \subseteq Uplinks
  BY Bare DEF Init
<1>3. pc \in [Runs -> Ended \union Commands] /\ left \in [Runs -> SUBSET Uplinks]
  BY DEF Init, Ended
<1>4. calm \in [Runs -> BOOLEAN] /\ smooth \in [Runs -> BOOLEAN]
  BY DEF Init
<1> QED
  BY <1>1, <1>2, <1>3, <1>4 DEF Init, TypeOK

LEMMA StartedType ==
  ASSUME TypeOK, NEW r \in Runs, Started(r)
  PROVE  /\ starts' \in 0..MaxStarts
         /\ calm' \in [Runs -> BOOLEAN] /\ smooth' \in [Runs -> BOOLEAN]
         /\ UNCHANGED <<egress, return, root, forward, live, named, upsets>>
  BY DEF Started, TypeOK, rules, netd

LEMMA IptablesType ==
  ASSUME TypeOK, NEW r \in Runs, NEW now, NEW next \in Ended \union Commands,
         NEW chain \in Seq(Jumps \union {"tether"}), Iptables(r, now, next, chain)
  PROVE  TypeOK'
  BY DEF Iptables, Goes, TypeOK, rules, netd, own

LEMMA UpsetType ==
  ASSUME TypeOK, Upset
  PROVE  /\ upsets' \in 0..MaxUpsets
         /\ calm' = [r \in Runs |-> FALSE] /\ calm' \in [Runs -> BOOLEAN]
         /\ UNCHANGED <<uplink, left, starts>>
  BY DEF Upset, TypeOK

LEMMA NextType == TypeOK /\ [Next]_vars => TypeOK'
<1> SUFFICES ASSUME TypeOK, [Next]_vars PROVE TypeOK'
  OBVIOUS
<1>1. ASSUME NEW r \in Runs, StartNet(r) PROVE TypeOK'
  BY <1>1, StartedType DEF StartNet, TypeOK, Commands
<1>2. ASSUME NEW r \in Runs, DelEgress(r) PROVE TypeOK'
  BY <1>2 DEF DelEgress, NotOf, Goes, TypeOK, Commands, netd, own, seen
<1>3. ASSUME NEW r \in Runs, AddEgress(r) PROVE TypeOK'
  BY <1>3 DEF AddEgress, Goes, TypeOK, Commands, netd, own, seen
<1>4. ASSUME NEW r \in Runs, DelReturn(r) PROVE TypeOK'
  BY <1>4 DEF DelReturn, Goes, TypeOK, Commands, netd, own, seen
<1>5. ASSUME NEW r \in Runs, AddReturn(r) PROVE TypeOK'
  BY <1>5 DEF AddReturn, Goes, TypeOK, Commands, Filtering, netd, own, seen
<1>6. ASSUME NEW r \in Runs, DropSrc(r) PROVE TypeOK'
  <2>1. Without(forward, "src") \in Seq(Jumps \union {"tether"})
    BY WithoutType DEF TypeOK
  <2> QED
    BY <1>6, <2>1, IptablesType DEF DropSrc, Commands, Filtering
<1>7. ASSUME NEW r \in Runs, DropDst(r) PROVE TypeOK'
  <2>1. Without(forward, "dst") \in Seq(Jumps \union {"tether"})
    BY WithoutType DEF TypeOK
  <2> QED
    BY <1>7, <2>1, IptablesType DEF DropDst, Commands, Filtering
<1>8. ASSUME NEW r \in Runs, JumpSrc(r) PROVE TypeOK'
  <2>1. InsertedAt(forward, 1, "src") \in Seq(Jumps \union {"tether"})
    BY InsertedType, Bare, 1 \in Nat \ {0} DEF TypeOK
  <2> QED
    BY <1>8, <2>1, IptablesType DEF JumpSrc, Commands, Filtering
<1>9. ASSUME NEW r \in Runs, JumpDst(r) PROVE TypeOK'
  <2>1. Second \in Seq(Jumps \union {"tether"})
    BY InsertedType, Bare, 2 \in Nat \ {0} DEF TypeOK, Second
  <2> QED
    BY <1>9, <2>1, IptablesType DEF JumpDst, Ended
<1>10. ASSUME NEW r \in Runs, StartRoute(r) PROVE TypeOK'
  BY <1>10, StartedType DEF StartRoute, DefaultTables, TypeOK, Commands, Ended
<1>11. ASSUME NEW r \in Runs, Pop(r) PROVE TypeOK'
  BY <1>11, PoppedType DEF Pop, Goes, TypeOK, Commands, netd, own, seen
<1>12. ASSUME NEW r \in Runs, AddRoot(r) PROVE TypeOK'
  <2>1. PICK t \in left[r] :
          \/ /\ root' = Append(root, t) /\ pc' = [pc EXCEPT ![r] = "routed"] /\ UNCHANGED left
          \/ /\ left' = [left EXCEPT ![r] = @ \ {t}] /\ UNCHANGED root
             /\ pc' = [pc EXCEPT ![r] = IF left[r] = {t} THEN "routed" ELSE "pop"]
    BY <1>12 DEF AddRoot
  <2>2. t \in Uplinks
    BY <2>1 DEF TypeOK
  <2>3. root' \in Seq(Uplinks) /\ left' \in [Runs -> SUBSET Uplinks]
        /\ pc' \in [Runs -> Ended \union Commands]
    <3>1. CASE /\ root' = Append(root, t) /\ pc' = [pc EXCEPT ![r] = "routed"]
               /\ UNCHANGED left
      <4>1. root' \in Seq(Uplinks)
        BY <2>2, <3>1 DEF TypeOK
      <4> QED
        BY <3>1, <4>1 DEF TypeOK, Ended
    <3>2. CASE /\ left' = [left EXCEPT ![r] = @ \ {t}] /\ UNCHANGED root
               /\ pc' = [pc EXCEPT ![r] = IF left[r] = {t} THEN "routed" ELSE "pop"]
      <4>1. left[r] \ {t} \in SUBSET Uplinks
        BY DEF TypeOK
      <4> QED
        BY <2>1, <2>2, <3>2, <4>1 DEF TypeOK, Commands, Ended
    <3> QED
      BY <2>1, <3>1, <3>2
  <2> QED
    BY <1>12, <2>3 DEF AddRoot, TypeOK, netd, seen
<1>13. ASSUME NEW r \in Runs, Interrupt(r) PROVE TypeOK'
  BY <1>13, UpsetType DEF Interrupt, TypeOK, Ended, rules, netd
<1>14. ASSUME NetdRewrites PROVE TypeOK'
  BY <1>14, UpsetType, Bare DEF NetdRewrites, TypeOK
<1>15. ASSUME DaemonStop PROVE TypeOK'
  BY <1>15, UpsetType, PoppedType DEF DaemonStop, TypeOK, netd
<1>16. ASSUME Reboot PROVE TypeOK'
  BY <1>16, UpsetType, Bare DEF Reboot, TypeOK, Ended
<1>17. ASSUME NEW r \in Runs, DeployRoute(r) PROVE TypeOK'
  BY <1>17, StartedType DEF DeployRoute, own, TypeOK, Ended
<1>18. ASSUME UNCHANGED vars PROVE TypeOK'
  BY <1>18 DEF vars, rules, netd, own, seen, TypeOK
<1> QED
  BY <1>1, <1>2, <1>3, <1>4, <1>5, <1>6, <1>7, <1>8, <1>9, <1>10, <1>11, <1>12, <1>13,
     <1>14, <1>15, <1>16, <1>17, <1>18 DEF Next

\* Every variable keeps its type.
THEOREM TypeCorrect == Spec => []TypeOK
  BY InitType, NextType, PTL DEF Spec

-----------------------------------------------------------------------------
(* The rules.  What a run has added can be missing only while another run  *)
(* is between its del and its add of the same rule.                        *)

PastReturn == Filtering \union {"applied"}
PastEgress == PastReturn \union {"del_return", "add_return"}

EgressInv ==
  \A r \in Runs : calm[r] /\ pc[r] \in PastEgress /\ uplink[r] \in named =>
    \/ uplink[r] \in egress
    \/ \E q \in Runs : pc[q] = "add_egress" /\ uplink[q] = uplink[r]

ReturnInv ==
  \A r \in Runs : calm[r] /\ pc[r] \in PastReturn =>
    return \/ \E q \in Runs : pc[q] = "add_return"

\* A run that is calm is among calm ones, whose uplinks are still there.
CalmInv ==
  /\ \A r, q \in Runs : calm[r] /\ pc[q] \notin Ended => calm[q]
  /\ \A r \in Runs : calm[r] /\ pc[r] \in {"pop", "add_root"} =>
       left[r] \subseteq live /\ left[r] # {}

RootInv ==
  \A r \in Runs : calm[r] /\ pc[r] = "routed" /\ live # {} =>
    \/ live \intersect In(root) # {}
    \/ \E q \in Runs : pc[q] = "add_root"

RulesInv == EgressInv /\ ReturnInv /\ CalmInv /\ RootInv
IInv == TypeOK /\ RulesInv

\* A command of docker-net.sh leaves what the other scripts need.
LEMMA NetStep ==
  ASSUME IInv, NEW r \in Runs, UNCHANGED <<root, live, left, calm>>,
         NEW next \in PastEgress \union {"del_egress", "add_egress"},
         pc[r] \in PastEgress \union {"del_egress", "add_egress"}, pc[r] # "applied",
         pc' = [pc EXCEPT ![r] = next]
  PROVE  CalmInv' /\ RootInv'
  BY DEF IInv, RulesInv, CalmInv, RootInv, TypeOK, PastEgress, PastReturn, Filtering, Ended, In

LEMMA Started2 ==
  ASSUME IInv, NEW r \in Runs, Started(r)
  PROVE  /\ pc[r] \in Ended /\ UNCHANGED <<egress, return, root, live, named>>
         /\ calm' \in [Runs -> BOOLEAN]
         /\ \A q \in Runs : q # r => calm'[q] = calm[q]
         /\ calm'[r] <=> \A q \in Runs : pc[q] \in Ended \/ calm[q]
<1>1. calm' = [calm EXCEPT ![r] = \A q \in Runs : pc[q] \in Ended \/ calm[q]]
  BY DEF Started
<1>2. pc[r] \in Ended /\ UNCHANGED <<egress, return, root, live, named>>
  BY DEF Started, rules, netd
<1> DEFINE b == \A q \in Runs : pc[q] \in Ended \/ calm[q]
<1>3. calm \in [Runs -> BOOLEAN] /\ b \in BOOLEAN
  BY DEF IInv, TypeOK
<1>4. calm' = [calm EXCEPT ![r] = b]
  BY <1>1
<1> HIDE DEF b
<1>5. calm' \in [Runs -> BOOLEAN] /\ (\A q \in Runs : q # r => calm'[q] = calm[q]) /\ calm'[r] = b
  BY <1>3, <1>4
<1> QED
  BY <1>2, <1>5 DEF b

\* What netd, a reboot or an interruption does to the rules is for the next run.
LEMMA NobodyCalm ==
  ASSUME \A r \in Runs : ~calm'[r]
  PROVE  RulesInv'
  BY DEF RulesInv, EgressInv, ReturnInv, CalmInv, RootInv

\* A run that starts, and has nothing of the rules yet, leaves those of the others.
LEMMA StartedRules ==
  ASSUME IInv, NEW r \in Runs, Started(r), NEW next \in {"del_egress", "deployed"},
         pc' = [pc EXCEPT ![r] = next], UNCHANGED left,
         \A q \in Runs : q # r => uplink'[q] = uplink[q]
  PROVE  RulesInv'
<1>1. /\ pc[r] \in Ended /\ pc'[r] = next
      /\ \A q \in Runs : q # r => pc'[q] = pc[q] /\ calm'[q] = calm[q]
      /\ UNCHANGED <<egress, return, root, live, named>>
  BY Started2 DEF IInv, TypeOK
<1>2. calm'[r] => \A q \in Runs : pc[q] \in Ended \/ calm[q]
  BY Started2
<1>3. EgressInv /\ ReturnInv /\ CalmInv /\ RootInv
  BY DEF IInv, RulesInv
<1>4. pc[r] \notin {"add_egress", "add_return", "add_root"}
  BY <1>1 DEF Ended
<1>5. EgressInv'
  <2> SUFFICES ASSUME NEW q \in Runs, calm'[q], pc'[q] \in PastEgress, uplink'[q] \in named
               PROVE  \/ uplink'[q] \in egress
                      \/ \E p \in Runs : pc'[p] = "add_egress" /\ uplink'[p] = uplink'[q]
    BY <1>1 DEF EgressInv
  <2>1. q # r
    BY <1>1 DEF PastEgress, PastReturn, Filtering
  <2> QED
    BY <1>1, <1>3, <1>4, <2>1 DEF EgressInv
<1>6. ReturnInv'
  <2> SUFFICES ASSUME NEW q \in Runs, calm'[q], pc'[q] \in PastReturn
               PROVE  return \/ \E p \in Runs : pc'[p] = "add_return"
    BY <1>1 DEF ReturnInv
  <2>1. q # r
    BY <1>1 DEF PastReturn, Filtering
  <2> QED
    BY <1>1, <1>3, <1>4, <2>1 DEF ReturnInv
<1>7. CalmInv'
  <2>1. ASSUME NEW p \in Runs, NEW q \in Runs, calm'[p], pc'[q] \notin Ended, q # r
        PROVE  calm'[q]
    BY <1>1, <1>2, <1>3, <2>1 DEF CalmInv
  <2>2. ASSUME NEW p \in Runs, calm'[p], pc'[r] \notin Ended
        PROVE  calm'[r]
    BY <1>1, <1>3, <2>2, Started2 DEF CalmInv
  <2>3. ASSUME NEW p \in Runs, calm'[p], pc'[p] \in {"pop", "add_root"}
        PROVE  left[p] \subseteq live /\ left[p] # {}
    BY <1>1, <1>3, <2>3 DEF CalmInv
  <2> QED
    BY <1>1, <2>1, <2>2, <2>3 DEF CalmInv
<1>8. RootInv'
  <2> SUFFICES ASSUME NEW q \in Runs, calm'[q], pc'[q] = "routed", live # {}
               PROVE  \/ live \intersect In(root) # {}
                      \/ \E p \in Runs : pc'[p] = "add_root"
    BY <1>1 DEF RootInv, In
  <2>1. q # r
    BY <1>1
  <2> QED
    BY <1>1, <1>3, <1>4, <2>1 DEF RootInv
<1> QED
  BY <1>5, <1>6, <1>7, <1>8 DEF RulesInv

LEMMA Inductive == Spec => []IInv
<1>1. Init => IInv
  BY InitType DEF Init, IInv, RulesInv, EgressInv, ReturnInv, CalmInv, RootInv
<1>2. IInv /\ [Next]_vars => IInv'
  <2> SUFFICES ASSUME IInv, [Next]_vars PROVE RulesInv'
    BY NextType DEF IInv
  <2>0. TypeOK /\ TypeOK' /\ EgressInv /\ ReturnInv /\ CalmInv /\ RootInv
    BY NextType DEF IInv, RulesInv
  <2>1. ASSUME NEW r \in Runs, StartNet(r) PROVE RulesInv'
    <3>1. PICK u \in Uplinks : uplink' = [uplink EXCEPT ![r] = u]
      BY <2>1 DEF StartNet
    <3>2. pc' = [pc EXCEPT ![r] = "del_egress"] /\ UNCHANGED left /\ Started(r)
      BY <2>1 DEF StartNet
    <3>3. \A q \in Runs : q # r => uplink'[q] = uplink[q]
      BY <2>0, <3>1 DEF TypeOK
    <3> QED
      BY <3>2, <3>3, StartedRules
  <2>2. ASSUME NEW r \in Runs, DelEgress(r) PROVE RulesInv'
    <3>1. /\ pc[r] = "del_egress" /\ pc' = [pc EXCEPT ![r] = "add_egress"]
          /\ \A u \in egress : u # uplink[r] => u \in egress'
          /\ UNCHANGED <<return, root, live, named, uplink, left, calm>>
      BY <2>2 DEF DelEgress, NotOf, Goes, netd, own, seen
    <3>2. EgressInv'
      BY <2>0, <3>1 DEF EgressInv, TypeOK, PastEgress, PastReturn, Filtering
    <3>3. ReturnInv'
      BY <2>0, <3>1 DEF ReturnInv, TypeOK, PastReturn, Filtering
    <3> QED
      BY <3>1, <3>2, <3>3, NetStep DEF RulesInv
  <2>3. ASSUME NEW r \in Runs, AddEgress(r) PROVE RulesInv'
    <3>1. /\ pc[r] = "add_egress" /\ pc' = [pc EXCEPT ![r] = "del_return"]
          /\ egress \subseteq egress' /\ (uplink[r] \in named => uplink[r] \in egress')
          /\ UNCHANGED <<return, root, live, named, uplink, left, calm>>
      BY <2>3 DEF AddEgress, Goes, netd, own, seen
    <3>2. EgressInv'
      BY <2>0, <3>1 DEF EgressInv, TypeOK, PastEgress, PastReturn, Filtering
    <3>3. ReturnInv'
      BY <2>0, <3>1 DEF ReturnInv, TypeOK, PastReturn, Filtering
    <3> QED
      BY <3>1, <3>2, <3>3, NetStep DEF RulesInv, PastEgress
  <2>4. ASSUME NEW r \in Runs, DelReturn(r) PROVE RulesInv'
    <3>1. /\ pc[r] = "del_return" /\ pc' = [pc EXCEPT ![r] = "add_return"]
          /\ UNCHANGED <<egress, root, live, named, uplink, left, calm>>
      BY <2>4 DEF DelReturn, Goes, netd, own, seen
    <3>2. EgressInv'
      BY <2>0, <3>1 DEF EgressInv, TypeOK, PastEgress, PastReturn, Filtering
    <3>3. ReturnInv'
      BY <2>0, <3>1 DEF ReturnInv, TypeOK
    <3> QED
      BY <3>1, <3>2, <3>3, NetStep DEF RulesInv, PastEgress
  <2>5. ASSUME NEW r \in Runs, AddReturn(r) PROVE RulesInv'
    <3>1. /\ pc[r] = "add_return" /\ pc' = [pc EXCEPT ![r] = "drop_src"] /\ return' = TRUE
          /\ UNCHANGED <<egress, root, live, named, uplink, left, calm>>
      BY <2>5 DEF AddReturn, Goes, netd, own, seen
    <3>2. EgressInv'
      BY <2>0, <3>1 DEF EgressInv, TypeOK, PastEgress, PastReturn, Filtering
    <3>3. ReturnInv'
      BY <3>1 DEF ReturnInv
    <3> QED
      BY <3>1, <3>2, <3>3, NetStep DEF RulesInv, PastEgress, PastReturn, Filtering
  <2>6. ASSUME NEW r \in Runs, NEW now \in Filtering, NEW next \in PastReturn, NEW chain,
               Iptables(r, now, next, chain)
        PROVE  RulesInv'
    <3>1. /\ pc[r] = now /\ pc' = [pc EXCEPT ![r] = next]
          /\ UNCHANGED <<egress, return, root, live, named, uplink, left, calm>>
      BY <2>6 DEF Iptables, Goes, rules, netd, own
    <3>2. EgressInv'
      BY <2>0, <3>1 DEF EgressInv, TypeOK, PastEgress, PastReturn, Filtering
    <3>3. ReturnInv'
      BY <2>0, <3>1 DEF ReturnInv, TypeOK, PastReturn, Filtering
    <3> QED
      BY <3>1, <3>2, <3>3, NetStep DEF RulesInv, PastEgress, PastReturn, Filtering
  <2>7. ASSUME NEW r \in Runs, DropSrc(r) \/ DropDst(r) \/ JumpSrc(r) \/ JumpDst(r)
        PROVE  RulesInv'
    BY <2>6, <2>7 DEF DropSrc, DropDst, JumpSrc, JumpDst, Filtering, PastReturn
  <2>8. ASSUME NEW r \in Runs, StartRoute(r) PROVE RulesInv'
    <3>1. /\ left' = [left EXCEPT ![r] = live] /\ UNCHANGED uplink /\ Started(r)
          /\ pc' = [pc EXCEPT ![r] = IF live = {} THEN "routed" ELSE "pop"]
      BY <2>8 DEF StartRoute, DefaultTables
    <3>2. EgressInv'
      <4>1. \A q \in Runs : q # r => pc'[q] = pc[q] /\ calm'[q] = calm[q]
        BY <2>0, <3>1, Started2 DEF TypeOK
      <4>2. /\ pc'[r] \in {"routed", "pop"} /\ pc[r] # "add_egress"
            /\ UNCHANGED <<egress, named, uplink>>
        BY <2>0, <3>1, Started2 DEF TypeOK, Ended
      <4> QED
        BY <2>0, <4>1, <4>2 DEF EgressInv, PastEgress, PastReturn, Filtering
    <3>3. ReturnInv'
      BY <2>0, <3>1, Started2 DEF ReturnInv, TypeOK, Ended, PastReturn, Filtering
    <3>4. CalmInv'
      BY <2>0, <3>1, Started2 DEF CalmInv, TypeOK, Ended
    <3>5. RootInv'
      BY <2>0, <3>1, Started2 DEF RootInv, TypeOK, Ended, In
    <3> QED
      BY <3>2, <3>3, <3>4, <3>5 DEF RulesInv
  <2>9. ASSUME NEW r \in Runs, Pop(r) PROVE RulesInv'
    <3>1. /\ pc[r] = "pop" /\ pc' = [pc EXCEPT ![r] = "add_root"]
          /\ UNCHANGED <<egress, return, live, named, uplink, left, calm>>
      BY <2>9 DEF Pop, Goes, netd, own, seen
    <3>2. EgressInv' /\ ReturnInv'
      BY <2>0, <3>1 DEF EgressInv, ReturnInv, TypeOK, PastEgress, PastReturn, Filtering
    <3>3. CalmInv' /\ RootInv'
      BY <2>0, <3>1 DEF CalmInv, RootInv, TypeOK, Ended
    <3> QED
      BY <3>2, <3>3 DEF RulesInv
  <2>10. ASSUME NEW r \in Runs, AddRoot(r) PROVE RulesInv'
    <3>1. /\ pc[r] = "add_root"
          /\ UNCHANGED <<egress, return, live, named, uplink, calm>>
      BY <2>10 DEF AddRoot, netd, seen
    <3>2. PICK t \in left[r] :
            \/ /\ root' = Append(root, t) /\ pc' = [pc EXCEPT ![r] = "routed"]
               /\ UNCHANGED left
            \/ /\ t \in In(root) /\ left' = [left EXCEPT ![r] = @ \ {t}] /\ UNCHANGED root
               /\ pc' = [pc EXCEPT ![r] = IF left[r] = {t} THEN "routed" ELSE "pop"]
      BY <2>10 DEF AddRoot
    <3>3. t \in In(root')
      <4>1. root \in Seq(Uplinks) /\ t \in Uplinks
        BY <2>0, <3>2 DEF TypeOK
      <4>2. In(Append(root, t)) = In(root) \union {t}
        BY <4>1, Appended
      <4>3. CASE root' = Append(root, t)
        BY <4>2, <4>3
      <4>4. CASE t \in In(root) /\ UNCHANGED root
        BY <4>4 DEF In
      <4> QED
        BY <3>2, <4>3, <4>4
    <3>4. pc' \in [Runs -> Ended \union Commands] /\ pc'[r] \in {"routed", "pop"}
          /\ \A q \in Runs : q # r => pc'[q] = pc[q] /\ left'[q] = left[q]
      BY <2>0, <3>2 DEF TypeOK
    <3>5. pc'[r] = "pop" => left'[r] \subseteq left[r] /\ left'[r] # {}
      BY <2>0, <3>2 DEF TypeOK
    <3>6. EgressInv' /\ ReturnInv'
      BY <2>0, <3>1, <3>4 DEF EgressInv, ReturnInv, PastEgress, PastReturn, Filtering
    <3>7. CalmInv'
      BY <2>0, <3>1, <3>4, <3>5 DEF CalmInv, Ended
    <3>8. RootInv'
      <4> SUFFICES ASSUME NEW q \in Runs, calm[q] PROVE live \intersect In(root') # {}
        BY <3>1 DEF RootInv
      <4>1. t \in live
        BY <2>0, <3>1, <3>2 DEF CalmInv, Ended
      <4> QED
        BY <3>3, <4>1
    <3> QED
      BY <3>6, <3>7, <3>8 DEF RulesInv
  <2>11. ASSUME Upset PROVE RulesInv'
    BY <2>0, <2>11, UpsetType, NobodyCalm
  <2>12. ASSUME NEW r \in Runs, DeployRoute(r) PROVE RulesInv'
    BY <2>12, StartedRules DEF DeployRoute, own
  <2>13. ASSUME UNCHANGED vars PROVE RulesInv'
    BY <2>0, <2>13 DEF vars, rules, netd, own, seen, RulesInv, EgressInv, ReturnInv, CalmInv,
                       RootInv, In
  <2> QED
    BY <2>1, <2>2, <2>3, <2>4, <2>5, <2>7, <2>8, <2>9, <2>10, <2>11, <2>12, <2>13
    DEF Next, Interrupt, NetdRewrites, DaemonStop, Reboot
<1> QED
  BY <1>1, <1>2, PTL DEF Spec

\* When the last of overlapping runs is through, the rules of each are there, for any
\* number of runs and uplinks.
THEOREM RulesSurvive == Spec => []RulesSurviveOverlap
<1>1. IInv => RulesSurviveOverlap
  BY DEF IInv, RulesInv, EgressInv, ReturnInv, RootInv, RulesSurviveOverlap, AllEnded, Ended,
         PastEgress, PastReturn, TypeOK
<1> QED
  BY <1>1, Inductive, PTL

-----------------------------------------------------------------------------
(* The chain FORWARD.  Every run takes away one jump of each kind, the first, *)
(* and puts in another; the second one it puts in is behind whatever is first. *)

\* e is in the chain, in front of the DROP.
Front(s, e) == \E i \in 1..Len(s) : s[i] = e /\ \A j \in 1..i : s[j] # "tether"

Chain == Seq(Jumps \union {"tether"})

LEMMA Joined ==
  ASSUME NEW S, NEW c \in Seq(S), NEW b \in Seq(S)
  PROVE  Len(c \o b) = Len(c) + Len(b) /\ \A i \in 1..Len(c) : (c \o b)[i] = c[i]
  OBVIOUS

LEMMA Inserted ==
  ASSUME NEW s \in Chain, NEW e \in Jumps, NEW n \in 1..(Len(s) + 1)
  PROVE  LET t == InsertedAt(s, n, e)
         IN /\ Len(t) = Len(s) + 1 /\ t[n] = e
            /\ \A i \in 1..(n - 1) : t[i] = s[i]
            /\ \A i \in (n + 1)..(Len(s) + 1) : t[i] = s[i - 1]
<1> DEFINE a == SubSeq(s, 1, n - 1)
           b == SubSeq(s, n, Len(s))
<1>1. Len(s) \in Nat /\ ~(n > Len(s) + 1)
  OBVIOUS
<1>2. a \in Chain /\ Len(a) = n - 1 /\ \A i \in 1..(n - 1) : a[i] = s[i]
  BY DEF Chain
<1>3. b \in Chain /\ Len(b) = Len(s) - n + 1 /\ \A i \in 1..(Len(s) - n + 1) : b[i] = s[n + i - 1]
  BY DEF Chain
<1>4. InsertedAt(s, n, e) = a \o <<e>> \o b
  BY <1>1 DEF InsertedAt
<1> HIDE DEF a, b
<1>5. <<e>> \in Chain /\ Len(<<e>>) = 1 /\ <<e>>[1] = e
  BY DEF Chain
<1> DEFINE c == a \o <<e>>
<1>6. c \in Chain /\ Len(c) = n /\ c[n] = e /\ \A i \in 1..(n - 1) : c[i] = s[i]
  BY <1>1, <1>2, <1>5 DEF Chain
<1> HIDE DEF c
<1> DEFINE t == c \o b
<1>7. Len(t) = Len(s) + 1 /\ (\A i \in 1..n : t[i] = c[i])
  <2>1. Len(t) = Len(c) + Len(b) /\ \A i \in 1..Len(c) : t[i] = c[i]
    BY <1>3, <1>6, Joined DEF Chain
  <2>2. n + (Len(s) - n + 1) = Len(s) + 1
    BY <1>1
  <2> QED BY <1>3, <1>6, <2>1, <2>2
<1>8. ASSUME NEW i \in (n + 1)..(Len(s) + 1) PROVE t[i] = s[i - 1]
  <2>1. t[i] = b[i - n] /\ i - n \in 1..(Len(s) - n + 1)
    BY <1>1, <1>3, <1>6 DEF Chain
  <2>2. n + (i - n) - 1 = i - 1
    BY <1>1
  <2> QED BY <1>3, <2>1, <2>2
<1> HIDE DEF t
<1>9. n \in 1..n /\ \A i \in 1..(n - 1) : i \in 1..n
  BY <1>1
<1> QED BY <1>4, <1>6, <1>7, <1>8, <1>9 DEF t, c

\* Whatever is put in at the first place is in front.
LEMMA FirstPlace ==
  ASSUME NEW s \in Chain, NEW e \in Jumps
  PROVE  Front(InsertedAt(s, 1, e), e)
<1> DEFINE t == InsertedAt(s, 1, e)
<1>1. Len(s) \in Nat /\ 1 \in 1..(Len(s) + 1) /\ e # "tether"
  BY DEF Chain, Jumps
<1>2. Len(t) = Len(s) + 1 /\ t[1] = e
  BY <1>1, Inserted
<1> HIDE DEF t
<1>3. Front(t, e)
  BY <1>1, <1>2 DEF Front
<1> QED BY <1>3 DEF t

\* What is put in at the second place is in front if anything was.
LEMMA SecondPlace ==
  ASSUME NEW s \in Chain, NEW e \in Jumps, NEW f, Front(s, f)
  PROVE  LET t == InsertedAt(s, 2, e) IN Front(t, e) /\ Front(t, f)
<1> DEFINE t == InsertedAt(s, 2, e)
<1>1. PICK i \in 1..Len(s) : s[i] = f /\ \A j \in 1..i : s[j] # "tether"
  BY DEF Front
<1>2. Len(s) \in Nat /\ 2 \in 1..(Len(s) + 1) /\ e # "tether" /\ 1 \in 1..i
  BY <1>1 DEF Chain, Jumps
<1>3. /\ Len(t) = Len(s) + 1 /\ t[2] = e /\ t[1] = s[1]
      /\ \A k \in 3..(Len(s) + 1) : t[k] = s[k - 1]
  <2>1. 2 + 1 = 3 /\ 1 \in 1..(2 - 1)
    OBVIOUS
  <2> QED BY <1>2, <2>1, Inserted
<1> HIDE DEF t
<1>4. t[1] # "tether" /\ t[2] # "tether"
  BY <1>1, <1>2, <1>3
<1>5. Front(t, e)
  <2>1. \A j \in 1..2 : j = 1 \/ j = 2
    OBVIOUS
  <2> QED BY <1>2, <1>3, <1>4, <2>1 DEF Front
<1>6. Front(t, f)
  <2>1. CASE i = 1
    BY <1>1, <1>2, <1>3, <2>1 DEF Front
  <2>2. CASE i # 1
    <3>1. i + 1 \in 3..(Len(s) + 1) /\ t[i + 1] = f /\ i + 1 \in 1..Len(t)
      BY <1>1, <1>2, <1>3, <2>2
    <3>2. ASSUME NEW j \in 1..(i + 1) PROVE t[j] # "tether"
      <4>1. CASE j \in {1, 2}
        BY <1>4, <4>1
      <4>2. CASE j \notin {1, 2}
        <5>1. j \in 3..(Len(s) + 1) /\ j - 1 \in 1..i
          BY <1>2, <4>2
        <5> QED BY <1>1, <1>3, <5>1
      <4> QED BY <4>1, <4>2
    <3> QED BY <3>1, <3>2 DEF Front
  <2> QED BY <2>1, <2>2
<1> QED BY <1>5, <1>6 DEF t

\* What a smooth run has put in is missing only while another is between its
\* first -D and its last -I.
SrcInv ==
  \A r \in Runs : calm[r] /\ smooth[r] /\ pc[r] \in {"jump_dst", "applied"} =>
    Front(forward, "src") \/ \E q \in Runs : pc[q] \in {"drop_dst", "jump_src"}

DstInv ==
  \A r \in Runs : calm[r] /\ smooth[r] /\ pc[r] = "applied" =>
    Front(forward, "dst") \/ \E q \in Runs : pc[q] \in {"drop_dst", "jump_src", "jump_dst"}

JumpsInv == SrcInv /\ DstInv

\* Nothing changes for the jumps if neither the chain nor a run at work on it does.
LEMMA JumpsKept ==
  ASSUME JumpsInv, UNCHANGED forward,
         \A q \in Runs : /\ calm'[q] /\ smooth'[q] /\ pc'[q] \in {"jump_dst", "applied"} =>
                              calm[q] /\ smooth[q] /\ pc[q] = pc'[q]
                         /\ pc[q] \in {"drop_dst", "jump_src", "jump_dst"} => pc'[q] = pc[q]
  PROVE  JumpsInv'
<1>1. SrcInv'
  BY DEF JumpsInv, SrcInv
<1>2. DstInv'
  BY DEF JumpsInv, DstInv
<1> QED BY <1>1, <1>2 DEF JumpsInv

\* What the guards look at, of the runs that are not a command further.
LEMMA Advanced ==
  ASSUME TypeOK, NEW r \in Runs, NEW now, NEW next, Goes(r, now, next)
  PROVE  pc[r] = now /\ pc'[r] = next /\ \A q \in Runs : q # r => pc'[q] = pc[q]
  BY DEF TypeOK, Goes

\* A command on the rules.
LEMMA RulesStep ==
  ASSUME TypeOK, JumpsInv, UNCHANGED <<forward, calm, smooth>>,
         NEW r \in Runs, NEW now, NEW next, Goes(r, now, next),
         now \notin {"drop_dst", "jump_src", "jump_dst"}, next \notin {"jump_dst", "applied"}
  PROVE  JumpsInv'
<1>1. \A q \in Runs : pc'[q] \in {"jump_dst", "applied"} => pc[q] = pc'[q]
  BY Advanced
<1>2. \A q \in Runs : pc[q] \in {"drop_dst", "jump_src", "jump_dst"} => pc'[q] = pc[q]
  BY Advanced
<1> QED BY <1>1, <1>2, JumpsKept

\* A run that starts has nothing in the chain yet.
LEMMA StartStep ==
  ASSUME TypeOK, JumpsInv, NEW r \in Runs, Started(r),
         NEW next \in {"del_egress", "routed", "pop", "deployed"}, pc' = [pc EXCEPT ![r] = next]
  PROVE  JumpsInv'
<1> DEFINE b == \A q \in Runs : pc[q] \in Ended \/ calm[q]
<1>1. UNCHANGED forward /\ pc[r] \in Ended /\ calm' = [calm EXCEPT ![r] = b]
      /\ smooth' = [smooth EXCEPT ![r] = TRUE]
  BY DEF Started
<1> HIDE DEF b
<1>2. /\ pc'[r] = next
      /\ \A q \in Runs : q # r => pc'[q] = pc[q] /\ calm'[q] = calm[q] /\ smooth'[q] = smooth[q]
  BY <1>1 DEF TypeOK
<1>3. pc'[r] \notin {"jump_dst", "applied"} /\ pc[r] \notin {"drop_dst", "jump_src", "jump_dst"}
  BY <1>1, <1>2 DEF Ended
<1> QED BY <1>1, <1>2, <1>3, JumpsKept

\* An iptables command that failed is nobody's business any more.
LEMMA FailedStep ==
  ASSUME smooth' = [q \in Runs |-> FALSE]
  PROVE  JumpsInv'
  BY DEF JumpsInv, SrcInv, DstInv

LEMMA UpsetStep ==
  ASSUME calm' = [q \in Runs |-> FALSE]
  PROVE  JumpsInv'
  BY DEF JumpsInv, SrcInv, DstInv

LEMMA DropSrcStep ==
  ASSUME TypeOK, JumpsInv, NEW r \in Runs, DropSrc(r)
  PROVE  JumpsInv'
<1>1. CASE forward' = Without(forward, "src") /\ UNCHANGED smooth
  <2>1. UNCHANGED <<calm, smooth>> /\ Goes(r, "drop_src", "drop_dst")
    BY <1>1 DEF DropSrc, Iptables
  <2>2. pc'[r] = "drop_dst" /\ \A q \in Runs : q # r => pc'[q] = pc[q]
    BY <2>1, Advanced
  <2> QED BY <2>2 DEF JumpsInv, SrcInv, DstInv
<1>2. CASE smooth' = [q \in Runs |-> FALSE]
  BY <1>2, FailedStep
<1> QED BY <1>1, <1>2 DEF DropSrc, Iptables

LEMMA DropDstStep ==
  ASSUME TypeOK, JumpsInv, NEW r \in Runs, DropDst(r)
  PROVE  JumpsInv'
<1>1. CASE forward' = Without(forward, "dst") /\ UNCHANGED smooth
  <2>1. UNCHANGED <<calm, smooth>> /\ Goes(r, "drop_dst", "jump_src")
    BY <1>1 DEF DropDst, Iptables
  <2>2. pc'[r] = "jump_src" /\ \A q \in Runs : q # r => pc'[q] = pc[q]
    BY <2>1, Advanced
  <2> QED BY <2>2 DEF JumpsInv, SrcInv, DstInv
<1>2. CASE smooth' = [q \in Runs |-> FALSE]
  BY <1>2, FailedStep
<1> QED BY <1>1, <1>2 DEF DropDst, Iptables

LEMMA JumpSrcStep ==
  ASSUME TypeOK, JumpsInv, NEW r \in Runs, JumpSrc(r)
  PROVE  JumpsInv'
<1>1. CASE forward' = InsertedAt(forward, 1, "src") /\ UNCHANGED smooth
  <2>1. UNCHANGED <<calm, smooth>> /\ Goes(r, "jump_src", "jump_dst")
    BY <1>1 DEF JumpSrc, Iptables
  <2>2. pc'[r] = "jump_dst" /\ \A q \in Runs : q # r => pc'[q] = pc[q]
    BY <2>1, Advanced
  <2>3. Front(forward', "src")
    <3>1. forward \in Chain /\ "src" \in Jumps
      BY DEF TypeOK, Chain, Jumps
    <3> QED BY <1>1, <3>1, FirstPlace
  <2> QED BY <2>2, <2>3 DEF JumpsInv, SrcInv, DstInv
<1>2. CASE smooth' = [q \in Runs |-> FALSE]
  BY <1>2, FailedStep
<1> QED BY <1>1, <1>2 DEF JumpSrc, Iptables

\* The second place is behind the DROP if src is missing; then another run has
\* still to put it in, and its own dst after it.
LEMMA JumpDstStep ==
  ASSUME TypeOK, JumpsInv, NEW r \in Runs, JumpDst(r)
  PROVE  JumpsInv'
<1>1. CASE forward' = Second /\ UNCHANGED smooth
  <2>1. UNCHANGED <<calm, smooth>> /\ Goes(r, "jump_dst", "applied")
    BY <1>1 DEF JumpDst, Iptables
  <2>2. pc[r] = "jump_dst" /\ pc'[r] = "applied" /\ \A q \in Runs : q # r => pc'[q] = pc[q]
    BY <2>1, Advanced
  <2>3. CASE Front(forward, "src")
    <3>1. forward \in Chain /\ "src" \in Jumps /\ "dst" \in Jumps
      BY DEF TypeOK, Chain, Jumps
    <3>2. Front(forward', "src") /\ Front(forward', "dst")
      BY <1>1, <2>3, <3>1, SecondPlace DEF Second
    <3> QED BY <3>2 DEF JumpsInv, SrcInv, DstInv
  <2>4. CASE ~Front(forward, "src")
    <3> SUFFICES ASSUME NEW p \in Runs, calm[p], smooth[p], pc'[p] \in {"jump_dst", "applied"}
                 PROVE  \E q \in Runs : pc'[q] \in {"drop_dst", "jump_src"}
      BY <2>1 DEF JumpsInv, SrcInv, DstInv
    <3>1. pc[p] \in {"jump_dst", "applied"}
      BY <2>2
    <3>2. PICK q \in Runs : pc[q] \in {"drop_dst", "jump_src"}
      BY <2>4, <3>1 DEF JumpsInv, SrcInv
    <3> QED BY <2>2, <3>2
  <2> QED BY <2>3, <2>4
<1>2. CASE smooth' = [q \in Runs |-> FALSE]
  BY <1>2, FailedStep
<1> QED BY <1>1, <1>2 DEF JumpDst, Iptables

LEMMA JumpsInductive == Spec => []JumpsInv
<1>1. Init => JumpsInv
  BY DEF Init, JumpsInv, SrcInv, DstInv
<1>2. TypeOK /\ JumpsInv /\ [Next]_vars => JumpsInv'
  <2> SUFFICES ASSUME TypeOK, JumpsInv, [Next]_vars PROVE JumpsInv'
    OBVIOUS
  <2>1. ASSUME NEW r \in Runs, DelEgress(r) \/ AddEgress(r) \/ DelReturn(r) \/ AddReturn(r) \/ Pop(r)
        PROVE  JumpsInv'
    <3>1. UNCHANGED <<forward, calm, smooth>>
      BY <2>1 DEF DelEgress, AddEgress, DelReturn, AddReturn, Pop, seen
    <3>2. \E now \in {"del_egress", "add_egress", "del_return", "add_return", "pop"},
             next \in {"add_egress", "del_return", "add_return", "drop_src", "add_root"} :
            Goes(r, now, next)
      BY <2>1 DEF DelEgress, AddEgress, DelReturn, AddReturn, Pop
    <3> QED BY <3>1, <3>2, RulesStep
  <2>2. ASSUME NEW r \in Runs, AddRoot(r) PROVE JumpsInv'
    <3>1. PICK next \in {"routed", "pop"} : pc[r] = "add_root" /\ pc' = [pc EXCEPT ![r] = next]
      BY <2>2 DEF AddRoot
    <3>2. UNCHANGED <<forward, calm, smooth>> /\ Goes(r, "add_root", next)
      BY <2>2, <3>1 DEF AddRoot, seen, Goes
    <3> QED BY <3>1, <3>2, RulesStep
  <2>3. ASSUME NEW r \in Runs, StartNet(r) PROVE JumpsInv'
    BY <2>3, StartStep DEF StartNet
  <2>4. ASSUME NEW r \in Runs, StartRoute(r) PROVE JumpsInv'
    <3>1. PICK next \in {"routed", "pop"} : pc' = [pc EXCEPT ![r] = next]
      BY <2>4 DEF StartRoute
    <3> QED BY <2>4, <3>1, StartStep DEF StartRoute
  <2>5. ASSUME NEW r \in Runs, DeployRoute(r) PROVE JumpsInv'
    BY <2>5, StartStep DEF DeployRoute
  <2>6. ASSUME Upset PROVE JumpsInv'
    BY <2>6, UpsetStep DEF Upset
  <2>7. ASSUME UNCHANGED vars PROVE JumpsInv'
    BY <2>7, JumpsKept DEF vars, seen
  <2> QED
    BY <2>1, <2>2, <2>3, <2>4, <2>5, <2>6, <2>7, DropSrcStep, DropDstStep, JumpSrcStep, JumpDstStep
    DEF Next, Interrupt, NetdRewrites, DaemonStop, Reboot
<1> QED BY <1>1, <1>2, TypeCorrect, PTL DEF Spec

\* ... and both jumps are in front of the DROP unless an iptables command has failed,
\* although every run takes away jumps that may be another's.
THEOREM JumpsSurvive == Spec => []JumpsSurviveOverlap
<1>1. JumpsInv => JumpsSurviveOverlap
  <2> SUFFICES ASSUME JumpsInv, AllEnded, NEW r \in Runs, calm[r], smooth[r], pc[r] = "applied",
                      NEW e \in Jumps
               PROVE  Front(forward, e)
    BY DEF JumpsSurviveOverlap, Front
  <2>1. \A q \in Runs : pc[q] \notin {"drop_dst", "jump_src", "jump_dst"}
    BY DEF AllEnded, Ended
  <2>2. Front(forward, "src") /\ Front(forward, "dst")
    BY <2>1 DEF JumpsInv, SrcInv, DstInv
  <2> QED BY <2>2 DEF Jumps
<1> QED BY <1>1, JumpsInductive, PTL

===============================================================================
