------------------------------- MODULE DockerNet -------------------------------
(***************************************************************************)
(* The routing and filter rules that Docker needs on Android, and who      *)
(* writes them: scripts/device/docker-net.sh, run at boot, by hand and by  *)
(* a watcher; daemon_route of scripts/device/native-compat/daemon.sh;      *)
(* route of stack/deploy.sh; and netd, which rewrites the rules whenever   *)
(* it likes.  Each script is a list of commands, none of which waits for   *)
(* another run of it or looks at what the one before has returned.         *)
(***************************************************************************)
EXTENDS Integers, Sequences

CONSTANTS
  Runs,      \* runs of the scripts that there can be at a time
  Uplinks,   \* routing tables that netd may give a default route
  MaxStarts, \* bound on the runs altogether
  MaxUpsets  \* bound on what netd, a reboot and an interruption do in between

ASSUME BoundsAssumption == MaxStarts \in Nat /\ MaxUpsets \in Nat

Jumps == {"src", "dst"}  \* ACCEPT from the pool, ACCEPT to the pool

VARIABLES
  egress,  \* the tables of the rules "from POOL lookup", priority 11500
  return,  \* whether there is "to POOL lookup main", priority 11400
  root,    \* the tables of the rules of priority 29999, in their order
  forward, \* the chain FORWARD: the jumps, and the DROP of tetherctrl_FORWARD
  live,    \* the tables with a default route
  named,   \* the tables whose name `ip' can resolve
  pc, uplink, left, \* of a run: its next command, UPLINK, the uplinks to try
  calm,    \* ... nothing but runs has happened since it, and those it found at
           \* work, started
  smooth,  \* ... and no iptables command has failed
  starts, upsets

rules == <<egress, return, root>>
netd  == <<live, named>>
own   == <<uplink, left>>
seen  == <<calm, smooth>>
vars  == <<rules, forward, netd, pc, own, seen, starts, upsets>>

Filtering == {"drop_src", "drop_dst", "jump_src", "jump_dst"}
Ended == {"idle", "applied", "routed", "deployed"}
Commands == {"del_egress", "add_egress", "del_return", "add_return", "pop", "add_root"}
            \union Filtering

In(s) == {s[i] : i \in 1..Len(s)}

TypeOK ==
  /\ egress \subseteq Uplinks /\ return \in BOOLEAN /\ root \in Seq(Uplinks)
  /\ forward \in Seq(Jumps \union {"tether"})
  /\ live \subseteq Uplinks /\ named \subseteq Uplinks
  /\ pc \in [Runs -> Ended \union Commands]
  /\ uplink \in [Runs -> Uplinks] /\ left \in [Runs -> SUBSET Uplinks]
  /\ calm \in [Runs -> BOOLEAN] /\ smooth \in [Runs -> BOOLEAN]
  /\ starts \in 0..MaxStarts /\ upsets \in 0..MaxUpsets

-----------------------------------------------------------------------------
(* What `ip rule' and `iptables' do to their lists.                        *)

\* iptables -D takes the first of its kind.
Without(s, e) ==
  IF e \notin In(s) THEN s
  ELSE [i \in 1..(Len(s) - 1) |-> IF \E j \in 1..i : s[j] = e THEN s[i + 1] ELSE s[i]]

\* iptables -I; a place behind the end of the list is refused.
InsertedAt(s, n, e) ==
  IF n > Len(s) + 1 THEN s ELSE SubSeq(s, 1, n - 1) \o <<e>> \o SubSeq(s, n, Len(s))

\* `ip rule del pref 29999' takes the first of that priority.
Popped == IF root = << >> THEN root ELSE Tail(root)

-----------------------------------------------------------------------------
(* docker-net.sh.                                                          *)

Init ==
  /\ egress = {} /\ return = FALSE /\ root = << >> /\ forward = <<"tether">>
  /\ live \in SUBSET Uplinks /\ named \in SUBSET Uplinks
  /\ pc = [r \in Runs |-> "idle"]
  /\ uplink \in [Runs -> Uplinks] /\ left = [r \in Runs |-> {}]
  /\ calm = [r \in Runs |-> FALSE] /\ smooth = [r \in Runs |-> FALSE]
  /\ starts = 0 /\ upsets = 0

Goes(r, now, next) == pc[r] = now /\ pc' = [pc EXCEPT ![r] = next]

Started(r) ==
  /\ pc[r] \in Ended /\ starts < MaxStarts
  /\ starts' = starts + 1
  /\ calm' = [calm EXCEPT ![r] = \A q \in Runs : pc[q] \in Ended \/ calm[q]]
  /\ smooth' = [smooth EXCEPT ![r] = TRUE]
  /\ UNCHANGED <<rules, forward, netd, upsets>>

StartNet(r) ==
  /\ Started(r)
  /\ \E u \in Uplinks : uplink' = [uplink EXCEPT ![r] = u]
  /\ pc' = [pc EXCEPT ![r] = "del_egress"]
  /\ UNCHANGED left

\* Mutant: the rule of whatever uplink is deleted.
AnyUplinks(u) == IF u \in named THEN {} ELSE egress

\* The table is given by its name, and a name that is not known is an error.
NotOf(u) == IF u \in named THEN egress \ {u} ELSE egress
DelEgress(r) ==
  /\ Goes(r, "del_egress", "add_egress")
  /\ egress' = NotOf(uplink[r])
  /\ UNCHANGED <<return, root, forward, netd, own, seen, starts, upsets>>

AddEgress(r) ==
  /\ Goes(r, "add_egress", "del_return")
  /\ egress' = IF uplink[r] \in named THEN egress \union {uplink[r]} ELSE egress
  /\ UNCHANGED <<return, root, forward, netd, own, seen, starts, upsets>>

DelReturn(r) ==
  /\ Goes(r, "del_return", "add_return")
  /\ return' = FALSE
  /\ UNCHANGED <<egress, root, forward, netd, own, seen, starts, upsets>>

AddReturn(r) ==
  /\ Goes(r, "add_return", "drop_src")
  /\ return' = TRUE
  /\ UNCHANGED <<egress, root, forward, netd, own, seen, starts, upsets>>

\* iptables without -w gives up when somebody else, netd included, has the lock.
Iptables(r, now, next, chain) ==
  /\ Goes(r, now, next)
  /\ \/ forward' = chain /\ UNCHANGED smooth
     \/ smooth' = [q \in Runs |-> FALSE] /\ UNCHANGED forward
  /\ UNCHANGED <<rules, netd, own, calm, starts, upsets>>

DropSrc(r) == Iptables(r, "drop_src", "drop_dst", Without(forward, "src"))
DropDst(r) == Iptables(r, "drop_dst", "jump_src", Without(forward, "dst"))
JumpSrc(r) == Iptables(r, "jump_src", "jump_dst", InsertedAt(forward, 1, "src"))

\* Mutant: appended, behind the DROP.
AtTheEnd == Append(forward, "dst")

Second == InsertedAt(forward, 2, "dst")
JumpDst(r) == Iptables(r, "jump_dst", "applied", Second)

-----------------------------------------------------------------------------
(* daemon_route, and route.                                                *)

\* Mutant: every table of `ip route show table all'.
AllTables == Uplinks \union {"main"}

\* The uplinks are looked up once, by uplinks of lib.sh.
DefaultTables == live
StartRoute(r) ==
  /\ Started(r)
  /\ left' = [left EXCEPT ![r] = DefaultTables]
  /\ pc' = [pc EXCEPT ![r] = IF DefaultTables = {} THEN "routed" ELSE "pop"]
  /\ UNCHANGED uplink

Pop(r) ==
  /\ Goes(r, "pop", "add_root")
  /\ root' = Popped
  /\ UNCHANGED <<egress, return, forward, netd, own, seen, starts, upsets>>

\* A rule that is there already is an error, and the next uplink has its turn.
AddRoot(r) ==
  /\ pc[r] = "add_root"
  /\ \E t \in left[r] :
       \/ /\ t \notin In(root)
          /\ root' = Append(root, t)
          /\ pc' = [pc EXCEPT ![r] = "routed"]
          /\ UNCHANGED left
       \/ /\ t \in In(root)
          /\ left' = [left EXCEPT ![r] = @ \ {t}]
          /\ pc' = [pc EXCEPT ![r] = IF left[r] = {t} THEN "routed" ELSE "pop"]
          /\ UNCHANGED root
  /\ UNCHANGED <<egress, return, forward, netd, uplink, seen, starts, upsets>>

\* deploy.sh quotes its awk program within the quotes of sh_: what awk gets is
\* `/^default/{print', an error that sh_ drops.  The loop has no table to go over.
DeployRoute(r) ==
  /\ Started(r)
  /\ pc' = [pc EXCEPT ![r] = "deployed"]
  /\ UNCHANGED own

-----------------------------------------------------------------------------
(* What else happens.                                                      *)

Upset ==
  /\ upsets < MaxUpsets
  /\ upsets' = upsets + 1
  /\ calm' = [r \in Runs |-> FALSE]
  /\ UNCHANGED <<uplink, left, starts>>

\* A network comes or goes, a Wi-Fi reconnect, or the rules are written again.
NetdRewrites ==
  /\ Upset
  /\ egress' \in SUBSET egress /\ return' \in {FALSE, return} /\ root' \in {<< >>, root}
  /\ live' \in SUBSET Uplinks /\ named' \in SUBSET Uplinks
  /\ UNCHANGED <<forward, pc, smooth>>

\* daemon_stop deletes one rule of priority 29999.
DaemonStop ==
  /\ Upset
  /\ root' = Popped
  /\ UNCHANGED <<egress, return, forward, netd, pc, smooth>>

\* adb is gone, or somebody has had enough.
Interrupt(r) ==
  /\ Upset
  /\ pc[r] \in Commands
  /\ pc' = [pc EXCEPT ![r] = "idle"]
  /\ UNCHANGED <<rules, forward, netd, smooth>>

Reboot ==
  /\ Upset
  /\ egress' = {} /\ return' = FALSE /\ root' = << >> /\ forward' = <<"tether">>
  /\ live' \in SUBSET Uplinks /\ named' \in SUBSET Uplinks
  /\ pc' = [r \in Runs |-> "idle"]
  /\ UNCHANGED smooth

Next ==
  \/ \E r \in Runs :
       \/ StartNet(r) \/ DelEgress(r) \/ AddEgress(r) \/ DelReturn(r) \/ AddReturn(r)
       \/ DropSrc(r) \/ DropDst(r) \/ JumpSrc(r) \/ JumpDst(r)
       \/ StartRoute(r) \/ Pop(r) \/ AddRoot(r) \/ DeployRoute(r) \/ Interrupt(r)
  \/ NetdRewrites \/ DaemonStop \/ Reboot

Spec == Init /\ [][Next]_vars

-----------------------------------------------------------------------------
(* Properties.                                                             *)

AllEnded == \A r \in Runs : pc[r] \in Ended

\* However the runs of the scripts overlap, when the last of them is through, the
\* rules of each run of docker-net.sh and of daemon_route are there, although both
\* delete before they add, and a rule that is there already makes daemon_route go on
\* to another uplink; whatever the runs before, and what interrupted them, had left
\* behind.  (A run that has looked up the uplinks before netd changed them may still
\* replace a rule of a later one.)
RulesSurviveOverlap ==
  AllEnded => \A r \in Runs : calm[r] =>
    /\ pc[r] = "applied" => return /\ (uplink[r] \in named => uplink[r] \in egress)
    /\ pc[r] = "routed" /\ live # {} => live \intersect In(root) # {}

\* ... and both ACCEPTs are in front of the DROP, unless an iptables command has
\* failed meanwhile.
JumpsSurviveOverlap ==
  AllEnded => \A r \in Runs : calm[r] /\ smooth[r] /\ pc[r] = "applied" =>
    \A e \in Jumps : \E i \in 1..Len(forward) :
      forward[i] = e /\ \A j \in 1..i : forward[j] # "tether"
===============================================================================
