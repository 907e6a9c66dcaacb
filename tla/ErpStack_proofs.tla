---------------------------- MODULE ErpStack_proofs ----------------------------
(* Proofs about ErpStack, for any number of calls and stops, and about the  *)
(* daemon below it, for any number of runs, pids and upsets.                *)
EXTENDS ErpStack, TLAPS

\* The constants and variables of module Daemon.
CONSTANTS Runs, Pids, None, MaxStarts, MaxUpsets
VARIABLES procs, pidfile, pc, fell, still, starts, upsets

D == INSTANCE Daemon

USE ToolsAssumption, BoundsAssumption

-----------------------------------------------------------------------------
(* The types.                                                               *)

LEMMA InitType == Init => TypeOK
<1> SUFFICES ASSUME Init PROVE TypeOK
  OBVIOUS
<1>1. dockerd = FALSE /\ backend = FALSE
  BY DEF Init
<1>2. applied \in [Calls -> Nat] /\ state \in [Calls -> States]
  BY DEF Init, States
<1>3. replies \subseteq Calls \X Answers /\ wire \subseteq Calls /\ stops \in 0..MaxStops
  BY DEF Init
<1>4. project \in BOOLEAN /\ backend \in BOOLEAN /\ site \in BOOLEAN
  BY DEF Init
<1>5. /\ configurator = "none" /\ creator = "none" /\ database = "none"
      /\ settings = {} /\ held = {} /\ allow \in BOOLEAN
      /\ tool \in [Calls -> Tools]
  BY DEF Init
<1> QED
  BY <1>1, <1>2, <1>3, <1>4, <1>5 DEF TypeOK

LEMMA StoppedType ==
  ASSUME TypeOK, Stopped
  PROVE  /\ stops' \in 0..MaxStops /\ dockerd' = FALSE /\ backend' = FALSE
         /\ creator' \in {"none", "ended"} /\ configurator' \in {"none", "done"}
         /\ UNCHANGED <<project, settings, site, database, held, allow, tool, state, applied>>
<1>1. stops' \in 0..MaxStops
  BY DEF Stopped, TypeOK
<1>2. creator' \in {"none", "ended"} /\ configurator' \in {"none", "done"}
  BY DEF Stopped, Ended, TypeOK
<1> QED
  BY <1>1, <1>2 DEF Stopped, volumes, client

LEMMA NextType == TypeOK /\ [Next]_vars => TypeOK'
<1> SUFFICES ASSUME TypeOK, [Next]_vars PROVE TypeOK'
  OBVIOUS
<1>1. ASSUME DaemonStart PROVE TypeOK'
  BY <1>1 DEF DaemonStart, TypeOK, volumes, client, net
<1>2. ASSUME DaemonStop PROVE TypeOK'
  BY <1>2, StoppedType DEF DaemonStop, TypeOK, net
<1>3. ASSUME Reboot PROVE TypeOK'
  BY <1>3, StoppedType DEF Reboot, TypeOK
<1>6. ASSUME Up PROVE TypeOK'
  BY <1>6 DEF Up, TypeOK, volumes, client, net
<1>7. ASSUME Down PROVE TypeOK'
  <2>1. project' = FALSE /\ backend' = FALSE
    BY <1>7 DEF Down
  <2>3. stops' \in 0..MaxStops
    BY <1>7 DEF Down, TypeOK
  <2>2. held' = held /\ configurator' = "none" /\ creator' = "none"
    BY <1>7 DEF Down, Remaining
  <2> QED
    BY <1>7, <2>1, <2>2, <2>3 DEF Down, TypeOK, client, net
<1>8. ASSUME SetConfig PROVE TypeOK'
  BY <1>8 DEF SetConfig, TypeOK, containers, client, net
<1>9. ASSUME Configured PROVE TypeOK'
  BY <1>9 DEF Configured, TypeOK, volumes, client, net
<1>10. ASSUME GiveUp PROVE TypeOK'
  BY <1>10 DEF GiveUp, TypeOK, volumes, client, net
<1>11. ASSUME NewSite PROVE TypeOK'
  BY <1>11 DEF NewSite, new_site, TypeOK, client, net
<1>12. ASSUME NewSiteEnds PROVE TypeOK'
  BY <1>12 DEF NewSiteEnds, TypeOK, client, net
<1>13. ASSUME NEW c \in Calls, Call(c) PROVE TypeOK'
  BY <1>13 DEF Call, States, TypeOK, containers, volumes
<1>14. ASSUME NEW c \in Calls, Serve(c) PROVE TypeOK'
  <2>1. wire' \subseteq Calls /\ held' \subseteq Calls /\ replies' \subseteq Calls \X Answers
    BY <1>14 DEF Serve, Answers, TypeOK
  <2>2. applied' \in [Calls -> Nat]
    BY <1>14 DEF Serve, TypeOK
  <2> QED
    BY <1>14, <2>1, <2>2 DEF Serve, TypeOK, containers, client
<1>15. ASSUME NEW c \in Calls, BadGateway(c) PROVE TypeOK'
  BY <1>15 DEF BadGateway, Answers, TypeOK, containers, volumes, client
<1>16. ASSUME NEW c \in Calls, Answer(c) PROVE TypeOK'
  <2>1. state' \in [Calls -> States] /\ replies' \subseteq replies
    BY <1>16 DEF Answer, Taken, States, TypeOK
  <2> QED
    BY <1>16, <2>1 DEF Answer, TypeOK, containers, volumes
<1>17. ASSUME NEW c \in Calls, Timeout(c) PROVE TypeOK'
  BY <1>17 DEF Timeout, States, TypeOK, containers, volumes, net
<1>18. ASSUME Restart PROVE TypeOK'
  BY <1>18 DEF Restart, States, TypeOK, containers, volumes, net
<1>19. ASSUME NEW c \in Calls, Redirect(c) PROVE TypeOK'
  BY <1>19 DEF Redirect, Answers, TypeOK, containers, volumes, client
<1>20. ASSUME UNCHANGED vars PROVE TypeOK'
  BY <1>20 DEF vars, containers, volumes, client, net, TypeOK
<1> QED
  BY <1>1, <1>2, <1>3, <1>6, <1>7, <1>8, <1>9, <1>10, <1>11, <1>12, <1>13,
     <1>14, <1>15, <1>16, <1>17, <1>18, <1>19, <1>20 DEF Next

\* Every variable keeps its type, and no container runs without the daemon.
THEOREM TypeCorrect == Spec => []TypeOK
  BY InitType, NextType, PTL DEF Spec

-----------------------------------------------------------------------------
(* Documents and answers.                                                   *)

\* What the volumes hold.
SiteInv ==
  /\ held # {} => database = "whole"
  /\ database # "none" => site
  /\ creator = "creating" => database = "half"

\* Where a call is tells whether its change was made.
CallFine(c) ==
  /\ c \in wire => applied[c] = 0 /\ state[c] \notin {"none", "refused"} /\ <<c, Done>> \notin replies
  /\ state[c] \in {"none", "refused"} => applied[c] = 0 /\ \A a \in Answers : <<c, a>> \notin replies
  /\ state[c] = "refused" => c \notin wire
  /\ <<c, Done>> \in replies \/ state[c] = "ok" => (Write(c) => applied[c] = 1 /\ c \in held)
  /\ applied[c] <= 1
CallInv == \A c \in Calls : CallFine(c)

IInv == TypeOK /\ SiteInv /\ CallInv

\* A step that makes no change and sends nothing.
LEMMA Idle ==
  ASSUME CallInv, UNCHANGED <<held, tool, state, applied>>, wire' \subseteq wire,
         replies' \subseteq replies
  PROVE  CallInv'
<1> SUFFICES ASSUME NEW c \in Calls PROVE CallFine(c)'
  BY DEF CallInv
<1>1. CallFine(c) /\ (Write(c))' = Write(c)
  BY DEF CallInv, Write
<1> QED
  BY <1>1 DEF CallFine

\* A step of another call.
LEMMA Others ==
  ASSUME NEW d \in Calls, CallFine(d), UNCHANGED tool, held \subseteq held',
         state'[d] = state[d], applied'[d] = applied[d], d \in wire' => d \in wire,
         \A a \in Answers : <<d, a>> \in replies' => <<d, a>> \in replies
  PROVE  CallFine(d)'
<1>1. (Write(d))' = Write(d) /\ Done \in Answers
  BY DEF Write, Answers
<1>2. CallFine(d)
  OBVIOUS
<1> QED
  BY <1>1, <1>2 DEF CallFine

LEMMA Inductive == Spec => []IInv
<1>1. Init => IInv
  BY InitType DEF Init, IInv, SiteInv, CallInv, CallFine, Write
<1>2. IInv /\ [Next]_vars => IInv'
  <2> SUFFICES ASSUME IInv, [Next]_vars PROVE SiteInv' /\ CallInv'
    BY NextType DEF IInv
  <2>0. TypeOK /\ TypeOK' /\ SiteInv /\ CallInv
    BY NextType DEF IInv
  <2>1. CASE DaemonStart \/ Up \/ SetConfig \/ Configured \/ GiveUp
    <3>1. UNCHANGED <<held, tool, state, applied, wire, replies, site, database>>
      BY <2>1 DEF DaemonStart, Up, SetConfig, Configured, GiveUp, volumes, client, net
    <3>2. creator' = "creating" => creator = "creating"
      BY <2>1 DEF DaemonStart, Up, SetConfig, Configured, GiveUp, containers
    <3> QED
      BY <2>0, <3>1, <3>2, Idle DEF SiteInv
  <2>2. CASE DaemonStop \/ Reboot
    <3>1. Stopped /\ wire' \subseteq wire /\ replies' \subseteq replies
      BY <2>2 DEF DaemonStop, Reboot, net
    <3>2. creator' # "creating"
      BY <3>1 DEF Stopped, Ended
    <3> QED
      BY <2>0, <3>1, <3>2, StoppedType, Idle DEF SiteInv
  <2>3. CASE Down
    <3>1. UNCHANGED <<held, tool, state, applied, wire, replies, site, database>> /\ creator' = "none"
      BY <2>3 DEF Down, Remaining, client, net
    <3> QED
      BY <2>0, <3>1, Idle DEF SiteInv
  <2>4. CASE NewSite
    <3>1. UNCHANGED <<held, tool, state, applied, wire, replies>>
      BY <2>4 DEF NewSite, new_site, client, net
    <3>2. SiteInv'
      BY <2>0, <2>4 DEF NewSite, new_site, SiteInv
    <3> QED
      BY <2>0, <3>1, <3>2, Idle
  <2>5. CASE NewSiteEnds
    <3>1. UNCHANGED <<held, tool, state, applied, wire, replies>>
      BY <2>5 DEF NewSiteEnds, client, net
    <3>2. SiteInv'
      BY <2>0, <2>5 DEF NewSiteEnds, SiteInv
    <3> QED
      BY <2>0, <3>1, <3>2, Idle
  <2>6. ASSUME NEW c \in Calls, Call(c) PROVE SiteInv' /\ CallInv'
    <3>1. UNCHANGED <<site, database, held, creator, tool, applied, replies>>
      BY <2>6 DEF Call, containers, volumes
    <3>2. state[c] = "none" /\ state' = [state EXCEPT ![c] = IF Write(c) /\ ~allow THEN "refused" ELSE "sent"]
      BY <2>6 DEF Call
    <3>3. wire' = IF Write(c) /\ ~allow THEN wire ELSE wire \union {c}
      BY <2>6 DEF Call
    <3>4. \A d \in Calls : d # c => state'[d] = state[d] /\ (d \in wire' <=> d \in wire)
      BY <2>0, <3>2, <3>3 DEF TypeOK
    <3>5. state'[c] \in {"refused", "sent"} /\ (state'[c] = "refused" => c \notin wire')
      BY <2>0, <3>2, <3>3 DEF TypeOK, CallInv, CallFine
    <3>6. CallFine(c)'
      <4>1. applied[c] = 0 /\ \A a \in Answers : <<c, a>> \notin replies
        BY <2>0, <3>2 DEF CallInv, CallFine
      <4>2. <<c, Done>> \notin replies
        BY <4>1 DEF Answers
      <4> QED
        BY <3>1, <3>5, <4>1, <4>2 DEF CallFine
    <3>7. CallInv'
      <4> SUFFICES ASSUME NEW d \in Calls, d # c PROVE CallFine(d)'
        BY <3>6 DEF CallInv
      <4> QED
        BY <2>0, <3>1, <3>4, Others DEF CallInv
    <3> QED
      BY <2>0, <3>1, <3>7 DEF SiteInv
  <2>7. ASSUME NEW c \in Calls, Serve(c) PROVE SiteInv' /\ CallInv'
    <3>1. UNCHANGED <<site, database, creator, tool, state>> /\ database = "whole"
      BY <2>7 DEF Serve, containers, client
    <3>2. c \in wire /\ wire' = wire \ {c} /\ held \subseteq held'
      BY <2>7 DEF Serve
    <3>3. \A d \in Calls : d # c =>
            applied'[d] = applied[d] /\ \A a \in Answers : <<d, a>> \in replies' <=> <<d, a>> \in replies
      BY <2>0, <2>7 DEF Serve, TypeOK
    <3>4. /\ applied'[c] <= 1
          /\ <<c, Done>> \in replies' => (Write(c) => applied'[c] = 1 /\ c \in held')
      <4>0. applied[c] = 0 /\ applied \in [Calls -> Nat] /\ <<c, Done>> \notin replies /\ Done # Bad
        BY <2>0, <3>2 DEF TypeOK, CallInv, CallFine, Done, Bad
      <4>1. CASE held' = held \union {c} /\ applied' = [applied EXCEPT ![c] = @ + 1]
        BY <4>0, <4>1
      <4>2. CASE ~Write(c) /\ UNCHANGED <<held, applied>>
        BY <4>0, <4>2
      <4>3. CASE replies' = replies \union {<<c, Bad>>} /\ UNCHANGED <<held, applied>>
        BY <4>0, <4>3
      <4> QED
        BY <2>7, <4>1, <4>2, <4>3 DEF Serve
    <3>5. c \notin wire' /\ state[c] \notin {"none", "refused"} /\ (Write(c))' = Write(c)
      BY <2>0, <3>1, <3>2 DEF CallInv, CallFine, Write
    <3>6. ~(state[c] = "ok" /\ Write(c))
      <4>1. CallFine(c) /\ applied[c] = 0
        BY <2>0, <3>2 DEF CallInv, CallFine
      <4> QED
        BY <4>1 DEF CallFine
    <3>7. CallFine(c)'
      BY <3>1, <3>4, <3>5, <3>6 DEF CallFine
    <3>8. CallInv'
      <4> SUFFICES ASSUME NEW d \in Calls, d # c PROVE CallFine(d)'
        BY <3>7 DEF CallInv
      <4>1. CallFine(d) /\ (d \in wire' => d \in wire)
        BY <2>0, <3>2 DEF CallInv
      <4> QED
        BY <3>1, <3>2, <3>3, <4>1, Others
    <3> QED
      BY <2>0, <3>1, <3>8 DEF SiteInv
  <2>8. ASSUME NEW c \in Calls, BadGateway(c) PROVE SiteInv' /\ CallInv'
    <3>1. UNCHANGED <<site, database, held, creator, tool, state, applied>>
      BY <2>8 DEF BadGateway, containers, volumes, client
    <3>2. wire' \subseteq wire /\ replies' \subseteq replies \union {<<c, NoUpstream>>}
      BY <2>8 DEF BadGateway
    <3>3. state[c] \notin {"none", "refused"}
      BY <2>0, <2>8 DEF BadGateway, CallInv, CallFine, Answers
    <3>4. CallFine(c)'
      <4>1. CallFine(c) /\ (Write(c))' = Write(c)
        BY <2>0, <3>1 DEF CallInv, Write
      <4>2. <<c, Done>> \notin replies' /\ c \notin wire'
        BY <2>8 DEF BadGateway, Done, NoUpstream
      <4> QED
        BY <3>1, <3>3, <4>1, <4>2 DEF CallFine
    <3>5. CallInv'
      <4> SUFFICES ASSUME NEW d \in Calls, d # c PROVE CallFine(d)'
        BY <3>4 DEF CallInv
      <4>1. \A a \in Answers : <<d, a>> \in replies' => <<d, a>> \in replies
        BY <3>2
      <4> QED
        BY <2>0, <3>1, <3>2, <4>1, Others DEF CallInv
    <3> QED
      BY <2>0, <3>1, <3>5 DEF SiteInv
  <2>9. ASSUME NEW c \in Calls, Answer(c) PROVE SiteInv' /\ CallInv'
    <3>1. UNCHANGED <<site, database, held, creator, tool, applied, wire>>
      BY <2>9 DEF Answer, containers, volumes
    <3>2. PICK a \in Answers :
            /\ <<c, a>> \in replies /\ replies' = replies \ {<<c, a>>}
            /\ state' = [state EXCEPT ![c] = Taken(a)]
      BY <2>9 DEF Answer
    <3>3. \A d \in Calls : d # c => state'[d] = state[d]
      BY <2>0, <3>2 DEF TypeOK
    <3>4. state'[c] \in {"raised", "empty", "ok"} /\ (state'[c] = "ok" => <<c, Done>> \in replies)
      <4>1. Taken(a) \in {"raised", "empty", "ok"} /\ (Taken(a) = "ok" => a = Done)
        BY DEF Taken, raises, Answers, Done, Bad, NoUpstream, Moved
      <4> QED
        BY <2>0, <3>2, <4>1 DEF TypeOK
    <3>5. CallFine(c)'
      <4>1. CallFine(c) /\ (Write(c))' = Write(c)
        BY <2>0, <3>1 DEF CallInv, Write
      <4>2. state[c] \notin {"none", "refused"}
        BY <3>2, <4>1 DEF CallFine
      <4>3. replies' \subseteq replies
        BY <3>2
      <4> QED
        BY <3>1, <3>4, <4>1, <4>2, <4>3 DEF CallFine
    <3>6. CallInv'
      <4> SUFFICES ASSUME NEW d \in Calls, d # c PROVE CallFine(d)'
        BY <3>5 DEF CallInv
      <4> QED
        BY <2>0, <3>1, <3>2, <3>3, Others DEF CallInv
    <3> QED
      BY <2>0, <3>1, <3>6 DEF SiteInv
  <2>10. ASSUME NEW c \in Calls, Timeout(c) PROVE SiteInv' /\ CallInv'
    <3>1. UNCHANGED <<site, database, held, creator, tool, applied, wire, replies>>
      BY <2>10 DEF Timeout, containers, volumes, net
    <3>2. state[c] = "sent" /\ state'[c] = "raised" /\ \A d \in Calls : d # c => state'[d] = state[d]
      BY <2>0, <2>10 DEF Timeout, TypeOK
    <3>3. CallFine(c)'
      <4>1. CallFine(c) /\ (Write(c))' = Write(c)
        BY <2>0, <3>1 DEF CallInv, Write
      <4> QED
        BY <3>1, <3>2, <4>1 DEF CallFine
    <3>4. CallInv'
      <4> SUFFICES ASSUME NEW d \in Calls, d # c PROVE CallFine(d)'
        BY <3>3 DEF CallInv
      <4> QED
        BY <2>0, <3>1, <3>2, Others DEF CallInv
    <3> QED
      BY <2>0, <3>1, <3>4 DEF SiteInv
  <2>11. CASE Restart
    <3>1. UNCHANGED <<site, database, held, creator, tool, applied, wire, replies>>
      BY <2>11 DEF Restart, containers, volumes, net
    <3>2. \A d \in Calls : state'[d] = IF state[d] = "sent" THEN "raised" ELSE state[d]
      BY <2>11 DEF Restart
    <3>3. CallInv'
      <4> SUFFICES ASSUME NEW d \in Calls PROVE CallFine(d)'
        BY DEF CallInv
      <4>1. CallFine(d) /\ (Write(d))' = Write(d)
        BY <2>0, <3>1 DEF CallInv, Write
      <4> QED
        BY <3>1, <3>2, <4>1 DEF CallFine
    <3> QED
      BY <2>0, <3>1, <3>3 DEF SiteInv
  <2>12. ASSUME NEW c \in Calls, Redirect(c) PROVE SiteInv' /\ CallInv'
    <3>1. UNCHANGED <<site, database, held, creator, tool, state, applied>>
      BY <2>12 DEF Redirect, containers, volumes, client
    <3>2. PICK m \in Moved : wire' = wire \ {c} /\ c \in wire /\ replies' = replies \union {<<c, m>>}
      BY <2>12 DEF Redirect
    <3>3. m # Done
      BY DEF Moved, Done
    <3>4. CallFine(c)'
      <4>1. CallFine(c) /\ (Write(c))' = Write(c)
        BY <2>0, <3>1 DEF CallInv, Write
      <4>2. <<c, Done>> \notin replies' /\ c \notin wire' /\ state[c] \notin {"none", "refused"}
        BY <3>2, <3>3, <4>1 DEF CallFine
      <4> QED
        BY <3>1, <4>1, <4>2 DEF CallFine
    <3>5. CallInv'
      <4> SUFFICES ASSUME NEW d \in Calls, d # c PROVE CallFine(d)'
        BY <3>4 DEF CallInv
      <4>1. \A a \in Answers : <<d, a>> \in replies' => <<d, a>> \in replies
        BY <3>2
      <4> QED
        BY <2>0, <3>1, <3>2, <4>1, Others DEF CallInv
    <3> QED
      BY <2>0, <3>1, <3>5 DEF SiteInv
  <2>13. CASE UNCHANGED vars
    BY <2>0, <2>13, Idle DEF vars, containers, volumes, client, net, SiteInv
  <2> QED
    BY <2>1, <2>2, <2>3, <2>4, <2>5, <2>6, <2>7, <2>8, <2>9, <2>10, <2>11, <2>12, <2>13 DEF Next
<1> QED
  BY <1>1, <1>2, PTL DEF Spec

\* What was answered for is in the database, for any number of calls and stops.
THEOREM DocumentsAreKept == Spec => []DocumentsSurvive
<1>1. IInv => DocumentsSurvive
  BY DEF IInv, SiteInv, CallInv, CallFine, DocumentsSurvive
<1> QED
  BY <1>1, Inductive, PTL

\* An answer tells what was done, once.
THEOREM AnswersAreTrue == Spec => []AnswerIsTrue
<1>1. IInv => AnswerIsTrue
  BY DEF IInv, CallInv, CallFine, AnswerIsTrue
<1> QED
  BY <1>1, Inductive, PTL

-----------------------------------------------------------------------------
(* The daemon.                                                              *)

DaemonHyp == None \notin Pids /\ MaxStarts \in Nat /\ MaxUpsets \in Nat

\* A pid file that is not there, or names the daemon it is for.
Own(d) == pidfile[d] = None \/ procs[pidfile[d]] = d

\* Between the clearing and the launch, whoever writes a pid file has launched.
ClearedInv ==
  \A r \in Runs : ~fell[r] =>
    /\ pc[r] \in {"clear_run", "launch"} => Own("dockerd")
    /\ pc[r] = "launch" => Own("containerd")

\* Nothing can bring a daemon up as long as a stop is still.
StopInv ==
  \A r \in Runs : still[r] =>
    /\ \A q \in Runs : pc[q] \notin D!Starting
    /\ pc[r] \in {"rm_pid", "rm_run", "stopped"} => \A p \in Pids : procs[p] \notin D!Daemons
    /\ pc[r] \in {"rm_run", "stopped"} => pidfile["dockerd"] = None
    /\ pc[r] = "stopped" => pidfile["containerd"] = None

DaemonInv == D!TypeOK /\ ClearedInv /\ StopInv

LEMMA DaemonInductive == DaemonHyp /\ D!Spec => []DaemonInv
<1> SUFFICES ASSUME DaemonHyp PROVE D!Spec => []DaemonInv
  OBVIOUS
<1> USE DEF DaemonHyp
<1>1. D!Init => DaemonInv
  <2> SUFFICES ASSUME D!Init PROVE DaemonInv
    OBVIOUS
  <2>1. D!TypeOK
    BY DEF D!Init, D!TypeOK, D!Daemons, D!Ended
  <2>2. ClearedInv /\ StopInv
    BY DEF D!Init, ClearedInv, StopInv
  <2> QED
    BY <2>1, <2>2 DEF DaemonInv
<1>2. DaemonInv /\ [D!Next]_D!vars => DaemonInv'
  <2> SUFFICES ASSUME DaemonInv, [D!Next]_D!vars PROVE DaemonInv'
    OBVIOUS
  <2>0. D!TypeOK /\ ClearedInv /\ StopInv
    BY DEF DaemonInv
  <2>1. ASSUME NEW r \in Runs, D!Start(r) PROVE DaemonInv'
    <3>1. /\ UNCHANGED <<procs, pidfile, upsets>> /\ starts' \in 0..MaxStarts
          /\ fell' = [fell EXCEPT ![r] = FALSE] /\ still' = [q \in Runs |-> FALSE]
      BY <2>0, <2>1 DEF D!Start, D!Begins, D!TypeOK
    <3>2. PICK next \in {"ended", "clear"} : pc' = [pc EXCEPT ![r] = next]
      BY <2>1 DEF D!Start
    <3>3. D!TypeOK'
      BY <2>0, <3>1, <3>2 DEF D!TypeOK, D!Starting, D!Ended
    <3>4. ClearedInv'
      BY <2>0, <3>1, <3>2 DEF ClearedInv, D!TypeOK, Own
    <3>5. StopInv'
      BY <3>1 DEF StopInv
    <3> QED
      BY <3>3, <3>4, <3>5 DEF DaemonInv
  <2>2. ASSUME NEW r \in Runs, D!ClearDocker(r) PROVE DaemonInv'
    <3>1. /\ pc[r] = "clear" /\ pc' = [pc EXCEPT ![r] = "clear_run"]
          /\ pidfile' = [pidfile EXCEPT !["dockerd"] = None]
          /\ UNCHANGED <<procs, fell, still, starts, upsets>>
      BY <2>2 DEF D!ClearDocker, D!Goes, D!Cleared
    <3>2. D!TypeOK'
      BY <2>0, <3>1 DEF D!TypeOK, D!Starting
    <3>3. ClearedInv'
      BY <2>0, <3>1 DEF ClearedInv, D!TypeOK, Own, D!Daemons
    <3>4. StopInv'
      BY <2>0, <3>1 DEF StopInv, D!TypeOK, D!Starting
    <3> QED
      BY <3>2, <3>3, <3>4 DEF DaemonInv
  <2>3. ASSUME NEW r \in Runs, D!ClearRun(r) PROVE DaemonInv'
    <3>1. /\ pc[r] = "clear_run" /\ pc' = [pc EXCEPT ![r] = "launch"]
          /\ pidfile' = [pidfile EXCEPT !["containerd"] = None]
          /\ UNCHANGED <<procs, fell, still, starts, upsets>>
      BY <2>3 DEF D!ClearRun, D!Goes, D!Cleared
    <3>2. D!TypeOK'
      BY <2>0, <3>1 DEF D!TypeOK, D!Starting
    <3>3. ClearedInv'
      BY <2>0, <3>1 DEF ClearedInv, D!TypeOK, Own, D!Daemons
    <3>4. StopInv'
      BY <2>0, <3>1 DEF StopInv, D!TypeOK, D!Starting
    <3> QED
      BY <3>2, <3>3, <3>4 DEF DaemonInv
  <2>4. ASSUME NEW r \in Runs, NEW from \in {"launch", "native"}, D!Launch(r, from) PROVE DaemonInv'
    <3>1. pc[r] \in D!Starting /\ UNCHANGED <<fell, still, starts, upsets>>
      BY <2>4 DEF D!Launch, D!Starting
    <3>2. \A q \in Runs : ~still[q]
      BY <2>0, <3>1 DEF StopInv
    <3>3. StopInv'
      BY <3>1, <3>2 DEF StopInv
    <3>4. PICK next \in {"stranger", "ended", "started"} : pc' = [pc EXCEPT ![r] = next]
      BY <2>4 DEF D!Launch
    <3>5. CASE UNCHANGED <<procs, pidfile>>
      <4>1. D!TypeOK'
        BY <2>0, <3>1, <3>4, <3>5 DEF D!TypeOK, D!Ended
      <4>2. ClearedInv'
        BY <2>0, <3>1, <3>4, <3>5 DEF ClearedInv, D!TypeOK, Own
      <4> QED
        BY <3>3, <4>1, <4>2 DEF DaemonInv
    <3>6. CASE ~UNCHANGED <<procs, pidfile>>
      <4>1. PICK p \in Pids, q \in Pids :
              /\ p # q
              /\ procs' = [procs EXCEPT ![p] = "dockerd", ![q] = "containerd"]
              /\ pidfile' = [dockerd |-> p, containerd |-> q]
        BY <2>4, <3>6 DEF D!Launch
      <4>2. procs'[p] = "dockerd" /\ procs'[q] = "containerd"
            /\ procs' \in [Pids -> D!Daemons \union {"free", "other"}]
        BY <2>0, <4>1 DEF D!TypeOK, D!Daemons
      <4>3. /\ pidfile'["dockerd"] = p /\ pidfile'["containerd"] = q
            /\ pidfile' \in [D!Daemons -> Pids \union {None}]
        BY <4>1 DEF D!Daemons
      <4>4. D!TypeOK'
        BY <2>0, <3>1, <3>4, <4>2, <4>3 DEF D!TypeOK, D!Ended
      <4>5. ClearedInv'
        BY <4>2, <4>3 DEF ClearedInv, Own
      <4> QED
        BY <3>3, <4>4, <4>5 DEF DaemonInv
    <3> QED
      BY <3>5, <3>6
  <2>5. ASSUME NEW r \in Runs, D!Native(r) PROVE DaemonInv'
    <3>1. /\ UNCHANGED <<procs, pidfile, upsets, fell>> /\ starts' \in 0..MaxStarts
          /\ still' = [q \in Runs |-> FALSE] /\ pc' = [pc EXCEPT ![r] = "native"]
      BY <2>0, <2>5 DEF D!Native, D!Begins, D!TypeOK
    <3>2. D!TypeOK'
      BY <2>0, <3>1 DEF D!TypeOK, D!Starting
    <3>3. ClearedInv'
      BY <2>0, <3>1 DEF ClearedInv, D!TypeOK, Own
    <3>4. StopInv'
      BY <3>1 DEF StopInv
    <3> QED
      BY <3>2, <3>3, <3>4 DEF DaemonInv
  <2>6. ASSUME NEW r \in Runs, D!Stop(r) PROVE DaemonInv'
    <3>1. UNCHANGED <<procs, pidfile, upsets, fell>> /\ starts' \in 0..MaxStarts
      BY <2>0, <2>6 DEF D!Stop, D!Begins, D!TypeOK
    <3>2. PICK next \in {"kill", "ended"} : pc' = [pc EXCEPT ![r] = next]
      BY <2>6 DEF D!Stop
    <3> DEFINE b == \A q \in Runs : pc[q] \notin D!Starting
    <3>3. still' = [still EXCEPT ![r] = b] /\ b \in BOOLEAN
      BY <2>6 DEF D!Stop
    <3>4. /\ still' \in [Runs -> BOOLEAN] /\ still'[r] = b
          /\ \A q \in Runs : q # r => still'[q] = still[q] /\ pc'[q] = pc[q]
          /\ pc'[r] = next
      <4> HIDE DEF b
      <4> QED BY <2>0, <3>2, <3>3 DEF D!TypeOK
    <3>5. D!TypeOK'
      BY <2>0, <3>1, <3>2, <3>4 DEF D!TypeOK, D!Stopping, D!Ended
    <3>6. ClearedInv'
      BY <2>0, <3>1, <3>4 DEF ClearedInv, Own
    <3>7. StopInv'
      BY <2>0, <3>1, <3>4 DEF StopInv, D!Starting
    <3> QED
      BY <3>5, <3>6, <3>7 DEF DaemonInv
  <2>7. ASSUME NEW r \in Runs, D!Kill(r) PROVE DaemonInv'
    <3>1. /\ pc[r] = "kill" /\ pc' = [pc EXCEPT ![r] = "rm_pid"]
          /\ fell' = [q \in Runs |-> TRUE] /\ UNCHANGED <<pidfile, still, starts, upsets>>
      BY <2>7 DEF D!Kill, D!Goes
    <3>2. /\ procs' \in [Pids -> D!Daemons \union {"free", "other"}]
          /\ \A p \in Pids : procs'[p] \notin D!Daemons
      BY <2>0, <2>7 DEF D!Kill, D!Without, D!Swept, D!TypeOK, D!Daemons
    <3>3. D!TypeOK'
      BY <2>0, <3>1, <3>2 DEF D!TypeOK, D!Stopping
    <3>4. ClearedInv'
      BY <3>1 DEF ClearedInv
    <3>5. StopInv'
      BY <2>0, <3>1, <3>2 DEF StopInv, D!TypeOK, D!Starting
    <3> QED
      BY <3>3, <3>4, <3>5 DEF DaemonInv
  <2>8. ASSUME NEW r \in Runs, D!RmPid(r) PROVE DaemonInv'
    <3>1. /\ pc[r] = "rm_pid" /\ pc' = [pc EXCEPT ![r] = "rm_run"]
          /\ pidfile' = [pidfile EXCEPT !["dockerd"] = None]
          /\ UNCHANGED <<procs, fell, still, starts, upsets>>
      BY <2>8 DEF D!RmPid, D!Goes
    <3>2. D!TypeOK'
      BY <2>0, <3>1 DEF D!TypeOK, D!Stopping
    <3>3. ClearedInv'
      BY <2>0, <3>1 DEF ClearedInv, D!TypeOK, Own, D!Daemons
    <3>4. StopInv'
      BY <2>0, <3>1 DEF StopInv, D!TypeOK, D!Starting, D!Daemons
    <3> QED
      BY <3>2, <3>3, <3>4 DEF DaemonInv
  <2>9. ASSUME NEW r \in Runs, D!RmRun(r) PROVE DaemonInv'
    <3>1. /\ pc[r] = "rm_run" /\ pc' = [pc EXCEPT ![r] = "stopped"]
          /\ pidfile' = [pidfile EXCEPT !["containerd"] = None]
          /\ UNCHANGED <<procs, fell, still, starts, upsets>>
      BY <2>9 DEF D!RmRun, D!Goes
    <3>2. D!TypeOK'
      BY <2>0, <3>1 DEF D!TypeOK, D!Ended
    <3>3. ClearedInv'
      BY <2>0, <3>1 DEF ClearedInv, D!TypeOK, Own, D!Daemons
    <3>4. StopInv'
      BY <2>0, <3>1 DEF StopInv, D!TypeOK, D!Starting, D!Daemons
    <3> QED
      BY <3>2, <3>3, <3>4 DEF DaemonInv
  <2>10. ASSUME NEW r \in Runs, D!Interrupt(r) PROVE DaemonInv'
    <3>1. /\ pc' = [pc EXCEPT ![r] = "ended"] /\ upsets' \in 0..MaxUpsets
          /\ UNCHANGED <<procs, pidfile, fell, still, starts>>
      BY <2>0, <2>10 DEF D!Interrupt, D!Upset, D!TypeOK
    <3>2. D!TypeOK'
      BY <2>0, <3>1 DEF D!TypeOK, D!Ended
    <3>3. ClearedInv'
      BY <2>0, <3>1 DEF ClearedInv, D!TypeOK, Own
    <3>4. StopInv'
      BY <2>0, <3>1 DEF StopInv, D!TypeOK, D!Starting
    <3> QED
      BY <3>2, <3>3, <3>4 DEF DaemonInv
  <2>11. CASE D!Dies
    <3>1. /\ fell' = [r \in Runs |-> TRUE] /\ upsets' \in 0..MaxUpsets
          /\ UNCHANGED <<pidfile, pc, still, starts>>
      BY <2>0, <2>11 DEF D!Dies, D!Upset, D!TypeOK
    <3>2. /\ procs' \in [Pids -> D!Daemons \union {"free", "other"}]
          /\ \A p \in Pids : procs'[p] \in D!Daemons => procs[p] \in D!Daemons
      BY <2>0, <2>11 DEF D!Dies, D!Without, D!TypeOK, D!Daemons
    <3>3. D!TypeOK'
      BY <2>0, <3>1, <3>2 DEF D!TypeOK
    <3>4. ClearedInv'
      BY <3>1 DEF ClearedInv
    <3>5. StopInv'
      BY <2>0, <3>1, <3>2 DEF StopInv
    <3> QED
      BY <3>3, <3>4, <3>5 DEF DaemonInv
  <2>12. CASE D!Reboot
    <3>1. /\ pc' = [r \in Runs |-> "ended"] /\ upsets' \in 0..MaxUpsets
          /\ procs' \in [Pids -> {"free", "other"}]
          /\ UNCHANGED <<pidfile, fell, still, starts>>
      BY <2>0, <2>12 DEF D!Reboot, D!Upset, D!TypeOK
    <3>2. D!TypeOK'
      BY <2>0, <3>1 DEF D!TypeOK, D!Ended
    <3>3. ClearedInv' /\ StopInv'
      BY <3>1 DEF ClearedInv, StopInv, D!Starting
    <3> QED
      BY <3>2, <3>3 DEF DaemonInv
  <2>13. CASE D!OtherProcess
    <3>1. UNCHANGED <<pidfile, pc, fell, still, starts, upsets>>
      BY <2>13 DEF D!OtherProcess
    <3>2. /\ procs' \in [Pids -> D!Daemons \union {"free", "other"}]
          /\ \A p \in Pids, d \in D!Daemons : procs'[p] = d <=> procs[p] = d
      BY <2>0, <2>13 DEF D!OtherProcess, D!TypeOK, D!Daemons
    <3>3. D!TypeOK'
      BY <2>0, <3>1, <3>2 DEF D!TypeOK
    <3>4. ClearedInv'
      BY <2>0, <3>1, <3>2 DEF ClearedInv, Own, D!TypeOK, D!Daemons
    <3>5. StopInv'
      BY <2>0, <3>1, <3>2 DEF StopInv
    <3> QED
      BY <3>3, <3>4, <3>5 DEF DaemonInv
  <2>14. CASE UNCHANGED D!vars
    BY <2>0, <2>14 DEF D!vars, DaemonInv, D!TypeOK, ClearedInv, Own, StopInv
  <2> QED
    BY <2>1, <2>2, <2>3, <2>4, <2>5, <2>6, <2>7, <2>8, <2>9, <2>10, <2>11, <2>12, <2>13, <2>14
    DEF D!Next
<1> QED
  BY <1>1, <1>2, PTL DEF D!Spec

\* No process of somebody else is there under a number that a daemon_start launches
\* by, for any number of runs, pids and upsets.
THEOREM LaunchIsClear == DaemonHyp /\ D!Spec => []D!ClearedForLaunch
<1>1. DaemonInv => D!ClearedForLaunch
  BY DEF DaemonInv, ClearedInv, Own, D!ClearedForLaunch, D!Stranger, D!Named, D!Daemons
<1> QED
  BY <1>1, DaemonInductive, PTL

\* A stop that nothing has been starting after leaves no daemon and no pid file,
\* however many the starts before it had overlapped to bring up.
THEOREM NoneIsLeft == DaemonHyp /\ D!Spec => []D!StopLeavesNone
<1>1. DaemonInv => D!StopLeavesNone
  BY DEF DaemonInv, StopInv, D!StopLeavesNone, D!Daemons
<1> QED
  BY <1>1, DaemonInductive, PTL
===============================================================================
