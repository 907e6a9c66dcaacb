---------------------------------- MODULE Daemon ----------------------------------
(***************************************************************************)
(* How dockerd is started and stopped on the phone: daemon_start and       *)
(* daemon_stop of scripts/device/native-compat/daemon.sh, run at boot, by  *)
(* dockerctl and by hand, and the native-docker.sh they call, which        *)
(* stack/deploy.sh has people run themselves.  Pid files lie in /data and  *)
(* survive a reboot; pids are given to others.  Nothing keeps one run from *)
(* another, and each tests what it finds only once, at its start.          *)
(***************************************************************************)
EXTENDS Naturals

CONSTANTS
  Runs,      \* runs of the functions that there can be at a time
  Pids,      \* process numbers
  None,      \* no pid
  MaxStarts, \* bound on the runs altogether
  MaxUpsets  \* bound on kills, reboots and interruptions

ASSUME MarkAssumption == None \notin Pids
ASSUME BoundsAssumption == MaxStarts \in Nat /\ MaxUpsets \in Nat

VARIABLES
  procs,   \* what runs under a pid
  pidfile, \* docker.pid, and the one of containerd in exec or run
  pc,      \* of a run: its next command
  fell,    \* ... a daemon has ended since it began
  still,   \* ... nothing has been starting since it began
  starts, upsets

vars == <<procs, pidfile, pc, fell, still, starts, upsets>>

Daemons  == {"dockerd", "containerd"}
Starting == {"clear", "clear_run", "launch", "native"}
Stopping == {"kill", "rm_pid", "rm_run"}
Ended    == {"ended", "started", "stopped", "stranger"}

TypeOK ==
  /\ procs \in [Pids -> Daemons \union {"free", "other"}]
  /\ pidfile \in [Daemons -> Pids \union {None}]
  /\ pc \in [Runs -> Starting \union Stopping \union Ended]
  /\ fell \in [Runs -> BOOLEAN] /\ still \in [Runs -> BOOLEAN]
  /\ starts \in 0..MaxStarts /\ upsets \in 0..MaxUpsets

Init ==
  /\ procs \in [Pids -> {"free", "other"}] /\ pidfile = [d \in Daemons |-> None]
  /\ pc = [r \in Runs |-> "ended"]
  /\ fell = [r \in Runs |-> FALSE] /\ still = [r \in Runs |-> FALSE]
  /\ starts = 0 /\ upsets = 0

Goes(r, now, next) == pc[r] = now /\ pc' = [pc EXCEPT ![r] = next]

running == \E p \in Pids : procs[p] = "dockerd"

Begins(r) ==
  /\ pc[r] \in Ended /\ starts < MaxStarts
  /\ starts' = starts + 1
  /\ UNCHANGED <<procs, pidfile, upsets>>

-----------------------------------------------------------------------------
(* daemon_start.                                                           *)

\* mount_chroot may fail.
Start(r) ==
  /\ Begins(r)
  /\ \/ pc' = [pc EXCEPT ![r] = "ended"]
     \/ ~running /\ pc' = [pc EXCEPT ![r] = "clear"]
  /\ fell' = [fell EXCEPT ![r] = FALSE]
  /\ still' = [q \in Runs |-> FALSE]

\* Mutant: the file is emptied.
Emptied(d) == ""

\* Mutant: what containerd has left is not cleared.
Forgotten(d) == IF d = "dockerd" THEN None ELSE pidfile[d]

Cleared(d) == None
ClearDocker(r) ==
  /\ Goes(r, "clear", "clear_run")
  /\ pidfile' = [pidfile EXCEPT !["dockerd"] = Cleared("dockerd")]
  /\ UNCHANGED <<procs, fell, still, starts, upsets>>

ClearRun(r) ==
  /\ Goes(r, "clear_run", "launch")
  /\ pidfile' = [pidfile EXCEPT !["containerd"] = Cleared("containerd")]
  /\ UNCHANGED <<procs, fell, still, starts, upsets>>

\* The process that a pid file names, if there is one.
Named(d) == IF pidfile[d] = None THEN "free" ELSE procs[pidfile[d]]
Stranger == \E d \in Daemons : Named(d) \notin {"free", d}

\* native-docker.sh start.  dockerd refuses to start while there is a process of the
\* number in its file, and takes the one of the other file for its containerd.
Launch(r, from) ==
  /\ pc[r] = from
  /\ \/ /\ Stranger
        /\ pc' = [pc EXCEPT ![r] = "stranger"]
        /\ UNCHANGED <<procs, pidfile>>
     \/ /\ ~Stranger
        /\ pc' = [pc EXCEPT ![r] = "ended"]
        /\ UNCHANGED <<procs, pidfile>>
     \/ /\ ~Stranger /\ Named("dockerd") = "free"
        /\ \E p, q \in Pids :
             /\ p # q /\ procs[p] = "free"
             /\ IF Named("containerd") = "free" THEN procs[q] = "free" ELSE q = pidfile["containerd"]
             /\ procs' = [procs EXCEPT ![p] = "dockerd", ![q] = "containerd"]
             /\ pidfile' = [dockerd |-> p, containerd |-> q]
        /\ pc' = [pc EXCEPT ![r] = "started"]
  /\ UNCHANGED <<fell, still, starts, upsets>>

\* What deploy.sh has people run when it finds no dockerd.
Native(r) ==
  /\ Begins(r) /\ ~running
  /\ pc' = [pc EXCEPT ![r] = "native"]
  /\ still' = [q \in Runs |-> FALSE]
  /\ UNCHANGED fell

-----------------------------------------------------------------------------
(* daemon_stop.                                                            *)

Stop(r) ==
  /\ Begins(r)
  /\ pc' = [pc EXCEPT ![r] = IF running THEN "kill" ELSE "ended"]
  /\ still' = [still EXCEPT ![r] = \A q \in Runs : pc[q] \notin Starting]
  /\ UNCHANGED fell

\* Mutant: only what the pid files name.
ByPidFile == {p \in Pids : \E d \in Daemons : pidfile[d] = p /\ procs[p] = d}

\* pkill by the path of the binary, dockerd and containerd each.
Swept == {p \in Pids : procs[p] \in Daemons}
Without(dead) == [p \in Pids |-> IF p \in dead THEN "free" ELSE procs[p]]
Kill(r) ==
  /\ Goes(r, "kill", "rm_pid")
  /\ procs' = Without(Swept)
  /\ fell' = [q \in Runs |-> TRUE]
  /\ UNCHANGED <<pidfile, still, starts, upsets>>

RmPid(r) ==
  /\ Goes(r, "rm_pid", "rm_run")
  /\ pidfile' = [pidfile EXCEPT !["dockerd"] = None]
  /\ UNCHANGED <<procs, fell, still, starts, upsets>>

RmRun(r) ==
  /\ Goes(r, "rm_run", "stopped")
  /\ pidfile' = [pidfile EXCEPT !["containerd"] = None]
  /\ UNCHANGED <<procs, fell, still, starts, upsets>>

-----------------------------------------------------------------------------
(* What else happens.                                                      *)

Upset == upsets < MaxUpsets /\ upsets' = upsets + 1 /\ UNCHANGED <<pidfile, starts>>

\* Either may be killed without the other.
Dies ==
  /\ Upset
  /\ \E p \in Pids : procs[p] \in Daemons /\ procs' = Without({p})
  /\ fell' = [r \in Runs |-> TRUE]
  /\ UNCHANGED <<pc, still>>

\* The scripts are gone, and every pid is somebody else's.
Reboot ==
  /\ Upset
  /\ procs' \in [Pids -> {"free", "other"}]
  /\ pc' = [r \in Runs |-> "ended"]
  /\ UNCHANGED <<fell, still>>

Interrupt(r) ==
  /\ Upset
  /\ pc[r] \notin Ended /\ pc' = [pc EXCEPT ![r] = "ended"]
  /\ UNCHANGED <<procs, fell, still>>

OtherProcess ==
  /\ \E p \in Pids : \/ procs[p] = "free" /\ procs' = [procs EXCEPT ![p] = "other"]
                     \/ procs[p] = "other" /\ procs' = [procs EXCEPT ![p] = "free"]
  /\ UNCHANGED <<pidfile, pc, fell, still, starts, upsets>>

Next ==
  \/ \E r \in Runs :
       \/ Start(r) \/ ClearDocker(r) \/ ClearRun(r) \/ Launch(r, "launch")
       \/ Native(r) \/ Launch(r, "native")
       \/ Stop(r) \/ Kill(r) \/ RmPid(r) \/ RmRun(r) \/ Interrupt(r)
  \/ Dies \/ Reboot \/ OtherProcess

Spec == Init /\ [][Next]_vars

-----------------------------------------------------------------------------
(* Properties.                                                             *)

\* What daemon_start launches meets no process of somebody else under the number of
\* a daemon ("Clear both every time"): not one that has the pid since a reboot, nor
\* since a daemon was killed, whatever other runs write and delete meanwhile, unless
\* a daemon ends between the clearing and the launch.
ClearedForLaunch ==
  \A r \in Runs : pc[r] = "launch" /\ ~fell[r] => ~Stranger

\* A stop that went through leaves no daemon and no pid file, also of the second
\* daemon that two overlapping starts can bring up (each deletes the other's pid file
\* after its test of line 5), and of a containerd that has lost its dockerd; unless a
\* run has been starting since.
StopLeavesNone ==
  \A r \in Runs : pc[r] = "stopped" /\ still[r] =>
    (\A p \in Pids : procs[p] \notin Daemons) /\ \A d \in Daemons : pidfile[d] = None
===================================================================================
