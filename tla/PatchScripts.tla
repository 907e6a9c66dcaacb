---------------------------- MODULE PatchScripts ----------------------------
(***************************************************************************)
(* The three scripts that teach a 4.14 kernel tree the cgroup program and  *)
(* attach types Android's netd and runc ask for:                           *)
(*                                                                         *)
(*   attach_types   scripts/add_cgroup_attach_types.py                     *)
(*   sockopt        scripts/add_cgroup_sockopt.py                          *)
(*   device         scripts/add_cgroup_device.py                           *)
(*                                                                         *)
(* Each one is run from the root of a kernel tree, edits one file after    *)
(* another and ends with a post-condition.  A file is abstracted to what   *)
(* the scripts can tell apart in it: the names it declares, the case       *)
(* labels of the four attach-type switches of kernel/bpf/syscall.c, and    *)
(* the text anchors the edits look for.  A script may be killed between    *)
(* two writes or in the middle of one, may stop at any of its FATAL exits, *)
(* and may be run again, in any order, on whatever tree it left behind.    *)
(***************************************************************************)
EXTENDS Naturals

CONSTANTS
  NativeTypes,  \* attach types a tree declares that no script adds
  NativeValue,  \* their values in enum bpf_attach_type
  Trees         \* the kernel trees the scripts may be run on

SockAddrTypes == {"UDP4_SENDMSG", "UDP6_SENDMSG", "UDP4_RECVMSG", "UDP6_RECVMSG"}
SockoptTypes  == {"GETSOCKOPT", "SETSOCKOPT"}
NewAttach     == SockAddrTypes \union SockoptTypes
AttachType    == NativeTypes \union NewAttach \union {"CGROUP_DEVICE"}

ProgType == {"SOCK_OPS", "SOCK_ADDR", "CGROUP_SOCKOPT", "CGROUP_DEVICE"}

\* The explicit values the scripts give the names they add.
NewValue(n) ==
  CASE n = "UDP4_SENDMSG"  -> 14
    [] n = "UDP6_SENDMSG"  -> 15
    [] n = "UDP4_RECVMSG"  -> 19
    [] n = "UDP6_RECVMSG"  -> 20
    [] n = "GETSOCKOPT"    -> 21
    [] n = "SETSOCKOPT"    -> 22
    [] n = "CGROUP_DEVICE" -> 6

Value(n) == IF n \in NativeTypes THEN NativeValue[n] ELSE NewValue(n)

ASSUME NativeAssumption ==
  /\ {"SOCK_OPS", "STREAM_VERDICT", "INET6_CONNECT"} \subseteq NativeTypes
  /\ NativeTypes \intersect (NewAttach \union {"CGROUP_DEVICE"}) = {}
  /\ NativeValue \in [NativeTypes -> Nat]
  /\ \A n \in NativeTypes : (NativeValue[n] = 5) <=> (n = "STREAM_VERDICT")

-----------------------------------------------------------------------------
(* The contents of the edited files.                                       *)

\* syscall.c decides on attach types in four switches.  attach and detach
\* also choose the program type, "EINVAL" being their default arm.
Switches == {"load", "attach", "detach", "query"}
Routes   == [AttachType -> ProgType \union {"EINVAL"}]

\* Texts the edits of syscall.c search for.
SyscallAnchors ==
  {"load_return", "load_switch", "check_arm", "query_connect", "query_sockops",
   "addr_attach", "addr_detach", "sockops_attach", "sockops_detach"}

UapiText ==
  [attach : SUBSET AttachType,            \* enum bpf_attach_type
   last   : AttachType \union {"none"},   \* its last enumerator before __MAX
   prog   : SUBSET ProgType]              \* enum bpf_prog_type, with ctx structs
FilterHText == SUBSET {"sock_ops_kern", "sockopt_kern"}
TypesText   == SUBSET {"sock_addr_ops", "sockopt_ops", "device_ops"}
FilterCText == SUBSET {"sock_addr_ops", "sockopt_ops"}
CgroupText  == SUBSET {"run_filter_sock_ops", "device_ops"}
SyscallText ==
  [load    : SUBSET (ProgType \X AttachType),
   attach  : Routes,
   detach  : Routes,
   query   : SUBSET AttachType,
   checked : SUBSET ProgType,             \* arms of attach_check_attach_type
   anchors : SUBSET SyscallAnchors]

Tree ==
  [uapi : UapiText, filter_h : FilterHText, types : TypesText,
   filter_c : FilterCText, cgroup : CgroupText, syscall : SyscallText]

ASSUME TreesAssumption == Trees \subseteq Tree

\* open(path, "w") truncates the file before the new text reaches it.
EmptyUapi    == [attach |-> {}, last |-> "none", prog |-> {}]
EmptySyscall ==
  [load |-> {}, attach |-> [n \in AttachType |-> "EINVAL"],
   detach |-> [n \in AttachType |-> "EINVAL"], query |-> {}, checked |-> {},
   anchors |-> {}]

\* __MAX_BPF_ATTACH_TYPE is the last enumerator plus one and sizes
\* cgrp->bpf.progs[]: it covers every type when the last one is the largest.
MaxCovers(u) ==
  u.attach # {} => /\ u.last \in u.attach
                   /\ \A n \in u.attach : Value(n) <= Value(u.last)

\* The switches with a case label for attach type n.
Labels(sys, n) ==
  {sw \in Switches :
     \/ sw = "load"   /\ \E p \in ProgType : <<p, n>> \in sys.load
     \/ sw = "attach" /\ sys.attach[n] # "EINVAL"
     \/ sw = "detach" /\ sys.detach[n] # "EINVAL"
     \/ sw = "query"  /\ n \in sys.query}

\* Whether the text of syscall.c names program type p at all.
Mentions(sys, p) ==
  \/ \E n \in AttachType :
        <<p, n>> \in sys.load \/ sys.attach[n] = p \/ sys.detach[n] = p
  \/ p \in sys.checked

AddRoute(route, names, p) ==
  [n \in AttachType |-> IF n \in names THEN p ELSE route[n]]

-----------------------------------------------------------------------------
VARIABLES
  uapi, filter_h, types, filter_c, cgroup, syscall,  \* the kernel tree
  script,   \* the script running, or "none"
  stage,    \* where it is
  changed,  \* whether it has written a file
  exit      \* how the last run of each script ended

tree == <<uapi, filter_h, types, filter_c, cgroup, syscall>>
vars == <<uapi, filter_h, types, filter_c, cgroup, syscall,
          script, stage, changed, exit>>

Scripts == {"attach_types", "sockopt", "device"}
Stages  == {"start", "uapi", "filter_h", "types", "filter_c", "cgroup",
            "syscall", "verify"}
Results == {"never_run", "running", "applied", "nothing_to_do",
            "already_present", "fatal", "killed"}

TypeOK ==
  /\ uapi \in UapiText
  /\ filter_h \in FilterHText
  /\ types \in TypesText
  /\ filter_c \in FilterCText
  /\ cgroup \in CgroupText
  /\ syscall \in SyscallText
  /\ script \in Scripts \union {"none"}
  /\ stage \in Stages
  /\ changed \in BOOLEAN
  /\ exit \in [Scripts -> Results]

Init ==
  /\ \E t \in Trees :
        /\ uapi = t.uapi
        /\ filter_h = t.filter_h
        /\ types = t.types
        /\ filter_c = t.filter_c
        /\ cgroup = t.cgroup
        /\ syscall = t.syscall
  /\ script = "none"
  /\ stage = "start"
  /\ changed = FALSE
  /\ exit = [s \in Scripts |-> "never_run"]

-----------------------------------------------------------------------------
(* How a script moves from file to file.                                   *)

At(s, st) == script = s /\ stage = st

Start(s) ==
  /\ script = "none"
  /\ script' = s
  /\ stage' = "uapi"
  /\ changed' = FALSE
  /\ exit' = [exit EXCEPT ![s] = "running"]
  /\ UNCHANGED tree

\* The script ends with this result.
End(result) ==
  /\ script' = "none"
  /\ stage' = "start"
  /\ changed' = FALSE
  /\ exit' = [exit EXCEPT ![script] = result]

\* sys.exit("FATAL: ...") before anything of this stage is written.
Fatal == End("fatal") /\ UNCHANGED tree

\* The stage finds its edit in place and leaves the file alone.
Skip(next) ==
  /\ stage' = next
  /\ UNCHANGED <<tree, script, changed, exit>>

\* The stage rewrites one file: the new text is flushed, or the process is
\* killed after open() has truncated the file.
Write(file, text, empty, next) ==
  \/ /\ file' = text
     /\ stage' = next
     /\ changed' = TRUE
     /\ UNCHANGED <<script, exit>>
  \/ /\ file' = empty
     /\ End("killed")

Kill ==
  /\ script # "none"
  /\ End("killed")
  /\ UNCHANGED tree

-----------------------------------------------------------------------------
(* add_cgroup_attach_types.py                                              *)

\* Mutant: the receive hooks and the sockopt names are left out of NEW_ATTACH.
SendHooksOnly == {"UDP4_SENDMSG", "UDP6_SENDMSG"} \ uapi.attach

MissingAttach == NewAttach \ uapi.attach

\* The missing names go in just before __MAX_BPF_ATTACH_TYPE, in ascending
\* order: the largest of them becomes the last enumerator.
LastOfMissing ==
  CHOOSE m \in MissingAttach : \A k \in MissingAttach : NewValue(k) <= NewValue(m)

AttachUapi ==
  /\ At("attach_types", "uapi")
  /\ \/ uapi.attach = {} /\ Fatal
     \/ uapi.attach # {} /\ MissingAttach = {} /\ Skip("syscall")
     \/ /\ uapi.attach # {} /\ MissingAttach # {}
        /\ Write(uapi, [uapi EXCEPT !.attach = @ \union MissingAttach,
                                    !.last = LastOfMissing],
                 EmptyUapi, "syscall")
        /\ UNCHANGED <<filter_h, types, filter_c, cgroup, syscall>>

\* patch_syscall() takes one name for all of them.
AlreadyAccepted == Labels(syscall, "UDP4_SENDMSG") # {}

AttachNeeds == {"load_return", "query_connect", "addr_attach", "addr_detach"}

\* Mutant: bpf_prog_detach() is forgotten.
LeaveDetachAlone ==
  [syscall EXCEPT
     !.load    = @ \union ({"SOCK_ADDR"} \X SockAddrTypes),
     !.query   = @ \union NewAttach,
     !.attach  = AddRoute(@, SockAddrTypes, "SOCK_ADDR"),
     !.anchors = @ \ AttachNeeds]

\* All six names become queryable, the four udp names also load and attach.
AttachSyscallText ==
  [syscall EXCEPT
     !.load    = @ \union ({"SOCK_ADDR"} \X SockAddrTypes),
     !.query   = @ \union NewAttach,
     !.attach  = AddRoute(@, SockAddrTypes, "SOCK_ADDR"),
     !.detach  = AddRoute(@, SockAddrTypes, "SOCK_ADDR"),
     !.anchors = @ \ AttachNeeds]

AttachSyscall ==
  /\ At("attach_types", "syscall")
  /\ LET anchored == AttachNeeds \subseteq syscall.anchors
     IN \/ AlreadyAccepted /\ Skip("verify")
        \/ ~AlreadyAccepted /\ ~anchored /\ Fatal
        \/ /\ ~AlreadyAccepted /\ anchored
           /\ Write(syscall, AttachSyscallText, EmptySyscall, "verify")
           /\ UNCHANGED <<uapi, filter_h, types, filter_c, cgroup>>

\* verify() counts case labels: a label stands at most once in a switch, so
\* "expected 4" is all the switches, and "at least 1" is any of them.
AttachVerified ==
  /\ NewAttach \subseteq uapi.attach
  /\ \A n \in SockAddrTypes : Labels(syscall, n) = Switches
  /\ \A n \in SockoptTypes : Labels(syscall, n) # {}

AttachVerify ==
  /\ At("attach_types", "verify")
  /\ IF AttachVerified
     THEN End(IF changed THEN "applied" ELSE "nothing_to_do") /\ UNCHANGED tree
     ELSE Fatal

-----------------------------------------------------------------------------
(* add_cgroup_sockopt.py                                                   *)

SockoptUapi ==
  /\ At("sockopt", "uapi")
  /\ \/ "CGROUP_SOCKOPT" \in uapi.prog /\ Skip("filter_h")
     \/ uapi.prog = {} /\ Fatal
     \/ /\ uapi.prog # {} /\ "CGROUP_SOCKOPT" \notin uapi.prog
        /\ Write(uapi, [uapi EXCEPT !.prog = @ \union {"CGROUP_SOCKOPT"}],
                 EmptyUapi, "filter_h")
        /\ UNCHANGED <<filter_h, types, filter_c, cgroup, syscall>>

SockoptFilterH ==
  /\ At("sockopt", "filter_h")
  /\ \/ "sockopt_kern" \in filter_h /\ Skip("types")
     \/ filter_h = {} /\ Fatal
     \/ /\ filter_h = {"sock_ops_kern"}
        /\ Write(filter_h, filter_h \union {"sockopt_kern"}, {}, "types")
        /\ UNCHANGED <<uapi, types, filter_c, cgroup, syscall>>

SockoptTypesH ==
  /\ At("sockopt", "types")
  /\ \/ "sockopt_ops" \in types /\ Skip("filter_c")
     \/ types \intersect {"sockopt_ops", "sock_addr_ops"} = {} /\ Fatal
     \/ /\ "sockopt_ops" \notin types /\ "sock_addr_ops" \in types
        /\ Write(types, types \union {"sockopt_ops"}, {}, "filter_c")
        /\ UNCHANGED <<uapi, filter_h, filter_c, cgroup, syscall>>

SockoptFilterC ==
  /\ At("sockopt", "filter_c")
  /\ \/ "sockopt_ops" \in filter_c /\ Skip("syscall")
     \/ filter_c = {} /\ Fatal
     \/ /\ filter_c = {"sock_addr_ops"}
        /\ Write(filter_c, filter_c \union {"sockopt_ops"}, {}, "syscall")
        /\ UNCHANGED <<uapi, filter_h, types, cgroup, syscall>>

SockoptNeeds == {"load_switch", "sockops_attach", "sockops_detach"}

\* The new arms of the attach and detach switches, before the SOCK_OPS ones.
SockoptArms(ptype) ==
  [syscall EXCEPT
     !.checked = IF "check_arm" \in syscall.anchors
                 THEN @ \union {"CGROUP_SOCKOPT"} ELSE @,
     !.attach  = AddRoute(@, SockoptTypes, ptype),
     !.detach  = AddRoute(@, SockoptTypes, ptype),
     !.anchors = @ \ {"check_arm"}]

\* Mutants: no arm in the load switch; an attach type where a program type
\* belongs.
AttachOnlyText == SockoptArms("CGROUP_SOCKOPT")
MistypedText   == SockoptArms("SETSOCKOPT")

\* The arm in bpf_prog_attach_check_attach_type() is added only where that
\* function has the arm to extend.
SockoptSyscallText ==
  [SockoptArms("CGROUP_SOCKOPT") EXCEPT
     !.load = @ \union ({"CGROUP_SOCKOPT"} \X SockoptTypes)]

SockoptSyscall ==
  /\ At("sockopt", "syscall")
  /\ LET anchored == SockoptNeeds \subseteq syscall.anchors
         here == Mentions(syscall, "CGROUP_SOCKOPT")
     IN \/ here /\ Skip("verify")
        \/ ~here /\ ~anchored /\ Fatal
        \/ /\ ~here /\ anchored
           /\ Write(syscall, SockoptSyscallText, EmptySyscall, "verify")
           /\ UNCHANGED <<uapi, filter_h, types, filter_c, cgroup>>

\* The text "ptype = BPF_PROG_TYPE_CGROUP_SOCKOPT;" anywhere in syscall.c.
SockoptVerified ==
  /\ "CGROUP_SOCKOPT" \in uapi.prog
  /\ "sockopt_kern" \in filter_h
  /\ "sockopt_ops" \in types
  /\ "sockopt_ops" \in filter_c
  /\ \E n \in AttachType : "CGROUP_SOCKOPT" \in {syscall.attach[n], syscall.detach[n]}

SockoptVerify ==
  /\ At("sockopt", "verify")
  /\ IF SockoptVerified
     THEN End(IF changed THEN "applied" ELSE "nothing_to_do") /\ UNCHANGED tree
     ELSE Fatal

-----------------------------------------------------------------------------
(* add_cgroup_device.py                                                    *)

\* Mutant: "= 6" appended just before __MAX_BPF_ATTACH_TYPE.
AppendedLast == "CGROUP_DEVICE"

\* Inserted in numeric position, after BPF_SK_SKB_STREAM_VERDICT.
LastAfterDevice ==
  IF uapi.last = "STREAM_VERDICT" THEN "CGROUP_DEVICE" ELSE uapi.last

\* The one guard of the script looks at the one file it writes first.
DeviceUapi ==
  /\ At("device", "uapi")
  /\ \/ "CGROUP_DEVICE" \in uapi.prog /\ End("already_present") /\ UNCHANGED tree
     \/ /\ "CGROUP_DEVICE" \notin uapi.prog
        /\ uapi.prog = {} \/ "STREAM_VERDICT" \notin uapi.attach
        /\ Fatal
     \/ /\ "CGROUP_DEVICE" \notin uapi.prog
        /\ uapi.prog # {} /\ "STREAM_VERDICT" \in uapi.attach
        /\ Write(uapi,
                 [attach |-> uapi.attach \union {"CGROUP_DEVICE"},
                  last   |-> LastAfterDevice,
                  prog   |-> uapi.prog \union {"CGROUP_DEVICE"}],
                 EmptyUapi, "types")
        /\ UNCHANGED <<filter_h, types, filter_c, cgroup, syscall>>

\* Mutant: the file is opened for writing before it is read.
OpenedBeforeRead == {"device_ops"}

DeviceTypesText == types \union {"device_ops"}

DeviceTypes ==
  /\ At("device", "types")
  /\ \/ "sock_addr_ops" \notin types /\ Fatal
     \/ /\ "sock_addr_ops" \in types
        /\ Write(types, DeviceTypesText, {}, "cgroup")
        /\ UNCHANGED <<uapi, filter_h, filter_c, cgroup, syscall>>

DeviceCgroup ==
  /\ At("device", "cgroup")
  /\ \/ "run_filter_sock_ops" \notin cgroup /\ Fatal
     \/ /\ "run_filter_sock_ops" \in cgroup
        /\ Write(cgroup, cgroup \union {"device_ops"}, {}, "syscall")
        /\ UNCHANGED <<uapi, filter_h, types, filter_c, syscall>>

\* The new label of the query switch goes between INET6_CONNECT and SOCK_OPS,
\* where attach_types looks for the two next to each other.
DeviceSyscallText ==
  [syscall EXCEPT
     !.query   = @ \union {"CGROUP_DEVICE"},
     !.attach  = AddRoute(@, {"CGROUP_DEVICE"}, "CGROUP_DEVICE"),
     !.detach  = AddRoute(@, {"CGROUP_DEVICE"}, "CGROUP_DEVICE"),
     !.anchors = @ \ {"query_connect"}]

DeviceSyscall ==
  /\ At("device", "syscall")
  /\ LET anchored ==
           {"sockops_attach", "sockops_detach", "query_sockops"} \subseteq syscall.anchors
     IN \/ ~anchored /\ Fatal
        \/ /\ anchored
           /\ Write(syscall, DeviceSyscallText, EmptySyscall, "verify")
           /\ UNCHANGED <<uapi, filter_h, types, filter_c, cgroup>>

\* "expected 3": attach, detach and query, the load switch having no arm for
\* this program type; then check_max_attach_type().
DeviceVerified ==
  /\ syscall.attach["CGROUP_DEVICE"] = "CGROUP_DEVICE"
  /\ syscall.detach["CGROUP_DEVICE"] = "CGROUP_DEVICE"
  /\ Labels(syscall, "CGROUP_DEVICE") = {"attach", "detach", "query"}
  /\ MaxCovers(uapi)

DeviceVerify ==
  /\ At("device", "verify")
  /\ IF DeviceVerified
     THEN End("applied") /\ UNCHANGED tree
     ELSE Fatal

-----------------------------------------------------------------------------
AttachStep  == AttachUapi \/ AttachSyscall \/ AttachVerify
SockoptStep == \/ SockoptUapi \/ SockoptFilterH \/ SockoptTypesH
               \/ SockoptFilterC \/ SockoptSyscall \/ SockoptVerify
DeviceStep  == \/ DeviceUapi \/ DeviceTypes \/ DeviceCgroup
               \/ DeviceSyscall \/ DeviceVerify

Next ==
  \/ \E s \in Scripts : Start(s)
  \/ AttachStep
  \/ SockoptStep
  \/ DeviceStep
  \/ Kill

Spec == Init /\ [][Next]_vars

-----------------------------------------------------------------------------
(* What the scripts are for: the state of the tree each of them promises.  *)

SockAddrWired(sys) ==
  /\ {"SOCK_ADDR"} \X SockAddrTypes \subseteq sys.load
  /\ \A n \in SockAddrTypes : sys.attach[n] = "SOCK_ADDR" /\ sys.detach[n] = "SOCK_ADDR"
  /\ NewAttach \subseteq sys.query

SockoptWired(sys) ==
  /\ {"CGROUP_SOCKOPT"} \X SockoptTypes \subseteq sys.load
  /\ \A n \in SockoptTypes :
        sys.attach[n] = "CGROUP_SOCKOPT" /\ sys.detach[n] = "CGROUP_SOCKOPT"

DeviceWired(sys) ==
  /\ sys.attach["CGROUP_DEVICE"] = "CGROUP_DEVICE"
  /\ sys.detach["CGROUP_DEVICE"] = "CGROUP_DEVICE"
  /\ "CGROUP_DEVICE" \in sys.query

Delivered(s) ==
  CASE s = "attach_types" -> NewAttach \subseteq uapi.attach /\ SockAddrWired(syscall)
    [] s = "sockopt" -> /\ "CGROUP_SOCKOPT" \in uapi.prog
                        /\ "sockopt_kern" \in filter_h
                        /\ "sockopt_ops" \in types
                        /\ "sockopt_ops" \in filter_c
                        /\ SockoptWired(syscall)
    [] s = "device" -> /\ "CGROUP_DEVICE" \in uapi.prog
                       /\ "CGROUP_DEVICE" \in uapi.attach
                       /\ "device_ops" \in types
                       /\ "device_ops" \in cgroup
                       /\ DeviceWired(syscall)

\* Nothing in syscall.c names the type, or everything it needs is there.
AllOrNothing(sys) ==
  /\ Labels(sys, "UDP4_SENDMSG") # {} => SockAddrWired(sys)
  /\ Mentions(sys, "CGROUP_SOCKOPT") => SockoptWired(sys)
  /\ Labels(sys, "CGROUP_DEVICE") # {} => DeviceWired(sys)

\* Properties of the trees as checked out: the hypotheses of the theorems.
CoveringTrees ==
  \A t \in Trees :
     /\ MaxCovers(t.uapi)
     /\ NewAttach \subseteq t.uapi.attach \/
        \E m \in NewAttach \ t.uapi.attach :
           \A n \in t.uapi.attach : Value(n) <= NewValue(m)
UniformTrees == \A t \in Trees : AllOrNothing(t.syscall)
DeclaringTrees ==
  \A t \in Trees : \A n \in AttachType : Labels(t.syscall, n) # {} => n \in t.uapi.attach

-----------------------------------------------------------------------------
(* Safety.                                                                 *)

\* __MAX_BPF_ATTACH_TYPE is larger than every attach type the header
\* declares, whichever scripts ran and wherever they were stopped: otherwise
\* cgrp->bpf.progs[] is too short (add_cgroup_device.py:121-144 and 161-165).
MaxCoversAll == MaxCovers(uapi)

\* A program type is wired into syscall.c in every switch that decides on it
\* or not at all; in particular no FATAL exit and no kill leaves a type that
\* loads but cannot be attached (add_cgroup_attach_types.py:142-144).
WiredAllOrNothing == AllOrNothing(syscall)

\* syscall.c never has a case label the header does not declare, except the
\* sockopt names, which add_cgroup_sockopt.py uses and leaves to
\* add_cgroup_attach_types.py to declare; a truncated header declares nothing.
DeclaredBeforeUse ==
  uapi # EmptyUapi =>
    \A n \in AttachType :
      Labels(syscall, n) # {} => n \in uapi.attach \union SockoptTypes

\* A script that reports that it applied its patch, or, for the two with a
\* guard per file, that there was nothing to do, leaves everything the patch
\* is for in the tree ("a patch script that reports success without changing
\* the tree is worse than one that fails", add_cgroup_attach_types.py:164).
ReportsSuccess(s) ==
  /\ script = s /\ script' = "none"
  /\ exit'[s] \in {"applied", "nothing_to_do"}

SuccessDelivers == [][\A s \in Scripts : ReportsSuccess(s) => Delivered(s)']_vars

\* No script undoes what another one has delivered, unless it is killed while
\* it is rewriting a file.
PatchesCompose ==
  [][\A s \in Scripts :
       Delivered(s) => Delivered(s)' \/ (script # "none" /\ exit'[script] = "killed")]_vars

\* "Idempotent." (add_cgroup_device.py:42): when the script exits with 0 and
\* says the patch is already present, it is.
PresentIsDelivered ==
  [][script = "device" /\ exit'["device"] = "already_present" => Delivered("device")']_vars

=============================================================================
