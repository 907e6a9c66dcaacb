------------------------- MODULE PatchScripts_proofs -------------------------
(* Proofs about PatchScripts for every set of kernel trees.                 *)
EXTENDS PatchScripts, TLAPS

-----------------------------------------------------------------------------
(* Type correctness.  The control variables first: they change in the same  *)
(* few ways in every stage.                                                 *)

ControlOK ==
  /\ script \in Scripts \union {"none"}
  /\ stage \in Stages
  /\ changed \in BOOLEAN
  /\ exit \in [Scripts -> Results]

\* What a stage does to the control variables.
Moves ==
  \/ \E st \in Stages : stage' = st /\ changed' \in BOOLEAN /\ UNCHANGED <<script, exit>>
  \/ \E r \in Results : End(r)

LEMMA MovesControl == ControlOK /\ Moves => ControlOK'
BY DEF ControlOK, Moves, End, Stages

\* A stage of a script changes no file or writes exactly one; this is the
\* reading of Skip, Fatal, End and Write that the proofs below use.
LEMMA AttachMoves == ControlOK /\ AttachStep => Moves
BY DEF ControlOK, AttachStep, AttachUapi, AttachSyscall, AttachVerify, Moves,
       Write, Skip, Fatal, End, Stages, Results, At

LEMMA SockoptMoves == ControlOK /\ SockoptStep => Moves
BY DEF ControlOK, SockoptStep, SockoptUapi, SockoptFilterH, SockoptTypesH,
       SockoptFilterC, SockoptSyscall, SockoptVerify, Moves,
       Write, Skip, Fatal, End, Stages, Results, At

LEMMA DeviceMoves == ControlOK /\ DeviceStep => Moves
BY DEF ControlOK, DeviceStep, DeviceUapi, DeviceTypes, DeviceCgroup,
       DeviceSyscall, DeviceVerify, Moves,
       Write, Skip, Fatal, End, Stages, Results, At

\* What one step may do to each file.
NextUapi ==
  \/ uapi' = uapi
  \/ uapi' = EmptyUapi
  \/ /\ uapi.attach # {} /\ MissingAttach # {}
     /\ uapi' = [uapi EXCEPT !.attach = @ \union MissingAttach, !.last = LastOfMissing]
  \/ /\ uapi.prog # {}
     /\ uapi' = [uapi EXCEPT !.prog = @ \union {"CGROUP_SOCKOPT"}]
  \/ /\ "STREAM_VERDICT" \in uapi.attach
     /\ uapi' = [attach |-> uapi.attach \union {"CGROUP_DEVICE"},
                 last   |-> LastAfterDevice,
                 prog   |-> uapi.prog \union {"CGROUP_DEVICE"}]

NextSyscall ==
  \/ syscall' = syscall
  \/ syscall' = EmptySyscall
  \/ At("attach_types", "syscall") /\ syscall' = AttachSyscallText
  \/ At("sockopt", "syscall") /\ syscall' = SockoptSyscallText
  \/ At("device", "syscall") /\ syscall' = DeviceSyscallText

NextOther ==
  /\ filter_h' \in {filter_h, {}, filter_h \union {"sockopt_kern"}}
  /\ types' \in {types, {}, types \union {"sockopt_ops"}, types \union {"device_ops"}}
  /\ filter_c' \in {filter_c, {}, filter_c \union {"sockopt_ops"}}
  /\ cgroup' \in {cgroup, {}, cgroup \union {"device_ops"}}

LEMMA NextFiles == [Next]_vars => NextUapi /\ NextSyscall /\ NextOther
<1> SUFFICES ASSUME [Next]_vars PROVE NextUapi /\ NextSyscall /\ NextOther
  OBVIOUS
<1> USE DEF tree, Fatal, Skip
<1>1. CASE UNCHANGED vars
  BY <1>1 DEF vars, NextUapi, NextSyscall, NextOther
<1>2. CASE (\E s \in Scripts : Start(s)) \/ Kill
  BY <1>2 DEF Start, Kill, NextUapi, NextSyscall, NextOther
<1>3. CASE AttachStep
  <2>1. CASE AttachUapi
    BY <2>1 DEF AttachUapi, Write, NextUapi, NextSyscall, NextOther
  <2>2. CASE AttachSyscall
    BY <2>2 DEF AttachSyscall, Write, NextUapi, NextSyscall, NextOther
  <2>3. CASE AttachVerify
    BY <2>3 DEF AttachVerify, NextUapi, NextSyscall, NextOther
  <2> QED BY <1>3, <2>1, <2>2, <2>3 DEF AttachStep
<1>4. CASE SockoptStep
  <2>1. CASE SockoptUapi
    BY <2>1 DEF SockoptUapi, Write, NextUapi, NextSyscall, NextOther
  <2>2. CASE SockoptFilterH
    BY <2>2 DEF SockoptFilterH, Write, NextUapi, NextSyscall, NextOther
  <2>3. CASE SockoptTypesH
    BY <2>3 DEF SockoptTypesH, Write, NextUapi, NextSyscall, NextOther
  <2>4. CASE SockoptFilterC
    BY <2>4 DEF SockoptFilterC, Write, NextUapi, NextSyscall, NextOther
  <2>5. CASE SockoptSyscall
    BY <2>5 DEF SockoptSyscall, Write, NextUapi, NextSyscall, NextOther
  <2>6. CASE SockoptVerify
    BY <2>6 DEF SockoptVerify, NextUapi, NextSyscall, NextOther
  <2> QED BY <1>4, <2>1, <2>2, <2>3, <2>4, <2>5, <2>6 DEF SockoptStep
<1>5. CASE DeviceStep
  <2>1. CASE DeviceUapi
    BY <2>1 DEF DeviceUapi, Write, NextUapi, NextSyscall, NextOther
  <2>2. CASE DeviceTypes
    BY <2>2 DEF DeviceTypes, DeviceTypesText, Write, NextUapi, NextSyscall, NextOther
  <2>3. CASE DeviceCgroup
    BY <2>3 DEF DeviceCgroup, Write, NextUapi, NextSyscall, NextOther
  <2>4. CASE DeviceSyscall
    BY <2>4 DEF DeviceSyscall, Write, NextUapi, NextSyscall, NextOther
  <2>5. CASE DeviceVerify
    BY <2>5 DEF DeviceVerify, NextUapi, NextSyscall, NextOther
  <2> QED BY <1>5, <2>1, <2>2, <2>3, <2>4, <2>5 DEF DeviceStep
<1> QED BY <1>1, <1>2, <1>3, <1>4, <1>5 DEF Next

\* NEW_ATTACH is in ascending order, so the last of the missing names is the
\* largest.
LEMMA LastMissing ==
  ASSUME MissingAttach # {}
  PROVE  /\ LastOfMissing \in MissingAttach
         /\ \A k \in MissingAttach : NewValue(k) <= NewValue(LastOfMissing)
<1>1. MissingAttach \subseteq NewAttach
  BY DEF MissingAttach
<1>2. \E m \in MissingAttach : \A k \in MissingAttach : NewValue(k) <= NewValue(m)
  <2>1. \A k \in NewAttach : NewValue(k) <= NewValue("SETSOCKOPT")
    BY DEF NewAttach, SockAddrTypes, SockoptTypes, NewValue
  <2>2. \A k \in NewAttach \ {"SETSOCKOPT"} : NewValue(k) <= NewValue("GETSOCKOPT")
    BY DEF NewAttach, SockAddrTypes, SockoptTypes, NewValue
  <2>3. \A k \in SockAddrTypes : NewValue(k) <= NewValue("UDP6_RECVMSG")
    BY DEF SockAddrTypes, NewValue
  <2>4. \A k \in SockAddrTypes \ {"UDP6_RECVMSG"} : NewValue(k) <= NewValue("UDP4_RECVMSG")
    BY DEF SockAddrTypes, NewValue
  <2>5. \A k \in {"UDP4_SENDMSG", "UDP6_SENDMSG"} : NewValue(k) <= NewValue("UDP6_SENDMSG")
    BY DEF NewValue
  <2>6. NewValue("UDP4_SENDMSG") <= NewValue("UDP4_SENDMSG")
    BY DEF NewValue
  <2>a. CASE "SETSOCKOPT" \in MissingAttach
    BY <2>a, <1>1, <2>1
  <2>b. CASE "SETSOCKOPT" \notin MissingAttach /\ "GETSOCKOPT" \in MissingAttach
    BY <2>b, <1>1, <2>2
  <2>c. CASE SockoptTypes \intersect MissingAttach = {} /\ "UDP6_RECVMSG" \in MissingAttach
    BY <2>c, <1>1, <2>3 DEF NewAttach
  <2>d. CASE /\ SockoptTypes \intersect MissingAttach = {} /\ "UDP6_RECVMSG" \notin MissingAttach
             /\ "UDP4_RECVMSG" \in MissingAttach
    BY <2>d, <1>1, <2>4 DEF NewAttach
  <2>e. CASE /\ MissingAttach \subseteq {"UDP4_SENDMSG", "UDP6_SENDMSG"}
             /\ "UDP6_SENDMSG" \in MissingAttach
    BY <2>e, <2>5
  <2>f. CASE MissingAttach \subseteq {"UDP4_SENDMSG"}
    BY <2>f, <2>6
  <2>g. MissingAttach \subseteq {"UDP4_SENDMSG", "UDP6_SENDMSG"} \/ \E m \in MissingAttach :
          m \in {"SETSOCKOPT", "GETSOCKOPT", "UDP6_RECVMSG", "UDP4_RECVMSG"}
    BY <1>1 DEF NewAttach, SockAddrTypes, SockoptTypes
  <2> QED BY <2>a, <2>b, <2>c, <2>d, <2>e, <2>f, <2>g DEF SockoptTypes
<1> QED BY <1>2 DEF LastOfMissing

LEMMA TypeUapi == uapi \in UapiText /\ NextUapi => uapi' \in UapiText
<1> SUFFICES ASSUME uapi \in UapiText, NextUapi PROVE uapi' \in UapiText
  OBVIOUS
<1> USE DEF UapiText
<1>1. CASE uapi' = uapi \/ uapi' = EmptyUapi
  BY <1>1 DEF EmptyUapi
<1>2. CASE /\ uapi.attach # {} /\ MissingAttach # {}
           /\ uapi' = [uapi EXCEPT !.attach = @ \union MissingAttach, !.last = LastOfMissing]
  <2>1. MissingAttach \subseteq AttachType /\ LastOfMissing \in AttachType
    BY <1>2, LastMissing DEF MissingAttach, AttachType
  <2> QED BY <1>2, <2>1
<1>3. CASE uapi' = [uapi EXCEPT !.prog = @ \union {"CGROUP_SOCKOPT"}]
  BY <1>3 DEF ProgType
<1>4. CASE uapi' = [attach |-> uapi.attach \union {"CGROUP_DEVICE"},
                    last |-> LastAfterDevice, prog |-> uapi.prog \union {"CGROUP_DEVICE"}]
  BY <1>4 DEF ProgType, LastAfterDevice, AttachType
<1> QED BY <1>1, <1>2, <1>3, <1>4 DEF NextUapi

LEMMA TypeSyscall == syscall \in SyscallText /\ NextSyscall => syscall' \in SyscallText
<1> SUFFICES ASSUME syscall \in SyscallText, NextSyscall PROVE syscall' \in SyscallText
  OBVIOUS
<1> USE DEF SyscallText
<1>a. ASSUME NEW route \in Routes, NEW names, NEW p \in ProgType
      PROVE  AddRoute(route, names, p) \in Routes
  BY DEF AddRoute, Routes
<1>b. NewAttach \subseteq AttachType /\ SockAddrTypes \subseteq AttachType
      /\ SockoptTypes \subseteq AttachType
  BY DEF AttachType, NewAttach
<1>c. {"SOCK_ADDR", "CGROUP_SOCKOPT", "CGROUP_DEVICE"} \subseteq ProgType
  BY DEF ProgType
<1>1. CASE syscall' = syscall \/ syscall' = EmptySyscall
  BY <1>1 DEF EmptySyscall, Routes
<1>2. CASE syscall' = AttachSyscallText
  <2>1. syscall.load \union ({"SOCK_ADDR"} \X SockAddrTypes) \in SUBSET (ProgType \X AttachType)
    BY <1>b, <1>c
  <2>2. syscall.query \union NewAttach \in SUBSET AttachType
    BY <1>b
  <2>3. /\ AddRoute(syscall.attach, SockAddrTypes, "SOCK_ADDR") \in Routes
        /\ AddRoute(syscall.detach, SockAddrTypes, "SOCK_ADDR") \in Routes
    BY <1>a, <1>c
  <2> QED BY <1>2, <2>1, <2>2, <2>3 DEF AttachSyscallText
<1>3. CASE syscall' = SockoptSyscallText
  <2> DEFINE arms == SockoptArms("CGROUP_SOCKOPT")
  <2>1. /\ AddRoute(syscall.attach, SockoptTypes, "CGROUP_SOCKOPT") \in Routes
        /\ AddRoute(syscall.detach, SockoptTypes, "CGROUP_SOCKOPT") \in Routes
    BY <1>a, <1>c
  <2>2. arms \in SyscallText
    BY <1>c, <2>1 DEF SockoptArms
  <2>3. ({"CGROUP_SOCKOPT"} \X SockoptTypes) \in SUBSET (ProgType \X AttachType)
    BY <1>b, <1>c
  <2>4. syscall' = [arms EXCEPT !.load = @ \union ({"CGROUP_SOCKOPT"} \X SockoptTypes)]
    BY <1>3 DEF SockoptSyscallText
  <2> HIDE DEF arms
  <2>5. arms.load \union ({"CGROUP_SOCKOPT"} \X SockoptTypes) \in SUBSET (ProgType \X AttachType)
    BY <2>2, <2>3
  <2> QED BY <2>2, <2>4, <2>5
<1>4. CASE syscall' = DeviceSyscallText
  <2>1. /\ AddRoute(syscall.attach, {"CGROUP_DEVICE"}, "CGROUP_DEVICE") \in Routes
        /\ AddRoute(syscall.detach, {"CGROUP_DEVICE"}, "CGROUP_DEVICE") \in Routes
    BY <1>a, <1>c
  <2>2. syscall.query \union {"CGROUP_DEVICE"} \in SUBSET AttachType
    BY DEF AttachType
  <2> QED BY <1>4, <2>1, <2>2 DEF DeviceSyscallText
<1> QED BY <1>1, <1>2, <1>3, <1>4 DEF NextSyscall

LEMMA TypeStep == TypeOK /\ [Next]_vars => TypeOK'
<1> SUFFICES ASSUME TypeOK, [Next]_vars PROVE TypeOK'
  OBVIOUS
<1>1. uapi' \in UapiText /\ syscall' \in SyscallText
  BY NextFiles, TypeUapi, TypeSyscall DEF TypeOK
<1>2. filter_h' \in FilterHText /\ types' \in TypesText
      /\ filter_c' \in FilterCText /\ cgroup' \in CgroupText
  BY NextFiles DEF NextOther, TypeOK, FilterHText, TypesText, FilterCText, CgroupText
<1>3. ControlOK'
  <2>1. ControlOK
    BY DEF TypeOK, ControlOK
  <2>2. CASE AttachStep \/ SockoptStep \/ DeviceStep \/ Kill
    <3>1. Kill => Moves
      BY DEF Kill, Moves, Results
    <3> QED BY <2>1, <2>2, <3>1, AttachMoves, SockoptMoves, DeviceMoves, MovesControl
  <2>3. CASE \E s \in Scripts : Start(s)
    BY <2>1, <2>3 DEF Start, ControlOK, Stages, Results
  <2>4. CASE UNCHANGED vars
    BY <2>1, <2>4 DEF vars, ControlOK
  <2> QED BY <2>2, <2>3, <2>4 DEF Next
<1> QED BY <1>1, <1>2, <1>3 DEF TypeOK, ControlOK

LEMMA TypeInit == Init => TypeOK
BY TreesAssumption DEF Init, TypeOK, Tree, Stages, Results

\* Every reachable state is well typed.
THEOREM TypeCorrect == Spec => []TypeOK
<1> QED BY TypeInit, TypeStep, PTL DEF Spec

-----------------------------------------------------------------------------
(* MaxCoversAll.  The invariant alone is not inductive: attach_types appends *)
(* the names that are missing without looking at the values already there,  *)
(* so one of them has to be larger than all of these.                       *)

Appendable(u) ==
  \/ NewAttach \subseteq u.attach
  \/ \E m \in NewAttach \ u.attach : \A n \in u.attach : Value(n) <= NewValue(m)

EnumInv == MaxCovers(uapi) /\ Appendable(uapi)

LEMMA Values ==
  /\ \A n \in AttachType : Value(n) \in Nat
  /\ \A n \in NewAttach : Value(n) = NewValue(n) /\ Value(n) >= 14
  /\ Value("CGROUP_DEVICE") = 6
  /\ Value("STREAM_VERDICT") = 5
  /\ \A n \in AttachType : Value(n) = 5 => n = "STREAM_VERDICT"
BY NativeAssumption
   DEF Value, NewValue, AttachType, NewAttach, SockAddrTypes, SockoptTypes

LEMMA EnumStep == TypeOK /\ EnumInv /\ [Next]_vars => EnumInv'
<1> SUFFICES ASSUME TypeOK, EnumInv, NextUapi PROVE EnumInv'
  BY NextFiles
<1> USE DEF EnumInv
<1>0. uapi \in UapiText
  BY DEF TypeOK
<1>1. CASE uapi' = uapi
  BY <1>1
<1>2. CASE uapi' = EmptyUapi
  BY <1>2 DEF EmptyUapi, MaxCovers, Appendable, NewAttach, SockoptTypes
<1>3. CASE /\ uapi.attach # {} /\ MissingAttach # {}
           /\ uapi' = [uapi EXCEPT !.attach = @ \union MissingAttach, !.last = LastOfMissing]
  <2>1. uapi'.attach = uapi.attach \union MissingAttach /\ uapi'.last = LastOfMissing
    BY <1>0, <1>3 DEF UapiText
  <2>2. NewAttach \subseteq uapi'.attach
    BY <2>1 DEF MissingAttach
  <2>3. MissingAttach \subseteq NewAttach /\ NewAttach \subseteq AttachType
    BY DEF MissingAttach, AttachType
  <2>4. LastOfMissing \in MissingAttach
        /\ \A k \in MissingAttach : NewValue(k) <= NewValue(LastOfMissing)
    BY <1>3, LastMissing
  <2>5. PICK m \in MissingAttach : \A n \in uapi.attach : Value(n) <= NewValue(m)
    BY <1>3 DEF Appendable, MissingAttach
  <2>6. \A n \in uapi.attach : Value(n) <= Value(LastOfMissing)
    <3>1. uapi.attach \subseteq AttachType
      BY <1>0 DEF UapiText
    <3>2. NewValue(m) <= NewValue(LastOfMissing)
          /\ NewValue(m) = Value(m) /\ NewValue(LastOfMissing) = Value(LastOfMissing)
      BY <2>3, <2>4, Values
    <3>3. Value(m) \in Nat /\ Value(LastOfMissing) \in Nat
          /\ \A n \in uapi.attach : Value(n) \in Nat
      BY <2>3, <2>4, <3>1, Values
    <3> QED BY <2>5, <3>2, <3>3
  <2>7. \A n \in MissingAttach : Value(n) <= Value(LastOfMissing)
    BY <2>3, <2>4, Values
  <2> QED BY <2>1, <2>2, <2>4, <2>6, <2>7 DEF MaxCovers, Appendable
<1>4. CASE uapi' = [uapi EXCEPT !.prog = @ \union {"CGROUP_SOCKOPT"}]
  <2>1. uapi'.attach = uapi.attach /\ uapi'.last = uapi.last
    BY <1>0, <1>4 DEF UapiText
  <2> QED BY <2>1 DEF MaxCovers, Appendable
<1>5. CASE /\ "STREAM_VERDICT" \in uapi.attach
           /\ uapi' = [attach |-> uapi.attach \union {"CGROUP_DEVICE"},
                       last   |-> LastAfterDevice,
                       prog   |-> uapi.prog \union {"CGROUP_DEVICE"}]
  <2>1. uapi'.attach = uapi.attach \union {"CGROUP_DEVICE"} /\ uapi'.last = LastAfterDevice
    BY <1>5
  <2>2. uapi.attach \subseteq AttachType
    BY <1>0 DEF UapiText
  <2>3. uapi.last \in uapi.attach /\ \A n \in uapi.attach : Value(n) <= Value(uapi.last)
    BY <1>5 DEF MaxCovers
  <2>4. MaxCovers(uapi')
    <3>1. CASE uapi.last = "STREAM_VERDICT"
      <4>1. LastAfterDevice = "CGROUP_DEVICE"
        BY <3>1 DEF LastAfterDevice
      <4>2. \A n \in uapi.attach : Value(n) <= 6
        BY <2>2, <2>3, <3>1, Values
      <4> QED BY <2>1, <4>1, <4>2, Values DEF MaxCovers
    <3>2. CASE uapi.last # "STREAM_VERDICT"
      <4>1. LastAfterDevice = uapi.last
        BY <3>2 DEF LastAfterDevice
      <4>2. Value(uapi.last) >= 6
        <5>1. Value(uapi.last) \in Nat /\ Value(uapi.last) # 5
          BY <2>2, <2>3, <3>2, Values
        <5>2. 5 <= Value(uapi.last)
          BY <1>5, <2>3, Values
        <5> QED BY <5>1, <5>2
      <4> QED BY <2>1, <2>3, <4>1, <4>2, Values DEF MaxCovers
    <3> QED BY <3>1, <3>2
  <2>5. Appendable(uapi')
    <3>1. CASE NewAttach \subseteq uapi.attach
      BY <2>1, <3>1 DEF Appendable
    <3>2. CASE ~(NewAttach \subseteq uapi.attach)
      <4>1. PICK m \in NewAttach \ uapi.attach : \A n \in uapi.attach : Value(n) <= NewValue(m)
        BY <3>2 DEF Appendable
      <4>2. m \notin uapi'.attach
        BY <2>1, <4>1 DEF NewAttach, SockAddrTypes, SockoptTypes
      <4>3. Value("CGROUP_DEVICE") <= NewValue(m)
        <5>1. Value(m) \in Nat /\ Value(m) >= 14 /\ Value(m) = NewValue(m)
          BY <4>1, Values DEF AttachType
        <5> QED BY <5>1, Values
      <4> QED BY <2>1, <4>1, <4>2, <4>3 DEF Appendable
    <3> QED BY <3>1, <3>2
  <2> QED BY <2>4, <2>5
<1> QED BY <1>1, <1>2, <1>3, <1>4, <1>5 DEF NextUapi

\* Whatever the scripts do to a tree whose enum is covered, and whose missing
\* names belong at its end, __MAX_BPF_ATTACH_TYPE stays above every type.
THEOREM MaxStaysAbove == CoveringTrees => (Spec => []MaxCoversAll)
<1> SUFFICES ASSUME CoveringTrees PROVE Spec => []MaxCoversAll
  OBVIOUS
<1>1. Init => TypeOK /\ EnumInv
  BY TypeInit DEF Init, CoveringTrees, EnumInv, Appendable
<1>2. TypeOK /\ EnumInv /\ [Next]_vars => (TypeOK /\ EnumInv)'
  BY TypeStep, EnumStep
<1>3. EnumInv => MaxCoversAll
  BY DEF EnumInv, MaxCoversAll
<1> QED BY <1>1, <1>2, <1>3, PTL DEF Spec

-----------------------------------------------------------------------------
(* WiredAllOrNothing.  Each edit of syscall.c adds all the arms of its type *)
(* in one write, and none of them touches an arm of another type.           *)

LEMMA AttachTextGrows ==
  ASSUME syscall \in SyscallText, syscall' = AttachSyscallText
  PROVE  /\ SockAddrWired(syscall')
         /\ SockoptWired(syscall) => SockoptWired(syscall')
         /\ DeviceWired(syscall) => DeviceWired(syscall')
         /\ Mentions(syscall', "CGROUP_SOCKOPT") => Mentions(syscall, "CGROUP_SOCKOPT")
         /\ \A n \in AttachType \ NewAttach : Labels(syscall', n) = Labels(syscall, n)
<1>1. /\ syscall'.load = syscall.load \union ({"SOCK_ADDR"} \X SockAddrTypes)
      /\ syscall'.query = syscall.query \union NewAttach
      /\ syscall'.attach = AddRoute(syscall.attach, SockAddrTypes, "SOCK_ADDR")
      /\ syscall'.detach = AddRoute(syscall.detach, SockAddrTypes, "SOCK_ADDR")
      /\ syscall'.checked = syscall.checked
  BY DEF AttachSyscallText, SyscallText
<1>2. SockAddrWired(syscall')
  BY <1>1 DEF SockAddrWired, AddRoute, AttachType, NewAttach
<1>3. SockoptWired(syscall) => SockoptWired(syscall')
  BY <1>1 DEF SockoptWired, AddRoute, SockoptTypes, SockAddrTypes, AttachType, NewAttach
<1>4. DeviceWired(syscall) => DeviceWired(syscall')
  BY <1>1 DEF DeviceWired, AddRoute, SockAddrTypes, AttachType
<1>5. Mentions(syscall', "CGROUP_SOCKOPT") => Mentions(syscall, "CGROUP_SOCKOPT")
  BY <1>1 DEF Mentions, AddRoute
<1>6. \A n \in AttachType \ NewAttach : Labels(syscall', n) = Labels(syscall, n)
  BY <1>1 DEF Labels, AddRoute, NewAttach
<1> QED BY <1>2, <1>3, <1>4, <1>5, <1>6

LEMMA SockoptTextGrows ==
  ASSUME syscall \in SyscallText, syscall' = SockoptSyscallText
  PROVE  /\ SockoptWired(syscall')
         /\ SockAddrWired(syscall) => SockAddrWired(syscall')
         /\ DeviceWired(syscall) => DeviceWired(syscall')
         /\ \A n \in AttachType \ SockoptTypes : Labels(syscall', n) = Labels(syscall, n)
<1>1. /\ syscall'.load = syscall.load \union ({"CGROUP_SOCKOPT"} \X SockoptTypes)
      /\ syscall'.query = syscall.query
      /\ syscall'.attach = AddRoute(syscall.attach, SockoptTypes, "CGROUP_SOCKOPT")
      /\ syscall'.detach = AddRoute(syscall.detach, SockoptTypes, "CGROUP_SOCKOPT")
  BY DEF SockoptSyscallText, SockoptArms, SyscallText
<1>2. SockoptWired(syscall')
  BY <1>1 DEF SockoptWired, AddRoute, AttachType, NewAttach
<1>3. SockAddrWired(syscall) => SockAddrWired(syscall')
  BY <1>1 DEF SockAddrWired, AddRoute, SockoptTypes, SockAddrTypes, AttachType, NewAttach
<1>4. DeviceWired(syscall) => DeviceWired(syscall')
  BY <1>1 DEF DeviceWired, AddRoute, SockoptTypes, AttachType
<1>5. \A n \in AttachType \ SockoptTypes : Labels(syscall', n) = Labels(syscall, n)
  BY <1>1 DEF Labels, AddRoute
<1> QED BY <1>2, <1>3, <1>4, <1>5

LEMMA DeviceTextGrows ==
  ASSUME syscall \in SyscallText, syscall' = DeviceSyscallText
  PROVE  /\ DeviceWired(syscall')
         /\ SockAddrWired(syscall) => SockAddrWired(syscall')
         /\ SockoptWired(syscall) => SockoptWired(syscall')
         /\ Mentions(syscall', "CGROUP_SOCKOPT") => Mentions(syscall, "CGROUP_SOCKOPT")
         /\ \A n \in AttachType \ {"CGROUP_DEVICE"} : Labels(syscall', n) = Labels(syscall, n)
<1>1. /\ syscall'.load = syscall.load
      /\ syscall'.query = syscall.query \union {"CGROUP_DEVICE"}
      /\ syscall'.attach = AddRoute(syscall.attach, {"CGROUP_DEVICE"}, "CGROUP_DEVICE")
      /\ syscall'.detach = AddRoute(syscall.detach, {"CGROUP_DEVICE"}, "CGROUP_DEVICE")
      /\ syscall'.checked = syscall.checked
  BY DEF DeviceSyscallText, SyscallText
<1>2. DeviceWired(syscall')
  BY <1>1 DEF DeviceWired, AddRoute, AttachType
<1>3. SockAddrWired(syscall) => SockAddrWired(syscall')
  BY <1>1 DEF SockAddrWired, AddRoute, SockAddrTypes, AttachType, NewAttach
<1>4. SockoptWired(syscall) => SockoptWired(syscall')
  BY <1>1 DEF SockoptWired, AddRoute, SockoptTypes, AttachType, NewAttach
<1>5. Mentions(syscall', "CGROUP_SOCKOPT") => Mentions(syscall, "CGROUP_SOCKOPT")
  BY <1>1 DEF Mentions, AddRoute
<1>6. \A n \in AttachType \ {"CGROUP_DEVICE"} : Labels(syscall', n) = Labels(syscall, n)
  BY <1>1 DEF Labels, AddRoute
<1> QED BY <1>2, <1>3, <1>4, <1>5, <1>6

LEMMA EmptyMentions ==
  /\ \A n \in AttachType : Labels(EmptySyscall, n) = {}
  /\ ~Mentions(EmptySyscall, "CGROUP_SOCKOPT")
BY DEF Labels, Mentions, EmptySyscall

LEMMA Names ==
  /\ "UDP4_SENDMSG" \in NewAttach /\ "UDP4_SENDMSG" \notin SockoptTypes
  /\ "CGROUP_DEVICE" \notin NewAttach /\ SockoptTypes \subseteq NewAttach
  /\ NewAttach \subseteq AttachType /\ "CGROUP_DEVICE" \in AttachType
BY DEF NewAttach, SockAddrTypes, SockoptTypes, AttachType

LEMMA WiredStep == TypeOK /\ WiredAllOrNothing /\ [Next]_vars => WiredAllOrNothing'
<1> SUFFICES ASSUME TypeOK, AllOrNothing(syscall), NextSyscall
             PROVE  AllOrNothing(syscall')
  BY NextFiles DEF WiredAllOrNothing
<1>0. syscall \in SyscallText
  BY DEF TypeOK
<1>1. CASE syscall' = syscall
  BY <1>1
<1>2. CASE syscall' = EmptySyscall
  BY <1>2, EmptyMentions, Names DEF AllOrNothing
<1>3. CASE syscall' = AttachSyscallText
  BY <1>0, <1>3, AttachTextGrows, Names DEF AllOrNothing
<1>4. CASE syscall' = SockoptSyscallText
  BY <1>0, <1>4, SockoptTextGrows, Names DEF AllOrNothing
<1>5. CASE syscall' = DeviceSyscallText
  BY <1>0, <1>5, DeviceTextGrows, Names DEF AllOrNothing
<1> QED BY <1>1, <1>2, <1>3, <1>4, <1>5 DEF NextSyscall

\* On any family of trees that are not half wired to begin with, no FATAL
\* exit and no kill leaves a type in some of its switches only.
THEOREM NeverHalfWired == UniformTrees => (Spec => []WiredAllOrNothing)
<1> SUFFICES ASSUME UniformTrees PROVE Spec => []WiredAllOrNothing
  OBVIOUS
<1>1. Init => TypeOK /\ WiredAllOrNothing
  BY TypeInit DEF Init, UniformTrees, WiredAllOrNothing
<1>2. TypeOK /\ WiredAllOrNothing /\ [Next]_vars => (TypeOK /\ WiredAllOrNothing)'
  BY TypeStep, WiredStep
<1> QED BY <1>1, <1>2, PTL DEF Spec

-----------------------------------------------------------------------------
(* What a script has already put in the tree when it reaches a stage.       *)

StageInv ==
  /\ At("attach_types", "syscall") => NewAttach \subseteq uapi.attach
  /\ script = "device" /\ stage \in {"types", "cgroup", "syscall", "verify"} =>
       "CGROUP_DEVICE" \in uapi.prog /\ "CGROUP_DEVICE" \in uapi.attach
  /\ script = "device" /\ stage \in {"cgroup", "syscall", "verify"} => "device_ops" \in types
  /\ script = "device" /\ stage \in {"syscall", "verify"} => "device_ops" \in cgroup

LEMMA StageStep == TypeOK /\ StageInv /\ [Next]_vars => StageInv'
<1> SUFFICES ASSUME TypeOK, StageInv, [Next]_vars PROVE StageInv'
  OBVIOUS
<1> USE DEF StageInv, At, Fatal, End, Skip, tree
<1>0. uapi \in UapiText
  BY DEF TypeOK
<1>1. CASE UNCHANGED vars
  BY <1>1 DEF vars
<1>2. CASE (\E s \in Scripts : Start(s)) \/ Kill
  BY <1>2 DEF Start, Kill
<1>3. CASE AttachStep
  <2>1. CASE AttachUapi
    <3>1. CASE uapi' = [uapi EXCEPT !.attach = @ \union MissingAttach, !.last = LastOfMissing]
      <4>1. NewAttach \subseteq uapi'.attach
        BY <1>0, <3>1 DEF UapiText, MissingAttach
      <4> QED BY <2>1, <4>1 DEF AttachUapi, Write
    <3>2. CASE script' = "none"
      BY <3>2
    <3>3. CASE MissingAttach = {} /\ Skip("syscall")
      BY <2>1, <3>3 DEF MissingAttach, AttachUapi
    <3> QED BY <2>1, <3>1, <3>2, <3>3 DEF AttachUapi, Write
  <2>2. CASE AttachSyscall
    BY <2>2 DEF AttachSyscall, Write
  <2>3. CASE AttachVerify
    BY <2>3 DEF AttachVerify
  <2> QED BY <1>3, <2>1, <2>2, <2>3 DEF AttachStep
<1>4. CASE SockoptStep
  <2>1. script' \in {"sockopt", "none"}
    BY <1>4 DEF SockoptStep, SockoptUapi, SockoptFilterH, SockoptTypesH,
                SockoptFilterC, SockoptSyscall, SockoptVerify, Write
  <2> QED BY <2>1
<1>5. CASE DeviceStep
  <2>1. CASE DeviceUapi
    BY <2>1 DEF DeviceUapi, Write
  <2>2. CASE DeviceTypes
    BY <2>2 DEF DeviceTypes, DeviceTypesText, Write
  <2>3. CASE DeviceCgroup
    BY <2>3 DEF DeviceCgroup, Write
  <2>4. CASE DeviceSyscall
    BY <2>4 DEF DeviceSyscall, Write
  <2>5. CASE DeviceVerify
    BY <2>5 DEF DeviceVerify
  <2> QED BY <1>5, <2>1, <2>2, <2>3, <2>4, <2>5 DEF DeviceStep
<1> QED BY <1>1, <1>2, <1>3, <1>4, <1>5 DEF Next

-----------------------------------------------------------------------------
(* SuccessDelivers.                                                         *)

\* Only the verify stages report success, and only after their checks.
LEMMA SuccessVerified ==
  ASSUME TypeOK, [Next]_vars, NEW s \in Scripts, ReportsSuccess(s)
  PROVE  /\ UNCHANGED tree
         /\ s = "attach_types" => AttachVerified
         /\ s = "sockopt" => SockoptVerified
         /\ s = "device" => At("device", "verify") /\ DeviceVerified
<1>1. script = s /\ script' = "none" /\ exit'[s] \in {"applied", "nothing_to_do"}
  BY DEF ReportsSuccess
<1>2. \A r : End(r) => r \in {"applied", "nothing_to_do"}
  BY <1>1 DEF End, TypeOK
<1>3. s # "none"
  BY DEF Scripts
<1> USE DEF At, Fatal, Skip
<1>4. CASE UNCHANGED vars
  BY <1>1, <1>3, <1>4 DEF vars
<1>5. CASE (\E t \in Scripts : Start(t)) \/ Kill
  BY <1>1, <1>2, <1>3, <1>5 DEF Start, Kill
<1>6. CASE AttachStep
  BY <1>1, <1>2, <1>3, <1>6
     DEF AttachStep, AttachUapi, AttachSyscall, AttachVerify, Write
<1>7. CASE SockoptStep
  BY <1>1, <1>2, <1>3, <1>7
     DEF SockoptStep, SockoptUapi, SockoptFilterH, SockoptTypesH, SockoptFilterC,
         SockoptSyscall, SockoptVerify, Write
<1>8. CASE DeviceStep
  BY <1>1, <1>2, <1>3, <1>8
     DEF DeviceStep, DeviceUapi, DeviceTypes, DeviceCgroup, DeviceSyscall,
         DeviceVerify, Write
<1> QED BY <1>4, <1>5, <1>6, <1>7, <1>8 DEF Next

LEMMA SuccessStep ==
  TypeOK /\ WiredAllOrNothing /\ StageInv /\ [Next]_vars =>
    \A s \in Scripts : ReportsSuccess(s) => Delivered(s)'
<1> SUFFICES ASSUME TypeOK, WiredAllOrNothing, StageInv, [Next]_vars,
                    NEW s \in Scripts, ReportsSuccess(s)
             PROVE  Delivered(s)'
  OBVIOUS
<1>1. UNCHANGED tree => (Delivered(s) => Delivered(s)')
  BY DEF tree, Delivered, Scripts
<1>2. Delivered(s)
  <2>1. CASE s = "attach_types"
    <3>1. NewAttach \subseteq uapi.attach /\ Labels(syscall, "UDP4_SENDMSG") # {}
      BY <2>1, SuccessVerified DEF AttachVerified, SockAddrTypes, Switches
    <3> QED BY <2>1, <3>1 DEF Delivered, WiredAllOrNothing, AllOrNothing
  <2>2. CASE s = "sockopt"
    <3>1. SockoptVerified
      BY <2>2, SuccessVerified
    <3>2. Mentions(syscall, "CGROUP_SOCKOPT")
      BY <3>1 DEF SockoptVerified, Mentions
    <3> QED BY <2>2, <3>1, <3>2 DEF Delivered, SockoptVerified, WiredAllOrNothing, AllOrNothing
  <2>3. CASE s = "device"
    <3>1. At("device", "verify") /\ DeviceVerified
      BY <2>3, SuccessVerified
    <3>2. DeviceWired(syscall)
      BY <3>1 DEF DeviceVerified, DeviceWired, Labels, Switches
    <3> QED BY <2>3, <3>1, <3>2 DEF Delivered, StageInv, At
  <2> QED BY <2>1, <2>2, <2>3 DEF Scripts
<1> QED BY <1>1, <1>2, SuccessVerified

\* An exit status of 0 with "applied" or "nothing to do" is never false, on any
\* family of trees that are not half wired to begin with.
THEOREM SuccessIsTrue == UniformTrees => (Spec => SuccessDelivers)
<1> SUFFICES ASSUME UniformTrees PROVE Spec => SuccessDelivers
  OBVIOUS
<1> DEFINE Inv == TypeOK /\ WiredAllOrNothing /\ StageInv
<1>1. Init => Inv
  BY TypeInit DEF Init, UniformTrees, WiredAllOrNothing, StageInv, At
<1>2. Inv /\ [Next]_vars => Inv'
  BY TypeStep, WiredStep, StageStep
<1>3. Inv /\ [Next]_vars => [\A s \in Scripts : ReportsSuccess(s) => Delivered(s)']_vars
  BY SuccessStep
<1> HIDE DEF Inv
<1> QED BY <1>1, <1>2, <1>3, PTL DEF Spec, SuccessDelivers

-----------------------------------------------------------------------------
(* PatchesCompose.                                                          *)

Killed == script # "none" /\ exit'[script] = "killed"

Grows ==
  /\ uapi.attach \subseteq uapi'.attach /\ uapi.prog \subseteq uapi'.prog
  /\ filter_h \subseteq filter_h' /\ types \subseteq types'
  /\ filter_c \subseteq filter_c' /\ cgroup \subseteq cgroup'
  /\ syscall' \in {syscall, AttachSyscallText, SockoptSyscallText, DeviceSyscallText}

LEMMA OnlyKillsShrink == TypeOK /\ [Next]_vars => Killed \/ Grows
<1> SUFFICES ASSUME TypeOK, [Next]_vars, ~Killed PROVE Grows
  OBVIOUS
<1>0. uapi \in UapiText
  BY DEF TypeOK
<1>1. script \in Scripts => ~End("killed")
  BY DEF Killed, End, TypeOK, Scripts
<1>2. UNCHANGED tree => Grows
  BY DEF tree, Grows
<1> USE DEF At, Fatal, Skip
<1>3. CASE UNCHANGED vars
  BY <1>2, <1>3 DEF vars, tree
<1>4. CASE (\E s \in Scripts : Start(s)) \/ Kill
  BY <1>1, <1>2, <1>4 DEF Start, Kill, TypeOK
<1>5. CASE AttachStep
  <2>1. CASE AttachUapi
    <3>1. uapi' = [uapi EXCEPT !.attach = @ \union MissingAttach, !.last = LastOfMissing] =>
            uapi.attach \subseteq uapi'.attach /\ uapi.prog \subseteq uapi'.prog
      BY <1>0 DEF UapiText
    <3> QED BY <1>1, <1>2, <2>1, <3>1 DEF AttachUapi, Write, Grows, Scripts
  <2>2. CASE AttachSyscall
    BY <1>1, <1>2, <2>2 DEF AttachSyscall, Write, Grows, Scripts
  <2>3. CASE AttachVerify
    BY <1>2, <2>3 DEF AttachVerify
  <2> QED BY <1>5, <2>1, <2>2, <2>3 DEF AttachStep
<1>6. CASE SockoptStep
  <2>1. CASE SockoptUapi
    <3>1. uapi' = [uapi EXCEPT !.prog = @ \union {"CGROUP_SOCKOPT"}] =>
            uapi.attach \subseteq uapi'.attach /\ uapi.prog \subseteq uapi'.prog
      BY <1>0 DEF UapiText
    <3> QED BY <1>1, <1>2, <2>1, <3>1 DEF SockoptUapi, Write, Grows, Scripts
  <2>2. CASE SockoptFilterH \/ SockoptTypesH \/ SockoptFilterC
    BY <1>1, <1>2, <2>2 DEF SockoptFilterH, SockoptTypesH, SockoptFilterC, Write, Grows, Scripts
  <2>3. CASE SockoptSyscall
    BY <1>1, <1>2, <2>3 DEF SockoptSyscall, Write, Grows, Scripts
  <2>4. CASE SockoptVerify
    BY <1>2, <2>4 DEF SockoptVerify
  <2> QED BY <1>6, <2>1, <2>2, <2>3, <2>4 DEF SockoptStep
<1>7. CASE DeviceStep
  <2>1. CASE DeviceUapi
    BY <1>1, <1>2, <2>1 DEF DeviceUapi, Write, Grows, Scripts
  <2>2. CASE DeviceTypes \/ DeviceCgroup
    BY <1>1, <1>2, <2>2
       DEF DeviceTypes, DeviceTypesText, DeviceCgroup, Write, Grows, Scripts
  <2>3. CASE DeviceSyscall
    BY <1>1, <1>2, <2>3 DEF DeviceSyscall, Write, Grows, Scripts
  <2>4. CASE DeviceVerify
    BY <1>2, <2>4 DEF DeviceVerify
  <2> QED BY <1>7, <2>1, <2>2, <2>3, <2>4 DEF DeviceStep
<1> QED BY <1>3, <1>4, <1>5, <1>6, <1>7 DEF Next

\* What one script has delivered, another one leaves in place: no hypothesis on
\* the trees is needed.
THEOREM PatchesAdd == Spec => PatchesCompose
<1>1. TypeOK /\ [Next]_vars =>
        [\A s \in Scripts : Delivered(s) => Delivered(s)' \/ Killed]_vars
  <2> SUFFICES ASSUME TypeOK, Grows, NEW s \in Scripts, Delivered(s) PROVE Delivered(s)'
    BY OnlyKillsShrink
  <2>1. /\ SockAddrWired(syscall) => SockAddrWired(syscall')
        /\ SockoptWired(syscall) => SockoptWired(syscall')
        /\ DeviceWired(syscall) => DeviceWired(syscall')
    BY AttachTextGrows, SockoptTextGrows, DeviceTextGrows DEF Grows, TypeOK
  <2>2. CASE s = "attach_types"
    BY <2>1, <2>2 DEF Delivered, Grows
  <2>3. CASE s = "sockopt"
    BY <2>1, <2>3 DEF Delivered, Grows
  <2>4. CASE s = "device"
    BY <2>1, <2>4 DEF Delivered, Grows
  <2> QED BY <2>2, <2>3, <2>4 DEF Scripts
<1> QED BY <1>1, TypeInit, TypeStep, PTL DEF Spec, PatchesCompose, Killed

-----------------------------------------------------------------------------
(* DeclaredBeforeUse.                                                       *)

LEMMA DeclaredStep == TypeOK /\ StageInv /\ DeclaredBeforeUse /\ [Next]_vars => DeclaredBeforeUse'
<1> SUFFICES ASSUME TypeOK, StageInv, DeclaredBeforeUse, NextUapi, NextSyscall,
                    uapi' # EmptyUapi, NEW n \in AttachType, Labels(syscall', n) # {}
             PROVE  n \in uapi'.attach \union SockoptTypes
  BY NextFiles DEF DeclaredBeforeUse
<1>0. uapi \in UapiText /\ syscall \in SyscallText
  BY DEF TypeOK
<1>1. uapi # EmptyUapi /\ uapi.attach \subseteq uapi'.attach
  <2>1. uapi # EmptyUapi
    BY DEF NextUapi, EmptyUapi
  <2>2. uapi.attach \subseteq uapi'.attach
    <3>1. CASE uapi' = [uapi EXCEPT !.attach = @ \union MissingAttach, !.last = LastOfMissing]
      BY <1>0, <3>1 DEF UapiText
    <3>2. CASE uapi' = [uapi EXCEPT !.prog = @ \union {"CGROUP_SOCKOPT"}]
      BY <1>0, <3>2 DEF UapiText
    <3>3. CASE uapi'.attach = uapi.attach \union {"CGROUP_DEVICE"}
      BY <3>3
    <3> QED BY <3>1, <3>2, <3>3 DEF NextUapi
  <2> QED BY <2>1, <2>2
<1>2. CASE Labels(syscall, n) # {}
  BY <1>1, <1>2 DEF DeclaredBeforeUse
<1>3. CASE Labels(syscall, n) = {}
  <2>1. syscall' # syscall /\ syscall' # EmptySyscall
    BY <1>3, EmptyMentions
  <2>2. CASE At("attach_types", "syscall") /\ syscall' = AttachSyscallText
    BY <1>0, <1>1, <1>3, <2>2, AttachTextGrows DEF StageInv
  <2>3. CASE syscall' = SockoptSyscallText
    BY <1>0, <1>3, <2>3, SockoptTextGrows
  <2>4. CASE At("device", "syscall") /\ syscall' = DeviceSyscallText
    BY <1>0, <1>1, <1>3, <2>4, DeviceTextGrows DEF StageInv, At
  <2> QED BY <2>1, <2>2, <2>3, <2>4 DEF NextSyscall
<1> QED BY <1>2, <1>3

\* If the tree declares the types it uses, so does every tree the scripts make
\* of it, sockopt names aside.
THEOREM DeclarationsFirst == DeclaringTrees => (Spec => []DeclaredBeforeUse)
<1> SUFFICES ASSUME DeclaringTrees PROVE Spec => []DeclaredBeforeUse
  OBVIOUS
<1> DEFINE Inv == TypeOK /\ StageInv /\ DeclaredBeforeUse
<1>1. Init => Inv
  BY TypeInit DEF Init, DeclaringTrees, DeclaredBeforeUse, StageInv, At
<1>2. Inv /\ [Next]_vars => Inv'
  BY TypeStep, StageStep, DeclaredStep
<1>3. Inv => DeclaredBeforeUse
  OBVIOUS
<1> HIDE DEF Inv
<1> QED BY <1>1, <1>2, <1>3, PTL DEF Spec

=============================================================================
