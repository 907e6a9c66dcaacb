------------------------ MODULE PatchPipeline_proofs ------------------------
(***************************************************************************)
(* For every set of kernel trees, donors and requests: the patch step      *)
(* keeps the tree well formed, ends with one ramoops channel and a log     *)
(* that survives, and on trees that compile and declare their fields in    *)
(* the layouts the scripts know leaves nothing for the smoke gate to find; *)
(* and every patch that was asked for is in what is built.                 *)
(***************************************************************************)
EXTENDS PatchPipeline, SequenceTheorems, FiniteSetTheorems, TLAPS

-----------------------------------------------------------------------------
(* What each script leaves is a tree, with the device trees and the ramoops *)
(* driver as they were.                                                     *)

Kept(t, o) == o.tree \in Tree /\ o.tree.ram = t.ram /\ o.tree.dt = t.dt

LEMMA NewTypesNames ==
  /\ \A i \in 1..10 : NewTypes[i] \in MapTypes /\ NewTypes[i] # "SOCKMAP"
  /\ \A i, j \in 1..10 : NewTypes[i] = NewTypes[j] => i = j
  /\ NewTypes[10] = "DEVMAP_HASH"
<1>1. \A i \in 1..10 : NewTypes[i] \in MapTypes
  BY DEF MapTypes
<1>2. \A i \in 1..10 : NewTypes[i] # "SOCKMAP"
  BY DEF NewTypes
<1>3. \A i, j \in 1..10 : NewTypes[i] = NewTypes[j] => i = j
  BY DEF NewTypes
<1> QED BY <1>1, <1>2, <1>3 DEF NewTypes

LEMMA KeptBoth ==
  ASSUME NEW t, NEW u \in Tree, u.ram = t.ram, u.dt = t.dt
  PROVE  Kept(t, Done(u)) /\ Kept(t, Fatal(u))
BY DEF Kept, Done, Fatal

\* The functions that a script replaces in kernel/bpf/ are the same.
SameCode(t, u) == u.core = t.core /\ u.lpm_trie = t.lpm_trie

LEMMA SetUapi ==
  ASSUME NEW t \in Tree, NEW u \in UapiFile
  PROVE  LET n == [t EXCEPT !.uapi = u]
         IN /\ n \in Tree /\ n.uapi = u
            /\ n.ram = t.ram /\ n.dt = t.dt /\ n.types = t.types /\ n.verifier = t.verifier
            /\ n.syscall = t.syscall /\ n.mask = t.mask /\ SameCode(t, n)
BY DEF Tree, SameCode

LEMMA EnumOfTree ==
  ASSUME NEW t \in Tree
  PROVE  t.uapi.enum \in Seq(Enumerator) /\ t.uapi.enum # << >> /\ t.uapi \in UapiFile
BY DEF Tree, UapiFile

LEMMA GraftedMasks ==
  ASSUME NEW t \in Tree, NEW d \in Tree, NEW files
  PROVE  Grafted(t, d, files) \in [Allocators -> Masks]
BY DEF Grafted, Tree, Masks

LEMMA DropKeeps ==
  ASSUME NEW t \in Tree, NEW d
  PROVE  LET u == DropSockmap(t, d)
         IN u \in Tree /\ u.uapi = t.uapi /\ u.ram = t.ram /\ u.dt = t.dt
<1>1. [t.mask EXCEPT !["sockmap"] = "absent"] \in [Allocators -> Masks]
  BY DEF Tree, Masks
<1> QED BY <1>1 DEF DropSockmap, Tree

\* The graft brings the donor's header or leaves the tree's.
LEMMA TransplantKeeps ==
  ASSUME NEW t \in Tree, NEW input \in Request
  PROVE  LET o == Transplant(t, input)
         IN Kept(t, o) /\ o.tree.uapi \in {t.uapi, input.donor.uapi}
<1> DEFINE d == input.donor
           devmap  == [t EXCEPT !.mask = Grafted(t, d, {"devmap"})]
           sockopt == [t EXCEPT !.uapi = d.uapi, !.types = d.types, !.core = d.core,
                                !.verifier = d.verifier, !.syscall = d.syscall]
           full    == [sockopt EXCEPT !.mask = Grafted(t, d, Allocators \ {"sockmap"}),
                                      !.lpm_trie = d.lpm_trie,
                                      !.sock_map = @ \/ d.sock_map]
           Fine(u) == u \in Tree /\ u.ram = t.ram /\ u.dt = t.dt /\ u.uapi \in {t.uapi, d.uapi}
<1>1. d \in Tree
  BY TreesAssumption DEF Request
<1>2. input.graft \in {"none", "devmap", "sockopt", "full"}
  BY DEF Request, Scopes
<1> HIDE DEF d
<1>3. Fine(t) /\ Fine(devmap) /\ Fine(sockopt)
  BY <1>1, GraftedMasks DEF Tree
<1>4. Fine(full)
  <2>1. (sockopt.sock_map \/ d.sock_map) \in BOOLEAN
    OBVIOUS
  <2>2. Grafted(t, d, Allocators \ {"sockmap"}) \in [Allocators -> Masks]
    BY <1>1, GraftedMasks
  <2> HIDE DEF sockopt
  <2> QED BY <1>1, <1>3, <2>1, <2>2 DEF Tree
<1>5. Transplant(t, input) \in {Done(t), Done(DropSockmap(devmap, d)),
                               Done(DropSockmap(sockopt, d)), Done(DropSockmap(full, d))}
  BY <1>2 DEF Transplant, d
<1> HIDE DEF devmap, sockopt, full
<1>6. ASSUME NEW u, Fine(u) PROVE Fine(DropSockmap(u, d))
  BY <1>6, DropKeeps
<1>7. ASSUME NEW u, Fine(u)
      PROVE  Kept(t, Done(u)) /\ Done(u).tree.uapi \in {t.uapi, d.uapi}
  BY <1>7 DEF Kept, Done
<1> QED BY <1>3, <1>4, <1>5, <1>6, <1>7 DEF d

LEMMA RdonlyKeeps == ASSUME NEW t \in Tree PROVE Kept(t, AcceptRdonlyProg(t))
<1>1. add_flag_defs(t) \in SUBSET ProgFlags
  BY DEF add_flag_defs, Tree, UapiFile
<1>2. [a \in Allocators |-> IF t.mask[a] = "narrow" THEN "wide" ELSE t.mask[a]]
        \in [Allocators -> Masks]
  BY DEF Tree, Masks
<1>3. [t.uapi EXCEPT !.flags = add_flag_defs(t)] \in UapiFile
  BY <1>1 DEF Tree, UapiFile
<1> QED BY <1>2, <1>3 DEF AcceptRdonlyProg, Kept, Done, Tree

\* The cgroup scripts change nothing but the attach types.
OnlyAttach(t, u) ==
  /\ u \in Tree
  /\ u.ram = t.ram /\ u.dt = t.dt /\ u.types = t.types /\ u.verifier = t.verifier
  /\ u.mask = t.mask /\ SameCode(t, u)
  /\ u.uapi.enum = t.uapi.enum /\ u.uapi.flags = t.uapi.flags
  /\ u.uapi.attr = t.uapi.attr /\ u.uapi.texts = t.uapi.texts
  /\ u.syscall.map_last = t.syscall.map_last /\ u.syscall.prog_last = t.syscall.prog_last

LEMMA DeclaredAttach ==
  ASSUME NEW t \in Tree, NEW types \in SUBSET AttachTypes
  PROVE  LET u == [t EXCEPT !.uapi.attach = @ \union types]
         IN /\ OnlyAttach(t, u) /\ u.syscall = t.syscall
            /\ u.uapi.attach = t.uapi.attach \union types
<1> DEFINE w == [t.uapi EXCEPT !.attach = t.uapi.attach \union types]
           u == [t EXCEPT !.uapi.attach = @ \union types]
<1>1. /\ w \in UapiFile /\ w.enum = t.uapi.enum /\ w.flags = t.uapi.flags
      /\ w.attr = t.uapi.attr /\ w.texts = t.uapi.texts
      /\ w.attach = t.uapi.attach \union types
  BY EnumOfTree DEF UapiFile
<1>2. u = [t EXCEPT !.uapi = w]
  OBVIOUS
<1> HIDE DEF w, u
<1>3. u \in Tree /\ u.uapi = w /\ u.syscall = t.syscall /\ SameCode(t, u)
      /\ u.ram = t.ram /\ u.dt = t.dt /\ u.types = t.types /\ u.verifier = t.verifier
      /\ u.mask = t.mask
  BY <1>1, <1>2, SetUapi
<1> QED BY <1>1, <1>3 DEF OnlyAttach, u

LEMMA WiredAttach ==
  ASSUME NEW t \in Tree, NEW types \in SUBSET AttachTypes
  PROVE  LET u == Wired(t, types)
         IN /\ OnlyAttach(t, u) /\ u.uapi = t.uapi
            /\ u.syscall.attach = t.syscall.attach \union types
<1> DEFINE w == [t.syscall EXCEPT !.attach = t.syscall.attach \union types]
           u == Wired(t, types)
<1>1. /\ w \in SyscallFile /\ w.map_last = t.syscall.map_last
      /\ w.prog_last = t.syscall.prog_last
      /\ w.attach = t.syscall.attach \union types
  BY DEF Tree, SyscallFile
<1>2. u = [t EXCEPT !.syscall = w]
  BY DEF Wired
<1> HIDE DEF w, u
<1>3. u \in Tree /\ u.uapi = t.uapi /\ u.syscall = w /\ SameCode(t, u)
      /\ u.ram = t.ram /\ u.dt = t.dt /\ u.types = t.types /\ u.verifier = t.verifier
      /\ u.mask = t.mask
  BY <1>1, <1>2 DEF Tree, SameCode
<1> QED BY <1>1, <1>3 DEF OnlyAttach, u

\* What such a script uses it has declared, add_cgroup_sockopt.py excepted.
LEMMA DeclaringAttach ==
  ASSUME NEW t \in Tree, NEW types \in SUBSET AttachTypes, NEW o \in Declaring(t, types)
  PROVE  /\ OnlyAttach(t, o.tree)
         /\ o.ok => /\ o.tree.uapi.attach = t.uapi.attach \union types
                    /\ o.tree.syscall.attach = t.syscall.attach \union types
<1> DEFINE u == [t EXCEPT !.uapi.attach = @ \union types]
           v == Wired(u, types)
<1>1. /\ OnlyAttach(t, u) /\ u.syscall = t.syscall
      /\ u.uapi.attach = t.uapi.attach \union types
  BY DeclaredAttach
<1>2. o \in {Done(v), Fatal(t), Fatal(u), Fatal(v)}
  BY DEF Declaring
<1> HIDE DEF u
<1>3. /\ OnlyAttach(u, v) /\ v.uapi = u.uapi
      /\ v.syscall.attach = u.syscall.attach \union types
  BY <1>1, WiredAttach DEF OnlyAttach
<1> HIDE DEF v
<1>4. OnlyAttach(t, v) /\ OnlyAttach(t, t)
  BY <1>1, <1>3 DEF OnlyAttach, SameCode
<1> QED BY <1>1, <1>2, <1>3, <1>4 DEF Done, Fatal

CgroupOutcomes(t) == AddAttachTypes(t) \union AddSockopt(t) \union AddDevice(t)

LEMMA CgroupAttach ==
  ASSUME NEW t \in Tree
  PROVE  /\ \A o \in CgroupOutcomes(t) : OnlyAttach(t, o.tree)
         /\ \A o \in AddAttachTypes(t) : o.ok =>
              /\ o.tree.uapi.attach = t.uapi.attach \union {"msg", "sockopt"}
              /\ o.tree.syscall.attach = t.syscall.attach \union {"msg", "sockopt"}
         /\ \A o \in AddSockopt(t) : o.ok =>
              /\ o.tree.uapi.attach = t.uapi.attach
              /\ o.tree.syscall.attach = t.syscall.attach \union {"sockopt"}
         /\ \A o \in AddDevice(t) : o.ok =>
              \/ o.tree = t
              \/ /\ o.tree.uapi.attach = t.uapi.attach \union {"device"}
                 /\ o.tree.syscall.attach = t.syscall.attach \union {"device"}
<1>1. {"msg", "sockopt"} \in SUBSET AttachTypes /\ {"sockopt"} \in SUBSET AttachTypes
      /\ {"device"} \in SUBSET AttachTypes
  BY DEF AttachTypes
<1>2. OnlyAttach(t, t)
  BY DEF OnlyAttach, SameCode
<1>3. \A o \in AddAttachTypes(t) :
        /\ OnlyAttach(t, o.tree)
        /\ o.ok => /\ o.tree.uapi.attach = t.uapi.attach \union {"msg", "sockopt"}
                   /\ o.tree.syscall.attach = t.syscall.attach \union {"msg", "sockopt"}
  BY <1>1, DeclaringAttach DEF AddAttachTypes
<1>4. \A o \in AddSockopt(t) :
        /\ OnlyAttach(t, o.tree)
        /\ o.ok => /\ o.tree.uapi.attach = t.uapi.attach
                   /\ o.tree.syscall.attach = t.syscall.attach \union {"sockopt"}
  <2> DEFINE u == Wired(t, {"sockopt"})
  <2>1. /\ OnlyAttach(t, u) /\ u.uapi = t.uapi
        /\ u.syscall.attach = t.syscall.attach \union {"sockopt"}
    BY <1>1, WiredAttach
  <2> HIDE DEF u
  <2> QED BY <1>2, <2>1 DEF AddSockopt, Done, Fatal, u
<1>5. \A o \in AddDevice(t) :
        /\ OnlyAttach(t, o.tree)
        /\ o.ok => \/ o.tree = t
                   \/ /\ o.tree.uapi.attach = t.uapi.attach \union {"device"}
                      /\ o.tree.syscall.attach = t.syscall.attach \union {"device"}
  <2>1. CASE "device" \in t.uapi.attach
    BY <1>2, <2>1 DEF AddDevice, Done
  <2>2. CASE "device" \notin t.uapi.attach
    BY <1>1, <2>2, DeclaringAttach DEF AddDevice
  <2> QED BY <2>1, <2>2
<1> QED BY <1>3, <1>4, <1>5 DEF CgroupOutcomes

LEMMA XskmapUapiKeeps ==
  ASSUME NEW t \in Tree
  PROVE  LET u == XskmapUapi(t)
         IN /\ u \in Tree
            /\ u.uapi.flags = t.uapi.flags /\ u.uapi.attr = t.uapi.attr
            /\ u.uapi.texts = t.uapi.texts /\ u.uapi.attach = t.uapi.attach
            /\ u.ram = t.ram /\ u.dt = t.dt /\ u.types = t.types /\ u.verifier = t.verifier
            /\ u.syscall = t.syscall /\ u.mask = t.mask /\ SameCode(t, u)
<1> DEFINE e == [type |-> "XSKMAP", value |-> 17, explicit |-> TRUE]
           w == [t.uapi EXCEPT !.enum = Append(t.uapi.enum, e)]
<1>1. e \in Enumerator
  BY NewTypesNames DEF Enumerator, MapTypes, NewTypes
<1>2. t.uapi.enum \in Seq(Enumerator) /\ t.uapi \in UapiFile
  BY EnumOfTree
<1>3. Append(t.uapi.enum, e) \in Seq(Enumerator) \ {<< >>}
  BY <1>1, <1>2, AppendProperties
<1>4. /\ w \in UapiFile /\ w.flags = t.uapi.flags /\ w.attr = t.uapi.attr
      /\ w.texts = t.uapi.texts /\ w.attach = t.uapi.attach
  BY <1>2, <1>3 DEF UapiFile
<1>5. XskmapUapi(t) \in {t, [t EXCEPT !.uapi = w]}
  BY DEF XskmapUapi
<1> HIDE DEF w
<1>6. CASE XskmapUapi(t) = t
  BY <1>6 DEF SameCode
<1>7. CASE XskmapUapi(t) = [t EXCEPT !.uapi = w]
  BY <1>4, <1>7, SetUapi
<1> QED BY <1>5, <1>6, <1>7

LEMMA XskmapKeeps == ASSUME NEW t \in Tree PROVE Kept(t, AliasXskmap(t))
<1> DEFINE u == XskmapUapi(t)
           y == [u EXCEPT !.types = Mentioning(t.types)]
           v == [y EXCEPT !.verifier = Mentioning(t.verifier)]
<1>1. u \in Tree /\ u.ram = t.ram /\ u.dt = t.dt
  BY XskmapUapiKeeps
<1> HIDE DEF u
<1>2. y \in Tree /\ y.ram = t.ram /\ y.dt = t.dt
  BY <1>1 DEF Tree, Mentioning
<1> HIDE DEF y
<1>3. v \in Tree /\ v.ram = t.ram /\ v.dt = t.dt
  BY <1>2 DEF Tree, Mentioning
<1> HIDE DEF v
<1>4. AliasXskmap(t) \in {Fatal(u), Fatal(y), Fatal(v), Done(v)}
  BY DEF AliasXskmap, u, y, v
<1> QED BY <1>1, <1>2, <1>3, <1>4, KeptBoth

\* What backport_bpf_map_types.py appends to the enum.
NewEntries(t) ==
  [i \in 1..10 |-> [type |-> NewTypes[i], value |-> t.uapi.enum[Len(t.uapi.enum)].value + i,
                    explicit |-> FALSE]]

LEMMA NewEntriesType ==
  ASSUME NEW t \in Tree
  PROVE  /\ NewEntries(t) \in Seq(Enumerator) /\ Len(NewEntries(t)) = 10
         /\ \A i \in 1..10 : NewEntries(t)[i].type = NewTypes[i]
<1> DEFINE v == t.uapi.enum[Len(t.uapi.enum)].value
<1>1. v \in Nat
  <2>1. t.uapi.enum[Len(t.uapi.enum)] \in Enumerator
    BY EnumOfTree
  <2> QED BY <2>1 DEF Enumerator
<1>2. NewEntries(t) = [i \in 1..10 |-> [type |-> NewTypes[i], value |-> v + i, explicit |-> FALSE]]
  BY DEF NewEntries
<1> HIDE DEF v
<1>3. ASSUME NEW i \in 1..10
      PROVE  [type |-> NewTypes[i], value |-> v + i, explicit |-> FALSE] \in Enumerator
  <2>1. v + i \in Nat
    BY <1>1
  <2>2. NewTypes[i] \in MapTypes
    BY NewTypesNames
  <2> QED BY <2>1, <2>2 DEF Enumerator
<1>4. NewEntries(t) \in [1..10 -> Enumerator]
  BY <1>2, <1>3
<1>5. NewEntries(t) \in Seq(Enumerator)
  BY <1>4, SeqDef
<1>6. Len(NewEntries(t)) = 10
  BY <1>4, <1>5
<1> QED BY <1>2, <1>5, <1>6

LEMMA MapTypesUapiKeeps ==
  ASSUME NEW t \in Tree
  PROVE  LET u == MapTypesUapi(t)
         IN /\ u \in Tree /\ u.uapi = [t.uapi EXCEPT !.enum = t.uapi.enum \o NewEntries(t)]
            /\ u.ram = t.ram /\ u.dt = t.dt /\ u.types = t.types /\ u.verifier = t.verifier
            /\ u.syscall = t.syscall /\ u.mask = t.mask /\ SameCode(t, u)
<1> DEFINE w == [t.uapi EXCEPT !.enum = t.uapi.enum \o NewEntries(t)]
<1>1. MapTypesUapi(t) = [t EXCEPT !.uapi = w]
  BY DEF MapTypesUapi, NewEntries
<1>2. t.uapi.enum \o NewEntries(t) \in Seq(Enumerator) \ {<< >>}
  BY EnumOfTree, NewEntriesType
<1>3. w \in UapiFile
  BY <1>2, EnumOfTree DEF UapiFile
<1> HIDE DEF w
<1>4. LET u == MapTypesUapi(t)
      IN /\ u \in Tree /\ u.uapi = w
         /\ u.ram = t.ram /\ u.dt = t.dt /\ u.types = t.types /\ u.verifier = t.verifier
         /\ u.syscall = t.syscall /\ u.mask = t.mask /\ SameCode(t, u)
  BY <1>1, <1>3, SetUapi
<1> QED BY <1>4 DEF w

LEMMA MapTypesKeeps == ASSUME NEW t \in Tree PROVE Kept(t, BackportMapTypes(t))
<1> DEFINE u == IF "DEVMAP_HASH" \in TypesOf(t.uapi) THEN t ELSE MapTypesUapi(t)
           y == [u EXCEPT !.types = @ \union {"DEVMAP_HASH"}]
<1>1. u \in Tree /\ u.ram = t.ram /\ u.dt = t.dt
  BY MapTypesUapiKeeps
<1> HIDE DEF u
<1>2. y \in Tree /\ y.ram = t.ram /\ y.dt = t.dt
  BY <1>1 DEF Tree
<1> HIDE DEF y
<1>3. BackportMapTypes(t) \in {Fatal(t), Fatal(u), Done(y)}
  BY DEF BackportMapTypes, u, y
<1> QED BY <1>1, <1>2, <1>3, KeptBoth

\* backport_bpf_attr.py: the fields the header has after the script.
NewAttr(t) ==
  t.uapi.attr
    \union (IF "btf_value_type_id" \in t.uapi.attr THEN {} ELSE {"btf_value_type_id"})
    \union (IF "expected_attach_type" \in t.uapi.attr THEN {}
            ELSE {"expected_attach_type", "line_info_cnt"})

LEMMA AttrUapiKeeps ==
  ASSUME NEW t \in Tree
  PROVE  LET u == AttrUapi(t)
         IN /\ u \in Tree /\ u.uapi = [t.uapi EXCEPT !.attr = NewAttr(t)]
            /\ u.ram = t.ram /\ u.dt = t.dt /\ u.types = t.types /\ u.verifier = t.verifier
            /\ u.syscall = t.syscall /\ u.mask = t.mask /\ SameCode(t, u)
<1>1. NewAttr(t) \in SUBSET AttrFields
  BY EnumOfTree DEF NewAttr, AttrFields, UapiFile
<1>2. [t.uapi EXCEPT !.attr = NewAttr(t)] \in UapiFile
  BY <1>1, EnumOfTree DEF UapiFile
<1>3. AttrUapi(t) = [t EXCEPT !.uapi = [t.uapi EXCEPT !.attr = NewAttr(t)]]
  BY DEF AttrUapi, NewAttr
<1> QED BY <1>2, <1>3, SetUapi

LEMMA BpfAttrKeeps == ASSUME NEW t \in Tree PROVE Kept(t, BackportBpfAttr(t))
<1> DEFINE u == AttrUapi(t)
           v == AttrSyscall(u)
<1>1. u \in Tree /\ u.ram = t.ram /\ u.dt = t.dt
  BY AttrUapiKeeps
<1> HIDE DEF u
<1>2. v \in Tree /\ v.ram = u.ram /\ v.dt = u.dt
  <2>1. [u.syscall EXCEPT
           !.map_last  = IF @ = "map_name" THEN "btf_value_type_id" ELSE @,
           !.prog_last = IF @ = "prog_name" THEN "line_info_cnt" ELSE @] \in SyscallFile
    BY <1>1 DEF Tree, SyscallFile
  <2> QED BY <1>1, <2>1 DEF AttrSyscall, Tree
<1> HIDE DEF v
<1>3. BackportBpfAttr(t) \in {Fatal(t), Done(v)}
  BY DEF BackportBpfAttr, u, v
<1> QED BY <1>1, <1>2, <1>3, KeptBoth

LEMMA OtherKeeps ==
  ASSUME NEW t \in Tree, NEW r \in Releases \union {Truth}
  PROVE  /\ Kept(t, TracePrintkDummy(t)) /\ Kept(t, BackportTrie(t))
         /\ Kept(t, FakeUname(t, r)) /\ Kept(t, Done(t)) /\ Kept(t, Fatal(t))
<1>1. Kept(t, TracePrintkDummy(t))
  BY DEF TracePrintkDummy, Kept, Done, Fatal, Tree
<1>2. Kept(t, BackportTrie(t))
  BY DEF BackportTrie, Kept, Done, Fatal, Tree
<1>3. Kept(t, FakeUname(t, r))
  <2> DEFINE w == [t.sys EXCEPT !.release = r, !.comms = Comms, !.named = @ \union {r}]
             u == [t EXCEPT !.sys = w]
  <2>1. w \in [release : Releases \union {Truth}, named : SUBSET (Releases \union {Truth}),
               comms : SUBSET Comms, memcpy : BOOLEAN]
    BY DEF Tree
  <2>2. FakeUname(t, r) \in {Done(t), Done(u), Fatal(t)}
    BY DEF FakeUname
  <2> HIDE DEF w
  <2>3. u \in Tree /\ u.ram = t.ram /\ u.dt = t.dt
    BY <2>1 DEF Tree
  <2> HIDE DEF u
  <2> QED BY <2>2, <2>3 DEF Kept, Done, Fatal
<1> QED BY <1>1, <1>2, <1>3 DEF Kept, Done, Fatal

-----------------------------------------------------------------------------
(* The ramoops script.                                                      *)

NoOwnNode(t) == \A f \in Raphael : t.dt[f].node # "own"
NoNode(t)    == \A f \in Raphael : t.dt[f].node = "none"

\* The sources the smoke gate compiles are the same.
SameSources(t, u) ==
  /\ u.uapi = t.uapi /\ u.types = t.types /\ u.verifier = t.verifier
  /\ u.syscall = t.syscall /\ u.mask = t.mask

\* It keeps the tree a tree, installs the parameter only where no file of raphael
\* has a node, and leaves no node but the ROM's.
LEMMA RamoopsLeaves ==
  ASSUME NEW t \in Tree, NEW o \in XiaomiRamoops(t)
  PROVE  /\ o.tree \in Tree
         /\ o.tree.ram = t.ram \/ NoNode(o.tree)
         /\ NoOwnNode(o.tree)
         /\ SameSources(t, o.tree) /\ SameCode(t, o.tree)
<1> DEFINE warm == force_warm_reboot(t)
<1>0. Raphael \subseteq DtFiles
  BY DEF Raphael, DtFiles
<1>1. /\ warm \in Tree /\ warm.ram = t.ram
      /\ \A f \in DtFiles : warm.dt[f].node = t.dt[f].node
      /\ SameSources(t, warm) /\ SameCode(t, warm)
  <2> DEFINE dt == [f \in DtFiles |-> [t.dt[f] EXCEPT !.warm = t.dt[f].warm \/ t.dt[f].pshold]]
  <2>1. \A f \in DtFiles : t.dt[f] \in DtFile
    BY DEF Tree
  <2>2. \A f \in DtFiles : (t.dt[f].warm \/ t.dt[f].pshold) \in BOOLEAN
    OBVIOUS
  <2>3. \A f \in DtFiles : dt[f] \in DtFile /\ dt[f].node = t.dt[f].node
    BY <2>1, <2>2 DEF DtFile
  <2>4. dt \in [DtFiles -> DtFile]
    BY <2>3
  <2>5. warm = [t EXCEPT !.dt = dt]
    BY DEF force_warm_reboot
  <2> HIDE DEF dt, warm
  <2> QED BY <2>3, <2>4, <2>5 DEF Tree, SameSources, SameCode
<1> HIDE DEF warm
<1>2. CASE WithNode(t) # {}
  <2> DEFINE dt == [f \in DtFiles |-> [warm.dt[f] EXCEPT
                      !.node = IF f \in WithNode(warm) THEN "rom" ELSE warm.dt[f].node]]
  <2>1. \A f \in DtFiles : warm.dt[f] \in DtFile
    BY <1>1 DEF Tree
  <2>2. \A f \in DtFiles : dt[f] \in DtFile
    BY <2>1 DEF DtFile
  <2>3. \A f \in Raphael : dt[f].node # "own"
    BY <1>0, <2>1 DEF DtFile, WithNode
  <2>4. o.tree = [warm EXCEPT !.dt = dt]
    BY <1>2 DEF XiaomiRamoops, rewrite_dts_nodes, Done, warm
  <2>5. dt \in [DtFiles -> DtFile]
    BY <2>2
  <2> HIDE DEF dt
  <2> QED BY <1>1, <2>3, <2>4, <2>5 DEF Tree, NoOwnNode, SameSources, SameCode
<1>3. CASE WithNode(t) = {} /\ Insertable(t) # {}
  <2>0. XiaomiRamoops(t) = {Done([warm EXCEPT !.dt[f].node = "rom"]) : f \in Insertable(t)}
    BY <1>3 DEF XiaomiRamoops, warm
  <2>1. PICK f \in Insertable(t) : o = Done([warm EXCEPT !.dt[f].node = "rom"])
    BY <2>0
  <2>7. f \in Raphael /\ o.tree = [warm EXCEPT !.dt[f].node = "rom"]
    BY <2>1 DEF Done, Insertable
  <2> DEFINE dt == [warm.dt EXCEPT ![f].node = "rom"]
  <2>2. warm.dt \in [DtFiles -> DtFile] /\ f \in DtFiles
    BY <1>0, <1>1, <2>7 DEF Tree
  <2>3. [warm.dt[f] EXCEPT !.node = "rom"] \in DtFile
    BY <2>2 DEF DtFile
  <2>4. dt \in [DtFiles -> DtFile]
    BY <2>2, <2>3
  <2>5. \A g \in Raphael : dt[g].node # "own"
    BY <1>0, <1>1, <1>3, <2>2 DEF WithNode, DtFile
  <2>6. o.tree = [warm EXCEPT !.dt = dt]
    BY <2>7
  <2> HIDE DEF dt
  <2> QED BY <1>1, <2>4, <2>5, <2>6 DEF Tree, NoOwnNode, SameSources, SameCode
<1>4. CASE WithNode(t) = {} /\ Insertable(t) = {}
  <2>1. o = patch_ram_c(warm)
    BY <1>4 DEF XiaomiRamoops, warm
  <2>2. o.tree \in {warm, [warm EXCEPT !.ram = "memreserve"]}
    BY <1>1, <2>1 DEF patch_ram_c, Done, Fatal, Tree
  <2>3. NoNode(warm)
    BY <1>0, <1>1, <1>4 DEF WithNode, NoNode
  <2>4. o.tree.dt = warm.dt /\ o.tree \in Tree
    BY <1>1, <2>2 DEF Tree
  <2>5. NoNode(o.tree) /\ NoOwnNode(o.tree)
    BY <2>3, <2>4 DEF NoNode, NoOwnNode
  <2>6. SameSources(t, o.tree) /\ SameCode(t, o.tree)
    BY <1>1, <2>2 DEF Tree, SameSources, SameCode
  <2> QED BY <2>4, <2>5, <2>6
<1> QED BY <1>2, <1>3, <1>4

-----------------------------------------------------------------------------
(* The invariant of one run.                                                *)

Phase   == /\ stage = "preflight" => step = 1
           /\ stage = "patch" => step <= 12
Quiet   == stage \in {"preflight", "patch"} => tree.ram # "memreserve"
Logged  == stage \in {"verify", "smoke", "building"} => NoOwnNode(tree)
Checked == stage \in {"smoke", "building"} => Verifies(tree, request)

IInv == TypeOK /\ Phase /\ Quiet /\ NeverTwoChannels /\ Logged /\ Checked

StepNames == Patches \union CgroupPatches \union {"transplant", "fake_uname", "ramoops"}

LEMMA TwelveSteps == /\ Len(Steps) = 12 /\ Steps[12] = "ramoops"
                     /\ \A i \in 1..11 : Steps[i] # "ramoops"
                     /\ \A i \in 1..12 : Steps[i] \in StepNames
BY DEF Steps, StepNames, Patches, CgroupPatches

LEMMA OutcomeKeeps ==
  ASSUME TypeOK, NEW name \in StepNames \ {"ramoops"}, NEW o \in Outcomes(name)
  PROVE  Kept(tree, o)
<1>1. tree \in Tree /\ request \in Request /\ request.fake_uname \in Releases \union {Truth}
  BY DEF TypeOK, Request
<1>2. Kept(tree, Fatal(tree))
  BY <1>1, OtherKeeps
<1>3. CASE name \in {"cgroup_attach_types", "cgroup_sockopt", "cgroup_device"}
  <2>1. o \in CgroupOutcomes(tree)
    BY <1>3 DEF Outcomes, CgroupOutcomes
  <2> QED BY <1>1, <2>1, CgroupAttach DEF OnlyAttach, Kept
<1>4. CASE name = "transplant"
  BY <1>1, <1>2, <1>4, TransplantKeeps DEF Outcomes
<1>5. CASE name \in Patches \union {"fake_uname"}
  <2>1. o \in {AcceptRdonlyProg(tree), AliasXskmap(tree), TracePrintkDummy(tree),
               BackportTrie(tree), BackportMapTypes(tree), BackportBpfAttr(tree),
               FakeUname(tree, request.fake_uname)}
    BY <1>5 DEF Outcomes, Patches
  <2> QED BY <1>1, <2>1, RdonlyKeeps, XskmapKeeps, MapTypesKeeps, BpfAttrKeeps, OtherKeeps
<1> QED BY <1>3, <1>4, <1>5 DEF StepNames, CgroupPatches

\* A step of the patch step: skipped, one of the scripts before the last, or the
\* ramoops script.
LEMMA RunStepCases ==
  ASSUME TypeOK, Phase, RunStep
  PROVE  /\ step \in 1..12 /\ step' = step + 1 /\ stage = "patch"
         /\ UNCHANGED <<request, blockers>>
         /\ \/ /\ step # 12 /\ UNCHANGED tree /\ stage' = "patch" /\ ~Asked(Steps[step])
            \/ /\ step # 12
               /\ \E o \in Outcomes(Steps[step]) :
                    tree' = o.tree /\ stage' = IF o.ok THEN "patch" ELSE "fatal"
            \/ /\ step = 12
               /\ \E o \in XiaomiRamoops(tree) :
                    tree' = o.tree /\ stage' = IF o.ok THEN "verify" ELSE "fatal"
<1>1. step \in 1..12 /\ step' = step + 1 /\ stage = "patch" /\ UNCHANGED <<request, blockers>>
  BY TwelveSteps DEF TypeOK, Phase, RunStep
<1>2. CASE step # 12
  BY <1>1, <1>2, TwelveSteps DEF RunStep
<1>3. CASE step = 12
  <2>1. Asked(Steps[step]) /\ Outcomes(Steps[step]) = XiaomiRamoops(tree)
    BY <1>3, TwelveSteps DEF Asked, Outcomes, Patches
  <2> QED BY <1>1, <1>3, <2>1, TwelveSteps DEF RunStep
<1> QED BY <1>1, <1>2, <1>3

LEMMA IInvInit == Init => IInv
<1> SUFFICES ASSUME Init PROVE IInv
  OBVIOUS
<1>1. tree \in Tree /\ tree \in Trees /\ request \in Request
  BY TreesAssumption, RequestsAssumption DEF Init
<1>2. TypeOK
  BY <1>1, TwelveSteps DEF Init, TypeOK, Stages
<1>3. tree.ram # "memreserve"
  BY <1>1, PristineAssumption
<1> QED BY <1>2, <1>3
       DEF Init, IInv, Phase, Quiet, NeverTwoChannels, Logged, Checked

LEMMA IInvStep == IInv /\ [Next]_vars => IInv'
<1> SUFFICES ASSUME IInv, [Next]_vars PROVE IInv'
  OBVIOUS
<1>0. TypeOK /\ Phase /\ Quiet /\ NeverTwoChannels /\ Logged /\ Checked
  BY DEF IInv
<1>1. CASE Preflight
  <2>1. stage' \in {"patch", "refused"} /\ stage = "preflight" /\ UNCHANGED <<request, tree, step>>
    BY <1>1 DEF Preflight
  <2>2. blockers' \subseteq Patches \union {"fake_uname", "ramoops", "other"}
    BY <1>1 DEF Preflight, Failing, Patches
  <2>3. TypeOK'
    BY <1>0, <2>1, <2>2 DEF TypeOK, Stages
  <2> QED BY <1>0, <2>1, <2>3
         DEF IInv, Phase, Quiet, NeverTwoChannels, Logged, Checked
<1>2. CASE RunStep
  <2>1. /\ step \in 1..12 /\ step' = step + 1 /\ stage = "patch" /\ UNCHANGED <<request, blockers>>
    BY <1>0, <1>2, RunStepCases
  <2>2. tree.ram # "memreserve" /\ tree \in Tree
    BY <1>0, <2>1 DEF Quiet, TypeOK
  <2>3. CASE step # 12 /\ UNCHANGED tree /\ stage' = "patch"
    <3>1. TypeOK'
      BY <1>0, <2>1, <2>3, TwelveSteps DEF TypeOK
    <3> QED BY <2>1, <2>2, <2>3, <3>1
           DEF IInv, Phase, Quiet, NeverTwoChannels, Logged, Checked
  <2>4. CASE /\ step # 12
             /\ \E o \in Outcomes(Steps[step]) :
                  tree' = o.tree /\ stage' = IF o.ok THEN "patch" ELSE "fatal"
    <3>1. PICK o \in Outcomes(Steps[step]) :
            tree' = o.tree /\ stage' = IF o.ok THEN "patch" ELSE "fatal"
      BY <2>4
    <3>2. Kept(tree, o)
      BY <1>0, <2>1, <2>4, TwelveSteps, OutcomeKeeps
    <3>3. tree' \in Tree /\ tree'.ram = tree.ram /\ stage' \in {"patch", "fatal"}
      BY <3>1, <3>2 DEF Kept
    <3>4. TypeOK'
      BY <1>0, <2>1, <3>3, TwelveSteps DEF TypeOK, Stages
    <3> QED BY <2>1, <2>2, <2>4, <3>3, <3>4
           DEF IInv, Phase, Quiet, NeverTwoChannels, Logged, Checked
  <2>5. CASE /\ step = 12
             /\ \E o \in XiaomiRamoops(tree) :
                  tree' = o.tree /\ stage' = IF o.ok THEN "verify" ELSE "fatal"
    <3>1. PICK o \in XiaomiRamoops(tree) :
            tree' = o.tree /\ stage' = IF o.ok THEN "verify" ELSE "fatal"
      BY <2>5
    <3>2. /\ tree' \in Tree /\ NoOwnNode(tree')
          /\ tree'.ram # "memreserve" \/ NoNode(tree')
      BY <2>2, <3>1, RamoopsLeaves
    <3>3. stage' \in {"verify", "fatal"}
      BY <3>1
    <3>4. TypeOK'
      BY <1>0, <2>1, <3>2, <3>3, TwelveSteps DEF TypeOK, Stages
    <3> QED BY <2>1, <3>2, <3>3, <3>4
           DEF IInv, Phase, Quiet, NeverTwoChannels, Logged, Checked, NoNode, NoOwnNode
  <2> QED BY <1>0, <1>2, <2>3, <2>4, <2>5, RunStepCases
<1>3. CASE Verify
  <2>1. /\ stage = "verify" /\ stage' \in {"smoke", "rejected"}
        /\ stage' = "smoke" => Verifies(tree, request)
        /\ UNCHANGED <<request, tree, step, blockers>>
    BY <1>3 DEF Verify
  <2>2. TypeOK'
    BY <1>0, <2>1 DEF TypeOK, Stages
  <2>3. Checked'
    BY <2>1 DEF Checked, Verifies
  <2> QED BY <1>0, <2>1, <2>2, <2>3
         DEF IInv, Phase, Quiet, NeverTwoChannels, Logged, NoOwnNode
<1>4. CASE Smoke
  <2>1. /\ stage = "smoke" /\ stage' \in {"building", "smoke_failed"}
        /\ UNCHANGED <<request, tree, step, blockers>>
    BY <1>4 DEF Smoke
  <2>2. TypeOK'
    BY <1>0, <2>1 DEF TypeOK, Stages
  <2>3. Checked'
    BY <1>0, <2>1 DEF Checked, Verifies
  <2> QED BY <1>0, <2>1, <2>2, <2>3
         DEF IInv, Phase, Quiet, NeverTwoChannels, Logged, NoOwnNode
<1>5. CASE UNCHANGED vars
  BY <1>0, <1>5 DEF vars, IInv, TypeOK, Phase, Quiet, NeverTwoChannels, Logged, NoOwnNode,
                    Checked, Verifies
<1> QED BY <1>1, <1>2, <1>3, <1>4, <1>5 DEF Next

LEMMA IInvHolds == Spec => []IInv
BY IInvInit, IInvStep, PTL DEF Spec

\* The tree stays a tree, and the run in its phases.
THEOREM TypeCorrect == Spec => []TypeOK
<1>1. IInv => TypeOK
  BY DEF IInv
<1> QED BY <1>1, IInvHolds, PTL

\* However the device trees of a kernel look, the ramoops script leaves a node or
\* the command line parameter, never both.
THEOREM OneChannel == Spec => []NeverTwoChannels
<1>1. IInv => NeverTwoChannels
  BY DEF IInv
<1> QED BY <1>1, IInvHolds, PTL

\* What is built keeps the log of a failed boot, for every kernel tree.
THEOREM LogIsKept == Spec => []LogSurvives
<1>1. IInv => LogSurvives
  BY DEF IInv, LogSurvives, Logged, Checked, NoOwnNode, Verifies
<1> QED BY <1>1, IInvHolds, PTL

-----------------------------------------------------------------------------
(* No patch breaks a tree that compiles.                                    *)

Names(s)    == {s[i].type : i \in 1..Len(s)}
Distinct(s) == \A i, j \in 1..Len(s) : s[i].type = s[j].type => i = j

LEMMA NamesOfFile == ASSUME NEW file PROVE TypesOf(file) = Names(file.enum)
BY DEF TypesOf, EnumOf, Names

LEMMA ConcatNames ==
  ASSUME NEW s \in Seq(Enumerator), NEW r \in Seq(Enumerator)
  PROVE  /\ Names(s \o r) = Names(s) \union Names(r)
         /\ Distinct(s) /\ Distinct(r) /\ Names(s) \intersect Names(r) = {} => Distinct(s \o r)
<1> DEFINE q == s \o r
<1>1. /\ Len(s) \in Nat /\ Len(r) \in Nat /\ Len(q) = Len(s) + Len(r)
      /\ \A i \in 1..Len(q) : q[i] = IF i <= Len(s) THEN s[i] ELSE r[i - Len(s)]
  BY ConcatProperties
<1> HIDE DEF q
<1>2. \A i \in 1..Len(s) : i \in 1..Len(q) /\ q[i] = s[i]
  BY <1>1
<1>3. \A i \in 1..Len(r) : i + Len(s) \in 1..Len(q) /\ q[i + Len(s)] = r[i]
  BY <1>1
<1>4. \A i \in 1..Len(q) : \/ i \in 1..Len(s)
                           \/ i - Len(s) \in 1..Len(r) /\ q[i] = r[i - Len(s)] /\ i > Len(s)
  BY <1>1
<1>5. Names(q) = Names(s) \union Names(r)
  <2>1. ASSUME NEW i \in 1..Len(q) PROVE q[i].type \in Names(s) \union Names(r)
    <3>1. CASE i \in 1..Len(s)
      BY <1>2, <3>1 DEF Names
    <3>2. CASE i \notin 1..Len(s)
      BY <1>4, <3>2 DEF Names
    <3> QED BY <3>1, <3>2
  <2>2. ASSUME NEW i \in 1..Len(s) PROVE s[i].type \in Names(q)
    BY <1>2 DEF Names
  <2>3. ASSUME NEW i \in 1..Len(r) PROVE r[i].type \in Names(q)
    BY <1>3 DEF Names
  <2> QED BY <2>1, <2>2, <2>3 DEF Names
<1>6. ASSUME Distinct(s), Distinct(r), Names(s) \intersect Names(r) = {},
             NEW i \in 1..Len(q), NEW j \in 1..Len(q), q[i].type = q[j].type
      PROVE  i = j
  <2>1. CASE i \in 1..Len(s) /\ j \in 1..Len(s)
    BY <1>2, <1>6, <2>1 DEF Distinct
  <2>2. CASE i \notin 1..Len(s) /\ j \notin 1..Len(s)
    <3>1. i - Len(s) = j - Len(s)
      BY <1>4, <1>6, <2>2 DEF Distinct
    <3> QED BY <1>1, <3>1
  <2>3. CASE i \in 1..Len(s) /\ j \notin 1..Len(s)
    <3>1. q[i].type \in Names(s)
      BY <1>2, <2>3 DEF Names
    <3>2. q[j].type \in Names(r)
      BY <1>4, <2>3 DEF Names
    <3> QED BY <1>6, <3>1, <3>2
  <2>4. CASE i \notin 1..Len(s) /\ j \in 1..Len(s)
    <3>1. q[j].type \in Names(s)
      BY <1>2, <2>4 DEF Names
    <3>2. q[i].type \in Names(r)
      BY <1>4, <2>4 DEF Names
    <3> QED BY <1>6, <3>1, <3>2
  <2> QED BY <2>1, <2>2, <2>3, <2>4
<1> QED BY <1>5, <1>6 DEF q, Distinct

\* Both ways of adding map types leave an enum without a name twice.
LEMMA XskmapNames ==
  ASSUME NEW t \in Tree, Distinct(t.uapi.enum)
  PROVE  LET u == XskmapUapi(t)
         IN /\ Distinct(u.uapi.enum)
            /\ TypesOf(u.uapi) = TypesOf(t.uapi) \union {"XSKMAP"}
            /\ EndsAtSockmap(u.uapi) => u.uapi = t.uapi
<1> DEFINE e == [type |-> "XSKMAP", value |-> 17, explicit |-> TRUE]
           s == t.uapi.enum
<1>1. e \in Enumerator
  BY NewTypesNames DEF Enumerator, MapTypes, NewTypes
<1>2. s \in Seq(Enumerator)
  BY EnumOfTree
<1>3. CASE "XSKMAP" \in TypesOf(t.uapi)
  BY <1>3 DEF XskmapUapi
<1>4. CASE "XSKMAP" \notin TypesOf(t.uapi)
  <2>1. XskmapUapi(t).uapi.enum = Append(s, e)
    BY <1>4, EnumOfTree DEF XskmapUapi, Tree, UapiFile
  <2>2. e.type = "XSKMAP"
    OBVIOUS
  <2>3. Names(s) = TypesOf(t.uapi) /\ Distinct(s)
    BY NamesOfFile
  <2> HIDE DEF e, s
  <2>4. Append(s, e) = s \o <<e>>
    BY <1>1, <1>2, AppendIsConcat
  <2>5. <<e>> \in Seq(Enumerator) /\ Len(<<e>>) = 1 /\ <<e>>[1] = e
    BY <1>1
  <2>6. Names(<<e>>) = {"XSKMAP"} /\ Distinct(<<e>>)
    BY <2>2, <2>5 DEF Names, Distinct
  <2>7. Len(Append(s, e)) = Len(s) + 1 /\ Append(s, e)[Len(s) + 1] = e
    BY <1>1, <1>2, AppendProperties
  <2>8. Names(Append(s, e)) = Names(s) \union {"XSKMAP"} /\ Distinct(Append(s, e))
    <3>1. Names(s) \intersect Names(<<e>>) = {}
      BY <1>4, <2>3, <2>6
    <3>2. Distinct(s \o <<e>>) /\ Names(s \o <<e>>) = Names(s) \union Names(<<e>>)
      BY <1>2, <2>3, <2>5, <2>6, <3>1, ConcatNames
    <3> QED BY <2>4, <2>6, <3>2
  <2>9. ~EndsAtSockmap(XskmapUapi(t).uapi)
    BY <2>1, <2>2, <2>7 DEF EndsAtSockmap
  <2> QED BY <2>1, <2>3, <2>8, <2>9, NamesOfFile
<1> QED BY <1>3, <1>4

LEMMA MapTypesNames ==
  ASSUME NEW t \in Tree, Distinct(t.uapi.enum), TypesOf(t.uapi) \subseteq {"SOCKMAP"}
  PROVE  LET u == MapTypesUapi(t)
         IN /\ Distinct(u.uapi.enum)
            /\ TypesOf(u.uapi) = TypesOf(t.uapi) \union {NewTypes[i] : i \in 1..10}
            /\ ~EndsAtSockmap(u.uapi)
<1> DEFINE s == t.uapi.enum
           new == NewEntries(t)
<1>1. s \in Seq(Enumerator) /\ Len(s) \in Nat
  BY EnumOfTree
<1>2. MapTypesUapi(t).uapi.enum = s \o new
  <2>1. MapTypesUapi(t).uapi = [t.uapi EXCEPT !.enum = s \o new]
    BY MapTypesUapiKeeps
  <2>2. [t.uapi EXCEPT !.enum = s \o new].enum = s \o new
    BY EnumOfTree DEF UapiFile
  <2> HIDE DEF s, new
  <2> QED BY <2>1, <2>2
<1>3. new \in Seq(Enumerator) /\ Len(new) = 10 /\ \A i \in 1..10 : new[i].type = NewTypes[i]
  BY NewEntriesType
<1> HIDE DEF new, s
<1>4. Names(new) = {NewTypes[i] : i \in 1..10} /\ Distinct(new)
  BY <1>3, NewTypesNames DEF Names, Distinct
<1>5. Names(s) \subseteq {"SOCKMAP"}
  BY NamesOfFile DEF s
<1>6. Names(s) \intersect Names(new) = {}
  BY <1>4, <1>5, NewTypesNames
<1>7. Distinct(s)
  BY DEF s
<1>8. Distinct(s \o new) /\ Names(s \o new) = Names(s) \union Names(new)
  BY <1>1, <1>3, <1>4, <1>6, <1>7, ConcatNames
<1>9. Len(s \o new) = Len(s) + 10 /\ (s \o new)[Len(s) + 10] = new[10]
  <2>1. /\ Len(s \o new) = Len(s) + Len(new)
        /\ \A i \in 1..Len(s) + Len(new) : (s \o new)[i] = IF i <= Len(s) THEN s[i] ELSE new[i - Len(s)]
    BY <1>1, <1>3, ConcatProperties
  <2> QED BY <1>1, <1>3, <2>1
<1>10. ~EndsAtSockmap(MapTypesUapi(t).uapi)
  BY <1>2, <1>3, <1>9, NewTypesNames DEF EndsAtSockmap
<1> QED BY <1>2, <1>4, <1>8, <1>10, NamesOfFile DEF s

\* Compiles(t), with the enum by its two features.
LEMMA CompilesBy ==
  ASSUME NEW t
  PROVE  Compiles(t) <=>
           /\ \A a \in Allocators :
                /\ t.mask[a] = "wide" => t.uapi.flags = ProgFlags
                /\ t.mask[a] = "forced" => "RDONLY_PROG" \in t.uapi.flags
           /\ {t.syscall.map_last, t.syscall.prog_last} \intersect AttrFields
                \subseteq t.uapi.attr
           /\ t.syscall.attach \subseteq t.uapi.attach
           /\ (t.types \union t.verifier) \intersect MapTypes \subseteq TypesOf(t.uapi)
           /\ "xsk" \in t.types \union t.verifier => "XSKMAP" \in TypesOf(t.uapi)
           /\ Distinct(t.uapi.enum)
BY DEF Compiles, Distinct

LEMMA SameSourcesBuildable ==
  ASSUME NEW t, NEW u, SameSources(t, u), Buildable(t) PROVE Buildable(u)
BY DEF SameSources, Buildable, Compiles, Orderly

LEMMA XskmapBuildable ==
  ASSUME NEW t \in Tree
  PROVE  LET o == AliasXskmap(t)
         IN /\ o.tree.uapi.flags = t.uapi.flags
            /\ o.ok /\ Buildable(t) => Buildable(o.tree)
<1> DEFINE u == XskmapUapi(t)
           y == [u EXCEPT !.types = Mentioning(t.types)]
           v == [y EXCEPT !.verifier = Mentioning(t.verifier)]
<1>1. /\ u \in Tree /\ u.uapi.flags = t.uapi.flags /\ u.uapi.attr = t.uapi.attr
      /\ u.uapi.texts = t.uapi.texts /\ u.uapi.attach = t.uapi.attach
      /\ u.types = t.types /\ u.verifier = t.verifier /\ u.syscall = t.syscall /\ u.mask = t.mask
  BY XskmapUapiKeeps
<1>2. Buildable(t) => /\ Distinct(u.uapi.enum)
                      /\ TypesOf(u.uapi) = TypesOf(t.uapi) \union {"XSKMAP"}
                      /\ EndsAtSockmap(u.uapi) => u.uapi = t.uapi
  BY XskmapNames, CompilesBy DEF Buildable
<1> HIDE DEF u
<1>3. /\ y.uapi = u.uapi /\ y.types = Mentioning(t.types)
      /\ y.verifier = u.verifier /\ y.syscall = u.syscall /\ y.mask = u.mask
      /\ y \in Tree
  BY <1>1 DEF Tree, Mentioning
<1> HIDE DEF y
<1>4. /\ v.uapi = u.uapi /\ v.types \subseteq t.types \union {"XSKMAP"}
      /\ v.verifier \subseteq t.verifier \union {"XSKMAP"}
      /\ v.syscall = u.syscall /\ v.mask = u.mask
  BY <1>3 DEF Tree, Mentioning
<1> HIDE DEF v
<1>5. AliasXskmap(t) \in {Fatal(u), Fatal(y), Fatal(v), Done(v)}
  BY DEF AliasXskmap, u, y, v
<1>6. Buildable(t) => Buildable(v)
  <2> SUFFICES ASSUME Buildable(t) PROVE Buildable(v)
    OBVIOUS
  <2>1. Compiles(v)
    BY <1>1, <1>2, <1>4, CompilesBy DEF Buildable
  <2>2. Orderly(v)
    BY <1>1, <1>2, <1>4 DEF Buildable, Orderly
  <2> QED BY <2>1, <2>2 DEF Buildable
<1>7. ASSUME NEW x
      PROVE  Fatal(x).tree = x /\ ~Fatal(x).ok /\ Done(x).tree = x /\ Done(x).ok
  BY DEF Fatal, Done
<1> QED BY <1>1, <1>3, <1>4, <1>5, <1>6, <1>7

LEMMA MapTypesBuildable ==
  ASSUME NEW t \in Tree
  PROVE  LET o == BackportMapTypes(t)
         IN /\ o.tree.uapi.flags = t.uapi.flags
            /\ o.ok /\ Buildable(t) => Buildable(o.tree)
<1> DEFINE declared == "DEVMAP_HASH" \in TypesOf(t.uapi)
           u == IF declared THEN t ELSE MapTypesUapi(t)
           y == [u EXCEPT !.types = @ \union {"DEVMAP_HASH"}]
<1>1. /\ u \in Tree /\ u.uapi.flags = t.uapi.flags /\ u.uapi.attr = t.uapi.attr
      /\ u.uapi.texts = t.uapi.texts /\ u.uapi.attach = t.uapi.attach
      /\ u.types = t.types /\ u.verifier = t.verifier /\ u.syscall = t.syscall /\ u.mask = t.mask
  <2>1. CASE declared
    BY <2>1
  <2>2. CASE ~declared
    <3> DEFINE w == [t.uapi EXCEPT !.enum = t.uapi.enum \o NewEntries(t)]
    <3>0. u = MapTypesUapi(t) /\ MapTypesUapi(t).uapi = w
      BY <2>2, MapTypesUapiKeeps
    <3>1. /\ u \in Tree /\ u.uapi = w
          /\ u.types = t.types /\ u.verifier = t.verifier /\ u.syscall = t.syscall /\ u.mask = t.mask
      <4> HIDE DEF w, u
      <4> QED BY <3>0, MapTypesUapiKeeps
    <3>2. /\ w.flags = t.uapi.flags /\ w.attr = t.uapi.attr /\ w.texts = t.uapi.texts
          /\ w.attach = t.uapi.attach
      BY EnumOfTree DEF UapiFile
    <3> HIDE DEF w, u
    <3> QED BY <3>1, <3>2
  <2> QED BY <2>1, <2>2
<1>2. Buildable(t) /\ (declared \/ EndsAtSockmap(t.uapi)) =>
        /\ Distinct(u.uapi.enum)
        /\ TypesOf(t.uapi) \union {"DEVMAP_HASH"} \subseteq TypesOf(u.uapi)
        /\ EndsAtSockmap(u.uapi) => u.uapi = t.uapi
  <2>1. CASE declared
    BY <2>1, CompilesBy DEF Buildable
  <2>2. CASE ~declared
    <3> SUFFICES ASSUME Buildable(t), EndsAtSockmap(t.uapi)
                 PROVE  /\ Distinct(u.uapi.enum)
                        /\ TypesOf(t.uapi) \union {"DEVMAP_HASH"} \subseteq TypesOf(u.uapi)
                        /\ ~EndsAtSockmap(u.uapi)
      BY <2>2
    <3>1. Distinct(t.uapi.enum) /\ TypesOf(t.uapi) \subseteq {"SOCKMAP"}
      BY CompilesBy DEF Buildable, Orderly
    <3>2. u = MapTypesUapi(t)
      BY <2>2
    <3> HIDE DEF u
    <3>3. /\ Distinct(u.uapi.enum) /\ ~EndsAtSockmap(u.uapi)
          /\ TypesOf(u.uapi) = TypesOf(t.uapi) \union {NewTypes[i] : i \in 1..10}
      BY <3>1, <3>2, MapTypesNames
    <3>4. "DEVMAP_HASH" \in {NewTypes[i] : i \in 1..10}
      BY NewTypesNames
    <3> QED BY <3>3, <3>4
  <2> QED BY <2>1, <2>2
<1> HIDE DEF u, y, declared
<1>3. \/ BackportMapTypes(t) \in {Fatal(t), Fatal(u)}
      \/ BackportMapTypes(t) = Done(y) /\ (declared \/ EndsAtSockmap(t.uapi))
  BY DEF BackportMapTypes, u, y, declared
<1>4. /\ y \in Tree /\ y.uapi = u.uapi /\ y.types = u.types \union {"DEVMAP_HASH"}
      /\ y.verifier = u.verifier /\ y.syscall = u.syscall /\ y.mask = u.mask
  BY <1>1 DEF Tree, y
<1>5. Buildable(t) /\ (declared \/ EndsAtSockmap(t.uapi)) => Buildable(y)
  <2> SUFFICES ASSUME Buildable(t), declared \/ EndsAtSockmap(t.uapi) PROVE Buildable(y)
    OBVIOUS
  <2>1. Compiles(y)
    BY <1>1, <1>2, <1>4, CompilesBy DEF Buildable
  <2>2. Orderly(y)
    BY <1>1, <1>2, <1>4 DEF Buildable, Orderly
  <2> QED BY <2>1, <2>2 DEF Buildable
<1>6. ASSUME NEW x
      PROVE  Fatal(x).tree = x /\ ~Fatal(x).ok /\ Done(x).tree = x /\ Done(x).ok
  BY DEF Fatal, Done
<1> QED BY <1>1, <1>3, <1>4, <1>5, <1>6

LEMMA BpfAttrBuildable ==
  ASSUME NEW t \in Tree
  PROVE  LET o == BackportBpfAttr(t)
         IN /\ o.tree.uapi.flags = t.uapi.flags
            /\ o.ok /\ Buildable(t) => Buildable(o.tree)
<1> DEFINE map  == IF "btf_value_type_id" \in t.uapi.attr THEN {} ELSE {"btf_value_type_id"}
           prog == IF "expected_attach_type" \in t.uapi.attr THEN {}
                   ELSE {"expected_attach_type", "line_info_cnt"}
           u == AttrUapi(t)
           v == AttrSyscall(u)
<1>1. /\ u.uapi.flags = t.uapi.flags /\ u.uapi.enum = t.uapi.enum
      /\ u.uapi.texts = t.uapi.texts /\ u.uapi.attr = t.uapi.attr \union map \union prog
      /\ u.uapi.attach = t.uapi.attach
      /\ u.types = t.types /\ u.verifier = t.verifier /\ u.syscall = t.syscall /\ u.mask = t.mask
      /\ u \in Tree
  <2>1. NewAttr(t) = t.uapi.attr \union map \union prog
    BY DEF NewAttr
  <2>2. u.uapi = [t.uapi EXCEPT !.attr = NewAttr(t)]
    BY AttrUapiKeeps
  <2> HIDE DEF u, map, prog
  <2>3. /\ u.uapi.flags = t.uapi.flags /\ u.uapi.enum = t.uapi.enum
        /\ u.uapi.texts = t.uapi.texts /\ u.uapi.attr = NewAttr(t)
        /\ u.uapi.attach = t.uapi.attach
    BY <2>2, EnumOfTree DEF UapiFile
  <2> QED BY <2>1, <2>3, AttrUapiKeeps DEF u
<1>2. v.uapi = u.uapi /\ v.types = u.types /\ v.verifier = u.verifier /\ v.mask = u.mask
  BY <1>1 DEF AttrSyscall, Tree
<1>3. /\ v.syscall.map_last = (IF t.syscall.map_last = "map_name" THEN "btf_value_type_id"
                               ELSE t.syscall.map_last)
      /\ v.syscall.prog_last = (IF t.syscall.prog_last = "prog_name" THEN "line_info_cnt"
                                ELSE t.syscall.prog_last)
      /\ v.syscall.attach = t.syscall.attach
  BY <1>1 DEF AttrSyscall, Tree, SyscallFile
<1>4. BackportBpfAttr(t) \in {Fatal(t), Done(v)}
  BY DEF BackportBpfAttr
<1> HIDE DEF u, v
<1>5. Buildable(t) => Buildable(v)
  <2> SUFFICES ASSUME Buildable(t) PROVE Buildable(v)
    OBVIOUS
  <2>1. TypesOf(v.uapi) = TypesOf(t.uapi) /\ v.uapi.enum = t.uapi.enum
    BY <1>1, <1>2, NamesOfFile
  <2>2. {v.syscall.map_last, v.syscall.prog_last} \intersect AttrFields \subseteq v.uapi.attr
    <3>1. v.syscall.map_last \in AttrFields => v.syscall.map_last \in v.uapi.attr
      <4>1. CASE t.syscall.map_last = "map_name"
        BY <1>1, <1>2, <1>3, <4>1
      <4>2. CASE t.syscall.map_last # "map_name"
        BY <1>1, <1>2, <1>3, <4>2, CompilesBy DEF Buildable
      <4> QED BY <4>1, <4>2
    <3>2. v.syscall.prog_last \in AttrFields => v.syscall.prog_last \in v.uapi.attr
      <4>1. CASE t.syscall.prog_last = "prog_name"
        BY <1>1, <1>2, <1>3, <4>1 DEF Buildable, Orderly
      <4>2. CASE t.syscall.prog_last # "prog_name"
        BY <1>1, <1>2, <1>3, <4>2, CompilesBy DEF Buildable
      <4> QED BY <4>1, <4>2
    <3> QED BY <3>1, <3>2
  <2>3. Compiles(v)
    <3>1. v.syscall.attach \subseteq v.uapi.attach
      BY <1>1, <1>2, <1>3, CompilesBy DEF Buildable
    <3>2. \A a \in Allocators :
            /\ v.mask[a] = "wide" => v.uapi.flags = ProgFlags
            /\ v.mask[a] = "forced" => "RDONLY_PROG" \in v.uapi.flags
      BY <1>1, <1>2, CompilesBy DEF Buildable
    <3>3. /\ (v.types \union v.verifier) \intersect MapTypes \subseteq TypesOf(v.uapi)
          /\ "xsk" \in v.types \union v.verifier => "XSKMAP" \in TypesOf(v.uapi)
          /\ Distinct(v.uapi.enum)
      BY <1>1, <1>2, <2>1, CompilesBy DEF Buildable
    <3> QED BY <2>2, <3>1, <3>2, <3>3, CompilesBy
  <2>4. v.syscall.prog_last # "prog_name"
    BY <1>3
  <2>5. EndsAtSockmap(v.uapi) <=> EndsAtSockmap(t.uapi)
    BY <2>1 DEF EndsAtSockmap
  <2>6. Orderly(v)
    BY <1>1, <1>2, <2>1, <2>4, <2>5 DEF Buildable, Orderly
  <2> QED BY <2>3, <2>6 DEF Buildable
<1>6. ASSUME NEW x
      PROVE  Fatal(x).tree = x /\ ~Fatal(x).ok /\ Done(x).tree = x /\ Done(x).ok
  BY DEF Fatal, Done
<1> QED BY <1>1, <1>2, <1>4, <1>5, <1>6

\* The flags and the masks go together, or the header has no flag at all: that
\* tree does not compile, and verify_patches.py stops it.
LEMMA RdonlyBuildable ==
  ASSUME NEW t \in Tree, Buildable(t)
  PROVE  LET o == AcceptRdonlyProg(t)
         IN Buildable(o.tree) \/ "RDONLY_PROG" \notin o.tree.uapi.flags
<1> DEFINE u == AcceptRdonlyProg(t).tree
<1>1. /\ u.uapi.flags = add_flag_defs(t) /\ u.uapi.enum = t.uapi.enum
      /\ u.uapi.texts = t.uapi.texts /\ u.uapi.attr = t.uapi.attr
      /\ u.uapi.attach = t.uapi.attach
      /\ u.types = t.types /\ u.verifier = t.verifier /\ u.syscall = t.syscall
  BY EnumOfTree DEF AcceptRdonlyProg, Done, Tree, UapiFile
<1> HIDE DEF u
<1>2. TypesOf(u.uapi) = TypesOf(t.uapi) /\ EndsAtSockmap(u.uapi) = EndsAtSockmap(t.uapi)
  BY <1>1, NamesOfFile DEF EndsAtSockmap
<1>3. add_flag_defs(t) \in {{}, ProgFlags}
  BY DEF add_flag_defs, Buildable, Orderly
<1>4. CASE add_flag_defs(t) = {}
  BY <1>1, <1>4 DEF u
<1>5. CASE add_flag_defs(t) = ProgFlags
  <2>1. u.uapi.flags = ProgFlags /\ "RDONLY_PROG" \in u.uapi.flags
    BY <1>1, <1>5 DEF ProgFlags
  <2>2. Compiles(u)
    BY <1>1, <1>2, <2>1, CompilesBy DEF Buildable
  <2>3. Orderly(u)
    BY <1>1, <1>2, <2>1 DEF Buildable, Orderly
  <2> QED BY <2>2, <2>3 DEF Buildable, u
<1> QED BY <1>3, <1>4, <1>5

LEMMA OtherBuildable ==
  ASSUME NEW t \in Tree, NEW r
  PROVE  /\ SameSources(t, TracePrintkDummy(t).tree)
         /\ SameSources(t, BackportTrie(t).tree)
         /\ SameSources(t, FakeUname(t, r).tree)
<1>1. SameSources(t, TracePrintkDummy(t).tree)
  BY DEF TracePrintkDummy, SameSources, Done, Fatal, Tree
<1>2. SameSources(t, BackportTrie(t).tree)
  BY DEF BackportTrie, SameSources, Done, Fatal, Tree
<1>3. SameSources(t, FakeUname(t, r).tree)
  BY DEF FakeUname, SameSources, Done, Fatal, Tree
<1> QED BY <1>1, <1>2, <1>3

LEMMA OnlyAttachBuildable ==
  ASSUME NEW t, NEW u, OnlyAttach(t, u), u.syscall.attach \subseteq u.uapi.attach, Buildable(t)
  PROVE  Buildable(u)
<1>1. TypesOf(u.uapi) = TypesOf(t.uapi) /\ EndsAtSockmap(u.uapi) = EndsAtSockmap(t.uapi)
  BY NamesOfFile DEF OnlyAttach, EndsAtSockmap
<1>2. Compiles(u)
  BY <1>1, CompilesBy DEF OnlyAttach, Buildable
<1>3. Orderly(u)
  BY <1>1 DEF OnlyAttach, Buildable, Orderly
<1> QED BY <1>2, <1>3 DEF Buildable

\* The cgroup scripts, add_cgroup_sockopt.py where the types are declared.
LEMMA CgroupBuildable ==
  ASSUME NEW t \in Tree, Buildable(t), NEW o, o.ok,
         \/ o \in AddAttachTypes(t) \union AddDevice(t)
         \/ o \in AddSockopt(t) /\ "sockopt" \in t.uapi.attach
  PROVE  Buildable(o.tree)
<1>1. t.syscall.attach \subseteq t.uapi.attach
  BY CompilesBy DEF Buildable
<1>2. OnlyAttach(t, o.tree)
  BY CgroupAttach DEF CgroupOutcomes
<1>3. o.tree.syscall.attach \subseteq o.tree.uapi.attach
  BY <1>1, CgroupAttach
<1> QED BY <1>2, <1>3, OnlyAttachBuildable

\* Any script but the one that adds the flags and the graft.
LEMMA OutcomeBuildable ==
  ASSUME TypeOK, NEW name \in StepNames \ {"transplant", "rdonly_prog_flag"},
         NEW o \in Outcomes(name),
         name = "cgroup_sockopt" => "sockopt" \in tree.uapi.attach
  PROVE  /\ o.tree.uapi.flags = tree.uapi.flags
         /\ o.ok /\ Buildable(tree) => Buildable(o.tree)
<1>0. tree \in Tree
  BY DEF TypeOK
<1>1. CASE name = "xskmap_alias"
  BY <1>0, <1>1, XskmapBuildable DEF Outcomes
<1>2. CASE name = "bpf_devmap_hash"
  BY <1>0, <1>2, MapTypesBuildable DEF Outcomes
<1>3. CASE name = "bpf_attr_abi"
  BY <1>0, <1>3, BpfAttrBuildable DEF Outcomes
<1>4. ASSUME SameSources(tree, o.tree)
      PROVE  /\ o.tree.uapi.flags = tree.uapi.flags
             /\ Buildable(tree) => Buildable(o.tree)
  BY <1>4, SameSourcesBuildable DEF SameSources
<1>5. CASE name \in {"trace_printk_dummy", "trie_next_key", "fake_uname"}
  BY <1>0, <1>4, <1>5, OtherBuildable DEF Outcomes
<1>6. CASE name = "ramoops"
  BY <1>0, <1>4, <1>6, RamoopsLeaves DEF Outcomes
<1>7. CASE name \in CgroupPatches
  <2>1. o \in CgroupOutcomes(tree)
    BY <1>7 DEF Outcomes, CgroupOutcomes, CgroupPatches
  <2>2. o.tree.uapi.flags = tree.uapi.flags
    BY <1>0, <2>1, CgroupAttach DEF OnlyAttach
  <2>3. \/ o \in AddAttachTypes(tree) \union AddDevice(tree)
        \/ o \in AddSockopt(tree) /\ "sockopt" \in tree.uapi.attach
    BY <1>7 DEF Outcomes, CgroupPatches
  <2> QED BY <1>0, <2>2, <2>3, CgroupBuildable
<1> QED BY <1>1, <1>2, <1>3, <1>5, <1>6, <1>7 DEF StepNames, Patches

\* Without a graft the tree stays one that compiles, but for a header without a
\* flag, which verify_patches.py does not let through.  The sockopt types are
\* declared before add_cgroup_sockopt.py uses them.
Barred == "rdonly_prog_flag" \in request.patches /\ "RDONLY_PROG" \notin tree.uapi.flags

CompileInv ==
  request.graft = "none" /\ SockoptHasTypes =>
    /\ stage = "patch" /\ step = 4 /\ "cgroup_attach_types" \in request.cgroup =>
         "sockopt" \in tree.uapi.attach
    /\ stage = "preflight" => Buildable(tree)
    /\ stage = "patch" /\ step <= 2 => Buildable(tree)
    /\ stage \in {"patch", "verify"} => Buildable(tree) \/ Barred
    /\ stage = "smoke" => Compiles(tree)
    /\ stage # "smoke_failed"

LEMMA FirstSteps ==
  /\ Steps[1] = "transplant" /\ Steps[2] = "rdonly_prog_flag"
  /\ \A i \in 2..12 : Steps[i] \in StepNames \ {"transplant"}
  /\ Steps[3] = "cgroup_attach_types" /\ Steps[4] = "cgroup_sockopt"
  /\ \A i \in 3..12 : Steps[i] \in StepNames \ {"transplant", "rdonly_prog_flag"}
  /\ \A i \in 5..12 : Steps[i] # "cgroup_sockopt"
BY DEF Steps, StepNames, Patches, CgroupPatches

\* A script that succeeds on a tree without a graft.
LEMMA CompileRun ==
  ASSUME TypeOK, Phase, CompileInv, RunStep, request.graft = "none", SockoptHasTypes,
         stage' \in {"patch", "verify"}
  PROVE  /\ Buildable(tree') \/ Barred'
         /\ step' <= 2 => Buildable(tree')
         /\ step' = 4 /\ "cgroup_attach_types" \in request.cgroup =>
              "sockopt" \in tree'.uapi.attach
<1>1. /\ step \in 1..12 /\ step' = step + 1 /\ stage = "patch" /\ request' = request
  BY RunStepCases
<1>2. step <= 2 => Buildable(tree)
  BY <1>1 DEF CompileInv
<1>3. Buildable(tree) \/ Barred
  BY <1>1 DEF CompileInv
<1>4. CASE step = 1
  <2>1. ~Asked(Steps[step])
    BY <1>4, FirstSteps DEF Asked
  <2>2. tree' = tree
    BY <2>1 DEF RunStep
  <2>3. step' = 2 /\ Buildable(tree')
    BY <1>1, <1>2, <1>4, <2>2
  <2> QED BY <2>3
<1>5. CASE step = 2
  <2>0. Asked(Steps[step]) <=> "rdonly_prog_flag" \in request.patches
    BY <1>5, FirstSteps DEF Asked, TypeOK, Request, CgroupPatches
  <2>1. CASE ~Asked(Steps[step])
    BY <1>1, <1>2, <1>5, <2>1 DEF RunStep
  <2>2. CASE Asked(Steps[step])
    <3>1. tree' = AcceptRdonlyProg(tree).tree
      BY <1>5, <2>2, FirstSteps DEF RunStep, Outcomes
    <3>2. Buildable(tree') \/ "RDONLY_PROG" \notin tree'.uapi.flags
      BY <1>2, <1>5, <3>1, RdonlyBuildable DEF TypeOK
    <3>3. "rdonly_prog_flag" \in request'.patches
      BY <1>1, <2>0, <2>2
    <3> QED BY <1>1, <1>5, <3>2, <3>3 DEF Barred
  <2> QED BY <2>1, <2>2
<1>6. CASE step \in 3..12
  <2>1. /\ tree'.uapi.flags = tree.uapi.flags
        /\ Buildable(tree) => Buildable(tree')
    <3>1. CASE ~Asked(Steps[step])
      BY <3>1 DEF RunStep
    <3>2. CASE Asked(Steps[step])
      <4>1. PICK o \in Outcomes(Steps[step]) : tree' = o.tree /\ (~o.ok => stage' = "fatal")
        BY <3>2 DEF RunStep
      <4>2. o.ok
        BY <4>1
      <4>3. Steps[step] \in StepNames \ {"transplant", "rdonly_prog_flag"}
        BY <1>6, FirstSteps
      <4>4. Steps[step] = "cgroup_sockopt" => "sockopt" \in tree.uapi.attach
        <5>1. Steps[step] = "cgroup_sockopt" => step = 4
          BY <1>6, FirstSteps
        <5>2. Steps[step] = "cgroup_sockopt" => "cgroup_sockopt" \in request.cgroup
          BY <3>2 DEF Asked, TypeOK, Request, Patches
        <5> QED BY <1>1, <5>1, <5>2 DEF CompileInv, SockoptHasTypes
      <4> QED BY <4>1, <4>2, <4>3, <4>4, OutcomeBuildable
    <3> QED BY <3>1, <3>2
  <2>2. step' = 4 /\ "cgroup_attach_types" \in request.cgroup => "sockopt" \in tree'.uapi.attach
    <3> SUFFICES ASSUME step = 3, "cgroup_attach_types" \in request.cgroup
                 PROVE  "sockopt" \in tree'.uapi.attach
      BY <1>1
    <3>1. Steps[step] = "cgroup_attach_types" /\ Asked(Steps[step])
      BY FirstSteps DEF Asked, Patches
    <3>2. PICK o \in AddAttachTypes(tree) : tree' = o.tree /\ (~o.ok => stage' = "fatal")
      BY <3>1 DEF RunStep, Outcomes
    <3>3. o.ok
      BY <3>2
    <3> QED BY <3>2, <3>3, CgroupAttach DEF TypeOK
  <2> QED BY <1>1, <1>3, <1>6, <2>1, <2>2 DEF Barred
<1> QED BY <1>1, <1>4, <1>5, <1>6

LEMMA CompileInit == ASSUME BuildableTrees PROVE Init => CompileInv
BY DEF Init, CompileInv, BuildableTrees

LEMMA CompileStep == IInv /\ CompileInv /\ [Next]_vars => CompileInv'
<1> SUFFICES ASSUME IInv, CompileInv, [Next]_vars, request'.graft = "none", SockoptHasTypes'
             PROVE  CompileInv'
  BY DEF CompileInv
<1>0. TypeOK /\ Phase /\ request' = request /\ request.graft = "none" /\ SockoptHasTypes
  BY DEF IInv, Next, Preflight, RunStep, Verify, Smoke, vars, SockoptHasTypes
<1>1. CASE Preflight
  <2>1. /\ stage = "preflight" /\ stage' \in {"patch", "refused"} /\ tree' = tree
        /\ step' = step
    BY <1>1 DEF Preflight
  <2> QED BY <1>0, <2>1 DEF CompileInv, Phase
<1>2. CASE RunStep
  <2>1. stage' \in {"patch", "verify", "fatal"}
    BY <1>0, <1>2, RunStepCases
  <2>2. CASE stage' \in {"patch", "verify"}
    BY <1>0, <1>2, <2>2, CompileRun DEF CompileInv
  <2>3. CASE stage' = "fatal"
    BY <2>3 DEF CompileInv
  <2> QED BY <2>1, <2>2, <2>3
<1>3. CASE Verify
  <2>1. /\ stage = "verify" /\ stage' = (IF Verifies(tree, request) THEN "smoke" ELSE "rejected")
        /\ tree' = tree
    BY <1>3 DEF Verify
  <2>2. Verifies(tree, request) => ~Barred
    BY DEF Verifies, Barred
  <2>3. Buildable(tree) \/ Barred
    BY <1>0, <2>1 DEF CompileInv
  <2>4. stage' = "smoke" => Compiles(tree')
    BY <2>1, <2>2, <2>3 DEF Buildable
  <2> QED BY <2>1, <2>4 DEF CompileInv
<1>4. CASE Smoke
  <2>1. Compiles(tree)
    BY <1>0, <1>4 DEF Smoke, CompileInv
  <2>2. stage' = "building"
    BY <1>0, <1>4, <2>1 DEF Smoke
  <2> QED BY <2>2 DEF CompileInv
<1>5. CASE UNCHANGED vars
  <2>1. tree' = tree /\ stage' = stage /\ step' = step
    BY <1>5 DEF vars
  <2> QED BY <1>0, <2>1 DEF CompileInv, Barred
<1> QED BY <1>1, <1>2, <1>3, <1>4, <1>5 DEF Next

\* On trees that compile in the layouts the scripts know, no combination of
\* patches makes a tree that compiles into one that does not, if the sockopt
\* programs are only asked for together with the attach types.
THEOREM PatchesCompile == BuildableTrees => (Spec => []PatchedTreeCompiles)
<1> SUFFICES ASSUME BuildableTrees PROVE Spec => []PatchedTreeCompiles
  OBVIOUS
<1>1. Init => CompileInv
  BY CompileInit
<1>2. CompileInv => PatchedTreeCompiles
  BY DEF CompileInv, PatchedTreeCompiles
<1> QED BY <1>1, <1>2, IInvHolds, CompileStep, PTL DEF Spec
-----------------------------------------------------------------------------
(* What was asked for lands, and stays: after the graft, scripts only add.  *)

\* What a successful script leaves of the work of those before it.
Grows(t, u) ==
  /\ EnumOf(t.uapi) \subseteq EnumOf(u.uapi)
  /\ t.types \subseteq u.types /\ t.verifier \subseteq u.verifier
  /\ t.uapi.attr \subseteq u.uapi.attr
  /\ t.syscall.map_last # "map_name" => u.syscall.map_last # "map_name"
  /\ t.syscall.prog_last # "prog_name" => u.syscall.prog_last # "prog_name"
  /\ t.core \in {"dummy", "real"} => u.core = t.core
  /\ t.lpm_trie = "walk" => u.lpm_trie = "walk"

\* AcceptRdonlyProg may skip a header or widen no mask, which verify_patches.py
\* looks for.
Lasting == Patches \ {"rdonly_prog_flag"}

LEMMA LandedStays ==
  ASSUME NEW t, NEW u, Grows(t, u), NEW p \in Lasting, Landed(p, t)
  PROVE  Landed(p, u)
<1>1. CASE p = "bpf_devmap_hash"
  BY <1>1 DEF Landed, Grows, ValueIs
<1>2. CASE p = "xskmap_alias"
  BY <1>2 DEF Landed, Grows, ValueIs
<1>3. CASE p = "trace_printk_dummy"
  BY <1>3 DEF Landed, Grows
<1>4. CASE p = "trie_next_key"
  BY <1>4 DEF Landed, Grows
<1>5. CASE p = "bpf_attr_abi"
  BY <1>5 DEF Landed, Grows
<1> QED BY <1>1, <1>2, <1>3, <1>4, <1>5 DEF Lasting, Patches

LEMMA NumberOf ==
  ASSUME NEW file, NEW type \in TypesOf(file), NEW value,
         \A e \in EnumOf(file) : e.type = type => e.value = value
  PROVE  ValueIs(file, type, value)
BY DEF TypesOf, ValueIs

\* Some source unchanged, or none.
LEMMA SameGrows ==
  ASSUME NEW t, NEW u, SameSources(t, u), NEW c, NEW l,
         u.core = c, u.lpm_trie = l,
         t.core \in {"dummy", "real"} => c = t.core, t.lpm_trie = "walk" => l = "walk"
  PROVE  Grows(t, u) /\ (Numbered(t) => Numbered(u))
BY DEF SameSources, Grows, Numbered

Elements(s) == {s[i] : i \in 1..Len(s)}

LEMMA ConcatElements ==
  ASSUME NEW s \in Seq(Enumerator), NEW r \in Seq(Enumerator)
  PROVE  Elements(s \o r) = Elements(s) \union Elements(r)
<1> DEFINE q == s \o r
<1>1. /\ Len(s) \in Nat /\ Len(r) \in Nat /\ Len(q) = Len(s) + Len(r)
      /\ \A i \in 1..Len(q) : q[i] = IF i <= Len(s) THEN s[i] ELSE r[i - Len(s)]
  BY ConcatProperties
<1> HIDE DEF q
<1>2. \A i \in 1..Len(s) : i \in 1..Len(q) /\ q[i] = s[i]
  BY <1>1
<1>3. \A i \in 1..Len(r) : i + Len(s) \in 1..Len(q) /\ q[i + Len(s)] = r[i]
  BY <1>1
<1>4. \A i \in 1..Len(q) : \/ i \in 1..Len(s)
                           \/ i - Len(s) \in 1..Len(r) /\ q[i] = r[i - Len(s)]
  BY <1>1
<1>5. Elements(q) \subseteq Elements(s) \union Elements(r)
  BY <1>2, <1>4 DEF Elements
<1>6. Elements(s) \subseteq Elements(q)
  BY <1>2 DEF Elements
<1>7. Elements(r) \subseteq Elements(q)
  BY <1>3 DEF Elements
<1> QED BY <1>5, <1>6, <1>7 DEF q

LEMMA XskmapLands ==
  ASSUME NEW t \in Tree, AliasXskmap(t).ok
  PROVE  LET o == AliasXskmap(t)
         IN /\ Grows(t, o.tree)
            /\ Numbered(t) => Numbered(o.tree) /\ Landed("xskmap_alias", o.tree)
<1> DEFINE e == [type |-> "XSKMAP", value |-> 17, explicit |-> TRUE]
           u == XskmapUapi(t)
           y == [u EXCEPT !.types = Mentioning(t.types)]
           v == [y EXCEPT !.verifier = Mentioning(t.verifier)]
<1>1. /\ u \in Tree /\ u.uapi.attr = t.uapi.attr /\ SameCode(t, u)
      /\ u.types = t.types /\ u.verifier = t.verifier /\ u.syscall = t.syscall
  BY XskmapUapiKeeps
<1>2. /\ EnumOf(t.uapi) \subseteq EnumOf(u.uapi) /\ "XSKMAP" \in TypesOf(u.uapi)
      /\ \A f \in EnumOf(u.uapi) : f \in EnumOf(t.uapi) \/ f = e
  <2>1. CASE "XSKMAP" \in TypesOf(t.uapi)
    BY <2>1 DEF XskmapUapi
  <2>2. CASE "XSKMAP" \notin TypesOf(t.uapi)
    <3>1. u.uapi.enum = Append(t.uapi.enum, e)
      BY <2>2, EnumOfTree DEF XskmapUapi, Tree, UapiFile
    <3>2. e \in Enumerator /\ e.type = "XSKMAP"
      BY NewTypesNames DEF Enumerator, MapTypes, NewTypes
    <3>3. t.uapi.enum \in Seq(Enumerator)
      BY EnumOfTree
    <3> HIDE DEF e, u
    <3>4. <<e>> \in Seq(Enumerator) /\ Len(<<e>>) = 1 /\ <<e>>[1] = e
      BY <3>2
    <3>5. Append(t.uapi.enum, e) = t.uapi.enum \o <<e>> /\ Elements(<<e>>) = {e}
      BY <3>2, <3>3, <3>4, AppendIsConcat DEF Elements
    <3>6. EnumOf(u.uapi) = EnumOf(t.uapi) \union {e}
      <4>1. EnumOf(u.uapi) = Elements(u.uapi.enum) /\ EnumOf(t.uapi) = Elements(t.uapi.enum)
        BY DEF EnumOf, Elements
      <4>2. Elements(t.uapi.enum \o <<e>>) = Elements(t.uapi.enum) \union Elements(<<e>>)
        BY <3>3, <3>4, ConcatElements
      <4> QED BY <3>1, <3>5, <4>1, <4>2
    <3> QED BY <3>2, <3>6 DEF TypesOf
  <2> QED BY <2>1, <2>2
<1>3. e.type = "XSKMAP" /\ e.value = 17
  OBVIOUS
<1> HIDE DEF e, u
<1>4. Numbered(t) => Numbered(u)
  BY <1>2, <1>3 DEF Numbered
<1>5. /\ v.uapi = u.uapi /\ t.types \subseteq v.types
      /\ t.verifier \subseteq v.verifier /\ v.syscall = u.syscall /\ SameCode(u, v)
  BY <1>1 DEF Tree, SameCode, Mentioning
<1>6. AliasXskmap(t).tree = v /\ OwnSpelling(v)
  <2>1. \/ AliasXskmap(t) \in {Fatal(u), Fatal(y), Fatal(v)}
        \/ AliasXskmap(t) = Done(v) /\ OwnSpelling(v)
    BY DEF AliasXskmap, u
  <2> HIDE DEF y, v
  <2> QED BY <2>1 DEF Fatal, Done
<1> HIDE DEF v
<1>7. Grows(t, v)
  BY <1>1, <1>2, <1>5 DEF Grows, SameCode
<1>8. Numbered(t) => Numbered(v)
  BY <1>4, <1>5 DEF Numbered
<1>9. Numbered(t) => Landed("xskmap_alias", v)
  <2> SUFFICES ASSUME Numbered(t) PROVE Landed("xskmap_alias", v)
    OBVIOUS
  <2>1. ValueIs(v.uapi, "XSKMAP", 17)
    BY <1>2, <1>5, <1>8, NumberOf DEF Numbered
  <2> QED BY <1>6, <2>1 DEF Landed, OwnSpelling
<1> QED BY <1>6, <1>7, <1>8, <1>9

LEMMA MapTypesLand ==
  ASSUME NEW t \in Tree, BackportMapTypes(t).ok
  PROVE  LET o == BackportMapTypes(t)
         IN /\ Grows(t, o.tree)
            /\ Numbered(t) => Numbered(o.tree) /\ Landed("bpf_devmap_hash", o.tree)
<1> DEFINE declared == "DEVMAP_HASH" \in TypesOf(t.uapi)
           u == IF declared THEN t ELSE MapTypesUapi(t)
           y == [u EXCEPT !.types = @ \union {"DEVMAP_HASH"}]
<1>1. /\ u \in Tree /\ u.uapi.attr = t.uapi.attr /\ SameCode(t, u)
      /\ u.types = t.types /\ u.verifier = t.verifier /\ u.syscall = t.syscall
  <2>1. CASE declared
    BY <2>1 DEF SameCode
  <2>2. CASE ~declared
    <3>1. u = MapTypesUapi(t)
      BY <2>2
    <3>2. [t.uapi EXCEPT !.enum = t.uapi.enum \o NewEntries(t)].attr = t.uapi.attr
      BY EnumOfTree DEF UapiFile
    <3> HIDE DEF u
    <3> QED BY <3>1, <3>2, MapTypesUapiKeeps
  <2> QED BY <2>1, <2>2
<1>2. declared \/ EndsAtSockmap(t.uapi)
  BY DEF BackportMapTypes, Fatal
<1>3. /\ EnumOf(t.uapi) \subseteq EnumOf(u.uapi) /\ "DEVMAP_HASH" \in TypesOf(u.uapi)
      /\ Numbered(t) => Numbered(u)
  <2>1. CASE declared
    BY <2>1
  <2>2. CASE ~declared
    <3> DEFINE s == t.uapi.enum
               new == NewEntries(t)
    <3>1. s \in Seq(Enumerator) /\ s # << >>
      BY EnumOfTree
    <3>2. new \in Seq(Enumerator) /\ Len(new) = 10 /\ \A i \in 1..10 : new[i].type = NewTypes[i]
      BY NewEntriesType
    <3>3. u.uapi.enum = s \o new
      <4>1. u.uapi = [t.uapi EXCEPT !.enum = s \o new]
        BY <2>2, MapTypesUapiKeeps
      <4>2. [t.uapi EXCEPT !.enum = s \o new].enum = s \o new
        BY EnumOfTree DEF UapiFile
      <4> HIDE DEF u, s, new
      <4> QED BY <4>1, <4>2
    <3>4. EnumOf(u.uapi) = EnumOf(t.uapi) \union Elements(new)
      <4>1. EnumOf(u.uapi) = Elements(u.uapi.enum) /\ EnumOf(t.uapi) = Elements(s)
        BY DEF EnumOf, Elements
      <4> HIDE DEF u, s, new
      <4> QED BY <3>1, <3>2, <3>3, <4>1, ConcatElements
    <3>5. "DEVMAP_HASH" \in TypesOf(u.uapi)
      <4>1. new[10] \in Elements(new) /\ new[10].type = "DEVMAP_HASH"
        BY <3>2, NewTypesNames DEF Elements
      <4> HIDE DEF u, s, new
      <4> QED BY <3>4, <4>1 DEF TypesOf
    <3>6. ASSUME Numbered(t) PROVE Numbered(u)
      <4>1. s[Len(s)].type = "SOCKMAP" /\ s[Len(s)] \in EnumOf(t.uapi)
        BY <1>2, <2>2, <3>1 DEF EndsAtSockmap, EnumOf
      <4>2. s[Len(s)].value = 15
        BY <3>6, <4>1 DEF Numbered
      <4>3. \A i \in 1..10 : new[i].value = 15 + i
        BY <4>2 DEF NewEntries
      <4>4. NewTypes[2] = "XSKMAP" /\ 2 \in 1..10 /\ 10 \in 1..10
        BY DEF NewTypes
      <4>5. ASSUME NEW i \in 1..10
            PROVE  /\ new[i].type # "SOCKMAP"
                   /\ new[i].type = "XSKMAP" => new[i].value = 17
                   /\ new[i].type = "DEVMAP_HASH" => new[i].value = 25
        <5>1. new[i].type = NewTypes[i] /\ NewTypes[i] # "SOCKMAP"
          BY <3>2, NewTypesNames
        <5>2. NewTypes[i] = "XSKMAP" => i = 2
          BY <4>4, NewTypesNames
        <5>3. NewTypes[i] = "DEVMAP_HASH" => i = 10
          BY <4>4, NewTypesNames
        <5>4. new[i].value = 15 + i
          BY <4>3
        <5> HIDE DEF new
        <5> QED BY <5>1, <5>2, <5>3, <5>4
      <4> HIDE DEF u, s, new
      <4>6. \A e \in EnumOf(u.uapi) : e \in EnumOf(t.uapi) \/ \E i \in 1..10 : e = new[i]
        BY <3>2, <3>4 DEF Elements
      <4> QED BY <3>6, <4>5, <4>6 DEF Numbered
    <3> HIDE DEF u, s, new
    <3> QED BY <3>4, <3>5, <3>6
  <2> QED BY <2>1, <2>2
<1> HIDE DEF u
<1>4. /\ y.uapi = u.uapi /\ y.types = u.types \union {"DEVMAP_HASH"}
      /\ y.verifier = u.verifier /\ y.syscall = u.syscall /\ SameCode(u, y)
  BY <1>1 DEF Tree, SameCode
<1>5. BackportMapTypes(t).tree = y
  <2>1. BackportMapTypes(t) \in {Fatal(t), Fatal(u), Done(y)}
    BY DEF BackportMapTypes, u
  <2> HIDE DEF y
  <2> QED BY <2>1 DEF Fatal, Done
<1> HIDE DEF y
<1>6. Grows(t, y)
  BY <1>1, <1>3, <1>4 DEF Grows, SameCode
<1>7. Numbered(t) => Numbered(y)
  BY <1>3, <1>4 DEF Numbered
<1>8. Numbered(t) => Landed("bpf_devmap_hash", y)
  <2> SUFFICES ASSUME Numbered(t) PROVE Landed("bpf_devmap_hash", y)
    OBVIOUS
  <2>1. ValueIs(y.uapi, "DEVMAP_HASH", 25)
    BY <1>3, <1>4, <1>7, NumberOf DEF Numbered
  <2> QED BY <1>4, <2>1 DEF Landed
<1> QED BY <1>5, <1>6, <1>7, <1>8

LEMMA BpfAttrLands ==
  ASSUME NEW t \in Tree, BackportBpfAttr(t).ok
  PROVE  LET o == BackportBpfAttr(t)
         IN /\ Grows(t, o.tree) /\ Landed("bpf_attr_abi", o.tree)
            /\ Numbered(t) => Numbered(o.tree)
<1> DEFINE u == AttrUapi(t)
           v == AttrSyscall(u)
<1>1. /\ u \in Tree /\ u.uapi = [t.uapi EXCEPT !.attr = NewAttr(t)] /\ SameCode(t, u)
      /\ u.types = t.types /\ u.verifier = t.verifier /\ u.syscall = t.syscall
  BY AttrUapiKeeps
<1> HIDE DEF u
<1>2. u.uapi.enum = t.uapi.enum /\ u.uapi.attr = NewAttr(t)
  BY <1>1, EnumOfTree DEF UapiFile
<1>3. /\ v.uapi = u.uapi /\ v.types = u.types /\ v.verifier = u.verifier /\ SameCode(u, v)
      /\ v.syscall.map_last = (IF t.syscall.map_last = "map_name" THEN "btf_value_type_id"
                               ELSE t.syscall.map_last)
      /\ v.syscall.prog_last = (IF t.syscall.prog_last = "prog_name" THEN "line_info_cnt"
                                ELSE t.syscall.prog_last)
  BY <1>1 DEF AttrSyscall, Tree, SyscallFile, SameCode
<1>4. BackportBpfAttr(t).tree = v
  <2>1. BackportBpfAttr(t) \in {Fatal(t), Done(v)}
    BY DEF BackportBpfAttr, u
  <2> HIDE DEF v
  <2> QED BY <2>1 DEF Fatal, Done
<1> HIDE DEF v
<1>5. v.syscall.map_last # "map_name" /\ v.syscall.prog_last # "prog_name"
  BY <1>3
<1>6. /\ t.uapi.attr \subseteq NewAttr(t)
      /\ {"btf_value_type_id", "expected_attach_type"} \subseteq NewAttr(t)
  BY DEF NewAttr
<1>7. EnumOf(v.uapi) = EnumOf(t.uapi)
  BY <1>2, <1>3 DEF EnumOf
<1>8. Grows(t, v)
  BY <1>1, <1>2, <1>3, <1>5, <1>6, <1>7 DEF Grows, SameCode
<1>9. Landed("bpf_attr_abi", v)
  BY <1>2, <1>3, <1>5, <1>6 DEF Landed
<1>10. Numbered(t) => Numbered(v)
  BY <1>7 DEF Numbered
<1> QED BY <1>4, <1>8, <1>9, <1>10

LEMMA RdonlyGrows ==
  ASSUME NEW t \in Tree
  PROVE  LET u == AcceptRdonlyProg(t).tree
         IN Grows(t, u) /\ (Numbered(t) => Numbered(u))
<1> DEFINE u == AcceptRdonlyProg(t).tree
<1>1. /\ u.uapi.enum = t.uapi.enum /\ u.uapi.attr = t.uapi.attr /\ SameCode(t, u)
      /\ u.types = t.types /\ u.verifier = t.verifier /\ u.syscall = t.syscall
  BY EnumOfTree DEF AcceptRdonlyProg, Done, Tree, UapiFile, SameCode
<1> HIDE DEF u
<1>2. EnumOf(u.uapi) = EnumOf(t.uapi)
  BY <1>1 DEF EnumOf
<1>3. Grows(t, u)
  BY <1>1, <1>2 DEF Grows, SameCode
<1>4. Numbered(t) => Numbered(u)
  BY <1>2 DEF Numbered
<1> QED BY <1>3, <1>4 DEF u

LEMMA OtherLands ==
  ASSUME NEW t \in Tree, NEW r
  PROVE  /\ LET o == TracePrintkDummy(t)
            IN o.ok => /\ Grows(t, o.tree) /\ (Numbered(t) => Numbered(o.tree))
                       /\ Landed("trace_printk_dummy", o.tree)
         /\ LET o == BackportTrie(t)
            IN o.ok => /\ Grows(t, o.tree) /\ (Numbered(t) => Numbered(o.tree))
                       /\ Landed("trie_next_key", o.tree)
         /\ LET o == FakeUname(t, r)
            IN Grows(t, o.tree) /\ (Numbered(t) => Numbered(o.tree))
<1>0. t.core \in {"null", "dummy", "real", "absent"}
  BY DEF Tree
<1>1. ASSUME TracePrintkDummy(t).ok
      PROVE  LET o == TracePrintkDummy(t)
             IN /\ Grows(t, o.tree) /\ (Numbered(t) => Numbered(o.tree))
                /\ Landed("trace_printk_dummy", o.tree)
  <2> DEFINE u == TracePrintkDummy(t).tree
  <2>1. t.core \in {"null", "dummy"} /\ u.core = "dummy" /\ u.lpm_trie = t.lpm_trie
    BY <1>0, <1>1 DEF TracePrintkDummy, Done, Fatal, Tree
  <2>2. SameSources(t, u)
    BY OtherBuildable
  <2> HIDE DEF u
  <2>3. Grows(t, u) /\ (Numbered(t) => Numbered(u))
    BY <2>1, <2>2, SameGrows
  <2>4. Landed("trace_printk_dummy", u)
    BY <2>1 DEF Landed
  <2> QED BY <2>3, <2>4 DEF u
<1>2. ASSUME BackportTrie(t).ok
      PROVE  LET o == BackportTrie(t)
             IN /\ Grows(t, o.tree) /\ (Numbered(t) => Numbered(o.tree))
                /\ Landed("trie_next_key", o.tree)
  <2> DEFINE u == BackportTrie(t).tree
  <2>1. u.lpm_trie = "walk" /\ u.core = t.core
    BY <1>2 DEF BackportTrie, Done, Fatal, Tree
  <2>2. SameSources(t, u)
    BY OtherBuildable
  <2> HIDE DEF u
  <2>3. Grows(t, u) /\ (Numbered(t) => Numbered(u))
    BY <2>1, <2>2, SameGrows
  <2>4. Landed("trie_next_key", u)
    BY <2>1 DEF Landed
  <2> QED BY <2>3, <2>4 DEF u
<1>3. LET o == FakeUname(t, r)
      IN Grows(t, o.tree) /\ (Numbered(t) => Numbered(o.tree))
  <2> DEFINE u == FakeUname(t, r).tree
  <2>1. u.core = t.core /\ u.lpm_trie = t.lpm_trie
    BY DEF FakeUname, Done, Fatal, Tree
  <2>2. SameSources(t, u)
    BY OtherBuildable
  <2> HIDE DEF u
  <2>3. Grows(t, u) /\ (Numbered(t) => Numbered(u))
    BY <2>1, <2>2, SameGrows
  <2> QED BY <2>3 DEF u
<1> QED BY <1>1, <1>2, <1>3

\* The graft brings the donor's numbers.
LEMMA TransplantNumbered ==
  ASSUME NumberedTrees, NEW t \in Tree, NEW input \in Request, Numbered(t)
  PROVE  Numbered(Transplant(t, input).tree)
<1>1. Numbered(input.donor)
  BY DEF Request, NumberedTrees
<1>2. Transplant(t, input).tree.uapi \in {t.uapi, input.donor.uapi}
  BY TransplantKeeps
<1> QED BY <1>1, <1>2 DEF Numbered

\* Any script but the graft.
LEMMA OutcomeLands ==
  ASSUME TypeOK, NEW name \in StepNames \ {"transplant"}, NEW o \in Outcomes(name), o.ok
  PROVE  /\ Grows(tree, o.tree)
         /\ Numbered(tree) => /\ Numbered(o.tree)
                              /\ name \in Lasting => Landed(name, o.tree)
<1>0. tree \in Tree
  BY DEF TypeOK
<1>1. CASE name = "xskmap_alias"
  BY <1>0, <1>1, XskmapLands DEF Outcomes
<1>2. CASE name = "bpf_devmap_hash"
  BY <1>0, <1>2, MapTypesLand DEF Outcomes
<1>3. CASE name = "bpf_attr_abi"
  BY <1>0, <1>3, BpfAttrLands DEF Outcomes
<1>4. CASE name = "trace_printk_dummy"
  BY <1>0, <1>4, OtherLands DEF Outcomes
<1>5. CASE name = "trie_next_key"
  BY <1>0, <1>5, OtherLands DEF Outcomes
<1>6. CASE name = "rdonly_prog_flag"
  BY <1>0, <1>6, RdonlyGrows DEF Outcomes, Lasting
<1>7. CASE name = "fake_uname"
  BY <1>0, <1>7, OtherLands DEF Outcomes, Lasting, Patches
<1>8. CASE name = "ramoops"
  <2>1. SameSources(tree, o.tree) /\ SameCode(tree, o.tree)
    BY <1>0, <1>8, RamoopsLeaves DEF Outcomes
  <2> QED BY <1>8, <2>1, SameGrows DEF SameCode, Lasting, Patches
<1>9. CASE name \in CgroupPatches
  <2>1. o \in CgroupOutcomes(tree)
    BY <1>9 DEF Outcomes, CgroupOutcomes, CgroupPatches
  <2>2. OnlyAttach(tree, o.tree)
    BY <1>0, <2>1, CgroupAttach
  <2>3. EnumOf(o.tree.uapi) = EnumOf(tree.uapi)
    BY <2>2 DEF OnlyAttach, EnumOf
  <2>4. Grows(tree, o.tree) /\ (Numbered(tree) => Numbered(o.tree))
    BY <2>2, <2>3 DEF OnlyAttach, SameCode, Grows, Numbered
  <2> QED BY <1>9, <2>4 DEF Lasting, Patches, CgroupPatches
<1> QED BY <1>1, <1>2, <1>3, <1>4, <1>5, <1>6, <1>7, <1>8, <1>9 DEF Patches, StepNames

Landing(t, n) ==
  \A p \in request.patches \intersect Lasting :
    \A i \in 1..n : Steps[i] = p => Landed(p, t)

LandInv ==
  /\ stage \in {"preflight", "patch"} => Numbered(tree)
  /\ stage = "patch" => Landing(tree, step - 1)
  /\ stage \in {"verify", "smoke", "building"} => Landing(tree, 12)

LEMMA LandRun ==
  ASSUME NumberedTrees, IInv, LandInv, RunStep, stage' \in {"patch", "verify"}
  PROVE  Numbered(tree') /\ Landing(tree', step)
<1>1. /\ step \in 1..12 /\ stage = "patch" /\ TypeOK /\ tree \in Tree /\ request \in Request
      /\ Numbered(tree) /\ Landing(tree, step - 1)
  BY RunStepCases DEF IInv, LandInv, TypeOK
<1>2. \/ ~Asked(Steps[step]) /\ tree' = tree
      \/ Asked(Steps[step]) /\ \E o \in Outcomes(Steps[step]) : o.ok /\ tree' = o.tree
  BY <1>1 DEF RunStep
<1>3. CASE step = 1
  <2>1. Steps[1] = "transplant" /\ "transplant" \notin Lasting /\ \A i \in 1..1 : i = 1
    BY FirstSteps DEF Lasting, Patches
  <2>2. Landing(tree', step)
    BY <1>3, <2>1 DEF Landing
  <2>3. Numbered(tree')
    BY <1>1, <1>2, <1>3, <2>1, TransplantNumbered DEF Outcomes, Fatal
  <2> QED BY <2>2, <2>3
<1>4. CASE step # 1
  <2>1. Steps[step] \in StepNames \ {"transplant"}
    BY <1>1, <1>4, FirstSteps
  <2>2. CASE ~Asked(Steps[step]) /\ tree' = tree
    <3>1. Steps[step] \notin request.patches \intersect Lasting
      BY <1>1, <2>2 DEF Asked, Lasting, Patches
    <3>2. \A i \in 1..step : i = step \/ i \in 1..(step - 1)
      BY <1>1
    <3> QED BY <1>1, <2>2, <3>1, <3>2 DEF Landing
  <2>3. CASE Asked(Steps[step]) /\ \E o \in Outcomes(Steps[step]) : o.ok /\ tree' = o.tree
    <3>1. PICK o \in Outcomes(Steps[step]) : o.ok /\ tree' = o.tree
      BY <2>3
    <3>2. /\ Grows(tree, tree') /\ Numbered(tree')
          /\ Steps[step] \in Lasting => Landed(Steps[step], tree')
      BY <1>1, <2>1, <3>1, OutcomeLands
    <3>3. ASSUME NEW p \in request.patches \intersect Lasting, NEW i \in 1..step, Steps[i] = p
          PROVE  Landed(p, tree')
      <4>1. CASE i = step
        BY <3>2, <3>3, <4>1
      <4>2. CASE i # step
        <5>1. i \in 1..(step - 1)
          BY <1>1, <4>2
        <5>2. Landed(p, tree)
          BY <1>1, <3>3, <5>1 DEF Landing
        <5> QED BY <3>2, <5>2, LandedStays
      <4> QED BY <4>1, <4>2
    <3> QED BY <3>2, <3>3 DEF Landing
  <2> QED BY <1>2, <2>2, <2>3
<1> QED BY <1>3, <1>4

LEMMA LandStep ==
  ASSUME NumberedTrees
  PROVE  IInv /\ LandInv /\ [Next]_vars => LandInv'
<1> SUFFICES ASSUME IInv, LandInv, [Next]_vars PROVE LandInv'
  OBVIOUS
<1>0. TypeOK /\ Phase
  BY DEF IInv
<1>1. CASE Preflight
  <2>1. /\ stage = "preflight" /\ stage' \in {"patch", "refused"}
        /\ UNCHANGED <<request, tree, step>>
    BY <1>1 DEF Preflight
  <2>2. step = 1 /\ \A i \in 1..(1 - 1) : FALSE
    BY <1>0, <2>1 DEF Phase
  <2> QED BY <2>1, <2>2 DEF LandInv, Landing
<1>2. CASE RunStep
  <2>1. /\ step \in 1..12 /\ step' = step + 1 /\ request' = request
        /\ stage' \in {"patch", "verify", "fatal"} /\ (stage' = "verify" => step = 12)
    BY <1>0, <1>2, RunStepCases
  <2>2. CASE stage' \in {"patch", "verify"}
    <3>1. Numbered(tree') /\ Landing(tree', step)
      BY <1>2, <2>2, LandRun
    <3>2. step' - 1 = step
      BY <2>1
    <3> QED BY <2>1, <2>2, <3>1, <3>2 DEF LandInv, Landing
  <2>3. CASE stage' = "fatal"
    BY <2>3 DEF LandInv
  <2> QED BY <2>1, <2>2, <2>3
<1>3. CASE Verify \/ Smoke
  <2>1. /\ stage \in {"verify", "smoke"}
        /\ stage' \in {"smoke", "rejected", "building", "smoke_failed"}
        /\ UNCHANGED <<request, tree>>
    BY <1>3 DEF Verify, Smoke
  <2> QED BY <2>1 DEF LandInv, Landing
<1>4. CASE UNCHANGED vars
  BY <1>4 DEF vars, LandInv, Landing
<1> QED BY <1>1, <1>2, <1>3, <1>4 DEF Next

\* Every patch is a step.
LEMMA EveryPatch == ASSUME NEW p \in Patches PROVE \E i \in 1..12 : Steps[i] = p
<1>1. /\ Steps[2] = "rdonly_prog_flag" /\ Steps[5] = "xskmap_alias"
      /\ Steps[6] = "trace_printk_dummy" /\ Steps[7] = "trie_next_key"
      /\ Steps[10] = "bpf_devmap_hash" /\ Steps[11] = "bpf_attr_abi"
  BY DEF Steps
<1> QED BY <1>1 DEF Patches

\* Whatever the tree, the graft and the other patches, each patch that was asked
\* for is in what is built: the scripts leave the work of those before them, and
\* what the one that only warns did not do verify_patches.py finds.
THEOREM PatchesLand == NumberedTrees => (Spec => []AskedLands)
<1> SUFFICES ASSUME NumberedTrees PROVE Spec => []AskedLands
  OBVIOUS
<1>1. Init => LandInv
  BY DEF Init, LandInv, NumberedTrees
<1>2. IInv /\ LandInv => AskedLands
  <2> SUFFICES ASSUME IInv, LandInv, stage = "building", NEW p \in request.patches
               PROVE  Landed(p, tree)
    BY DEF AskedLands
  <2>1. p \in Patches /\ Verifies(tree, request)
    BY DEF IInv, TypeOK, Request, Checked
  <2>2. CASE p = "rdonly_prog_flag"
    <3> DEFINE masks == {a \in Verified : tree.mask[a] \in {"wide", "forced"}}
    <3>1. "RDONLY_PROG" \in tree.uapi.flags /\ Cardinality(masks) >= 3
      BY <2>1, <2>2 DEF Verifies
    <3>2. masks # {}
      <4> HIDE DEF masks
      <4> QED BY <3>1, FS_EmptySet
    <3>3. \E a \in Allocators : tree.mask[a] \in {"wide", "forced"}
      BY <3>2 DEF Allocators
    <3> QED BY <2>2, <3>1, <3>3 DEF Landed
  <2>3. CASE p # "rdonly_prog_flag"
    BY <2>1, <2>3, EveryPatch DEF LandInv, Landing, Lasting
  <2> QED BY <2>2, <2>3
<1>3. IInv /\ LandInv /\ [Next]_vars => LandInv'
  BY LandStep
<1> QED BY <1>1, <1>2, <1>3, IInvHolds, PTL DEF Spec

==============================================================================
