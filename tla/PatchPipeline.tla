---------------------------- MODULE PatchPipeline ----------------------------
(***************************************************************************)
(* One build of .github/workflows/build-raphael.yml, from the gate in      *)
(* front of it (scripts/launch_build.sh, preflight.py --dry-run) over the  *)
(* patch step (lines 342-430), which runs one script after another under   *)
(* set -e on a fresh clone, and verify_patches.py, to the smoke gate       *)
(* (566-587) and the build.                                                *)
(*                                                                         *)
(* A kernel tree is a record with a field per file that some script edits; *)
(* a file is what the scripts can tell apart in it.  A script is a         *)
(* function of the tree: it leaves a tree and succeeds or stops with       *)
(* FATAL, what it wrote before that included.  Of the cgroup scripts, which *)
(* PatchScripts models, only the attach types that they declare and use    *)
(* matter here, and they may fail.  brand_kernel.py, which appends to      *)
(* init/main.c, is left out.                                               *)
(***************************************************************************)
EXTENDS Naturals, Sequences, FiniteSets

CONSTANTS
  Trees,      \* kernel trees a build may clone
  Donors,     \* trees whose BPF subsystem may be grafted over it
  Requests,   \* what the inputs of the workflow ask for
  Releases,   \* kernel releases that uname() may be made to report
  Truth       \* the release of the kernel itself

Patches == {"rdonly_prog_flag", "xskmap_alias", "trace_printk_dummy",
            "trie_next_key", "bpf_devmap_hash", "bpf_attr_abi"}
CgroupPatches == {"cgroup_attach_types", "cgroup_sockopt", "cgroup_device"}
Scopes  == {"none", "devmap", "sockopt", "full"}

\* fake_uname is a release, or Truth for the empty input; bpf_donor is given
\* when graft # "none".
Request == [patches : SUBSET Patches, cgroup : SUBSET CgroupPatches,
            fake_uname : Releases \union {Truth}, graft : Scopes, donor : Donors]

ASSUME RequestsAssumption == Requests \subseteq Request
ASSUME TruthAssumption == Truth \notin Releases

-----------------------------------------------------------------------------
(* Kernel trees.                                                           *)

\* NEW_TYPES of backport_bpf_map_types.py, in upstream order.
NewTypes == <<"CPUMAP", "XSKMAP", "SOCKHASH", "CGROUP_STORAGE",
              "REUSEPORT_SOCKARRAY", "PERCPU_CGROUP_STORAGE", "QUEUE", "STACK",
              "SK_STORAGE", "DEVMAP_HASH">>
MapTypes == {NewTypes[i] : i \in 1..10} \union {"SOCKMAP"}

\* The last enumerators of enum bpf_map_type, from SOCKMAP = 15 on; those
\* before are the same in every tree.
Enumerator == [type : MapTypes, value : Nat, explicit : BOOLEAN]
Sockmap    == [type |-> "SOCKMAP", value |-> 15, explicit |-> FALSE]
EnumOf(file) == {file.enum[i] : i \in 1..Len(file.enum)}
TypesOf(file) == {e.type : e \in EnumOf(file)}
ValueIs(file, type, value) == \E e \in EnumOf(file) : e.type = type /\ e.value = value

\* The allocators that verify_patches.py looks at, and the two others.
Verified   == {"devmap", "arraymap", "hashtab", "lpm_trie", "stackmap"}
Allocators == Verified \union {"sockmap", "cpumap"}

ProgFlags == {"RDONLY_PROG", "WRONLY_PROG"}
AttrFields == {"btf_value_type_id", "expected_attach_type", "line_info_cnt"}

\* The attach types BPF_CGROUP_UDP4/6_SENDMSG and _RECVMSG, _GET/SETSOCKOPT and
\* _DEVICE, the last with its program type.
AttachTypes == {"msg", "sockopt", "device"}

\* The processes that are told another release.
Comms == {"bpfloader", "netbpfload", "netd"}

\* The device trees of arch/arm64/boot/dts/qcom: the one of the SoC, one of the
\* board, and one of another SoC.
DtFiles == {"sm8150", "raphael", "other"}
Raphael == {"sm8150", "raphael"}
DtFile  == [node     : {"none", "own", "rom"},  \* its ramoops@ node
            reserved : BOOLEAN,                 \* a labelled reserved-memory
            pshold   : BOOLEAN, warm : BOOLEAN]

\* An allocator may name both flags in its mask, set the first itself, or know
\* neither in a form that the script finds.
Masks == {"narrow", "wide", "forced", "other", "absent"}

UapiFile ==
  [enum  : Seq(Enumerator) \ {<< >>}, flags : SUBSET ProgFlags,
   attr  : SUBSET AttrFields, attach : SUBSET AttachTypes,
   texts : SUBSET {"flag_define", "map_name", "prog_name"}]
SyscallFile ==
  [map_last  : {"map_name", "btf_value_type_id", "newer"},
   prog_last : {"prog_name", "expected_attach_type", "line_info_cnt", "newer"},
   attach    : SUBSET AttachTypes]

\* "xsk" in bpf_types.h or verifier.c: XSKMAP otherwise than in the lines of
\* alias_xskmap.py, in bpf_types.h with xsk_map_ops.  sys.release is what the
\* first of the comms is told, named are the releases that sys.c spells.
\* sock_map says that there is a net/core/sock_map.c.
Tree ==
  [uapi     : UapiFile,
   types    : SUBSET {"ARRAY", "DEVMAP", "DEVMAP_HASH", "XSKMAP", "xsk"},
   verifier : SUBSET {"DEVMAP", "DEVMAP_HASH", "XSKMAP", "xsk"},
   syscall  : SyscallFile,
   core     : {"null", "dummy", "real", "absent"},        \* trace_printk
   lpm_trie : {"stub", "walk", "respelt", "absent"},      \* get_next_key
   mask     : [Allocators -> Masks],
   sock_map : BOOLEAN,
   sys      : [release : Releases \union {Truth}, named : SUBSET (Releases \union {Truth}),
               comms : SUBSET Comms, memcpy : BOOLEAN],
   dt       : [DtFiles -> DtFile],
   ram      : {"plain", "memreserve", "native", "respelt"}]

ASSUME TreesAssumption == Trees \union Donors \subseteq Tree
\* "memreserve" is the block that xiaomi_ramoops.py writes.
ASSUME PristineAssumption == \A t \in Trees : t.ram # "memreserve"

Done(t)  == [tree |-> t, ok |-> TRUE]
Fatal(t) == [tree |-> t, ok |-> FALSE]

-----------------------------------------------------------------------------
(* The scripts.                                                            *)

\* transplant_bpf.sh copies whole files of the donor; a file the donor lacks
\* stays ...
Grafted(t, d, files) ==
  [a \in Allocators |->
     IF a \in files /\ d.mask[a] # "absent" THEN d.mask[a] ELSE t.mask[a]]
\* ... but sockmap.c goes, in every scope, if the donor has sock_map.c for it.
DropSockmap(t, d) ==
  IF d.sock_map /\ d.mask["sockmap"] = "absent"
  THEN [t EXCEPT !.mask["sockmap"] = "absent"] ELSE t
\* devmap.c only, the sockopt files, or the BPF subsystem with its headers.
Transplant(t, input) ==
  LET d == input.donor
      devmap  == [t EXCEPT !.mask = Grafted(t, d, {"devmap"})]
      sockopt == [t EXCEPT !.uapi = d.uapi, !.types = d.types, !.core = d.core,
                           !.verifier = d.verifier, !.syscall = d.syscall]
      full    == [sockopt EXCEPT !.mask = Grafted(t, d, Allocators \ {"sockmap"}),
                                 !.lpm_trie = d.lpm_trie, !.sock_map = @ \/ d.sock_map]
  IN CASE input.graft = "none"    -> Done(t)
       [] input.graft = "devmap"  -> Done(DropSockmap(devmap, d))
       [] input.graft = "sockopt" -> Done(DropSockmap(sockopt, d))
       [] input.graft = "full"    -> Done(DropSockmap(full, d))

\* Mutant: the first version, which left both flags alone if it saw either.
BothOrNeither(t) ==
  IF t.uapi.flags = {} /\ "flag_define" \in t.uapi.texts THEN ProgFlags ELSE t.uapi.flags

\* Whichever flag is missing, after the define of some flag; without one the
\* header is skipped.
add_flag_defs(t) ==
  IF "flag_define" \in t.uapi.texts THEN ProgFlags ELSE t.uapi.flags

\* The masks of the allocators; none widened is a warning.
AcceptRdonlyProg(t) ==
  Done([t EXCEPT !.uapi.flags = add_flag_defs(t),
                 !.mask = [a \in Allocators |-> IF t.mask[a] = "narrow" THEN "wide" ELSE t.mask[a]]])

\* add_cgroup_attach_types.py, add_cgroup_sockopt.py, which declares no attach
\* type, and add_cgroup_device.py: a success has passed their post-conditions.
Wired(t, types) == [t EXCEPT !.syscall.attach = @ \union types]
Declaring(t, types) ==
  LET declared == [t EXCEPT !.uapi.attach = @ \union types]
      wired    == Wired(declared, types)
  IN {Done(wired), Fatal(t), Fatal(declared), Fatal(wired)}
AddAttachTypes(t) == Declaring(t, {"msg", "sockopt"})
AddSockopt(t) ==
  {Done(Wired(t, {"sockopt"})), Fatal(t), Fatal(Wired(t, {"sockopt"}))}
AddDevice(t) ==
  IF "device" \in t.uapi.attach THEN {Done(t)} ELSE Declaring(t, {"device"})

\* XSKMAP in three files, each with a guard of its own: any mention.
XskmapUapi(t) ==
  IF "XSKMAP" \in TypesOf(t.uapi) THEN t
  ELSE [t EXCEPT !.uapi.enum =
          Append(@, [type |-> "XSKMAP", value |-> 17, explicit |-> TRUE])]
Mentioned(file) == file \intersect {"XSKMAP", "xsk"} # {}
Mentioning(file) == IF Mentioned(file) THEN file ELSE file \union {"XSKMAP"}
\* The post-conditions want the spellings of the script.
OwnSpelling(t) ==
  /\ \E e \in EnumOf(t.uapi) : e.type = "XSKMAP" /\ e.explicit
  /\ "XSKMAP" \in t.types /\ "XSKMAP" \in t.verifier
AliasXskmap(t) ==
  LET uapi     == XskmapUapi(t)
      types    == [uapi EXCEPT !.types = Mentioning(t.types)]
      verifier == [types EXCEPT !.verifier = Mentioning(t.verifier)]
  IN IF ~Mentioned(t.types) /\ "ARRAY" \notin t.types THEN Fatal(uapi)
     ELSE IF ~Mentioned(t.verifier) /\ ~({"DEVMAP", "DEVMAP_HASH"} \subseteq t.verifier)
     THEN Fatal(types)
     ELSE IF OwnSpelling(verifier) THEN Done(verifier)
     ELSE Fatal(verifier)

\* "Numbering would not line up; refusing to guess."
EndsAtSockmap(file) == file.enum[Len(file.enum)].type = "SOCKMAP"

\* DEVMAP_HASH is the 25th name of the enum.
Lands(file) == \E i \in 1..Len(file.enum) :
                 file.enum[i].type = "DEVMAP_HASH" /\ 14 + i = 25

MapTypesUapi(t) ==
  LET n == Len(t.uapi.enum)
  IN [t EXCEPT !.uapi.enum =
        @ \o [i \in 1..10 |-> [type |-> NewTypes[i], value |-> @[n].value + i,
                               explicit |-> FALSE]]]

\* Mutant: what the header declares is taken to be registered.
OneGuard(t) ==
  IF "DEVMAP_HASH" \in TypesOf(t.uapi) THEN Done(t)
  ELSE IF ~EndsAtSockmap(t.uapi) THEN Fatal(t)
  ELSE Done([MapTypesUapi(t) EXCEPT !.types = @ \union {"DEVMAP_HASH"}])

\* The types of the enum, then the registration of DEVMAP_HASH.
BackportMapTypes(t) ==
  LET declared == "DEVMAP_HASH" \in TypesOf(t.uapi)
      uapi  == IF declared THEN t ELSE MapTypesUapi(t)
      types == [uapi EXCEPT !.types = @ \union {"DEVMAP_HASH"}]
  IN IF ~declared /\ ~EndsAtSockmap(t.uapi) THEN Fatal(t)
     ELSE IF ~declared /\ ~Lands(uapi.uapi) THEN Fatal(uapi)
     ELSE IF t.types \intersect {"DEVMAP_HASH", "DEVMAP"} = {} THEN Fatal(uapi)
     ELSE Done(types)

\* union bpf_attr and the LAST_FIELD markers; a marker of another layout is
\* left alone.
AttrUapi(t) ==
  LET map  == IF "btf_value_type_id" \in t.uapi.attr THEN {} ELSE {"btf_value_type_id"}
      prog == IF "expected_attach_type" \in t.uapi.attr THEN {}
              ELSE {"expected_attach_type", "line_info_cnt"}
  IN [t EXCEPT !.uapi.attr = @ \union map \union prog]
AttrSyscall(t) ==
  [t EXCEPT !.syscall =
     [t.syscall EXCEPT
        !.map_last  = IF @ = "map_name" THEN "btf_value_type_id" ELSE @,
        !.prog_last = IF @ = "prog_name" THEN "line_info_cnt" ELSE @]]
BackportBpfAttr(t) ==
  IF \/ "btf_value_type_id" \notin t.uapi.attr /\ "map_name" \notin t.uapi.texts
     \/ "expected_attach_type" \notin t.uapi.attr /\ "prog_name" \notin t.uapi.texts
  THEN Fatal(t)
  ELSE Done(AttrSyscall(AttrUapi(t)))

\* The weak bpf_get_trace_printk_proto() that returns NULL.
TracePrintkDummy(t) ==
  CASE t.core = "dummy" -> Done(t)
    [] t.core = "null"  -> Done([t EXCEPT !.core = "dummy"])
    [] OTHER            -> Fatal(t)

\* The stub that returns -ENOTSUPP.
BackportTrie(t) ==
  CASE t.lpm_trie = "walk" -> Done(t)
    [] t.lpm_trie = "stub" -> Done([t EXCEPT !.lpm_trie = "walk"])
    [] OTHER               -> Fatal(t)

\* newuname() for the comms.  The guard is any fake uname.
FakeUname(t, release) ==
  IF t.sys.release # Truth THEN Done(t)
  ELSE IF t.sys.memcpy
  THEN Done([t EXCEPT !.sys = [t.sys EXCEPT !.release = release, !.comms = Comms,
                                            !.named = @ \union {release}]])
  ELSE Fatal(t)

\* xiaomi_ramoops.py.  Every pshold node gets a warm reset ...
force_warm_reboot(t) ==
  [t EXCEPT !.dt = [f \in DtFiles |->
     [@[f] EXCEPT !.warm = t.dt[f].warm \/ t.dt[f].pshold]]]
\* Mutant: only the file that ships on the other devices is looked at.
OnlySoc(t) == {f \in {"sm8150"} : t.dt[f].node # "none"}

\* ... every ramoops node of a file raphael builds the geometry of the ROM ...
WithNode(t) == {f \in Raphael : t.dt[f].node # "none"}
rewrite_dts_nodes(t) ==
  [t EXCEPT !.dt = [f \in DtFiles |->
     [@[f] EXCEPT !.node = IF f \in WithNode(t) THEN "rom" ELSE t.dt[f].node]]]
\* ... or, without any, the first such file with a reserved-memory gets one;
\* which one is the first depends on the order of the directory.
Insertable(t) == {f \in Raphael : t.dt[f].reserved}
\* Mutant: what the tree implements itself is not looked for.
InstalledTwice(t) ==
  IF t.ram = "respelt" THEN Fatal(t) ELSE Done([t EXCEPT !.ram = "both"])

\* ... or, without any, the command line parameter is installed.
patch_ram_c(t) ==
  CASE t.ram = "respelt" -> Fatal(t)
    [] t.ram = "plain"   -> Done([t EXCEPT !.ram = "memreserve"])
    [] OTHER             -> Done(t)

\* Mutant: the parameter is installed whether there is a node or not.
BothChannels(t) == {patch_ram_c(rewrite_dts_nodes(force_warm_reboot(t)))}

XiaomiRamoops(t) ==
  LET warm == force_warm_reboot(t)
  IN IF WithNode(t) # {} THEN {Done(rewrite_dts_nodes(warm))}
     ELSE IF Insertable(t) # {}
          THEN {Done([warm EXCEPT !.dt[f].node = "rom"]) : f \in Insertable(t)}
          ELSE {patch_ram_c(warm)}

-----------------------------------------------------------------------------
(* verify_patches.py and the compiler.                                     *)

\* The logging, whatever was asked for, and three of the patches: of the release
\* and the comms only that sys.c has their strings somewhere.
Verifies(t, input) ==
  /\ t.dt["sm8150"].node = "rom" /\ t.dt["sm8150"].warm
  /\ input.fake_uname # Truth =>
       input.fake_uname \in t.sys.named /\ t.sys.comms = Comms
  /\ "rdonly_prog_flag" \in input.patches =>
       /\ "RDONLY_PROG" \in t.uapi.flags
       /\ Cardinality({a \in Verified : t.mask[a] \in {"wide", "forced"}}) >= 3
  /\ "bpf_devmap_hash" \in input.patches => "DEVMAP_HASH" \in TypesOf(t.uapi)

\* What the patches can make of a tree that kernel/bpf/ does not compile with: a
\* flag, a field, a map type or an attach type that no header declares, or a map
\* type that one declares twice.
Compiles(t) ==
  /\ \A a \in Allocators :
       /\ t.mask[a] = "wide" => t.uapi.flags = ProgFlags
       /\ t.mask[a] = "forced" => "RDONLY_PROG" \in t.uapi.flags
  /\ {t.syscall.map_last, t.syscall.prog_last} \intersect AttrFields \subseteq t.uapi.attr
  /\ t.syscall.attach \subseteq t.uapi.attach
  /\ (t.types \union t.verifier) \intersect MapTypes \subseteq TypesOf(t.uapi)
  /\ "xsk" \in t.types \union t.verifier => "XSKMAP" \in TypesOf(t.uapi)
  /\ \A i, j \in 1..Len(t.uapi.enum) :
       t.uapi.enum[i].type = t.uapi.enum[j].type => i = j

-----------------------------------------------------------------------------
(* The dry run of preflight.py.                                            *)

\* Six files of the tree are fetched into an empty directory.
FetchedOnly(t) ==
  [t EXCEPT !.verifier = {}, !.core = "absent", !.lpm_trie = "absent",
            !.mask = [a \in Allocators |-> "absent"],
            !.dt = [f \in DtFiles |->
               IF f = "sm8150" THEN @[f]
               ELSE [node |-> "none", reserved |-> FALSE, pshold |-> FALSE, warm |-> FALSE]]]

\* The scripts with one of the words of the list in their name, in alphabetical
\* order, each on what the one before has left; those that fail.  In a
\* directory without .gitmodules fix_empty_submodule_kconfig.py does nothing.
Failing(t) ==
  LET attr  == BackportBpfAttr(AcceptRdonlyProg(t).tree)
      types == BackportMapTypes(attr.tree)
      trie  == BackportTrie(types.tree)
      uname == FakeUname(trie.tree, Truth)
  IN   (IF attr.ok THEN {} ELSE {"bpf_attr_abi"})
  \union (IF types.ok THEN {} ELSE {"bpf_devmap_hash"})
  \union (IF trie.ok THEN {} ELSE {"trie_next_key"})
  \union (IF uname.ok THEN {} ELSE {"fake_uname"})
  \union (IF \A o \in XiaomiRamoops(uname.tree) : o.ok THEN {} ELSE {"ramoops"})

-----------------------------------------------------------------------------
VARIABLES
  request,   \* the inputs of this run
  tree,      \* the clone
  stage,     \* where the run is
  step,      \* index of the next script of the patch step
  blockers   \* what preflight.py reports

vars == <<request, tree, stage, step, blockers>>

Stages == {"preflight", "refused", "patch", "fatal", "verify", "rejected",
           "smoke", "smoke_failed", "building"}

\* The patch step, in the order of the workflow.
Steps == <<"transplant", "rdonly_prog_flag", "cgroup_attach_types", "cgroup_sockopt",
           "xskmap_alias", "trace_printk_dummy", "trie_next_key", "cgroup_device",
           "fake_uname", "bpf_devmap_hash", "bpf_attr_abi", "ramoops">>

TypeOK ==
  /\ request \in Request
  /\ tree \in Tree
  /\ stage \in Stages
  /\ step \in 1..(Len(Steps) + 1)
  /\ blockers \subseteq Patches \union {"fake_uname", "ramoops", "other"}

Init ==
  /\ request \in Requests
  /\ tree \in Trees
  /\ stage = "preflight"
  /\ step = 1
  /\ blockers = {}

\* launch_build.sh runs the gate and, without FORCE=1, refuses what it blocks.
\* "other" stands for the checks of preflight.py that come before the dry run.
Preflight ==
  /\ stage = "preflight"
  /\ \E other \in SUBSET {"other"}, force \in BOOLEAN :
       /\ blockers' = Failing(FetchedOnly(tree)) \union other
       /\ stage' = IF blockers' = {} \/ force THEN "patch" ELSE "refused"
  /\ UNCHANGED <<request, tree, step>>

Asked(name) ==
  CASE name = "transplant" -> request.graft # "none"
    [] name = "fake_uname" -> request.fake_uname # Truth
    [] name = "ramoops"    -> TRUE
    [] OTHER               -> name \in request.patches \union request.cgroup

\* What a script may do with the tree; the clone of the donor may fail.
Outcomes(name) ==
  CASE name = "transplant"         -> {Transplant(tree, request), Fatal(tree)}
    [] name = "rdonly_prog_flag"   -> {AcceptRdonlyProg(tree)}
    [] name = "cgroup_attach_types" -> AddAttachTypes(tree)
    [] name = "cgroup_sockopt"     -> AddSockopt(tree)
    [] name = "cgroup_device"      -> AddDevice(tree)
    [] name = "xskmap_alias"       -> {AliasXskmap(tree)}
    [] name = "trace_printk_dummy" -> {TracePrintkDummy(tree)}
    [] name = "trie_next_key"      -> {BackportTrie(tree)}
    [] name = "fake_uname"         -> {FakeUname(tree, request.fake_uname)}
    [] name = "bpf_devmap_hash"    -> {BackportMapTypes(tree)}
    [] name = "bpf_attr_abi"       -> {BackportBpfAttr(tree)}
    [] name = "ramoops"            -> XiaomiRamoops(tree)

\* The next step, or none of it; set -e ends the run at the first FATAL.
RunStep ==
  /\ stage = "patch"
  /\ step' = step + 1
  /\ LET name == Steps[step]
         onwards == IF step = Len(Steps) THEN "verify" ELSE "patch"
     IN \/ ~Asked(name) /\ stage' = onwards /\ UNCHANGED tree
        \/ /\ Asked(name)
           /\ \E o \in Outcomes(name) :
                /\ tree' = o.tree
                /\ stage' = IF o.ok THEN onwards ELSE "fatal"
  /\ UNCHANGED <<request, blockers>>

Verify ==
  /\ stage = "verify"
  /\ stage' = IF Verifies(tree, request) THEN "smoke" ELSE "rejected"
  /\ UNCHANGED <<request, tree, step, blockers>>

\* The patched subsystems are compiled first.  Sources of two trees may disagree
\* in more than is modelled.
Smoke ==
  /\ stage = "smoke"
  /\ \/ Compiles(tree) /\ stage' = "building"
     \/ ~Compiles(tree) /\ stage' = "smoke_failed"
     \/ request.graft # "none" /\ stage' = "smoke_failed"
  /\ UNCHANGED <<request, tree, step, blockers>>

Next == Preflight \/ RunStep \/ Verify \/ Smoke

Spec == Init /\ [][Next]_vars

-----------------------------------------------------------------------------
(* Properties.                                                             *)

\* What a patch is for, said of the tree: the loader finds DEVMAP_HASH at 25 and
\* XSKMAP at 17, both creatable and the second legal for redirect; and so on.
Landed(patch, t) ==
  CASE patch = "bpf_devmap_hash" ->
         ValueIs(t.uapi, "DEVMAP_HASH", 25) /\ "DEVMAP_HASH" \in t.types
    [] patch = "xskmap_alias" ->
         ValueIs(t.uapi, "XSKMAP", 17) /\ "XSKMAP" \in t.types /\ "XSKMAP" \in t.verifier
    [] patch = "rdonly_prog_flag" ->
         "RDONLY_PROG" \in t.uapi.flags /\ \E a \in Allocators : t.mask[a] \in {"wide", "forced"}
    [] patch = "trace_printk_dummy" -> t.core \in {"dummy", "real"}
    [] patch = "trie_next_key"      -> t.lpm_trie = "walk"
    [] patch = "bpf_attr_abi"       ->
         /\ {"btf_value_type_id", "expected_attach_type"} \subseteq t.uapi.attr
         /\ t.syscall.map_last # "map_name" /\ t.syscall.prog_last # "prog_name"
    [] patch = "fake_uname"         -> t.sys.release # Truth

\* The numbers are the ABI: a tree that has a type has it where upstream has.
Numbered(t) ==
  \A e \in EnumOf(t.uapi) :
    /\ e.type = "SOCKMAP" => e.value = 15
    /\ e.type = "XSKMAP" => e.value = 17
    /\ e.type = "DEVMAP_HASH" => e.value = 25
NumberedTrees == \A t \in Trees \union Donors : Numbered(t)

\* A build that gets as far as the compiler has every patch the inputs asked for,
\* whatever the tree, the graft and the other patches: none is skipped because
\* half of it was there, none is overwritten by a later step (the reason for
\* verify_patches.py, which looks at three of them only).
AskedLands ==
  stage = "building" => \A p \in request.patches : Landed(p, tree)

\* The log of a failed boot survives: the SoC's device tree has the node and the
\* warm reset, and no other file that raphael builds has a node of another
\* geometry (xiaomi_ramoops.py has patched the wrong file twice).
LogSurvives ==
  stage = "building" =>
    /\ tree.dt["sm8150"].node = "rom" /\ tree.dt["sm8150"].warm
    /\ \A f \in Raphael : tree.dt[f].node # "own"

\* The script never leaves two competing ramoops devices: the command line
\* parameter it installs and a node (xiaomi_ramoops.py:288).
NeverTwoChannels ==
  tree.ram = "memreserve" => \A f \in Raphael : tree.dt[f].node = "none"

\* The layouts that the scripts know: a flag they can put the missing one behind,
\* an enum that has none of the later types before SOCKMAP, and the fields of a
\* later union bpf_attr only with its marker.
Orderly(t) ==
  /\ t.uapi.flags \in {{}, ProgFlags} \/ "flag_define" \in t.uapi.texts
  /\ EndsAtSockmap(t.uapi) => TypesOf(t.uapi) \subseteq {"SOCKMAP"}
  /\ t.syscall.prog_last = "prog_name" /\ "expected_attach_type" \in t.uapi.attr =>
       "line_info_cnt" \in t.uapi.attr
Buildable(t) == Compiles(t) /\ Orderly(t)
BuildableTrees == \A t \in Trees : Buildable(t)

\* "Needs cgroup_attach_types=true" (build-raphael.yml:81): nothing checks it.
SockoptHasTypes ==
  "cgroup_sockopt" \in request.cgroup => "cgroup_attach_types" \in request.cgroup

\* Without a graft, and with the attach types wherever the sockopt programs are
\* asked for, the smoke gate has nothing to find: no combination of the other
\* patches makes a tree that compiles into one that does not.
PatchedTreeCompiles ==
  request.graft = "none" /\ SockoptHasTypes => stage # "smoke_failed"
==============================================================================
