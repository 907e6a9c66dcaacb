----------------------------- MODULE ImageBuild -----------------------------
(***************************************************************************)
(* From a kernel tree to an image with the options that were asked for:    *)
(* the second half of .github/workflows/build-raphael.yml, which ends with *)
(* a flashable zip, and scripts/build_kernel_infinityx.sh, which leaves an *)
(* Image.gz next to the source.  Both lay fragments over a base config,    *)
(* let Kconfig resolve it, look at the result, and run a make that         *)
(* resolves it again.                                                      *)
(***************************************************************************)
EXTENDS FiniteSets

CONSTANTS
  Trees,    \* kernel trees, as far as the two builds can tell them apart
  Running,  \* infinityx/running.config, from the phone
  Foreign,  \* the config of another ROM's kernel, given as inputs.defconfig
  None,     \* no image
  Old, Torn \* an image of an earlier build, and one cut short

\* One option for each case the lists below distinguish.  CPU_MASK stands for
\* the numbers without a default; for them "y" is any number.
Option == {"NAMESPACES", "PID_NS", "KEYS", "PSTORE_RAM", "IKCONFIG", "LLVM_POLLY",
           "LOCALVERSION_AUTO", "KSU", "CPU_MASK"}

\* A .config or a fragment: "n" is a line "... is not set", "empty" a line that
\* assigns nothing.
Config == [Option -> {"y", "n", "empty", "absent"}]
On(config) == {o \in Option : config[o] = "y"}
Directives(yes, no) ==
  [o \in Option |-> IF o \in yes THEN "y" ELSE IF o \in no THEN "n" ELSE "absent"]

\* The variables of a make: those on its command line, or what the Makefile
\* assigns without them.
Vars == {"clang", "host"}

Tree ==
  [known    : [Vars -> SUBSET Option],     \* defined, with the toolchain's support
   needs    : [Option -> SUBSET Option],   \* depends on
   default  : SUBSET Option,               \* default y
   numbers  : SUBSET Option,               \* no default at all
   defconfig : Config,
   config_data : {"own", "decoy", "respelt"},  \* the rule for config_data.gz
   decoy    : Config,                      \* what the other two embed instead
   decoy_version : {"same", "other"},      \* in its header; "same" if it has none
   dtb      : {"appended", "separate", "none"},
   files    : SUBSET {"kernelsu", "susfs", "btf", "bpf_names"}]

ASSUME ConfigsAssumption == Running \in Config /\ Foreign \in Config
\* "recursive dependency detected" is an error of Kconfig.
Acyclic(t) ==
  \A S \in SUBSET Option \ {{}} : \E o \in S : t.needs[o] \intersect S = {}
ASSUME TreesAssumption ==
  \A t \in Trees :
    /\ t \in Tree /\ Acyclic(t)
    /\ t.default \intersect t.numbers = {}
    /\ \A v \in Vars : "KSU" \in t.known[v] <=> "kernelsu" \in t.files

\* The image holds the options compiled in, and what it says of them.
Image == [config : Config, embedded : Config, version : {"same", "other"}]
ASSUME MarksAssumption ==
  /\ None \notin Image /\ Torn \notin Image /\ Old \notin Image
  /\ None # Torn /\ None # Old

Inputs == [stock_only : BOOLEAN, foreign : BOOLEAN, append_dtb : BOOLEAN]
Mounts == [tmpfs : BOOLEAN, wrapped : BOOLEAN, prose : BOOLEAN]

-----------------------------------------------------------------------------
(* Kconfig.                                                                *)

\* merge_config.sh: what the fragment mentions replaces the line of the base.
Merge(base, fragment) ==
  [o \in Option |-> IF fragment[o] = "absent" THEN base[o] ELSE fragment[o]]

\* make olddefconfig, and what any later make does with the same .config: on is
\* what is asked for, or new and on by default, and has what it depends on.
Wanted(t, config) ==
  On(config) \union {o \in t.default : config[o] \in {"empty", "absent"}}
Closed(t, v, options) ==
  \A o \in options : o \in t.known[v] /\ t.needs[o] \subseteq options
Resolved(t, v, config) == UNION {S \in SUBSET Wanted(t, config) : Closed(t, v, S)}
olddefconfig(t, v, config) ==
  LET on == Resolved(t, v, config)
  IN [o \in Option |->
        IF o \in on THEN "y"
        ELSE IF o \in t.known[v] \ t.numbers /\ t.needs[o] \subseteq on THEN "n"
        ELSE "absent"]

\* A number without a value makes the next make ask for it, and stop.
Prompts(t, v, config) == \E o \in t.numbers \intersect t.known[v] : config[o] # "y"

-----------------------------------------------------------------------------
(* The lists.                                                              *)

DockerConfig == Directives({"NAMESPACES", "PID_NS", "KEYS"}, {})
\* /tmp/ikconfig.config; what enable_tracing adds is not among the options.
CiFragment == Directives({"IKCONFIG", "PSTORE_RAM", "CPU_MASK"}, {"LOCALVERSION_AUTO"})
InfinityxConfig == Directives({"PID_NS"}, {"LOCALVERSION_AUTO"})

PreBuildList    == {"NAMESPACES", "PID_NS", "PSTORE_RAM"}
DEFAULT_REQUIRE == {"NAMESPACES", "PID_NS", "KEYS"}
DEFAULT_FORBID  == {"LLVM_POLLY"}

-----------------------------------------------------------------------------
VARIABLES
  builder,  \* "workflow" or "infinityx"
  request,  \* the inputs, or what is mounted into the container
  tree,
  stage,
  config,   \* .config in the output directory
  image,    \* what make has left there
  shipped   \* the image in the zip, or in $SRC/out

vars == <<builder, request, tree, stage, config, image, shipped>>

Stages == {"stage", "configure", "check", "gate", "build", "verify", "package",
           "copy_back", "success", "failed"}

TypeOK ==
  /\ \/ builder = "workflow" /\ request \in Inputs
     \/ builder = "infinityx" /\ request \in Mounts
  /\ tree \in Trees
  /\ stage \in Stages
  /\ config \in Config
  /\ image \in Image \union {None}
  /\ shipped \in Image \union {None, Old, Torn}
  /\ stage \in {"verify", "package", "copy_back"} => image # None
  /\ stage = "success" => shipped # None

\* run_builder_infinityx.sh mounts /work and takes no tree without these files.
Fingerprint(t) == t.files = {"kernelsu", "susfs", "btf", "bpf_names"}

Init ==
  /\ tree \in Trees
  /\ config = Directives({}, {})
  /\ image = None
  /\ \/ builder = "workflow" /\ request \in Inputs /\ stage = "configure" /\ shipped = None
     \/ /\ builder = "infinityx" /\ request \in Mounts /\ stage = "stage"
        /\ request.wrapped => request.tmpfs /\ Fingerprint(tree)
        /\ shipped \in {None, Old}

At(b, s) == builder = b /\ stage = s
Stop     == stage' = "failed" /\ UNCHANGED <<config, image, shipped>>

-----------------------------------------------------------------------------
(* The workflow.                                                           *)

\* Mutant: the ROM's config is laid over the fragment of the workflow.
ForeignLast ==
  LET base == Merge(olddefconfig(tree, "clang", tree.defconfig), CiFragment)
      docker == IF request.stock_only THEN base ELSE Merge(base, DockerConfig)
  IN IF request.foreign THEN Merge(docker, Foreign) ELSE docker

\* The config of another ROM goes over the tree's own, docker.config over
\* both unless stock_only, the fragment of the workflow over everything.
Merged ==
  LET base == olddefconfig(tree, "clang", tree.defconfig)
      rom  == IF request.foreign THEN Merge(base, Foreign) ELSE base
      docker == IF request.stock_only THEN rom ELSE Merge(rom, DockerConfig)
  IN Merge(docker, CiFragment)

\* sed '/^CONFIG_...=""$/d'
DropEmpty(c) == [o \in Option |-> IF c[o] = "empty" THEN "absent" ELSE c[o]]

Configure ==
  /\ At("workflow", "configure")
  /\ \/ Stop
     \/ /\ config' = olddefconfig(tree, "clang", DropEmpty(Merged))
        /\ stage' = "check"
        /\ UNCHANGED <<image, shipped>>
  /\ UNCHANGED <<builder, request, tree>>

Check ==
  /\ At("workflow", "check")
  /\ LET ok == /\ request.stock_only \/ PreBuildList \subseteq On(config)
               /\ "LLVM_POLLY" \notin On(config)
     IN \/ ok /\ stage' = "build" /\ UNCHANGED <<config, image, shipped>>
        \/ ~ok /\ Stop
  /\ UNCHANGED <<builder, request, tree>>

\* The rule for config_data.gz in the spelling of Sultan's patch is put right
\* before the build.
Neutralised(t) == t.config_data # "respelt"

\* An image with the config c; honest, if it embeds its own.
Compiled(c, honest) ==
  [config   |-> c,
   embedded |-> IF honest THEN c ELSE tree.decoy,
   version  |-> IF honest THEN "same" ELSE tree.decoy_version]

\* Mutant: the build runs with other variables than the configuration did.
HostVars  == "host"
BuildVars == "clang"

\* Image.gz-dtb; if there is no such target, Image.gz with append_dtb behind it.
Build ==
  /\ At("workflow", "build")
  /\ \/ Stop
     \/ /\ ~Prompts(tree, BuildVars, config)
        /\ tree.dtb = "appended" \/ (request.append_dtb /\ tree.dtb = "separate")
        /\ config' = olddefconfig(tree, BuildVars, config)
        /\ image' = Compiled(config', Neutralised(tree))
        /\ stage' = "verify"
        /\ UNCHANGED shipped
  /\ UNCHANGED <<builder, request, tree>>

\* Mutant: any config that the image carries is taken for its own.
AnyVersion(i) == "IKCONFIG" \in On(i.config)

\* extract_config() and decoy_check(): the image carries a config, and its
\* header has the version of the kernel.
Trustworthy(i) == "IKCONFIG" \in On(i.config) /\ i.version = "same"

Verify ==
  /\ At("workflow", "verify")
  /\ LET ok == \/ request.stock_only
               \/ /\ Trustworthy(image)
                  /\ DEFAULT_REQUIRE \subseteq On(image.embedded)
                  /\ DEFAULT_FORBID \intersect On(image.embedded) = {}
     IN \/ ok /\ stage' = "package" /\ UNCHANGED <<config, image, shipped>>
        \/ ~ok /\ Stop
  /\ UNCHANGED <<builder, request, tree>>

Package ==
  /\ At("workflow", "package")
  /\ \/ Stop
     \/ shipped' = image /\ stage' = "success" /\ UNCHANGED <<config, image>>
  /\ UNCHANGED <<builder, request, tree>>

-----------------------------------------------------------------------------
(* The local build.                                                        *)

\* On /work the tree is copied and looked at; in place, out/ is removed.
Stage ==
  /\ At("infinityx", "stage")
  /\ \/ request.tmpfs /\ ~({"kernelsu", "susfs"} \subseteq tree.files) /\ Stop
     \/ /\ request.tmpfs => {"kernelsu", "susfs"} \subseteq tree.files
        /\ shipped' = IF request.tmpfs THEN shipped ELSE None
        /\ stage' = "configure"
        /\ UNCHANGED <<config, image>>
  /\ UNCHANGED <<builder, request, tree>>

\* A comment that begins with "# CONFIG_KSU=y" redefines KSU as that text.
Fragment == IF request.prose THEN [InfinityxConfig EXCEPT !["KSU"] = "empty"]
            ELSE InfinityxConfig

\* Mutant: the fragment is not linted.
NoLint == TRUE

\* Every comment line that merge_config.sh would read is a directive.
Lint == ~request.prose

LocalConfigure ==
  /\ At("infinityx", "configure")
  /\ \/ Stop
     \/ /\ Lint
        /\ config' = olddefconfig(tree, "host", Merge(Running, Fragment))
        /\ stage' = "check"
        /\ UNCHANGED <<image, shipped>>
  /\ UNCHANGED <<builder, request, tree>>

\* Each directive of the fragment, positive or negative, is a line of .config;
\* prose is skipped.
Retained(c) ==
  \A o \in Option : Fragment[o] \in {"y", "n"} => c[o] = Fragment[o]

Retention ==
  /\ At("infinityx", "check")
  /\ \/ Retained(config) /\ stage' = "gate" /\ UNCHANGED <<config, image, shipped>>
     \/ ~Retained(config) /\ Stop
  /\ UNCHANGED <<builder, request, tree>>

BpfGate ==
  /\ At("infinityx", "gate")
  /\ LET ok == {"btf", "bpf_names"} \subseteq tree.files
     IN \/ ok /\ stage' = "build" /\ UNCHANGED <<config, image, shipped>>
        \/ ~ok /\ Stop
  /\ UNCHANGED <<builder, request, tree>>

\* Nothing is done about the rule for config_data.gz here.
LocalMake ==
  /\ At("infinityx", "build")
  /\ \/ Stop
     \/ /\ ~Prompts(tree, "clang", config)
        /\ config' = olddefconfig(tree, "clang", config)
        /\ image' = Compiled(config', tree.config_data = "own")
        /\ stage' = "copy_back"
        /\ shipped' = IF request.tmpfs THEN shipped ELSE image'
  /\ UNCHANGED <<builder, request, tree>>

\* Mutant: the last line does not look.
AlwaysSuccess(i) == "success"

\* "ERROR: no Image.gz produced."
Outcome(i) == IF i = None THEN "failed" ELSE "success"

\* Image.gz is copied in an && list, where a failure goes unnoticed; the copy of
\* .config, which may fail too, is not.  In place both copies are of a file onto
\* itself, which cp refuses.
CopyBack ==
  /\ At("infinityx", "copy_back")
  /\ \/ /\ request.tmpfs
        /\ shipped' \in {image, shipped, Torn}
        /\ stage' \in {Outcome(shipped'), "failed"}
        /\ UNCHANGED <<config, image>>
     \/ ~request.tmpfs /\ Stop
  /\ UNCHANGED <<builder, request, tree>>

Next == \/ Configure \/ Check \/ Build \/ Verify \/ Package
        \/ Stage \/ LocalConfigure \/ Retention \/ BpfGate \/ LocalMake \/ CopyBack

Spec == Init /\ [][Next]_vars

-----------------------------------------------------------------------------
(* Properties.                                                             *)

\* A zip that is not a boot control has every option of both lists, and none of
\* the forbidden ones, in what was compiled, not only in what the image says:
\* "The only source of truth is the config embedded inside the compiled image"
\* (verify_kernel_config.py:12) holds because a decoy is put right or has the
\* version of another kernel.
TellableDecoys ==
  \A t \in Trees : t.config_data = "respelt" => t.decoy_version = "other"
ZipIsVerified ==
  builder = "workflow" /\ shipped # None /\ ~request.stock_only =>
    /\ PreBuildList \union DEFAULT_REQUIRE \subseteq On(shipped.config)
    /\ DEFAULT_FORBID \intersect On(shipped.config) = {}

\* make never resolves to something else than what was checked: in the workflow
\* because both run with the same variables (lines 243-248), in the local build,
\* where they do not, if the options do not depend on them.
SameVars(t) == t.known["host"] = t.known["clang"]
BuildKeepsConfig ==
  [][stage = "build" /\ (builder = "workflow" \/ SameVars(tree)) => config' = config]_vars

\* No build stops to ask for a number, although configs of other ROMs have them
\* empty (build-raphael.yml:438-443) and some trees not at all (454-458), if the
\* fragment and the phone's config have all the numbers there are, and these
\* depend on nothing.
NumbersGiven ==
  \A t \in Trees : \A o \in t.numbers :
    /\ CiFragment[o] = "y" /\ Running[o] = "y"
    /\ t.needs[o] = {} /\ (o \in t.known["clang"] => o \in t.known["host"])
NeverPrompts == stage = "build" => ~Prompts(tree, "clang", config)

\* A local build that ends well and leaves its image has kept root, which only
\* the phone's own config turns on and no check of the fragment would miss
\* (build_kernel_infinityx.sh:118-124), if the options it depends on are there.
RootedPhone == Running["KSU"] = "y" /\ \A t \in Trees : t.needs["KSU"] = {}
KeepsRoot ==
  builder = "infinityx" /\ stage = "success" /\ shipped = image =>
    "KSU" \in On(shipped.config)
=============================================================================
