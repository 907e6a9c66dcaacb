-------------------------- MODULE ImageBuild_proofs --------------------------
(***************************************************************************)
(* For every set of trees and all configs: what was checked is what is     *)
(* compiled, and what is in the zip.                                       *)
(***************************************************************************)
EXTENDS ImageBuild, TLAPS

-----------------------------------------------------------------------------
(* Kconfig.                                                                *)

\* The options that are on are closed: each has what it depends on.
LEMMA ResolvedIsClosed ==
  ASSUME NEW t, NEW v, NEW c
  PROVE  /\ Resolved(t, v, c) \subseteq Wanted(t, c)
         /\ Closed(t, v, Resolved(t, v, c))
  <1>1. Resolved(t, v, c) \subseteq Wanted(t, c)
    BY DEF Resolved
  <1>2. ASSUME NEW o \in Resolved(t, v, c)
        PROVE  o \in t.known[v] /\ t.needs[o] \subseteq Resolved(t, v, c)
    <2>1. PICK S \in SUBSET Wanted(t, c) : Closed(t, v, S) /\ o \in S
      BY DEF Resolved
    <2>2. S \subseteq Resolved(t, v, c)
      BY <2>1 DEF Resolved
    <2> QED
      BY <2>1, <2>2 DEF Closed
  <1> QED
    BY <1>1, <1>2 DEF Closed

LEMMA OlddefconfigType ==
  ASSUME NEW t, NEW v, NEW c
  PROVE  /\ olddefconfig(t, v, c) \in Config
         /\ On(olddefconfig(t, v, c)) = Resolved(t, v, c) \intersect Option
  BY DEF olddefconfig, Config, On

LEMMA ResolvedOptions ==
  ASSUME NEW t \in Tree, NEW v, NEW c
  PROVE  Resolved(t, v, c) \subseteq Option
  <1>1. t.default \subseteq Option
    BY DEF Tree
  <1>2. Wanted(t, c) \subseteq Option
    BY <1>1 DEF Wanted, On
  <1> QED
    BY <1>2, ResolvedIsClosed

\* A config that Kconfig has resolved is left as it is when it is resolved again
\* with the same variables.  An option that is off in it and wanted by default
\* depends on one that is off too; of those that are off one does not.
LEMMA Settled ==
  ASSUME NEW t \in Trees, NEW v, NEW c
  PROVE  olddefconfig(t, v, olddefconfig(t, v, c)) = olddefconfig(t, v, c)
  <1> DEFINE d == olddefconfig(t, v, c)
             R == Resolved(t, v, c)
             S == Resolved(t, v, d) \ R
  <1>0. t \in Tree /\ Acyclic(t) /\ t.default \intersect t.numbers = {}
    BY TreesAssumption
  <1>1. Closed(t, v, R) /\ R \subseteq Option
    BY <1>0, ResolvedIsClosed, ResolvedOptions
  <1>2. On(d) = R
    BY <1>1, OlddefconfigType
  <1>3. R \subseteq Wanted(t, d)
    BY <1>2 DEF Wanted
  <1>4. R \subseteq Resolved(t, v, d)
    BY <1>1, <1>3 DEF Resolved
  <1>5. S = {}
    <2>1. SUFFICES ASSUME S # {} PROVE FALSE
      OBVIOUS
    <2>2. S \subseteq Option
      BY <1>0, ResolvedOptions
    <2>3. PICK o \in S : t.needs[o] \intersect S = {}
      BY <1>0, <2>1, <2>2 DEF Acyclic
    <2>4. o \in t.known[v] /\ t.needs[o] \subseteq Resolved(t, v, d)
      BY <2>3, ResolvedIsClosed DEF Closed
    <2>5. t.needs[o] \subseteq R
      BY <2>3, <2>4
    <2>6. o \in t.default /\ d[o] \in {"empty", "absent"}
      <3>1. o \in Wanted(t, d)
        BY <2>3, ResolvedIsClosed
      <3> QED
        BY <3>1, <2>3, <1>2 DEF Wanted
    <2>7. d[o] = "n"
      <3>1. o \in Option /\ o \notin R /\ o \in t.known[v] \ t.numbers
        BY <1>0, <2>2, <2>3, <2>4, <2>6
      <3> HIDE DEF R
      <3> QED
        BY <3>1, <2>5 DEF olddefconfig, R
    <2> QED
      BY <2>6, <2>7
  <1>6. Resolved(t, v, d) = R
    BY <1>4, <1>5
  <1> QED
    BY <1>6 DEF olddefconfig

LEMMA ConfigTypes ==
  /\ Directives({}, {}) \in Config
  /\ \A t \in Trees : t.decoy \in Config /\ t.decoy_version \in {"same", "other"}
  <1>1. Directives({}, {}) \in Config
    BY DEF Directives, Config
  <1> QED
    BY <1>1, TreesAssumption DEF Tree

LEMMA CompiledType ==
  ASSUME tree \in Trees, NEW c \in Config, NEW honest \in BOOLEAN
  PROVE  Compiled(c, honest) \in Image
  BY ConfigTypes DEF Compiled, Image

-----------------------------------------------------------------------------
(* Types.                                                                  *)

LEMMA TypeStep == TypeOK /\ [Next]_vars => TypeOK'
  <1> SUFFICES ASSUME TypeOK, [Next]_vars PROVE TypeOK'
    OBVIOUS
  <1> USE DEF TypeOK, Stages, At, Stop
  <1>1. CASE Configure
    <2>1. config' \in Config
      BY <1>1, OlddefconfigType DEF Configure
    <2> QED
      BY <1>1, <2>1 DEF Configure
  <1>2. CASE Check
    BY <1>2 DEF Check
  <1>3. CASE Build
    <2>1. config' \in Config
      BY <1>3, OlddefconfigType DEF Build
    <2>2. stage' # "failed" => image' \in Image
      BY <1>3, <2>1, CompiledType DEF Build, Neutralised
    <2> QED
      BY <1>3, <2>1, <2>2, MarksAssumption DEF Build
  <1>4. CASE Verify
    BY <1>4 DEF Verify
  <1>5. CASE Package
    BY <1>5 DEF Package
  <1>6. CASE Stage
    BY <1>6 DEF Stage
  <1>7. CASE LocalConfigure
    <2>1. config' \in Config
      BY <1>7, OlddefconfigType DEF LocalConfigure
    <2> QED
      BY <1>7, <2>1 DEF LocalConfigure
  <1>8. CASE Retention
    BY <1>8 DEF Retention
  <1>9. CASE BpfGate
    BY <1>9 DEF BpfGate
  <1>10. CASE LocalMake
    <2>1. config' \in Config
      BY <1>10, OlddefconfigType DEF LocalMake
    <2>2. stage' # "failed" => image' \in Image
      BY <1>10, <2>1, CompiledType DEF LocalMake
    <2> QED
      BY <1>10, <2>1, <2>2, MarksAssumption DEF LocalMake
  <1>11. CASE CopyBack
    BY <1>11 DEF CopyBack, Outcome
  <1>12. CASE UNCHANGED vars
    BY <1>12 DEF vars
  <1> QED
    BY <1>1, <1>2, <1>3, <1>4, <1>5, <1>6, <1>7, <1>8, <1>9, <1>10, <1>11, <1>12 DEF Next

\* Every variable keeps its type; a build that has come to copying or packaging
\* has an image, and one that ends well has left one (the last lines of
\* build_kernel_infinityx.sh).
THEOREM TypeCorrect == Spec => []TypeOK
  <1>1. Init => TypeOK
    BY ConfigTypes DEF Init, TypeOK, Stages
  <1> QED
    BY <1>1, TypeStep, PTL DEF Spec

-----------------------------------------------------------------------------
(* What was checked is what is compiled.                                   *)

\* The variables of the configuration.
VarsOf == IF builder = "workflow" THEN "clang" ELSE "host"
SettledConfig ==
  stage \in {"check", "gate", "build"} => config = olddefconfig(tree, VarsOf, config)

LEMMA SettledStep == TypeOK /\ SettledConfig /\ [Next]_vars => SettledConfig'
  <1> SUFFICES ASSUME TypeOK, SettledConfig, [Next]_vars PROVE SettledConfig'
    OBVIOUS
  <1> USE DEF SettledConfig, At, Stop
  <1>0. tree \in Trees
    BY DEF TypeOK
  <1>1. CASE Configure
    BY <1>0, <1>1, Settled DEF Configure, VarsOf
  <1>2. CASE LocalConfigure
    BY <1>0, <1>2, Settled DEF LocalConfigure, VarsOf
  <1>3. CASE Check \/ Retention \/ BpfGate
    BY <1>3 DEF Check, Retention, BpfGate, VarsOf
  <1>4. CASE Build \/ Verify \/ Package \/ Stage \/ LocalMake \/ CopyBack
    <2>1. stage' \notin {"check", "gate", "build"}
      BY <1>4 DEF Build, Verify, Package, Stage, LocalMake, CopyBack, Outcome
    <2> QED
      BY <2>1
  <1>5. CASE UNCHANGED vars
    BY <1>5 DEF vars, VarsOf
  <1> QED
    BY <1>1, <1>2, <1>3, <1>4, <1>5 DEF Next

LEMMA SettledAlways == Spec => [](TypeOK /\ SettledConfig)
  <1>1. Init => SettledConfig
    BY DEF Init, SettledConfig
  <1> QED
    BY <1>1, TypeCorrect, SettledStep, PTL DEF Spec

\* The workflow's make compiles exactly the config that was checked, and that of
\* the local build too where its two makes know the same options
\* (build-raphael.yml:243-248).
THEOREM CheckedIsCompiled == Spec => BuildKeepsConfig
  <1> DEFINE A == stage = "build" /\ (builder = "workflow" \/ SameVars(tree))
                    => config' = config
  <1>1. TypeOK /\ SettledConfig /\ [Next]_vars => [A]_vars
    <2> SUFFICES ASSUME TypeOK, SettledConfig, [Next]_vars, stage = "build",
                        builder = "workflow" \/ SameVars(tree)
                 PROVE  config' = config \/ UNCHANGED vars
      OBVIOUS
    <2>1. config = olddefconfig(tree, VarsOf, config)
      BY DEF SettledConfig
    <2>2. olddefconfig(tree, VarsOf, config) = olddefconfig(tree, "clang", config)
      BY DEF VarsOf, SameVars, olddefconfig, Resolved, Closed
    <2>3. config = olddefconfig(tree, "clang", config)
      BY <2>1, <2>2
    <2>4. CASE Build
      BY <2>3, <2>4 DEF Build, BuildVars, Stop
    <2>5. CASE LocalMake
      BY <2>3, <2>5 DEF LocalMake, Stop
    <2> QED
      BY <2>4, <2>5 DEF Next, Configure, Check, Verify, Package, Stage,
           LocalConfigure, Retention, BpfGate, CopyBack, At
  <1> QED
    BY <1>1, SettledAlways, PTL DEF Spec, BuildKeepsConfig

-----------------------------------------------------------------------------
(* What is in the zip.                                                     *)

Control == request.stock_only

PassesCheck(c) == PreBuildList \subseteq On(c) /\ "LLVM_POLLY" \notin On(c)

\* Before the build, after it, and after the authoritative check.
Checked ==
  builder = "workflow" =>
    /\ stage = "build" /\ ~Control => PassesCheck(config)
    /\ stage \in {"verify", "package", "success"} =>
         /\ ~Control => PassesCheck(image.config)
         /\ image.version = "same" => image.embedded = image.config
    /\ stage \in {"package", "success"} /\ ~Control =>
         DEFAULT_REQUIRE \subseteq On(image.config)
    /\ shipped = None \/ (stage = "success" /\ shipped = image)

LEMMA CompiledHonestly ==
  ASSUME TellableDecoys, tree \in Trees, NEW c
  PROVE  LET i == Compiled(c, Neutralised(tree))
         IN i.config = c /\ (i.version = "same" => i.embedded = i.config)
  <1>1. tree.config_data \in {"own", "decoy", "respelt"}
    BY TreesAssumption DEF Tree
  <1> QED
    BY <1>1 DEF Compiled, Neutralised, TellableDecoys

LEMMA CheckedStep ==
  ASSUME TellableDecoys
  PROVE  TypeOK /\ SettledConfig /\ Checked /\ [Next]_vars => Checked'
  <1> SUFFICES ASSUME TypeOK, SettledConfig, Checked, [Next]_vars PROVE Checked'
    OBVIOUS
  <1> USE DEF Checked, Control, At, Stop
  <1>1. CASE Configure
    BY <1>1 DEF Configure
  <1>2. CASE Check
    BY <1>2 DEF Check, PassesCheck
  <1>3. CASE Build
    <2>1. CASE stage' = "verify"
      <3>1. config' = config
        BY <1>3, <2>1 DEF Build, BuildVars, SettledConfig, VarsOf
      <3>2. tree \in Trees /\ image' = Compiled(config, Neutralised(tree))
        BY <1>3, <2>1, <3>1 DEF Build, TypeOK
      <3>3. image'.config = config /\ (image'.version = "same" => image'.embedded = image'.config)
        BY <3>2, CompiledHonestly
      <3> HIDE DEF PassesCheck
      <3> QED
        BY <1>3, <2>1, <3>3 DEF Build
    <2>2. CASE stage' # "verify"
      BY <1>3, <2>2 DEF Build
    <2> QED
      BY <2>1, <2>2
  <1>4. CASE Verify
    BY <1>4 DEF Verify, Trustworthy
  <1>5. CASE Package
    BY <1>5 DEF Package
  <1>6. CASE Stage \/ LocalConfigure \/ Retention \/ BpfGate \/ LocalMake \/ CopyBack
    <2>1. builder' = "infinityx"
      BY <1>6 DEF Stage, LocalConfigure, Retention, BpfGate, LocalMake, CopyBack
    <2> QED
      BY <2>1
  <1>7. CASE UNCHANGED vars
    BY <1>7 DEF vars
  <1> QED
    BY <1>1, <1>2, <1>3, <1>4, <1>5, <1>6, <1>7 DEF Next

\* Every zip of the workflow that is not a boot control has the options of both
\* lists compiled in and none of the forbidden ones, whatever the tree says of
\* its config, if no decoy that escapes the sed has the version of its kernel
\* (build-raphael.yml:547-633, verify_kernel_config.py).
THEOREM ZipsAreVerified == TellableDecoys => (Spec => []ZipIsVerified)
  <1> SUFFICES ASSUME TellableDecoys PROVE Spec => []ZipIsVerified
    OBVIOUS
  <1>1. Init => Checked
    BY DEF Init, Checked
  <1>2. Checked => ZipIsVerified
    BY DEF Checked, Control, PassesCheck, ZipIsVerified, DEFAULT_FORBID
  <1>3. TypeOK /\ SettledConfig /\ Checked /\ [Next]_vars => Checked'
    BY CheckedStep
  <1> QED
    BY <1>1, <1>2, <1>3, SettledAlways, PTL DEF Spec

-----------------------------------------------------------------------------
(* Root.                                                                   *)

\* What nothing turns off and what depends on nothing stays on.
LEMMA KsuResolves ==
  ASSUME NEW t \in Trees, NEW v \in Vars, NEW c, c["KSU"] = "y",
         t.needs["KSU"] = {}, "kernelsu" \in t.files
  PROVE  "KSU" \in On(olddefconfig(t, v, c))
  <1>1. "KSU" \in Option /\ "KSU" \in t.known[v]
    BY TreesAssumption DEF Option
  <1>2. {"KSU"} \subseteq Wanted(t, c)
    BY <1>1 DEF Wanted, On
  <1>3. Closed(t, v, {"KSU"})
    BY <1>1 DEF Closed
  <1>4. "KSU" \in Resolved(t, v, c)
    BY <1>2, <1>3 DEF Resolved
  <1> QED
    BY <1>1, <1>4, OlddefconfigType

\* Along the way: the config, the image, and that only a staged tree gets to the
\* end.
Rooted(c) == "kernelsu" \in tree.files => "KSU" \in On(c)
RootKept ==
  builder = "infinityx" =>
    /\ stage \in {"check", "gate", "build"} => Rooted(config)
    /\ stage \in {"copy_back", "success"} => Rooted(image.config)
    /\ stage = "success" => request.tmpfs
    /\ request.tmpfs /\ stage \notin {"stage", "failed"} => "kernelsu" \in tree.files

LEMMA RootStep ==
  ASSUME RootedPhone
  PROVE  TypeOK /\ RootKept /\ [Next]_vars => RootKept'
  <1> SUFFICES ASSUME TypeOK, RootKept, [Next]_vars PROVE RootKept'
    OBVIOUS
  <1> USE DEF RootKept, At, Stop
  <1>0. tree \in Trees /\ tree.needs["KSU"] = {} /\ Running["KSU"] = "y"
    BY DEF TypeOK, RootedPhone
  <1>1. CASE Stage
    BY <1>1 DEF Stage
  <1>2. CASE LocalConfigure
    <2>1. CASE stage' = "check"
      <3>1. Fragment["KSU"] = "absent"
        BY <1>2, <2>1 DEF LocalConfigure, Lint, Fragment, InfinityxConfig, Directives, Option
      <3>2. Merge(Running, Fragment)["KSU"] = "y"
        BY <1>0, <3>1 DEF Merge, Option
      <3>3. Rooted(config')
        BY <1>0, <1>2, <2>1, <3>2, KsuResolves DEF LocalConfigure, Rooted, Vars
      <3> QED
        BY <1>2, <2>1, <3>3 DEF LocalConfigure, Rooted
    <2>2. CASE stage' # "check"
      BY <1>2, <2>2 DEF LocalConfigure
    <2> QED
      BY <2>1, <2>2
  <1>3. CASE Retention
    BY <1>3 DEF Retention, Rooted
  <1>4. CASE BpfGate
    BY <1>4 DEF BpfGate, Rooted
  <1>5. CASE LocalMake
    <2>1. CASE stage' = "copy_back"
      <3>1. Rooted(config) /\ config' = olddefconfig(tree, "clang", config)
        BY <1>5, <2>1 DEF LocalMake
      <3>2. image'.config = config'
        BY <1>5, <2>1 DEF LocalMake, Compiled
      <3>3. Rooted(config')
        BY <1>0, <3>1, KsuResolves DEF Rooted, On, Vars
      <3> QED
        BY <1>5, <2>1, <3>2, <3>3 DEF LocalMake, Rooted
    <2>2. CASE stage' # "copy_back"
      BY <1>5, <2>2 DEF LocalMake
    <2> QED
      BY <2>1, <2>2
  <1>6. CASE CopyBack
    BY <1>6 DEF CopyBack, Outcome, Rooted
  <1>7. CASE Configure \/ Check \/ Build \/ Verify \/ Package
    <2>1. builder' = "workflow"
      BY <1>7 DEF Configure, Check, Build, Verify, Package
    <2> QED
      BY <2>1
  <1>8. CASE UNCHANGED vars
    BY <1>8 DEF vars, Rooted
  <1> QED
    BY <1>1, <1>2, <1>3, <1>4, <1>5, <1>6, <1>7, <1>8 DEF Next

\* A local build that ends well with its own image has root in it, on every tree
\* where the option depends on nothing, thanks to the lint of the fragment and
\* the look at drivers/kernelsu (build_kernel_infinityx.sh:51-54 and 118-134).
THEOREM RootIsKept == RootedPhone => (Spec => []KeepsRoot)
  <1> SUFFICES ASSUME RootedPhone PROVE Spec => []KeepsRoot
    OBVIOUS
  <1>1. Init => RootKept
    BY DEF Init, RootKept
  <1>2. RootKept => KeepsRoot
    BY DEF RootKept, KeepsRoot, Rooted
  <1>3. TypeOK /\ RootKept /\ [Next]_vars => RootKept'
    BY RootStep
  <1> QED
    BY <1>1, <1>2, <1>3, TypeCorrect, PTL DEF Spec

-----------------------------------------------------------------------------
(* The numbers.                                                            *)

LEMMA NumberResolves ==
  ASSUME NEW t \in Trees, NEW v, NEW c, NEW o \in Option, c[o] = "y",
         t.needs[o] = {}, o \in t.known[v]
  PROVE  olddefconfig(t, v, c)[o] = "y"
  <1>1. {o} \subseteq Wanted(t, c)
    BY DEF Wanted, On
  <1>2. Closed(t, v, {o})
    BY DEF Closed
  <1>3. o \in Resolved(t, v, c)
    BY <1>1, <1>2 DEF Resolved
  <1> QED
    BY <1>3 DEF olddefconfig

\* From its configuration to its build no number is missing.
Answered ==
  stage \in {"check", "gate", "build"} =>
    \A o \in tree.numbers \intersect tree.known["clang"] : config[o] = "y"

\* What the workflow's fragment says is what Kconfig is asked for, whatever the
\* ROM's config has there.
LEMMA FragmentIsLast ==
  ASSUME NEW o \in Option, CiFragment[o] = "y"
  PROVE  DropEmpty(Merged)[o] = "y"
  <1>1. \A base : Merge(base, CiFragment)[o] = "y"
    BY DEF Merge
  <1>2. Merged[o] = "y"
    BY <1>1 DEF Merged
  <1> QED
    BY <1>2 DEF DropEmpty

\* The fragment of the local build gives no number, and takes none away unless
\* the lint stops it.
LEMMA PhoneAnswers ==
  ASSUME NEW o \in Option, CiFragment[o] = "y", Running[o] = "y", Lint
  PROVE  Merge(Running, Fragment)[o] = "y"
  <1>1. o \in {"IKCONFIG", "PSTORE_RAM", "CPU_MASK"}
    BY DEF CiFragment, Directives
  <1>2. Fragment = InfinityxConfig
    BY DEF Lint, Fragment
  <1>3. InfinityxConfig[o] = "absent"
    BY <1>1 DEF InfinityxConfig, Directives
  <1> QED
    BY <1>2, <1>3 DEF Merge

LEMMA AnsweredStep ==
  ASSUME NumbersGiven
  PROVE  TypeOK /\ Answered /\ [Next]_vars => Answered'
  <1> SUFFICES ASSUME TypeOK, Answered, [Next]_vars PROVE Answered'
    OBVIOUS
  <1> USE DEF Answered, At, Stop
  <1>0. /\ tree \in Trees
        /\ \A o \in tree.numbers \intersect tree.known["clang"] :
             /\ o \in Option /\ CiFragment[o] = "y" /\ Running[o] = "y"
             /\ tree.needs[o] = {} /\ o \in tree.known["host"]
    BY TreesAssumption DEF TypeOK, NumbersGiven, Tree
  <1>1. CASE Configure
    <2>1. CASE stage' = "check"
      <3>1. tree' = tree /\ config' = olddefconfig(tree, "clang", DropEmpty(Merged))
        BY <1>1, <2>1 DEF Configure
      <3>2. ASSUME NEW o \in tree.numbers \intersect tree.known["clang"] PROVE config'[o] = "y"
        BY <1>0, <3>1, FragmentIsLast, NumberResolves
      <3> QED
        BY <3>1, <3>2
    <2>2. CASE stage' # "check"
      BY <1>1, <2>2 DEF Configure
    <2> QED
      BY <2>1, <2>2
  <1>2. CASE LocalConfigure
    <2>1. CASE stage' = "check"
      <3>1. tree' = tree /\ Lint /\ config' = olddefconfig(tree, "host", Merge(Running, Fragment))
        BY <1>2, <2>1 DEF LocalConfigure
      <3>2. ASSUME NEW o \in tree.numbers \intersect tree.known["clang"] PROVE config'[o] = "y"
        BY <1>0, <3>1, PhoneAnswers, NumberResolves
      <3> QED
        BY <3>1, <3>2
    <2>2. CASE stage' # "check"
      BY <1>2, <2>2 DEF LocalConfigure
    <2> QED
      BY <2>1, <2>2
  <1>3. CASE Check \/ Retention \/ BpfGate
    BY <1>3 DEF Check, Retention, BpfGate
  <1>4. CASE Build \/ Verify \/ Package \/ Stage \/ LocalMake \/ CopyBack
    <2>1. stage' \notin {"check", "gate", "build"}
      BY <1>4 DEF Build, Verify, Package, Stage, LocalMake, CopyBack, Outcome
    <2> QED
      BY <2>1
  <1>5. CASE UNCHANGED vars
    BY <1>5 DEF vars
  <1> QED
    BY <1>1, <1>2, <1>3, <1>4, <1>5 DEF Next

\* No make has a number to ask for, neither the workflow's, over whose ROM config
\* the fragment is laid last, nor the local one, whose fragment cannot take a number
\* away: a directive in its prose is found by the lint (build-raphael.yml:438-458,
\* build_kernel_infinityx.sh:118-134).
THEOREM NumbersAreGiven == NumbersGiven => (Spec => []NeverPrompts)
  <1> SUFFICES ASSUME NumbersGiven PROVE Spec => []NeverPrompts
    OBVIOUS
  <1>1. Init => Answered
    BY DEF Init, Answered
  <1>2. Answered => NeverPrompts
    BY DEF Answered, NeverPrompts, Prompts
  <1>3. TypeOK /\ Answered /\ [Next]_vars => Answered'
    BY AnsweredStep
  <1> QED
    BY <1>1, <1>2, <1>3, TypeCorrect, PTL DEF Spec

=============================================================================
