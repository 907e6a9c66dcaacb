------------------------------- MODULE TestCycle -------------------------------
(***************************************************************************)
(* What a kernel goes through between the tree on the web and a log of its *)
(* boot: the static checks of scripts/preflight.py behind launch_build.sh, *)
(* the clone step and the image of .github/workflows/build-raphael.yml     *)
(* (lines 199-216, 299-305, 423-449, 589-615), with                        *)
(* fix_empty_submodule_kconfig.py; scripts/repack_kameos.sh with           *)
(* want_initramfs.py and unpack_boot.py; preflight_image.py; and the test  *)
(* with `fastboot boot', after which the phone is back in its ROM.         *)
(*                                                                         *)
(* The patches of the build are in PatchPipeline, its options in           *)
(* ImageBuild; here a tree is what the static checks look at.  A command   *)
(* line is a sequence of words, of which the header's field holds Field;   *)
(* mkbootimg puts the others into a second field, and the bootloader       *)
(* passes both to the kernel.                                              *)
(***************************************************************************)
EXTENDS BootImage, Sequences

CONSTANTS
  Trees,      \* kernel trees that may be asked for
  Requests,   \* inputs of the workflow
  Given,      \* boot images from elsewhere
  Stock,      \* the stock boot image of the ROM
  KernelSize, \* of what is built
  Field,      \* words of a command line that fit in the header's field
  MaxCycles   \* bound on the tests on the phone

Quirks == {"FTRACE", "DEBUG_FS", "MODULES", "LLVM_POLLY"}
Config == {"top", "vendor"} \X {"raphael_defconfig", "other"}

\* "undefined": one of the options that the build insists on; "unlisted": another.
Options == {"sampled", "elsewhere", "unlisted", "undefined"}

\* A source line of a Kconfig file: whether its path has a variable, and whose
\* file it names, a submodule's or the tree's own.
Submodules == {"kernelsu", "susfs"}
Source == [owner : Submodules \union {"tree"}, variable : BOOLEAN]

Tree ==
  [listing    : {"whole", "cut", "none"},       \* the answer of git/trees
   options    : Options, pstore : BOOLEAN,      \* docker.config's, and PSTORE_*
   configs    : SUBSET Config,
   quirks     : [Config -> SUBSET Quirks],      \* on in the configuration
   breaks     : SUBSET Quirks,                  \* what it does not compile with
   appended   : BOOLEAN,                        \* has an Image.gz-dtb target
   dts        : {"listed", "gated", "absent"},  \* the dtb to append instead
   objects    : {"sourced", "dangling"},        \* dangling: one without its source
   submodules : SUBSET Submodules,
   sources    : SUBSET Source,
   ramoops    : {"node", "reserved", "neither"}, pshold : BOOLEAN]

\* stock_only: without docker.config.
Request == [defconfig : Config, append_dtb : BOOLEAN, tracing : BOOLEAN, stock_only : BOOLEAN]

\* A packed kernel: the names of its initramfs switch, the device trees behind
\* it and what they have, a ramoops node with the ROM's geometry or another, and
\* the vendor's ramoops_memreserve parameter.
Kernel ==
  [switch : SUBSET {"skip_initramfs", "want_initramfs"}, dtbs : 0..1, warm : BOOLEAN,
   ramoops : {"none", "other", "rom"}, memreserve : BOOLEAN]

Word == {"stock", "memreserve", "verbose", "ktest"}
Words(cmdline) == {cmdline[i] : i \in 1..Len(cmdline)}
BootImg == [header : Header, magic : BOOLEAN, kernel : Kernel, ramdisk : {"stock", "magisk", "garbage"},
            cmdline : Seq(Word), origin : {"built", "given"}]

OwnPaths(t) == \A s \in t.sources : s.owner \in t.submodules \union {"tree"}
ASSUME TreesAssumption == Trees # {} /\ Trees \subseteq {t \in Tree : OwnPaths(t)}
ASSUME RequestsAssumption == Requests # {} /\ Requests \subseteq Request
ASSUME GivenAssumption == \A b \in Given : b \in BootImg /\ b.origin = "given"
ASSUME BoundsAssumption == Field \in Nat /\ MaxCycles \in Nat /\ KernelSize \in Nat
\* "Header fields are KameOS's own (os_version 13.0.0 / patch 2022-11)."
ASSUME StockAssumption ==
  /\ Stock \in BootImg /\ Stock.ramdisk = "stock" /\ WellFormed(Stock.header)
  /\ Stock.header.page = 4096 /\ Stock.header.word = Packed(<<13, 0, 0>>, <<2022, 11>>)
  /\ Stock.header.size["kernel"] > 0 /\ Stock.header.size["ramdisk"] > 0
  /\ "ktest" \notin Words(Stock.cmdline)

-----------------------------------------------------------------------------
(* preflight.py.                                                           *)

\* launch_build.sh passes no defconfig on.
Checked == <<"top", "raphael_defconfig">>
InVendor(c) == <<"vendor", c[2]>>

\* What cannot be fetched is taken for an empty file, and keeps it silent about
\* what is in these two.
Fetched == {"defconfig", ".gitmodules"}

\* A listing that was cut has some of them.
Listed(t) == IF t.listing = "whole" THEN {t.configs} ELSE SUBSET t.configs

Blockers(t, seen) ==
  IF {Checked, InVendor(Checked)} \intersect seen = {} THEN {"defconfig"} ELSE {}

\* The symbols of docker.config that the Kconfig files it samples do not define,
\* and what it finds in files that it fetches by name, whatever the listing has.
OptionWarns(t) == IF t.options = "sampled" THEN {} ELSE {"options"}
SourceWarns(t, lost) ==
  (IF t.submodules = {} \/ ".gitmodules" \in lost THEN {} ELSE {"submodules"})
  \union (IF Checked \in t.configs /\ "defconfig" \notin lost THEN t.quirks[Checked]
          ELSE t.breaks \intersect {"LLVM_POLLY"})
  \union (IF t.pshold THEN {} ELSE {"pshold"})
\* Mutant: whether the tree can append its dtb is not looked at.
NoDtbCheck(t, lost) ==
  (IF t.listing = "cut" THEN {"truncated"} ELSE {}) \union OptionWarns(t)
  \union SourceWarns(t, lost)

Warns(t, lost) ==
  (IF t.listing = "cut" THEN {"truncated"} ELSE {}) \union OptionWarns(t)
  \union (IF t.appended THEN {} ELSE {"appended_dtb"}) \union SourceWarns(t, lost)

\* The notes that say what is not as it should be; of the ramoops node, that the
\* build "falls back to the ramoops_memreserve cmdline path".
Notes(t, seen) ==
  (IF Checked \notin seen /\ InVendor(Checked) \in seen THEN {"defconfig"} ELSE {})
  \union (IF t.objects = "dangling" THEN {"dangling"} ELSE {})
  \union (IF t.ramoops = "node" THEN {} ELSE {"ramoops"})

\* Without a tree it says no more.
Says(t, seen, lost) ==
  IF t.listing = "none"
  THEN [blockers |-> {"tree"}, warns |-> {}, notes |-> {}, lost |-> lost]
  ELSE [blockers |-> Blockers(t, seen), warns |-> Warns(t, lost), notes |-> Notes(t, seen),
        lost |-> lost]

-----------------------------------------------------------------------------
(* The clone and fix_empty_submodule_kconfig.py.                           *)

\* `git submodule update || true' may fail before it has made anything of a
\* submodule, or behind the .git file that it puts there first.
Fetches == {"fetched", "gitfile", "empty"}

\* The file that a line names is there when Kconfig wants it.
Readable(s, f) == s.owner \in Submodules => f[s.owner] = "fetched"
\* ... and its path as it is written, which is what the script can look for.
PathExists(s, f) == ~s.variable /\ Readable(s, f)

empty_submodules(t, f) == {m \in t.submodules : f[m] = "empty"}

\* Mutant: "matching every source() whose literal path was absent".
Broad(t, f) == {s \in t.sources : PathExists(s, f)}

\* The lines that are left.
fix(t, f) ==
  {s \in t.sources : \/ s.variable
                     \/ s.owner \notin empty_submodules(t, f)
                     \/ PathExists(s, f)}

-----------------------------------------------------------------------------
(* want_initramfs.py and repack_kameos.sh.                                 *)

\* Mutant: the dtb behind the gzip stream is put back twice.
DtbTwice(k) ==
  IF "skip_initramfs" \in k.switch
  THEN [k EXCEPT !.switch = {"want_initramfs"}, !.dtbs = 2] ELSE k

\* In place; a kernel with neither name is left as it is, with a warning.
want_initramfs(k) ==
  IF "skip_initramfs" \in k.switch THEN [k EXCEPT !.switch = {"want_initramfs"}] ELSE k

\* The words in the header's field, all that the scripts read back.
InField(cmdline) == SubSeq(cmdline, 1, IF Len(cmdline) < Field THEN Len(cmdline) ELSE Field)

\* QUIET_LOG drops the flags that flood the log.
Verbose(quiet) == CASE quiet = 0 -> <<"verbose", "verbose", "verbose">>
                    [] quiet = 1 -> << >>
                    [] OTHER     -> <<"verbose">>

RepackedWord == Packed(<<13, 0, 0>>, <<2022, 11>>)

\* The ramdisk of unpack_boot.py, or the one that was captured from Magisk.
Unpacked(b) == IF Written(b.header, LooksAt(b.header)) THEN b.ramdisk ELSE "garbage"

Repacked(k, magisk, quiet) ==
  [header  |-> [version |-> 0, page |-> 4096, word |-> RepackedWord,
                size |-> [s \in Sections |->
                            CASE s = "kernel" -> KernelSize
                              [] s = "ramdisk" -> Stock.header.size["ramdisk"]
                              [] OTHER -> 0]],
   magic   |-> TRUE,
   kernel  |-> want_initramfs(k),
   ramdisk |-> IF magisk THEN "magisk" ELSE Unpacked(Stock),
   cmdline |-> InField(Stock.cmdline) \o <<"memreserve">> \o Verbose(quiet) \o <<"ktest">>,
   origin  |-> "built"]

-----------------------------------------------------------------------------
(* preflight_image.py.  Nothing writes the ledger of tested kernels that it *)
(* looks into.  Of a ramoops node it looks for the word only.               *)

\* Mutant: a clean reboot that wipes the log is worth a warning only.
WarmIsWarned(b) ==
  (IF PatchLevelOfLow(b.header.word) = <<2022, 11>> THEN {} ELSE {"patch_level"})
  \union (IF b.kernel.dtbs > 0 THEN {} ELSE {"dtb"})
  \union (IF "ktest" \in Words(InField(b.cmdline)) THEN {} ELSE {"ktest"})

ImageBlockers(b) ==
  IF ~b.magic THEN {"magic"}
  ELSE (IF PatchLevelOfLow(b.header.word) = <<2022, 11>> THEN {} ELSE {"patch_level"})
       \union (IF b.kernel.dtbs > 0 THEN {} ELSE {"dtb"})
       \union (IF "ktest" \in Words(InField(b.cmdline)) THEN {} ELSE {"ktest"})
       \union (IF b.kernel.warm THEN {} ELSE {"warm"})

ImageWarns(b) ==
  (IF "memreserve" \in Words(InField(b.cmdline)) THEN {} ELSE {"memreserve"})
  \union (IF b.kernel.ramoops = "none" THEN {"ramoops"} ELSE {})

-----------------------------------------------------------------------------
VARIABLES
  tree, request,  \* what is asked for
  stage,          \* where it is
  gate,           \* what preflight.py said
  fetch, lines,   \* the clone: its submodules, its Kconfig's source lines
  why,            \* what a build died of
  kernel,         \* Image.gz-dtb
  boot, verdict,  \* the boot image, and what preflight_image.py said
  cycle, outcome, \* tests on the phone, and how the last one ended
  kmsg            \* the test whose log SYSTEM_LAST_KMSG has, or 0

host  == <<tree, request, gate, fetch, lines, why>>
phone == <<cycle, outcome, kmsg>>
vars  == <<host, stage, kernel, boot, verdict, phone>>

NoKernel == [switch |-> {}, dtbs |-> 0, warm |-> FALSE, ramoops |-> "none",
             memreserve |-> FALSE]
Silent   == [blockers |-> {}, warns |-> {}, notes |-> {}, lost |-> {}]

Causes == Quirks \union {"none", "submodules", "pshold", "ramoops", "defconfig", "options",
                         "pstore", "dangling", "appended_dtb"}
Findings == Causes \union {"tree", "truncated", "magic", "patch_level", "dtb", "ktest", "warm",
                           "memreserve"}
Report == [blockers : SUBSET Findings, warns : SUBSET Findings, notes : SUBSET Findings,
           lost : SUBSET Fetched]
Stages == {"preflight", "refused", "clone", "patch", "configure", "build", "died",
           "image", "given", "boot_image", "blocked", "worth", "tested"}

TypeOK ==
  /\ tree \in Tree /\ request \in Requests
  /\ stage \in Stages
  /\ gate \in Report /\ verdict \in Report
  /\ fetch \in [Submodules -> Fetches] /\ lines \subseteq Source
  /\ why \in Causes
  /\ kernel \in Kernel /\ boot \in BootImg
  /\ cycle \in 0..MaxCycles /\ kmsg \in 0..cycle
  /\ outcome \in {"none", "up", "userspace", "panic", "off"}

AnyTree == CHOOSE t \in Trees : TRUE
AnyRequest == CHOOSE r \in Requests : TRUE

\* A kernel of this workflow, or a boot image that somebody has.
Init ==
  /\ \/ stage = "preflight" /\ tree \in Trees /\ request \in Requests
     \/ stage = "given" /\ tree = AnyTree /\ request = AnyRequest
  /\ gate = Silent /\ verdict = Silent
  /\ fetch = [m \in Submodules |-> "empty"] /\ lines = {} /\ why = "none"
  /\ kernel = NoKernel /\ boot = Stock
  /\ cycle = 0 /\ outcome = "none" /\ kmsg = 0

\* launch_build.sh.
Preflight ==
  /\ stage = "preflight"
  /\ \E seen \in Listed(tree), lost \in SUBSET Fetched : gate' = Says(tree, seen, lost)
  /\ \/ stage' = "clone" \* with FORCE=1, if need be
     \/ gate'.blockers # {} /\ stage' = "refused"
  /\ UNCHANGED <<tree, request, fetch, lines, why, kernel, boot, verdict, phone>>

\* ... and the Makefile lines of the objects without a source.
Clone ==
  /\ stage = "clone"
  /\ \E f \in [Submodules -> Fetches] :
       /\ \A m \in Submodules \ tree.submodules : f[m] = "empty"
       /\ fetch' = f /\ lines' = fix(tree, f)
  /\ tree' = [tree EXCEPT !.objects = "sourced"]
  /\ stage' = "patch"
  /\ UNCHANGED <<request, gate, why, kernel, boot, verdict, phone>>

\* A step ends the build for one of the reasons that end it, or that may.
Step(stageNow, fatal, risks, next) ==
  /\ stage = stageNow
  /\ \/ \E c \in fatal \union risks : stage' = "died" /\ why' = c
     \/ fatal = {} /\ stage' = next /\ UNCHANGED why
  /\ UNCHANGED <<tree, request, gate, fetch, lines, boot, verdict, phone>>

\* xiaomi_ramoops.py finds or makes the node and patches every pshold;
\* verify_patches.py wants both (PatchPipeline).
Unverified == (IF tree.ramoops = "neither" THEN {"ramoops"} ELSE {})
              \union (IF tree.pshold THEN {} ELSE {"pshold"})
Patch == Step("patch", Unverified, {}, "configure") /\ UNCHANGED kernel

\* make defconfig reads every Kconfig file.  Of the options that are lost then,
\* those on the list of the pre-build check end the build; docker.config turns
\* LLVM_POLLY off.
Unread == (IF \A s \in lines : Readable(s, fetch) THEN {} ELSE {"submodules"})
          \union (IF request.defconfig \in tree.configs THEN {} ELSE {"defconfig"})
Lost ==
  IF request.stock_only THEN tree.quirks[request.defconfig] \intersect {"LLVM_POLLY"}
  ELSE (IF tree.options = "undefined" THEN {"options"} ELSE {})
       \union (IF tree.pstore THEN {} ELSE {"pstore"})
Unconfigured == IF Unread # {} THEN Unread ELSE Lost
Configure == Step("configure", Unconfigured, {}, "build") /\ UNCHANGED kernel

\* What the build turns on whatever the configuration of the tree has: modules
\* (docker.config) and tracing.
Added(r) == (IF r.stock_only THEN {} ELSE {"MODULES"})
            \union (IF r.tracing THEN {"FTRACE"} ELSE {})
Enabled == (tree.quirks[request.defconfig] \ {"LLVM_POLLY"}) \union Added(request)

\* Without an Image.gz-dtb target the dtb that append_dtb names is built, if need
\* be by its name, and appended.
Appends == tree.appended \/ (request.append_dtb /\ tree.dts # "absent")
Unbuilt ==
  (IF tree.objects = "dangling" /\ request.tracing THEN {"dangling"} ELSE {})
  \union (IF Appends THEN {} ELSE {"appended_dtb"})
Build ==
  /\ Step("build", Unbuilt, tree.breaks \intersect Enabled, "image")
  /\ \/ stage' = "died" /\ UNCHANGED kernel
     \/ /\ stage' = "image"
        /\ \E s \in {{"skip_initramfs"}, {"want_initramfs"}, {}}, m \in BOOLEAN :
             kernel' = [switch |-> s, dtbs |-> 1, warm |-> TRUE, ramoops |-> "rom",
                        memreserve |-> m]

Repack ==
  /\ stage = "image"
  /\ stage' = "boot_image"
  /\ \E magisk \in BOOLEAN, quiet \in 0..2 : boot' = Repacked(kernel, magisk, quiet)
  /\ UNCHANGED <<host, kernel, verdict, phone>>

TakeGiven ==
  /\ stage = "given"
  /\ boot' \in Given
  /\ stage' = "boot_image"
  /\ UNCHANGED <<host, kernel, verdict, phone>>

PreflightImage ==
  /\ stage = "boot_image"
  /\ LET b == ImageBlockers(boot)
     IN /\ verdict' = [blockers |-> b, notes |-> {}, lost |-> {},
                       warns |-> IF b = {"magic"} THEN {} ELSE ImageWarns(boot)]
        /\ stage' = IF b = {} THEN "worth" ELSE "blocked"
  /\ UNCHANGED <<host, kernel, boot, phone>>

\* fastboot boot.  Whatever happens, the ROM comes up next; what a panic or a
\* warm reboot has left in RAM, where the ROM looks for it, becomes its
\* SYSTEM_LAST_KMSG.  A test may also end with the phone off, and nothing in RAM.
FastbootBoot ==
  /\ stage = "worth" /\ cycle < MaxCycles
  /\ cycle' = cycle + 1
  /\ \E o \in {"up", "userspace", "panic", "off"} :
       LET logged == \/ boot.kernel.ramoops = "rom"
                     \/ boot.kernel.memreserve /\ "memreserve" \in Words(boot.cmdline)
       IN /\ outcome' = o
          /\ kmsg' = IF logged /\ (o = "panic" \/ (o # "off" /\ boot.kernel.warm))
                     THEN cycle' ELSE kmsg
  /\ stage' = "tested"
  /\ UNCHANGED <<host, kernel, boot, verdict>>

\* Another image: the same kernel with other flags, or somebody's.
Again ==
  /\ stage \in {"tested", "blocked"} /\ cycle < MaxCycles
  /\ stage' = IF boot.origin = "built" THEN "image" ELSE "given"
  /\ UNCHANGED <<host, kernel, boot, verdict, phone>>

Next == Preflight \/ Clone \/ Patch \/ Configure \/ Build \/ Repack \/ TakeGiven
        \/ PreflightImage \/ FastbootBoot \/ Again

Spec == Init /\ [][Next]_vars

-----------------------------------------------------------------------------
(* Properties.                                                             *)

\* preflight.py has named, before the runner was spent, what a build with the
\* configuration it looks at dies of, also a build that was forced, with a listing
\* that was cut, or with submodules fetched by half.  It cannot name what a file it
\* could not fetch has, nor what it does not look at: PSTORE_*, what docker.config
\* or tracing turns on, and that the build wants a ramoops node.  (A defconfig under
\* vendor/ is only noted; a dangling object is noted too, and never kills.)
ForewarnedDeath ==
  stage = "died" /\ request.defconfig = Checked /\ gate.blockers # {"tree"} /\ gate.lost = {} =>
    \/ why \in gate.blockers \union gate.warns \union (gate.notes \intersect {"defconfig"})
    \/ why \in {"pstore", "ramoops"} \union Added(request)

\* What Kconfig could read before fix_empty_submodule_kconfig.py it still reads,
\* lines with variables included; and what it could not is gone, unless git has
\* left its .git file in the submodule or the path has a variable.
KconfigIntact ==
  stage \in {"patch", "configure", "build"} =>
    /\ \A s \in tree.sources : Readable(s, fetch) => s \in lines
    /\ \A s \in lines : \/ Readable(s, fetch)
                        \/ fetch[s.owner] = "gitfile" \/ s.variable

\* The image that repack_kameos.sh makes of a built kernel: the bytes FBE derives
\* its keys from are those of the stock image for both readers, the ramdisk is the
\* one of the stock image or Magisk's and can be read back, the kernel does not ignore it, and
\* preflight_image.py finds nothing to block but a marker beyond the field.
RepackIsBootable ==
  stage = "boot_image" /\ boot.origin = "built" =>
    /\ OsVersion(boot.header.word) = <<13, 0, 0>>
    /\ PatchLevel(boot.header.word) = PatchLevel(Stock.header.word)
    /\ Unpacked(boot) \in {"stock", "magisk"}
    /\ "skip_initramfs" \notin boot.kernel.switch
    /\ ImageBlockers(boot) \subseteq {"ktest"}
    /\ Len(boot.cmdline) <= Field => ImageBlockers(boot) = {}

\* "if it fails, will it tell us why" (docs/BUILD_PREFLIGHT.md:28): after a test
\* that ended in a reboot the log the ROM shows is that test's, not an earlier
\* one's, and the marker reached the kernel; for every built image, and for every
\* other that preflight_image.py lets through and that logs where the ROM looks.
FailureIsTold ==
  stage = "tested" /\ outcome \in {"userspace", "panic"}
      /\ (boot.origin = "built" \/ boot.kernel.ramoops = "rom") =>
    kmsg = cycle /\ "ktest" \in Words(boot.cmdline)
==============================================================================
