--------------------------- MODULE TestCycle_proofs ---------------------------
(* Proofs about BootImage and TestCycle.                                    *)
EXTENDS TestCycle, TLAPS

\* Align rounds up to a whole number of pages.
LEMMA AlignRoundsUp ==
  ASSUME NEW size \in Nat, NEW page \in Nat \ {0}
  PROVE  \E k \in Nat : /\ Align(size, page) = k * page
                        /\ size <= k * page /\ k * page < size + page
<1> DEFINE k == (size + page - 1) \div page
           r == (size + page - 1) % page
<1>1. size + page - 1 \in Nat
  OBVIOUS
<1>2. k \in Int /\ r \in 0..(page - 1) /\ size + page - 1 = k * page + r
  BY <1>1
<1>3. k \in Nat
  BY <1>1, <1>2
<1>4. size <= k * page /\ k * page < size + page
  BY <1>2
<1> QED
  BY <1>3, <1>4 DEF Align

LEMMA LowBits ==
  ASSUME NEW word \in Nat
  PROVE  PatchLevelOfLow(word) = PatchLevel(word)
  BY DEF PatchLevelOfLow, PatchLevel

LEMMA WholePages ==
  ASSUME NEW k \in Nat, NEW page \in Nat \ {0}
  PROVE  (k * page) % page = 0
  OBVIOUS

\* A section behind a page boundary ends before the next one, which is on the
\* first boundary there is.
LEMMA NextSection ==
  ASSUME NEW j \in Nat, NEW size \in Nat, NEW page \in Nat \ {0}
  PROVE  \E k \in Nat : /\ j * page + Align(size, page) = k * page
                        /\ FirstPageBehind(j * page, size, page, k * page)
<1>1. PICK k \in Nat : /\ Align(size, page) = k * page
                       /\ size <= k * page /\ k * page < size + page
  BY AlignRoundsUp
<1>2. (j + k) * page = j * page + k * page
  OBVIOUS
<1>3. ((j + k) * page) % page = 0
  BY WholePages, j + k \in Nat
<1>4. j * page + size <= (j + k) * page /\ (j + k) * page < j * page + size + page
  BY <1>1, <1>2
<1>5. j * page + Align(size, page) = (j + k) * page
  BY <1>1, <1>2
<1> QED
  BY <1>3, <1>4, <1>5, j + k \in Nat DEF FirstPageBehind

LEMMA Offsets ==
  ASSUME NEW h \in Header, WellFormed(h)
  PROVE  Written(h, LooksAt(h))
<1> DEFINE at == LooksAt(h)
           size == h.size
           page == h.page
<1>1. /\ page \in Nat \ {0} /\ SizeRead(h) = size
      /\ size["kernel"] \in Nat /\ size["ramdisk"] \in Nat /\ size["second"] \in Nat
      /\ size["dtbo"] \in Nat
  BY DEF Header, WellFormed, Sections
<1>2. /\ at["kernel"]  = page
      /\ at["ramdisk"] = at["kernel"]  + Align(size["kernel"], page)
      /\ at["second"]  = at["ramdisk"] + Align(size["ramdisk"], page)
      /\ at["dtbo"]    = at["second"]  + Align(size["second"], page)
      /\ at["dtb"]     = at["dtbo"]    + Align(size["dtbo"], page)
  BY <1>1 DEF LooksAt, KernelAt, RamdiskAt, SecondAt, DtboAt, DtbAt
<1> HIDE DEF at, size, page
<1>3. at["kernel"] = 1 * page
  BY <1>1, <1>2
<1>4. PICK k \in Nat : /\ at["ramdisk"] = k * page
                       /\ FirstPageBehind(at["kernel"], size["kernel"], page, at["ramdisk"])
  <2>1. \E n \in Nat : /\ 1 * page + Align(size["kernel"], page) = n * page
                       /\ FirstPageBehind(1 * page, size["kernel"], page, n * page)
    BY <1>1, NextSection
  <2> QED
    BY <2>1, <1>2, <1>3
<1>5. PICK r \in Nat : /\ at["second"] = r * page
                       /\ FirstPageBehind(at["ramdisk"], size["ramdisk"], page, at["second"])
  <2>1. \E n \in Nat : /\ k * page + Align(size["ramdisk"], page) = n * page
                       /\ FirstPageBehind(k * page, size["ramdisk"], page, n * page)
    BY <1>1, NextSection
  <2> QED
    BY <2>1, <1>2, <1>4
<1>6. PICK s \in Nat : /\ at["dtbo"] = s * page
                       /\ FirstPageBehind(at["second"], size["second"], page, at["dtbo"])
  <2>1. \E n \in Nat : /\ r * page + Align(size["second"], page) = n * page
                       /\ FirstPageBehind(r * page, size["second"], page, n * page)
    BY <1>1, NextSection
  <2> QED
    BY <2>1, <1>2, <1>5
<1>7. PICK t \in Nat : /\ at["dtb"] = t * page
                       /\ FirstPageBehind(at["dtbo"], size["dtbo"], page, at["dtb"])
  <2>1. \E n \in Nat : /\ s * page + Align(size["dtbo"], page) = n * page
                       /\ FirstPageBehind(s * page, size["dtbo"], page, n * page)
    BY <1>1, NextSection
  <2> QED
    BY <2>1, <1>2, <1>6
<1>8. /\ at["kernel"] = h.page
      /\ \A x \in Sections \ {"kernel"} :
           FirstPageBehind(at[Before[x]], h.size[Before[x]], h.page, at[x])
  BY <1>2, <1>4, <1>5, <1>6, <1>7 DEF Sections, Before, size, page
<1> QED
  BY <1>8 DEF at, Written

\* unpack_boot.py looks for every section where mkbootimg.py has written it,
\* whatever the sizes, the page size and the version of the header.
THEOREM ReadsWhatWasWritten ==
  \A h \in Header : WellFormed(h) => Written(h, LooksAt(h))
  BY Offsets

LEMMA WordRead ==
  ASSUME NEW a \in 0..127, NEW b \in 0..127, NEW c \in 0..127,
         NEW year \in 2000..2127, NEW month \in 0..15
  PROVE  /\ OsVersion(Packed(<<a, b, c>>, <<year, month>>)) = <<a, b, c>>
         /\ PatchLevel(Packed(<<a, b, c>>, <<year, month>>)) = <<year, month>>
         /\ PatchLevelOfLow(Packed(<<a, b, c>>, <<year, month>>)) = <<year, month>>
<1> DEFINE word == ((a * 128 + b) * 128 + c) * 2048 + (year - 2000) * 16 + month
<1>1. word \div 33554432 = a /\ word \div 262144 = a * 128 + b
  OBVIOUS
<1>2. word \div 2048 = (a * 128 + b) * 128 + c
  OBVIOUS
<1>3. word \div 16 = ((a * 128 + b) * 128 + c) * 128 + (year - 2000) /\ word % 16 = month
  OBVIOUS
<1>4. OsVersion(word) = <<a, b, c>> /\ PatchLevel(word) = <<year, month>>
  BY <1>1, <1>2, <1>3 DEF OsVersion, PatchLevel
<1>5. PatchLevelOfLow(word) = PatchLevel(word)
  BY LowBits, word \in Nat
<1>6. Packed(<<a, b, c>>, <<year, month>>) = word
  BY DEF Packed
<1> HIDE DEF word
<1> QED
  BY <1>4, <1>5, <1>6

\* The word of the header survives being read: unpack_boot.py recovers the version
\* and the patch level, and preflight_image.py the same patch level.
THEOREM WordIsRead ==
  \A a, b, c \in 0..127, year \in 2000..2127, month \in 0..15 :
    LET word == Packed(<<a, b, c>>, <<year, month>>)
    IN /\ OsVersion(word) = <<a, b, c>>
       /\ PatchLevel(word) = <<year, month>>
       /\ PatchLevelOfLow(word) = <<year, month>>
  BY WordRead

-----------------------------------------------------------------------------
(* TestCycle.                                                               *)

USE TreesAssumption, RequestsAssumption, GivenAssumption, BoundsAssumption, StockAssumption

LEMMA Extracted == Unpacked(Stock) = "stock"
  BY Offsets DEF Unpacked, BootImg

LEMMA InFieldType ==
  ASSUME NEW c \in Seq(Word)
  PROVE  InField(c) \in Seq(Word)
  BY DEF InField

LEMMA RepackedType ==
  ASSUME NEW k \in Kernel, NEW magisk \in BOOLEAN, NEW quiet \in 0..2
  PROVE  Repacked(k, magisk, quiet) \in BootImg
<1>1. Repacked(k, magisk, quiet).header \in Header
  <2>1. RepackedWord \in Nat
    BY DEF RepackedWord, Packed
  <2> QED
    BY <2>1 DEF Repacked, Header, Sections, BootImg
<1>2. want_initramfs(k) \in Kernel
  BY DEF want_initramfs, Kernel
<1>3. Repacked(k, magisk, quiet).cmdline \in Seq(Word)
  <2>1. InField(Stock.cmdline) \in Seq(Word)
    BY InFieldType DEF BootImg
  <2>2. /\ <<"memreserve">> \in Seq(Word) /\ <<"ktest">> \in Seq(Word)
        /\ << >> \in Seq(Word) /\ <<"verbose">> \in Seq(Word)
        /\ <<"verbose", "verbose", "verbose">> \in Seq(Word)
    BY DEF Word
  <2>3. Verbose(quiet) \in Seq(Word)
    BY <2>2 DEF Verbose
  <2> QED
    BY <2>1, <2>2, <2>3 DEF Repacked
<1> QED
  BY <1>1, <1>2, <1>3, Extracted DEF Repacked, BootImg

LEMMA ReportTypes ==
  ASSUME NEW t \in Tree, NEW seen, NEW lost \in SUBSET Fetched, NEW b \in BootImg
  PROVE  /\ Says(t, seen, lost) \in Report
         /\ ImageBlockers(b) \subseteq Findings /\ ImageWarns(b) \subseteq Findings
<1>1. Blockers(t, seen) \subseteq Findings
  BY DEF Blockers, Findings, Causes
<1>2. Warns(t, lost) \subseteq Findings
  <2>1. (Checked \in t.configs => t.quirks[Checked] \subseteq Quirks) /\ t.breaks \subseteq Quirks
    BY DEF Tree
  <2> QED
    BY <2>1 DEF Warns, OptionWarns, SourceWarns, Findings, Causes
<1>3. Notes(t, seen) \subseteq Findings
  BY DEF Notes, Findings, Causes
<1>4. ImageBlockers(b) \subseteq Findings
  BY DEF ImageBlockers, Findings
<1>5. ImageWarns(b) \subseteq Findings
  BY DEF ImageWarns, Findings, Causes
<1>6. Says(t, seen, lost) \in Report
  BY <1>1, <1>2, <1>3 DEF Says, Report, Findings
<1> QED
  BY <1>4, <1>5, <1>6

\* What the three steps of the build have in common.
LEMMA StepType ==
  ASSUME TypeOK, NEW now \in Stages, NEW fatal \in SUBSET Causes,
         NEW risks \in SUBSET Causes, NEW next \in Stages,
         Step(now, fatal, risks, next), kernel' \in Kernel
  PROVE  TypeOK'
<1>1. stage' \in Stages /\ why' \in Causes
  BY DEF Step, TypeOK, Stages
<1>2. UNCHANGED <<tree, request, gate, fetch, lines, boot, verdict, cycle, outcome, kmsg>>
  BY DEF Step, phone
<1> QED
  BY <1>1, <1>2 DEF TypeOK

LEMMA Cleaned ==
  ASSUME NEW t \in Tree
  PROVE  [t EXCEPT !.objects = "sourced"] \in Tree
  BY DEF Tree

LEMMA InitType == Init => TypeOK
<1> SUFFICES ASSUME Init PROVE TypeOK
  OBVIOUS
<1>1. tree \in Tree /\ request \in Requests
  BY DEF Init, AnyTree, AnyRequest
<1>2. Silent \in Report /\ NoKernel \in Kernel /\ Stock \in BootImg
  BY DEF Silent, Report, NoKernel, Kernel
<1>3. fetch \in [Submodules -> Fetches] /\ stage \in Stages /\ why \in Causes
  BY DEF Init, Fetches, Stages, Causes
<1> QED
  BY <1>1, <1>2, <1>3 DEF Init, TypeOK

LEMMA NextType == TypeOK /\ [Next]_vars => TypeOK'
<1> SUFFICES ASSUME TypeOK, [Next]_vars PROVE TypeOK'
  OBVIOUS
<1>1. CASE Preflight
  <2>1. PICK seen \in Listed(tree), lost \in SUBSET Fetched : gate' = Says(tree, seen, lost)
    BY <1>1 DEF Preflight
  <2>2. gate' \in Report
    BY <2>1, ReportTypes DEF TypeOK
  <2> QED
    BY <1>1, <2>2 DEF Preflight, TypeOK, phone, Stages
<1>2. CASE Clone
  <2>1. fetch' \in [Submodules -> Fetches] /\ lines' \subseteq Source
    BY <1>2 DEF Clone, fix, TypeOK, Tree
  <2>2. tree \in Tree /\ tree' = [tree EXCEPT !.objects = "sourced"]
    BY <1>2 DEF Clone, TypeOK
  <2>3. tree' \in Tree
    BY <2>2, Cleaned
  <2> QED
    BY <1>2, <2>1, <2>3 DEF Clone, TypeOK, phone, Stages
<1>3. CASE Patch
  <2>1. /\ Unverified \in SUBSET Causes /\ {} \in SUBSET Causes
        /\ "patch" \in Stages /\ "configure" \in Stages
    BY DEF Unverified, Causes, Stages
  <2>2. Step("patch", Unverified, {}, "configure") /\ kernel' \in Kernel
    BY <1>3 DEF Patch, TypeOK
  <2> QED
    BY <2>1, <2>2, StepType
<1>4. CASE Configure
  <2>1. /\ Unconfigured \in SUBSET Causes /\ {} \in SUBSET Causes
        /\ "configure" \in Stages /\ "build" \in Stages
    BY DEF Unconfigured, Unread, Lost, Causes, Quirks, Stages
  <2>2. Step("configure", Unconfigured, {}, "build") /\ kernel' \in Kernel
    BY <1>4 DEF Configure, TypeOK
  <2> QED
    BY <2>1, <2>2, StepType
<1>5. CASE Build
  <2>1. Unbuilt \subseteq Causes /\ tree.breaks \intersect Enabled \subseteq Causes
    BY DEF Unbuilt, Causes, TypeOK, Tree
  <2>2. kernel' \in Kernel
    <3>1. CASE UNCHANGED kernel
      BY <3>1 DEF TypeOK
    <3>2. CASE \E s \in {{"skip_initramfs"}, {"want_initramfs"}, {}}, m \in BOOLEAN :
                 kernel' = [switch |-> s, dtbs |-> 1, warm |-> TRUE, ramoops |-> "rom",
                            memreserve |-> m]
      <4>1. \A s \in {{"skip_initramfs"}, {"want_initramfs"}, {}} :
              s \in SUBSET {"skip_initramfs", "want_initramfs"}
        OBVIOUS
      <4> QED
        BY <3>2, <4>1 DEF Kernel
    <3> QED
      BY <1>5, <3>1, <3>2 DEF Build
  <2> QED
    BY <1>5, <2>1, <2>2, StepType DEF Build, Stages
<1>6. CASE Repack
  BY <1>6, RepackedType DEF Repack, TypeOK, host, phone, Stages
<1>7. CASE TakeGiven
  BY <1>7 DEF TakeGiven, TypeOK, host, phone, Stages
<1>8. CASE PreflightImage
  <2>1. verdict' \in Report
    <3> DEFINE w == IF ImageBlockers(boot) = {"magic"} THEN {} ELSE ImageWarns(boot)
    <3>1. verdict' = [blockers |-> ImageBlockers(boot), warns |-> w, notes |-> {}, lost |-> {}]
      BY <1>8 DEF PreflightImage
    <3>2. tree \in Tree /\ boot \in BootImg
      BY DEF TypeOK
    <3>3. ImageBlockers(boot) \in SUBSET Findings /\ ImageWarns(boot) \in SUBSET Findings
      <4>1. {} \in SUBSET Fetched
        OBVIOUS
      <4> QED BY <3>2, <4>1, ReportTypes
    <3>4. w \in SUBSET Findings
      BY <3>3
    <3> HIDE DEF w
    <3> QED
      BY <3>1, <3>3, <3>4 DEF Report
  <2> QED
    BY <1>8, <2>1 DEF PreflightImage, TypeOK, host, phone, Stages
<1>9. CASE FastbootBoot
  <2>1. cycle' \in 0..MaxCycles /\ kmsg' \in 0..cycle'
    BY <1>9 DEF FastbootBoot, TypeOK
  <2>2. outcome' \in {"none", "up", "userspace", "panic", "off"}
    BY <1>9 DEF FastbootBoot
  <2> QED
    BY <1>9, <2>1, <2>2 DEF FastbootBoot, TypeOK, host, Stages
<1>10. CASE Again
  BY <1>10 DEF Again, TypeOK, host, phone, Stages
<1>11. CASE UNCHANGED vars
  BY <1>11 DEF vars, host, phone, TypeOK
<1> QED
  BY <1>1, <1>2, <1>3, <1>4, <1>5, <1>6, <1>7, <1>8, <1>9, <1>10, <1>11 DEF Next

\* Every variable keeps its type.
THEOREM TypeCorrect == Spec => []TypeOK
  BY InitType, NextType, PTL DEF Spec

-----------------------------------------------------------------------------
(* The safety invariants.                                                   *)

LEMMA StillIntact ==
  ASSUME NEW t \in Tree, OwnPaths(t), NEW f \in [Submodules -> Fetches]
  PROVE  /\ \A s \in t.sources : Readable(s, f) => s \in fix(t, f)
         /\ \A s \in fix(t, f) : /\ s \in t.sources
                                 /\ Readable(s, f) \/ f[s.owner] = "gitfile" \/ s.variable
<1>1. ASSUME NEW s \in t.sources, Readable(s, f)
      PROVE  s \in fix(t, f)
  BY <1>1 DEF fix, PathExists
<1>2. ASSUME NEW s \in fix(t, f), ~Readable(s, f), f[s.owner] # "gitfile"
      PROVE  s.variable
  <2>1. s.owner \in t.submodules /\ f[s.owner] = "empty"
    BY <1>2 DEF fix, Readable, OwnPaths, Fetches, Submodules
  <2> QED
    BY <1>2, <2>1 DEF fix, empty_submodules, PathExists
<1> QED
  BY <1>1, <1>2 DEF fix

LEMMA MarkerBehind ==
  ASSUME NEW c \in Seq(Word)
  PROVE  /\ Words(InField(c)) \subseteq Words(c)
         /\ Len(c) <= Field => InField(c) = c
<1>1. ASSUME NEW n \in 0..Len(c)
      PROVE  /\ Len(SubSeq(c, 1, n)) = n
             /\ \A i \in 1..n : SubSeq(c, 1, n)[i] = c[i]
  OBVIOUS
<1>2. \E n \in 0..Len(c) : InField(c) = SubSeq(c, 1, n) /\ (Len(c) <= Field => n = Len(c))
  <2>1. CASE Len(c) <= Field
    <3>1. InField(c) = SubSeq(c, 1, Len(c))
      BY <2>1 DEF InField
    <3>2. Len(c) \in 0..Len(c)
      OBVIOUS
    <3> QED
      BY <2>1, <3>1, <3>2
  <2>2. CASE ~(Len(c) <= Field)
    <3>1. InField(c) = SubSeq(c, 1, Field) /\ Field \in 0..Len(c)
      BY <2>2 DEF InField
    <3> QED
      BY <2>2, <3>1
  <2> QED
    BY <2>1, <2>2
<1>3. Words(InField(c)) \subseteq Words(c)
  BY <1>1, <1>2 DEF Words
<1>4. Len(c) <= Field => InField(c) = c
  BY <1>1, <1>2
<1> QED
  BY <1>3, <1>4

\* What a kernel of the workflow has.
Good(k) == k.dtbs = 1 /\ k.warm /\ k.ramoops = "rom"

LEMMA RepackedIsGood ==
  ASSUME NEW k \in Kernel, Good(k), NEW magisk \in BOOLEAN, NEW quiet \in 0..2
  PROVE  LET b == Repacked(k, magisk, quiet)
         IN /\ OsVersion(b.header.word) = <<13, 0, 0>>
            /\ PatchLevel(b.header.word) = PatchLevel(Stock.header.word)
            /\ Unpacked(b) \in {"stock", "magisk"}
            /\ "skip_initramfs" \notin b.kernel.switch
            /\ ImageBlockers(b) \subseteq {"ktest"}
            /\ Len(b.cmdline) <= Field => ImageBlockers(b) = {}
            /\ Good(b.kernel)
<1> DEFINE b == Repacked(k, magisk, quiet)
<1>1. b \in BootImg
  BY RepackedType
<1>2. /\ OsVersion(b.header.word) = <<13, 0, 0>>
      /\ PatchLevel(b.header.word) = PatchLevel(Stock.header.word)
      /\ PatchLevelOfLow(b.header.word) = <<2022, 11>>
  <2>1. /\ OsVersion(RepackedWord) = <<13, 0, 0>>
        /\ PatchLevelOfLow(RepackedWord) = <<2022, 11>>
    <3>1. RepackedWord = 436207979
      BY DEF RepackedWord, Packed
    <3> QED
      BY <3>1 DEF OsVersion, PatchLevelOfLow
  <2>2. b.header.word = RepackedWord /\ Stock.header.word = RepackedWord
    BY DEF Repacked, RepackedWord
  <2> QED
    BY <2>1, <2>2
<1>3. Unpacked(b) \in {"stock", "magisk"}
  <2>1. b.header \in Header
    BY <1>1 DEF BootImg
  <2>2. b.header.version = 0 /\ b.header.size["dtbo"] = 0 /\ b.header.size["dtb"] = 0
    BY DEF Repacked, Sections
  <2>3. WellFormed(b.header)
    <3> DEFINE h == b.header
    <3> HIDE DEF b
    <3> QED
      BY <2>1, <2>2 DEF WellFormed, SizeRead, Header
  <2>4. Written(b.header, LooksAt(b.header))
    BY <2>1, <2>3, Offsets
  <2> QED
    BY <2>4, Extracted DEF Unpacked, Repacked
<1>4. "skip_initramfs" \notin b.kernel.switch /\ Good(b.kernel)
  BY DEF Repacked, want_initramfs, Good, Kernel
<1>5. b.magic
  BY DEF Repacked
<1>6. ImageBlockers(b) \subseteq {"ktest"}
  BY <1>2, <1>4, <1>5 DEF ImageBlockers, Good
<1>7. "ktest" \in Words(b.cmdline)
  <2> DEFINE c == InField(Stock.cmdline) \o <<"memreserve">> \o Verbose(quiet)
  <2>1. c \in Seq(Word)
    <3>1. InField(Stock.cmdline) \in Seq(Word)
      BY InFieldType DEF BootImg
    <3>2. /\ << >> \in Seq(Word) /\ <<"verbose">> \in Seq(Word)
          /\ <<"verbose", "verbose", "verbose">> \in Seq(Word)
          /\ <<"memreserve">> \in Seq(Word)
      BY DEF Word
    <3>3. Verbose(quiet) \in Seq(Word)
      BY <3>2 DEF Verbose
    <3> QED
      BY <3>1, <3>2, <3>3
  <2>2. b.cmdline = c \o <<"ktest">>
    BY DEF Repacked
  <2> HIDE DEF c
  <2>3. Len(c \o <<"ktest">>) = Len(c) + 1 /\ (c \o <<"ktest">>)[Len(c) + 1] = "ktest"
    BY <2>1
  <2>4. Len(c) + 1 \in 1..(Len(c) + 1)
    BY <2>1
  <2> QED
    BY <2>2, <2>3, <2>4 DEF Words
<1>8. Len(b.cmdline) <= Field => "ktest" \in Words(InField(b.cmdline))
  BY <1>1, <1>7, MarkerBehind DEF BootImg
<1>9. Len(b.cmdline) <= Field => ImageBlockers(b) = {}
  BY <1>2, <1>4, <1>5, <1>8 DEF ImageBlockers, Good
<1> QED
  BY <1>2, <1>3, <1>4, <1>6, <1>9

\* What the report of preflight.py has said of the tree, if it could read it.
Told ==
  \/ gate.blockers = {"tree"} \/ gate.lost # {}
  \/ /\ Warns(tree, {}) \subseteq gate.warns
     /\ Checked \notin tree.configs =>
          "defconfig" \in gate.blockers \union (gate.notes \intersect {"defconfig"})

\* The clone as it is when the build starts.
Fixed == tree.objects = "sourced" /\ lines = fix(tree, fetch)

HostInv ==
  /\ OwnPaths(tree)
  /\ stage \in {"clone", "patch", "configure", "build"} => Told
  /\ stage \in {"patch", "configure", "build"} => Fixed
  /\ stage = "build" => request.defconfig \in tree.configs
  /\ ForewarnedDeath

ImageInv ==
  /\ stage = "image" => Good(kernel)
  /\ stage \in {"boot_image", "blocked", "worth", "tested"} /\ boot.origin = "built" =>
       /\ Good(kernel)
       /\ \E magisk \in BOOLEAN, quiet \in 0..2 : boot = Repacked(kernel, magisk, quiet)
  /\ stage \in {"worth", "tested"} =>
       ImageBlockers(boot) = {} /\ verdict.warns = ImageWarns(boot)
  /\ FailureIsTold

IInv == TypeOK /\ HostInv /\ ImageInv

LEMMA ToldBy ==
  ASSUME NEW t \in Tree, NEW seen \in Listed(t), NEW lost \in SUBSET Fetched
  PROVE  LET g == Says(t, seen, lost)
         IN \/ g.blockers = {"tree"} \/ g.lost # {}
            \/ /\ Warns(t, {}) \subseteq g.warns
               /\ Checked \notin t.configs =>
                    "defconfig" \in g.blockers \union (g.notes \intersect {"defconfig"})
<1>1. seen \subseteq t.configs
  BY DEF Listed
<1>2. lost # {} => Says(t, seen, lost).lost # {}
  BY DEF Says
<1>3. ASSUME lost = {}, t.listing # "none"
      PROVE  Warns(t, {}) = Says(t, seen, lost).warns
  BY <1>3 DEF Says
<1>4. t.listing = "none" => Says(t, seen, lost).blockers = {"tree"}
  BY DEF Says
<1>5. ASSUME t.listing # "none", Checked \notin t.configs
      PROVE  "defconfig" \in Says(t, seen, lost).blockers \union Says(t, seen, lost).notes
  BY <1>1, <1>5 DEF Says, Notes, Blockers
<1> QED
  BY <1>2, <1>3, <1>4, <1>5

\* Builds of which preflight.py could not say enough, and what the others may die
\* of: what it has said, and what it does not look at.
Unheard == \/ gate.blockers = {"tree"} \/ gate.lost # {}
           \/ request.defconfig # Checked
Expected == gate.blockers \union gate.warns \union (gate.notes \intersect {"defconfig"})
            \union {"pstore", "ramoops"} \union Added(request)

\* A cause that ends the build is among them.
LEMMA Forewarned ==
  ASSUME TypeOK, HostInv, ~Unheard
  PROVE  /\ stage = "patch" => Unverified \subseteq Expected
         /\ stage = "configure" => Unconfigured \subseteq Expected
         /\ stage = "build" => Unbuilt \union (tree.breaks \intersect Enabled) \subseteq Expected
<1>0. request.defconfig = Checked
  BY DEF Unheard
<1>1. stage \in {"patch", "configure", "build"} =>
        /\ Warns(tree, {}) \subseteq gate.warns
        /\ Checked \notin tree.configs =>
             "defconfig" \in gate.blockers \union (gate.notes \intersect {"defconfig"})
  BY DEF HostInv, Told, Unheard
<1>2. stage = "patch" => Unverified \subseteq Expected
  BY <1>1 DEF Unverified, Warns, SourceWarns, Expected
<1>3. ASSUME stage = "configure" PROVE Unconfigured \subseteq Expected
  <2>1. ASSUME NEW s \in lines, ~Readable(s, fetch) PROVE "submodules" \in Expected
    <3>1. s \in tree.sources
      BY <1>3, <2>1 DEF HostInv, Fixed, fix
    <3>2. s.owner \in tree.submodules
      BY <2>1, <3>1 DEF HostInv, OwnPaths, Readable, Submodules
    <3> QED
      BY <1>1, <1>3, <3>2 DEF Warns, SourceWarns, Expected
  <2>2. Unread \subseteq Expected
    BY <1>0, <1>1, <1>3, <2>1 DEF Unread, Expected
  <2>3. ASSUME Unread = {} PROVE Lost \subseteq Expected
    <3>1. Checked \in tree.configs
      BY <1>0, <2>3 DEF Unread
    <3>2. tree.quirks[Checked] \subseteq gate.warns
      BY <1>1, <1>3, <3>1 DEF Warns, SourceWarns
    <3>3. tree.options = "undefined" => "options" \in gate.warns
      BY <1>1, <1>3 DEF Warns, OptionWarns
    <3> QED
      BY <1>0, <3>2, <3>3 DEF Lost, Expected
  <2> QED
    BY <2>2, <2>3 DEF Unconfigured
<1>4. ASSUME stage = "build"
      PROVE  Unbuilt \union (tree.breaks \intersect Enabled) \subseteq Expected
  <2>1. tree.quirks[Checked] \subseteq gate.warns
    <3>1. Checked \in tree.configs
      BY <1>0, <1>4 DEF HostInv
    <3> QED
      BY <1>1, <1>4, <3>1 DEF Warns, SourceWarns
  <2>2. tree.objects # "dangling"
    BY <1>4 DEF HostInv, Fixed
  <2>3. ~Appends => "appended_dtb" \in gate.warns
    BY <1>1, <1>4 DEF Appends, Warns
  <2>4. Enabled \subseteq Expected
    BY <1>0, <2>1 DEF Enabled, Expected
  <2> QED
    BY <2>2, <2>3, <2>4 DEF Unbuilt, Expected
<1> QED
  BY <1>2, <1>3, <1>4

\* A step of the build that ends it, and one that does not.
LEMMA StepKeeps ==
  ASSUME IInv, TypeOK', NEW now \in {"patch", "configure", "build"}, NEW fatal, NEW risks,
         NEW next \in {"configure", "build", "image"}, Step(now, fatal, risks, next),
         ~Unheard => fatal \union risks \subseteq Expected,
         next = "build" /\ fatal = {} => request.defconfig \in tree.configs,
         next = "image" /\ stage' = "image" => Good(kernel')
  PROVE  HostInv' /\ ImageInv'
<1>1. /\ UNCHANGED <<tree, request, gate, fetch, lines, boot, verdict, cycle, outcome, kmsg>>
      /\ stage = now
      /\ \/ stage' = "died" /\ why' \in fatal \union risks
         \/ fatal = {} /\ stage' = next
  BY DEF Step, phone
<1>2. OwnPaths(tree)' /\ (Told <=> Told') /\ (Fixed <=> Fixed')
  BY <1>1 DEF IInv, HostInv, Told, Fixed, OwnPaths
<1>3. ForewarnedDeath'
  BY <1>1 DEF ForewarnedDeath, Unheard, Expected
<1>4. HostInv'
  BY <1>1, <1>2, <1>3 DEF IInv, HostInv
<1>5. ImageInv'
  BY <1>1 DEF ImageInv, FailureIsTold
<1> QED
  BY <1>4, <1>5

LEMMA Inductive == Spec => []IInv
<1>1. Init => IInv
  <2> SUFFICES ASSUME Init PROVE HostInv /\ ImageInv
    BY InitType DEF IInv
  <2>1. OwnPaths(tree) /\ stage \in {"preflight", "given"}
    BY DEF Init, AnyTree
  <2> QED
    BY <2>1 DEF HostInv, ImageInv, ForewarnedDeath, FailureIsTold
<1>2. IInv /\ [Next]_vars => IInv'
  <2> SUFFICES ASSUME IInv, [Next]_vars PROVE HostInv' /\ ImageInv'
    BY NextType DEF IInv
  <2> USE DEF IInv
  <2>0. TypeOK'
    BY NextType
  <2>1. CASE Preflight
    <3>1. PICK seen \in Listed(tree), lost \in SUBSET Fetched : gate' = Says(tree, seen, lost)
      BY <2>1 DEF Preflight
    <3>2. Told'
      BY <2>1, <3>1, ToldBy DEF Told, Preflight, TypeOK
    <3>3. stage' \in {"clone", "refused"} /\ UNCHANGED <<tree, boot, cycle, kmsg, outcome>>
      BY <2>1 DEF Preflight, phone
    <3>4. OwnPaths(tree)'
      BY <3>3 DEF HostInv, OwnPaths
    <3> QED
      BY <3>2, <3>3, <3>4 DEF HostInv, ImageInv, ForewarnedDeath, FailureIsTold
  <2>2. CASE Clone
    <3>1. /\ stage = "clone" /\ stage' = "patch" /\ UNCHANGED gate
          /\ tree' = [tree EXCEPT !.objects = "sourced"] /\ lines' = fix(tree, fetch')
      BY <2>2 DEF Clone
    <3>2. /\ tree'.listing = tree.listing /\ tree'.options = tree.options
          /\ tree'.appended = tree.appended /\ tree'.submodules = tree.submodules
          /\ tree'.breaks = tree.breaks
          /\ tree'.configs = tree.configs /\ tree'.quirks = tree.quirks
          /\ tree'.pshold = tree.pshold /\ tree'.ramoops = tree.ramoops
          /\ tree'.sources = tree.sources /\ tree'.objects = "sourced"
      BY <3>1 DEF TypeOK, Tree
    <3>3. Warns(tree', {}) = Warns(tree, {})
      BY <3>2 DEF Warns, OptionWarns, SourceWarns
    <3>4. Told'
      BY <3>1, <3>2, <3>3 DEF HostInv, Told
    <3>5. Fixed'
      <4>1. fix(tree, fetch') = fix(tree', fetch')
        BY <3>2 DEF fix, empty_submodules
      <4> QED
        BY <3>1, <3>2, <4>1 DEF Fixed
    <3>6. OwnPaths(tree)'
      BY <3>2 DEF HostInv, OwnPaths
    <3> QED
      BY <3>1, <3>4, <3>5, <3>6 DEF HostInv, ImageInv, ForewarnedDeath, FailureIsTold
  <2>3. CASE Patch
    <3>1. Step("patch", Unverified, {}, "configure") /\ stage = "patch"
      BY <2>3 DEF Patch, Step
    <3>2. ~Unheard => Unverified \union {} \subseteq Expected
      BY <3>1, Forewarned
    <3> QED
      BY <2>0, <3>1, <3>2, StepKeeps
  <2>4. CASE Configure
    <3>1. Unconfigured = {} => request.defconfig \in tree.configs
      BY DEF Unconfigured, Unread
    <3>2. Step("configure", Unconfigured, {}, "build") /\ stage = "configure"
      BY <2>4 DEF Configure, Step
    <3>3. ~Unheard => Unconfigured \union {} \subseteq Expected
      BY <3>2, Forewarned
    <3> QED
      BY <2>0, <3>1, <3>2, <3>3, StepKeeps
  <2>5. CASE Build
    <3>1. stage' = "image" => Good(kernel')
      BY <2>5 DEF Build, Good
    <3>2. Step("build", Unbuilt, tree.breaks \intersect Enabled, "image")
      BY <2>5 DEF Build
    <3>3. stage = "build"
      BY <3>2 DEF Step
    <3>4. ~Unheard => Unbuilt \union (tree.breaks \intersect Enabled) \subseteq Expected
      BY <3>3, Forewarned
    <3> QED
      BY <2>0, <3>1, <3>2, <3>4, StepKeeps
  <2>6. CASE Repack
    <3>1. PICK magisk \in BOOLEAN, quiet \in 0..2 : boot' = Repacked(kernel, magisk, quiet)
      BY <2>6 DEF Repack
    <3>2. /\ stage = "image" /\ stage' = "boot_image" /\ UNCHANGED <<tree, kernel, cycle, kmsg, outcome>>
      BY <2>6 DEF Repack, host, phone
    <3>3. Good(kernel)
      BY <3>2 DEF ImageInv
    <3> QED
      BY <3>1, <3>2, <3>3 DEF HostInv, ImageInv, OwnPaths, ForewarnedDeath, FailureIsTold, Good
  <2>7. CASE TakeGiven
    <3>1. boot'.origin = "given" /\ stage' = "boot_image" /\ UNCHANGED tree
      BY <2>7 DEF TakeGiven, host
    <3> QED
      BY <3>1 DEF HostInv, ImageInv, OwnPaths, ForewarnedDeath, FailureIsTold
  <2>8. CASE PreflightImage
    <3>1. /\ stage = "boot_image" /\ stage' \in {"worth", "blocked"}
          /\ UNCHANGED <<tree, kernel, boot>>
      BY <2>8 DEF PreflightImage, host
    <3>2. stage' = "worth" => ImageBlockers(boot) = {} /\ verdict'.warns = ImageWarns(boot)
      BY <2>8 DEF PreflightImage
    <3> QED
      BY <3>1, <3>2 DEF HostInv, ImageInv, OwnPaths, ForewarnedDeath, FailureIsTold, Good
  <2>9. CASE FastbootBoot
    <3>1. /\ stage = "worth" /\ stage' = "tested"
          /\ UNCHANGED <<tree, kernel, boot, verdict>>
      BY <2>9 DEF FastbootBoot, host
    <3>2. FailureIsTold'
      <4> SUFFICES ASSUME outcome' \in {"userspace", "panic"},
                          boot.origin = "built" \/ boot.kernel.ramoops = "rom"
                   PROVE  kmsg' = cycle' /\ "ktest" \in Words(boot.cmdline)
        BY <3>1 DEF FailureIsTold
      <4>1. ImageBlockers(boot) = {} /\ verdict.warns = ImageWarns(boot)
        BY <3>1 DEF ImageInv
      <4>2. boot.kernel.warm /\ "ktest" \in Words(InField(boot.cmdline))
        BY <4>1 DEF ImageBlockers
      <4>3. "ktest" \in Words(boot.cmdline)
        BY <4>2, MarkerBehind DEF TypeOK, BootImg
      <4>4. boot.kernel.ramoops = "rom"
        <5>1. ASSUME boot.origin = "built" PROVE boot.kernel.ramoops = "rom"
          <6>1. PICK magisk \in BOOLEAN, quiet \in 0..2 : boot = Repacked(kernel, magisk, quiet)
            BY <3>1, <5>1 DEF ImageInv
          <6>2. Good(kernel)
            BY <3>1, <5>1 DEF ImageInv
          <6> QED
            BY <6>1, <6>2, RepackedIsGood DEF TypeOK, Good
        <5> QED
          BY <5>1
      <4>5. kmsg' = cycle'
        BY <2>9, <4>2, <4>4 DEF FastbootBoot
      <4> QED
        BY <4>3, <4>5
    <3> QED
      BY <3>1, <3>2 DEF HostInv, ImageInv, OwnPaths, ForewarnedDeath, Good
  <2>10. CASE Again
    <3>1. /\ stage \in {"tested", "blocked"} /\ stage' \in {"image", "given"}
          /\ stage' = "image" => boot.origin = "built"
          /\ UNCHANGED <<tree, kernel>>
      BY <2>10 DEF Again, host
    <3> QED
      BY <3>1 DEF HostInv, ImageInv, OwnPaths, ForewarnedDeath, FailureIsTold, Good
  <2>11. CASE UNCHANGED vars
    BY <2>11 DEF vars, host, phone, HostInv, ImageInv, OwnPaths, Told, Fixed, ForewarnedDeath,
                 FailureIsTold, Good
  <2> QED
    BY <2>1, <2>2, <2>3, <2>4, <2>5, <2>6, <2>7, <2>8, <2>9, <2>10, <2>11 DEF Next
<1> QED
  BY <1>1, <1>2, PTL DEF Spec

\* preflight.py has named what a build of the configuration it looks at dies of, or
\* does not look at it.
THEOREM DeathIsForewarned == Spec => []ForewarnedDeath
<1>1. IInv => ForewarnedDeath
  BY DEF IInv, HostInv
<1> QED
  BY <1>1, Inductive, PTL

\* fix_empty_submodule_kconfig.py leaves every line that Kconfig can read.
THEOREM KconfigStaysIntact == Spec => []KconfigIntact
<1>1. IInv => KconfigIntact
  BY StillIntact DEF IInv, TypeOK, HostInv, Fixed, KconfigIntact
<1> QED
  BY <1>1, Inductive, PTL

\* What repack_kameos.sh makes of a built kernel boots, for every kernel and every
\* length of the header's field.
THEOREM RepackBoots == Spec => []RepackIsBootable
<1>1. IInv => RepackIsBootable
  <2> SUFFICES ASSUME IInv, stage = "boot_image", boot.origin = "built"
               PROVE  RepackIsBootable
    BY DEF RepackIsBootable
  <2>1. PICK magisk \in BOOLEAN, quiet \in 0..2 : boot = Repacked(kernel, magisk, quiet)
    BY DEF IInv, ImageInv
  <2>2. Good(kernel) /\ kernel \in Kernel
    BY DEF IInv, ImageInv, TypeOK
  <2> QED
    BY <2>1, <2>2, RepackedIsGood DEF RepackIsBootable
<1> QED
  BY <1>1, Inductive, PTL

\* The log of a failed test is that test's, for any number of tests.
THEOREM FailuresAreTold == Spec => []FailureIsTold
<1>1. IInv => FailureIsTold
  BY DEF IInv, ImageInv
<1> QED
  BY <1>1, Inductive, PTL
==============================================================================
