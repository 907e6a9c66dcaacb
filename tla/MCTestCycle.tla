------------------------------ MODULE MCTestCycle ------------------------------
(* A sound tree, and trees that differ from it in what the checks look at;  *)
(* every combination of the small differences.                              *)
EXTENDS TestCycle

NoQuirks == [c \in Config |-> {}]
Sound ==
  [listing |-> "whole", options |-> "sampled", pstore |-> TRUE, configs |-> {Checked, <<"top", "other">>},
   quirks |-> NoQuirks, breaks |-> {}, appended |-> TRUE, dts |-> "listed", objects |-> "sourced",
   submodules |-> {}, sources |-> {[owner |-> "tree", variable |-> v] : v \in BOOLEAN},
   ramoops |-> "node", pshold |-> TRUE]

\* openela, with KernelSU as a submodule; a path with a variable in one of two.
Vendored(both) ==
  [Sound EXCEPT !.submodules = IF both THEN Submodules ELSE {"kernelsu"},
                !.sources = @ \union {[owner |-> "kernelsu", variable |-> FALSE]}
                  \union IF both THEN {[owner |-> "susfs", variable |-> TRUE]} ELSE {},
                !.objects = IF both THEN "dangling" ELSE @]
\* A 5.4 tree: no Image.gz-dtb, its dts behind a symbol or absent.
Gki(dts) == [Sound EXCEPT !.appended = FALSE, !.dts = dts, !.ramoops = "neither"]

MCTrees ==
  {[Sound EXCEPT !.listing = l, !.options = o, !.configs = c] :
     l \in {"whole", "cut", "none"}, o \in Options,
     c \in {Sound.configs, {InVendor(Checked)}, {<<"top", "other">>}}}
  \union {[Vendored(both) EXCEPT !.ramoops = r, !.pshold = p] :
            both \in BOOLEAN, r \in {"node", "reserved", "neither"}, p \in BOOLEAN}
  \union {[Gki(dts) EXCEPT !.ramoops = r] : dts \in {"listed", "gated", "absent"},
                                            r \in {"reserved", "neither"}}
  \union {[Sound EXCEPT !.quirks = [c \in Config |-> q], !.breaks = b, !.objects = "dangling"] :
            q \in {{}, {"FTRACE"}, {"LLVM_POLLY", "DEBUG_FS"}},
            b \in {Quirks, {"MODULES"}, {"FTRACE", "LLVM_POLLY"}}}
  \union {[Sound EXCEPT !.pstore = FALSE]}

MCRequests ==
  {[defconfig |-> c, append_dtb |-> a, tracing |-> a, stock_only |-> s] :
     c \in {Checked, <<"top", "other">>}, a \in BOOLEAN, s \in BOOLEAN}

\* The ramdisk starts behind a kernel that ends with its page; what the command
\* line needs fits in the field with the flags of QUIET_LOG=1 and 2 only.
MCStock ==
  [header |-> [version |-> 1, page |-> 4096, word |-> Packed(<<13, 0, 0>>, <<2022, 11>>),
               size |-> [s \in Sections |-> CASE s = "kernel" -> 8192 [] s = "ramdisk" -> 5000
                                              [] s = "dtbo" -> 1 [] OTHER -> 0]],
   magic |-> TRUE,
   kernel |-> [NoKernel EXCEPT !.dtbs = 1],
   ramdisk |-> "stock", cmdline |-> <<"stock">>, origin |-> "given"]
MCKernelSize == 5000
MCField == 4
MCMaxCycles == 2

\* Boot images that came from elsewhere: with or without a warm reboot, a node of
\* the ROM's geometry or another, or the vendor's parameter, of the right month or not, of version 0 or 2, with a
\* marker in the field, behind it, or none.
MCGiven ==
  {[MCStock EXCEPT
      !.header.version = v, !.magic = m, !.cmdline = c,
      !.header.word = Packed(<<13, 0, 0>>, l),
      !.kernel = [@ EXCEPT !.warm = w /\ v = 0, !.ramoops = IF v = 0 THEN r ELSE "none", !.memreserve = k,
                           !.dtbs = IF v = 0 THEN 1 ELSE 0]] :
     v \in {0, 2}, m \in BOOLEAN, w \in BOOLEAN, r \in {"none", "other", "rom"}, k \in BOOLEAN,
     l \in {<<2022, 11>>, <<2022, 12>>},
     c \in {<<"stock">>, <<"stock", "ktest">>, <<"stock", "memreserve", "ktest">>}}
===============================================================================
