---------------------------- MODULE MCImageBuild ----------------------------
(* The trees that the repository's notes tell of, as far as configuration   *)
(* and packaging can tell them apart.                                       *)
EXTENDS ImageBuild

Docker == {"NAMESPACES", "PID_NS", "KEYS"}
AllFiles == {"kernelsu", "susfs", "btf", "bpf_names"}

\* The phone's own config and that of KameOS, without PID_NS and the numbers.
MCRunning == Directives({"NAMESPACES", "KEYS", "PSTORE_RAM", "IKCONFIG", "LOCALVERSION_AUTO",
                         "KSU", "CPU_MASK"}, {"PID_NS"})
MCForeign == [Directives({"NAMESPACES", "PSTORE_RAM", "IKCONFIG"}, {"PID_NS", "KEYS"})
                EXCEPT !["CPU_MASK"] = "empty"]

\* The ROM's own tree.
Own ==
  [known    |-> [v \in Vars |-> Option \ {"LLVM_POLLY"}],
   needs    |-> [o \in Option |-> IF o \in {"PID_NS"} THEN {"NAMESPACES"} ELSE {}],
   default  |-> {"LOCALVERSION_AUTO"},
   numbers  |-> {"CPU_MASK"},
   defconfig |-> MCRunning,
   config_data |-> "own",
   decoy    |-> Directives(Docker \union {"IKCONFIG"}, {}),
   decoy_version |-> "other",
   dtb      |-> "appended",
   files    |-> AllFiles]

\* SOVIET: a decoy config, POLLY in a toolchain with it, no KernelSU.
Soviet == [Own EXCEPT !.known = [v \in Vars |-> Option \ {"KSU"}], !.config_data = "decoy",
                      !.files = {"btf", "bpf_names"},
                      !.defconfig = [@ EXCEPT !["LLVM_POLLY"] = "n"]]
\* ... with its stock defconfig, which turns POLLY on.
Polly == [Soviet EXCEPT !.defconfig = [@ EXCEPT !["LLVM_POLLY"] = "y"]]
\* Rikka: no PSTORE and no CPU masks in the defconfig.
Rikka == [Own EXCEPT !.defconfig = Directives({"NAMESPACES", "KEYS"}, {}),
                     !.config_data = "decoy", !.decoy_version = "same"]
\* A decoy in another spelling, on a tree where KEYS cannot be had.
Hidden == [Own EXCEPT !.config_data = "respelt",
                      !.defconfig = Directives({}, {}),
                      !.known = [v \in Vars |-> Option \ {"KEYS"}]]
\* PID_NS is there, what it depends on is not.
Gated == [Own EXCEPT !.known = [v \in Vars |-> Option \ {"NAMESPACES"}]]
\* Some options are there with one toolchain only.
Sensitive == [Own EXCEPT !.known["host"] = @ \ {"KEYS"}]
\* LineageOS: nothing backported; 5.4: no target with the device tree in it.
Lineage == [Own EXCEPT !.files = {}, !.known = [v \in Vars |-> Option \ {"KSU"}]]
Rooted  == [Own EXCEPT !.files = {"kernelsu", "susfs"}]
Gki     == [Own EXCEPT !.dtb = "separate"]
NoDtb   == [Own EXCEPT !.dtb = "none"]

MCTrees == {Own, Soviet, Polly, Rikka, Hidden, Gated, Sensitive, Lineage, Rooted, Gki, NoDtb}

\* The hypotheses of the theorems.
ASSUME MCHypotheses == TellableDecoys /\ RootedPhone /\ NumbersGiven
=============================================================================
