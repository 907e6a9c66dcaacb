--------------------------- MODULE MCPatchPipeline ---------------------------
(* The trees that the repository's notes tell of, reduced to what the       *)
(* scripts can tell apart in them, and every combination of inputs.         *)
EXTENDS PatchPipeline

E(type, value, explicit) == [type |-> type, value |-> value, explicit |-> explicit]

\* bool-x: the enum stops at SOCKMAP, bpf_attr is the partial one, the board has
\* nodes in both files.
OldEnum == <<Sockmap>>
BoolX ==
  [uapi     |-> [enum |-> OldEnum, flags |-> {}, attr |-> {}, attach |-> {},
                 texts |-> {"flag_define", "map_name", "prog_name"}],
   types    |-> {"ARRAY", "DEVMAP"},
   verifier |-> {"DEVMAP"},
   syscall  |-> [map_last |-> "map_name", prog_last |-> "prog_name", attach |-> {}],
   core     |-> "null",
   lpm_trie |-> "stub",
   mask     |-> [a \in Allocators |-> IF a = "stackmap" THEN "other" ELSE "narrow"],
   sock_map |-> FALSE,
   sys      |-> [release |-> Truth, named |-> {}, comms |-> {}, memcpy |-> TRUE],
   dt       |-> [f \in DtFiles |->
                   [node |-> "own", reserved |-> f # "raphael",
                    pshold |-> f # "raphael", warm |-> FALSE]],
   ram      |-> "plain"]

\* Rikka: DEVMAP_HASH with its value after SOCKMAP, one of the two flags, no node.
Rikka ==
  [BoolX EXCEPT
     !.uapi.enum  = <<Sockmap, E("DEVMAP_HASH", 25, TRUE)>>,
     !.uapi.flags = {"RDONLY_PROG"},
     !.types      = @ \union {"DEVMAP_HASH"},
     !.verifier   = @ \union {"DEVMAP_HASH"},
     !.mask["devmap"] = "forced",
     !.dt         = [f \in DtFiles |-> [@[f] EXCEPT !.node = "none"]]]

\* DEVMAP_HASH declared and not registered; reserved-memory in either file; a
\* trie of its own; its own memreserve parameter.
Declared ==
  [Rikka EXCEPT !.types = {"ARRAY", "DEVMAP"}, !.lpm_trie = "respelt", !.ram = "native",
                !.dt["raphael"].reserved = TRUE]

\* A tree with the types up to 25 by position, the modern bpf_attr, the real
\* trace_printk, its own fake uname and a node in the board's file only.
OpenEla ==
  [BoolX EXCEPT
     !.uapi     = [enum |-> OldEnum \o [i \in 1..10 |-> E(NewTypes[i], 15 + i, FALSE)],
                   flags |-> ProgFlags, attr |-> AttrFields,
                   attach |-> AttachTypes, texts |-> {"map_name", "prog_name"}],
     !.types    = @ \union {"DEVMAP_HASH", "xsk"},
     !.verifier = @ \union {"DEVMAP_HASH", "XSKMAP"},
     !.syscall  = [map_last |-> "newer", prog_last |-> "newer", attach |-> AttachTypes],
     !.sock_map = TRUE,
     !.core     = "real",
     !.lpm_trie = "walk",
     !.mask     = [a \in Allocators |-> CASE a = "sockmap" -> "absent"
                                         [] a = "devmap"  -> "forced"
                                         [] OTHER         -> "other"],
     !.sys      = [release |-> CHOOSE r \in Releases : TRUE, named |-> Releases,
                   comms |-> {"netd"}, memcpy |-> FALSE],
     !.dt["sm8150"].node = "none"]

\* A tree whose header defines no flag in the place the script looks for, whose
\* fields end elsewhere, and that has nothing to hang a log on.
Bare ==
  [BoolX EXCEPT
     !.uapi.texts = {}, !.uapi.attr = {"expected_attach_type"},
     !.syscall.prog_last = "expected_attach_type",
     !.types = {"DEVMAP"}, !.core = "dummy", !.ram = "respelt",
     !.dt = [f \in DtFiles |->
               [node |-> "none", reserved |-> FALSE, pshold |-> FALSE, warm |-> FALSE]]]

\* Nothing to insert a node into, but the parameter can be installed.
NoReserved == [Rikka EXCEPT !.dt = [f \in DtFiles |-> [@[f] EXCEPT !.reserved = FALSE]]]

\* A fake uname of the tree's own, and the node in the SoC's file only.
Faking == [BoolX EXCEPT !.sys = [release |-> CHOOSE r \in Releases : TRUE,
                                 named |-> {CHOOSE r \in Releases : TRUE},
                                 comms |-> Comms, memcpy |-> TRUE],
                        !.dt["raphael"].node = "none"]
\* The same with another release for another loader.
FakingTwo == [Faking EXCEPT !.sys.named = Releases]

MCTrees  == {BoolX, Rikka, Declared, OpenEla, Bare, NoReserved, Faking, FakingTwo}
ASSUME MCTreesAreBuildable == \A t \in MCTrees : Buildable(t)
MCDonors == {OpenEla, Rikka}
ASSUME MCTreesAreNumbered == \A t \in MCTrees \union MCDonors : Numbered(t)
MCReleases == {"4.19.0", "5.4.186"}
MCRequests ==
  {r \in [patches : SUBSET Patches, cgroup : SUBSET CgroupPatches,
          fake_uname : MCReleases \union {Truth}, graft : Scopes, donor : MCDonors] :
     r.graft = "none" => r.donor = Rikka}
==============================================================================
