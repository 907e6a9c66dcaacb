--------------------------- MODULE MCPatchScripts ---------------------------
(* Kernel trees for TLC: the 4.14 tree the project builds from, the same    *)
(* tree without one of the texts an edit looks for, and trees that already  *)
(* have some of the types.                                                  *)
EXTENDS PatchScripts

MCNativeTypes == {"SOCK_OPS", "STREAM_VERDICT", "INET6_CONNECT"}
MCNativeValue ==
  [n \in MCNativeTypes |->
     CASE n = "SOCK_OPS" -> 3 [] n = "STREAM_VERDICT" -> 5 [] n = "INET6_CONNECT" -> 11]

NativeRoute ==
  [n \in AttachType |-> CASE n = "SOCK_OPS" -> "SOCK_OPS"
                          [] n = "INET6_CONNECT" -> "SOCK_ADDR"
                          [] OTHER -> "EINVAL"]

\* The tree as cloned: BIND and CONNECT are backported, 6 and 15 are skipped.
Plain ==
  [uapi |-> [attach |-> MCNativeTypes, last |-> "INET6_CONNECT",
             prog |-> {"SOCK_OPS", "SOCK_ADDR"}],
   filter_h |-> {"sock_ops_kern"},
   types |-> {"sock_addr_ops"},
   filter_c |-> {"sock_addr_ops"},
   cgroup |-> {"run_filter_sock_ops"},
   syscall |-> [load |-> {<<"SOCK_ADDR", "INET6_CONNECT">>},
                attach |-> NativeRoute, detach |-> NativeRoute,
                query |-> {"SOCK_OPS", "INET6_CONNECT"},
                checked |-> {"SOCK_ADDR"},
                anchors |-> SyscallAnchors]]

\* Split prog_ops/verifier_ops as in later kernels: no registration anchor.
SplitOps == [Plain EXCEPT !.types = {}]
\* Mainline 4.14: no sock_addr programs at all, STREAM_VERDICT is the last.
Mainline ==
  [Plain EXCEPT !.uapi = [attach |-> {"SOCK_OPS", "STREAM_VERDICT"},
                          last |-> "STREAM_VERDICT", prog |-> {"SOCK_OPS"}],
                !.types = {}, !.filter_c = {},
                !.syscall.load = {},
                !.syscall.query = {"SOCK_OPS"},
                !.syscall.attach["INET6_CONNECT"] = "EINVAL",
                !.syscall.detach["INET6_CONNECT"] = "EINVAL",
                !.syscall.checked = {},
                !.syscall.anchors =
                   {"query_sockops", "sockops_attach", "sockops_detach"}]
\* One anchor of syscall.c spelt differently.
Respelt == {[Plain EXCEPT !.syscall.anchors = @ \ {a}] : a \in SyscallAnchors}
NoExport == [Plain EXCEPT !.cgroup = {}]

\* A tree that has the udp types natively and declares the sockopt values.
WithUdp ==
  [Plain EXCEPT !.uapi.attach = @ \union NewAttach, !.uapi.last = "SETSOCKOPT",
                !.syscall.load = @ \union ({"SOCK_ADDR"} \X SockAddrTypes),
                !.syscall.query = @ \union NewAttach,
                !.syscall.attach = AddRoute(@, SockAddrTypes, "SOCK_ADDR"),
                !.syscall.detach = AddRoute(@, SockAddrTypes, "SOCK_ADDR"),
                !.syscall.anchors =
                   @ \ {"load_return", "query_connect", "addr_attach", "addr_detach"}]
\* ... and one that has the device controller.
WithDevice ==
  [Plain EXCEPT !.uapi.attach = @ \union {"CGROUP_DEVICE"},
                !.uapi.prog = @ \union {"CGROUP_DEVICE"},
                !.types = @ \union {"device_ops"},
                !.cgroup = @ \union {"device_ops"},
                !.syscall.query = @ \union {"CGROUP_DEVICE"},
                !.syscall.attach["CGROUP_DEVICE"] = "CGROUP_DEVICE",
                !.syscall.detach["CGROUP_DEVICE"] = "CGROUP_DEVICE"]

OnlyPlain == {Plain}
MixedTrees == {Plain, SplitOps, Mainline, NoExport, WithUdp, WithDevice} \union Respelt

\* The theorems of PatchScripts_proofs speak of these families of trees.
ASSUME MCHypotheses == CoveringTrees /\ UniformTrees /\ DeclaringTrees
=============================================================================
