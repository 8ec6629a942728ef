----------------------------- MODULE MCFlowRun -----------------------------
(* Two flows for FlowRun: "branch" has a condition, a join reached on two
   ways and two writers of one key; "chain" writes null, then calls an agent
   and a tool that overwrites it, and writes a key that "branch" writes. *)
EXTENDS FlowRun

E(to, h) == [to |-> to, handle |-> h]
N(type, out, key, bounded, null) ==
  [type |-> type, out |-> out, key |-> key, bounded |-> bounded, null |-> null]

Branch ==
  [t    |-> N("trigger", <<E("tool", "")>>, "", FALSE, FALSE),
   tool |-> N("mcp_tool", <<E("c", ""), E("join", "")>>, "k1", FALSE, FALSE),
   c    |-> N("condition", <<E("o", "true"), E("a", "false")>>, "", FALSE, FALSE),
   join |-> N("output", <<>>, "k1", FALSE, FALSE),
   o    |-> N("output", <<E("join", ""), E("a", "")>>, "k2", TRUE, FALSE),
   a    |-> N("agent", <<E("join", "")>>, "", FALSE, FALSE)]

Chain ==
  [t    |-> N("trigger", <<E("o", "")>>, "", FALSE, FALSE),
   o    |-> N("output", <<E("a", "")>>, "k3", TRUE, TRUE),
   a    |-> N("agent", <<E("tool", "")>>, "", FALSE, FALSE),
   tool |-> N("mcp_tool", <<E("p", "")>>, "k3", FALSE, FALSE),
   p    |-> N("output", <<>>, "k2", FALSE, FALSE)]

MCGraph == [branch |-> Branch, chain |-> Chain]
MCInitially == [k1 |-> <<"old", "">>, k2 |-> Absent, k3 |-> Nil]

(* Requests for different flows, and for the same one. *)
MCOther == [r1 |-> "branch", r2 |-> "chain"]
MCSame == [r1 |-> "branch", r2 |-> "branch"]
=============================================================================
