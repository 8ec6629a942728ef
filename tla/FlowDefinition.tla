--------------------------- MODULE FlowDefinition ---------------------------
(***************************************************************************)
(* What a flow_json document says, before it runs: the graph of its nodes, *)
(* which FlowGraph validates, and the expressions of its condition nodes,  *)
(* which Expr evaluates.  Neither looks at the other, so a behaviour is of *)
(* one of the two.                                                         *)
(***************************************************************************)
EXTENDS FlowGraph, Expr

VARIABLE part  \* what the behaviour is about: "graph" or "condition"

defVars == <<vars, exprVars, part>>

DefInit ==
  /\ part \in {"graph", "condition"}
  /\ Init /\ (part = "condition" => nodes = <<>>)
  /\ ExprInit /\ (part = "graph" => tokens = <<>>)

DefNext ==
  \/ part = "graph" /\ Next /\ UNCHANGED <<exprVars, part>>
  \/ part = "condition" /\ ExprNext /\ UNCHANGED <<vars, part>>

DefSpec == DefInit /\ [][DefNext]_defVars
=============================================================================
