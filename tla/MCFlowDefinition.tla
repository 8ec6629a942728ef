------------------------- MODULE MCFlowDefinition -------------------------
(* Flows of up to three nodes and three edges.  For conditions, a truthy and
   a falsy literal, and for `result` a map with a string field: every
   expression of up to four tokens, and of up to seven that begins with an
   operator whose left operand decides. *)
EXTENDS FlowDefinition

Lit(v) == [kind |-> "lit", val |-> v]
True == <<"bool", TRUE>>
Zero == <<"float64", 0>>

MCLiterals == {True, Zero}
MCInputs == {<<"map", [result |-> <<"string", 1>>]>>}
MCStarts ==
  {[tokens |-> <<>>, room |-> 4],
   [tokens |-> <<Lit(True), [kind |-> "||"]>>, room |-> 5],
   [tokens |-> <<Lit(Zero), [kind |-> "&&"]>>, room |-> 5]}
=============================================================================
