SPECIFICATION DefSpec
CONSTANTS
  Ids = {"a", "b", "c"}
  Unknown = "x"
  MaxNodes = 3
  MaxEdges = 3
  Literals <- MCLiterals
  Words = {"result", "length"}
  Operators = {"&&", "||", "!", ".", "(", ")", "==", ">"}
  Inputs <- MCInputs
  Starts <- MCStarts
INVARIANTS
  CycleVerdict
  OrderIsTopological
  MatchesReference
  MalformedIsRefused
  PanicsOnlyAtOpenEnd
