SPECIFICATION HashersSpec
CONSTANT Pairs <- MCPairs
INVARIANTS
  OrderIndependent
  EveryElementCounts
  TupleIsRow
  WidthsAgree
  KnownAnswers
