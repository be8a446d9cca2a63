SPECIFICATION Spec
CONSTANTS
  Calls <- MCCalls
  Stale = 170
INVARIANTS
  WritesInBounds
  ReadsInBounds
  DecodedIsData
  SourceApart
  TokenLeft
  ExactSizeDecodes
  OtherSizeIsNoticed
PROPERTY Termination
