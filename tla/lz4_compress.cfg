SPECIFICATION Spec
CONSTANTS
  Inputs <- MCInputs
  Spare <- MCSpare
  MAX_INPUT_SIZE = 2113929216
  MAX_DISTANCE = 320
  Stale = 170
INVARIANTS
  ReadsInBounds
  WritesInBounds
  MatchSound
  CountExact
  TableBehind
  PrefixDescribes
  ResultEncodes
  KnownAnswer
  OutputBudget
PROPERTY Termination
