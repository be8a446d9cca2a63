SPECIFICATION Spec
CONSTANTS
  Seeds <- MCSeeds
  Fragments <- MCFragments
  Garbage <- MCGarbage
INVARIANTS
  StateDescribesMessage
  EveryByteCounts
PROPERTY ImplementsStreamingHash
