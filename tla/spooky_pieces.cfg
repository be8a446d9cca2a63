SPECIFICATION Spec
CONSTANTS
  Seeds <- MCSeeds
  Fragments <- MCFragments
  Stale <- MCStale
INVARIANTS
  StateDescribesMessage
  EveryByteCounts
PROPERTY ImplementsStreamingHash
