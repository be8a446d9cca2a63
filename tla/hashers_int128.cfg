SPECIFICATION HashersSpec
CONSTANT Pairs <- WidePairs
INVARIANT LowHalfCounts
