\* Any answer of three chunks or eight events, between any two protocols.
\* A stream stops once it has its verdict.
SPECIFICATION Spec
CONSTANTS
  None = None
  Null = Null
  Pairs <- AllPairs
  MaxEvents <- Short
  MaxCalls = 2
INVARIANTS
  AnswerPreserved
  FramesBalanced
  OrderlyIndices
  EndShown
  UsageKept
CHECK_DEADLOCK FALSE
