\* The usage of a Responses provider's stream to a Responses client.
\* A stream stops once it has its verdict.
SPECIFICATION Spec
CONSTANTS
  None = None
  Null = Null
  Pairs <- NativeResponses
  MaxEvents <- Short
  MaxCalls = 2
INVARIANTS
  UsageRecorded
CHECK_DEADLOCK FALSE
