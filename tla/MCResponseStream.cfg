CONSTANT Responses <- AllResponses
SPECIFICATION FairSpec
CHECK_DEADLOCK FALSE
INVARIANTS
  BytesKept
  EndsAtTheEnd
PROPERTY EndsWithoutClose
