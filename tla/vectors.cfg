SPECIFICATION Spec
CONSTANTS
  MaxWidth = 12
  MaxHeight = 10
  Call <- SmallCalls
INVARIANTS InnerPixelsAreFiltered BorderPixelsAreFiltered StreamsBalance
CHECK_DEADLOCK FALSE
