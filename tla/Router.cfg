CONSTANTS
  Keys = {k1, k2}
  Capacity = 2
  MaxChannels = 2
  MaxFrames = 4
SPECIFICATION FairSpec
INVARIANTS AcceptedNotLost ArrivalOrder EndIsFinal
PROPERTY DispatchReturns
CHECK_DEADLOCK FALSE
