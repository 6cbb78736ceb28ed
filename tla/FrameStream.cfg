CONSTANTS
  Sizes = {0, 2, 3}
  HeaderCells = 2
  Limit = 2
  Capacity = 2
  Transports = {TRUE, FALSE}
  MaxFrames = 3
  MaxReturned = 4
SPECIFICATION FairSpec
PROPERTIES ImplementsFifo Arrives
CHECK_DEADLOCK FALSE
