SPECIFICATION ContainersSpec
CONSTANTS
  MagicLen = 2
  VersionLen = 1
  RestLen = 1
  CheckLen = 2
  PayloadLens = {0, 7}
  MaxContainers = 3
  MaxFaults = 0
  MaxWords = 0
  SharedWriter = TRUE
INVARIANTS ChecksumCoversContainer
CHECK_DEADLOCK FALSE
