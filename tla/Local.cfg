SPECIFICATION LocalSpec
CONSTANTS
  l1 = l1
  l2 = l2
  l3 = l3
  Loads <- MCLoads
  NoId = NoId
  Names = {"a", "b", "c"}
  Returns <- MCReturns
  Programs <- MCPrograms
  MaxEvals = 2
  MaxEdits = 1
  MagicLen = 2
  VersionLen = 1
  RestLen = 1
  CheckLen = 2
  PayloadLens = {0, 7}
  MaxContainers = 2
  MaxFaults = 1
  MaxWords = 1
  SharedWriter = FALSE
SYMMETRY Symmetry
INVARIANTS PairsCancel MasksFresh ReadsWhatWasWritten RefusalsCostNothingElse ReusesCleanly
INVARIANTS RerunIsFresh TraceMatchesTable
PROPERTY LeavesPrefix
CHECK_DEADLOCK FALSE
