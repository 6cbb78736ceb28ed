CONSTANTS
  Word = 4096
  ParameterSets <- ShortParameters
  CipherNames = {1, 2}
  Scalars = {0, 2, 3}
  Tables = {"bitnot", "next", "double"}
  MaxCalls = 3
SPECIFICATION Spec
INVARIANTS DegreeBoundsPlaintext Evaluates Divides DecryptsToMeaning
CHECK_DEADLOCK FALSE
