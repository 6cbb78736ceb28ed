CONSTANT Word = 4096
SPECIFICATION Spec
INVARIANTS TracksFactors RecryptsExactly
CHECK_DEADLOCK FALSE
