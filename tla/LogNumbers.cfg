SPECIFICATION Spec
CONSTANTS MaxLexemes = 3
INVARIANTS NumbersAccepted
CHECK_DEADLOCK FALSE
