SPECIFICATION Spec
CONSTANTS MaxLexemes = 4
INVARIANTS CastOnly
CHECK_DEADLOCK FALSE
