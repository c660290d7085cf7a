SPECIFICATION Spec
CONSTANTS MaxLexemes = 4
INVARIANTS SplitsIgnoreComments
CHECK_DEADLOCK FALSE
