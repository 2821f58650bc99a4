SPECIFICATION GtinSpec
CONSTANT TypedGtins <- MCGtins
INVARIANT KnownGtinsVerify
CHECK_DEADLOCK FALSE
