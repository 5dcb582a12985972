SPECIFICATION Spec
CONSTANTS
    U32 = 3  SafeInt = 5  U64 = 8
    Terms <- MCTerms
INVARIANTS WireTypeOK ArrivesUnchanged FittingNeverRefused SettlerFindsItsOwn
CHECK_DEADLOCK FALSE
