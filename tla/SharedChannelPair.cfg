SPECIFICATION SharedSpec
CONSTANTS
    s1 = s1  s2 = s2
    Price = 1  Prepaid = 1  Deposit = 7
    MaxUnpaid = 4  KMax = 2  PauseTimeout = 1  MaxTokens = 6
    NoCommit = NoCommit
    Streams = {s1, s2}
SYMMETRY StreamSymmetry
INVARIANTS SharedExposureBounded RefusalCostsNothing NoSharedStall
CHECK_DEADLOCK FALSE
