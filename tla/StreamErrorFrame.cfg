SPECIFICATION Spec
CONSTANTS
    Price = 1  Prepaid = 1  Deposit = 6
    MaxUnpaid = 4  KMax = 2  PauseTimeout = 2  MaxTokens = 3
    NoCommit = NoCommit
INVARIANTS PaysOnlyForTokens
CHECK_DEADLOCK FALSE
