SPECIFICATION Spec
CONSTANTS
    Price = 1  Prepaid = 1  Deposit = 9
    MaxUnpaid = 2  KMax = 4  PauseTimeout = 2  MaxTokens = 6
    NoCommit = NoCommit
PROPERTIES BacksOffUnderPressure
CHECK_DEADLOCK FALSE
