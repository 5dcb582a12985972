SPECIFICATION ProducerFairSpec
CONSTANTS
    Price = 2  Prepaid = 1  Deposit = 6
    MaxUnpaid = 3  KMax = 2  PauseTimeout = 2  MaxTokens = 4
    NoCommit = NoCommit
INVARIANTS TypeOK ExposureBounded NeverPaysAhead
PROPERTIES StreamReleased
CHECK_DEADLOCK FALSE
