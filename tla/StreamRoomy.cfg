SPECIFICATION FairSpec
CONSTANTS
    Price = 1  Prepaid = 1  Deposit = 6
    MaxUnpaid = 2  KMax = 2  PauseTimeout = 2  MaxTokens = 5
    NoCommit = NoCommit
INVARIANTS HonestCommitAccepted NoMutualStall
PROPERTIES SessionEnds
CHECK_DEADLOCK FALSE
