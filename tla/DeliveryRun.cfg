SPECIFICATION DeliverySpec
CONSTANTS
    Attempts = 2  MAX_OPEN_ATTEMPTS = 2
    MaxChunkChars = 3
    Texts <- MCTexts
    MaxLines = 2  MaxFrames = 1
    WarmUp = 3  MaxChars = 7
INVARIANTS ShownIsOneResponse OutcomeToldTruly HaltIsJustified
PROPERTIES RunEnds
CHECK_DEADLOCK FALSE
