SPECIFICATION FairSpec
CONSTANTS
    c1 = c1  c2 = c2  alice = alice  bob = bob

    Channel = {c1, c2}
    Wallet = {alice, bob}
    ConsumerOf <- SameConsumerOf
    ProducerOf <- MCProducerOf
    SessionKey = {k1, k2}
    Offers <- MCOffers
    U64Max = 3
    MaxDuration = 2  MaxDispute = 1  MaxTrailing = 2
    Balances <- PairBalances
    MaxTime = 6
    NoAccount = NoAccount
INVARIANTS TypeOK VaultBacksChannel MoneyConserved SettledWithinTerms CloseEmptiesVault ExactlyOneDoor
PROPERTIES ImplementsEscrow SplitFinalOnceClosable SettlementOnlyForward LatestCanStillWin SettledIsClosed
CHECK_DEADLOCK FALSE
