SPECIFICATION FairSystemSpec
CONSTANTS
    c1 = c1  alice = alice  bob = bob  k1 = k1  k2 = k2

    Channel = {c1}
    Wallet = {alice, bob}
    ConsumerOf <- MCConsumerOf
    ProducerOf <- MCProducerOf
    SessionKey = {k1, k2}
    Offers <- MCOffers
    U64Max = 4
    MaxDuration = 1  MaxDispute = 1  MaxTrailing = 1
    Balances <- MCBalances
    MaxTime = 7
    NoAccount = NoAccount

    Request = {r1}
    KeyOf <- MCKeyOf
    TermsOf <- MCTermsOf
    ClockSlack = 2  MaxSkew = 1
    Signed <- MCSigned
    MaxCrashes = 2
    NoCommit = NoCommit  NoChannel = NoChannel
PROPERTIES SettledIsPaidOut TaskCleansUp
CHECK_DEADLOCK FALSE
