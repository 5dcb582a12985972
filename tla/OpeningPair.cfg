SPECIFICATION OpeningSpec
CONSTANTS
    c1 = c1  c2 = c2  alice = alice  bob = bob  k1 = k1  k2 = k2
    tap_v1 = tap_v1  vendor = vendor  devnet = devnet  testnet = testnet

    Channel = {c1, c2}
    Wallet = {alice, bob}
    ConsumerOf <- MCConsumerOf
    ProducerOf <- MCProducerOf
    SessionKey = {k1, k2}
    Offers = {}
    U64Max = 5
    MaxDuration = 1  MaxDispute = 1  MaxTrailing = 1
    Balances <- MCBalances
    MaxTime = 3
    NoAccount = NoAccount

    SdkOf <- MCSdkOf
    KeyOf <- MCKeyOf
    DepositOf <- MCDepositOf
    Tokenizer = {tap_v1, vendor}
    Network = {devnet, testnet}
    CountOf <- MCCountOf
    Registered = {tap_v1}
    Policy <- MCPolicy
    Configs <- MCConfigs
    DisputeSecs = 1
    Misquotes <- MCMisquotes
    U32Max = 3  SafeMax = 4
    MaxRestarts = 1
    NoQuote = NoQuote  NoPayment = NoPayment  NoEntry = NoEntry
INVARIANTS OpeningTypeOK AuditedOnChain ViewsAgree WindowsAsQuoted
CHECK_DEADLOCK FALSE
