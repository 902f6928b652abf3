SPECIFICATION Spec
CONSTANTS
    d1 = d1
    d2 = d2
    w1 = w1
    w2 = w2
    l1 = l1
    l2 = l2
    l3 = l3
    Deals = {d1, d2}
    OtherAccounts = {other}
    Ledgers = {l1, l2, l3}
    LedgerOf <- LedgersOfDeals
    MaxVersion = 2
    Wallets = {w1, w2}
    Amount <- Amounts
    SecretKey <- SecretKeys
    Randoms = {420}
    NoWallet = NoWallet
    NoKey = NoKey
    NoDeal = NoDeal
    KeyNotProvided = KeyNotProvided
    SubOrder = 101
    STEP = 2
    DecryptionFailed = DecryptionFailed
    OLD_CONFIG = 75
    OldSizes = {746, 994}
INVARIANTS
    RegulatorTypeOK
    RevealedBelongsToRecord
    
    RegisteredKeyIsUsed
CONSTRAINT OneOldLedgerOrDeposit
CHECK_DEADLOCK FALSE
