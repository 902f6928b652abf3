SPECIFICATION FairSpec
CONSTANTS
    Zero = Zero
    Users = {u1, u2, u3}
    Mints = {m1}
    Nonces = {1}
    SettlementNonces = {0}
    Hashes = {h1}
    Encryptions = {}
    ProofNonces = {1}
    Chunks = {0, 2}
    MIN_INIT_WINDOW = 1
    MAX_INIT_WINDOW = 2
    EXECUTE_WINDOW = 2
    CLOCK_TOLERANCE = 1
    MaxTime = 6
    Horizon = 2
    MaxSettlements = 1
INVARIANT TypeOK
INVARIANT LockSlotMatch
PROPERTY NeitherWalksAway
PROPERTY RefinesOtcDeals
PROPERTY LocksReleased
CHECK_DEADLOCK FALSE
