SPECIFICATION HookSpec
CONSTANTS
    Zero = Zero
    Users = {me, peer}
    Mints = {m}
    Nonces = {1}
    SettlementNonces = {r1, r2}
    Hashes = {h}
    Encryptions = {r1, r2}
    ProofNonces = {1}
    Chunks = {0, 1, 2, 3}
    MIN_INIT_WINDOW = 0
    MAX_INIT_WINDOW = 0
    EXECUTE_WINDOW = 0
    CLOCK_TOLERANCE = 0
    MaxTime = 1
    Horizon = 1
    MaxSettlements = 1
    Me = me
    Peer = peer
    Mint = m
    NoDeal = NoDeal
    NoTx = NoTx
    InitWindow = 0
    MaxPolls = 1
    MaxLate = 0
    Unreliable = FALSE
INVARIANT OwnRandomness
CHECK_DEADLOCK FALSE
