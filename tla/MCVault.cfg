SPECIFICATION VaultSpec
CONSTANTS
    Zero = Zero
    Users = {u1, u2}
    Mints = {m1}
    Nonces = {1}
    SettlementNonces = {0, 1}
    Hashes = {h1}
    Encryptions = {e1}
    ProofNonces = {1}
    Chunks = {0, 1, 2}
    MIN_INIT_WINDOW = 1
    MAX_INIT_WINDOW = 1
    EXECUTE_WINDOW = 1
    CLOCK_TOLERANCE = 0
    MaxTime = 2
    Horizon = 1
    MaxSettlements = 2
    Amounts = {0, 1}
    WalletTokens = 1
SYMMETRY VaultSymmetry
INVARIANT VaultTypeOK
INVARIANT TokensConserved
INVARIANT RecordsInOrder
PROPERTY VersionTracksBalance
CHECK_DEADLOCK FALSE
