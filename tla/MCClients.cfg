SPECIFICATION ClientSpec
CONSTANTS
    Zero = Zero
    NoRun = NoRun
    Initiators = {alice}
    alice = alice
    bob = bob
    usdc = usdc
    Users = {alice, bob}
    Mints = {usdc}
    Nonces = {1, 2}
    SettlementNonces = {0}
    Hashes = {h1, h2}
    Encryptions = {r1, r2}
    Runs = {r1, r2}
    ProofNonces = {1, 2}
    Chunks = {0, 1, 2, 3}
    MIN_INIT_WINDOW = 0
    MAX_INIT_WINDOW = 1
    EXECUTE_WINDOW = 0
    CLOCK_TOLERANCE = 0
    Seconds = {0}
    OFFSET = 1
    Skew = 1
    Counterparty = bob
    WatchedLedger <- TheLedger
    MaxTime = 2
    Horizon = 2
    MaxSettlements = 2
CONSTRAINT OneMiss
SYMMETRY Symmetry
INVARIANTS
    ClientTypeOK
    SettledByOneRun
    NoSecondAttempt
    AcceptsWhatWasVerified
CHECK_DEADLOCK FALSE
