SPECIFICATION Spec
CONSTANTS
    LIMB = 16
    FIELD = 521
    ByteBits = 2
    WordBytes = 2
    Mints = {1, 2}
    OtherMints = {2}
    Counterparties = {3}
    ElGamalKeys = {k1, k2, k3}
    DepositAmounts = {5, 33}
    WithdrawAmounts = {2, 18, 33}
    DealAmounts = {3, 19}
    Nonces = {200}
    Expiries = {28}
    Guesses = {0, 1, 15, 16, 520}
    None = None
INVARIANT WithdrawalsAccepted
CHECK_DEADLOCK FALSE
