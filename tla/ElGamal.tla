------------------------------- MODULE ElGamal -------------------------------
(***************************************************************************)
(* sdk/src/crypto/elgamal.ts and regulator_key.ts: twisted ElGamal on Baby  *)
(* Jubjub and its decryption by baby-step giant-step.                       *)
(*                                                                          *)
(* The curve is a cyclic group of order 8 * SubOrder; a point stands as its *)
(* multiple of a generator of the whole group, so that point addition is    *)
(* addition modulo the order.  Limbs of 32 bits are limbs of STEP * STEP    *)
(* values.  A packed point has the point's y, which it shares with its       *)
(* negative and which stands as the two, and the sign of its x.              *)
(***************************************************************************)
EXTENDS Integers, FiniteSets

CONSTANTS
    SubOrder,   \* prime order of the subgroup Base8 generates
    STEP,       \* 65536
    DecryptionFailed

ASSUME GroupAssumption ==
    /\ SubOrder \in Nat /\ SubOrder % 2 = 1
    /\ STEP \in Nat \ {0} /\ STEP * STEP < SubOrder
    /\ DecryptionFailed \notin Nat

-----------------------------------------------------------------------------
(* @zk-kit/baby-jubjub *)

Order == 8 * SubOrder
Base8 == 8
addPoint(p, q) == (p + q) % Order
negPoint(p) == (Order - p) % Order
mulPointEscalar(p, k) == (p * k) % Order

packPoint(p) == [y |-> {p, negPoint(p)}, sign |-> p > negPoint(p)]
unpackPoint(b) == CHOOSE p \in b.y : packPoint(p).sign = b.sign

(* 64 zero bytes: y = 0 is that of the two points of order four.             *)
ZeroPoint == [y |-> {2 * SubOrder, 6 * SubOrder}, sign |-> FALSE]

-----------------------------------------------------------------------------
(* 253 random bits, not reduced: between five and six subgroup orders.       *)
randomFieldElement == 0 .. 5 * SubOrder + (SubOrder \div 4)

U32 == STEP * STEP

derivePublicKey(sk) == mulPointEscalar(Base8, sk)

encrypt(value, publicKey, r) ==
    [c1 |-> mulPointEscalar(Base8, r),
     c2 |-> addPoint(mulPointEscalar(publicKey, r), mulPointEscalar(Base8, value))]

(* The table of baby steps: j * Base8 for j below STEP.                      *)
BabySteps == [p \in {mulPointEscalar(Base8, j) : j \in 0..STEP - 1} |->
                  CHOOSE j \in 0..STEP - 1 : mulPointEscalar(Base8, j) = p]

(* The message point after i giant steps back.                               *)
Accumulator(messagePoint, i) ==
    addPoint(messagePoint, negPoint(mulPointEscalar(Base8, i * STEP)))

decryptU32(ct, sk) ==
    LET messagePoint == addPoint(ct.c2, negPoint(mulPointEscalar(ct.c1, sk)))
        hits == {i \in 0..STEP - 1 : Accumulator(messagePoint, i) \in DOMAIN BabySteps}
    IN  IF hits = {}
        THEN DecryptionFailed
        ELSE LET i == CHOOSE h \in hits : \A k \in hits : h <= k
             IN  i * STEP + BabySteps[Accumulator(messagePoint, i)]

serializeCiphertext(ct) == [c1 |-> packPoint(ct.c1), c2 |-> packPoint(ct.c2)]

deserializeCiphertext(bytes) == [c1 |-> unpackPoint(bytes.c1), c2 |-> unpackPoint(bytes.c2)]

-----------------------------------------------------------------------------
(* Amounts of 64 bits, one ciphertext per limb *)

encryptAmount(value, publicKey, r) ==
    [lo |-> serializeCiphertext(encrypt(value % U32, publicKey, r)),
     hi |-> serializeCiphertext(encrypt(value \div U32, publicKey, r + 1))]

(* Mutated form of decryptAmount: the limbs the other way round.             *)
decryptAmountSwapped(cts, sk) ==
    LET lo == decryptU32(deserializeCiphertext(cts.lo), sk)
        hi == decryptU32(deserializeCiphertext(cts.hi), sk)
    IN  IF DecryptionFailed \in {lo, hi} THEN DecryptionFailed ELSE lo * U32 + hi

decryptAmount(cts, sk) ==
    LET lo == decryptU32(deserializeCiphertext(cts.lo), sk)
        hi == decryptU32(deserializeCiphertext(cts.hi), sk)
    IN  IF DecryptionFailed \in {lo, hi} THEN DecryptionFailed ELSE hi * U32 + lo

=============================================================================
