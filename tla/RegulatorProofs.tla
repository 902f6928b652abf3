--------------------------- MODULE RegulatorProofs ---------------------------
(***************************************************************************)
(* Decryption by baby-step giant-step inverts the twisted ElGamal            *)
(* encryption of an amount, limb by limb and through the packing of points,  *)
(* for every subgroup order, table size, key and randomness.  What the       *)
(* regulator is shown was read from the ledgers of the record on display and *)
(* is what a settlement moved, the record's own or a later one, and a         *)
(* registered key opens the deals prepared under it: for any number of       *)
(* deals, ledgers and wallets, any amounts, keys, randomness and sizes of    *)
(* old accounts.                                                             *)
(***************************************************************************)
EXTENDS Regulator, WellFoundedInduction, TLAPS

-----------------------------------------------------------------------------
(* Remainders *)

(* A remainder differs from its number by a multiple of the modulus.         *)
LEMMA RemainderOf ==
    ASSUME NEW n \in Nat \ {0}, NEW a \in Int
    PROVE  a % n \in 0 .. n - 1 /\ \E k \in Int : a = (a % n) + n * k
<1> DEFINE q == a \div n
           r == a % n
<1>1. r \in 0 .. n - 1 /\ q \in Int /\ a = n * q + r
  OBVIOUS
<1> HIDE DEF q, r
<1>2. a = r + n * q
  BY <1>1
<1> QED
  BY <1>1, <1>2 DEF r

(* Only multiples of the modulus that are not below it are at least n away.  *)
LEMMA NoMultipleBetween ==
    ASSUME NEW n \in Nat \ {0}, NEW k \in Int, n * k < n, n * k > -n
    PROVE  k = 0
<1>1. CASE k >= 1
  <2>1. n * k >= n * 1
    BY <1>1
  <2> QED
    BY <2>1
<1>2. CASE k <= -1
  <2>1. n * k <= n * (-1)
    BY <1>2
  <2> QED
    BY <2>1
<1> QED
  BY <1>1, <1>2

(* What is in range and differs by a multiple of the modulus is the          *)
(* remainder.                                                                *)
LEMMA RemainderIs ==
    ASSUME NEW n \in Nat \ {0}, NEW a \in Int, NEW b \in 0 .. n - 1,
           NEW k \in Int, a = b + n * k
    PROVE  a % n = b
<1>1. PICK q \in Int : a = (a % n) + n * q
  BY RemainderOf
<1>2. a % n \in 0 .. n - 1
  BY RemainderOf
<1> DEFINE r == a % n
<1>3. r \in 0 .. n - 1 /\ a = r + n * q
  BY <1>1, <1>2
<1> HIDE DEF r
<1>4. n * (q - k) = n * q - n * k
  OBVIOUS
<1>5. n * (q - k) = b - r
  BY <1>3, <1>4
<1>6. q - k = 0
  BY <1>3, <1>5, NoMultipleBetween
<1>7. n * (q - k) = 0
  BY <1>6
<1> QED
  BY <1>3, <1>5, <1>7 DEF r

-----------------------------------------------------------------------------
(* Points *)

Points == 0 .. Order - 1

LEMMA OrderIsPositive == Order \in Nat \ {0} /\ SubOrder \in Nat /\ STEP \in Nat \ {0}
  BY GroupAssumption DEF Order

(* The operations of the curve stay on the curve.                            *)
LEMMA PointsClosed ==
    ASSUME NEW p \in Int, NEW q \in Int
    PROVE  /\ addPoint(p, q) \in Points
           /\ negPoint(p) \in Points
           /\ mulPointEscalar(p, q) \in Points
<1>1. p + q \in Int /\ Order - p \in Int /\ p * q \in Int
  BY OrderIsPositive
<1> QED
  BY <1>1, OrderIsPositive, RemainderOf DEF addPoint, negPoint, mulPointEscalar, Points

(* Packing loses nothing.                                                    *)
LEMMA UnpackOfPack ==
    ASSUME NEW p \in Points
    PROVE  unpackPoint(packPoint(p)) = p
<1> DEFINE n == negPoint(p)
<1>1. p \in Nat /\ p < Order /\ Order \in Nat
  BY OrderIsPositive DEF Points
<1>2. CASE p = 0
  <2>1. Order = 0 + Order * 1
    BY OrderIsPositive
  <2>2. n = 0
    BY <1>2, <2>1, OrderIsPositive, RemainderIs DEF negPoint
  <2>3. \A x \in packPoint(p).y : x = p
    BY <1>2, <2>2 DEF packPoint
  <2>4. p \in packPoint(p).y /\ packPoint(p).sign = packPoint(p).sign
    BY DEF packPoint
  <2> QED
    BY <2>3, <2>4 DEF unpackPoint
<1>3. CASE p # 0
  <2>1. Order - p \in Points /\ Order - p = (Order - p) + Order * 0
    BY <1>1, <1>3 DEF Points
  <2>2. n = Order - p
    BY <1>1, <2>1, OrderIsPositive, RemainderIs DEF negPoint, Points
  <2>3. Order - n = p + Order * 0
    BY <1>1, <2>2
  <2>4. negPoint(n) = p
    BY <1>1, <2>2, <2>3, OrderIsPositive, RemainderIs DEF negPoint, Points
  <2>5. packPoint(n).sign = (n > p) /\ packPoint(p).sign = (p > n)
    BY <2>4 DEF packPoint
  <2>6. packPoint(p).y = {p, n}
    BY DEF packPoint
  <2>7. n = p \/ packPoint(n).sign # packPoint(p).sign
    BY <1>1, <2>2, <2>5
  <2> QED
    BY <2>6, <2>7 DEF unpackPoint
<1> QED
  BY <1>2, <1>3

-----------------------------------------------------------------------------
(* One limb *)

(* The least number principle, from the library's well-founded order.        *)
LEMMA SmallestElement ==
    ASSUME NEW S \in SUBSET Nat, S # {}
    PROVE  \E x \in S : \A k \in S : x <= k
<1> DEFINE R == OpToRel(<, Nat)
<1>1. IsWellFoundedOn(R, Nat)
  BY NatLessThanWellFounded
<1>2. R = {ss \in Nat \X Nat : ss[1] < ss[2]}
  BY DEF OpToRel
<1> HIDE DEF R
<1>3. PICK x \in S : \A y \in S : ~(<<y, x>> \in R)
  BY <1>1, WFMin
<1>4. ASSUME NEW k \in S PROVE x <= k
  <2>1. x \in Nat /\ k \in Nat /\ <<k, x>> \in Nat \X Nat
    OBVIOUS
  <2>2. <<k, x>> \in R <=> <<k, x>>[1] < <<k, x>>[2]
    BY <1>2, <2>1
  <2>3. ~(k < x)
    BY <1>3, <2>2
  <2> QED
    BY <2>1, <2>3
<1> QED
  BY <1>4

(* The key and the randomness cancel: what is left is the message's point.   *)
LEMMA MessagePoint ==
    ASSUME NEW v \in Nat, v < U32, NEW sk \in Nat, NEW r \in Nat
    PROVE  LET ct == encrypt(v, derivePublicKey(sk), r)
           IN  /\ ct.c1 \in Points /\ ct.c2 \in Points
               /\ addPoint(ct.c2, negPoint(mulPointEscalar(ct.c1, sk))) = 8 * v
<1> DEFINE N == Order
           pk == (8 * sk) % N
           c1 == (8 * r) % N
           shared == (pk * r) % N
           point == (8 * v) % N
           c2 == (shared + point) % N
           mine == (c1 * sk) % N
           neg == (N - mine) % N
<1>0. N \in Nat \ {0}
  BY OrderIsPositive
<1>1. 8 * v \in 0 .. N - 1
  BY GroupAssumption DEF U32, Order
<1> HIDE DEF N
<1>a. 8 * sk \in Int /\ 8 * r \in Int
  OBVIOUS
<1>2. pk \in 0 .. N - 1 /\ \E k \in Int : 8 * sk = pk + N * k
  BY <1>0, <1>a, RemainderOf
<1>3. c1 \in 0 .. N - 1 /\ \E k \in Int : 8 * r = c1 + N * k
  BY <1>0, <1>a, RemainderOf
<1> HIDE DEF pk, c1
<1>b. pk * r \in Int /\ c1 * sk \in Int
  BY <1>0, <1>2, <1>3
<1>4. shared \in 0 .. N - 1 /\ \E k \in Int : pk * r = shared + N * k
  BY <1>0, <1>b, RemainderOf
<1>5. mine \in 0 .. N - 1 /\ \E k \in Int : c1 * sk = mine + N * k
  BY <1>0, <1>b, RemainderOf
<1>6. point = 8 * v
  <2>1. 8 * v = 8 * v + N * 0
    BY <1>0
  <2> QED
    BY <1>0, <1>1, <2>1, RemainderIs
<1> HIDE DEF shared, mine, point
<1>c. shared + point \in Int /\ N - mine \in Int
  BY <1>0, <1>1, <1>4, <1>5, <1>6
<1>7. c2 \in 0 .. N - 1 /\ \E k \in Int : shared + point = c2 + N * k
  BY <1>0, <1>c, RemainderOf
<1>8. neg \in 0 .. N - 1 /\ \E k \in Int : N - mine = neg + N * k
  BY <1>0, <1>c, RemainderOf
<1> HIDE DEF c2, neg
<1>9. PICK k1 \in Int : 8 * sk = pk + N * k1
  BY <1>2
<1>10. PICK k2 \in Int : 8 * r = c1 + N * k2
  BY <1>3
<1>11. PICK k3 \in Int : pk * r = shared + N * k3
  BY <1>4
<1>12. PICK k4 \in Int : c1 * sk = mine + N * k4
  BY <1>5
<1>13. PICK k5 \in Int : shared + point = c2 + N * k5
  BY <1>7
<1>14. PICK k6 \in Int : N - mine = neg + N * k6
  BY <1>8
<1>15. (8 * sk) * r = (8 * r) * sk
  OBVIOUS
<1>16. (pk + N * k1) * r = (c1 + N * k2) * sk
  BY <1>9, <1>10, <1>15
<1>17. pk * r + N * (k1 * r) = c1 * sk + N * (k2 * sk)
  BY <1>0, <1>2, <1>3, <1>16
<1> DEFINE a == k1 * r
           b == k2 * sk
           K == (k4 + b) - (k3 + a) - k5 + 1 - k6
<1>18. a \in Int /\ b \in Int
  OBVIOUS
<1>19. shared + N * k3 + N * a = mine + N * k4 + N * b
  BY <1>11, <1>12, <1>17
<1> HIDE DEF a, b
<1>20. K \in Int
  BY <1>18
<1>21. N * K = (N * k4 + N * b) - (N * k3 + N * a) - N * k5 + N - N * k6
  BY <1>0, <1>18
<1>22. c2 + neg = 8 * v + N * K
  BY <1>0, <1>4, <1>5, <1>6, <1>7, <1>8, <1>13, <1>14, <1>18, <1>19, <1>21
<1> HIDE DEF K
<1>d. c2 + neg \in Int
  BY <1>0, <1>7, <1>8
<1>23. (c2 + neg) % N = 8 * v
  BY <1>0, <1>1, <1>d, <1>20, <1>22, RemainderIs
<1> QED
  BY <1>3, <1>7, <1>23
     DEF encrypt, derivePublicKey, addPoint, negPoint, mulPointEscalar, Base8, Points,
         N, pk, c1, shared, point, c2, mine, neg

(* The table of baby steps inverts multiplication by the base point.         *)
LEMMA BabyStepsInvert ==
    /\ DOMAIN BabySteps = {8 * j : j \in 0 .. STEP - 1}
    /\ \A j \in 0 .. STEP - 1 : BabySteps[8 * j] = j
<1>1. ASSUME NEW j \in 0 .. STEP - 1 PROVE mulPointEscalar(Base8, j) = 8 * j
  <2>1. 8 * j \in 0 .. Order - 1 /\ 8 * j \in Int
    <3>1. STEP * 1 <= STEP * STEP
      BY OrderIsPositive
    <3>2. STEP < SubOrder
      BY <3>1, GroupAssumption
    <3> QED
      BY <3>2, OrderIsPositive DEF Order
  <2>2. 8 * j = 8 * j + Order * 0
    BY <2>1, OrderIsPositive
  <2> QED
    BY <2>1, <2>2, OrderIsPositive, RemainderIs DEF mulPointEscalar, Base8
<1>2. DOMAIN BabySteps = {8 * j : j \in 0 .. STEP - 1}
  BY <1>1 DEF BabySteps
<1>3. ASSUME NEW j \in 0 .. STEP - 1 PROVE BabySteps[8 * j] = j
  <2>1. 8 * j \in {mulPointEscalar(Base8, i) : i \in 0 .. STEP - 1}
    BY <1>1
  <2>2. BabySteps[8 * j] = CHOOSE i \in 0 .. STEP - 1 : mulPointEscalar(Base8, i) = 8 * j
    BY <2>1 DEF BabySteps
  <2>3. \A i \in 0 .. STEP - 1 : mulPointEscalar(Base8, i) = 8 * j <=> i = j
    BY <1>1
  <2> QED
    BY <2>2, <2>3
<1> QED
  BY <1>2, <1>3

(* Among the giant steps exactly one lands on the table: the quotient.       *)
LEMMA GiantSteps ==
    ASSUME NEW v \in Nat, v < U32, NEW i \in 0 .. STEP - 1
    PROVE  /\ Accumulator(8 * v, i) \in DOMAIN BabySteps <=> i = v \div STEP
           /\ i = v \div STEP => Accumulator(8 * v, i) = 8 * (v - i * STEP)
<1> DEFINE N == Order
           d == v - i * STEP
           giant == (8 * (i * STEP)) % N
           back == (N - giant) % N
           q == v \div STEP
           j == v % STEP
<1>1. SubOrder \in Nat /\ STEP \in Nat \ {0} /\ STEP * STEP < SubOrder /\ N = 8 * SubOrder
  BY GroupAssumption DEF Order
<1>2. N \in Nat \ {0}
  BY <1>1
<1> HIDE DEF N
<1>3. i * STEP \in Nat /\ i * STEP <= STEP * STEP - STEP
  <2>1. i \in Nat /\ i <= STEP - 1
    BY <1>1
  <2>2. i * STEP <= (STEP - 1) * STEP
    BY <1>1, <2>1
  <2>3. (STEP - 1) * STEP = STEP * STEP - STEP
    BY <1>1
  <2> QED
    BY <1>1, <2>1, <2>2, <2>3
<1>4. giant = 8 * (i * STEP)
  <2> DEFINE x == 8 * (i * STEP)
  <2>1. x \in 0 .. N - 1 /\ x \in Int
    BY <1>1, <1>3
  <2> HIDE DEF x
  <2>2. x = x + N * 0
    BY <1>2, <2>1
  <2>3. x % N = x
    BY <1>2, <2>1, <2>2, RemainderIs
  <2> QED
    BY <2>3 DEF giant, x
<1> HIDE DEF giant
<1>5. back \in 0 .. N - 1 /\ \E k \in Int : N - giant = back + N * k
  <2>1. N - giant \in Int
    BY <1>2, <1>3, <1>4
  <2> QED
    BY <1>2, <2>1, RemainderOf
<1> HIDE DEF back
<1>6. PICK k1 \in Int : N - giant = back + N * k1
  BY <1>5
<1>7. 8 * v + back \in Int
  BY <1>2, <1>5
<1>8. (8 * v + back) % N \in 0 .. N - 1
      /\ \E k \in Int : 8 * v + back = ((8 * v + back) % N) + N * k
  BY <1>2, <1>7, RemainderOf
<1>9. Accumulator(8 * v, i) = (8 * v + back) % N
  BY DEF Accumulator, addPoint, negPoint, mulPointEscalar, Base8, N, back, giant
<1> DEFINE acc == (8 * v + back) % N
<1>10. PICK k2 \in Int : 8 * v + back = acc + N * k2
  BY <1>8
<1>11. acc \in 0 .. N - 1
  BY <1>8
<1> HIDE DEF acc
<1>12. d \in Int /\ d < SubOrder /\ d >= -(STEP * STEP) + STEP
  BY <1>1, <1>3 DEF U32
<1>13. 8 * d = 8 * v - giant
  BY <1>1, <1>3, <1>4
<1> HIDE DEF d
<1> DEFINE K == k1 + k2 - 1
<1>14. K \in Int /\ N * K = N * k1 + N * k2 - N
  BY <1>2
<1>15. 8 * d = acc + N * K
  BY <1>2, <1>5, <1>6, <1>10, <1>11, <1>13, <1>14, <1>3, <1>4
<1> HIDE DEF K
<1>16. v = STEP * q + j /\ q \in Int /\ j \in 0 .. STEP - 1
  BY <1>1
<1> HIDE DEF q, j
<1>17. ASSUME i = q PROVE d = j /\ acc = 8 * d
  <2>1. i * STEP = STEP * q
    BY <1>1, <1>16, <1>17
  <2>2. d = j
    BY <1>1, <1>16, <2>1 DEF d
  <2>3. 8 * d \in 0 .. N - 1 /\ 8 * d < N
    BY <1>1, <1>12, <1>16, <2>2
  <2>4. N * K < N /\ N * K > -N
    BY <1>2, <1>11, <1>14, <1>15, <2>3
  <2>5. K = 0
    BY <1>2, <1>14, <2>4, NoMultipleBetween
  <2>6. N * K = 0
    BY <1>2, <2>5
  <2> QED
    BY <1>2, <1>11, <1>12, <1>15, <2>2, <2>6
<1>18. ASSUME NEW b \in 0 .. STEP - 1, acc = 8 * b PROVE i = q
  <2>1. N * K = 8 * d - 8 * b
    BY <1>1, <1>2, <1>11, <1>12, <1>14, <1>15, <1>18
  <2>2. N * K < N /\ N * K > -N
    BY <1>1, <1>12, <2>1
  <2>3. K = 0
    BY <1>2, <1>14, <2>2, NoMultipleBetween
  <2>4. N * K = 0
    BY <1>2, <2>3
  <2>5. d = b
    BY <1>12, <2>1, <2>4
  <2>6. v = b + STEP * i
    BY <1>1, <1>3, <2>5 DEF d
  <2>7. STEP * (q - i) = STEP * q - STEP * i
    BY <1>1, <1>16
  <2>8. STEP * (q - i) = b - j
    BY <1>1, <1>16, <2>6, <2>7
  <2>9. STEP * (q - i) < STEP /\ STEP * (q - i) > -STEP
    BY <1>1, <1>16, <2>8
  <2>10. q - i = 0
    BY <1>1, <1>16, <2>9, NoMultipleBetween
  <2> QED
    BY <1>16, <2>10
<1>19. acc \in DOMAIN BabySteps <=> i = q
  <2>1. acc \in DOMAIN BabySteps <=> \E b \in 0 .. STEP - 1 : acc = 8 * b
    BY BabyStepsInvert
  <2> QED
    BY <1>16, <1>17, <1>18, <2>1
<1> QED
  BY <1>9, <1>17, <1>19 DEF acc, d, q

(* What is decrypted with the key it was encrypted for is what was encrypted. *)
LEMMA DecryptU32Inverse ==
    ASSUME NEW v \in Nat, v < U32, NEW sk \in Nat, NEW r \in Nat
    PROVE  decryptU32(encrypt(v, derivePublicKey(sk), r), sk) = v
<1> DEFINE ct == encrypt(v, derivePublicKey(sk), r)
           point == addPoint(ct.c2, negPoint(mulPointEscalar(ct.c1, sk)))
           q == v \div STEP
           j == v % STEP
           hits == {i \in 0 .. STEP - 1 : Accumulator(8 * v, i) \in DOMAIN BabySteps}
           h == CHOOSE x \in hits : \A k \in hits : x <= k
<1>1. point = 8 * v
  BY MessagePoint
<1>2. v = q * STEP + j /\ j \in 0 .. STEP - 1 /\ q \in Int
  <2>1. STEP \in Nat \ {0}
    BY OrderIsPositive
  <2>2. v = STEP * q + j /\ j \in 0 .. STEP - 1 /\ q \in Int
    BY <2>1
  <2> HIDE DEF q, j
  <2> QED
    BY <2>1, <2>2
<1> HIDE DEF j
<1>3. q \in 0 .. STEP - 1
  <2>1. v = q * STEP + j /\ j \in 0 .. STEP - 1 /\ q \in Int /\ v < STEP * STEP /\ STEP \in Nat \ {0}
    BY <1>2, OrderIsPositive DEF U32
  <2> HIDE DEF q
  <2>2. q >= 0
    <3> SUFFICES ASSUME q <= -1 PROVE FALSE
      BY <2>1
    <3>1. q * STEP <= (-1) * STEP
      BY <2>1
    <3> QED
      BY <2>1, <3>1
  <2>3. q < STEP
    <3> SUFFICES ASSUME q >= STEP PROVE FALSE
      BY <2>1
    <3>1. q * STEP >= STEP * STEP
      BY <2>1
    <3> QED
      BY <2>1, <3>1
  <2> QED
    BY <2>1, <2>2, <2>3
<1>4. hits = {q}
  BY <1>3, GiantSteps
<1>5. h = q
  <2>1. \A x \in hits : (\A k \in hits : x <= k) <=> x = q
    BY <1>3, <1>4
  <2> QED
    BY <1>4, <2>1
<1>6. Accumulator(8 * v, q) = 8 * (v - q * STEP)
  BY <1>3, GiantSteps
<1>7. BabySteps[Accumulator(8 * v, q)] = v - q * STEP
  <2> HIDE DEF q
  <2>1. v - q * STEP = j
    BY <1>2, OrderIsPositive
  <2> QED
    BY <1>2, <1>6, <2>1, BabyStepsInvert
<1>8. decryptU32(ct, sk) = h * STEP + BabySteps[Accumulator(8 * v, h)]
  BY <1>1, <1>4 DEF decryptU32
<1>9. q * STEP \in Int
  BY <1>2, OrderIsPositive
<1> HIDE DEF q, h, ct
<1>10. decryptU32(ct, sk) = q * STEP + (v - q * STEP)
  BY <1>5, <1>7, <1>8
<1> QED
  BY <1>9, <1>10 DEF ct

(* A decryption that does not fail is a natural number.                      *)
LEMMA DecryptU32Type ==
    ASSUME NEW ct, NEW sk
    PROVE  decryptU32(ct, sk) \in Nat \cup {DecryptionFailed}
<1> DEFINE point == addPoint(ct.c2, negPoint(mulPointEscalar(ct.c1, sk)))
           hits == {i \in 0 .. STEP - 1 : Accumulator(point, i) \in DOMAIN BabySteps}
           h == CHOOSE x \in hits : \A k \in hits : x <= k
           found == {x \in hits : \A k \in hits : x <= k}
<1>1. CASE hits = {}
  BY <1>1 DEF decryptU32
<1>2. CASE hits # {}
  <2>1. \E x \in hits : \A k \in hits : x <= k
    <3>1. hits \in SUBSET Nat
      BY OrderIsPositive
    <3> HIDE DEF hits
    <3> QED
      BY <1>2, <3>1, SmallestElement
  <2>2. h \in 0 .. STEP - 1 /\ Accumulator(point, h) \in DOMAIN BabySteps
    BY <2>1
  <2>3. PICK j \in 0 .. STEP - 1 : Accumulator(point, h) = 8 * j
    BY <2>2, BabyStepsInvert
  <2>4. BabySteps[Accumulator(point, h)] \in 0 .. STEP - 1
    BY <2>3, BabyStepsInvert
  <2>5. decryptU32(ct, sk) = h * STEP + BabySteps[Accumulator(point, h)]
    BY <1>2 DEF decryptU32
  <2> HIDE DEF h
  <2>6. h * STEP \in Nat
    BY <2>2, OrderIsPositive
  <2> QED
    BY <2>4, <2>5, <2>6
<1> QED
  BY <1>1, <1>2

LEMMA DecryptAmountType ==
    ASSUME NEW cts, NEW sk
    PROVE  decryptAmount(cts, sk) \in Nat \cup {DecryptionFailed}
<1> DEFINE lo == decryptU32(deserializeCiphertext(cts.lo), sk)
           hi == decryptU32(deserializeCiphertext(cts.hi), sk)
<1>1. lo \in Nat \cup {DecryptionFailed} /\ hi \in Nat \cup {DecryptionFailed}
  BY DecryptU32Type
<1>2. decryptAmount(cts, sk) =
          IF DecryptionFailed \in {lo, hi} THEN DecryptionFailed ELSE hi * U32 + lo
  BY DEF decryptAmount
<1>3. U32 \in Nat
  BY OrderIsPositive DEF U32
<1> HIDE DEF lo, hi
<1>4. CASE DecryptionFailed \in {lo, hi}
  BY <1>2, <1>4
<1>5. CASE DecryptionFailed \notin {lo, hi}
  <2>1. lo \in Nat /\ hi \in Nat
    BY <1>1, <1>5
  <2>2. hi * U32 \in Nat
    BY <1>3, <2>1
  <2> QED
    BY <1>2, <1>5, <2>1, <2>2
<1> QED
  BY <1>4, <1>5

(* The same through the stored bytes.                                        *)
LEMMA StoredLimb ==
    ASSUME NEW v \in Nat, v < U32, NEW sk \in Nat, NEW r \in Nat
    PROVE  decryptU32(deserializeCiphertext(serializeCiphertext(
                          encrypt(v, derivePublicKey(sk), r))), sk) = v
<1> DEFINE ct == encrypt(v, derivePublicKey(sk), r)
<1>1. ct.c1 \in Points /\ ct.c2 \in Points
  BY MessagePoint
<1>2. ct = [c1 |-> ct.c1, c2 |-> ct.c2]
  BY DEF encrypt
<1>3. decryptU32(ct, sk) = v
  BY DecryptU32Inverse
<1> HIDE DEF ct
<1>4. deserializeCiphertext(serializeCiphertext(ct)) = [c1 |-> ct.c1, c2 |-> ct.c2]
  BY <1>1, UnpackOfPack DEF deserializeCiphertext, serializeCiphertext
<1> QED
  BY <1>2, <1>3, <1>4 DEF ct

(* An amount of two limbs encrypted for a key is read back by that key, for   *)
(* every subgroup order, size of the table, secret key and randomness: the   *)
(* giant steps hit the table exactly once, and packing keeps the sign that   *)
(* tells a point from its negative (elgamal.ts:95-228, useSchemeB.ts:722,    *)
(* regulator.tsx:450).                                                       *)
THEOREM DecryptionIsInverse ==
    ASSUME NEW amount \in Nat, amount < U32 * U32, NEW sk \in Nat, NEW r \in Nat
    PROVE  decryptAmount(encryptAmount(amount, derivePublicKey(sk), r), sk) = amount
<1> DEFINE lo == amount % U32
           hi == amount \div U32
<1>1. U32 \in Nat \ {0}
  <2>1. STEP * 1 <= STEP * STEP
    BY OrderIsPositive
  <2> QED
    BY <2>1, OrderIsPositive DEF U32
<1>2. lo \in 0 .. U32 - 1 /\ hi \in Int /\ amount = U32 * hi + lo
  BY <1>1
<1> HIDE DEF lo, hi
<1>3. hi >= 0
  <2> SUFFICES ASSUME hi <= -1 PROVE FALSE
    BY <1>2
  <2>1. U32 * hi <= U32 * (-1)
    BY <1>1, <1>2
  <2> QED
    BY <1>1, <1>2, <2>1
<1>4. hi < U32
  <2> SUFFICES ASSUME hi >= U32 PROVE FALSE
    BY <1>1, <1>2
  <2>1. U32 * hi >= U32 * U32
    BY <1>1, <1>2
  <2> QED
    BY <1>1, <1>2, <2>1
<1>5. lo \in Nat /\ lo < U32 /\ hi \in Nat /\ r + 1 \in Nat
  BY <1>1, <1>2, <1>3
<1> DEFINE cts == encryptAmount(amount, derivePublicKey(sk), r)
<1>6. /\ cts.lo = serializeCiphertext(encrypt(lo, derivePublicKey(sk), r))
      /\ cts.hi = serializeCiphertext(encrypt(hi, derivePublicKey(sk), r + 1))
  BY DEF encryptAmount, lo, hi
<1>7. decryptU32(deserializeCiphertext(cts.lo), sk) = lo
  BY <1>5, <1>6, StoredLimb
<1>8. decryptU32(deserializeCiphertext(cts.hi), sk) = hi
  BY <1>4, <1>5, <1>6, StoredLimb
<1> HIDE DEF cts
<1>9. decryptAmount(cts, sk) = hi * U32 + lo
  BY <1>5, <1>7, <1>8, GroupAssumption DEF decryptAmount
<1>10. hi * U32 + lo = amount
  BY <1>1, <1>2
<1> QED
  BY <1>9, <1>10 DEF cts

-----------------------------------------------------------------------------
(* The inductive invariant *)

(* A key is only ever registered in a config of full size.                   *)
KeyFitsConfig == config.key # NoKey => config.size = CONFIG_SPACE

(* A ledger as it was read for a side of a deal with a record: it holds what  *)
(* the deal, or a later one with a larger version, left there.               *)
ReadFor(recs, l, d, s) ==
    LET e == l.from.deal
        version == recs[e][l.from.side]
    IN  /\ d \in DOMAIN recs /\ e \in DOMAIN recs /\ l.from \in Settlements
        /\ LedgerOf[e][l.from.side] = LedgerOf[d][s]
        /\ l.version >= version
        /\ e = d \/ version > recs[d][s]

LedgersLatest ==
    \A d \in DOMAIN records, s \in Sides : ReadFor(records, ledger[LedgerOf[d][s]], d, s)

(* While ledgers are read the page stays with the record they are read for;  *)
(* Reset, which would let go of it, is not offered then.                     *)
UnsealsItsRecord ==
    page.unseal # NotUnsealing =>
        /\ page.phase = "unsealing"
        /\ page.unseal.record = page.record
        /\ \A s \in DOMAIN page.unseal.read :
              ReadFor(records, page.unseal.read[s], page.record, s)

RecordExists == page.record \in Deals => page.record \in DOMAIN records

ShownForRecord ==
    page.phase = "revealed" =>
        /\ page.shown \in Displays
        /\ page.shown.of = page.record
        /\ \A s \in Sides : ReadFor(records, page.shown.ledgers[s], page.record, s)

PageInv == UnsealsItsRecord /\ RecordExists /\ ShownForRecord

RegulatorInv ==
    /\ RegulatorTypeOK /\ KeyFitsConfig /\ RegisteredKeyIsUsed
    /\ LedgersLatest /\ PageInv

-----------------------------------------------------------------------------
(* Types of ciphertexts *)

LEMMA SidesAB == Sides = {"a", "b"}
  BY DEF Sides

LEMMA PackedType ==
    ASSUME NEW p \in Points
    PROVE  packPoint(p) \in PackedPoints
  BY DEF PackedPoints, Points

(* Zero bytes are a point of the curve: one of order four.                   *)
LEMMA ZeroIsPacked == ZeroPoint \in PackedPoints
<1>1. SubOrder \in Nat /\ SubOrder > 0 /\ Order = 8 * SubOrder
  <2>1. STEP * STEP \in Nat
    BY OrderIsPositive
  <2> QED
    BY <2>1, GroupAssumption DEF Order
<1>2. 2 * SubOrder \in Points /\ 6 * SubOrder \in 0 .. Order - 1 /\ Order - 2 * SubOrder \in Int
  BY <1>1 DEF Points
<1>3. Order - 2 * SubOrder = 6 * SubOrder + Order * 0
  BY <1>1
<1>4. negPoint(2 * SubOrder) = 6 * SubOrder
  BY <1>2, <1>3, OrderIsPositive, RemainderIs DEF negPoint
<1>5. (2 * SubOrder > 6 * SubOrder) = FALSE
  BY <1>1
<1>6. packPoint(2 * SubOrder) = ZeroPoint
  BY <1>4, <1>5 DEF packPoint, ZeroPoint
<1> QED
  BY <1>2, <1>6, PackedType

LEMMA NoCtsType == NoCts \in StoredCts
  BY ZeroIsPacked DEF NoCts, StoredCts, Ciphertexts

LEMMA KeyIsPoint ==
    ASSUME NEW key \in Keys
    PROVE  key \in Points
  BY RegulatorAssumption, PointsClosed DEF Keys, derivePublicKey, Base8

LEMMA EncryptionType ==
    ASSUME NEW amount \in Nat, NEW key \in Keys, NEW r \in Nat
    PROVE  encryptAmount(amount, key, r) \in StoredCts
<1>1. key \in Int
  BY KeyIsPoint DEF Points
<1>2. ASSUME NEW v \in Int, NEW x \in Nat
      PROVE  serializeCiphertext(encrypt(v, key, x)) \in Ciphertexts
  <2>1. /\ mulPointEscalar(Base8, x) \in Points
        /\ mulPointEscalar(key, x) \in Points
        /\ mulPointEscalar(Base8, v) \in Points
    BY <1>1, PointsClosed DEF Base8
  <2>2. addPoint(mulPointEscalar(key, x), mulPointEscalar(Base8, v)) \in Points
    BY <2>1, PointsClosed DEF Points
  <2> QED
    BY <2>1, <2>2, PackedType DEF serializeCiphertext, encrypt, Ciphertexts
<1>3. U32 \in Nat \ {0}
  <2>1. STEP * STEP # 0 /\ STEP * STEP \in Nat
    BY OrderIsPositive
  <2> QED
    BY <2>1 DEF U32
<1>4. amount % U32 \in Int /\ amount \div U32 \in Int /\ r + 1 \in Nat
  BY <1>3
<1> QED
  BY <1>2, <1>4 DEF encryptAmount, StoredCts

(* Amounts and randomness are naturals in range.                             *)
LEMMA InputTypes ==
    /\ \A d \in Deals, s \in Sides : Amount[d][s] \in Nat /\ Amount[d][s] < U32 * U32
    /\ \A r \in Randoms : r \in Nat
    /\ \A w \in Wallets : SecretKey[w] \in Nat /\ KeyOf(w) \in Keys
<1>1. U32 * U32 \in Nat
  <2>1. U32 \in Nat
    BY OrderIsPositive DEF U32
  <2> QED
    BY <2>1
<1> QED
  BY <1>1, RegulatorAssumption DEF randomFieldElement, Keys, KeyOf

(* A decryption that is not a failure is a natural number.                   *)
LEMMA DecryptedType ==
    ASSUME NEW l, NEW key, Decrypted(l, key) # DecryptionFailed
    PROVE  Decrypted(l, key) \in Nat
  BY DecryptAmountType DEF Decrypted

-----------------------------------------------------------------------------
(* Ledgers and records *)

(* Records are never rewritten: what was read for one stays so.               *)
LEMMA ReadForStable ==
    ASSUME NEW recs, NEW more, NEW l, NEW d, NEW s, ReadFor(recs, l, d, s),
           \A e \in DOMAIN recs : e \in DOMAIN more /\ more[e] = recs[e]
    PROVE  ReadFor(more, l, d, s)
  BY DEF ReadFor

(* A ledger that grows, or that a deposit opens, is still that of its last    *)
(* settlement.                                                               *)
LEMMA ReadForGrows ==
    ASSUME NEW recs, recs \in [DOMAIN recs -> [Sides -> Nat]],
           NEW l \in Snapshots, NEW m \in Snapshots, NEW d, NEW s,
           ReadFor(recs, l, d, s), m.from = l.from, m.version >= l.version
    PROVE  ReadFor(recs, m, d, s)
<1>1. /\ l.from \in Settlements /\ l.from.deal \in DOMAIN recs
      /\ l.version >= recs[l.from.deal][l.from.side]
  BY DEF ReadFor
<1>2. recs[l.from.deal][l.from.side] \in Nat /\ l.version \in Nat /\ m.version \in Nat
  <2>1. recs[l.from.deal] \in [Sides -> Nat] /\ l.from.side \in Sides
    BY <1>1 DEF Settlements
  <2> QED
    BY <2>1 DEF Snapshots
<1>3. m.version >= recs[m.from.deal][m.from.side]
  BY <1>1, <1>2
<1> QED
  BY <1>3 DEF ReadFor

LEMMA LedgersOfDeal ==
    ASSUME NEW d \in Deals
    PROVE  /\ \A s \in Sides : LedgerOf[d][s] \in Ledgers
           /\ \A s, t \in Sides : LedgerOf[d][s] = LedgerOf[d][t] => s = t
<1>1. LedgerOf[d] \in [Sides -> Ledgers] /\ LedgerOf[d]["a"] # LedgerOf[d]["b"]
  BY RegulatorAssumption
<1> QED
  BY <1>1, SidesAB

(* A settlement changes the ledgers of its deal and no others.               *)
LEMMA AfterDealIs ==
    ASSUME NEW before \in [Ledgers -> Snapshots], NEW d \in Deals,
           NEW cts \in [Sides -> StoredCts]
    PROVE  /\ AfterDeal(before, d, cts) \in [Ledgers -> Snapshots]
           /\ \A s \in Sides :
                 /\ AfterDeal(before, d, cts)[LedgerOf[d][s]].version
                      = before[LedgerOf[d][s]].version + 1
                 /\ AfterDeal(before, d, cts)[LedgerOf[d][s]].cts = cts[s]
                 /\ AfterDeal(before, d, cts)[LedgerOf[d][s]].from
                      = [deal |-> d, side |-> s]
           /\ \A l \in Ledgers :
                 (\A s \in Sides : l # LedgerOf[d][s])
                     => AfterDeal(before, d, cts)[l] = before[l]
<1> DEFINE la == LedgerOf[d]["a"]
           lb == LedgerOf[d]["b"]
           Settled(l, s) == [size |-> l.size, version |-> l.version + 1, cts |-> cts[s],
                             from |-> [deal |-> d, side |-> s]]
           after == AfterDeal(before, d, cts)
<1>1. la \in Ledgers /\ lb \in Ledgers /\ la # lb /\ "a" \in Sides /\ "b" \in Sides
  BY RegulatorAssumption, SidesAB
<1>2. ASSUME NEW l \in Snapshots, NEW s \in Sides PROVE Settled(l, s) \in Snapshots
  <2>1. cts[s] \in StoredCts /\ [deal |-> d, side |-> s] \in Settlements
    BY DEF Settlements
  <2> QED
    BY <2>1 DEF Snapshots
<1>3. after = [before EXCEPT ![la] = Settled(@, "a"), ![lb] = Settled(@, "b")]
  BY DEF AfterDeal
<1> HIDE DEF after, Settled
<1>4. /\ after[la] = Settled(before[la], "a") /\ after[lb] = Settled(before[lb], "b")
      /\ DOMAIN after = Ledgers
      /\ \A l \in Ledgers : l # la /\ l # lb => after[l] = before[l]
      /\ after = [l \in Ledgers |-> after[l]]
  BY <1>1, <1>3
<1>5. \A l \in Ledgers : after[l] \in Snapshots
  BY <1>1, <1>2, <1>4
<1>6. after \in [Ledgers -> Snapshots]
  BY <1>4, <1>5
<1>7. \A s \in Sides : after[LedgerOf[d][s]] = Settled(before[LedgerOf[d][s]], s)
  BY <1>4, SidesAB
<1>8. \A l \in Ledgers : (\A s \in Sides : l # LedgerOf[d][s]) => after[l] = before[l]
  BY <1>1, <1>4
<1>9. ASSUME NEW l, NEW s
      PROVE  /\ Settled(l, s).version = l.version + 1 /\ Settled(l, s).cts = cts[s]
             /\ Settled(l, s).from = [deal |-> d, side |-> s]
  BY DEF Settled
<1>10. \A s \in Sides :
          /\ after[LedgerOf[d][s]].version = before[LedgerOf[d][s]].version + 1
          /\ after[LedgerOf[d][s]].cts = cts[s]
          /\ after[LedgerOf[d][s]].from = [deal |-> d, side |-> s]
  BY <1>7, <1>9
<1> QED
  BY <1>6, <1>8, <1>10, Zenon DEF after

(* A settlement of a deal: what it makes of the ledgers and of the records,   *)
(* of which the ledgers before it are the latest.                            *)
NewRecord(before, d, cts, after, recs, more) ==
    /\ before \in [Ledgers -> Snapshots] /\ d \in Deals /\ cts \in [Sides -> StoredCts]
    /\ after = AfterDeal(before, d, cts)
    /\ DOMAIN recs \subseteq Deals /\ d \notin DOMAIN recs
    /\ recs \in [DOMAIN recs -> [Sides -> Nat]]
    /\ \A e \in DOMAIN recs, s \in Sides : ReadFor(recs, before[LedgerOf[e][s]], e, s)
    /\ DOMAIN more = DOMAIN recs \cup {d} /\ more[d] = RecordOf(after, d)
    /\ \A e \in DOMAIN recs : more[e] = recs[e]

(* A settlement's record names the versions it leaves, which are larger than  *)
(* those of every earlier record of the same ledgers.                        *)
LEMMA RecordIsLatest ==
    ASSUME NEW before, NEW d, NEW cts, NEW after, NEW recs, NEW more,
           NewRecord(before, d, cts, after, recs, more)
    PROVE  /\ \A e \in DOMAIN more : more[e] \in [Sides -> Nat]
           /\ \A e \in DOMAIN more, s \in Sides :
                 ReadFor(more, after[LedgerOf[e][s]], e, s)
<1>0. /\ before \in [Ledgers -> Snapshots] /\ d \in Deals /\ cts \in [Sides -> StoredCts]
      /\ DOMAIN recs \subseteq Deals /\ d \notin DOMAIN recs
      /\ recs \in [DOMAIN recs -> [Sides -> Nat]]
      /\ \A e \in DOMAIN recs, s \in Sides : ReadFor(recs, before[LedgerOf[e][s]], e, s)
  BY DEF NewRecord
<1>1. /\ DOMAIN more = DOMAIN recs \cup {d}
      /\ more[d] = RecordOf(after, d)
      /\ \A e \in DOMAIN recs : e \in DOMAIN more /\ more[e] = recs[e]
  BY DEF NewRecord
<1>2. /\ after \in [Ledgers -> Snapshots]
      /\ \A s \in Sides :
            /\ after[LedgerOf[d][s]].version = before[LedgerOf[d][s]].version + 1
            /\ after[LedgerOf[d][s]].from = [deal |-> d, side |-> s]
      /\ \A l \in Ledgers :
            (\A s \in Sides : l # LedgerOf[d][s]) => after[l] = before[l]
  <2>1. after = AfterDeal(before, d, cts)
    BY DEF NewRecord
  <2> QED
    BY <1>0, <2>1, AfterDealIs
<1>3. \A s \in Sides : more[d][s] = before[LedgerOf[d][s]].version + 1
  <2>1. ASSUME NEW s \in Sides PROVE more[d][s] = after[LedgerOf[d][s]].version
    BY <1>1 DEF RecordOf
  <2> QED
    BY <1>2, <2>1
<1>4. \A l \in Ledgers : before[l].version \in Nat
  BY <1>0 DEF Snapshots
<1>5. \A e \in DOMAIN more : more[e] \in [Sides -> Nat]
  <2>1. RecordOf(after, d) \in [Sides -> Nat]
    <3>1. ASSUME NEW s \in Sides PROVE after[LedgerOf[d][s]].version \in Nat
      <4> DEFINE v == before[LedgerOf[d][s]].version
      <4>1. v \in Nat /\ after[LedgerOf[d][s]].version = v + 1
        BY <1>0, <1>2, <1>4, LedgersOfDeal
      <4> HIDE DEF v
      <4> QED
        BY <4>1
    <3> QED
      BY <3>1 DEF RecordOf
  <2>2. ASSUME NEW e \in DOMAIN recs PROVE more[e] \in [Sides -> Nat]
    BY <1>0, <1>1
  <2>3. more[d] \in [Sides -> Nat]
    BY <1>1, <2>1
  <2>4. ASSUME NEW e \in DOMAIN more PROVE e = d \/ e \in DOMAIN recs
    BY <1>1
  <2> QED
    BY <2>2, <2>3, <2>4
<1>6. ASSUME NEW e \in DOMAIN more, NEW s \in Sides
      PROVE  ReadFor(more, after[LedgerOf[e][s]], e, s)
  <2> DEFINE l == LedgerOf[e][s]
  <2>1. e \in Deals /\ l \in Ledgers
    BY <1>0, <1>1, <1>6, LedgersOfDeal
  <2>2. ASSUME NEW t \in Sides, l = LedgerOf[d][t]
        PROVE  ReadFor(more, after[l], e, s)
    <3>1. /\ after[l].from = [deal |-> d, side |-> t]
          /\ after[l].version = before[l].version + 1
          /\ more[d][t] = before[l].version + 1 /\ before[l].version \in Nat
      BY <1>2, <1>3, <1>4, <2>1, <2>2
    <3>2. CASE e = d
      <4> DEFINE x == after[l]
      <4>1. /\ x.from = [deal |-> d, side |-> t] /\ x.version = more[d][t]
            /\ more[d][t] \in Nat /\ LedgerOf[d][t] = LedgerOf[e][s] /\ e = d
            /\ d \in DOMAIN more
        BY <1>0, <1>1, <2>2, <3>1, <3>2
      <4> HIDE DEF x, l
      <4>2. x.from.deal = d /\ x.from.side = t /\ x.from \in Settlements
        BY <1>0, <4>1 DEF Settlements
      <4>3. x.version >= more[d][t]
        BY <4>1
      <4>4. ReadFor(more, x, e, s)
        BY <4>1, <4>2, <4>3 DEF ReadFor
      <4> QED
        BY <4>4 DEF x
    <3>3. CASE e # d
      <4>1. e \in DOMAIN recs /\ ReadFor(recs, before[l], e, s)
        BY <1>0, <1>1, <1>6, <3>3
      <4> DEFINE f == before[l].from
      <4>2. /\ f \in Settlements /\ f.deal \in DOMAIN recs
            /\ LedgerOf[f.deal][f.side] = LedgerOf[e][s]
            /\ before[l].version >= recs[f.deal][f.side]
            /\ f.deal = e \/ recs[f.deal][f.side] > recs[e][s]
        BY <4>1 DEF ReadFor
      <4>3. f.side \in Sides /\ recs[f.deal][f.side] \in Nat /\ recs[e][s] \in Nat
        <5>1. recs[f.deal] \in [Sides -> Nat] /\ recs[e] \in [Sides -> Nat]
          BY <1>0, <4>1, <4>2
        <5> QED
          BY <4>2, <5>1 DEF Settlements
      <4>4. f.deal = e => f.side = s
        BY <2>1, <4>2, <4>3, LedgersOfDeal
      <4> HIDE DEF f, l
      <4>5. before[l].version >= recs[e][s]
        BY <3>1, <4>2, <4>3, <4>4
      <4>6. more[d][t] > more[e][s] /\ after[l].version >= more[d][t]
        BY <1>1, <3>1, <4>1, <4>3, <4>5
      <4>7. d \in DOMAIN more /\ e \in DOMAIN more /\ [deal |-> d, side |-> t] \in Settlements
        BY <1>0, <1>1, <1>6 DEF Settlements
      <4>8. LedgerOf[d][t] = LedgerOf[e][s]
        BY <2>2 DEF l
      <4> DEFINE x == after[l]
      <4>9. /\ x.from.deal = d /\ x.from.side = t /\ x.from \in Settlements
            /\ x.version >= more[d][t]
        BY <3>1, <4>6, <4>7
      <4> HIDE DEF x
      <4>10. ReadFor(more, x, e, s)
        BY <4>6, <4>7, <4>8, <4>9 DEF ReadFor
      <4> QED
        BY <4>10 DEF x
    <3> QED
      BY <3>2, <3>3
  <2>3. CASE \A t \in Sides : l # LedgerOf[d][t]
    <3>1. e # d /\ after[l] = before[l]
      BY <1>2, <2>1, <2>3
    <3>2. ReadFor(recs, before[l], e, s)
      BY <1>0, <1>1, <1>6, <3>1
    <3> HIDE DEF l
    <3>3. ReadFor(more, before[l], e, s)
      BY <1>1, <3>2, ReadForStable
    <3> QED
      BY <3>1, <3>3 DEF l
  <2> QED
    BY <2>2, <2>3 DEF l
<1> QED
  BY <1>5, <1>6

-----------------------------------------------------------------------------
(* Initial states *)

(* A deal of an earlier version is as any other, without ciphertexts.         *)
LEMMA InitLedgers ==
    ASSUME Init
    PROVE  /\ ledger \in [Ledgers -> Snapshots] /\ DOMAIN records \subseteq Deals
           /\ records \in [DOMAIN records -> [Sides -> Nat]]
           /\ LedgersLatest
<1>1. PICK size \in [Ledgers -> OldSizes \cup {LEDGER_LEN}] :
         LET new == [l \in Ledgers |-> [size |-> size[l], version |-> 0, cts |-> NoCts,
                                       from |-> NoSettlement]]
         IN  \/ ledger = new /\ records = [e \in {} |-> 0]
             \/ \E d \in Deals :
                   /\ ledger = AfterDeal(new, d, [s \in Sides |-> NoCts])
                   /\ records = [e \in {d} |-> RecordOf(ledger, d)]
  BY DEF Init
<1> DEFINE new == [l \in Ledgers |-> [size |-> size[l], version |-> 0, cts |-> NoCts,
                                     from |-> NoSettlement]]
           none == [e \in {} |-> 0]
<1>2. new \in [Ledgers -> Snapshots]
  BY NoCtsType DEF Snapshots
<1>3. DOMAIN none = {} /\ none \in [DOMAIN none -> [Sides -> Nat]]
  OBVIOUS
<1>4. \/ ledger = new /\ records = none
      \/ \E d \in Deals :
            /\ ledger = AfterDeal(new, d, [s \in Sides |-> NoCts])
            /\ records = [e \in {d} |-> RecordOf(ledger, d)]
  BY <1>1
<1> HIDE DEF new, none
<1>5. CASE ledger = new /\ records = none
  BY <1>2, <1>3, <1>5 DEF LedgersLatest
<1>6. ASSUME NEW d \in Deals,
             ledger = AfterDeal(new, d, [s \in Sides |-> NoCts]),
             records = [e \in {d} |-> RecordOf(ledger, d)]
      PROVE  /\ ledger \in [Ledgers -> Snapshots] /\ DOMAIN records \subseteq Deals
             /\ records \in [DOMAIN records -> [Sides -> Nat]]
             /\ LedgersLatest
  <2>1. [s \in Sides |-> NoCts] \in [Sides -> StoredCts]
    BY NoCtsType
  <2>2. /\ DOMAIN records = DOMAIN none \cup {d} /\ records[d] = RecordOf(ledger, d)
        /\ \A e \in DOMAIN none : records[e] = none[e]
        /\ records = [e \in DOMAIN records |-> records[e]]
    BY <1>3, <1>6
  <2>3. /\ DOMAIN none \subseteq Deals /\ d \notin DOMAIN none
        /\ \A e \in DOMAIN none, s \in Sides : ReadFor(none, new[LedgerOf[e][s]], e, s)
    BY <1>3
  <2> DEFINE cts == [s \in Sides |-> NoCts]
  <2>4. cts \in [Sides -> StoredCts] /\ ledger = AfterDeal(new, d, cts)
    BY <1>6, <2>1
  <2> HIDE DEF cts
  <2>5. /\ \A e \in DOMAIN records : records[e] \in [Sides -> Nat]
        /\ \A e \in DOMAIN records, s \in Sides :
              ReadFor(records, ledger[LedgerOf[e][s]], e, s)
    <3>1. NewRecord(new, d, cts, ledger, none, records)
      BY <1>2, <1>3, <2>2, <2>3, <2>4 DEF NewRecord
    <3> QED
      BY <3>1, RecordIsLatest
  <2>6. ledger \in [Ledgers -> Snapshots]
    BY <1>2, <2>4, AfterDealIs
  <2>7. DOMAIN records \subseteq Deals /\ records \in [DOMAIN records -> [Sides -> Nat]]
    BY <1>3, <2>2, <2>5
  <2> QED
    BY <2>5, <2>6, <2>7 DEF LedgersLatest
<1> QED
  BY <1>4, <1>5, <1>6

LEMMA InitRegulator == Init => RegulatorInv
<1> SUFFICES ASSUME Init PROVE RegulatorInv
  OBVIOUS
<1> USE DEF Init
<1>1. RegulatorTypeOK
  <2>1. config \in [size: {0, OLD_CONFIG, CONFIG_SPACE},
                    authority: Wallets \cup {NoWallet}, key: Keys \cup {NoKey}]
    OBVIOUS
  <2>2. ledger \in [Ledgers -> Snapshots] /\ DOMAIN records \subseteq Deals
        /\ records \in [DOMAIN records -> [Sides -> Nat]]
    BY InitLedgers
  <2>4. prepared \in [Deals -> [status: {"no", "yes", "failed"},
                                cts: [Sides -> StoredCts], registered: Keys \cup {NoKey}]]
    BY NoCtsType DEF NotPrepared
  <2>5. page \in Pages
    BY DEF FreshPage, Pages, Phases
  <2> QED
    BY <2>1, <2>2, <2>4, <2>5 DEF RegulatorTypeOK
<1>2. KeyFitsConfig
  BY DEF KeyFitsConfig
<1>3. RegisteredKeyIsUsed
  BY DEF RegisteredKeyIsUsed, NotPrepared
<1>4. LedgersLatest
  BY InitLedgers
<1>5. PageInv
  <2>1. NoDeal \notin Deals
    BY RegulatorAssumption
  <2> QED
    BY <2>1 DEF PageInv, UnsealsItsRecord, RecordExists, ShownForRecord, FreshPage
<1> QED
  BY <1>1, <1>2, <1>3, <1>4, <1>5 DEF RegulatorInv

-----------------------------------------------------------------------------
(* Steps of the program, the scripts and the hook *)

(* What only changes the config keeps the rest.                              *)
LEMMA ConfigSteps ==
    ASSUME RegulatorInv, NEW u \in Wallets, NEW w \in Wallets,
           InitializePool(u) \/ MigrateConfig \/ RegisterRegulator(u, KeyOf(w)),
           script' \in {"start", "register", "done"}
    PROVE  RegulatorInv'
<1> USE DEF RegulatorInv
<1>1. /\ config' \in [size: {0, OLD_CONFIG, CONFIG_SPACE},
                      authority: Wallets \cup {NoWallet}, key: Keys \cup {NoKey}]
      /\ KeyFitsConfig'
  <2>1. /\ config \in [size: {0, OLD_CONFIG, CONFIG_SPACE},
                       authority: Wallets \cup {NoWallet}, key: Keys \cup {NoKey}]
        /\ OLD_CONFIG \in Nat /\ OLD_CONFIG < 171 /\ KeyFitsConfig
    BY RegulatorAssumption DEF RegulatorTypeOK, CONFIG_LEN
  <2>2. CASE InitializePool(u)
    BY <2>1, <2>2 DEF InitializePool, KeyFitsConfig
  <2>3. CASE MigrateConfig
    BY <2>1, <2>3 DEF MigrateConfig, MigratedSize, KeyFitsConfig, CONFIG_SPACE
  <2>4. CASE RegisterRegulator(u, KeyOf(w))
    BY <2>1, <2>4, InputTypes
       DEF RegisterRegulator, ConfigLoads, KeyFitsConfig, CONFIG_SPACE, CONFIG_LEN
  <2> QED
    BY <2>2, <2>3, <2>4
<1>2. UNCHANGED <<ledger, records, prepared, page>>
  BY DEF InitializePool, MigrateConfig, RegisterRegulator
<1> QED
  BY <1>1, <1>2
     DEF RegulatorTypeOK, RegisteredKeyIsUsed, LedgersLatest, PageInv, UnsealsItsRecord,
         RecordExists, ShownForRecord

(* A migration makes a ledger longer, a deposit advances its version.         *)
LEMMA LedgerSteps ==
    ASSUME RegulatorInv, NEW l \in Ledgers, MigrateLedgerScript(l) \/ OpenBalance(l)
    PROVE  RegulatorInv'
<1> USE DEF RegulatorInv
<1>1. ledger \in [Ledgers -> Snapshots] /\ records \in [DOMAIN records -> [Sides -> Nat]]
      /\ DOMAIN records \subseteq Deals
  BY DEF RegulatorTypeOK
<1>2. UNCHANGED <<config, records, prepared, page>> /\ script' = script
  BY DEF MigrateLedgerScript, MigrateLedger, OpenBalance
<1>3. \/ \E n \in {ledger[l].size, LEDGER_LEN} : ledger' = [ledger EXCEPT ![l].size = n]
      \/ ledger' = [ledger EXCEPT ![l].version = ledger[l].version + 1]
  <2>1. CASE MigrateLedgerScript(l)
    BY <2>1 DEF MigrateLedgerScript, MigrateLedger
  <2>2. CASE OpenBalance(l)
    BY <2>2 DEF OpenBalance
  <2> QED
    BY <2>1, <2>2
<1>4. /\ ledger' \in [Ledgers -> Snapshots]
      /\ \A m \in Ledgers : /\ ledger'[m].from = ledger[m].from
                            /\ ledger'[m].version >= ledger[m].version
  <2>1. \A m \in Ledgers : ledger[m] \in Snapshots /\ ledger[m].version \in Nat
    BY <1>1 DEF Snapshots
  <2>2. DOMAIN ledger' = Ledgers /\ ledger' = [m \in Ledgers |-> ledger'[m]]
    BY <1>1, <1>3
  <2>3. \A m \in Ledgers : m # l => ledger'[m] = ledger[m]
    BY <1>1, <1>3
  <2> DEFINE x == ledger[l]
  <2>4. \/ \E n \in {x.size, LEDGER_LEN} : ledger'[l] = [x EXCEPT !.size = n]
        \/ ledger'[l] = [x EXCEPT !.version = x.version + 1]
    BY <1>1, <1>3
  <2>5. x \in Snapshots
    BY <2>1
  <2> HIDE DEF x
  <2>6. /\ ledger'[l] \in Snapshots /\ ledger'[l].from = x.from
        /\ ledger'[l].version >= x.version
    BY <2>4, <2>5 DEF Snapshots
  <2>7. \A m \in Ledgers : /\ ledger'[m] \in Snapshots /\ ledger'[m].from = ledger[m].from
                           /\ ledger'[m].version >= ledger[m].version
    BY <2>1, <2>3, <2>6 DEF x
  <2> QED
    BY <2>2, <2>7
<1>5. LedgersLatest'
  <2> SUFFICES ASSUME NEW d \in DOMAIN records, NEW s \in Sides
               PROVE  ReadFor(records, ledger'[LedgerOf[d][s]], d, s)
    BY <1>2 DEF LedgersLatest
  <2>1. LedgerOf[d][s] \in Ledgers
    BY <1>1, LedgersOfDeal
  <2>2. ReadFor(records, ledger[LedgerOf[d][s]], d, s)
    BY DEF LedgersLatest
  <2> DEFINE x == ledger[LedgerOf[d][s]]
             y == ledger'[LedgerOf[d][s]]
  <2>3. /\ x \in Snapshots /\ y \in Snapshots /\ ReadFor(records, x, d, s)
        /\ y.from = x.from /\ y.version >= x.version
    BY <1>1, <1>4, <2>1, <2>2
  <2> HIDE DEF x, y
  <2>4. ReadFor(records, y, d, s)
    BY <1>1, <2>3, ReadForGrows
  <2> QED
    BY <2>4 DEF y
<1>6. RegulatorTypeOK'
  BY <1>2, <1>4 DEF RegulatorTypeOK
<1> QED
  BY <1>2, <1>5, <1>6
     DEF KeyFitsConfig, RegisteredKeyIsUsed, PageInv, UnsealsItsRecord, RecordExists,
         ShownForRecord

(* Chunks prepared while a key is registered can be opened by that key: the   *)
(* config is large enough to be looked at whenever it holds a key.           *)
LEMMA PrepareSteps ==
    ASSUME RegulatorInv, NEW d \in Deals, EncryptForRegulator(d) \/ EncryptFails(d)
    PROVE  RegulatorInv'
<1> USE DEF RegulatorInv
<1>1. /\ prepared \in [Deals -> [status: {"no", "yes", "failed"},
                                 cts: [Sides -> StoredCts], registered: Keys \cup {NoKey}]]
      /\ config.key \in Keys \cup {NoKey}
  BY DEF RegulatorTypeOK
<1>2. UNCHANGED <<config, ledger, records, script, page>>
  BY DEF EncryptForRegulator, EncryptFails
<1>3. /\ prepared' \in [Deals -> [status: {"no", "yes", "failed"},
                                  cts: [Sides -> StoredCts], registered: Keys \cup {NoKey}]]
      /\ RegisteredKeyIsUsed'
  <2>1. CASE EncryptFails(d)
    <3>1. prepared' = [prepared EXCEPT ![d].status = "failed"]
      BY <2>1 DEF EncryptFails
    <3> QED
      BY <1>1, <3>1 DEF RegisteredKeyIsUsed
  <2>2. CASE EncryptForRegulator(d)
    <3>1. PICK r \in Randoms :
            prepared' = [prepared EXCEPT ![d] =
                [status |-> "yes",
                 cts |-> IF KeySeen
                         THEN [s \in Sides |-> encryptAmount(Amount[d][s], config.key, r)]
                         ELSE @.cts,
                 registered |-> config.key]]
      BY <2>2 DEF EncryptForRegulator
    <3>2. CASE KeySeen
      <4>1. config.key \in Keys
        BY <1>1, <3>2 DEF KeySeen
      <4> DEFINE cts == [s \in Sides |-> encryptAmount(Amount[d][s], config.key, r)]
      <4>2. cts \in [Sides -> StoredCts]
        BY <4>1, EncryptionType, InputTypes
      <4>3. PICK w \in Wallets : KeyOf(w) = config.key
        BY <4>1 DEF Keys, KeyOf
      <4>4. ASSUME NEW s \in Sides
            PROVE  decryptAmount(cts[s], SecretKey[w]) = Amount[d][s]
        <5>1. /\ Amount[d][s] \in Nat /\ Amount[d][s] < U32 * U32
              /\ SecretKey[w] \in Nat /\ r \in Nat
          BY InputTypes
        <5> QED
          BY <4>3, <5>1, DecryptionIsInverse DEF KeyOf
      <4> HIDE DEF cts
      <4>5. prepared' = [prepared EXCEPT ![d] =
                [status |-> "yes", cts |-> cts, registered |-> config.key]]
        BY <3>1, <3>2 DEF cts
      <4>6. /\ prepared' \in [Deals -> [status: {"no", "yes", "failed"},
                                        cts: [Sides -> StoredCts],
                                        registered: Keys \cup {NoKey}]]
            /\ prepared'[d].cts = cts /\ prepared'[d].registered = config.key
            /\ \A e \in Deals \ {d} : prepared'[e] = prepared[e]
        BY <1>1, <4>1, <4>2, <4>5
      <4> QED
        BY <4>3, <4>4, <4>6 DEF RegisteredKeyIsUsed
    <3>3. CASE ~KeySeen
      <4>1. config.key = NoKey
        BY <3>3 DEF KeySeen, KeyFitsConfig, CONFIG_SPACE, CONFIG_LEN
      <4>2. prepared' = [prepared EXCEPT ![d] =
                [status |-> "yes", cts |-> prepared[d].cts, registered |-> NoKey]]
        BY <3>1, <3>3, <4>1
      <4>3. /\ prepared' \in [Deals -> [status: {"no", "yes", "failed"},
                                        cts: [Sides -> StoredCts],
                                        registered: Keys \cup {NoKey}]]
            /\ prepared'[d].registered = NoKey
            /\ \A e \in Deals \ {d} : prepared'[e] = prepared[e]
        BY <1>1, <4>2
      <4> QED
        BY <4>3 DEF RegisteredKeyIsUsed
    <3> QED
      BY <3>2, <3>3
  <2> QED
    BY <2>1, <2>2
<1> QED
  BY <1>2, <1>3
     DEF RegulatorTypeOK, KeyFitsConfig, LedgersLatest, PageInv, UnsealsItsRecord,
         RecordExists, ShownForRecord

(* An execute advances its ledgers and adds a record of what it leaves; the   *)
(* records the page may show stay as they are.                               *)
LEMMA ExecuteStep ==
    ASSUME RegulatorInv, NEW d \in Deals, ExecuteSettle(d)
    PROVE  RegulatorInv'
<1> USE DEF RegulatorInv
<1>1. /\ ledger \in [Ledgers -> Snapshots]
      /\ prepared[d].cts \in [Sides -> StoredCts]
      /\ DOMAIN records \subseteq Deals /\ records \in [DOMAIN records -> [Sides -> Nat]]
  BY DEF RegulatorTypeOK
<1>2. /\ d \notin DOMAIN records
      /\ ledger' = AfterDeal(ledger, d, prepared[d].cts)
      /\ records' = [e \in DOMAIN records \cup {d} |->
                        IF e = d THEN RecordOf(ledger', d) ELSE records[e]]
      /\ UNCHANGED <<config, prepared, script, page>>
  BY DEF ExecuteSettle
<1>3. \A e \in DOMAIN records, s \in Sides :
         ReadFor(records, ledger[LedgerOf[e][s]], e, s)
  BY DEF LedgersLatest
<1>4. /\ ledger' \in [Ledgers -> Snapshots]
      /\ DOMAIN records' \subseteq Deals /\ records' \in [DOMAIN records' -> [Sides -> Nat]]
      /\ \A e \in DOMAIN records : e \in DOMAIN records' /\ records'[e] = records[e]
      /\ \A e \in DOMAIN records', s \in Sides :
            ReadFor(records', ledger'[LedgerOf[e][s]], e, s)
  <2> DEFINE cts == prepared[d].cts
  <2>1. cts \in [Sides -> StoredCts] /\ ledger' = AfterDeal(ledger, d, cts)
    BY <1>1, <1>2
  <2> HIDE DEF cts
  <2>2. /\ DOMAIN records' = DOMAIN records \cup {d} /\ records'[d] = RecordOf(ledger', d)
        /\ \A e \in DOMAIN records : records'[e] = records[e]
        /\ records' = [e \in DOMAIN records' |-> records'[e]]
    BY <1>2
  <2>3. /\ \A e \in DOMAIN records' : records'[e] \in [Sides -> Nat]
        /\ \A e \in DOMAIN records', s \in Sides :
              ReadFor(records', ledger'[LedgerOf[e][s]], e, s)
    <3>1. NewRecord(ledger, d, cts, ledger', records, records')
      BY <1>1, <1>2, <1>3, <2>1, <2>2 DEF NewRecord
    <3> QED
      BY <3>1, RecordIsLatest
  <2>4. ledger' \in [Ledgers -> Snapshots]
    BY <1>1, <2>1, AfterDealIs
  <2> QED
    BY <1>1, <2>2, <2>3, <2>4
<1>5. LedgersLatest'
  BY <1>4 DEF LedgersLatest
<1>6. \A l, e, s : ReadFor(records, l, e, s) => ReadFor(records', l, e, s)
  BY <1>4, ReadForStable
<1>7. PageInv'
  <2>1. UnsealsItsRecord'
    BY <1>2, <1>6 DEF PageInv, UnsealsItsRecord
  <2>2. RecordExists'
    BY <1>2, <1>4 DEF PageInv, RecordExists
  <2>3. ShownForRecord'
    BY <1>2, <1>6 DEF PageInv, ShownForRecord
  <2> QED
    BY <2>1, <2>2, <2>3 DEF PageInv
<1>8. KeyFitsConfig' /\ RegisteredKeyIsUsed'
  BY <1>2 DEF KeyFitsConfig, RegisteredKeyIsUsed
<1>9. RegulatorTypeOK'
  BY <1>2, <1>4 DEF RegulatorTypeOK
<1> QED
  BY <1>5, <1>7, <1>8, <1>9

-----------------------------------------------------------------------------
(* Steps of the page *)

(* The page reads the chain and does not write it.                           *)
LEMMA PageFrame ==
    ASSUME RegulatorInv, UNCHANGED Chain, page' \in Pages, PageInv'
    PROVE  RegulatorInv'
<1>1. UNCHANGED <<config, ledger, records, prepared, script>>
  BY DEF Chain
<1> QED
  BY <1>1
     DEF RegulatorInv, RegulatorTypeOK, KeyFitsConfig, RegisteredKeyIsUsed, LedgersLatest

LEMMA PageFields ==
    ASSUME NEW p \in Pages
    PROVE  /\ p = [phase |-> p.phase, addr |-> p.addr, record |-> p.record, key |-> p.key,
                   signing |-> p.signing, unseal |-> p.unseal, shown |-> p.shown]
           /\ p.phase \in Phases
           /\ p.addr \in Addresses \cup {NoDeal} /\ p.record \in Addresses \cup {NoDeal}
           /\ p.key \in Nat \cup {NoKey} /\ p.signing \in Wallets \cup {NoWallet}
           /\ p.unseal \in Unsealings \cup {NotUnsealing}
           /\ p.shown \in Displays \cup {NotShown}
  BY DEF Pages

(* An unsealing has a record, which the empty one has not.                   *)
LEMMA UnsealingHasRecord ==
    ASSUME NEW u \in Unsealings
    PROVE  /\ u.record \in Addresses /\ u.record # NoDeal /\ u # NotUnsealing
           /\ u.key \in Nat /\ u.read \in Reads
  BY RegulatorAssumption DEF Unsealings, NotUnsealing, Addresses

(* Queries and signatures, while no ledgers are read or with what is *)
(* read left alone.                                                          *)
LEMMA QuerySteps ==
    ASSUME RegulatorInv,
           \/ \E d \in Addresses : FetchRecord(d)
           \/ \E w \in Wallets : SignWithWallet(w)
           \/ RecordFound \/ RecordNotFound \/ Signed
    PROVE  RegulatorInv'
<1>0. \/ \E d \in Addresses : FetchRecord(d)
      \/ \E w \in Wallets : SignWithWallet(w)
      \/ RecordFound \/ RecordNotFound \/ Signed
  OBVIOUS
<1>1. page \in Pages /\ PageInv /\ DOMAIN records \subseteq Deals
  BY DEF RegulatorInv, RegulatorTypeOK
<1>2. UNCHANGED Chain /\ UNCHANGED records
  BY DEF FetchRecord, RecordFound, RecordNotFound, SignWithWallet, Signed, Chain
<1>3. page' \in Pages /\ PageInv'
  <2> USE DEF PageInv, UnsealsItsRecord, RecordExists, ShownForRecord
  <2>1. ASSUME NEW d \in Addresses, FetchRecord(d) PROVE page' \in Pages /\ PageInv'
    <3>1. /\ page.phase \in {"input", "error"}
          /\ page' = [page EXCEPT !.phase = "searching", !.addr = d]
      BY <2>1 DEF FetchRecord, InputOffered
    <3> QED
      BY <1>1, <1>2, <3>1 DEF Pages, Phases
  <2>2. CASE RecordFound
    <3>1. /\ page.phase = "searching" /\ page.addr \in DOMAIN records \cup OtherAccounts
          /\ page' = [page EXCEPT !.phase = "demandKey", !.record = page.addr,
                                  !.addr = NoDeal]
      BY <2>2 DEF RecordFound
    <3>2. page.addr \in Addresses /\ (page.addr \in Deals => page.addr \in DOMAIN records)
      BY <1>1, <3>1, RegulatorAssumption DEF Addresses
    <3> QED
      BY <1>1, <1>2, <3>1, <3>2 DEF Pages, Phases
  <2>3. CASE RecordNotFound
    <3>1. /\ page.phase = "searching"
          /\ page' = [page EXCEPT !.phase = "error", !.record = NoDeal, !.addr = NoDeal]
      BY <2>3 DEF RecordNotFound
    <3> QED
      BY <1>1, <1>2, <3>1, RegulatorAssumption DEF Pages, Phases
  <2>4. ASSUME NEW w \in Wallets, SignWithWallet(w) PROVE page' \in Pages /\ PageInv'
    <3>1. page' = [page EXCEPT !.signing = w]
      BY <2>4 DEF SignWithWallet
    <3> QED
      BY <1>1, <1>2, <3>1 DEF Pages
  <2>5. CASE Signed
    <3>1. PICK k \in {page.key, SecretKey[page.signing]} :
            page' = [page EXCEPT !.key = k, !.signing = NoWallet]
      BY <2>5 DEF Signed
    <3>2. page.signing # NoWallet
      BY <2>5 DEF Signed
    <3>3. k \in Nat \cup {NoKey}
      BY <1>1, <3>1, <3>2, InputTypes DEF Pages
    <3> QED
      BY <1>1, <1>2, <3>1, <3>3 DEF Pages
  <2> QED
    BY <1>0, <2>1, <2>2, <2>3, <2>4, <2>5
<1> QED
  BY <1>2, <1>3, PageFrame

LEMMA LeaveSteps ==
    ASSUME RegulatorInv, Reset \/ Leave
    PROVE  RegulatorInv'
<1>1. page \in Pages /\ PageInv
  BY DEF RegulatorInv, RegulatorTypeOK
<1>2. UNCHANGED Chain
  BY DEF Reset, Leave, Chain
<1>3. FreshPage \in Pages
  BY DEF FreshPage, Pages, Phases
<1>4. page' \in Pages /\ PageInv'
  <2> USE DEF PageInv, UnsealsItsRecord, RecordExists, ShownForRecord
  <2>1. CASE Leave
    BY <1>3, <2>1, RegulatorAssumption DEF Leave, FreshPage
  <2>2. CASE Reset
    <3>1. page.phase \in {"demandKey", "revealed"} /\ page' = Cleared
      BY <2>2 DEF Reset, ResetOffered
    <3>2. page.unseal = NotUnsealing
      BY <1>1, <3>1
    <3>3. page' = [FreshPage EXCEPT !.signing = page.signing, !.unseal = NotUnsealing]
      BY <3>1, <3>2 DEF Cleared
    <3> QED
      BY <1>1, <1>3, <3>3, RegulatorAssumption DEF FreshPage, Pages
  <2> QED
    BY <2>1, <2>2
<1> QED
  BY <1>2, <1>4, PageFrame

(* An unsealing starts with the record on the page.                          *)
LEMMA UnsealStep ==
    ASSUME RegulatorInv, Unseal
    PROVE  RegulatorInv'
<1>1. page \in Pages /\ PageInv
  BY DEF RegulatorInv, RegulatorTypeOK
<1>2. UNCHANGED Chain /\ UNCHANGED records
  BY DEF Unseal, Chain
<1> DEFINE u == [record |-> page.record, key |-> page.key, read |-> [s \in {} |-> 0]]
<1>3. page.phase = "demandKey" /\ page.record # NoDeal /\ page.key # NoKey
  BY DEF Unseal, KeyDemanded
<1>4. u \in Unsealings /\ u.record = page.record /\ DOMAIN u.read = {}
  <2>1. page.record \in Addresses /\ page.key \in Nat
    BY <1>1, <1>3, PageFields
  <2>2. [s \in {} |-> 0] \in [{} -> Snapshots]
    OBVIOUS
  <2> QED
    BY <2>1, <2>2 DEF Unsealings, Reads
<1>5. page' = [page EXCEPT !.phase = "unsealing", !.unseal = u]
  BY DEF Unseal
<1> HIDE DEF u
<1>6. page' \in Pages
  BY <1>1, <1>4, <1>5 DEF Pages, Phases
<1>7. /\ page'.phase = "unsealing" /\ page'.unseal = u /\ page'.record = page.record
  BY <1>1, <1>5 DEF Pages
<1>8. PageInv'
  BY <1>1, <1>2, <1>3, <1>4, <1>7
     DEF PageInv, UnsealsItsRecord, RecordExists, ShownForRecord
<1> QED
  BY <1>2, <1>6, <1>8, PageFrame

(* A ledger read for a record holds what its latest settlement left there.    *)
LEMMA LedgerReadStep ==
    ASSUME RegulatorInv, NEW s \in Sides, LedgerRead(s)
    PROVE  RegulatorInv'
<1>1. /\ page \in Pages /\ PageInv /\ ledger \in [Ledgers -> Snapshots]
      /\ DOMAIN records \subseteq Deals /\ LedgersLatest
  BY DEF RegulatorInv, RegulatorTypeOK
<1>2. UNCHANGED Chain /\ UNCHANGED records
  BY DEF LedgerRead, Chain
<1> DEFINE u == page.unseal
           x == ledger[LedgerOf[u.record][s]]
           read == [t \in DOMAIN u.read \cup {s} |-> IF t = s THEN x ELSE u.read[t]]
           v == [record |-> u.record, key |-> u.key, read |-> read]
<1>3. u \in Unsealings /\ u.record \in Deals
  BY <1>1, PageFields DEF LedgerRead
<1>4. u = [record |-> u.record, key |-> u.key, read |-> u.read]
      /\ u.record \in Addresses /\ u.key \in Nat /\ u.read \in Reads
  BY <1>3 DEF Unsealings
<1>5. page' = [page EXCEPT !.unseal.read = read]
  BY DEF LedgerRead
<1>6. page' = [page EXCEPT !.unseal = v]
  <2>1. page' = [page EXCEPT !.unseal = [u EXCEPT !.read = read]]
    BY <1>5
  <2>2. [u EXCEPT !.read = read] = v
    BY <1>4
  <2> QED
    BY <2>1, <2>2
<1>7. x \in Snapshots
  BY <1>1, <1>3, LedgersOfDeal
<1>8. /\ page.phase = "unsealing" /\ u.record = page.record
      /\ page.record \in DOMAIN records
      /\ \A t \in DOMAIN u.read : ReadFor(records, u.read[t], page.record, t)
  <2>1. page.unseal # NotUnsealing /\ u.record # NoDeal
    BY <1>3, UnsealingHasRecord
  <2> QED
    BY <1>1, <1>3, <2>1 DEF PageInv, UnsealsItsRecord, RecordExists
<1>9. ReadFor(records, x, page.record, s)
  BY <1>1, <1>8 DEF LedgersLatest
<1> HIDE DEF x
<1>10. read \in Reads
  <2>1. \A t \in DOMAIN u.read : u.read[t] \in Snapshots
    BY <1>4 DEF Reads
  <2>2. \A t \in DOMAIN read : read[t] \in Snapshots
    BY <1>7, <2>1
  <2>3. DOMAIN u.read \in {{}, {"a"}, {"b"}, Sides}
    BY <1>4 DEF Reads
  <2>4. DOMAIN read \in {{"a"}, {"b"}, Sides}
    <3>1. DOMAIN read = DOMAIN u.read \cup {s}
      OBVIOUS
    <3> QED
      BY <2>3, <3>1, SidesAB
  <2>5. read = [t \in DOMAIN read |-> read[t]]
    OBVIOUS
  <2> HIDE DEF read
  <2>6. read \in [DOMAIN read -> Snapshots]
    BY <2>2, <2>5
  <2> QED
    BY <2>4, <2>6 DEF Reads
<1>11. v \in Unsealings
  BY <1>4, <1>10 DEF Unsealings
<1>12. /\ v.record = u.record /\ v.read = read
       /\ DOMAIN read = DOMAIN u.read \cup {s}
       /\ read[s] = x
       /\ \A t \in DOMAIN u.read \ {s} : read[t] = u.read[t]
  OBVIOUS
<1> HIDE DEF v, read, u
<1>13. \A t \in DOMAIN v.read : ReadFor(records, v.read[t], page.record, t)
  BY <1>8, <1>9, <1>12
<1>14. page' \in Pages
  BY <1>1, <1>6, <1>11 DEF Pages
<1>15. /\ page'.unseal = v /\ page'.phase = page.phase /\ page'.record = page.record
  BY <1>1, <1>6 DEF Pages
<1>16. PageInv'
  BY <1>1, <1>2, <1>8, <1>12, <1>13, <1>15
     DEF PageInv, UnsealsItsRecord, RecordExists, ShownForRecord
<1> QED
  BY <1>2, <1>14, <1>16, PageFrame

(* What is revealed was read for the record still on the page.               *)
LEMMA UnsealEnds ==
    ASSUME RegulatorInv, Revealed \/ UnsealFails
    PROVE  RegulatorInv'
<1>1. page \in Pages /\ PageInv
  BY DEF RegulatorInv, RegulatorTypeOK
<1>2. UNCHANGED Chain /\ UNCHANGED records
  BY DEF Revealed, UnsealFails, Chain
<1>3. page.unseal # NotUnsealing
  BY DEF Revealed, UnsealFails
<1> DEFINE u == page.unseal
<1>4. u \in Unsealings
  BY <1>1, <1>3, PageFields
<1>5. /\ page.phase = "unsealing" /\ u.record = page.record
      /\ page.record \in Deals => page.record \in DOMAIN records
      /\ \A t \in DOMAIN u.read : ReadFor(records, u.read[t], page.record, t)
  <2>1. u.record # NoDeal
    BY <1>4, UnsealingHasRecord
  <2> QED
    BY <1>1, <1>3, <2>1 DEF PageInv, UnsealsItsRecord, RecordExists
<1>6. CASE UnsealFails
  <2>1. page' = [page EXCEPT !.phase = "demandKey", !.unseal = NotUnsealing]
    BY <1>6 DEF UnsealFails
  <2>2. page' \in Pages
    BY <1>1, <2>1 DEF Pages, Phases
  <2>3. /\ page'.phase = "demandKey" /\ page'.unseal = NotUnsealing
        /\ page'.record = page.record
    BY <1>1, <2>1 DEF Pages
  <2>4. PageInv'
    BY <1>2, <1>5, <2>3
       DEF PageInv, UnsealsItsRecord, RecordExists, ShownForRecord
  <2> QED
    BY <1>2, <2>2, <2>4, PageFrame
<1>7. CASE Revealed
  <2> DEFINE m == [of |-> u.record, ledgers |-> u.read,
                   amounts |-> [s \in Sides |-> Decrypted(u.read[s], u.key)]]
  <2>1. /\ DOMAIN u.read = Sides
        /\ \A s \in Sides : Decrypted(u.read[s], u.key) # DecryptionFailed
        /\ page' = [page EXCEPT !.phase = "revealed", !.unseal = NotUnsealing, !.shown = m]
    BY <1>7 DEF Revealed
  <2>2. m \in Displays
    <3>1. u.record \in Deals /\ u.read \in Reads
      <4>1. "a" \in DOMAIN u.read /\ DOMAIN records \subseteq Deals
        BY <2>1, SidesAB DEF RegulatorInv, RegulatorTypeOK
      <4>2. page.record \in DOMAIN records
        BY <1>5, <4>1, Zenon DEF ReadFor
      <4> QED
        BY <1>4, <1>5, <4>1, <4>2, UnsealingHasRecord
    <3>2. u.read \in [Sides -> Snapshots]
      BY <2>1, <3>1, SidesAB DEF Reads
    <3>3. \A s \in Sides : Decrypted(u.read[s], u.key) \in Nat
      BY <2>1, DecryptedType
    <3> QED
      BY <3>1, <3>2, <3>3 DEF Displays
  <2>3. m.of = u.record /\ m.ledgers = u.read
    OBVIOUS
  <2> HIDE DEF m
  <2>4. page' \in Pages
    BY <1>1, <2>1, <2>2 DEF Pages, Phases
  <2>5. /\ page'.phase = "revealed" /\ page'.unseal = NotUnsealing
        /\ page'.record = page.record /\ page'.shown = m
    BY <1>1, <2>1 DEF Pages
  <2>6. PageInv'
    BY <1>2, <1>5, <2>1, <2>2, <2>3, <2>5
       DEF PageInv, UnsealsItsRecord, RecordExists, ShownForRecord
  <2> QED
    BY <1>2, <2>4, <2>6, PageFrame
<1> QED
  BY <1>6, <1>7

-----------------------------------------------------------------------------
(* Theorems *)

LEMMA NextRegulator == RegulatorInv /\ [Next]_vars => RegulatorInv'
<1> SUFFICES ASSUME RegulatorInv, [Next]_vars PROVE RegulatorInv'
  OBVIOUS
<1>1. CASE UNCHANGED vars
  BY <1>1
     DEF vars, RegulatorInv, RegulatorTypeOK, KeyFitsConfig, RegisteredKeyIsUsed,
         LedgersLatest, PageInv, UnsealsItsRecord, RecordExists, ShownForRecord
<1>2. ASSUME NEW u \in Wallets, ReinitConfig(u) \/ MigrateAndTest(u) \/ RegulatorTest(u)
      PROVE  RegulatorInv'
  <2>1. script \in {"start", "register", "done"}
    BY DEF RegulatorInv, RegulatorTypeOK
  <2>2. CASE ReinitConfig(u)
    BY <2>1, <2>2, ConfigSteps DEF ReinitConfig
  <2>3. CASE RegulatorTest(u)
    BY <2>1, <2>3, ConfigSteps DEF RegulatorTest
  <2>4. CASE MigrateAndTest(u)
    <3>1. script' \in {"register", "done"}
      BY <2>4 DEF MigrateAndTest
    <3>2. CASE MigrateConfig \/ RegisterRegulator(u, KeyOf(u))
      BY <3>1, <3>2, ConfigSteps
    <3>3. CASE UNCHANGED <<config, ledger, records, prepared, page>>
      BY <3>1, <3>3
         DEF RegulatorInv, RegulatorTypeOK, KeyFitsConfig, RegisteredKeyIsUsed,
             LedgersLatest, PageInv, UnsealsItsRecord, RecordExists, ShownForRecord
    <3> QED
      BY <2>4, <3>2, <3>3 DEF MigrateAndTest
  <2> QED
    BY <1>2, <2>2, <2>3, <2>4
<1>3. ASSUME NEW u \in Wallets, NEW w \in Wallets, Register(u, w)
      PROVE  RegulatorInv'
  <2>1. script' \in {"start", "register", "done"}
    BY <1>3 DEF Register, RegulatorInv, RegulatorTypeOK
  <2> QED
    BY <1>3, <2>1, ConfigSteps DEF Register
<1>4. ASSUME NEW l \in Ledgers, MigrateLedgerScript(l) \/ OpenBalance(l)
      PROVE  RegulatorInv'
  BY <1>4, LedgerSteps
<1>5. ASSUME NEW d \in Deals,
             EncryptForRegulator(d) \/ EncryptFails(d) \/ ExecuteSettle(d)
      PROVE  RegulatorInv'
  BY <1>5, PrepareSteps, ExecuteStep
<1>6. CASE PageNext
  <2>1. CASE \/ \E d \in Addresses : FetchRecord(d)
             \/ \E w \in Wallets : SignWithWallet(w)
             \/ RecordFound \/ RecordNotFound \/ Signed
    BY <2>1, QuerySteps
  <2>2. CASE Unseal \/ Revealed \/ UnsealFails \/ Reset \/ Leave
    BY <2>2, UnsealStep, UnsealEnds, LeaveSteps
  <2>3. ASSUME NEW s \in Sides, LedgerRead(s) PROVE RegulatorInv'
    BY <2>3, LedgerReadStep
  <2> QED
    BY <1>6, <2>1, <2>2, <2>3 DEF PageNext
<1> QED
  BY <1>1, <1>2, <1>3, <1>4, <1>5, <1>6 DEF Next

(* Type correctness of the regulator's model.                                *)
THEOREM RegulatorTypesCorrect == Spec => []RegulatorTypeOK
<1>1. RegulatorInv => RegulatorTypeOK
  BY DEF RegulatorInv
<1> QED
  BY <1>1, InitRegulator, NextRegulator, PTL DEF Spec

(* For every group, table size, set of wallets and amounts, a deal prepared   *)
(* without an exception while a key was registered is opened by that key on  *)
(* both sides (useSchemeB.ts:717, migrate_config.rs:25, elgamal.ts:95).       *)
THEOREM RegisteredKeyOpens == Spec => []RegisteredKeyIsUsed
<1>1. RegulatorInv => RegisteredKeyIsUsed
  BY DEF RegulatorInv
<1> QED
  BY <1>1, InitRegulator, NextRegulator, PTL DEF Spec

(* What was read for the record on display is of its own settlement, or of a  *)
(* later one with a larger version.                                          *)
LEMMA ShownIsOfRecord == RegulatorInv => RevealedBelongsToRecord
<1> SUFFICES ASSUME RegulatorInv, page.phase = "revealed", NEW s \in Sides
             PROVE  /\ page.shown.of = page.record
                    /\ LET l == page.shown.ledgers[s]
                           deal == l.from.deal
                       IN  /\ LedgerOf[deal][l.from.side] = LedgerOf[page.record][s]
                           /\ \/ deal = page.record
                              \/ records[deal][l.from.side] > records[page.record][s]
                           /\ l.version = records[page.record][s] => deal = page.record
  <2>1. "a" \in Sides
    BY SidesAB
  <2> QED
    BY <2>1, Zenon DEF RevealedBelongsToRecord
<1> DEFINE l == page.shown.ledgers[s]
           deal == l.from.deal
           version == records[deal][l.from.side]
<1>1. /\ page.shown \in Displays /\ page.shown.of = page.record
      /\ ReadFor(records, l, page.record, s)
  BY DEF RegulatorInv, PageInv, ShownForRecord
<1>2. l \in Snapshots
  BY <1>1 DEF Displays
<1>3. /\ page.record \in DOMAIN records /\ deal \in DOMAIN records /\ l.from \in Settlements
      /\ LedgerOf[deal][l.from.side] = LedgerOf[page.record][s]
      /\ l.version >= version
      /\ deal = page.record \/ version > records[page.record][s]
  BY <1>1 DEF ReadFor
<1>4. version \in Nat /\ records[page.record][s] \in Nat /\ l.version \in Nat
  <2>1. records \in [DOMAIN records -> [Sides -> Nat]] /\ l.from.side \in Sides
    BY <1>3 DEF RegulatorInv, RegulatorTypeOK, Settlements
  <2>2. records[deal] \in [Sides -> Nat] /\ records[page.record] \in [Sides -> Nat]
    BY <1>3, <2>1
  <2> QED
    BY <1>2, <2>1, <2>2 DEF Snapshots
<1> HIDE DEF l, deal, version
<1>5. l.version = records[page.record][s] => deal = page.record
  BY <1>3, <1>4
<1> QED
  BY <1>1, <1>3, <1>5 DEF l, deal, version

(* The amounts on display were read from the ledgers of the record on         *)
(* display, and are its own or of a later settlement of theirs, for any       *)
(* number of deals that share ledgers in any way, deposits included, and      *)
(* whatever the page was asked meanwhile (regulator.tsx:430-484).             *)
THEOREM RevealedAmountsAreOfRecord == Spec => []RevealedBelongsToRecord
  BY ShownIsOfRecord, InitRegulator, NextRegulator, PTL DEF Spec

-----------------------------------------------------------------------------
(* What is revealed is what was settled *)

(* Ciphertexts are the zero bytes of an account, or the amount of the deal    *)
(* they came with, for the key of some wallet.                               *)
Sealed(cts, from) ==
    \/ cts = NoCts
    \/ /\ from \in Settlements
       /\ \E w \in Wallets, r \in Randoms :
             cts = encryptAmount(Amount[from.deal][from.side], KeyOf(w), r)

ChunksSealed ==
    \A d \in Deals, s \in Sides : Sealed(prepared[d].cts[s], [deal |-> d, side |-> s])
LedgersSealed == \A l \in Ledgers : Sealed(ledger[l].cts, ledger[l].from)

(* The page has keys of wallets, and ledgers as they were when it read them.  *)
KeyOfWallet(key) == \E w \in Wallets : key = SecretKey[w]
ReadsSealed(u) ==
    /\ KeyOfWallet(u.key)
    /\ \A s \in DOMAIN u.read : Sealed(u.read[s].cts, u.read[s].from)
ShownDecrypted(m) ==
    \A s \in Sides :
        LET l == m.ledgers[s]
        IN  /\ Sealed(l.cts, l.from)
            /\ m.amounts[s] # DecryptionFailed
            /\ \E w \in Wallets : m.amounts[s] = decryptAmount(l.cts, SecretKey[w])

PageSealed ==
    /\ page.key # NoKey => KeyOfWallet(page.key)
    /\ page.unseal # NotUnsealing => ReadsSealed(page.unseal)
    /\ page.phase = "revealed" => ShownDecrypted(page.shown)

SealInv == ChunksSealed /\ LedgersSealed /\ PageSealed

(* A decryption depends on the message point alone.                          *)
LEMMA SameMessagePoint ==
    ASSUME NEW ct, NEW cu, NEW sk,
           addPoint(ct.c2, negPoint(mulPointEscalar(ct.c1, sk)))
             = addPoint(cu.c2, negPoint(mulPointEscalar(cu.c1, sk)))
    PROVE  decryptU32(ct, sk) = decryptU32(cu, sk)
<1> DEFINE point(c) == addPoint(c.c2, negPoint(mulPointEscalar(c.c1, sk)))
           hits(p) == {i \in 0 .. STEP - 1 : Accumulator(p, i) \in DOMAIN BabySteps}
           first(p) == CHOOSE h \in hits(p) : \A k \in hits(p) : h <= k
           read(p) == IF hits(p) = {} THEN DecryptionFailed
                      ELSE first(p) * STEP + BabySteps[Accumulator(p, first(p))]
<1>1. \A c : decryptU32(c, sk) = read(point(c))
  BY Zenon DEF decryptU32
<1>2. point(ct) = point(cu)
  OBVIOUS
<1> HIDE DEF read, point
<1> QED
  BY <1>1, <1>2

(* The operations of the curve, with the multiple of the order they leave out. *)
LEMMA PointRemainders ==
    ASSUME NEW p \in Int, NEW q \in Int
    PROVE  /\ \E k \in Int : p * q = mulPointEscalar(p, q) + Order * k
           /\ \E k \in Int : Order - p = negPoint(p) + Order * k
           /\ \E k \in Int : p + q = addPoint(p, q) + Order * k
           /\ mulPointEscalar(p, q) \in Points /\ mulPointEscalar(p, q) \in Int
           /\ negPoint(p) \in Points /\ negPoint(p) \in Int
           /\ addPoint(p, q) \in Points /\ addPoint(p, q) \in Int
<1>1. \A a \in Int : \E k \in Int : a = (a % Order) + Order * k
  BY OrderIsPositive, RemainderOf
<1>2. p * q \in Int /\ Order - p \in Int /\ p + q \in Int /\ Points \subseteq Int
  BY OrderIsPositive DEF Points
<1>3. \E k \in Int : p * q = mulPointEscalar(p, q) + Order * k
  BY <1>1, <1>2, Zenon DEF mulPointEscalar
<1>4. \E k \in Int : Order - p = negPoint(p) + Order * k
  BY <1>1, <1>2, Zenon DEF negPoint
<1>5. \E k \in Int : p + q = addPoint(p, q) + Order * k
  BY <1>1, <1>2, Zenon DEF addPoint
<1> QED
  BY <1>2, <1>3, <1>4, <1>5, PointsClosed

(* Zero bytes stand for a point of order four: a key takes it to the neutral  *)
(* element, which is 0, or to a point that no giant step leaves a multiple    *)
(* of the base point.                                                        *)
LEMMA ZeroBytesOpen ==
    ASSUME NEW sk \in Nat
    PROVE  decryptU32(deserializeCiphertext([c1 |-> ZeroPoint, c2 |-> ZeroPoint]), sk)
             \in {0, DecryptionFailed}
<1> DEFINE half == 2 * SubOrder
           ct == [c1 |-> half, c2 |-> half]
           mine == mulPointEscalar(half, sk)
           neg == negPoint(mine)
           m == addPoint(half, neg)
<1>1. SubOrder \in Nat \ {0} /\ Order = 8 * SubOrder /\ Order \in Nat \ {0}
  <2>1. STEP * STEP \in Nat
    BY OrderIsPositive
  <2> QED
    BY <2>1, GroupAssumption DEF Order
<1>2. half \in Points /\ half \in Nat
  BY <1>1 DEF Points
<1>3. deserializeCiphertext([c1 |-> ZeroPoint, c2 |-> ZeroPoint]) = ct
  <2>1. packPoint(half) = ZeroPoint
    <3>1. 6 * SubOrder \in 0 .. Order - 1 /\ Order - half = 6 * SubOrder + Order * 0
          /\ Order - half \in Int
      BY <1>1
    <3>2. negPoint(half) = 6 * SubOrder
      BY <1>1, <3>1, RemainderIs DEF negPoint
    <3>3. (half > 6 * SubOrder) = FALSE
      BY <1>1
    <3> QED
      BY <3>2, <3>3 DEF packPoint, ZeroPoint
  <2>2. unpackPoint(ZeroPoint) = half
    BY <1>2, <2>1, UnpackOfPack
  <2> QED
    BY <2>2 DEF deserializeCiphertext
<1>4. m \in Points /\ \E z \in Int : m = half * z
  <2>1. mine \in Points /\ \E k \in Int : half * sk = mine + Order * k
    <3>1. half \in Int /\ sk \in Int
      BY <1>2
    <3> HIDE DEF half
    <3> QED
      BY <3>1, PointRemainders
  <2>2. neg \in Points /\ \E k \in Int : Order - mine = neg + Order * k
    <3>1. mine \in Int
      BY <1>1, <2>1 DEF Points
    <3> HIDE DEF mine
    <3> QED
      BY <3>1, PointRemainders
  <2>3. m \in Points /\ \E k \in Int : half + neg = m + Order * k
    <3>1. half \in Int /\ neg \in Int
      BY <1>1, <1>2, <2>2 DEF Points
    <3> HIDE DEF half, neg
    <3> QED
      BY <3>1, PointRemainders
  <2>4. PICK k1 \in Int : half * sk = mine + Order * k1
    BY <2>1
  <2>5. PICK k2 \in Int : Order - mine = neg + Order * k2
    BY <2>2
  <2>6. PICK k3 \in Int : half + neg = m + Order * k3
    BY <2>3
  <2> HIDE DEF mine, neg, m
  <2> DEFINE z == 1 - sk + 4 + 4 * k1 - 4 * k2 - 4 * k3
  <2>7. mine \in Int /\ neg \in Int /\ m \in Int /\ z \in Int
    BY <1>1, <2>1, <2>2, <2>3 DEF Points
  <2>8. /\ Order * k1 = half * (4 * k1) /\ Order * k2 = half * (4 * k2)
        /\ Order * k3 = half * (4 * k3) /\ Order = half * 4
    BY <1>1
  <2> HIDE DEF half
  <2>9. half * z = half - half * sk + half * 4 + half * (4 * k1) - half * (4 * k2)
                     - half * (4 * k3)
    BY <1>2
  <2>10. m = half * z
    <3> DEFINE a == half * sk
               b == half * (4 * k1)
               c == half * (4 * k2)
               d == half * (4 * k3)
               e == half * 4
    <3>1. a \in Int /\ b \in Int /\ c \in Int /\ d \in Int /\ e \in Int
      BY <1>2
    <3>2. a = mine + b /\ e - mine = neg + c /\ half + neg = m + d
      BY <2>4, <2>5, <2>6, <2>8
    <3>3. half * z = half - a + e + b - c - d
      BY <2>9
    <3> HIDE DEF a, b, c, d, e, z
    <3> QED
      BY <1>2, <2>7, <3>1, <3>2, <3>3
  <2> QED
    BY <2>3, <2>7, <2>10
<1>5. PICK z \in Int : m = half * z
  BY <1>4
<1>6. z \in 0 .. 3
  <2>1. m >= 0 /\ m < half * 4 /\ m \in Int
    BY <1>1, <1>4 DEF Points
  <2> HIDE DEF m
  <2>2. half \in Nat \ {0}
    BY <1>1
  <2> HIDE DEF half
  <2>3. z >= 0
    <3> SUFFICES ASSUME z <= -1 PROVE FALSE
      OBVIOUS
    <3>1. half * z <= half * (-1)
      BY <2>2
    <3> QED
      BY <1>5, <2>1, <2>2, <3>1
  <2>4. z < 4
    <3> SUFFICES ASSUME z >= 4 PROVE FALSE
      OBVIOUS
    <3>1. half * z >= half * 4
      BY <2>2
    <3> QED
      BY <1>5, <2>1, <2>2, <3>1
  <2> QED
    BY <2>3, <2>4
<1>7. addPoint(ct.c2, negPoint(mulPointEscalar(ct.c1, sk))) = m
  OBVIOUS
<1> HIDE DEF m
<1>8. CASE z = 0
  <2> DEFINE cu == encrypt(0, derivePublicKey(sk), 0)
  <2>1. 0 < U32
    <3>1. STEP * 1 <= STEP * STEP
      BY OrderIsPositive
    <3> QED
      BY <3>1, OrderIsPositive DEF U32
  <2>2. addPoint(cu.c2, negPoint(mulPointEscalar(cu.c1, sk))) = 8 * 0
    BY <2>1, MessagePoint
  <2>3. m = 8 * 0
    BY <1>2, <1>5, <1>8
  <2>4. decryptU32(cu, sk) = 0
    BY <2>1, DecryptU32Inverse
  <2> HIDE DEF ct, cu
  <2>5. decryptU32(ct, sk) = decryptU32(cu, sk)
    BY <1>7, <2>2, <2>3, SameMessagePoint
  <2> QED
    BY <1>3, <2>4, <2>5
<1>9. CASE z # 0
  <2>1. ASSUME NEW y \in Int PROVE half * z # 8 * y
    <3>1. z = 1 \/ z = 2 \/ z = 3
      BY <1>6, <1>9
    <3>2. SubOrder % 2 = 1
      BY GroupAssumption
    <3>3. half * z = 2 * SubOrder \/ half * z = 4 * SubOrder \/ half * z = 6 * SubOrder
      BY <1>1, <3>1
    <3> HIDE DEF half
    <3> QED
      BY <1>1, <3>2, <3>3
  <2>2. ASSUME NEW i \in 0 .. STEP - 1 PROVE Accumulator(m, i) \notin DOMAIN BabySteps
    <3> SUFFICES ASSUME Accumulator(m, i) \in DOMAIN BabySteps PROVE FALSE
      OBVIOUS
    <3> DEFINE steps == i * STEP
               giant == mulPointEscalar(Base8, steps)
               back == negPoint(giant)
    <3>1. PICK j \in 0 .. STEP - 1 : Accumulator(m, i) = 8 * j
      BY BabyStepsInvert
    <3>2. steps \in Int /\ j \in Int
      BY OrderIsPositive
    <3>3. addPoint(m, back) = 8 * j
      BY <3>1 DEF Accumulator
    <3> HIDE DEF steps
    <3>4. giant \in Int /\ \E k \in Int : 8 * steps = giant + Order * k
      <4>1. Base8 = 8 /\ Base8 \in Int
        BY DEF Base8
      <4>2. giant \in Int /\ \E k \in Int : Base8 * steps = giant + Order * k
        BY <3>2, <4>1, PointRemainders
      <4> HIDE DEF giant
      <4> QED
        BY <4>1, <4>2
    <3> HIDE DEF giant
    <3>5. back \in Int /\ \E k \in Int : Order - giant = back + Order * k
      BY <3>4, PointRemainders
    <3> HIDE DEF back
    <3>6. m \in Int /\ \E k \in Int : m + back = 8 * j + Order * k
      <4>1. m \in Int
        BY <1>1, <1>4 DEF Points
      <4> QED
        BY <3>3, <3>5, <4>1, PointRemainders
    <3>7. PICK k1 \in Int : 8 * steps = giant + Order * k1
      BY <3>4
    <3>8. PICK k2 \in Int : Order - giant = back + Order * k2
      BY <3>5
    <3>9. PICK k3 \in Int : m + back = 8 * j + Order * k3
      BY <3>6
    <3> DEFINE s1 == SubOrder * k1
               s2 == SubOrder * k2
               s3 == SubOrder * k3
               y == j + s3 - SubOrder + steps - s1 + s2
    <3>10. s1 \in Int /\ s2 \in Int /\ s3 \in Int
      BY <1>1
    <3>11. Order * k1 = 8 * s1 /\ Order * k2 = 8 * s2 /\ Order * k3 = 8 * s3
      BY <1>1
    <3> HIDE DEF s1, s2, s3
    <3>12. y \in Int /\ m = 8 * y
      BY <1>1, <3>2, <3>4, <3>5, <3>6, <3>7, <3>8, <3>9, <3>10, <3>11
    <3> HIDE DEF y
    <3> QED
      BY <1>5, <2>1, <3>12
  <2>3. {i \in 0 .. STEP - 1 : Accumulator(m, i) \in DOMAIN BabySteps} = {}
    BY <2>2
  <2>4. decryptU32(ct, sk) = DecryptionFailed
    <3> HIDE DEF ct
    <3> QED
      BY <1>7, <2>3 DEF decryptU32
  <2> QED
    BY <1>3, <2>4
<1> QED
  BY <1>8, <1>9

LEMMA NoCtsOpen ==
    ASSUME NEW sk \in Nat
    PROVE  decryptAmount(NoCts, sk) \in {0, DecryptionFailed}
<1> DEFINE limb == decryptU32(deserializeCiphertext([c1 |-> ZeroPoint, c2 |-> ZeroPoint]), sk)
<1>1. limb \in {0, DecryptionFailed}
  BY ZeroBytesOpen
<1>2. decryptAmount(NoCts, sk) = IF limb = DecryptionFailed THEN DecryptionFailed
                                 ELSE limb * U32 + limb
  BY DEF decryptAmount, NoCts
<1> HIDE DEF limb
<1>3. U32 \in Nat
  BY OrderIsPositive DEF U32
<1> QED
  BY <1>1, <1>2, <1>3

LEMMA AfterDealCts ==
    ASSUME NEW before \in [Ledgers -> Snapshots], NEW d \in Deals,
           NEW cts \in [Sides -> StoredCts], NEW s \in Sides
    PROVE  AfterDeal(before, d, cts)[LedgerOf[d][s]].cts = cts[s]
<1> DEFINE la == LedgerOf[d]["a"]
           lb == LedgerOf[d]["b"]
           new(l, t) == [size |-> l.size, version |-> l.version + 1, cts |-> cts[t],
                         from |-> [deal |-> d, side |-> t]]
           after == AfterDeal(before, d, cts)
<1>1. la \in Ledgers /\ lb \in Ledgers /\ la # lb
  BY RegulatorAssumption, SidesAB
<1>2. after = [before EXCEPT ![la] = new(@, "a"), ![lb] = new(@, "b")]
  BY DEF AfterDeal
<1> HIDE DEF after, new
<1>3. after[la] = new(before[la], "a") /\ after[lb] = new(before[lb], "b")
  BY <1>1, <1>2
<1>4. after[LedgerOf[d][s]] = new(before[LedgerOf[d][s]], s)
  BY <1>3, SidesAB
<1>5. new(before[LedgerOf[d][s]], s).cts = cts[s]
  BY DEF new
<1> QED
  BY <1>4, <1>5, Zenon DEF after

(* At the start all ciphertexts are zero bytes.                              *)
LEMMA InitEmpty ==
    ASSUME Init, NEW l \in Ledgers
    PROVE  ledger[l].cts = NoCts
<1>1. PICK size \in [Ledgers -> OldSizes \cup {LEDGER_LEN}] :
         LET new == [m \in Ledgers |-> [size |-> size[m], version |-> 0, cts |-> NoCts,
                                       from |-> NoSettlement]]
         IN  \/ ledger = new
             \/ \E d \in Deals : ledger = AfterDeal(new, d, [s \in Sides |-> NoCts])
  BY DEF Init
<1> DEFINE new == [m \in Ledgers |-> [size |-> size[m], version |-> 0, cts |-> NoCts,
                                     from |-> NoSettlement]]
<1>2. new \in [Ledgers -> Snapshots] /\ new[l].cts = NoCts
  BY NoCtsType DEF Snapshots
<1>3. ledger = new \/ \E d \in Deals : ledger = AfterDeal(new, d, [s \in Sides |-> NoCts])
  BY <1>1
<1> HIDE DEF new
<1>4. ASSUME NEW d \in Deals PROVE AfterDeal(new, d, [s \in Sides |-> NoCts])[l].cts = NoCts
  <2>1. [s \in Sides |-> NoCts] \in [Sides -> StoredCts]
    BY NoCtsType
  <2>2. CASE \A s \in Sides : l # LedgerOf[d][s]
    BY <1>2, <2>1, <2>2, AfterDealIs
  <2>3. ASSUME NEW s \in Sides, l = LedgerOf[d][s]
        PROVE  AfterDeal(new, d, [t \in Sides |-> NoCts])[l].cts = NoCts
    <3> DEFINE cts == [t \in Sides |-> NoCts]
    <3>1. cts \in [Sides -> StoredCts] /\ cts[s] = NoCts
      BY <2>1
    <3> HIDE DEF cts
    <3>2. AfterDeal(new, d, cts)[LedgerOf[d][s]].cts = cts[s]
      BY <1>2, <3>1, AfterDealCts
    <3> QED
      BY <2>3, <3>1, <3>2 DEF cts
  <2> QED
    BY <2>2, <2>3
<1> QED
  BY <1>2, <1>3, <1>4

LEMMA InitSealed == Init => SealInv
<1> SUFFICES ASSUME Init PROVE SealInv
  OBVIOUS
<1>1. ChunksSealed
  BY DEF Init, ChunksSealed, Sealed, NotPrepared
<1>2. LedgersSealed
  <2>1. \A l \in Ledgers : ledger[l].cts = NoCts
    BY InitEmpty
  <2> QED
    BY <2>1 DEF LedgersSealed, Sealed
<1>3. PageSealed
  BY DEF Init, PageSealed, FreshPage
<1> QED
  BY <1>1, <1>2, <1>3 DEF SealInv

(* What the config is told does not reach a ciphertext.                      *)
LEMMA ConfigSeals ==
    ASSUME SealInv, NEW u \in Wallets, NEW w \in Wallets,
           ReinitConfig(u) \/ MigrateAndTest(u) \/ RegulatorTest(u) \/ Register(u, w)
    PROVE  SealInv'
  BY DEF ReinitConfig, InitializePool, MigrateAndTest, MigrateConfig, RegisterRegulator,
         RegulatorTest, Register, SealInv, ChunksSealed, LedgersSealed, PageSealed

(* A ledger that grows, or that a deposit opens, keeps its ciphertexts.       *)
LEMMA LedgerSeals ==
    ASSUME RegulatorInv, SealInv, NEW l \in Ledgers, MigrateLedgerScript(l) \/ OpenBalance(l)
    PROVE  SealInv'
<1>1. UNCHANGED <<prepared, page>> /\ ledger \in [Ledgers -> Snapshots]
  BY DEF MigrateLedgerScript, MigrateLedger, OpenBalance, RegulatorInv, RegulatorTypeOK
<1>2. \E n : ledger' = [ledger EXCEPT ![l].size = n] \/ ledger' = [ledger EXCEPT ![l].version = n]
  BY DEF MigrateLedgerScript, MigrateLedger, OpenBalance
<1>3. \A m \in Ledgers : ledger'[m].cts = ledger[m].cts /\ ledger'[m].from = ledger[m].from
  BY <1>1, <1>2 DEF Snapshots
<1>4. LedgersSealed'
  BY <1>3 DEF SealInv, LedgersSealed, Sealed
<1> QED
  BY <1>1, <1>4 DEF SealInv, ChunksSealed, PageSealed

(* Only the key of a wallet is ever registered, and what is encrypted is the  *)
(* deal's.                                                                   *)
LEMMA ChunksSeal ==
    ASSUME RegulatorInv, SealInv, NEW d \in Deals,
           EncryptForRegulator(d) \/ EncryptFails(d)
    PROVE  SealInv'
<1>1. UNCHANGED <<ledger, page>>
  BY DEF EncryptForRegulator, EncryptFails
<1>2. /\ prepared \in [Deals -> [status: {"no", "yes", "failed"}, cts: [Sides -> StoredCts],
                                registered: Keys \cup {NoKey}]]
      /\ config.key \in Keys \cup {NoKey}
  BY DEF RegulatorInv, RegulatorTypeOK
<1>3. ASSUME NEW t \in Sides PROVE Sealed(prepared'[d].cts[t], [deal |-> d, side |-> t])
  <2>1. CASE prepared'[d].cts = prepared[d].cts
    BY <2>1 DEF SealInv, ChunksSealed
  <2>2. CASE EncryptForRegulator(d) /\ KeySeen
    <3>1. PICK r \in Randoms :
             prepared'[d].cts = [x \in Sides |-> encryptAmount(Amount[d][x], config.key, r)]
      BY <1>2, <2>2 DEF EncryptForRegulator
    <3>2. PICK w \in Wallets : config.key = KeyOf(w)
      BY <1>2, <2>2 DEF KeySeen, Keys, KeyOf
    <3>3. prepared'[d].cts[t] = encryptAmount(Amount[d][t], KeyOf(w), r)
      BY <3>1, <3>2
    <3> QED
      BY <3>3 DEF Sealed, Settlements
  <2>3. CASE EncryptForRegulator(d) /\ ~KeySeen
    <3>1. prepared'[d].cts = prepared[d].cts
      BY <1>2, <2>3 DEF EncryptForRegulator
    <3> QED
      BY <2>1, <3>1
  <2>4. CASE EncryptFails(d)
    <3>1. prepared' = [prepared EXCEPT ![d].status = "failed"]
      BY <2>4 DEF EncryptFails
    <3>2. prepared'[d].cts = prepared[d].cts
      BY <1>2, <3>1
    <3> QED
      BY <2>1, <3>2
  <2> QED
    BY <2>2, <2>3, <2>4
<1>4. \A e \in Deals \ {d} : prepared'[e] = prepared[e]
  BY <1>2 DEF EncryptForRegulator, EncryptFails
<1>5. ChunksSealed'
  <2>1. ASSUME NEW e \in Deals, NEW t \in Sides
        PROVE  Sealed(prepared'[e].cts[t], [deal |-> e, side |-> t])
    <3>1. CASE e = d
      BY <1>3, <3>1
    <3>2. CASE e # d
      BY <1>4, <3>2 DEF SealInv, ChunksSealed
    <3> QED
      BY <3>1, <3>2
  <2> QED
    BY <2>1 DEF ChunksSealed, Sealed
<1>6. LedgersSealed' /\ PageSealed'
  BY <1>1 DEF SealInv, LedgersSealed, PageSealed
<1> QED
  BY <1>5, <1>6 DEF SealInv

(* A settlement leaves the ciphertexts of its own deal.                      *)
LEMMA ExecuteSeals ==
    ASSUME RegulatorInv, SealInv, NEW d \in Deals, ExecuteSettle(d)
    PROVE  SealInv'
<1>1. /\ UNCHANGED <<prepared, page>>
      /\ ledger' = AfterDeal(ledger, d, prepared[d].cts)
  BY DEF ExecuteSettle
<1>2. ledger \in [Ledgers -> Snapshots] /\ prepared[d].cts \in [Sides -> StoredCts]
  BY DEF RegulatorInv, RegulatorTypeOK
<1>3. /\ \A s \in Sides : /\ ledger'[LedgerOf[d][s]].cts = prepared[d].cts[s]
                          /\ ledger'[LedgerOf[d][s]].from = [deal |-> d, side |-> s]
      /\ \A l \in Ledgers :
            (\A s \in Sides : l # LedgerOf[d][s]) => ledger'[l] = ledger[l]
  <2> DEFINE cts == prepared[d].cts
  <2>1. cts \in [Sides -> StoredCts] /\ ledger' = AfterDeal(ledger, d, cts)
    BY <1>1, <1>2
  <2> HIDE DEF cts
  <2>2. /\ \A s \in Sides : /\ ledger'[LedgerOf[d][s]].cts = cts[s]
                            /\ ledger'[LedgerOf[d][s]].from = [deal |-> d, side |-> s]
        /\ \A l \in Ledgers :
              (\A s \in Sides : l # LedgerOf[d][s]) => ledger'[l] = ledger[l]
    BY <1>2, <2>1, AfterDealIs
  <2> QED
    BY <2>2 DEF cts
<1>4. ASSUME NEW l \in Ledgers PROVE Sealed(ledger'[l].cts, ledger'[l].from)
  <2>1. CASE \A s \in Sides : l # LedgerOf[d][s]
    BY <1>3, <2>1 DEF SealInv, LedgersSealed
  <2>2. ASSUME NEW s \in Sides, l = LedgerOf[d][s]
        PROVE  Sealed(ledger'[l].cts, ledger'[l].from)
    <3>1. ledger'[l].cts = prepared[d].cts[s] /\ ledger'[l].from = [deal |-> d, side |-> s]
      BY <1>3, <2>2
    <3> QED
      BY <3>1 DEF SealInv, ChunksSealed
  <2> QED
    BY <2>1, <2>2
<1>5. LedgersSealed'
  BY <1>4 DEF LedgersSealed, Sealed
<1> QED
  BY <1>1, <1>5 DEF SealInv, ChunksSealed, PageSealed

(* Steps that leave the key, what is read and what is shown as they were, or  *)
(* forget them, or take a wallet's key.                                      *)
LEMMA QuietSeals ==
    ASSUME RegulatorInv, SealInv, UNCHANGED Chain,
           \/ \E d \in Addresses : FetchRecord(d)
           \/ \E w \in Wallets : SignWithWallet(w)
           \/ RecordFound \/ RecordNotFound \/ Signed \/ UnsealFails
           \/ Reset \/ Leave
    PROVE  PageSealed'
<1>1. page \in Pages /\ PageSealed
  BY DEF RegulatorInv, RegulatorTypeOK, SealInv
<1> DEFINE Quiet ==
        /\ page'.key # NoKey => page'.key = page.key \/ KeyOfWallet(page'.key)
        /\ page'.unseal \in {page.unseal, NotUnsealing}
        /\ page'.phase = "revealed" => page.phase = "revealed" /\ page'.shown = page.shown
<1>2. Quiet
  <2>1. ASSUME NEW d \in Addresses, FetchRecord(d) PROVE Quiet
    <3>1. page' = [page EXCEPT !.phase = "searching", !.addr = d]
      BY <2>1, Zenon DEF FetchRecord
    <3> QED
      BY <1>1, <3>1 DEF Pages
  <2>2. ASSUME NEW w \in Wallets, SignWithWallet(w) PROVE Quiet
    BY <1>1, <2>2 DEF Pages, SignWithWallet
  <2>3. CASE RecordFound \/ RecordNotFound
    BY <1>1, <2>3 DEF Pages, RecordFound, RecordNotFound
  <2>4. CASE Signed
    <3>1. PICK k \in {page.key, SecretKey[page.signing]} :
            page' = [page EXCEPT !.key = k, !.signing = NoWallet]
      BY <2>4 DEF Signed
    <3>2. page.signing \in Wallets
      BY <1>1, <2>4, PageFields DEF Signed
    <3>3. k = page.key \/ KeyOfWallet(k)
      BY <3>1, <3>2 DEF KeyOfWallet
    <3> QED
      BY <1>1, <3>1, <3>3 DEF Pages
  <2>5. CASE UnsealFails
    BY <1>1, <2>5 DEF Pages, UnsealFails
  <2>6. CASE Reset
    BY <2>6 DEF Reset, Cleared, FreshPage
  <2>7. CASE Leave
    BY <2>7 DEF Leave, FreshPage
  <2> HIDE DEF Quiet
  <2> QED
    BY <2>1, <2>2, <2>3, <2>4, <2>5, <2>6, <2>7
<1> QED
  BY <1>1, <1>2 DEF PageSealed

(* An unsealing starts with the key of a wallet and nothing read.            *)
LEMMA UnsealSeals ==
    ASSUME RegulatorInv, SealInv, Unseal
    PROVE  PageSealed'
<1>1. page \in Pages /\ PageSealed
  BY DEF RegulatorInv, RegulatorTypeOK, SealInv
<1> DEFINE u == [record |-> page.record, key |-> page.key, read |-> [s \in {} |-> 0]]
<1>2. page.key # NoKey /\ page' = [page EXCEPT !.phase = "unsealing", !.unseal = u]
  BY DEF Unseal
<1>3. ReadsSealed(u)
  BY <1>1, <1>2 DEF PageSealed, ReadsSealed
<1> HIDE DEF u
<1>4. page'.key = page.key /\ page'.unseal = u /\ page'.phase = "unsealing"
  BY <1>1, <1>2 DEF Pages
<1> QED
  BY <1>1, <1>3, <1>4 DEF PageSealed

(* A ledger is read with what it is sealed for.                              *)
LEMMA LedgerReadSeals ==
    ASSUME RegulatorInv, SealInv, NEW s \in Sides, LedgerRead(s)
    PROVE  PageSealed'
<1> DEFINE u == page.unseal
           x == ledger[LedgerOf[u.record][s]]
           read == [t \in DOMAIN u.read \cup {s} |-> IF t = s THEN x ELSE u.read[t]]
           v == [u EXCEPT !.read = read]
<1>1. page \in Pages /\ PageSealed /\ Sealed(x.cts, x.from)
  <2>1. LedgerOf[u.record][s] \in Ledgers
    BY LedgersOfDeal DEF LedgerRead
  <2> QED
    BY <2>1 DEF RegulatorInv, RegulatorTypeOK, SealInv, LedgersSealed
<1>2. u # NotUnsealing /\ page' = [page EXCEPT !.unseal.read = read]
  BY DEF LedgerRead
<1>3. u \in Unsealings /\ ReadsSealed(u)
  BY <1>1, <1>2, PageFields DEF PageSealed
<1>4. page' = [page EXCEPT !.unseal = v]
  BY <1>2
<1>5. v.key = u.key /\ v.read = read
  BY <1>3 DEF Unsealings
<1>6. ASSUME NEW t \in DOMAIN read PROVE Sealed(read[t].cts, read[t].from)
  <2>1. CASE t = s
    BY <1>1, <2>1
  <2>2. CASE t # s
    <3>1. t \in DOMAIN u.read /\ read[t] = u.read[t]
      BY <1>6, <2>2
    <3> HIDE DEF read, u
    <3> QED
      BY <1>3, <3>1 DEF ReadsSealed
  <2> QED
    BY <2>1, <2>2
<1>7. KeyOfWallet(v.key)
  BY <1>3, <1>5 DEF ReadsSealed
<1> HIDE DEF read, v, u
<1>8. ReadsSealed(v)
  BY <1>5, <1>6, <1>7 DEF ReadsSealed
<1>9. /\ page'.unseal = v /\ page'.key = page.key /\ page'.phase = page.phase
      /\ page'.shown = page.shown
  BY <1>1, <1>4 DEF Pages
<1> QED
  BY <1>1, <1>8, <1>9 DEF PageSealed

(* What is revealed was decrypted with the key of a wallet.                  *)
LEMMA RevealedSeals ==
    ASSUME RegulatorInv, SealInv, Revealed
    PROVE  PageSealed'
<1>1. page \in Pages /\ PageSealed
  BY DEF RegulatorInv, RegulatorTypeOK, SealInv
<1> DEFINE u == page.unseal
           m == [of |-> u.record, ledgers |-> u.read,
                 amounts |-> [s \in Sides |-> Decrypted(u.read[s], u.key)]]
<1>2. /\ u # NotUnsealing /\ DOMAIN u.read = Sides
      /\ \A s \in Sides : Decrypted(u.read[s], u.key) # DecryptionFailed
      /\ page' = [page EXCEPT !.phase = "revealed", !.unseal = NotUnsealing, !.shown = m]
  BY DEF Revealed
<1>3. ReadsSealed(u)
  BY <1>1, <1>2 DEF PageSealed
<1>4. PICK w \in Wallets : u.key = SecretKey[w]
  BY <1>3 DEF ReadsSealed, KeyOfWallet
<1>5. \A s \in Sides : Decrypted(u.read[s], u.key) = decryptAmount(u.read[s].cts, SecretKey[w])
  BY <1>2, <1>4 DEF Decrypted
<1>6. \A s \in Sides : m.ledgers[s] = u.read[s] /\ m.amounts[s] = Decrypted(u.read[s], u.key)
  OBVIOUS
<1>7. \A s \in Sides : Sealed(u.read[s].cts, u.read[s].from)
  BY <1>2, <1>3 DEF ReadsSealed
<1> HIDE DEF m, u
<1>8. ShownDecrypted(m)
  <2> SUFFICES ASSUME NEW s \in Sides
               PROVE  /\ Sealed(m.ledgers[s].cts, m.ledgers[s].from)
                      /\ m.amounts[s] # DecryptionFailed
                      /\ \E v \in Wallets :
                            m.amounts[s] = decryptAmount(m.ledgers[s].cts, SecretKey[v])
    BY Zenon DEF ShownDecrypted
  <2>1. m.amounts[s] = decryptAmount(m.ledgers[s].cts, SecretKey[w])
    BY <1>5, <1>6
  <2> QED
    BY <1>2, <1>6, <1>7, <2>1
<1>9. /\ page'.key = page.key /\ page'.unseal = NotUnsealing /\ page'.shown = m
  BY <1>1, <1>2 DEF Pages
<1> QED
  BY <1>1, <1>8, <1>9 DEF PageSealed

LEMMA NextSealed == RegulatorInv /\ SealInv /\ [Next]_vars => SealInv'
<1> SUFFICES ASSUME RegulatorInv, SealInv, [Next]_vars PROVE SealInv'
  OBVIOUS
<1>1. CASE UNCHANGED vars
  BY <1>1 DEF vars, SealInv, ChunksSealed, LedgersSealed, PageSealed
<1>2. ASSUME NEW u \in Wallets, ReinitConfig(u) \/ MigrateAndTest(u) \/ RegulatorTest(u)
      PROVE  SealInv'
  BY <1>2, ConfigSeals DEF Sides
<1>3. ASSUME NEW u \in Wallets, NEW w \in Wallets, Register(u, w)
      PROVE  SealInv'
  BY <1>3, ConfigSeals DEF Sides
<1>4. ASSUME NEW l \in Ledgers, MigrateLedgerScript(l) \/ OpenBalance(l) PROVE SealInv'
  BY <1>4, LedgerSeals
<1>5. ASSUME NEW d \in Deals,
             EncryptForRegulator(d) \/ EncryptFails(d) \/ ExecuteSettle(d)
      PROVE  SealInv'
  <2>1. CASE EncryptForRegulator(d) \/ EncryptFails(d)
    BY <2>1, ChunksSeal
  <2>2. CASE ExecuteSettle(d)
    BY <2>2, ExecuteSeals
  <2> QED
    BY <1>5, <2>1, <2>2
<1>6. CASE PageNext
  <2>1. UNCHANGED Chain
    <3>1. ASSUME NEW d \in Addresses, FetchRecord(d) PROVE UNCHANGED Chain
      BY <3>1 DEF FetchRecord
    <3>2. ASSUME NEW w \in Wallets, SignWithWallet(w) PROVE UNCHANGED Chain
      BY <3>2 DEF SignWithWallet
    <3>3. ASSUME NEW s \in Sides, LedgerRead(s) PROVE UNCHANGED Chain
      BY <3>3 DEF LedgerRead
    <3>4. CASE \/ RecordFound \/ RecordNotFound \/ Signed \/ Unseal \/ Revealed
               \/ UnsealFails \/ Reset \/ Leave
      BY <3>4
         DEF RecordFound, RecordNotFound, Signed, Unseal, Revealed, UnsealFails,
             Reset, Leave
    <3> QED
      BY <1>6, <3>1, <3>2, <3>3, <3>4 DEF PageNext
  <2>2. ChunksSealed' /\ LedgersSealed'
    BY <2>1 DEF Chain, SealInv, ChunksSealed, LedgersSealed
  <2>3. PageSealed'
    <3>1. ASSUME NEW s \in Sides, LedgerRead(s) PROVE PageSealed'
      BY <3>1, LedgerReadSeals
    <3>2. CASE Unseal \/ Revealed
      BY <3>2, UnsealSeals, RevealedSeals
    <3>3. CASE \/ \E d \in Addresses : FetchRecord(d)
               \/ \E w \in Wallets : SignWithWallet(w)
               \/ RecordFound \/ RecordNotFound \/ Signed \/ UnsealFails
               \/ Reset \/ Leave
      BY <2>1, <3>3, QuietSeals
    <3> QED
      BY <1>6, <3>1, <3>2, <3>3 DEF PageNext
  <2> QED
    BY <2>2, <2>3 DEF SealInv
<1> QED
  BY <1>1, <1>2, <1>5, <1>6, <1>3, <1>4 DEF Next

(* The key a deal was encrypted for opens its amount, no other opens it, and  *)
(* zero bytes open to nothing that is shown.                                 *)
LEMMA SealedIsSettled == RegulatorInv /\ SealInv => RevealedIsSettled
<1> SUFFICES ASSUME RegulatorInv, SealInv, page.phase = "revealed", NEW s \in Sides
             PROVE  LET l == page.shown.ledgers[s]
                        moved == Amount[l.from.deal][l.from.side]
                    IN  Displayed(page.shown.amounts[s]) =
                            IF l.cts = NoCts \/ moved = 0 THEN KeyNotProvided ELSE moved
  BY Zenon DEF RevealedIsSettled
<1> DEFINE l == page.shown.ledgers[s]
           amount == page.shown.amounts[s]
           moved == Amount[l.from.deal][l.from.side]
<1>1. ShownDecrypted(page.shown)
  BY DEF SealInv, PageSealed
<1>2. Sealed(l.cts, l.from) /\ amount # DecryptionFailed
  BY <1>1, Zenon DEF ShownDecrypted
<1>3. PICK v \in Wallets : amount = decryptAmount(l.cts, SecretKey[v])
  BY <1>1, Zenon DEF ShownDecrypted
<1>4. SecretKey[v] \in Nat
  BY InputTypes
<1> HIDE DEF l, amount, moved
<1>5. CASE l.cts = NoCts
  <2>1. amount = 0
    BY <1>2, <1>3, <1>4, <1>5, NoCtsOpen
  <2>2. Displayed(amount) = KeyNotProvided
    BY <2>1 DEF Displayed
  <2> QED
    BY <1>5, <2>2 DEF l, amount, moved
<1>6. CASE l.cts # NoCts
  <2>1. PICK w \in Wallets, r \in Randoms :
           l.from \in Settlements /\ l.cts = encryptAmount(moved, KeyOf(w), r)
    BY <1>2, <1>6 DEF Sealed, moved
  <2>2. KeyOf(w) = KeyOf(v)
    BY <1>2, <1>3, <2>1, OtherKeysFail DEF Settlements, moved
  <2>3. amount = moved
    <3>1. moved \in Nat /\ moved < U32 * U32 /\ r \in Nat
      BY <2>1, InputTypes DEF Settlements, moved
    <3>2. decryptAmount(encryptAmount(moved, derivePublicKey(SecretKey[v]), r),
                        SecretKey[v]) = moved
      BY <1>4, <3>1, DecryptionIsInverse
    <3> QED
      BY <1>3, <2>1, <2>2, <3>2 DEF KeyOf
  <2>4. moved \in Nat
    BY <2>1, InputTypes DEF Settlements, moved
  <2>5. Displayed(amount) = IF moved = 0 THEN KeyNotProvided ELSE moved
    BY <2>3, <2>4 DEF Displayed
  <2> QED
    BY <1>6, <2>5 DEF l, amount, moved
<1> QED
  BY <1>5, <1>6

(* An amount on display is the one the settlement that left it moved, or      *)
(* none if that settlement left nothing for a regulator or moved nothing, in *)
(* every group in which an amount opens to no other wallet's key             *)
(* (OtherKeysFail): whatever was registered, settled, cancelled and asked    *)
(* again meanwhile (elgamal.ts:114-146, regulator.tsx:284, 459-475).          *)
THEOREM RevealedAmountsAreSettled == Spec => []RevealedIsSettled
<1>1. Init => RegulatorInv /\ SealInv
  BY InitRegulator, InitSealed
<1>2. RegulatorInv /\ SealInv /\ [Next]_vars => (RegulatorInv /\ SealInv)'
  BY NextRegulator, NextSealed
<1> QED
  BY <1>1, <1>2, SealedIsSettled, PTL DEF Spec

=============================================================================
