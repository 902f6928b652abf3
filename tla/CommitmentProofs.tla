---------------------------- MODULE CommitmentProofs ----------------------------
(***************************************************************************)
(* Theorems about Commitment: the five layouts of the preimage are one for   *)
(* all terms whose fields fit, and no two such terms have one commitment.    *)
(* Powers of two by induction on the exponent; from them, which bits a       *)
(* quotient and a remainder have; from those, bytes and streams of bits; and *)
(* last the layouts, field by field.                                         *)
(***************************************************************************)
EXTENDS Commitment, SequenceTheorems, WellFoundedInduction, TLAPS

-----------------------------------------------------------------------------
(* Numbers *)

(* A property of 0 that passes from each number to the next is one of all:    *)
(* there is no smallest number without it.                                   *)
LEMMA NumbersByStep ==
    ASSUME NEW P \in SUBSET Nat, 0 \in P, \A n \in P : n + 1 \in P
    PROVE  P = Nat
<1> DEFINE R == OpToRel(<, Nat)
           Q == Nat \ P
<1> SUFFICES ASSUME Q # {} PROVE FALSE
  OBVIOUS
<1>1. IsWellFoundedOn(R, Nat)
  BY NatLessThanWellFounded
<1>2. R = {pair \in Nat \X Nat : pair[1] < pair[2]}
  BY DEF OpToRel
<1>3. Q \subseteq Nat
  OBVIOUS
<1> HIDE DEF R, Q
<1>4. PICK x \in Q : \A y \in Q : ~(<<y, x>> \in R)
  BY <1>1, <1>3, WFMin
<1>5. x \in Nat /\ x # 0 /\ x \notin P
  BY <1>4 DEF Q
<1>6. x - 1 \in Nat /\ x - 1 \notin P
  BY <1>5
<1>7. <<x - 1, x>> \in R
  <2>1. <<x - 1, x>> \in Nat \X Nat /\ <<x - 1, x>>[1] < <<x - 1, x>>[2]
    BY <1>5, <1>6
  <2> QED
    BY <1>2, <2>1
<1> QED
  BY <1>4, <1>6, <1>7 DEF Q

LEMMA BitsAreNat ==
    /\ ByteBits \in Nat \ {0} /\ WordBytes \in Nat \ {0} /\ LongBytes \in Nat \ {0}
    /\ LongBits \in Nat /\ LongBits = ByteBits * LongBytes
    /\ LongBits = ByteBits * WordBytes + ByteBits * WordBytes
    /\ ByteBits * WordBytes \in Nat /\ ByteBits <= ByteBits * WordBytes
<1>1. ByteBits \in Nat \ {0} /\ WordBytes \in Nat \ {0}
  BY WordAssumption
<1>2. ByteBits * WordBytes \in Nat
  BY <1>1
<1>3. ByteBits * (2 * WordBytes) = ByteBits * WordBytes + ByteBits * WordBytes
  BY <1>1
<1>4. ByteBits * 1 <= ByteBits * WordBytes
  BY <1>1
<1> QED
  BY <1>1, <1>2, <1>3, <1>4 DEF LongBytes, LongBits

(* The function is well defined: for each bound one exponent longer.         *)
LEMMA PowersExist ==
    ASSUME NEW n \in Nat
    PROVE  \E f : f = [k \in 0 .. n |-> IF k = 0 THEN 1 ELSE 2 * f[k - 1]]
<1> DEFINE Def(f, m) == f = [k \in 0 .. m |-> IF k = 0 THEN 1 ELSE 2 * f[k - 1]]
           P == {m \in Nat : \E f : Def(f, m)}
<1>1. 0 \in P
  <2> DEFINE f == [k \in 0 .. 0 |-> 1]
  <2>1. Def(f, 0)
    OBVIOUS
  <2> QED
    BY <2>1, Zenon
<1>2. ASSUME NEW m \in P PROVE m + 1 \in P
  <2>1. PICK f : Def(f, m)
    BY <1>2
  <2> DEFINE g == [k \in 0 .. m + 1 |-> IF k = m + 1 THEN 2 * f[m] ELSE f[k]]
  <2>2. m \in Nat
    BY <1>2
  <2>3. Def(g, m + 1)
    <3>1. ASSUME NEW k \in 0 .. m + 1
          PROVE  g[k] = IF k = 0 THEN 1 ELSE 2 * g[k - 1]
      <4>1. CASE k = m + 1
        <5>1. k - 1 = m /\ g[m] = f[m] /\ k # 0
          BY <2>2, <4>1
        <5> QED
          BY <4>1, <5>1
      <4>2. CASE k # m + 1
        <5>1. k \in 0 .. m
          BY <2>2, <4>2
        <5>2. g[k] = f[k] /\ (k # 0 => g[k - 1] = f[k - 1])
          BY <2>2, <5>1
        <5> QED
          BY <2>1, <5>1, <5>2
      <4> QED
        BY <4>1, <4>2
    <3> QED
      BY <3>1
  <2>4. \E h : Def(h, m + 1)
    <3> HIDE DEF g, Def
    <3> QED
      BY <2>3
  <2> HIDE DEF g, Def
  <2> QED
    BY <2>2, <2>4
<1>3. P = Nat
  <2> HIDE DEF P
  <2>1. P \in SUBSET Nat
    BY DEF P
  <2> QED
    BY <1>1, <1>2, <2>1, NumbersByStep
<1> QED
  BY <1>3

LEMMA PowerLaws ==
    /\ PowerOfTwo[0] = 1
    /\ \A n \in Nat : n + 1 <= LongBits => PowerOfTwo[n + 1] = 2 * PowerOfTwo[n]
<1> DEFINE Def(f) == f = [k \in 0 .. LongBits |-> IF k = 0 THEN 1 ELSE 2 * f[k - 1]]
<1>1. \E f : Def(f)
  BY PowersExist, BitsAreNat, Zenon
<1>2. Def(CHOOSE f : Def(f))
  <2> HIDE DEF Def
  <2> QED
    BY <1>1
<1>3. PowerOfTwo = [k \in 0 .. LongBits |-> IF k = 0 THEN 1 ELSE 2 * PowerOfTwo[k - 1]]
  BY <1>2, Zenon DEF PowerOfTwo
<1>4. LongBits \in Nat
  BY BitsAreNat
<1>5. ASSUME NEW n \in Nat, n + 1 <= LongBits
      PROVE  PowerOfTwo[n + 1] = 2 * PowerOfTwo[n]
  <2>1. n + 1 \in 0 .. LongBits /\ n + 1 # 0 /\ (n + 1) - 1 = n
    BY <1>4, <1>5
  <2> QED
    BY <1>3, <2>1
<1>6. 0 \in 0 .. LongBits
  BY <1>4
<1>7. PowerOfTwo[0] = 1
  BY <1>3, <1>6
<1> QED
  BY <1>5, <1>7

LEMMA PowersArePositive ==
    ASSUME NEW n \in 0 .. LongBits
    PROVE  PowerOfTwo[n] \in Nat \ {0}
<1> DEFINE P == {m \in Nat : m <= LongBits => PowerOfTwo[m] \in Nat \ {0}}
<1>1. 0 \in P
  BY PowerLaws
<1>2. ASSUME NEW m \in P PROVE m + 1 \in P
  BY PowerLaws, BitsAreNat
<1>3. P = Nat
  <2>1. P \in SUBSET Nat
    OBVIOUS
  <2> HIDE DEF P
  <2> QED
    BY <1>1, <1>2, <2>1, NumbersByStep
<1> QED
  BY <1>3

LEMMA PowersMultiply ==
    ASSUME NEW m \in Nat, NEW n \in Nat, m + n <= LongBits
    PROVE  PowerOfTwo[m + n] = PowerOfTwo[m] * PowerOfTwo[n]
<1> DEFINE P == {k \in Nat : m + k <= LongBits =>
                               PowerOfTwo[m + k] = PowerOfTwo[m] * PowerOfTwo[k]}
<1>0. LongBits \in Nat
  BY BitsAreNat
<1>1. 0 \in P
  <2>1. m <= LongBits => PowerOfTwo[m] \in Nat
    BY <1>0, PowersArePositive
  <2> QED
    BY <2>1, PowerLaws
<1>2. ASSUME NEW k \in P PROVE k + 1 \in P
  <2>1. SUFFICES ASSUME m + (k + 1) <= LongBits
                 PROVE  PowerOfTwo[m + (k + 1)] = PowerOfTwo[m] * PowerOfTwo[k + 1]
    OBVIOUS
  <2>2. k \in Nat /\ m + k \in Nat /\ m + k <= LongBits /\ k <= LongBits /\ m <= LongBits
        /\ k + 1 <= LongBits /\ m + (k + 1) = (m + k) + 1
    BY <1>0, <2>1
  <2>3. PowerOfTwo[m + (k + 1)] = 2 * PowerOfTwo[m + k] /\ PowerOfTwo[k + 1] = 2 * PowerOfTwo[k]
    BY <1>0, <2>1, <2>2, PowerLaws
  <2>4. PowerOfTwo[m + k] = PowerOfTwo[m] * PowerOfTwo[k]
    BY <1>2, <2>2
  <2> DEFINE a == PowerOfTwo[m]
             b == PowerOfTwo[k]
  <2>5. a \in Nat /\ b \in Nat
    BY <2>2, PowersArePositive
  <2> HIDE DEF a, b
  <2>6. 2 * (a * b) = a * (2 * b)
    BY <2>5
  <2> QED
    BY <2>3, <2>4, <2>6 DEF a, b
<1>3. P = Nat
  <2>1. P \in SUBSET Nat
    OBVIOUS
  <2> HIDE DEF P
  <2> QED
    BY <1>1, <1>2, <2>1, NumbersByStep
<1> QED
  BY <1>3

-----------------------------------------------------------------------------
(* Quotients *)

(* Only multiples of the modulus that are not below it are at least n away.  *)
LEMMA NoMultipleBetween ==
    ASSUME NEW n \in Nat \ {0}, NEW k \in Int, n * k < n, n * k > -n
    PROVE  k = 0
<1>1. CASE k >= 1
  <2>1. n * k >= n * 1
    BY <1>1
  <2> QED
    BY <2>1
<1>2. CASE k <= -1
  <2>1. n * k <= n * (-1)
    BY <1>2
  <2> QED
    BY <2>1
<1> QED
  BY <1>1, <1>2

LEMMA QuotientOf ==
    ASSUME NEW d \in Nat \ {0}, NEW a \in Int
    PROVE  a \div d \in Int /\ a % d \in 0 .. d - 1 /\ a = d * (a \div d) + (a % d)
  OBVIOUS

(* Quotient and remainder are the only numbers that are so related.          *)
LEMMA QuotientIs ==
    ASSUME NEW d \in Nat \ {0}, NEW q \in Int, NEW r \in 0 .. d - 1, NEW a \in Int,
           a = d * q + r
    PROVE  a \div d = q /\ a % d = r
<1> DEFINE p == a \div d
           s == a % d
<1>1. p \in Int /\ s \in 0 .. d - 1 /\ a = d * p + s
  BY QuotientOf
<1> HIDE DEF p, s
<1>2. d * (p - q) = d * p - d * q
  BY <1>1
<1>3. d * (p - q) = r - s
  BY <1>1, <1>2
<1>4. p - q = 0
  BY <1>1, <1>3, NoMultipleBetween
<1>5. d * (p - q) = 0
  BY <1>4
<1> QED
  BY <1>1, <1>3, <1>4, <1>5 DEF p, s

(* Dividing twice is dividing by the product.                                *)
LEMMA QuotientOfQuotient ==
    ASSUME NEW a \in Int, NEW c \in Nat \ {0}, NEW d \in Nat \ {0}
    PROVE  (a \div c) \div d = a \div (c * d)
<1> DEFINE q == a \div c
           r == a % c
           p == q \div d
           s == q % d
           n == c * d
           rest == c * s + r
<1>1. q \in Int /\ r \in 0 .. c - 1 /\ a = c * q + r
  BY QuotientOf
<1> HIDE DEF q, r
<1>2. p \in Int /\ s \in 0 .. d - 1 /\ q = d * p + s
  BY <1>1, QuotientOf
<1> HIDE DEF p, s
<1>3. n \in Nat \ {0}
  OBVIOUS
<1>4. c * q = n * p + c * s
  <2>1. c * (d * p + s) = c * (d * p) + c * s
    BY <1>2
  <2>2. c * (d * p) = (c * d) * p
    BY <1>2
  <2> QED
    BY <1>2, <2>1, <2>2
<1>5. rest \in 0 .. n - 1
  <2>1. c * s <= c * (d - 1) /\ c * s >= 0 /\ c * s \in Int
    BY <1>2
  <2>2. c * (d - 1) = c * d - c
    OBVIOUS
  <2> QED
    BY <1>1, <1>3, <2>1, <2>2
<1>6. n * p \in Int /\ c * s \in Int
  BY <1>2, <1>3
<1> HIDE DEF n
<1>7. a = n * p + rest
  BY <1>1, <1>4, <1>6
<1> HIDE DEF rest
<1>8. a \div n = p
  BY <1>2, <1>3, <1>5, <1>7, QuotientIs
<1> QED
  BY <1>8 DEF n, p, q

(* A multiple of the divisor adds to the quotient and not to the remainder.   *)
LEMMA MultipleAdds ==
    ASSUME NEW d \in Nat \ {0}, NEW a \in Int, NEW m \in Int
    PROVE  (a + d * m) \div d = (a \div d) + m /\ (a + d * m) % d = a % d
<1> DEFINE q == a \div d
           r == a % d
<1>1. q \in Int /\ r \in 0 .. d - 1 /\ a = d * q + r
  BY QuotientOf
<1> HIDE DEF q, r
<1>2. d * (q + m) = d * q + d * m
  BY <1>1
<1>3. d * q \in Int /\ d * m \in Int /\ q + m \in Int
  BY <1>1
<1>4. a + d * m = d * (q + m) + r /\ a + d * m \in Int
  BY <1>1, <1>2, <1>3
<1>5. (a + d * m) \div d = q + m /\ (a + d * m) % d = r
  BY <1>1, <1>3, <1>4, QuotientIs
<1> QED
  BY <1>5 DEF q, r

-----------------------------------------------------------------------------
(* Bits *)

LEMMA BitIsBit ==
    ASSUME NEW v \in Int, NEW k \in 0 .. LongBits
    PROVE  Bit(v, k) \in 0 .. 1
<1>1. v \div PowerOfTwo[k] \in Int
  BY PowersArePositive, QuotientOf
<1> QED
  BY <1>1 DEF Bit

(* The bits above the k lowest are those of the quotient.                    *)
LEMMA BitOfQuotient ==
    ASSUME NEW v \in Int, NEW k \in Nat, NEW m \in Nat, k + m <= LongBits
    PROVE  Bit(v \div PowerOfTwo[k], m) = Bit(v, k + m)
<1>1. PowerOfTwo[k] \in Nat \ {0} /\ PowerOfTwo[m] \in Nat \ {0}
  BY PowersArePositive, BitsAreNat
<1>2. (v \div PowerOfTwo[k]) \div PowerOfTwo[m] = v \div (PowerOfTwo[k] * PowerOfTwo[m])
  BY <1>1, QuotientOfQuotient
<1>3. PowerOfTwo[k + m] = PowerOfTwo[k] * PowerOfTwo[m]
  BY PowersMultiply
<1> QED
  BY <1>2, <1>3 DEF Bit

(* The n lowest bits are those of the remainder.                             *)
LEMMA BitOfRemainder ==
    ASSUME NEW v \in Int, NEW n \in 0 .. LongBits, NEW m \in Nat, m < n
    PROVE  Bit(v % PowerOfTwo[n], m) = Bit(v, m)
<1> DEFINE N == PowerOfTwo[n]
           M == PowerOfTwo[m]
           R == PowerOfTwo[n - m - 1]
           q == v \div N
           r == v % N
<1>1. /\ LongBits \in Nat /\ n - m - 1 \in Nat /\ m \in 0 .. LongBits
      /\ n - m - 1 \in 0 .. LongBits /\ n - m \in Nat /\ m + (n - m) = n
      /\ (n - m - 1) + 1 = n - m /\ n - m <= LongBits
  BY BitsAreNat
<1>2. N \in Nat \ {0} /\ M \in Nat \ {0} /\ R \in Nat \ {0}
  BY <1>1, PowersArePositive
<1>3. N = M * (2 * R)
  <2>1. PowerOfTwo[n - m] = 2 * R
    BY <1>1, PowerLaws
  <2>2. PowerOfTwo[m + (n - m)] = M * PowerOfTwo[n - m]
    BY <1>1, PowersMultiply
  <2> QED
    BY <1>1, <2>1, <2>2
<1> HIDE DEF N, M, R
<1>4. q \in Int /\ r \in Int /\ v = N * q + r
  BY <1>2, QuotientOf
<1> HIDE DEF q, r
<1>5. N * q = M * (2 * (R * q))
  <2>1. (M * (2 * R)) * q = M * (2 * (R * q))
    BY <1>2, <1>4
  <2> QED
    BY <1>3, <2>1
<1>6. R * q \in Int /\ 2 * (R * q) \in Int
  BY <1>2, <1>4
<1>7. v = r + M * (2 * (R * q))
  <2>1. N * q \in Int
    BY <1>2, <1>4
  <2> QED
    BY <1>4, <1>5, <2>1
<1>8. v \div M = (r \div M) + 2 * (R * q)
  BY <1>2, <1>4, <1>6, <1>7, MultipleAdds
<1>9. r \div M \in Int
  BY <1>2, <1>4, QuotientOf
<1>10. (v \div M) % 2 = (r \div M) % 2
  BY <1>6, <1>8, <1>9, MultipleAdds
<1> QED
  BY <1>10 DEF Bit, M, N, r

(* Bits determine a number of n bits.                                        *)
LEMMA BitsDetermine ==
    ASSUME NEW n \in 0 .. LongBits, NEW v \in 0 .. PowerOfTwo[n] - 1,
           NEW w \in 0 .. PowerOfTwo[n] - 1,
           \A k \in 0 .. n - 1 : Bit(v, k) = Bit(w, k)
    PROVE  v = w
<1> DEFINE Same(a, b, m) == \A k \in 0 .. m - 1 : Bit(a, k) = Bit(b, k)
           P == {m \in Nat : m <= LongBits =>
                    \A a, b \in 0 .. PowerOfTwo[m] - 1 : Same(a, b, m) => a = b}
<1>0. LongBits \in Nat
  BY BitsAreNat
<1>1. 0 \in P
  BY PowerLaws
<1>2. ASSUME NEW m \in P PROVE m + 1 \in P
  <2>0. m \in Nat
    BY <1>2
  <2> SUFFICES ASSUME m + 1 <= LongBits, NEW a \in 0 .. PowerOfTwo[m + 1] - 1,
                      NEW b \in 0 .. PowerOfTwo[m + 1] - 1, Same(a, b, m + 1)
               PROVE  a = b
    BY <2>0
  <2>1. /\ m <= LongBits /\ 1 <= LongBits /\ PowerOfTwo[m] \in Nat \ {0}
        /\ PowerOfTwo[m + 1] = 2 * PowerOfTwo[m]
    BY <1>0, <2>0, PowerLaws, PowersArePositive
  <2>2. PowerOfTwo[0] = 1 /\ PowerOfTwo[1] = 2
    <3>1. PowerOfTwo[0 + 1] = 2 * PowerOfTwo[0]
      BY <2>1, PowerLaws
    <3> QED
      BY <3>1, PowerLaws
  <2>3. ASSUME NEW c \in 0 .. PowerOfTwo[m + 1] - 1
        PROVE  /\ c \in Int /\ c \div 2 \in 0 .. PowerOfTwo[m] - 1
               /\ c = 2 * (c \div 2) + Bit(c, 0)
               /\ \A k \in 0 .. m - 1 : Bit(c \div 2, k) = Bit(c, k + 1)
    <3>1. c \in Int
      BY <2>1
    <3>2. Bit(c, 0) = c % 2
      <4>1. c = 1 * c + 0
        BY <3>1
      <4>2. c \div 1 = c
        BY <3>1, <4>1, QuotientIs
      <4> QED
        BY <2>2, <4>2 DEF Bit
    <3>3. c \div 2 \in Int /\ c % 2 \in 0 .. 1 /\ c = 2 * (c \div 2) + (c % 2)
      BY <3>1
    <3>4. c \div 2 \in 0 .. PowerOfTwo[m] - 1
      BY <2>1, <3>3
    <3>5. ASSUME NEW k \in 0 .. m - 1
          PROVE  Bit(c \div 2, k) = Bit(c, k + 1)
      <4>1. k \in Nat /\ 1 + k <= LongBits /\ 1 + k = k + 1
        BY <2>0, <2>1, <1>0
      <4>2. Bit(c \div PowerOfTwo[1], k) = Bit(c, 1 + k)
        BY <3>1, <4>1, BitOfQuotient
      <4> QED
        BY <2>2, <4>1, <4>2
    <3> QED
      BY <3>1, <3>2, <3>3, <3>4, <3>5
  <2>4. Bit(a, 0) = Bit(b, 0)
    BY <2>0
  <2>5. ASSUME NEW k \in 0 .. m - 1
        PROVE  Bit(a \div 2, k) = Bit(b \div 2, k)
    <3>1. k + 1 \in 0 .. (m + 1) - 1
      BY <2>0
    <3>2. Bit(a, k + 1) = Bit(b, k + 1)
      BY <3>1
    <3> QED
      BY <2>3, <3>2
  <2>6. a \div 2 = b \div 2
    <3>1. Same(a \div 2, b \div 2, m)
      BY <2>5
    <3>2. \A x, y \in 0 .. PowerOfTwo[m] - 1 : Same(x, y, m) => x = y
      BY <1>2, <2>1
    <3>3. a \div 2 \in 0 .. PowerOfTwo[m] - 1 /\ b \div 2 \in 0 .. PowerOfTwo[m] - 1
      BY <2>3
    <3> HIDE DEF Same
    <3> QED
      BY <3>1, <3>2, <3>3
  <2> QED
    BY <2>3, <2>4, <2>6
<1>3. P = Nat
  <2>1. P \in SUBSET Nat
    OBVIOUS
  <2> HIDE DEF P
  <2> QED
    BY <1>1, <1>2, <2>1, NumbersByStep
<1> QED
  BY <1>3

-----------------------------------------------------------------------------
(* Bytes *)

(* The place of a bit: its byte, and its number in the byte.                 *)
LEMMA PlaceOfBit ==
    ASSUME NEW n \in Nat, NEW i \in 1 .. ByteBits * n
    PROVE  /\ (i - 1) \div ByteBits \in 0 .. n - 1
           /\ (i - 1) % ByteBits \in 0 .. ByteBits - 1
           /\ i - 1 = ByteBits * ((i - 1) \div ByteBits) + ((i - 1) % ByteBits)
<1> DEFINE q == (i - 1) \div ByteBits
           r == (i - 1) % ByteBits
<1>1. ByteBits \in Nat \ {0} /\ ByteBits * n \in Nat
  BY BitsAreNat
<1>2. i - 1 \in Int /\ i - 1 >= 0 /\ i - 1 < ByteBits * n
  BY <1>1
<1>3. q \in Int /\ r \in 0 .. ByteBits - 1 /\ i - 1 = ByteBits * q + r
  BY <1>1, <1>2, QuotientOf
<1> HIDE DEF q, r
<1>4. q >= 0
  <2> SUFFICES ASSUME q <= -1 PROVE FALSE
    BY <1>3
  <2>1. ByteBits * q <= ByteBits * (-1)
    BY <1>1, <1>3
  <2> QED
    BY <1>1, <1>2, <1>3, <2>1
<1>5. q < n
  <2> SUFFICES ASSUME q >= n PROVE FALSE
    BY <1>3
  <2>1. ByteBits * q >= ByteBits * n
    BY <1>1, <1>3
  <2> QED
    BY <1>1, <1>2, <1>3, <2>1
<1> QED
  BY <1>3, <1>4, <1>5 DEF q, r

(* And a bit with this place.                                                *)
LEMMA BitAtPlace ==
    ASSUME NEW n \in Nat, NEW q \in 0 .. n - 1, NEW r \in 0 .. ByteBits - 1
    PROVE  /\ ByteBits * q + r + 1 \in 1 .. ByteBits * n
           /\ ByteBits * q \in Nat /\ ByteBits * n \in Nat
           /\ ByteBits * q + ByteBits <= ByteBits * n
           /\ (ByteBits * q + r) \div ByteBits = q /\ (ByteBits * q + r) % ByteBits = r
<1>1. ByteBits \in Nat \ {0} /\ ByteBits * n \in Nat /\ ByteBits * q \in Nat
  BY BitsAreNat
<1>2. ByteBits * (q + 1) <= ByteBits * n
  BY <1>1
<1>3. ByteBits * (q + 1) = ByteBits * q + ByteBits
  BY <1>1
<1>4. ByteBits * q + r \in Int
  BY <1>1
<1> QED
  BY <1>1, <1>2, <1>3, <1>4, QuotientIs

LEMMA BytesType ==
    ASSUME NEW v \in Int, NEW n \in 0 .. LongBytes
    PROVE  /\ LittleEndian(v, n) \in Seq(0 .. Byte - 1)
           /\ Len(LittleEndian(v, n)) = n
           /\ \A i \in 1 .. n : /\ PowerOfTwo[ByteBits * (i - 1)] \in Nat \ {0}
                                /\ ByteBits * (i - 1) \in Nat
                                /\ ByteBits * (i - 1) + ByteBits <= LongBits
                                /\ LittleEndian(v, n)[i] =
                                      (v \div PowerOfTwo[ByteBits * (i - 1)]) % Byte
<1>1. Byte \in Nat \ {0} /\ n \in Nat
  BY BitsAreNat, PowersArePositive DEF Byte
<1>2. ASSUME NEW i \in 1 .. n
      PROVE  /\ PowerOfTwo[ByteBits * (i - 1)] \in Nat \ {0}
             /\ ByteBits * (i - 1) \in Nat
             /\ ByteBits * (i - 1) + ByteBits <= LongBits
             /\ (v \div PowerOfTwo[ByteBits * (i - 1)]) % Byte \in 0 .. Byte - 1
  <2>1. i - 1 \in 0 .. LongBytes - 1 /\ 0 \in 0 .. ByteBits - 1
    BY <1>1, BitsAreNat
  <2>2. ByteBits * (i - 1) \in Nat /\ ByteBits * (i - 1) + ByteBits <= LongBits
    BY <2>1, BitsAreNat, BitAtPlace
  <2>3. ByteBits * (i - 1) \in 0 .. LongBits
    BY <2>2, BitsAreNat
  <2>4. PowerOfTwo[ByteBits * (i - 1)] \in Nat \ {0}
    BY <2>3, PowersArePositive
  <2>5. v \div PowerOfTwo[ByteBits * (i - 1)] \in Int
    BY <2>4, QuotientOf
  <2>6. (v \div PowerOfTwo[ByteBits * (i - 1)]) % Byte \in 0 .. Byte - 1
    BY <1>1, <2>5, QuotientOf
  <2> QED
    BY <2>2, <2>4, <2>6
<1>3. LittleEndian(v, n) \in [1 .. n -> 0 .. Byte - 1]
  BY <1>2 DEF LittleEndian
<1> QED
  BY <1>1, <1>2, <1>3 DEF LittleEndian

(* The bits of a number and those of its bytes, read in SHA-256's order.     *)
LEMMA StreamOfBytes ==
    ASSUME NEW v \in Int, NEW n \in 0 .. LongBytes
    PROVE  /\ Stream(Num2Bits(v, n), n) = BitsOf(LittleEndian(v, n))
           /\ \A i \in 1 .. ByteBits * n :
                 LET k == ByteBits * ((i - 1) \div ByteBits)
                              + (ByteBits - 1 - ((i - 1) % ByteBits))
                 IN  k \in 0 .. ByteBits * n - 1 /\ Stream(Num2Bits(v, n), n)[i] = Bit(v, k)
<1>1. /\ n \in Nat /\ ByteBits \in Nat \ {0}
      /\ ByteBits * n \in Nat /\ ByteBits * n <= LongBits /\ LongBits \in Nat
  <2>1. n \in Nat /\ n <= LongBytes /\ ByteBits \in Nat \ {0} /\ LongBytes \in Nat
    BY BitsAreNat
  <2>2. ByteBits * n <= ByteBits * LongBytes /\ ByteBits * n \in Nat
    BY <2>1
  <2> QED
    BY <2>1, <2>2, BitsAreNat
<1>2. Len(LittleEndian(v, n)) = n
  BY BytesType
<1>3. ASSUME NEW i \in 1 .. ByteBits * n
      PROVE  LET q == (i - 1) \div ByteBits
                 r == (i - 1) % ByteBits
                 k == ByteBits * q + (ByteBits - 1 - r)
             IN  /\ k \in 0 .. ByteBits * n - 1
                 /\ Stream(Num2Bits(v, n), n)[i] = Bit(v, k)
                 /\ Bit(v, k) = Bit(LittleEndian(v, n)[1 + q], ByteBits - 1 - r)
  <2> DEFINE q == (i - 1) \div ByteBits
             r == (i - 1) % ByteBits
             m == ByteBits - 1 - r
             k == ByteBits * q + m
  <2>1. q \in 0 .. n - 1 /\ r \in 0 .. ByteBits - 1
    BY <1>1, PlaceOfBit
  <2>2. Stream(Num2Bits(v, n), n)[i] = Num2Bits(v, n)[q * ByteBits + m]
    BY DEF Stream
  <2> HIDE DEF q, r
  <2>3. m \in 0 .. ByteBits - 1
    BY <1>1, <2>1
  <2> HIDE DEF m
  <2>4. /\ k + 1 \in 1 .. ByteBits * n /\ ByteBits * q \in Nat
        /\ ByteBits * q + ByteBits <= ByteBits * n
    BY <1>1, <2>1, <2>3, BitAtPlace
  <2>5. k \in 0 .. ByteBits * n - 1 /\ k \in Nat /\ k <= LongBits
    BY <1>1, <2>1, <2>3, <2>4
  <2>6. q * ByteBits + m = k
    BY <1>1, <2>1, <2>3
  <2>7. Num2Bits(v, n)[k] = Bit(v, k)
    <3> HIDE DEF k
    <3> QED
      BY <2>5 DEF Num2Bits
  <2> DEFINE P == PowerOfTwo[ByteBits * q]
  <2>8. P \in Nat \ {0}
    <3>1. ByteBits * q \in 0 .. LongBits
      BY <1>1, <2>4
    <3> QED
      BY <3>1, PowersArePositive
  <2>9. v \div P \in Int
    BY <2>8, QuotientOf
  <2>10. Bit(v \div P, m) = Bit(v, k)
    BY <1>1, <2>3, <2>4, <2>5, BitOfQuotient
  <2>11. Bit((v \div P) % Byte, m) = Bit(v \div P, m)
    <3>1. ByteBits \in 0 .. LongBits /\ m \in Nat /\ m < ByteBits
      BY <1>1, <2>3, BitsAreNat
    <3> HIDE DEF P
    <3> QED
      BY <2>9, <3>1, BitOfRemainder DEF Byte
  <2>12. LittleEndian(v, n)[1 + q] = (v \div P) % Byte
    <3>1. 1 + q \in 1 .. n /\ (1 + q) - 1 = q
      BY <1>1, <2>1
    <3> QED
      BY <3>1, BytesType
  <2> HIDE DEF k, P
  <2> QED
    BY <2>2, <2>5, <2>6, <2>7, <2>10, <2>11, <2>12 DEF k, m, q, r
<1>4. Stream(Num2Bits(v, n), n) = [i \in 1 .. ByteBits * n |-> Stream(Num2Bits(v, n), n)[i]]
  BY DEF Stream
<1>5. BitsOf(LittleEndian(v, n)) =
        [i \in 1 .. ByteBits * n |->
            Bit(LittleEndian(v, n)[1 + ((i - 1) \div ByteBits)],
                ByteBits - 1 - ((i - 1) % ByteBits))]
  BY <1>2 DEF BitsOf
<1>6. Stream(Num2Bits(v, n), n) = BitsOf(LittleEndian(v, n))
  <2>1. \A i \in 1 .. ByteBits * n :
           Stream(Num2Bits(v, n), n)[i] =
              Bit(LittleEndian(v, n)[1 + ((i - 1) \div ByteBits)],
                  ByteBits - 1 - ((i - 1) % ByteBits))
    BY <1>3
  <2> DEFINE S == Stream(Num2Bits(v, n), n)
             f(i) == Bit(LittleEndian(v, n)[1 + ((i - 1) \div ByteBits)],
                         ByteBits - 1 - ((i - 1) % ByteBits))
  <2>2. S = [i \in 1 .. ByteBits * n |-> S[i]] /\ \A i \in 1 .. ByteBits * n : S[i] = f(i)
    BY <1>4, <2>1
  <2>3. BitsOf(LittleEndian(v, n)) = [i \in 1 .. ByteBits * n |-> f(i)]
    BY <1>5
  <2> HIDE DEF S, f
  <2>4. S = [i \in 1 .. ByteBits * n |-> f(i)]
    BY <2>2
  <2> QED
    BY <2>3, <2>4 DEF S
<1> QED
  BY <1>3, <1>6

Bits == 0 .. 1
Bytes == 0 .. Byte - 1

(* The bits of bytes one after the other are the bits of each.               *)
LEMMA BitsOfConcat ==
    ASSUME NEW p \in Seq(Bytes), NEW q \in Seq(Bytes)
    PROVE  /\ BitsOf(p \o q) = BitsOf(p) \o BitsOf(q)
           /\ BitsOf(p) \in Seq(Bits) /\ Len(BitsOf(p)) = ByteBits * Len(p)
<1>1. ByteBits \in Nat \ {0} /\ ByteBits <= LongBits
  BY BitsAreNat
<1>2. ASSUME NEW s \in Seq(Bytes)
      PROVE  /\ Len(s) \in Nat /\ ByteBits * Len(s) \in Nat
             /\ BitsOf(s) \in Seq(Bits) /\ Len(BitsOf(s)) = ByteBits * Len(s)
             /\ \A i \in 1 .. ByteBits * Len(s) :
                   BitsOf(s)[i] = Bit(s[1 + ((i - 1) \div ByteBits)],
                                      ByteBits - 1 - ((i - 1) % ByteBits))
  <2>1. Len(s) \in Nat /\ ByteBits * Len(s) \in Nat
    BY <1>1
  <2>2. ASSUME NEW i \in 1 .. ByteBits * Len(s)
        PROVE  Bit(s[1 + ((i - 1) \div ByteBits)],
                   ByteBits - 1 - ((i - 1) % ByteBits)) \in Bits
    <3> DEFINE a == (i - 1) \div ByteBits
               r == (i - 1) % ByteBits
    <3>1. a \in 0 .. Len(s) - 1 /\ r \in 0 .. ByteBits - 1
      BY <2>1, PlaceOfBit
    <3> HIDE DEF a, r
    <3>2. 1 + a \in 1 .. Len(s) /\ ByteBits - 1 - r \in 0 .. LongBits
      BY <1>1, <2>1, <3>1, BitsAreNat
    <3>3. s[1 + a] \in Int
      <4>1. s[1 + a] \in Bytes
        BY <3>2, ElementOfSeq
      <4> QED
        BY <4>1, BitsAreNat, PowersArePositive DEF Bytes, Byte
    <3> QED
      BY <3>2, <3>3, BitIsBit DEF Bits, a, r
  <2> DEFINE n == ByteBits * Len(s)
  <2>3. BitsOf(s) \in [1 .. n -> Bits]
    BY <2>2 DEF BitsOf
  <2>4. \A i \in 1 .. n : BitsOf(s)[i] = Bit(s[1 + ((i - 1) \div ByteBits)],
                                         ByteBits - 1 - ((i - 1) % ByteBits))
    BY DEF BitsOf
  <2>5. n \in Nat
    BY <2>1
  <2> HIDE DEF n
  <2>6. BitsOf(s) \in Seq(Bits) /\ Len(BitsOf(s)) = n
    BY <2>3, <2>5
  <2> QED
    BY <2>1, <2>4, <2>6 DEF n
<1>3. p \o q \in Seq(Bytes) /\ Len(p \o q) = Len(p) + Len(q)
  BY ConcatProperties
<1>4. ByteBits * (Len(p) + Len(q)) = ByteBits * Len(p) + ByteBits * Len(q)
  BY <1>1, <1>2
<1> DEFINE l == ByteBits * Len(p)
           m == ByteBits * Len(q)
           one == BitsOf(p \o q)
           two == BitsOf(p) \o BitsOf(q)
<1>5. /\ l \in Nat /\ m \in Nat /\ one \in Seq(Bits) /\ two \in Seq(Bits)
      /\ Len(one) = l + m /\ Len(two) = l + m
  <2>1. BitsOf(p) \in Seq(Bits) /\ BitsOf(q) \in Seq(Bits) /\ one \in Seq(Bits)
    BY <1>2, <1>3
  <2>2. Len(BitsOf(p)) = l /\ Len(BitsOf(q)) = m /\ Len(one) = l + m
    BY <1>2, <1>3, <1>4
  <2>3. two \in Seq(Bits) /\ Len(two) = Len(BitsOf(p)) + Len(BitsOf(q))
    BY <2>1, ConcatProperties
  <2> QED
    BY <1>2, <2>1, <2>2, <2>3
<1>6. ASSUME NEW i \in 1 .. l + m PROVE one[i] = two[i]
  <2> DEFINE a == (i - 1) \div ByteBits
             r == (i - 1) % ByteBits
  <2>1. one[i] = Bit((p \o q)[1 + a], ByteBits - 1 - r)
    BY <1>2, <1>3, <1>4
  <2>2. /\ a \in 0 .. Len(p) + Len(q) - 1 /\ r \in 0 .. ByteBits - 1
        /\ i - 1 = ByteBits * a + r
    <3>1. Len(p) + Len(q) \in Nat /\ i \in 1 .. ByteBits * (Len(p) + Len(q))
      BY <1>2, <1>4
    <3> QED
      BY <3>1, PlaceOfBit
  <2>3. (p \o q)[1 + a] = IF 1 + a <= Len(p) THEN p[1 + a] ELSE q[(1 + a) - Len(p)]
    <3>1. 1 + a \in 1 .. Len(p) + Len(q)
      <4> HIDE DEF a
      <4> QED
        BY <1>2, <2>2
    <3> HIDE DEF a
    <3> QED
      BY <3>1, ConcatProperties
  <2>4. two[i] = IF i <= l THEN BitsOf(p)[i] ELSE BitsOf(q)[i - l]
    BY <1>2, ConcatProperties
  <2>5. CASE i <= l
    <3>1. i \in 1 .. l
      BY <1>5, <2>5
    <3>2. a \in 0 .. Len(p) - 1
      BY <1>2, <3>1, PlaceOfBit
    <3>3. BitsOf(p)[i] = Bit(p[1 + a], ByteBits - 1 - r)
      BY <1>2, <3>1
    <3> HIDE DEF a, r, one, two, l
    <3>4. 1 + a <= Len(p)
      BY <1>2, <3>2
    <3> QED
      BY <2>1, <2>3, <2>4, <2>5, <3>3, <3>4
  <2>6. CASE i > l
    <3> DEFINE b == (i - l - 1) \div ByteBits
               t == (i - l - 1) % ByteBits
    <3>1. i - l \in 1 .. m
      BY <1>5, <2>6
    <3>2. /\ b \in 0 .. Len(q) - 1 /\ t \in 0 .. ByteBits - 1
          /\ i - l - 1 = ByteBits * b + t
      BY <1>2, <3>1, PlaceOfBit
    <3>3. BitsOf(q)[i - l] = Bit(q[1 + b], ByteBits - 1 - t)
      BY <1>2, <3>1
    <3>4. i - 1 = ByteBits * (Len(p) + b) + t
      <4> HIDE DEF b, t
      <4>1. b \in Int /\ t \in Int
        BY <1>2, <3>2
      <4>2. ByteBits * (Len(p) + b) = ByteBits * Len(p) + ByteBits * b
        BY <1>1, <1>2, <4>1
      <4>3. ByteBits * b \in Int
        BY <1>1, <4>1
      <4> QED
        BY <1>1, <1>2, <3>2, <4>1, <4>2, <4>3
    <3>5. a = Len(p) + b /\ r = t
      <4> HIDE DEF b, t
      <4>1. Len(p) + b \in Int /\ i - 1 \in Int
        BY <1>2, <3>2
      <4> QED
        BY <1>1, <3>2, <3>4, <4>1, QuotientIs
    <3> HIDE DEF a, r, b, t, one, two, l
    <3>6. ~(1 + a <= Len(p)) /\ (1 + a) - Len(p) = 1 + b
      BY <1>2, <3>2, <3>5
    <3> QED
      BY <1>5, <2>1, <2>3, <2>4, <2>6, <3>3, <3>5, <3>6
  <2> QED
    BY <1>5, <2>5, <2>6
<1>7. one = two
  <2> HIDE DEF one, two, l, m
  <2> QED
    BY <1>5, <1>6, SeqEqual
<1> QED
  BY <1>2, <1>7

-----------------------------------------------------------------------------
(* Layouts *)

LEMMA WordPowers ==
    /\ LIMB \in Nat \ {0} /\ LIMB = PowerOfTwo[ByteBits * WordBytes]
    /\ LIMB * LIMB = PowerOfTwo[LongBits] /\ LIMB * LIMB \in Nat \ {0}
    /\ WordBytes \in 0 .. LongBytes /\ LongBytes \in 0 .. LongBytes /\ 1 \in 0 .. LongBytes
    /\ LongBytes = WordBytes + WordBytes
    /\ LIMB = 2 * (LIMB \div 2) /\ LIMB \div 2 \in Nat \ {0}
    /\ Byte = PowerOfTwo[ByteBits] /\ Byte \in Nat \ {0}
<1>1. LIMB \in Nat \ {0} /\ LIMB = PowerOfTwo[ByteBits * WordBytes]
  BY FieldAssumption, WordAssumption
<1>2. PowerOfTwo[LongBits] = LIMB * LIMB
  <2>1. PowerOfTwo[ByteBits * WordBytes + ByteBits * WordBytes]
          = PowerOfTwo[ByteBits * WordBytes] * PowerOfTwo[ByteBits * WordBytes]
    BY BitsAreNat, PowersMultiply
  <2> QED
    BY <1>1, <2>1, BitsAreNat
<1>3. /\ WordBytes \in Nat \ {0} /\ LongBytes = WordBytes + WordBytes
  BY BitsAreNat DEF LongBytes
<1>4. LIMB = 2 * (LIMB \div 2) /\ LIMB \div 2 \in Nat \ {0}
  <2> DEFINE n == ByteBits * WordBytes
             h == PowerOfTwo[n - 1]
  <2>1. n \in Nat \ {0} /\ n <= LongBits /\ LongBits \in Nat
    BY BitsAreNat
  <2> HIDE DEF n
  <2>2. n - 1 \in Nat /\ (n - 1) + 1 = n /\ n - 1 \in 0 .. LongBits
    BY <2>1
  <2>3. h \in Nat \ {0} /\ PowerOfTwo[n] = 2 * h
    <3>1. PowerOfTwo[(n - 1) + 1] = 2 * PowerOfTwo[n - 1]
      BY <2>1, <2>2, PowerLaws
    <3> QED
      BY <2>2, <3>1, PowersArePositive
  <2> HIDE DEF h
  <2>4. LIMB = 2 * h
    BY <1>1, <2>3 DEF n
  <2> QED
    BY <2>3, <2>4
<1>5. Byte \in Nat \ {0}
  BY BitsAreNat, PowersArePositive DEF Byte
<1> QED
  BY <1>1, <1>2, <1>3, <1>4, <1>5 DEF Byte

(* A long written as its two words, lower first.                             *)
LEMMA LongFromWords ==
    ASSUME NEW e \in Int
    PROVE  LittleEndian(e, WordBytes) \o LittleEndian(e \div LIMB, WordBytes)
             = LittleEndian(e, LongBytes)
<1> DEFINE low == LittleEndian(e, WordBytes)
           high == LittleEndian(e \div LIMB, WordBytes)
           long == LittleEndian(e, LongBytes)
<1>1. /\ LIMB \in Nat \ {0} /\ LIMB = PowerOfTwo[ByteBits * WordBytes]
      /\ WordBytes \in 0 .. LongBytes /\ LongBytes \in 0 .. LongBytes
      /\ WordBytes \in Nat /\ LongBytes = WordBytes + WordBytes /\ LongBytes \in Nat
      /\ ByteBits \in Nat
  BY WordPowers, BitsAreNat
<1>2. e \div LIMB \in Int
  BY <1>1, QuotientOf
<1>3. /\ low \in Seq(Bytes) /\ high \in Seq(Bytes) /\ long \in Seq(Bytes)
      /\ Len(low) = WordBytes /\ Len(high) = WordBytes /\ Len(long) = LongBytes
  BY <1>1, <1>2, BytesType DEF Bytes
<1>4. ASSUME NEW i \in 1 .. LongBytes
      PROVE  (low \o high)[i] = long[i]
  <2>1. long[i] = (e \div PowerOfTwo[ByteBits * (i - 1)]) % Byte
    BY <1>1, BytesType
  <2>2. CASE i <= WordBytes
    <3>1. i \in 1 .. WordBytes
      BY <1>1, <2>2
    <3>2. low[i] = (e \div PowerOfTwo[ByteBits * (i - 1)]) % Byte
      BY <1>1, <3>1, BytesType
    <3>3. (low \o high)[i] = low[i]
      <4> HIDE DEF low, high
      <4> QED
        BY <1>1, <1>3, <3>1, ConcatProperties
    <3> QED
      BY <2>1, <3>2, <3>3
  <2>3. CASE i > WordBytes
    <3> DEFINE j == i - WordBytes
               P == PowerOfTwo[ByteBits * (j - 1)]
    <3>1. j \in 1 .. WordBytes /\ j + WordBytes = i
      BY <1>1, <2>3
    <3>2. /\ high[j] = ((e \div LIMB) \div P) % Byte
          /\ P \in Nat \ {0} /\ ByteBits * (j - 1) \in Nat
      BY <1>1, <1>2, <3>1, BytesType
    <3>3. (low \o high)[i] = high[j]
      <4> HIDE DEF low, high
      <4> QED
        BY <1>1, <1>3, <2>3, <3>1, ConcatProperties
    <3>4. ByteBits * (i - 1) = ByteBits * WordBytes + ByteBits * (j - 1)
      <4> HIDE DEF j
      <4>1. j \in Int /\ i - 1 = WordBytes + (j - 1)
        BY <1>1, <3>1
      <4> QED
        BY <1>1, <4>1
    <3>5. /\ ByteBits * (i - 1) <= LongBits
          /\ ByteBits * WordBytes \in Nat
      <4>1. ByteBits * (i - 1) + ByteBits <= LongBits /\ ByteBits * (i - 1) \in Nat
        BY <1>1, BytesType
      <4> QED
        BY <4>1, BitsAreNat
    <3>6. PowerOfTwo[ByteBits * (i - 1)] = LIMB * P
      <4> DEFINE m == ByteBits * WordBytes
                 n == ByteBits * (j - 1)
      <4>1. m \in Nat /\ n \in Nat /\ m + n <= LongBits
        BY <3>2, <3>4, <3>5
      <4> HIDE DEF j, m, n
      <4>2. PowerOfTwo[m + n] = PowerOfTwo[m] * PowerOfTwo[n]
        BY <4>1, PowersMultiply
      <4> QED
        BY <1>1, <3>4, <4>2 DEF m, n
    <3>7. (e \div LIMB) \div P = e \div (LIMB * P)
      <4> HIDE DEF P
      <4> QED
        BY <1>1, <3>2, QuotientOfQuotient
    <3> QED
      BY <2>1, <3>2, <3>3, <3>6, <3>7
  <2>4. i <= WordBytes \/ i > WordBytes
    BY <1>1
  <2> QED
    BY <2>2, <2>3, <2>4
<1> HIDE DEF low, high, long
<1>5. low \o high \in Seq(Bytes) /\ Len(low \o high) = LongBytes
  <2>1. low \o high \in Seq(Bytes) /\ Len(low \o high) = Len(low) + Len(high)
    BY <1>3, ConcatProperties
  <2> QED
    BY <1>1, <1>3, <2>1
<1> QED
  BY <1>3, <1>4, <1>5, SeqEqual DEF low, high, long

(* A long that is too large by LIMB^2 has the same bytes.                     *)
LEMMA LongWraps ==
    ASSUME NEW e \in Int
    PROVE  LittleEndian(e + LIMB * LIMB, LongBytes) = LittleEndian(e, LongBytes)
<1>1. /\ LongBytes \in 0 .. LongBytes /\ LIMB * LIMB = PowerOfTwo[LongBits]
      /\ LIMB * LIMB \in Int /\ Byte \in Nat \ {0} /\ ByteBits \in Nat /\ LongBits \in Nat
      /\ Byte = PowerOfTwo[ByteBits]
  BY WordPowers, BitsAreNat
<1> DEFINE f == e + LIMB * LIMB
<1>2. f \in Int
  BY <1>1
<1>3. ASSUME NEW i \in 1 .. LongBytes
      PROVE  LittleEndian(f, LongBytes)[i] = LittleEndian(e, LongBytes)[i]
  <2> DEFINE k == ByteBits * (i - 1)
             P == PowerOfTwo[k]
             n == LongBits - (k + ByteBits)
             R == PowerOfTwo[n]
  <2>1. /\ P \in Nat \ {0} /\ k \in Nat /\ k + ByteBits <= LongBits
        /\ LittleEndian(e, LongBytes)[i] = (e \div P) % Byte
    BY <1>1, BytesType
  <2>2. LittleEndian(f, LongBytes)[i] = (f \div P) % Byte
    BY <1>1, <1>2, BytesType
  <2> HIDE DEF k
  <2>3. n \in Nat /\ n <= LongBits /\ k + ByteBits \in Nat /\ (k + ByteBits) + n = LongBits
    BY <1>1, <2>1
  <2> HIDE DEF n
  <2>4. R \in Nat \ {0}
    <3>1. n \in 0 .. LongBits
      BY <1>1, <2>3
    <3> QED
      BY <3>1, PowersArePositive
  <2>5. PowerOfTwo[LongBits] = (P * Byte) * R
    <3>1. PowerOfTwo[(k + ByteBits) + n] = PowerOfTwo[k + ByteBits] * R
      BY <1>1, <2>3, PowersMultiply
    <3>2. PowerOfTwo[k + ByteBits] = P * Byte
      BY <1>1, <2>1, PowersMultiply
    <3> QED
      BY <2>3, <3>1, <3>2
  <2> HIDE DEF P, R
  <2>6. LIMB * LIMB = P * (Byte * R) /\ Byte * R \in Int
    BY <1>1, <2>1, <2>4, <2>5
  <2>7. f = e + P * (Byte * R)
    BY <2>6
  <2>8. f \div P = (e \div P) + Byte * R
    BY <2>1, <2>6, <2>7, MultipleAdds
  <2>9. e \div P \in Int
    BY <2>1, QuotientOf
  <2>10. (f \div P) % Byte = (e \div P) % Byte
    <3> DEFINE q == e \div P
    <3>1. q \in Int /\ f \div P = q + Byte * R
      BY <2>8, <2>9
    <3> HIDE DEF q, f
    <3>2. (q + Byte * R) % Byte = q % Byte
      <4>1. Byte \in Nat \ {0} /\ R \in Int
        BY <1>1, <2>4
      <4> QED
        BY <3>1, <4>1, MultipleAdds, Zenon
    <3> QED
      BY <3>1, <3>2 DEF q
  <2> QED
    BY <2>1, <2>2, <2>10
<1>4. /\ LittleEndian(f, LongBytes) \in Seq(Bytes) /\ LittleEndian(e, LongBytes) \in Seq(Bytes)
      /\ Len(LittleEndian(f, LongBytes)) = LongBytes
      /\ Len(LittleEndian(e, LongBytes)) = LongBytes
  BY <1>1, <1>2, BytesType DEF Bytes
<1> HIDE DEF f
<1>5. LittleEndian(f, LongBytes) = LittleEndian(e, LongBytes)
  BY <1>3, <1>4, SeqEqual
<1> QED
  BY <1>5 DEF f

(* Terms whose fields fit: 64-bit amounts and nonce, an i64 expiry.          *)
Fits(t) ==
    /\ Writable(t)
    /\ {t.asset_a_mint, t.asset_b_mint, t.counterparty} \subseteq Bytes
    /\ t.expiry \in -((LIMB * LIMB) \div 2) .. ((LIMB * LIMB) \div 2) - 1

LEMMA FieldBytes ==
    ASSUME NEW t, Fits(t)
    PROVE  /\ t.nonce \in Int /\ t.expiry \in Int
           /\ \A v \in {t.a.lo, t.a.hi, t.b.lo, t.b.hi} :
                 v \in 0 .. PowerOfTwo[ByteBits * WordBytes] - 1
           /\ LittleEndian(t.nonce, LongBytes) \in Seq(Bytes)
           /\ LittleEndian(t.expiry, LongBytes) \in Seq(Bytes)
           /\ \A v \in {t.a.lo, t.a.hi, t.b.lo, t.b.hi} :
                 LittleEndian(v, WordBytes) \in Seq(Bytes)
           /\ Keys(t) \in Seq(Bytes)
<1>1. /\ LIMB * LIMB \in Nat \ {0} /\ LIMB \in Nat \ {0}
      /\ LIMB = PowerOfTwo[ByteBits * WordBytes]
      /\ WordBytes \in 0 .. LongBytes /\ LongBytes \in 0 .. LongBytes
  BY WordPowers
<1>2. t.nonce \in Int /\ t.expiry \in Int
  <2> DEFINE square == LIMB * LIMB
             half == square \div 2
  <2>1. square \in Int /\ half \in Int
    BY <1>1
  <2>2. t.nonce \in 0 .. square - 1 /\ t.expiry \in -half .. half - 1
    BY DEF Fits, Writable
  <2> HIDE DEF square, half
  <2> QED
    BY <2>1, <2>2
<1>3. \A v \in {t.a.lo, t.a.hi, t.b.lo, t.b.hi} :
         v \in 0 .. PowerOfTwo[ByteBits * WordBytes] - 1
  BY <1>1 DEF Fits, Writable, Limb
<1>4. Keys(t) \in Seq(Bytes)
  BY DEF Fits, Keys
<1>5. \A v \in {t.a.lo, t.a.hi, t.b.lo, t.b.hi} : v \in Int
  BY <1>1, <1>3
<1>6. \A v \in Int : LittleEndian(v, WordBytes) \in Seq(Bytes)
                     /\ LittleEndian(v, LongBytes) \in Seq(Bytes)
  BY <1>1, BytesType DEF Bytes
<1> QED
  BY <1>2, <1>3, <1>4, <1>5, <1>6

(* What all layouts begin with: everything but the expiry.                   *)
Front(t) ==
    LittleEndian(t.nonce, LongBytes)
        \o LittleEndian(t.a.lo, WordBytes) \o LittleEndian(t.a.hi, WordBytes)
        \o LittleEndian(t.b.lo, WordBytes) \o LittleEndian(t.b.hi, WordBytes)
        \o Keys(t)

(* The SDK adds 2^64 to a negative expiry, which does not change its bytes.   *)
LEMMA SdkIsRust ==
    ASSUME NEW t, Fits(t)
    PROVE  SdkPreimage(t) = RustPreimage(t)
<1>1. t.expiry \in Int /\ Writable(t)
  BY FieldBytes DEF Fits
<1>2. LittleEndian(IF t.expiry < 0 THEN t.expiry + LIMB * LIMB ELSE t.expiry, LongBytes)
        = LittleEndian(t.expiry, LongBytes)
  <2>1. CASE t.expiry < 0
    BY <1>1, <2>1, LongWraps
  <2> QED
    BY <2>1
<1> QED
  BY <1>1, <1>2, Zenon DEF SdkPreimage, RustPreimage

LEMMA BrowserIsRust ==
    ASSUME NEW t, Fits(t)
    PROVE  BrowserPreimage(t) = RustPreimage(t)
<1> DEFINE low == LittleEndian(t.expiry, WordBytes)
           high == LittleEndian(t.expiry \div LIMB, WordBytes)
<1>1. t.expiry \in Int
  BY FieldBytes
<1>2. low \o high = LittleEndian(t.expiry, LongBytes)
  BY <1>1, LongFromWords
<1>3. Front(t) \in Seq(Bytes)
  BY FieldBytes, ConcatProperties DEF Front
<1>4. low \in Seq(Bytes) /\ high \in Seq(Bytes)
  <2>1. t.expiry \div LIMB \in Int /\ WordBytes \in 0 .. LongBytes
    BY <1>1, WordPowers, QuotientOf
  <2> QED
    BY <1>1, <2>1, BytesType DEF Bytes
<1>5. BrowserPreimage(t) = (Front(t) \o low) \o high
  BY Zenon DEF BrowserPreimage, Front
<1>6. RustPreimage(t) = Front(t) \o LittleEndian(t.expiry, LongBytes)
  BY Zenon DEF RustPreimage, Front
<1> HIDE DEF low, high
<1>7. (Front(t) \o low) \o high = Front(t) \o (low \o high)
  BY <1>3, <1>4, ConcatAssociative
<1> QED
  BY <1>2, <1>5, <1>6, <1>7

(* The check of the SDK's prover passes: the upper word of an i64 is below    *)
(* half of the words.                                                        *)
LEMMA ProverIsRust ==
    ASSUME NEW t, Fits(t)
    PROVE  ProverPreimage(t) = RustPreimage(t)
<1> DEFINE e == t.expiry
           q == e \div LIMB
           half == LIMB \div 2
<1>1. LIMB \in Nat \ {0} /\ LIMB = 2 * half /\ half \in Nat
  BY WordPowers
<1>2. e \in Int
  BY FieldBytes
<1>3. q \in Int /\ e >= LIMB * q
  <2>1. q \in Int /\ e % LIMB \in 0 .. LIMB - 1 /\ e = LIMB * q + (e % LIMB)
    BY <1>1, <1>2, QuotientOf
  <2> HIDE DEF q, e
  <2>2. LIMB * q \in Int
    BY <1>1, <2>1
  <2> QED
    BY <1>1, <2>1, <2>2
<1>4. e < LIMB * half
  <2>1. e < (LIMB * LIMB) \div 2
    <3> DEFINE bound == (LIMB * LIMB) \div 2
    <3>1. bound \in Int
      BY <1>1
    <3>2. e \in -bound .. bound - 1
      BY DEF Fits
    <3> HIDE DEF bound, e
    <3>3. e < bound
      BY <1>2, <3>1, <3>2
    <3> QED
      BY <3>3 DEF bound
  <2> DEFINE product == LIMB * half
  <2>2. LIMB * LIMB = 2 * product /\ product \in Int
    <3> HIDE DEF half
    <3>1. LIMB * (2 * half) = 2 * (LIMB * half)
      BY <1>1
    <3> QED
      BY <1>1, <3>1
  <2> HIDE DEF product, e
  <2>3. (LIMB * LIMB) \div 2 = product
    BY <2>2
  <2> QED
    BY <2>1, <2>3 DEF product
<1> HIDE DEF q, e, half
<1>5. q < half
  <2> SUFFICES ASSUME q >= half PROVE FALSE
    BY <1>1, <1>3
  <2>1. LIMB * q >= LIMB * half
    BY <1>1, <1>3
  <2>2. LIMB * q \in Int /\ LIMB * half \in Int
    BY <1>1, <1>3
  <2> QED
    BY <1>2, <1>3, <1>4, <2>1, <2>2
<1> QED
  BY <1>5, BrowserIsRust DEF ProverPreimage, Fits, q, e, half

(* A byte's bits.                                                            *)
LEMMA StreamOfByte ==
    ASSUME NEW v \in Bytes
    PROVE  Stream(Num2Bits(v, 1), 1) = BitsOf(<<v>>)
<1>1. v \in Int /\ v \in 0 .. Byte - 1 /\ 1 \in 0 .. LongBytes /\ Byte \in Nat \ {0}
  BY WordPowers DEF Bytes
<1>2. LittleEndian(v, 1) = <<v>>
  <2>1. ByteBits * (1 - 1) = 0 /\ PowerOfTwo[0] = 1
    BY BitsAreNat, PowerLaws
  <2>2. v \div 1 = v
    <3>1. v = 1 * v + 0
      BY <1>1
    <3> QED
      BY <1>1, <3>1, QuotientIs
  <2>3. v % Byte = v
    <3>1. v = Byte * 0 + v
      BY <1>1
    <3> QED
      BY <1>1, <3>1, QuotientIs
  <2>4. LittleEndian(v, 1) \in Seq(Bytes) /\ Len(LittleEndian(v, 1)) = 1
        /\ LittleEndian(v, 1)[1] = v
    <3>1. LittleEndian(v, 1)[1] = (v \div PowerOfTwo[ByteBits * (1 - 1)]) % Byte
      BY <1>1, BytesType
    <3>2. LittleEndian(v, 1) \in Seq(Bytes) /\ Len(LittleEndian(v, 1)) = 1
      BY <1>1, BytesType DEF Bytes
    <3> QED
      BY <2>1, <2>2, <2>3, <3>1, <3>2
  <2> HIDE DEF LittleEndian
  <2> QED
    BY <2>4
<1> QED
  BY <1>1, <1>2, StreamOfBytes

LEMMA BitsOfKeys ==
    ASSUME NEW t, Fits(t)
    PROVE  KeyBits(Keys(t)) = BitsOf(Keys(t))
<1> DEFINE a == t.asset_a_mint
           b == t.asset_b_mint
           c == t.counterparty
<1>1. a \in Bytes /\ b \in Bytes /\ c \in Bytes
  BY DEF Fits
<1> HIDE DEF a, b, c
<1>2. <<a>> \in Seq(Bytes) /\ <<b>> \in Seq(Bytes) /\ <<c>> \in Seq(Bytes)
      /\ <<a, b>> \in Seq(Bytes)
  BY <1>1
<1>3. <<a, b>> = <<a>> \o <<b>> /\ <<a, b, c>> = <<a, b>> \o <<c>>
  <2>1. /\ <<a>> \o <<b>> \in Seq(Bytes) /\ Len(<<a>> \o <<b>>) = 2
        /\ (<<a>> \o <<b>>)[1] = a /\ (<<a>> \o <<b>>)[2] = b
    BY <1>2, ConcatProperties
  <2>2. /\ <<a, b>> \o <<c>> \in Seq(Bytes) /\ Len(<<a, b>> \o <<c>>) = 3
        /\ (<<a, b>> \o <<c>>)[1] = a /\ (<<a, b>> \o <<c>>)[2] = b
        /\ (<<a, b>> \o <<c>>)[3] = c
    BY <1>2, ConcatProperties
  <2>3. <<a, b>> = <<a>> \o <<b>>
    <3>1. Len(<<a, b>>) = 2 /\ <<a, b>>[1] = a /\ <<a, b>>[2] = b
      OBVIOUS
    <3>2. \A i \in 1 .. 2 : <<a, b>>[i] = (<<a>> \o <<b>>)[i]
      BY <2>1, <3>1
    <3> QED
      BY <1>2, <2>1, <3>1, <3>2, SeqEqual
  <2>4. <<a, b, c>> = <<a, b>> \o <<c>>
    BY <1>1, <2>2
  <2> QED
    BY <2>3, <2>4
<1>4. BitsOf(<<a, b, c>>) = (BitsOf(<<a>>) \o BitsOf(<<b>>)) \o BitsOf(<<c>>)
  <2>1. BitsOf(<<a>> \o <<b>>) = BitsOf(<<a>>) \o BitsOf(<<b>>)
    BY <1>2, BitsOfConcat
  <2>2. BitsOf(<<a, b>> \o <<c>>) = BitsOf(<<a, b>>) \o BitsOf(<<c>>)
    BY <1>2, BitsOfConcat
  <2> QED
    BY <1>3, <2>1, <2>2, Zenon
<1>5. /\ Stream(Num2Bits(a, 1), 1) = BitsOf(<<a>>)
      /\ Stream(Num2Bits(b, 1), 1) = BitsOf(<<b>>)
      /\ Stream(Num2Bits(c, 1), 1) = BitsOf(<<c>>)
  BY <1>1, StreamOfByte
<1>6. Keys(t) = <<a, b, c>>
  BY DEF Keys, a, b, c
<1>7. <<a, b, c>>[1] = a /\ <<a, b, c>>[2] = b /\ <<a, b, c>>[3] = c
  OBVIOUS
<1> QED
  BY <1>4, <1>5, <1>6, <1>7, Zenon DEF KeyBits

(* The bits of the reference's layout, field by field.                       *)
LEMMA BitsOfRust ==
    ASSUME NEW t, Fits(t)
    PROVE  BitsOf(RustPreimage(t)) =
              BitsOf(LittleEndian(t.nonce, LongBytes))
                \o BitsOf(LittleEndian(t.a.lo, WordBytes))
                \o BitsOf(LittleEndian(t.a.hi, WordBytes))
                \o BitsOf(LittleEndian(t.b.lo, WordBytes))
                \o BitsOf(LittleEndian(t.b.hi, WordBytes))
                \o BitsOf(Keys(t)) \o BitsOf(LittleEndian(t.expiry, LongBytes))
<1> DEFINE n == LittleEndian(t.nonce, LongBytes)
           e == LittleEndian(t.expiry, LongBytes)
           a1 == LittleEndian(t.a.lo, WordBytes)
           a2 == LittleEndian(t.a.hi, WordBytes)
           b1 == LittleEndian(t.b.lo, WordBytes)
           b2 == LittleEndian(t.b.hi, WordBytes)
           k == Keys(t)
<1>1. /\ n \in Seq(Bytes) /\ e \in Seq(Bytes) /\ k \in Seq(Bytes)
      /\ a1 \in Seq(Bytes) /\ a2 \in Seq(Bytes) /\ b1 \in Seq(Bytes) /\ b2 \in Seq(Bytes)
  BY FieldBytes
<1>2. RustPreimage(t) = n \o a1 \o a2 \o b1 \o b2 \o k \o e
  BY Zenon DEF RustPreimage
<1> HIDE DEF n, e, a1, a2, b1, b2, k
<1>3. BitsOf(n \o a1) = BitsOf(n) \o BitsOf(a1) /\ n \o a1 \in Seq(Bytes)
  BY <1>1, BitsOfConcat, ConcatProperties
<1>4. BitsOf(n \o a1 \o a2) = BitsOf(n \o a1) \o BitsOf(a2) /\ n \o a1 \o a2 \in Seq(Bytes)
  BY <1>1, <1>3, BitsOfConcat, ConcatProperties
<1>5. /\ BitsOf(n \o a1 \o a2 \o b1) = BitsOf(n \o a1 \o a2) \o BitsOf(b1)
      /\ n \o a1 \o a2 \o b1 \in Seq(Bytes)
  BY <1>1, <1>4, BitsOfConcat, ConcatProperties
<1>6. /\ BitsOf(n \o a1 \o a2 \o b1 \o b2) = BitsOf(n \o a1 \o a2 \o b1) \o BitsOf(b2)
      /\ n \o a1 \o a2 \o b1 \o b2 \in Seq(Bytes)
  BY <1>1, <1>5, BitsOfConcat, ConcatProperties
<1>7. /\ BitsOf(n \o a1 \o a2 \o b1 \o b2 \o k) = BitsOf(n \o a1 \o a2 \o b1 \o b2) \o BitsOf(k)
      /\ n \o a1 \o a2 \o b1 \o b2 \o k \in Seq(Bytes)
  BY <1>1, <1>6, BitsOfConcat, ConcatProperties
<1>8. BitsOf(n \o a1 \o a2 \o b1 \o b2 \o k \o e)
        = BitsOf(n \o a1 \o a2 \o b1 \o b2 \o k) \o BitsOf(e)
  BY <1>1, <1>7, BitsOfConcat
<1> QED
  BY <1>2, <1>3, <1>4, <1>5, <1>6, <1>7, <1>8, Zenon DEF n, e, a1, a2, b1, b2, k

(* The circuit hashes the bits of the reference's layout.                    *)
LEMMA CircuitIsRust ==
    ASSUME NEW t, Fits(t)
    PROVE  CircuitPreimage(toBits64(t.nonce), t.a, t.b, Keys(t), toBits64(t.expiry))
             = BitsOf(RustPreimage(t))
<1>1. \A v : toBits64(v) = Num2Bits(v, LongBytes)
  BY DEF toBits64, Num2Bits, LongBits
<1>2. /\ t.nonce \in Int /\ t.expiry \in Int
      /\ t.a.lo \in Int /\ t.a.hi \in Int /\ t.b.lo \in Int /\ t.b.hi \in Int
  <2>1. t.a.lo \in Limb /\ t.a.hi \in Limb /\ t.b.lo \in Limb /\ t.b.hi \in Limb
    BY DEF Fits, Writable
  <2>2. Limb \subseteq Int
    BY WordPowers DEF Limb
  <2> QED
    BY <2>1, <2>2, FieldBytes
<1>3. \A v \in Int : /\ Stream(Num2Bits(v, LongBytes), LongBytes) = BitsOf(LittleEndian(v, LongBytes))
                     /\ Stream(Num2Bits(v, WordBytes), WordBytes) = BitsOf(LittleEndian(v, WordBytes))
  BY StreamOfBytes, WordPowers
<1>4. KeyBits(Keys(t)) = BitsOf(Keys(t))
  BY BitsOfKeys
<1>5. /\ Stream(toBits64(t.nonce), LongBytes) = BitsOf(LittleEndian(t.nonce, LongBytes))
      /\ Stream(toBits64(t.expiry), LongBytes) = BitsOf(LittleEndian(t.expiry, LongBytes))
      /\ Stream(Num2Bits(t.a.lo, WordBytes), WordBytes) = BitsOf(LittleEndian(t.a.lo, WordBytes))
      /\ Stream(Num2Bits(t.a.hi, WordBytes), WordBytes) = BitsOf(LittleEndian(t.a.hi, WordBytes))
      /\ Stream(Num2Bits(t.b.lo, WordBytes), WordBytes) = BitsOf(LittleEndian(t.b.lo, WordBytes))
      /\ Stream(Num2Bits(t.b.hi, WordBytes), WordBytes) = BitsOf(LittleEndian(t.b.hi, WordBytes))
  BY <1>1, <1>2, <1>3, Zenon
<1> QED
  BY <1>4, <1>5, BitsOfRust, Zenon DEF CircuitPreimage

-----------------------------------------------------------------------------
(* What a commitment fixes *)

(* Parts of known length can be read off a sequence.                         *)
LEMMA SameFront ==
    ASSUME NEW p1, NEW q1, NEW p2, NEW q2, p1 \o q1 = p2 \o q2,
           p1 \in Seq(Bits) /\ q1 \in Seq(Bits), p2 \in Seq(Bits) /\ q2 \in Seq(Bits),
           Len(p1) = Len(p2)
    PROVE  p1 = p2
<1>1. ASSUME NEW i \in 1 .. Len(p1) PROVE p1[i] = p2[i]
  <2>1. Len(p1) \in Nat /\ Len(q1) \in Nat /\ Len(q2) \in Nat
    OBVIOUS
  <2>2. (p1 \o q1)[i] = p1[i] /\ (p2 \o q2)[i] = p2[i]
    BY <2>1, ConcatProperties
  <2> QED
    BY <2>2
<1> QED
  BY <1>1, SeqEqual

LEMMA SameRest ==
    ASSUME NEW p1, NEW q1, NEW p2, NEW q2, p1 \o q1 = p2 \o q2,
           p1 \in Seq(Bits) /\ q1 \in Seq(Bits), p2 \in Seq(Bits) /\ q2 \in Seq(Bits),
           Len(p1) = Len(p2)
    PROVE  q1 = q2
<1>1. Len(q1) = Len(q2)
  <2>1. Len(p1) \in Nat /\ Len(q1) \in Nat /\ Len(q2) \in Nat
    OBVIOUS
  <2>2. Len(p1 \o q1) = Len(p1) + Len(q1)
    BY ConcatProperties
  <2>3. Len(p2 \o q2) = Len(p2) + Len(q2)
    BY ConcatProperties
  <2> QED
    BY <2>1, <2>2, <2>3
<1>2. ASSUME NEW i \in 1 .. Len(q1) PROVE q1[i] = q2[i]
  <2> DEFINE j == Len(p1) + i
  <2>1. j \in 1 .. Len(p1) + Len(q1) /\ ~(j <= Len(p1)) /\ j - Len(p1) = i
    OBVIOUS
  <2> HIDE DEF j
  <2>2. (p1 \o q1)[j] = q1[i]
    BY <2>1, ConcatProperties
  <2>3. (p2 \o q2)[j] = q2[i]
    BY <1>1, <2>1, ConcatProperties
  <2> QED
    BY <2>2, <2>3
<1> QED
  BY <1>1, <1>2, SeqEqual

(* A number is determined by the bits of its bytes.                          *)
LEMMA BytesDetermine ==
    ASSUME NEW n \in 0 .. LongBytes,
           NEW v \in 0 .. PowerOfTwo[ByteBits * n] - 1,
           NEW w \in 0 .. PowerOfTwo[ByteBits * n] - 1,
           BitsOf(LittleEndian(v, n)) = BitsOf(LittleEndian(w, n))
    PROVE  v = w
<1> DEFINE N == ByteBits * n
<1>1. /\ n \in Nat /\ ByteBits \in Nat \ {0} /\ N \in 0 .. LongBits
  <2>1. n \in Nat /\ n <= LongBytes /\ ByteBits \in Nat \ {0} /\ LongBytes \in Nat
    BY BitsAreNat
  <2>2. ByteBits * n <= ByteBits * LongBytes /\ ByteBits * n \in Nat
    BY <2>1
  <2> QED
    BY <2>1, <2>2, BitsAreNat
<1>2. v \in Int /\ w \in Int /\ v \in 0 .. PowerOfTwo[N] - 1 /\ w \in 0 .. PowerOfTwo[N] - 1
  BY <1>1, PowersArePositive
<1>3. Stream(Num2Bits(v, n), n) = Stream(Num2Bits(w, n), n)
  BY <1>2, StreamOfBytes
<1>4. ASSUME NEW k \in 0 .. N - 1
      PROVE  Bit(v, k) = Bit(w, k)
  <2> DEFINE q == k \div ByteBits
             r == k % ByteBits
             j == ByteBits * q + (ByteBits - 1 - r)
  <2>1. k + 1 \in 1 .. ByteBits * n /\ (k + 1) - 1 = k
    BY <1>1
  <2>2. q \in 0 .. n - 1 /\ r \in 0 .. ByteBits - 1 /\ k = ByteBits * q + r
    BY <1>1, <2>1, PlaceOfBit
  <2> HIDE DEF q, r, N
  <2>3. ByteBits - 1 - r \in 0 .. ByteBits - 1 /\ ByteBits - 1 - (ByteBits - 1 - r) = r
    BY <1>1, <2>2
  <2>4. /\ j + 1 \in 1 .. ByteBits * n
        /\ j \div ByteBits = q /\ j % ByteBits = ByteBits - 1 - r
        /\ ByteBits * q \in Nat
    BY <1>1, <2>2, <2>3, BitAtPlace
  <2>5. (j + 1) - 1 = j
    BY <1>1, <2>2, <2>3, <2>4
  <2> HIDE DEF j
  <2>6. /\ Stream(Num2Bits(v, n), n)[j + 1] = Bit(v, k)
        /\ Stream(Num2Bits(w, n), n)[j + 1] = Bit(w, k)
    <3>1. \A u \in Int : Stream(Num2Bits(u, n), n)[j + 1] =
             Bit(u, ByteBits * (((j + 1) - 1) \div ByteBits)
                       + (ByteBits - 1 - (((j + 1) - 1) % ByteBits)))
      BY <2>4, StreamOfBytes
    <3>2. ByteBits * (((j + 1) - 1) \div ByteBits)
             + (ByteBits - 1 - (((j + 1) - 1) % ByteBits)) = k
      BY <2>2, <2>3, <2>4, <2>5
    <3> QED
      BY <1>2, <3>1, <3>2, Zenon
  <2> QED
    BY <1>3, <2>6
<1> HIDE DEF N
<1> QED
  BY <1>1, <1>2, <1>4, BitsDetermine

(* No two deals with fields that fit have one commitment: every term can be   *)
(* read off what is hashed, and a digest off nothing else.                   *)
THEOREM CommitmentBinds ==
    ASSUME NEW t, NEW u, Fits(t), Fits(u), computeCommitment(t) = computeCommitment(u)
    PROVE  /\ t.nonce = u.nonce /\ t.expiry = u.expiry /\ Keys(t) = Keys(u)
           /\ t.a.lo = u.a.lo /\ t.a.hi = u.a.hi /\ t.b.lo = u.b.lo /\ t.b.hi = u.b.hi
<1>1. BitsOf(RustPreimage(t)) = BitsOf(RustPreimage(u))
  <2>1. \A x, y : Digest(x) = Digest(y) => x = y
    BY DEF Digest
  <2> QED
    BY <2>1, SdkIsRust, Zenon DEF computeCommitment, CommitmentHash
<1> DEFINE long(v) == BitsOf(LittleEndian(v, LongBytes))
           word(v) == BitsOf(LittleEndian(v, WordBytes))
           keys(x) == BitsOf(Keys(x))
<1>2. ASSUME NEW x, Fits(x)
      PROVE  /\ long(x.nonce) \in Seq(Bits) /\ Len(long(x.nonce)) = ByteBits * LongBytes
             /\ long(x.expiry) \in Seq(Bits) /\ Len(long(x.expiry)) = ByteBits * LongBytes
             /\ \A v \in {x.a.lo, x.a.hi, x.b.lo, x.b.hi} :
                   word(v) \in Seq(Bits) /\ Len(word(v)) = ByteBits * WordBytes
             /\ keys(x) \in Seq(Bits) /\ Len(keys(x)) = ByteBits * 3
  <2>1. /\ x.nonce \in Int /\ x.expiry \in Int
        /\ \A v \in {x.a.lo, x.a.hi, x.b.lo, x.b.hi} : v \in Limb
    BY <1>2, FieldBytes DEF Fits, Writable
  <2>2. Limb \subseteq Int
    BY WordPowers DEF Limb
  <2>3. \A v \in Int : /\ LittleEndian(v, LongBytes) \in Seq(Bytes)
                       /\ Len(LittleEndian(v, LongBytes)) = LongBytes
                       /\ LittleEndian(v, WordBytes) \in Seq(Bytes)
                       /\ Len(LittleEndian(v, WordBytes)) = WordBytes
    BY WordPowers, BytesType DEF Bytes
  <2>4. Keys(x) \in Seq(Bytes) /\ Len(Keys(x)) = 3
    BY <1>2, FieldBytes DEF Keys
  <2>5. \A s \in Seq(Bytes) : BitsOf(s) \in Seq(Bits) /\ Len(BitsOf(s)) = ByteBits * Len(s)
    BY BitsOfConcat
  <2> HIDE DEF Limb
  <2>6. \A v \in Int : /\ long(v) \in Seq(Bits) /\ Len(long(v)) = ByteBits * LongBytes
                       /\ word(v) \in Seq(Bits) /\ Len(word(v)) = ByteBits * WordBytes
    BY <2>3, <2>5, Zenon
  <2>7. keys(x) \in Seq(Bits) /\ Len(keys(x)) = ByteBits * 3
    BY <2>4, <2>5
  <2> HIDE DEF long, word, keys
  <2> QED
    BY <2>1, <2>2, <2>6, <2>7
<1> DEFINE front1(x) == long(x.nonce)
           front2(x) == front1(x) \o word(x.a.lo)
           front3(x) == front2(x) \o word(x.a.hi)
           front4(x) == front3(x) \o word(x.b.lo)
           front5(x) == front4(x) \o word(x.b.hi)
           front6(x) == front5(x) \o keys(x)
<1>3. \A x : Fits(x) => BitsOf(RustPreimage(x)) = front6(x) \o long(x.expiry)
  BY BitsOfRust, Zenon
<1> HIDE DEF long, word, keys
<1>4. ASSUME NEW p \in Seq(Bits), NEW q \in Seq(Bits)
      PROVE  p \o q \in Seq(Bits) /\ Len(p \o q) = Len(p) + Len(q)
  BY ConcatProperties
<1>5. ASSUME NEW x, Fits(x)
      PROVE  /\ front1(x) \in Seq(Bits) /\ front2(x) \in Seq(Bits) /\ front3(x) \in Seq(Bits)
             /\ front4(x) \in Seq(Bits) /\ front5(x) \in Seq(Bits) /\ front6(x) \in Seq(Bits)
             /\ Len(front2(x)) = Len(front1(x)) + ByteBits * WordBytes
             /\ Len(front3(x)) = Len(front2(x)) + ByteBits * WordBytes
             /\ Len(front4(x)) = Len(front3(x)) + ByteBits * WordBytes
             /\ Len(front5(x)) = Len(front4(x)) + ByteBits * WordBytes
             /\ Len(front6(x)) = Len(front5(x)) + ByteBits * 3
             /\ Len(front1(x)) = ByteBits * LongBytes
  <2>1. front1(x) \in Seq(Bits) /\ Len(front1(x)) = ByteBits * LongBytes
    BY <1>2, <1>5
  <2>2. \A v \in {x.a.lo, x.a.hi, x.b.lo, x.b.hi} :
           word(v) \in Seq(Bits) /\ Len(word(v)) = ByteBits * WordBytes
    BY <1>2, <1>5
  <2>3. keys(x) \in Seq(Bits) /\ Len(keys(x)) = ByteBits * 3
    BY <1>2, <1>5
  <2> HIDE DEF front1
  <2>4. front2(x) \in Seq(Bits) /\ Len(front2(x)) = Len(front1(x)) + ByteBits * WordBytes
    BY <1>4, <2>1, <2>2
  <2> HIDE DEF front2
  <2>5. front3(x) \in Seq(Bits) /\ Len(front3(x)) = Len(front2(x)) + ByteBits * WordBytes
    BY <1>4, <2>2, <2>4
  <2> HIDE DEF front3
  <2>6. front4(x) \in Seq(Bits) /\ Len(front4(x)) = Len(front3(x)) + ByteBits * WordBytes
    BY <1>4, <2>2, <2>5
  <2> HIDE DEF front4
  <2>7. front5(x) \in Seq(Bits) /\ Len(front5(x)) = Len(front4(x)) + ByteBits * WordBytes
    BY <1>4, <2>2, <2>6
  <2> HIDE DEF front5
  <2>8. front6(x) \in Seq(Bits) /\ Len(front6(x)) = Len(front5(x)) + ByteBits * 3
    BY <1>4, <2>3, <2>7
  <2> QED
    BY <2>1, <2>4, <2>5, <2>6, <2>7, <2>8
<1>6. /\ Len(front1(t)) = Len(front1(u)) /\ Len(front2(t)) = Len(front2(u))
      /\ Len(front3(t)) = Len(front3(u)) /\ Len(front4(t)) = Len(front4(u))
      /\ Len(front5(t)) = Len(front5(u)) /\ Len(front6(t)) = Len(front6(u))
  <2> HIDE DEF front1, front2, front3, front4, front5, front6
  <2> QED
    BY <1>5
<1>7. front6(t) \o long(t.expiry) = front6(u) \o long(u.expiry)
  BY <1>1, <1>3
<1>8. front6(t) = front6(u) /\ long(t.expiry) = long(u.expiry)
  <2>1. /\ long(t.expiry) \in Seq(Bits) /\ long(u.expiry) \in Seq(Bits)
        /\ front6(t) \in Seq(Bits) /\ front6(u) \in Seq(Bits)
        /\ Len(front6(t)) = Len(front6(u))
    BY <1>2, <1>5, <1>6
  <2>2. front6(t) \o long(t.expiry) = front6(u) \o long(u.expiry)
    BY <1>7, Zenon
  <2> HIDE DEF front6
  <2>3. front6(t) = front6(u)
    BY <2>1, <2>2, SameFront, Zenon
  <2>4. long(t.expiry) = long(u.expiry)
    BY <2>1, <2>2, SameRest, Zenon
  <2> QED
    BY <2>3, <2>4
<1>9. front5(t) = front5(u) /\ keys(t) = keys(u)
  <2>1. /\ keys(t) \in Seq(Bits) /\ keys(u) \in Seq(Bits)
        /\ front5(t) \in Seq(Bits) /\ front5(u) \in Seq(Bits)
        /\ Len(front5(t)) = Len(front5(u))
    BY <1>2, <1>5, <1>6
  <2>2. front5(t) \o keys(t) = front5(u) \o keys(u)
    BY <1>8, Zenon
  <2> HIDE DEF front5
  <2>3. front5(t) = front5(u)
    BY <2>1, <2>2, SameFront, Zenon
  <2>4. keys(t) = keys(u)
    BY <2>1, <2>2, SameRest, Zenon
  <2> QED
    BY <2>3, <2>4
<1>10. front4(t) = front4(u) /\ word(t.b.hi) = word(u.b.hi)
  <2>1. /\ word(t.b.hi) \in Seq(Bits) /\ word(u.b.hi) \in Seq(Bits)
        /\ front4(t) \in Seq(Bits) /\ front4(u) \in Seq(Bits)
        /\ Len(front4(t)) = Len(front4(u))
    BY <1>2, <1>5, <1>6
  <2>2. front4(t) \o word(t.b.hi) = front4(u) \o word(u.b.hi)
    BY <1>9, Zenon
  <2> HIDE DEF front4
  <2>3. front4(t) = front4(u)
    BY <2>1, <2>2, SameFront, Zenon
  <2>4. word(t.b.hi) = word(u.b.hi)
    BY <2>1, <2>2, SameRest, Zenon
  <2> QED
    BY <2>3, <2>4
<1>11. front3(t) = front3(u) /\ word(t.b.lo) = word(u.b.lo)
  <2>1. /\ word(t.b.lo) \in Seq(Bits) /\ word(u.b.lo) \in Seq(Bits)
        /\ front3(t) \in Seq(Bits) /\ front3(u) \in Seq(Bits)
        /\ Len(front3(t)) = Len(front3(u))
    BY <1>2, <1>5, <1>6
  <2>2. front3(t) \o word(t.b.lo) = front3(u) \o word(u.b.lo)
    BY <1>10, Zenon
  <2> HIDE DEF front3
  <2>3. front3(t) = front3(u)
    BY <2>1, <2>2, SameFront, Zenon
  <2>4. word(t.b.lo) = word(u.b.lo)
    BY <2>1, <2>2, SameRest, Zenon
  <2> QED
    BY <2>3, <2>4
<1>12. front2(t) = front2(u) /\ word(t.a.hi) = word(u.a.hi)
  <2>1. /\ word(t.a.hi) \in Seq(Bits) /\ word(u.a.hi) \in Seq(Bits)
        /\ front2(t) \in Seq(Bits) /\ front2(u) \in Seq(Bits)
        /\ Len(front2(t)) = Len(front2(u))
    BY <1>2, <1>5, <1>6
  <2>2. front2(t) \o word(t.a.hi) = front2(u) \o word(u.a.hi)
    BY <1>11, Zenon
  <2> HIDE DEF front2
  <2>3. front2(t) = front2(u)
    BY <2>1, <2>2, SameFront, Zenon
  <2>4. word(t.a.hi) = word(u.a.hi)
    BY <2>1, <2>2, SameRest, Zenon
  <2> QED
    BY <2>3, <2>4
<1>13. front1(t) = front1(u) /\ word(t.a.lo) = word(u.a.lo)
  <2>1. /\ word(t.a.lo) \in Seq(Bits) /\ word(u.a.lo) \in Seq(Bits)
        /\ front1(t) \in Seq(Bits) /\ front1(u) \in Seq(Bits)
        /\ Len(front1(t)) = Len(front1(u))
    BY <1>2, <1>5, <1>6
  <2>2. front1(t) \o word(t.a.lo) = front1(u) \o word(u.a.lo)
    BY <1>12, Zenon
  <2> HIDE DEF front1
  <2>3. front1(t) = front1(u)
    BY <2>1, <2>2, SameFront, Zenon
  <2>4. word(t.a.lo) = word(u.a.lo)
    BY <2>1, <2>2, SameRest, Zenon
  <2> QED
    BY <2>3, <2>4
<1>14. t.a.lo = u.a.lo /\ t.a.hi = u.a.hi /\ t.b.lo = u.b.lo /\ t.b.hi = u.b.hi
  <2>1. \A v, w \in Limb : word(v) = word(w) => v = w
    <3>1. WordBytes \in 0 .. LongBytes /\ Limb = 0 .. PowerOfTwo[ByteBits * WordBytes] - 1
      BY WordPowers DEF Limb
    <3> QED
      BY <3>1, BytesDetermine DEF word
  <2>2. /\ {t.a.lo, t.a.hi, t.b.lo, t.b.hi} \subseteq Limb
        /\ {u.a.lo, u.a.hi, u.b.lo, u.b.hi} \subseteq Limb
    BY DEF Fits, Writable
  <2> QED
    BY <1>10, <1>11, <1>12, <1>13, <2>1, <2>2
<1> DEFINE square == LIMB * LIMB
<1>15. square \in Nat \ {0} /\ \A v, w \in 0 .. square - 1 : long(v) = long(w) => v = w
  <2>1. /\ LongBytes \in 0 .. LongBytes /\ square = PowerOfTwo[ByteBits * LongBytes]
        /\ square \in Nat \ {0}
    BY WordPowers, BitsAreNat
  <2> QED
    BY <2>1, BytesDetermine DEF long
<1>16. t.nonce = u.nonce
  <2>1. t.nonce \in 0 .. square - 1 /\ u.nonce \in 0 .. square - 1
    BY DEF Fits, Writable
  <2> QED
    BY <1>13, <1>15, <2>1
<1>17. t.expiry = u.expiry
  <2> DEFINE half == square \div 2
             un(e) == IF e < 0 THEN e + square ELSE e
  <2>1. half \in Int /\ 2 * half <= square
    <3> HIDE DEF square
    <3> QED
      BY <1>15
  <2>2. t.expiry \in -half .. half - 1 /\ u.expiry \in -half .. half - 1
    BY DEF Fits
  <2>3. \A e \in Int : long(e + square) = long(e)
    BY LongWraps DEF long
  <2> HIDE DEF half, square
  <2>4. t.expiry \in Int /\ u.expiry \in Int
    BY <2>1, <2>2
  <2>5. long(un(t.expiry)) = long(t.expiry) /\ long(un(u.expiry)) = long(u.expiry)
    BY <2>3, <2>4
  <2>6. un(t.expiry) \in 0 .. square - 1 /\ un(u.expiry) \in 0 .. square - 1
    BY <1>15, <2>1, <2>2
  <2>7. un(t.expiry) = un(u.expiry)
    <3> HIDE DEF un
    <3> QED
      BY <1>8, <1>15, <2>5, <2>6
  <2> QED
    BY <1>15, <2>1, <2>2, <2>7
<1>18. Keys(t) = Keys(u)
  <2>1. Keys(t) \in Seq(Bytes) /\ Len(Keys(t)) = 3 /\ Keys(u) \in Seq(Bytes) /\ Len(Keys(u)) = 3
    BY FieldBytes DEF Keys
  <2>2. /\ Stream(Num2Bits(Keys(t)[1], 1), 1) = Stream(Num2Bits(Keys(u)[1], 1), 1)
        /\ Stream(Num2Bits(Keys(t)[2], 1), 1) = Stream(Num2Bits(Keys(u)[2], 1), 1)
        /\ Stream(Num2Bits(Keys(t)[3], 1), 1) = Stream(Num2Bits(Keys(u)[3], 1), 1)
    <3> DEFINE st(x, i) == Stream(Num2Bits(Keys(x)[i], 1), 1)
    <3>1. \A x : Fits(x) => keys(x) = (st(x, 1) \o st(x, 2)) \o st(x, 3)
      BY BitsOfKeys, Zenon DEF keys, KeyBits
    <3>2. ASSUME NEW x, Fits(x), NEW i \in 1 .. 3
          PROVE  st(x, i) \in Seq(Bits) /\ Len(st(x, i)) = ByteBits
      <4>1. Keys(x)[i] \in Bytes /\ ByteBits \in Nat
        BY <3>2, BitsAreNat DEF Fits, Keys
      <4>2. st(x, i) = BitsOf(<<Keys(x)[i]>>)
        BY <4>1, StreamOfByte
      <4>3. <<Keys(x)[i]>> \in Seq(Bytes) /\ Len(<<Keys(x)[i]>>) = 1
        BY <4>1
      <4>4. BitsOf(<<Keys(x)[i]>>) \in Seq(Bits) /\ Len(BitsOf(<<Keys(x)[i]>>)) = ByteBits * 1
        BY <4>3, BitsOfConcat
      <4> HIDE DEF st
      <4> QED
        BY <4>1, <4>2, <4>4
    <3>3. 1 \in 1 .. 3 /\ 2 \in 1 .. 3 /\ 3 \in 1 .. 3
      OBVIOUS
    <3> HIDE DEF st
    <3>4. (st(t, 1) \o st(t, 2)) \o st(t, 3) = (st(u, 1) \o st(u, 2)) \o st(u, 3)
      BY <1>9, <3>1
    <3>5. ASSUME NEW x, Fits(x)
          PROVE  /\ st(x, 1) \o st(x, 2) \in Seq(Bits)
                 /\ Len(st(x, 1) \o st(x, 2)) = ByteBits + ByteBits
      <4>1. /\ st(x, 1) \in Seq(Bits) /\ Len(st(x, 1)) = ByteBits
            /\ st(x, 2) \in Seq(Bits) /\ Len(st(x, 2)) = ByteBits
        BY <3>2, <3>3, <3>5, Zenon
      <4> QED
        BY <1>4, <4>1
    <3>6. st(t, 1) \o st(t, 2) = st(u, 1) \o st(u, 2) /\ st(t, 3) = st(u, 3)
      <4>1. /\ st(t, 1) \o st(t, 2) \in Seq(Bits) /\ st(u, 1) \o st(u, 2) \in Seq(Bits)
            /\ st(t, 3) \in Seq(Bits) /\ st(u, 3) \in Seq(Bits)
            /\ Len(st(t, 1) \o st(t, 2)) = Len(st(u, 1) \o st(u, 2))
        BY <3>2, <3>3, <3>5, Zenon
      <4>2. st(t, 1) \o st(t, 2) = st(u, 1) \o st(u, 2)
        BY <3>4, <4>1, SameFront, Zenon
      <4>3. st(t, 3) = st(u, 3)
        BY <3>4, <4>1, SameRest, Zenon
      <4> QED
        BY <4>2, <4>3
    <3>7. st(t, 1) = st(u, 1) /\ st(t, 2) = st(u, 2)
      <4>1. /\ st(t, 1) \in Seq(Bits) /\ st(t, 2) \in Seq(Bits)
            /\ st(u, 1) \in Seq(Bits) /\ st(u, 2) \in Seq(Bits)
            /\ Len(st(t, 1)) = Len(st(u, 1))
        BY <3>2, <3>3, Zenon
      <4>2. st(t, 1) = st(u, 1)
        BY <3>6, <4>1, SameFront, Zenon
      <4>3. st(t, 2) = st(u, 2)
        BY <3>6, <4>1, SameRest, Zenon
      <4> QED
        BY <4>2, <4>3
    <3> QED
      BY <3>6, <3>7 DEF st
  <2>3. \A v, w \in Bytes : Stream(Num2Bits(v, 1), 1) = Stream(Num2Bits(w, 1), 1) => v = w
    <3>1. /\ 1 \in 0 .. LongBytes /\ Bytes = 0 .. PowerOfTwo[ByteBits * 1] - 1
          /\ \A v \in Bytes : v \in Int
      BY WordPowers, BitsAreNat DEF Bytes
    <3>2. \A v \in Bytes : Stream(Num2Bits(v, 1), 1) = BitsOf(LittleEndian(v, 1))
      BY <3>1, StreamOfBytes
    <3> QED
      BY <3>1, <3>2, BytesDetermine
  <2>4. \A i \in 1 .. 3 : Keys(t)[i] = Keys(u)[i]
    BY <2>1, <2>2, <2>3
  <2> QED
    BY <2>1, <2>4, SeqEqual
<1> QED
  BY <1>14, <1>16, <1>17, <1>18

=============================================================================
