------------------------------ MODULE Commitment ------------------------------
(***************************************************************************)
(* The commitment to the terms of a deal.  Its preimage is laid out five     *)
(* times in the code: by the Rust reference, by the SDK (which makes and     *)
(* verifies the commitment), by the browser's prover and the SDK's (which    *)
(* feed the circuit's public inputs) and, bit by bit, by the circuit.  Bytes *)
(* and words keep their structure and are made smaller; a public key is a    *)
(* byte.                                                                     *)
(***************************************************************************)
EXTENDS BalanceCircuits, Sequences

CONSTANTS
    ByteBits,            \* bits of a byte, 8 in the code
    WordBytes            \* bytes of a u32, 4 in the code

LongBytes == 2 * WordBytes
LongBits == ByteBits * LongBytes

(* 2^n for the bits of a long; the provers have no rules for ^.              *)
PowerOfTwo[n \in 0 .. LongBits] == IF n = 0 THEN 1 ELSE 2 * PowerOfTwo[n - 1]

ASSUME WordAssumption ==
    /\ ByteBits \in Nat \ {0} /\ WordBytes \in Nat \ {0}
    /\ LIMB = PowerOfTwo[ByteBits * WordBytes]

Byte == PowerOfTwo[ByteBits]

(* Two's complement, least significant byte first.                           *)
LittleEndian(value, bytes) ==
    [i \in 1 .. bytes |-> (value \div PowerOfTwo[ByteBits * (i - 1)]) % Byte]

Bit(value, k) == (value \div PowerOfTwo[k]) % 2

(* The terms of a deal: both amounts as limbs, the nonce, the two mints, the *)
(* counterparty and the expiry.                                              *)
Keys(t) == <<t.asset_a_mint, t.asset_b_mint, t.counterparty>>

(* utils/commitment.rs: the fixed-width to_le_bytes of every field.          *)
RustPreimage(t) ==
    LittleEndian(t.nonce, LongBytes)
        \o LittleEndian(t.a.lo, WordBytes) \o LittleEndian(t.a.hi, WordBytes)
        \o LittleEndian(t.b.lo, WordBytes) \o LittleEndian(t.b.hi, WordBytes)
        \o Keys(t) \o LittleEndian(t.expiry, LongBytes)

Rejected == <<>>

(* The checks of writeUInt32LE and writeBigUInt64LE.                          *)
Writable(t) ==
    /\ {t.a.lo, t.a.hi, t.b.lo, t.b.hi} \subseteq Limb
    /\ t.nonce \in 0 .. LIMB * LIMB - 1

(* Mutated form of SdkPreimage: the high limb of B's amount is left out.     *)
SdkPreimageLowTwice(t) ==
    IF ~Writable(t) THEN Rejected
    ELSE LittleEndian(t.nonce, LongBytes)
            \o LittleEndian(t.a.lo, WordBytes) \o LittleEndian(t.a.hi, WordBytes)
            \o LittleEndian(t.b.lo, WordBytes) \o LittleEndian(t.b.lo, WordBytes)
            \o Keys(t) \o LittleEndian(t.expiry, LongBytes)

(* computeCommitment: throws on a limb or a nonce out of range, and adds     *)
(* 2^64 to a negative expiry.                                                *)
SdkPreimage(t) ==
    IF ~Writable(t) THEN Rejected
    ELSE LittleEndian(t.nonce, LongBytes)
            \o LittleEndian(t.a.lo, WordBytes) \o LittleEndian(t.a.hi, WordBytes)
            \o LittleEndian(t.b.lo, WordBytes) \o LittleEndian(t.b.hi, WordBytes)
            \o Keys(t)
            \o LittleEndian(IF t.expiry < 0 THEN t.expiry + LIMB * LIMB ELSE t.expiry,
                            LongBytes)

(* Mutated form of BrowserPreimage: expiry >> 32, which JavaScript shifts by 0. *)
BrowserPreimageShifted(t) ==
    LittleEndian(t.nonce, LongBytes)
        \o LittleEndian(t.a.lo, WordBytes) \o LittleEndian(t.a.hi, WordBytes)
        \o LittleEndian(t.b.lo, WordBytes) \o LittleEndian(t.b.hi, WordBytes)
        \o Keys(t)
        \o LittleEndian(t.expiry, WordBytes) \o LittleEndian(t.expiry, WordBytes)

(* browserGenerateProof: the expiry, which JavaScript cannot mask to 64      *)
(* bits, as two signed words.                                                *)
BrowserPreimage(t) ==
    LittleEndian(t.nonce, LongBytes)
        \o LittleEndian(t.a.lo, WordBytes) \o LittleEndian(t.a.hi, WordBytes)
        \o LittleEndian(t.b.lo, WordBytes) \o LittleEndian(t.b.hi, WordBytes)
        \o Keys(t)
        \o LittleEndian(t.expiry, WordBytes) \o LittleEndian(t.expiry \div LIMB, WordBytes)

(* createPrivateCircuitInputs, for the SDK's prover and its worker: the same *)
(* words, written with the checks of a Buffer.                               *)
ProverPreimage(t) ==
    IF Writable(t) /\ t.expiry \div LIMB < LIMB \div 2 THEN BrowserPreimage(t) ELSE Rejected

(* toBits64: the bits of an integer, least significant first.                *)
toBits64(value) == [k \in 0 .. LongBits - 1 |-> Bit(value, k)]

(* Num2Bits over the given number of bytes.                                  *)
Num2Bits(value, bytes) == [k \in 0 .. ByteBits * bytes - 1 |-> Bit(value, k)]

(* The bits of a little-endian number in the order SHA-256 reads them: byte  *)
(* by byte, the most significant bit of each byte first.                     *)
Stream(bits, bytes) ==
    [i \in 1 .. ByteBits * bytes |->
        LET byte == (i - 1) \div ByteBits
            bit == (i - 1) % ByteBits
        IN  bits[byte * ByteBits + (ByteBits - 1 - bit)]]

(* asset_a_mint, asset_b_mint and counterparty, a byte each.                 *)
KeyBits(keys) ==
    Stream(Num2Bits(keys[1], 1), 1)
        \o Stream(Num2Bits(keys[2], 1), 1)
        \o Stream(Num2Bits(keys[3], 1), 1)

(* The preimage the circuit assembles from its private inputs.               *)
CircuitPreimage(nonce_bits, a, b, keys, expiry_bits) ==
    Stream(nonce_bits, LongBytes)
        \o Stream(Num2Bits(a.lo, WordBytes), WordBytes)
        \o Stream(Num2Bits(a.hi, WordBytes), WordBytes)
        \o Stream(Num2Bits(b.lo, WordBytes), WordBytes)
        \o Stream(Num2Bits(b.hi, WordBytes), WordBytes)
        \o KeyBits(keys)
        \o Stream(expiry_bits, LongBytes)

(* What SHA-256 reads of a buffer of bytes.                                  *)
BitsOf(buffer) ==
    [i \in 1 .. ByteBits * Len(buffer) |->
        Bit(buffer[1 + ((i - 1) \div ByteBits)], ByteBits - 1 - ((i - 1) % ByteBits))]

(* crypto.subtle.digest and sha256_hash of a preimage.                       *)
CommitmentHash(preimage) == Digest(BitsOf(preimage))

(* computeCommitment; verifyCommitment compares its digest with the slot's.  *)
computeCommitment(t) == CommitmentHash(SdkPreimage(t))
=============================================================================
