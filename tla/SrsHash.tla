------------------------------- MODULE SrsHash -------------------------------
(***************************************************************************)
(* srs_hash_create_v() of srs2.c: the HMAC of some strings (module Hmac),  *)
(* then "a little base64 encoding" of its digest, character by character.  *)
(*                                                                         *)
(* A character is the six bits that choose it from SRS_HASH_BASECHARS.  A  *)
(* bit is named by the byte it is from and its place there, 7 at the top.  *)
(***************************************************************************)
EXTENDS Hmac

CONSTANT HashLengths    \* what srs_set_hashlength() was given

ASSUME HashLengthsAssumption == HashLengths \subseteq Nat

VARIABLES
    hashlength,         \* of the handle
    hp,                 \* what the pointer hp points at: an offset in srshash
    buf                 \* the characters written; i is how many

encoding == <<hashlength, hp, buf>>
hashvars == <<vars, encoding>>

HashInit == Init /\ hashlength = 0 /\ hp = 0 /\ buf = <<>>

\* Mutant: srshash[SHA_DIGESTSIZE] is not set.
Bit_NoEnd(k, n) ==
    [from |-> IF k < SHA_DIGESTSIZE THEN "digest" ELSE "stack",
     byte |-> k, bit |-> n]

\* A bit of srshash: of the digest, of the terminator, or behind the array.
Bit(k, n) ==
    IF k = SHA_DIGESTSIZE THEN [from |-> "zero", byte |-> 0, bit |-> 0]
    ELSE [from |-> IF k < SHA_DIGESTSIZE THEN "digest" ELSE "stack",
          byte |-> k, bit |-> n]

\* The bits hi down to lo of a byte: what a mask and a shift leave of it.
Bits(k, hi, lo) == [n \in 1..(hi - lo + 1) |-> Bit(k, hi - n + 1)]

\* The switch: the value of j.
Digit(i) ==
    CASE i % 4 = 0 -> Bits(hp, 7, 2)
      [] i % 4 = 1 -> Bits(hp, 1, 0) \o Bits(hp + 1, 7, 4)
      [] i % 4 = 2 -> Bits(hp, 3, 0) \o Bits(hp + 1, 7, 6)
      [] i % 4 = 3 -> Bits(hp, 5, 0)

\* Mutant: no hp++ in case 1.
Advance_Late(i) == IF i % 4 \in {0, 1} THEN 0 ELSE 1

Advance(i) == IF i % 4 = 0 THEN 0 ELSE 1

Encode ==
    /\ pc = "done" /\ Len(buf) < hashlength
    /\ buf' = Append(buf, Digit(Len(buf)))
    /\ hp' = hp + Advance(Len(buf))
    /\ UNCHANGED <<vars, hashlength>>

\* The HMAC is computed, and the loop set up.
Digest == /\ srs_hmac_fini
          /\ hashlength' \in HashLengths
          /\ hp' = 0 /\ buf' = <<>>

\* The next call.
Begin == /\ Len(buf) = hashlength
         /\ \E len \in SecretLens, z \in ZeroBytes : srs_hmac_init(len, z)
         /\ hashlength' = 0 /\ hp' = 0 /\ buf' = <<>>

HashNext == \/ Begin
            \/ \E len \in ChunkLens : srs_hmac_update(len) /\ UNCHANGED encoding
            \/ Digest
            \/ Encode

HashSpec == HashInit /\ [][HashNext]_hashvars

-----------------------------------------------------------------------------
(* Properties *)

\* Base64 (RFC 4648, section 4): character i holds the bits 6i to 6i + 5.
Base64Digit(i) == [n \in 1..6 |-> Bit((6 * i + n - 1) \div 8,
                                      7 - ((6 * i + n - 1) % 8))]

\* The pointer and the four cases of the switch keep step: at every length the
\* hash is the beginning of the base64 of the digest (srs_hash_create_v()).
EncodesDigest == \A i \in 1..Len(buf) : buf[i] = Base64Digit(i - 1)

\* As long as a hash is not longer than what the digest and its terminator
\* give, 28 characters for the 20 bytes of SHA-1, it is the same in every
\* call: nothing in it is from behind the array.
HashIsDigest ==
    \A i \in 1..Len(buf) : i <= (8 * (SHA_DIGESTSIZE + 1)) \div 6 =>
      \A n \in 1..6 : buf[i][n].from # "stack"
=============================================================================
