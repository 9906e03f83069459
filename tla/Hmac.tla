-------------------------------- MODULE Hmac --------------------------------
(***************************************************************************)
(* srs_hmac_init(), srs_hmac_update() and srs_hmac_fini() of sha1.c, as    *)
(* srs_hash_create_v() calls them: a context on the stack, a secret, some  *)
(* strings, and the digest at the end.  A context is used again and again  *)
(* without being cleared, as the stack of a busy process is.               *)
(*                                                                         *)
(* A digest as bytes: any of them can be zero, and the place of the first  *)
(* zero is a parameter, as strlen() stops there.                           *)
(***************************************************************************)
EXTENDS Sha1

CONSTANTS
    SecretLens,     \* the lengths of the secrets
    ChunkLens,      \* the lengths of the strings hashed
    MaxText,        \* bound: bytes hashed under one secret
    ZeroBytes       \* where the first zero of a long secret's digest may be;
                    \* 0 for nowhere

ASSUME LensAssumption ==
    /\ SecretLens \subseteq Nat /\ ChunkLens \subseteq Nat /\ MaxText \in Nat
    /\ ZeroBytes \subseteq 0..SHA_DIGESTSIZE

VARIABLES
    pc,             \* "idle", "keyed", "done"
    ctx,            \* the srs_hmac_ctx_t: [sctx, ipad, opad]
    secret, zero, text,   \* what the caller passed in since srs_hmac_init()
    out             \* what srs_hmac_fini() left in the caller's buffer

vars == <<pc, ctx, secret, zero, text, out>>

DigestByte(digest, zero_, i) ==
    IF i = zero_ THEN Byte(0)
    ELSE [kind |-> "digest", of |-> digest, at |-> i]

DigestBytes(digest, zero_) ==
    [i \in 1..SHA_DIGESTSIZE |-> DigestByte(digest, zero_, i)]

\* A byte of 0x36... or 0x5c..., after the ^= with a byte of the key.
Pad(which, byte) == [kind |-> which, xor |-> byte]

PadOf(which, key, len) ==
    [i \in 1..SHA_BLOCKSIZE |->
       Pad(which, IF i <= len THEN key[i] ELSE Byte(0))]

Secret(len) == [i \in 1..len |-> Byte(1000 + i)]

\* Every byte of a text is different, so that none can take another's place.
Chunk(len) == [i \in 1..len |-> Byte(Len(text) + i)]

Init == /\ pc = "idle"
        /\ ctx = [sctx |-> Uninitialised, ipad |-> Uninitialised.data,
                  opad |-> Uninitialised.data]
        /\ secret = <<>> /\ zero = 0 /\ text = <<>> /\ out = <<>>

\* strlen(sbuf): the digest is followed by the zeros sbuf was filled with.
strlen_sbuf(z) == IF z = 0 THEN SHA_DIGESTSIZE ELSE z - 1

srs_hmac_init(len, z) ==
    /\ pc \in {"idle", "done"}
    /\ LET long   == len > SHA_BLOCKSIZE
           key    == IF long THEN DigestBytes(sha_digest(Secret(len)), z)
                     ELSE Secret(len)
           keylen == IF long THEN strlen_sbuf(z) ELSE len
           ipad   == PadOf("ipad", key, keylen)
       IN  ctx' = [sctx |-> sha_update(sha_init(ctx.sctx), ipad),
                   ipad |-> ipad, opad |-> PadOf("opad", key, keylen)]
    /\ secret' = Secret(len) /\ zero' = z /\ text' = <<>> /\ out' = <<>>
    /\ pc' = "keyed"

srs_hmac_update(len) ==
    /\ pc = "keyed"
    /\ Len(text) + len <= MaxText
    /\ ctx' = [ctx EXCEPT !.sctx = sha_update(@, Chunk(len))]
    /\ text' = text \o Chunk(len)
    /\ UNCHANGED <<pc, secret, zero, out>>

srs_hmac_fini ==
    /\ pc = "keyed"
    /\ LET inner == sha_final(ctx.sctx)
           outer == sha_final(sha_update(sha_update(sha_init(inner), ctx.opad),
                                         DigestBytes(inner.digest, 0)))
       IN  /\ out' = outer.digest
           /\ ctx' = [ctx EXCEPT !.sctx = outer]
    /\ pc' = "done"
    /\ UNCHANGED <<secret, zero, text>>

-----------------------------------------------------------------------------
(* HMAC itself: FIPS 198, the digest of a long key is the key *)

HMAC ==
    LET long == Len(secret) > SHA_BLOCKSIZE
        key  == IF long THEN DigestBytes(Padded(secret), zero) ELSE secret
    IN  Padded(PadOf("opad", key, Len(key)) \o
               DigestBytes(Padded(PadOf("ipad", key, Len(key)) \o text), 0))

-----------------------------------------------------------------------------
(* Properties *)

\* The types of the context and of its counters.
TypeOK ==
    /\ pc \in {"idle", "keyed", "done"}
    /\ DOMAIN ctx.sctx.data = 1..SHA_BLOCKSIZE
    /\ ctx.sctx.local \in 0..(SHA_BLOCKSIZE - 1)
    /\ ctx.sctx.count_lo \in 0..(SHA_WRAP - 1) /\ ctx.sctx.count_hi \in Nat

\* In whatever pieces a text is hashed, no byte of it is lost, doubled or
\* moved: what was compressed and what waits in the buffer is the pad and the
\* text, and the counter knows how long they are (sha_update()).
NothingLost ==
    pc = "keyed" =>
      LET s == ctx.sctx IN
      /\ s.digest \o SubSeq(s.data, 1, s.local) = ctx.ipad \o text
      /\ s.count_hi * SHA_WRAP + s.count_lo = SHA_BLOCKSIZE + Len(text)

\* The digest is the HMAC of the text, whatever was left in the buffers of the
\* context before, when no zero byte cuts the key short (srs_hmac_fini()).
HmacIsStandard ==
    pc = "done" /\ (Len(secret) <= SHA_BLOCKSIZE \/ zero = 0) => out = HMAC

\* The digest is the HMAC that the build with OpenSSL computes under the same
\* secret (srs2.c, srs_hash_create_v()).
SameAsOpenssl == pc = "done" => out = HMAC
=============================================================================
