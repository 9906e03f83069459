-------------------------------- MODULE Sha1 --------------------------------
(***************************************************************************)
(* libsrs2/sha1.c: the buffering, counting and padding of SHA-1 as         *)
(* functions of an SHA_INFO record.  The compression itself is ideal: the  *)
(* field "digest" holds, in the place of the five words, the bytes that    *)
(* went into them so far, and a finished digest determines these bytes.    *)
(*                                                                         *)
(* Both halves of the counter are kept in bytes, eight bits each: count_lo *)
(* wraps at SHA_WRAP = 2^29 bytes in the code.                             *)
(***************************************************************************)
EXTENDS Integers, Sequences

CONSTANTS
    SHA_BLOCKSIZE,   \* 64
    SHA_DIGESTSIZE,  \* 20
    SHA_LENSIZE,     \* 8, the bytes of the length behind the padding
    SHA_WRAP         \* 2^29, the bytes that T32() of a bit count can tell apart

ASSUME SizesAssumption ==
    /\ SHA_BLOCKSIZE \in Nat /\ SHA_DIGESTSIZE \in 1..SHA_BLOCKSIZE
    /\ SHA_LENSIZE \in 1..(SHA_BLOCKSIZE - 1)
    /\ SHA_WRAP \in Nat \ {0} /\ SHA_WRAP % SHA_BLOCKSIZE = 0

Byte(n)     == [kind |-> "byte", value |-> n]
LenByte(hi, lo, i) == [kind |-> "length", hi |-> hi, lo |-> lo, at |-> i]
Stack(i)    == [kind |-> "stack", at |-> i]     \* never written

Zeros(n) == [i \in 1..n |-> Byte(0)]
Block(data) == [i \in 1..SHA_BLOCKSIZE |-> data[i]]

Uninitialised == [digest |-> <<>>, count_lo |-> 0, count_hi |-> 0, local |-> 0,
                  data |-> [i \in 1..SHA_BLOCKSIZE |-> Stack(i)]]

\* memcpy(data + at, bytes, Len(bytes))
Copied(data, at, bytes) ==
    [i \in 1..SHA_BLOCKSIZE |->
       IF i \in (at + 1)..(at + Len(bytes)) THEN bytes[i - at] ELSE data[i]]

sha_transform(info) == [info EXCEPT !.digest = @ \o info.data]

\* Mutant: local is not reset.
sha_init_Local(info) ==
    [info EXCEPT !.digest = <<>>, !.count_lo = 0, !.count_hi = 0]

sha_init(info) ==
    [info EXCEPT !.digest = <<>>, !.count_lo = 0, !.count_hi = 0, !.local = 0]

\* Mutant: the carry is lost.
Counted_NoCarry(info, count) ==
    [info EXCEPT !.count_lo = (@ + count) % SHA_WRAP,
                 !.count_hi = @ + count \div SHA_WRAP]

Counted(info, count) ==
    LET clo == (info.count_lo + count) % SHA_WRAP
    IN  [info EXCEPT
           !.count_lo = clo,
           !.count_hi = @ + (IF clo < info.count_lo THEN 1 ELSE 0)
                          + count \div SHA_WRAP]

\* Mutant: "while (count > SHA_BLOCKSIZE)".
Blocks_KeepLast(info, buffer) ==
    LET n == IF buffer = <<>> THEN 0
             ELSE ((Len(buffer) - 1) \div SHA_BLOCKSIZE) * SHA_BLOCKSIZE
    IN  [info EXCEPT !.digest = @ \o SubSeq(buffer, 1, n),
                     !.data = Copied(@, 0, SubSeq(buffer, n + 1, Len(buffer))),
                     !.local = Len(buffer) - n]

\* The while loop and what follows it, at a block's beginning.
Blocks(info, buffer) ==
    LET n    == (Len(buffer) \div SHA_BLOCKSIZE) * SHA_BLOCKSIZE
        last == IF n = 0 THEN info.data
                ELSE SubSeq(buffer, n - SHA_BLOCKSIZE + 1, n)
        tail == SubSeq(buffer, n + 1, Len(buffer))
    IN  [info EXCEPT !.digest = @ \o SubSeq(buffer, 1, n),
                     !.data   = Copied(last, 0, tail),
                     !.local  = Len(tail)]

\* The block begun by earlier calls is filled first.
sha_update(info, buffer) ==
    LET room    == SHA_BLOCKSIZE - info.local
        i       == IF room > Len(buffer) THEN Len(buffer) ELSE room
        counted == Counted(info, Len(buffer))
        filled  == [counted EXCEPT
                      !.data = Copied(@, info.local, SubSeq(buffer, 1, i)),
                      !.local = @ + i]
    IN  IF info.local = 0 THEN Blocks(counted, buffer)
        ELSE IF filled.local < SHA_BLOCKSIZE THEN filled
        ELSE Blocks(sha_transform(filled), SubSeq(buffer, i + 1, Len(buffer)))

LenBytes(hi, lo) == [i \in 1..SHA_LENSIZE |-> LenByte(hi, lo, i)]

\* The place of the padding comes from the counter, not from "local".
sha_final(info) ==
    LET count  == info.count_lo % SHA_BLOCKSIZE
        room   == SHA_BLOCKSIZE - SHA_LENSIZE
        marked == Copied(info.data, count, <<Byte(128)>>)
        ended  == IF count + 1 > room
                  THEN sha_transform([info EXCEPT !.data =
                         Copied(marked, count + 1,
                                Zeros(SHA_BLOCKSIZE - count - 1))])
                  ELSE info
        padded == IF count + 1 > room THEN Copied(ended.data, 0, Zeros(room))
                  ELSE Copied(marked, count + 1, Zeros(room - count - 1))
    IN  sha_transform([ended EXCEPT !.data =
          Copied(padded, room, LenBytes(info.count_hi, info.count_lo))])

sha_digest(data) ==
    sha_final(sha_update(sha_init(Uninitialised), data)).digest

-----------------------------------------------------------------------------
(* What SHA-1 is to compress for a message: FIPS 180, section 5.1.1 *)

Padded(msg) ==
    LET n    == Len(msg)
        over == (n + 1 + SHA_LENSIZE) % SHA_BLOCKSIZE
        pad  == IF over = 0 THEN 0 ELSE SHA_BLOCKSIZE - over
    IN  msg \o <<Byte(128)>> \o Zeros(pad)
            \o LenBytes(n \div SHA_WRAP, n % SHA_WRAP)
=============================================================================
