---------------------------- MODULE SrsHash_proofs ----------------------------
(***************************************************************************)
(* The encoding of a hash is the base64 of the digest, for every size of   *)
(* the digest and every length asked for.  The induction is over the turns *)
(* of the loop; what carries it is where the pointer hp stands (Encoded),  *)
(* and the arithmetic of six bits in bytes of eight (Places, DigitIs).     *)
(*                                                                         *)
(* The digest is the HMAC of the text, for every size of a block, of the   *)
(* length and of the counter, every secret and every way to cut a text in  *)
(* pieces.  The induction is over the calls; what carries it is that an    *)
(* SHA_INFO holds a text (Holds), which each function of sha1.c preserves. *)
(***************************************************************************)
EXTENDS SrsHash, SequenceTheorems, TLAPS

\* The pointer is where the next six bits begin.
Encoded == /\ hashlength \in Nat
           /\ buf \in Seq({Base64Digit(i) : i \in Nat})
           /\ hp = (6 * Len(buf)) \div 8
           /\ EncodesDigest

\* Where a bit of a character is: six times i is three bytes for every four
\* characters, and the rest is one of four cases.
LEMMA Places ==
  ASSUME NEW i \in Nat
  PROVE  /\ i % 4 = 0 => /\ (6 * i) \div 8 = 3 * (i \div 4)
                         /\ (6 * (i + 1)) \div 8 = (6 * i) \div 8
         /\ i % 4 \in {1, 2, 3} => (6 * (i + 1)) \div 8 = (6 * i) \div 8 + 1
<1>1. PICK q \in Nat, r \in 0..3 : i = 4 * q + r /\ r = i % 4 /\ q = i \div 4
  OBVIOUS
<1>2. (6 * i) \div 8 = 3 * q + (6 * r) \div 8
  BY <1>1
<1>3. (6 * (i + 1)) \div 8 = 3 * q + (6 * r + 6) \div 8
  BY <1>1
<1> QED
  BY <1>1, <1>2, <1>3

\* Two bytes' bits side by side.
LEMMA TwoBytes ==
  ASSUME NEW k \in Nat, NEW m \in 1..5
  PROVE  Bits(k, m - 1, 0) \o Bits(k + 1, 7, m + 2)
           = [n \in 1..6 |-> IF n <= m THEN Bit(k, m - n)
                             ELSE Bit(k + 1, 8 - (n - m))]
<1> DEFINE f == [n \in 1..m |-> Bit(k, m - n)]
           g == [n \in 1..(6 - m) |-> Bit(k + 1, 8 - n)]
           h == [n \in 1..6 |-> IF n <= m THEN Bit(k, m - n)
                                ELSE Bit(k + 1, 8 - (n - m))]
           S == {f[n] : n \in 1..m} \cup {g[n] : n \in 1..(6 - m)}
<1>1. Bits(k, m - 1, 0) = f
  <2>1. (m - 1) - 0 + 1 = m /\ \A n \in 1..m : (m - 1) - n + 1 = m - n
    OBVIOUS
  <2> QED
    BY <2>1 DEF Bits
<1>2. Bits(k + 1, 7, m + 2) = g
  <2>1. 7 - (m + 2) + 1 = 6 - m /\ \A n \in 1..(6 - m) : 7 - n + 1 = 8 - n
    OBVIOUS
  <2> QED
    BY <2>1 DEF Bits
<1>3. f \in Seq(S) /\ g \in Seq(S) /\ Len(f) = m /\ Len(g) = 6 - m
  <2>1. f \in [1..m -> S] /\ g \in [1..(6 - m) -> S]
    OBVIOUS
  <2>2. m \in Nat /\ 6 - m \in Nat
    OBVIOUS
  <2> HIDE DEF S, f, g
  <2>3. f \in Seq(S) /\ g \in Seq(S)
    BY ONLY <2>1, <2>2, SeqDef
  <2>4. Len(f) = m
    BY ONLY <2>1, <2>2
  <2>5. Len(g) = 6 - m
    BY ONLY <2>1, <2>2
  <2> QED
    BY <2>3, <2>4, <2>5
<1>4. h \in Seq(S) /\ Len(h) = 6
  <2>1. ASSUME NEW n \in 1..6 PROVE h[n] \in S
    <3>1. CASE n <= m
      <4>1. n \in 1..m /\ h[n] = f[n]
        BY <3>1
      <4> QED
        BY <4>1
    <3>2. CASE ~(n <= m)
      <4>1. n - m \in 1..(6 - m) /\ h[n] = g[n - m]
        BY <3>2
      <4> QED
        BY <4>1
    <3> QED
      BY <3>1, <3>2
  <2>2. h = [n \in 1..6 |-> h[n]]
    OBVIOUS
  <2> HIDE DEF S, h
  <2> QED
    BY <2>1, <2>2
<1>5. /\ f \o g \in Seq(S) /\ Len(f \o g) = 6
      /\ \A n \in 1..6 : (f \o g)[n] = IF n <= m THEN f[n] ELSE g[n - m]
  <2> HIDE DEF S, f, g
  <2>1. m \in Int
    OBVIOUS
  <2>2. m + (6 - m) = 6
    BY <2>1
  <2>3. /\ f \o g \in Seq(S) /\ Len(f \o g) = Len(f) + Len(g)
        /\ \A n \in 1..(Len(f) + Len(g)) :
             (f \o g)[n] = IF n <= Len(f) THEN f[n] ELSE g[n - Len(f)]
    BY ONLY <1>3, ConcatProperties
  <2>4. Len(f) = m /\ Len(f) + Len(g) = 6
    BY <1>3, <2>2
  <2> QED
    BY ONLY <2>3, <2>4
<1>6. ASSUME NEW n \in 1..6 PROVE (f \o g)[n] = h[n]
  <2>1. CASE n <= m
    <3>1. n \in 1..m /\ h[n] = f[n]
      BY <2>1
    <3> QED
      BY <1>5, <2>1, <3>1
  <2>2. CASE ~(n <= m)
    <3>1. n - m \in 1..(6 - m) /\ h[n] = g[n - m]
      BY <2>2
    <3> QED
      BY <1>5, <2>2, <3>1
  <2> QED
    BY <2>1, <2>2
<1>7. f \o g = h
  <2> HIDE DEF S, f, g, h
  <2> QED
    BY <1>4, <1>5, <1>6, SeqEqual
<1> QED
  BY <1>1, <1>2, <1>7

\* The cases of the switch exclude each other.
LEMMA Switch ==
  ASSUME NEW i \in Nat
  PROVE  /\ i % 4 = 0 => Digit(i) = Bits(hp, 7, 2)
         /\ i % 4 = 1 => Digit(i) = Bits(hp, 1, 0) \o Bits(hp + 1, 7, 4)
         /\ i % 4 = 2 => Digit(i) = Bits(hp, 3, 0) \o Bits(hp + 1, 7, 6)
         /\ i % 4 = 3 => Digit(i) = Bits(hp, 5, 0)
<1>1. 0 # 1 /\ 0 # 2 /\ 0 # 3 /\ 1 # 2 /\ 1 # 3 /\ 2 # 3
  OBVIOUS
<1>2. ASSUME i % 4 = 0 PROVE Digit(i) = Bits(hp, 7, 2)
  <2>1. i % 4 # 1 /\ i % 4 # 2 /\ i % 4 # 3
    BY <1>1, <1>2
  <2> QED
    BY <1>2, <2>1, Zenon DEF Digit
<1>3. ASSUME i % 4 = 1
      PROVE  Digit(i) = Bits(hp, 1, 0) \o Bits(hp + 1, 7, 4)
  <2>1. i % 4 # 0 /\ i % 4 # 2 /\ i % 4 # 3
    BY <1>1, <1>3
  <2> QED
    BY <1>3, <2>1, Zenon DEF Digit
<1>4. ASSUME i % 4 = 2
      PROVE  Digit(i) = Bits(hp, 3, 0) \o Bits(hp + 1, 7, 6)
  <2>1. i % 4 # 0 /\ i % 4 # 1 /\ i % 4 # 3
    BY <1>1, <1>4
  <2> QED
    BY <1>4, <2>1, Zenon DEF Digit
<1>5. ASSUME i % 4 = 3 PROVE Digit(i) = Bits(hp, 5, 0)
  <2>1. i % 4 # 0 /\ i % 4 # 1 /\ i % 4 # 2
    BY <1>1, <1>5
  <2> QED
    BY <1>5, <2>1, Zenon DEF Digit
<1> QED
  BY <1>2, <1>3, <1>4, <1>5

\* Each case of the switch takes the six bits that base64 asks for.
LEMMA DigitIs ==
  ASSUME NEW i \in Nat, hp = (6 * i) \div 8
  PROVE  Digit(i) = Base64Digit(i)
<1>1. PICK q \in Nat, r \in 0..3 : i = 4 * q + r /\ r = i % 4
  OBVIOUS
<1>2. \A n \in 1..6 : /\ (6 * i + n - 1) \div 8 = 3 * q + (6 * r + n - 1) \div 8
                      /\ (6 * i + n - 1) % 8 = (6 * r + n - 1) % 8
  BY <1>1
<1>3. hp = 3 * q + (6 * r) \div 8
  BY <1>1
<1>4. Base64Digit(i) = [n \in 1..6 |-> Bit(3 * q + (6 * r + n - 1) \div 8,
                                           7 - ((6 * r + n - 1) % 8))]
  BY <1>2 DEF Base64Digit
<1>5. CASE r = 0
  <2>1. /\ hp = 3 * q
        /\ \A n \in 1..6 : /\ 3 * q + (6 * r + n - 1) \div 8 = hp
                           /\ 7 - ((6 * r + n - 1) % 8) = 7 - n + 1
    BY <1>3, <1>5
  <2>2. Digit(i) = Bits(hp, 7, 2)
    BY <1>1, <1>5, Switch
  <2>3. Bits(hp, 7, 2) = [n \in 1..6 |-> Bit(hp, 7 - n + 1)]
    BY DEF Bits
  <2> QED
    BY <1>4, <2>1, <2>2, <2>3
<1>6. CASE r = 1
  <2>1. /\ hp = 3 * q
        /\ \A n \in 1..6 :
             /\ 3 * q + (6 * r + n - 1) \div 8 = IF n <= 2 THEN hp ELSE hp + 1
             /\ 7 - ((6 * r + n - 1) % 8) = IF n <= 2 THEN 2 - n ELSE 8 - (n - 2)
    BY <1>3, <1>6
  <2>2. Digit(i) = Bits(hp, 1, 0) \o Bits(hp + 1, 7, 4)
    BY <1>1, <1>6, Switch
  <2>3. Bits(hp, 2 - 1, 0) \o Bits(hp + 1, 7, 2 + 2)
           = [n \in 1..6 |-> IF n <= 2 THEN Bit(hp, 2 - n)
                             ELSE Bit(hp + 1, 8 - (n - 2))]
    <3>1. hp \in Nat /\ 2 \in 1..5
      BY <2>1
    <3> QED
      BY ONLY <3>1, TwoBytes
  <2>4. 2 - 1 = 1 /\ 2 + 2 = 4
    OBVIOUS
  <2>5. \A n \in 1..6 : Bit(3 * q + (6 * r + n - 1) \div 8,
                           7 - ((6 * r + n - 1) % 8))
                      = IF n <= 2 THEN Bit(hp, 2 - n) ELSE Bit(hp + 1, 8 - (n - 2))
    BY <2>1
  <2> QED
    BY ONLY <1>4, <2>2, <2>3, <2>4, <2>5
<1>7. CASE r = 2
  <2>1. /\ hp = 3 * q + 1
        /\ \A n \in 1..6 :
             /\ 3 * q + (6 * r + n - 1) \div 8 = IF n <= 4 THEN hp ELSE hp + 1
             /\ 7 - ((6 * r + n - 1) % 8) = IF n <= 4 THEN 4 - n ELSE 8 - (n - 4)
    BY <1>3, <1>7
  <2>2. Digit(i) = Bits(hp, 3, 0) \o Bits(hp + 1, 7, 6)
    BY <1>1, <1>7, Switch
  <2>3. Bits(hp, 4 - 1, 0) \o Bits(hp + 1, 7, 4 + 2)
           = [n \in 1..6 |-> IF n <= 4 THEN Bit(hp, 4 - n)
                             ELSE Bit(hp + 1, 8 - (n - 4))]
    <3>1. hp \in Nat /\ 4 \in 1..5
      BY <2>1
    <3> QED
      BY ONLY <3>1, TwoBytes
  <2>4. 4 - 1 = 3 /\ 4 + 2 = 6
    OBVIOUS
  <2>5. \A n \in 1..6 : Bit(3 * q + (6 * r + n - 1) \div 8,
                           7 - ((6 * r + n - 1) % 8))
                      = IF n <= 4 THEN Bit(hp, 4 - n) ELSE Bit(hp + 1, 8 - (n - 4))
    BY <2>1
  <2> QED
    BY ONLY <1>4, <2>2, <2>3, <2>4, <2>5
<1>8. CASE r = 3
  <2>1. /\ hp = 3 * q + 2
        /\ \A n \in 1..6 : /\ 3 * q + (6 * r + n - 1) \div 8 = hp
                           /\ 7 - ((6 * r + n - 1) % 8) = 5 - n + 1
    BY <1>3, <1>8
  <2>2. Digit(i) = Bits(hp, 5, 0)
    BY <1>1, <1>8, Switch
  <2>3. Bits(hp, 5, 0) = [n \in 1..6 |-> Bit(hp, 5 - n + 1)]
    BY DEF Bits
  <2> QED
    BY <1>4, <2>1, <2>2, <2>3
<1> QED
  BY <1>5, <1>6, <1>7, <1>8

\* One turn of the loop.
LEMMA EncodeStep == Encoded /\ Encode => Encoded'
<1> SUFFICES ASSUME Encoded, Encode PROVE Encoded'
  OBVIOUS
<1> DEFINE i == Len(buf)
<1>1. /\ i \in Nat /\ hp = (6 * i) \div 8 /\ hashlength' = hashlength
      /\ buf' = Append(buf, Digit(i)) /\ hp' = hp + Advance(i)
  BY DEF Encoded, Encode
<1>2. Digit(i) = Base64Digit(i)
  BY <1>1, DigitIs
<1>3. /\ buf' \in Seq({Base64Digit(j) : j \in Nat}) /\ Len(buf') = i + 1
      /\ \A j \in 1..i : buf'[j] = buf[j]
      /\ buf'[i + 1] = Base64Digit((i + 1) - 1)
  <2>1. Base64Digit(i) \in {Base64Digit(j) : j \in Nat} /\ (i + 1) - 1 = i
    BY <1>1
  <2> DEFINE S == {Base64Digit(j) : j \in Nat}
             d == Base64Digit(i)
  <2>2. buf \in Seq(S) /\ d \in S /\ buf' = Append(buf, d)
    BY <1>1, <1>2, <2>1 DEF Encoded
  <2>3. buf' \in Seq(S) /\ Len(buf') = i + 1 /\ buf'[i + 1] = d
        /\ \A j \in 1..i : buf'[j] = buf[j]
    <3> HIDE DEF S, d
    <3> QED
      BY <2>2
  <2> QED
    BY <2>1, <2>3
<1>4. EncodesDigest'
  <2> SUFFICES ASSUME NEW j \in 1..(i + 1) PROVE buf'[j] = Base64Digit(j - 1)
    BY <1>3 DEF EncodesDigest, Base64Digit, Bit
  <2>1. CASE j \in 1..i
    BY <1>3, <2>1 DEF Encoded, EncodesDigest
  <2>2. CASE j = i + 1
    BY <1>3, <2>2
  <2>3. j \in 1..i \/ j = i + 1
    BY <1>1
  <2> QED
    BY ONLY <2>1, <2>2, <2>3
<1>5. hp' = (6 * Len(buf')) \div 8
  <2>1. i % 4 \in 0..3
    BY <1>1
  <2> HIDE DEF i
  <2> QED
    BY <1>1, <1>3, <2>1, Places DEF Advance
<1> QED
  BY <1>1, <1>3, <1>4, <1>5 DEF Encoded, Base64Digit, Bit

\* The beginning of a hash.
LEMMA Empty == hashlength \in Nat /\ hp = 0 /\ buf = <<>> => Encoded
<1>1. (6 * 0) \div 8 = 0
  OBVIOUS
<1> QED
  BY <1>1 DEF Encoded, EncodesDigest

\* For every digest size, hash length, secret and text, the loop writes the
\* base64 of the digest (srs_hash_create_v()).
THEOREM Encodes == HashSpec => []EncodesDigest
<1>1. HashInit => Encoded
  BY Empty DEF HashInit
<1>2. Encoded /\ [HashNext]_hashvars => Encoded'
  <2> SUFFICES ASSUME Encoded, [HashNext]_hashvars PROVE Encoded'
    OBVIOUS
  <2>1. CASE Begin \/ Digest
    <3>1. hashlength' \in Nat /\ hp' = 0 /\ buf' = <<>>
      <4>1. CASE Begin
        BY <4>1 DEF Begin
      <4>2. CASE Digest
        BY <4>2, HashLengthsAssumption DEF Digest
      <4> QED
        BY <2>1, <4>1, <4>2
    <3>2. (6 * 0) \div 8 = 0
      OBVIOUS
    <3> QED
      BY <3>1, <3>2 DEF Encoded, EncodesDigest
  <2>2. CASE Encode
    BY <2>2, EncodeStep
  <2>3. CASE UNCHANGED encoding
    BY <2>3 DEF encoding, Encoded, EncodesDigest, Base64Digit, Bit
  <2> QED
    BY <2>1, <2>2, <2>3 DEF HashNext, hashvars
<1>3. Encoded => EncodesDigest
  BY DEF Encoded
<1> QED
  BY <1>1, <1>2, <1>3, PTL DEF HashSpec

\* With at most 8 (SHA_DIGESTSIZE + 1) / 6 characters, two calls with the same
\* digest give the same hash: nothing comes from behind the array.
THEOREM Determined == HashSpec => []HashIsDigest
<1>1. EncodesDigest => HashIsDigest
  <2> SUFFICES ASSUME EncodesDigest, NEW i \in 1..Len(buf),
                      i <= (8 * (SHA_DIGESTSIZE + 1)) \div 6, NEW n \in 1..6
               PROVE  buf[i][n].from # "stack"
    BY DEF HashIsDigest
  <2>1. buf[i][n] = Bit((6 * (i - 1) + n - 1) \div 8, 7 - ((6 * (i - 1) + n - 1) % 8))
    BY DEF EncodesDigest, Base64Digit
  <2>2. SHA_DIGESTSIZE \in Nat
    BY SizesAssumption
  <2>3. i \in Int /\ (6 * (i - 1) + n - 1) \div 8 <= SHA_DIGESTSIZE
    <3>1. i \in Int
      OBVIOUS
    <3>2. 6 * i <= 8 * (SHA_DIGESTSIZE + 1)
      BY <2>2, <3>1
    <3> QED
      BY <2>2, <3>1, <3>2
  <2>4. (6 * (i - 1) + n - 1) \div 8 \in Int
    BY <2>3
  <2> QED
    BY <2>1, <2>2, <2>3, <2>4 DEF Bit
<1> QED
  BY <1>1, Encodes, PTL

-----------------------------------------------------------------------------
(* The HMAC.  Arithmetic of blocks and counters first, then sha_update()   *)
(* and sha_final() as functions, then the three calls of srs_hmac_*.       *)

\* Quotient and remainder.
LEMMA Division ==
  ASSUME NEW n \in Nat, NEW b \in Nat \ {0}
  PROVE  /\ n \div b \in Nat /\ (n % b) \in 0..(b - 1)
         /\ n = ((n \div b) * b) + (n % b)
  OBVIOUS

\* There is only one of each.
LEMMA Remainder ==
  ASSUME NEW q \in Nat, NEW b \in Nat \ {0}, NEW r \in 0..(b - 1)
  PROVE  ((q * b) + r) % b = r /\ ((q * b) + r) \div b = q
  OBVIOUS

\* Whole blocks do not change a remainder.
LEMMA RemainderOfSum ==
  ASSUME NEW m \in Nat, NEW k \in Nat, NEW b \in Nat \ {0}, m % b = 0
  PROVE  (m + k) % b = k % b
<1> DEFINE p == m \div b
           q == k \div b
           r == k % b
<1>1. p \in Nat /\ m = (p * b) + 0
  BY Division
<1>2. q \in Nat /\ r \in 0..(b - 1) /\ k = (q * b) + r
  BY Division
<1> SUFFICES (m + k) % b = r
  OBVIOUS
<1> HIDE DEF p, q, r
<1>3. m + k = ((p + q) * b) + r /\ p + q \in Nat
  BY <1>1, <1>2
<1>4. (((p + q) * b) + r) % b = r
  BY ONLY <1>2, <1>3, Remainder, b \in Nat \ {0}
<1> QED
  BY ONLY <1>3, <1>4

\* The place in a block can be read off a counter that wraps at whole blocks.
LEMMA RemainderTwice ==
  ASSUME NEW n \in Nat, NEW w \in Nat \ {0}, NEW b \in Nat \ {0}, w % b = 0
  PROVE  (n % w) % b = n % b
<1> DEFINE q == n \div w
           r == n % w
           v == w \div b
<1>1. q \in Nat /\ r \in Nat /\ v \in Nat /\ n = (q * w) + r
  BY Division
<1>2. w = (v * b) + 0
  BY Division
<1>3. r = n % w
  OBVIOUS
<1> HIDE DEF q, r, v
<1>4. q * w = ((q * v) * b) + 0 /\ q * v \in Nat
  BY <1>1, <1>2
<1>5. (((q * v) * b) + 0) % b = 0
  <2>1. 0 \in 0..(b - 1)
    OBVIOUS
  <2> QED
    BY ONLY <1>4, <2>1, Remainder, b \in Nat \ {0}
<1>6. (q * w) % b = 0 /\ q * w \in Nat
  BY <1>1, <1>4, <1>5
<1>7. ((q * w) + r) % b = r % b
  BY ONLY <1>1, <1>6, RemainderOfSum, b \in Nat \ {0}
<1> QED
  BY ONLY <1>1, <1>3, <1>7

\* Two halves of a counter, with the carry taken when the lower one got smaller:
\* they are those of the sum (sha_update()).
LEMMA Carry ==
  ASSUME NEW n \in Nat, NEW c \in Nat, NEW w \in Nat \ {0}
  PROVE  /\ ((n % w) + c) % w = (n + c) % w
         /\ (n \div w) + (IF ((n % w) + c) % w < (n % w) THEN 1 ELSE 0) + (c \div w)
              = (n + c) \div w
<1>1. PICK q \in Nat, r \in 0..(w - 1) :
        n = (q * w) + r /\ r = n % w /\ q = n \div w
  BY Division
<1>2. PICK p \in Nat, s \in 0..(w - 1) :
        c = (p * w) + s /\ s = c % w /\ p = c \div w
  BY Division
<1>3. CASE r + s < w
  <2>1. n + c = ((q + p) * w) + (r + s) /\ r + c = (p * w) + (r + s)
    BY <1>1, <1>2
  <2>2. r + s \in 0..(w - 1) /\ q + p \in Nat
    BY <1>3
  <2>3. (((q + p) * w) + (r + s)) % w = r + s /\ (((q + p) * w) + (r + s)) \div w = q + p
    BY ONLY <2>2, Remainder, w \in Nat \ {0}
  <2>4. ((p * w) + (r + s)) % w = r + s
    BY ONLY <2>2, Remainder, w \in Nat \ {0}, p \in Nat
  <2>5. ~(r + s < r)
    OBVIOUS
  <2> QED BY ONLY <1>1, <1>2, <2>1, <2>3, <2>4, <2>5
<1>4. CASE r + s >= w
  <2>1. /\ n + c = ((q + p + 1) * w) + (r + s - w)
        /\ r + c = ((p + 1) * w) + (r + s - w)
    BY <1>1, <1>2
  <2>2. r + s - w \in 0..(w - 1) /\ q + p + 1 \in Nat /\ p + 1 \in Nat
    BY <1>4
  <2>3. /\ (((q + p + 1) * w) + (r + s - w)) % w = r + s - w
        /\ (((q + p + 1) * w) + (r + s - w)) \div w = q + p + 1
    BY ONLY <2>2, Remainder, w \in Nat \ {0}
  <2>4. (((p + 1) * w) + (r + s - w)) % w = r + s - w
    BY ONLY <2>2, Remainder, w \in Nat \ {0}
  <2>5. r + s - w < r
    OBVIOUS
  <2>6. q + 1 + p = q + p + 1
    OBVIOUS
  <2> QED BY ONLY <1>1, <1>2, <2>1, <2>3, <2>4, <2>5, <2>6
<1> QED BY <1>3, <1>4

\* The sizes of SHA-1, as the provers want them.
LEMMA Sizes ==
  /\ SHA_BLOCKSIZE \in Nat \ {0} /\ SHA_WRAP \in Nat \ {0}
  /\ SHA_WRAP % SHA_BLOCKSIZE = 0
  /\ SHA_DIGESTSIZE \in Nat /\ 1 <= SHA_DIGESTSIZE /\ SHA_DIGESTSIZE <= SHA_BLOCKSIZE
  /\ SHA_LENSIZE \in Nat /\ 1 <= SHA_LENSIZE /\ SHA_LENSIZE < SHA_BLOCKSIZE
  BY SizesAssumption

\* The field "data", of bytes in S.
Buffers(S) == [1..SHA_BLOCKSIZE -> S]

\* An SHA_INFO with bytes in S.
Infos(S) == [digest : Seq(S), count_lo : Nat, count_hi : Nat, local : Nat,
             data : Buffers(S)]

\* The counter has counted n bytes.
Counts(info, n) == /\ info.count_lo = n % SHA_WRAP
                   /\ info.count_hi = n \div SHA_WRAP

\* The beginning of a block.
First(x, k) == SubSeq(x, 1, k)

\* The text s is what was hashed: compressed, or waiting in the buffer, with the
\* counter and "local" where they have to be.  All that follows rests on this.
Holds(info, s, S) ==
  /\ info \in Infos(S) /\ s \in Seq(S)
  /\ Counts(info, Len(s))
  /\ info.local = Len(s) % SHA_BLOCKSIZE
  /\ info.digest \o First(info.data, info.local) = s

\* A byte that memcpy() writes.
LEMMA CopiedIn ==
  ASSUME NEW data, NEW at \in Nat, NEW bytes, Len(bytes) \in Nat,
         NEW i \in 1..SHA_BLOCKSIZE, at < i, i <= at + Len(bytes)
  PROVE  Copied(data, at, bytes)[i] = bytes[i - at]
<1>1. i \in (at + 1)..(at + Len(bytes))
  BY Sizes
<1> QED
  BY <1>1 DEF Copied

\* A byte that it leaves alone.
LEMMA CopiedOut ==
  ASSUME NEW data, NEW at \in Nat, NEW bytes, Len(bytes) \in Nat,
         NEW i \in 1..SHA_BLOCKSIZE, i <= at \/ at + Len(bytes) < i
  PROVE  Copied(data, at, bytes)[i] = data[i]
<1>1. i \notin (at + 1)..(at + Len(bytes))
  BY Sizes
<1> QED
  BY <1>1 DEF Copied

\* memcpy() into a block leaves a block.
LEMMA CopiedIs ==
  ASSUME NEW S, NEW data \in Buffers(S), NEW at \in Nat,
         NEW bytes \in Seq(S), at + Len(bytes) <= SHA_BLOCKSIZE
  PROVE  Copied(data, at, bytes) \in Buffers(S)
<1>1. Len(bytes) \in Nat /\ SHA_BLOCKSIZE \in Nat
  BY Sizes
<1>2. ASSUME NEW i \in 1..SHA_BLOCKSIZE
      PROVE  i \in (at + 1)..(at + Len(bytes)) <=> at < i /\ i <= at + Len(bytes)
  BY <1>1
<1>3. ASSUME NEW i \in 1..SHA_BLOCKSIZE
      PROVE  (IF i \in (at + 1)..(at + Len(bytes)) THEN bytes[i - at] ELSE data[i]) \in S
  <2>1. CASE i \in (at + 1)..(at + Len(bytes))
    <3>1. i - at \in 1..Len(bytes)
      BY <1>1, <2>1
    <3> QED
      BY <2>1, <3>1
  <2>2. CASE i \notin (at + 1)..(at + Len(bytes))
    BY <2>2 DEF Buffers
  <2> QED
    BY <2>1, <2>2
<1> QED
  BY <1>2, <1>3 DEF Copied, Buffers

\* The counter after some bytes more.
LEMMA CountedIs ==
  ASSUME NEW S, NEW info \in Infos(S), NEW n \in Nat, Counts(info, n), NEW c \in Nat
  PROVE  /\ Counted(info, c) \in Infos(S)
         /\ Counts(Counted(info, c), n + c)
         /\ Counted(info, c).digest = info.digest
         /\ Counted(info, c).local = info.local
         /\ Counted(info, c).data = info.data
<1> DEFINE clo == (info.count_lo + c) % SHA_WRAP
           chi == info.count_hi + (IF clo < info.count_lo THEN 1 ELSE 0)
                    + (c \div SHA_WRAP)
<1>1. Counted(info, c) = [info EXCEPT !.count_lo = clo, !.count_hi = chi]
  BY DEF Counted, Infos
<1>2. clo = (n + c) % SHA_WRAP /\ chi = (n + c) \div SHA_WRAP
  <2>1. /\ ((n % SHA_WRAP) + c) % SHA_WRAP = (n + c) % SHA_WRAP
        /\ (n \div SHA_WRAP) + (IF ((n % SHA_WRAP) + c) % SHA_WRAP < (n % SHA_WRAP)
                                THEN 1 ELSE 0) + (c \div SHA_WRAP)
             = (n + c) \div SHA_WRAP
    BY Carry, Sizes
  <2>2. info.count_lo = n % SHA_WRAP /\ info.count_hi = n \div SHA_WRAP
    BY DEF Counts
  <2> QED
    BY ONLY <2>1, <2>2
<1>3. clo \in Nat /\ chi \in Nat
  <2>1. (n + c) % SHA_WRAP \in 0..(SHA_WRAP - 1) /\ (n + c) \div SHA_WRAP \in Nat
    <3>1. n + c \in Nat
      OBVIOUS
    <3> QED
      BY ONLY <3>1, Division, Sizes
  <2> HIDE DEF clo, chi
  <2> QED
    BY <1>2, <2>1
<1> HIDE DEF clo, chi
<1> QED
  BY <1>1, <1>2, <1>3 DEF Infos, Counts

\* The whole blocks of a text.
LEMMA WholeBlocks ==
  ASSUME NEW n \in Nat
  PROVE  /\ (n \div SHA_BLOCKSIZE) * SHA_BLOCKSIZE = n - (n % SHA_BLOCKSIZE)
         /\ (n % SHA_BLOCKSIZE) \in 0..(SHA_BLOCKSIZE - 1)
         /\ n - (n % SHA_BLOCKSIZE) \in 0..n
         /\ (n - (n % SHA_BLOCKSIZE)) % SHA_BLOCKSIZE = 0
         /\ n - (n % SHA_BLOCKSIZE) # 0 => n - (n % SHA_BLOCKSIZE) >= SHA_BLOCKSIZE
<1> DEFINE q == n \div SHA_BLOCKSIZE
           r == n % SHA_BLOCKSIZE
<1>1. /\ q \in Nat /\ r \in 0..(SHA_BLOCKSIZE - 1)
      /\ n = (q * SHA_BLOCKSIZE) + r
  BY Division, Sizes
<1> SUFFICES /\ q * SHA_BLOCKSIZE = n - r /\ r \in 0..(SHA_BLOCKSIZE - 1)
             /\ n - r \in 0..n /\ (n - r) % SHA_BLOCKSIZE = 0
             /\ n - r # 0 => n - r >= SHA_BLOCKSIZE
  OBVIOUS
<1> HIDE DEF q, r
<1>2. ((q * SHA_BLOCKSIZE) + 0) % SHA_BLOCKSIZE = 0
  <2>1. 0 \in 0..(SHA_BLOCKSIZE - 1)
    BY Sizes
  <2> QED
    BY ONLY <1>1, <2>1, Remainder, Sizes
<1>3. q * SHA_BLOCKSIZE = n - r /\ q * SHA_BLOCKSIZE \in Nat
  BY <1>1, Sizes
<1>4. n - r # 0 => n - r >= SHA_BLOCKSIZE
  <2> SUFFICES ASSUME q # 0 PROVE q * SHA_BLOCKSIZE >= SHA_BLOCKSIZE
    BY <1>1, <1>3, Sizes
  <2>1. q = (q - 1) + 1 /\ q - 1 \in Nat
    BY <1>1
  <2>2. q * SHA_BLOCKSIZE = ((q - 1) * SHA_BLOCKSIZE) + SHA_BLOCKSIZE
    BY <2>1, Sizes
  <2>3. (q - 1) * SHA_BLOCKSIZE \in Nat
    BY <2>1, Sizes
  <2> QED
    BY <2>2, <2>3, Sizes
<1> QED
  BY <1>1, <1>2, <1>3, <1>4

\* A number less than a block is its own remainder.
LEMMA SmallRemainder ==
  ASSUME NEW k \in 0..(SHA_BLOCKSIZE - 1)
  PROVE  k % SHA_BLOCKSIZE = k
<1>1. (0 * SHA_BLOCKSIZE) + k = k
  BY Sizes
<1>2. ((0 * SHA_BLOCKSIZE) + k) % SHA_BLOCKSIZE = k
  BY Remainder, Sizes
<1> QED
  BY ONLY <1>1, <1>2

\* Concatenation, byte by byte.
LEMMA Cat ==
  ASSUME NEW T, NEW a \in Seq(T), NEW b \in Seq(T), NEW k, NEW l,
         Len(a) = k, Len(b) = l
  PROVE  /\ a \o b \in Seq(T) /\ Len(a \o b) = k + l
         /\ \A i \in 1..(k + l) : (a \o b)[i] = IF i <= k THEN a[i] ELSE b[i - k]
  BY ConcatProperties

\* Concatenation under a name, for the provers to match.
Joined(a, b) == a \o b

\* Concatenation can be grouped either way.
LEMMA Assoc ==
  ASSUME NEW T, NEW a \in Seq(T), NEW b \in Seq(T), NEW c \in Seq(T)
  PROVE  Joined(Joined(a, b), c) = Joined(a, Joined(b, c))
<1>1. (a \o b) \o c = a \o (b \o c)
  BY ConcatAssociative, SMTT(30)
<1> QED
  BY ONLY <1>1 DEF Joined

\* The beginning of a block, byte by byte.
LEMMA Prefix ==
  ASSUME NEW S, NEW x \in Buffers(S), NEW k \in 0..SHA_BLOCKSIZE
  PROVE  /\ First(x, k) \in Seq(S) /\ Len(First(x, k)) = k
         /\ \A i \in 1..k : First(x, k)[i] = x[i]
  BY SubSeqProperties, Sizes DEF Buffers, First

\* A block is a text of its size.
LEMMA BlockIsSeq ==
  ASSUME NEW S, NEW x \in Buffers(S)
  PROVE  /\ x \in Seq(S) /\ Len(x) = SHA_BLOCKSIZE
         /\ First(x, SHA_BLOCKSIZE) = x
<1>1. x \in Seq(S) /\ Len(x) = SHA_BLOCKSIZE
  BY Sizes DEF Buffers
<1> QED
  BY <1>1, SubSeqFull DEF First

\* What memcpy() writes follows what was before it.
LEMMA CopiedPrefix ==
  ASSUME NEW S, NEW x \in Buffers(S), NEW at \in Nat,
         NEW bytes \in Seq(S), NEW end, end = at + Len(bytes), end <= SHA_BLOCKSIZE
  PROVE  /\ Copied(x, at, bytes) \in Buffers(S)
         /\ First(Copied(x, at, bytes), end) = First(x, at) \o bytes
<1> DEFINE y == Copied(x, at, bytes)
           u == First(x, at)
           v == First(y, end)
<1>1. /\ Len(bytes) \in Nat /\ end \in 0..SHA_BLOCKSIZE /\ at \in 0..SHA_BLOCKSIZE
      /\ at + Len(bytes) <= SHA_BLOCKSIZE
  BY Sizes
<1>2. y \in Buffers(S)
  BY ONLY <1>1, CopiedIs
<1> HIDE DEF y
<1>3. v \in Seq(S) /\ Len(v) = end /\ \A i \in 1..end : v[i] = y[i]
  BY ONLY <1>1, <1>2, Prefix
<1>4. u \in Seq(S) /\ Len(u) = at /\ \A i \in 1..at : u[i] = x[i]
  BY ONLY <1>1, Prefix
<1> HIDE DEF u, v
<1>5. /\ u \o bytes \in Seq(S) /\ Len(u \o bytes) = end
      /\ \A i \in 1..end :
           (u \o bytes)[i] = IF i <= at THEN u[i] ELSE bytes[i - at]
  BY ONLY <1>4, Cat, end = at + Len(bytes)
<1>6. ASSUME NEW i \in 1..end PROVE v[i] = (u \o bytes)[i]
  <2>1. i \in 1..SHA_BLOCKSIZE /\ i \in Nat
    BY <1>1, Sizes
  <2>2. CASE i <= at
    <3>1. y[i] = x[i]
      BY ONLY <1>1, <2>1, <2>2, CopiedOut DEF y
    <3>2. i \in 1..at
      BY <2>1, <2>2
    <3> QED
      BY ONLY <1>3, <1>4, <1>5, <2>2, <3>1, <3>2, i \in 1..end
  <2>3. CASE ~(i <= at)
    <3>1. at < i /\ i <= at + Len(bytes)
      BY <1>1, <2>1, <2>3
    <3>2. y[i] = bytes[i - at]
      BY ONLY <1>1, <2>1, <3>1, CopiedIn DEF y
    <3> QED
      BY ONLY <1>3, <1>5, <2>3, <3>2, i \in 1..end
  <2> QED
    BY <2>2, <2>3
<1>7. v = u \o bytes
  BY ONLY <1>3, <1>5, <1>6, SeqEqual
<1> QED
  BY <1>2, <1>7 DEF y, u, v

\* From the beginning of a block on, whole blocks are compressed and the rest waits.
LEMMA BlocksHold ==
  ASSUME NEW S, NEW info \in Infos(S), NEW t \in Seq(S), NEW b \in Seq(S),
         Len(t) % SHA_BLOCKSIZE = 0, info.digest = t,
         Counts(info, Len(t) + Len(b))
  PROVE  Holds(Blocks(info, b), t \o b, S)
<1> DEFINE r    == Len(b) % SHA_BLOCKSIZE
           n    == (Len(b) \div SHA_BLOCKSIZE) * SHA_BLOCKSIZE
           last == IF n = 0 THEN info.data ELSE SubSeq(b, n - SHA_BLOCKSIZE + 1, n)
           tail == SubSeq(b, n + 1, Len(b))
           post == Blocks(info, b)
           whole == SubSeq(b, 1, n)
           data == Copied(last, 0, tail)
<1>1. post = [info EXCEPT !.digest = t \o whole, !.data = data, !.local = Len(tail)]
  BY DEF Blocks
<1>2. /\ n = Len(b) - r /\ r \in 0..(SHA_BLOCKSIZE - 1) /\ n \in 0..Len(b)
      /\ n # 0 => n >= SHA_BLOCKSIZE
  <2>1. Len(b) \in Nat
    OBVIOUS
  <2> QED
    BY ONLY <2>1, WholeBlocks
<1>3. Len(b) \in Nat /\ Len(t) \in Nat /\ \A i \in 1..Len(b) : b[i] \in S
  OBVIOUS
<1> HIDE DEF r, n, post
<1>4. whole \in Seq(S)
  BY <1>2, <1>3, SubSeqProperties
<1>5. tail \in Seq(S) /\ Len(tail) = r
  BY <1>2, <1>3, SubSeqProperties
<1>6. last \in Buffers(S)
  <2>1. CASE n = 0
    BY <2>1 DEF Infos
  <2>2. CASE n # 0
    <3> DEFINE l == SubSeq(b, n - SHA_BLOCKSIZE + 1, n)
    <3>1. l \in Seq(S) /\ Len(l) = SHA_BLOCKSIZE
      BY <1>2, <1>3, <2>2, SubSeqProperties, Sizes
    <3> HIDE DEF l
    <3>2. l \in Buffers(S)
      BY <3>1 DEF Buffers
    <3> QED
      BY <2>2, <3>2 DEF l
  <2> QED
    BY <2>1, <2>2
<1>7. whole \o tail = b
  <2>1. 1 \in 1..(Len(b) + 1) /\ n \in (1 - 1)..Len(b) /\ Len(b) \in n..Len(b)
    BY <1>2, <1>3
  <2>2. whole \o tail = SubSeq(b, 1, Len(b))
    BY ONLY <2>1, ConcatAdjacentSubSeq, b \in Seq(S)
  <2> QED
    BY ONLY <2>2, SubSeqFull, b \in Seq(S)
<1> HIDE DEF last, tail, whole
<1>8. data \in Buffers(S) /\ First(data, r) = tail
  <2>1. PICK at \in Nat, end \in Nat : at = 0 /\ end = r
    BY <1>2
  <2>2. end = at + Len(tail) /\ end <= SHA_BLOCKSIZE
    BY <1>2, <1>5, <2>1, Sizes
  <2>3. Copied(last, at, tail) \in Buffers(S)
    BY <1>5, <1>6, <2>2, CopiedPrefix
  <2>4. First(Copied(last, at, tail), end) = First(last, at) \o tail
    <3>1. PICK x \in Buffers(S), u \in Seq(S) : x = last /\ u = tail
      BY <1>5, <1>6
    <3>2. end = at + Len(u)
      BY <2>2, <3>1
    <3>3. First(Copied(x, at, u), end) = First(x, at) \o u
      BY ONLY <2>2, <3>2, CopiedPrefix
    <3> QED
      BY ONLY <3>1, <3>3
  <2>5. First(last, at) = <<>>
    <3>1. at < 1
      BY <2>1
    <3> QED
      BY <3>1, SubSeqEmpty DEF First
  <2>6. <<>> \o tail = tail
    BY <1>5, ConcatEmptySeq
  <2> QED
    BY ONLY <2>1, <2>3, <2>5, <2>6, <2>4
<1> HIDE DEF data
<1>9. t \o b \in Seq(S) /\ Len(t \o b) = Len(t) + Len(b) /\ t \o whole \in Seq(S)
  BY <1>4, ConcatProperties
<1>10. (t \o whole) \o tail = t \o b
  <2>1. (t \o whole) \o tail = t \o (whole \o tail)
    <3>1. t \in Seq(S) /\ whole \in Seq(S) /\ tail \in Seq(S)
      BY <1>4, <1>5
    <3> QED
      <4>1. Joined(Joined(t, whole), tail) = Joined(t, Joined(whole, tail))
        BY ONLY <3>1, Assoc
      <4> QED
        BY ONLY <4>1 DEF Joined
  <2> QED
    BY ONLY <1>7, <2>1
<1>11. (Len(t) + Len(b)) % SHA_BLOCKSIZE = r
  BY <1>3, RemainderOfSum, Sizes DEF r
<1>12. /\ post \in Infos(S) /\ post.digest = t \o whole /\ post.local = r
       /\ post.data = data
       /\ post.count_lo = info.count_lo /\ post.count_hi = info.count_hi
  <2> DEFINE g == t \o whole
  <2>1. g \in Seq(S) /\ r \in Nat
    BY <1>2, <1>9
  <2>2. post = [info EXCEPT !.digest = g, !.data = data, !.local = r]
    BY <1>1, <1>5
  <2> HIDE DEF g
  <2>3. /\ post \in Infos(S) /\ post.digest = g /\ post.local = r
        /\ post.data = data /\ post.count_lo = info.count_lo
        /\ post.count_hi = info.count_hi
    BY ONLY <1>8, <2>1, <2>2, info \in Infos(S) DEF Infos
  <2> QED
    BY <2>3 DEF g
<1> QED
  BY <1>8, <1>9, <1>10, <1>11, <1>12 DEF Holds, Counts, post

\* The same behind what was compressed.
LEMMA Continued ==
  ASSUME NEW S, NEW g, NEW x, NEW at \in Nat, NEW u, g \in Seq(S), x \in Buffers(S),
         u \in Seq(S), at + Len(u) <= SHA_BLOCKSIZE
  PROVE  g \o First(Copied(x, at, u), at + Len(u)) = (g \o First(x, at)) \o u
<1>1. PICK end \in Nat : end = at + Len(u)
  OBVIOUS
<1>2. First(Copied(x, at, u), end) = First(x, at) \o u
  BY <1>1, CopiedPrefix
<1>3. First(x, at) \in Seq(S)
  <2>1. at \in 0..SHA_BLOCKSIZE
    BY Sizes
  <2> QED
    BY ONLY <2>1, Prefix, x \in Buffers(S)
<1>4. (g \o First(x, at)) \o u = g \o (First(x, at) \o u)
  <2>1. PICK v : v = First(x, at)
    OBVIOUS
  <2>2. g \in Seq(S) /\ v \in Seq(S) /\ u \in Seq(S)
    BY <1>3, <2>1
  <2>3. (g \o v) \o u = g \o (v \o u)
    <3>1. Joined(Joined(g, v), u) = Joined(g, Joined(v, u))
      BY ONLY <2>2, Assoc
    <3> QED
      BY ONLY <3>1 DEF Joined
  <2> QED
    BY ONLY <2>1, <2>3
<1> QED
  BY ONLY <1>1, <1>2, <1>4

\* A call of sha_update() appends its bytes to the text, whatever waits in the
\* buffer and however many they are.
LEMMA UpdateHolds ==
  ASSUME NEW S, NEW info, NEW s, Holds(info, s, S), NEW b \in Seq(S)
  PROVE  Holds(sha_update(info, b), s \o b, S)
<1> DEFINE post == sha_update(info, b)
<1>1. info \in Infos(S) /\ s \in Seq(S) /\ Len(s) \in Nat /\ Len(b) \in Nat
  BY DEF Holds
<1>2. PICK n \in Nat : n = Len(s)
  BY <1>1
<1>3. PICK m \in Nat : m = Len(b)
  BY <1>1
<1>4. PICK r \in Nat : r = info.local /\ r = n % SHA_BLOCKSIZE /\ r < SHA_BLOCKSIZE
  <2>1. (n % SHA_BLOCKSIZE) \in Nat /\ (n % SHA_BLOCKSIZE) < SHA_BLOCKSIZE
    <3>1. (n % SHA_BLOCKSIZE) \in 0..(SHA_BLOCKSIZE - 1)
      BY ONLY WholeBlocks
    <3> QED
      BY ONLY <3>1, Sizes
  <2> QED
    BY <1>2, <2>1 DEF Holds
<1>5. PICK g : g \in Seq(S) /\ g = info.digest
  BY <1>1 DEF Infos
<1>6. PICK x : x \in Buffers(S) /\ x = info.data
  BY <1>1 DEF Infos
<1>7. g \o First(x, r) = s
  BY <1>4, <1>5, <1>6 DEF Holds
<1>8. Counts(info, n)
  BY <1>2 DEF Holds
<1>9. PICK d \in Nat : d + r = n /\ d % SHA_BLOCKSIZE = 0
  <2>1. n - r \in Nat /\ (n - r) % SHA_BLOCKSIZE = 0
    BY <1>4, WholeBlocks
  <2> QED
    BY <2>1
<1>10. PICK counted \in Infos(S) :
         /\ counted = Counted(info, m) /\ Counts(counted, n + m)
         /\ counted.digest = g /\ counted.local = r /\ counted.data = x
  <2>1. /\ Counted(info, m) \in Infos(S) /\ Counts(Counted(info, m), n + m)
        /\ Counted(info, m).digest = info.digest
        /\ Counted(info, m).local = info.local
        /\ Counted(info, m).data = info.data
    BY <1>1, <1>8, CountedIs
  <2> QED
    BY ONLY <1>4, <1>5, <1>6, <2>1
<1> DEFINE i == IF SHA_BLOCKSIZE - r > m THEN m ELSE SHA_BLOCKSIZE - r
<1>11. /\ i \in Nat /\ i <= m /\ r + i <= SHA_BLOCKSIZE
       /\ r + i < SHA_BLOCKSIZE => i = m
  BY <1>4, Sizes
<1>12. i = IF SHA_BLOCKSIZE - r > m THEN m ELSE SHA_BLOCKSIZE - r
  OBVIOUS
<1> HIDE DEF i
<1>13. PICK u, rest :
         /\ u \in Seq(S) /\ rest \in Seq(S)
         /\ u = SubSeq(b, 1, i) /\ rest = SubSeq(b, i + 1, m)
         /\ Len(u) = i /\ Len(rest) = m - i /\ u \o rest = b
  <2>1. \A j \in 1..m : b[j] \in S
    BY <1>3
  <2>2. /\ SubSeq(b, 1, i) \in Seq(S) /\ SubSeq(b, i + 1, m) \in Seq(S)
        /\ Len(SubSeq(b, 1, i)) = i /\ Len(SubSeq(b, i + 1, m)) = m - i
    <3>1. SubSeq(b, 1, i) \in Seq(S) /\ Len(SubSeq(b, 1, i)) = i
      BY ONLY <1>11, <2>1, SubSeqProperties
    <3>2. SubSeq(b, i + 1, m) \in Seq(S) /\ Len(SubSeq(b, i + 1, m)) = m - i
      BY ONLY <1>11, <2>1, SubSeqProperties
    <3> QED
      BY <3>1, <3>2
  <2>3. SubSeq(b, 1, i) \o SubSeq(b, i + 1, m) = b
    <3>1. 1 \in 1..(Len(b) + 1) /\ i \in (1 - 1)..Len(b) /\ m \in i..Len(b)
      BY <1>3, <1>11
    <3>2. SubSeq(b, 1, i) \o SubSeq(b, i + 1, m) = SubSeq(b, 1, m)
      BY ONLY <3>1, ConcatAdjacentSubSeq, b \in Seq(S)
    <3> QED
      BY ONLY <1>3, <3>2, SubSeqFull
  <2> QED
    BY <2>2, <2>3
<1>14. PICK y : y \in Buffers(S) /\ y = Copied(x, r, u)
  <2>1. r + Len(u) <= SHA_BLOCKSIZE
    BY <1>11, <1>13
  <2>2. Copied(x, r, u) \in Buffers(S)
    BY ONLY <1>13, <1>6, <2>1, CopiedIs
  <2> QED
    BY <2>2
<1>15. g \o First(y, r + i) = s \o u
  <2>1. PICK end \in Nat : end = r + i
    BY <1>11
  <2>2. end = r + Len(u) /\ end <= SHA_BLOCKSIZE
    BY <1>11, <1>13, <2>1
  <2>3. /\ g \in Seq(S) /\ x \in Buffers(S) /\ u \in Seq(S)
        /\ r + Len(u) <= SHA_BLOCKSIZE
    BY <1>5, <1>6, <1>13, <2>2
  <2>4. g \o First(Copied(x, r, u), r + Len(u)) = (g \o First(x, r)) \o u
    BY ONLY <2>3, r \in Nat, Continued, SMT
  <2> QED
    BY ONLY <1>7, <1>14, <2>1, <2>2, <2>4
<1> DEFINE filled == [counted EXCEPT !.data = y, !.local = r + i]
<1>16. /\ filled \in Infos(S) /\ filled.digest = g /\ filled.data = y
       /\ filled.local = r + i /\ Counts(filled, n + m)
  <2>1. PICK k \in Nat : k = r + i
    BY <1>11
  <2>2. filled = [counted EXCEPT !.data = y, !.local = k]
    BY <2>1
  <2> HIDE DEF filled
  <2>3. /\ filled \in Infos(S) /\ filled.digest = g /\ filled.data = y
        /\ filled.local = k /\ Counts(filled, n + m)
    BY ONLY <1>10, <1>14, <2>2 DEF Infos, Counts
  <2> QED
    BY ONLY <2>1, <2>3
<1>17. post = IF r = 0 THEN Blocks(counted, b)
              ELSE IF filled.local < SHA_BLOCKSIZE THEN filled
              ELSE Blocks(sha_transform(filled), rest)
  <2>1. /\ Len(b) = m /\ info.local = r
        /\ (IF SHA_BLOCKSIZE - info.local > Len(b) THEN Len(b)
            ELSE SHA_BLOCKSIZE - info.local) = i
    BY ONLY <1>3, <1>4, <1>12
  <2>2. filled = [counted EXCEPT !.data = Copied(counted.data, r, SubSeq(b, 1, i)),
                                 !.local = counted.local + i]
    BY ONLY <1>10, <1>13, <1>14
  <2> HIDE DEF filled
  <2> QED
    BY ONLY <1>10, <1>13, <2>1, <2>2, Zenon DEF sha_update
<1> HIDE DEF filled, post
<1>18. s \o b \in Seq(S) /\ Len(s \o b) = n + m
  BY <1>1, <1>2, <1>3, ConcatProperties
<1>19. CASE r = 0
  <2>1. g = s
    <3>1. First(x, r) = <<>>
      BY <1>19, SubSeqEmpty DEF First
    <3>2. g \o <<>> = g
      BY <1>5, ConcatEmptySeq
    <3> QED
      BY <1>7, <3>1, <3>2
  <2>2. Holds(Blocks(counted, b), s \o b, S)
    <3>1. s \in Seq(S) /\ counted.digest = s /\ Counts(counted, Len(s) + Len(b))
      BY ONLY <1>1, <1>2, <1>3, <1>10, <2>1
    <3>2. Len(s) % SHA_BLOCKSIZE = 0
      BY ONLY <1>2, <1>4, <1>19
    <3> QED
      BY ONLY <3>1, <3>2, BlocksHold
  <2> QED
    BY <1>17, <1>19, <2>2 DEF post
<1>20. CASE r # 0 /\ r + i < SHA_BLOCKSIZE
  <2>1. i = m /\ u = b /\ post = filled
    <3>1. i = m
      BY <1>11, <1>20
    <3> QED
      BY <1>3, <1>13, <1>16, <1>17, <1>20, <3>1, SubSeqFull
  <2>2. (n + m) % SHA_BLOCKSIZE = r + i
    <3>1. PICK k \in Nat : k = r + i
      BY <1>11
    <3>2. n + m = d + k /\ k \in 0..(SHA_BLOCKSIZE - 1)
      BY <1>9, <1>11, <1>20, <2>1, <3>1, Sizes
    <3>3. (d + k) % SHA_BLOCKSIZE = k % SHA_BLOCKSIZE
      BY ONLY <1>9, RemainderOfSum, Sizes
    <3>4. k % SHA_BLOCKSIZE = k
      BY ONLY <3>2, SmallRemainder
    <3> QED
      BY ONLY <3>1, <3>3, <3>4, <3>2
  <2> QED
    BY ONLY <1>15, <1>16, <1>18, <2>1, <2>2 DEF Holds, post
<1>21. CASE r # 0 /\ ~(r + i < SHA_BLOCKSIZE)
  <2>1. r + i = SHA_BLOCKSIZE
    BY <1>11, <1>21, Sizes
  <2>2. g \o y = s \o u
    BY <1>14, <1>15, <2>1, BlockIsSeq
  <2>3. PICK t : t \in Seq(S) /\ t = s \o u /\ Len(t) = n + i
    <3>1. s \o u \in Seq(S) /\ Len(s \o u) = Len(s) + Len(u)
      BY <1>1, <1>13, ConcatProperties
    <3> QED
      BY ONLY <1>2, <1>13, <3>1
  <2>4. Len(t) % SHA_BLOCKSIZE = 0
    <3>1. Len(t) = d + SHA_BLOCKSIZE
      <4>1. Len(t) = n + i /\ d + r = n /\ r + i = SHA_BLOCKSIZE
        BY <1>9, <2>1, <2>3
      <4> QED
        BY ONLY <1>11, <4>1, Sizes
    <3>2. (SHA_BLOCKSIZE % SHA_BLOCKSIZE) = 0
      <4>1. PICK q \in Nat, z \in 0..(SHA_BLOCKSIZE - 1) : q = 1 /\ z = 0
        BY Sizes
      <4>2. ((q * SHA_BLOCKSIZE) + z) % SHA_BLOCKSIZE = z
        BY Remainder, Sizes
      <4>3. (q * SHA_BLOCKSIZE) + z = SHA_BLOCKSIZE
        BY <4>1, Sizes
      <4> QED
        BY ONLY <4>1, <4>2, <4>3
    <3>3. (d + SHA_BLOCKSIZE) % SHA_BLOCKSIZE = SHA_BLOCKSIZE % SHA_BLOCKSIZE
      BY ONLY <1>9, RemainderOfSum, Sizes
    <3> QED
      BY ONLY <3>1, <3>2, <3>3
  <2>5. PICK full \in Infos(S) : /\ full = sha_transform(filled) /\ full.digest = t
                                 /\ Counts(full, Len(t) + Len(rest))
    <3>1. Len(t) + Len(rest) = n + m
      <4>1. Len(t) = n + i /\ Len(rest) = m - i
        BY <1>13, <2>3
      <4> QED
        BY ONLY <1>11, <4>1
    <3>2. sha_transform(filled) = [filled EXCEPT !.digest = t]
      BY <1>16, <2>2, <2>3 DEF sha_transform
    <3> QED
      BY ONLY <1>16, <2>3, <3>1, <3>2 DEF Infos, Counts
  <2>6. Holds(Blocks(full, rest), t \o rest, S)
    <3>1. t \in Seq(S) /\ rest \in Seq(S)
      BY <1>13, <2>3
    <3> QED
      BY ONLY <2>4, <2>5, <3>1, BlocksHold
  <2>7. t \o rest = s \o b
    <3>1. (s \o u) \o rest = s \o (u \o rest)
      <4>1. s \in Seq(S) /\ u \in Seq(S) /\ rest \in Seq(S)
        BY <1>1, <1>13
      <4> QED
        <5>1. Joined(Joined(s, u), rest) = Joined(s, Joined(u, rest))
          BY ONLY <4>1, Assoc
        <5> QED
          BY ONLY <5>1 DEF Joined
    <3> QED
      BY ONLY <1>13, <2>3, <3>1
  <2> QED
    BY ONLY <1>16, <1>17, <1>21, <2>5, <2>6, <2>7 DEF post
<1> QED
  BY <1>19, <1>20, <1>21 DEF post

\* After sha_init() the text is empty, whatever was in the buffer.
LEMMA InitHolds ==
  ASSUME NEW S, NEW info \in Infos(S)
  PROVE  Holds(sha_init(info), <<>>, S)
<1>1. 0 % SHA_BLOCKSIZE = 0
  <2>1. 0 \in 0..(SHA_BLOCKSIZE - 1)
    BY Sizes
  <2> QED
    BY ONLY <2>1, SmallRemainder
<1>2. 0 % SHA_WRAP = 0 /\ 0 \div SHA_WRAP = 0
  <2>1. 0 \in 0..(SHA_WRAP - 1) /\ 0 \in Nat /\ (0 * SHA_WRAP) + 0 = 0
    BY Sizes
  <2>2. /\ ((0 * SHA_WRAP) + 0) % SHA_WRAP = 0
        /\ ((0 * SHA_WRAP) + 0) \div SHA_WRAP = 0
    BY ONLY <2>1, Remainder, Sizes
  <2> QED
    BY ONLY <2>1, <2>2
<1> DEFINE post == sha_init(info)
<1>3. /\ post \in Infos(S) /\ post.digest = <<>> /\ post.local = 0
      /\ post.count_lo = 0 /\ post.count_hi = 0
  <2>1. <<>> \in Seq(S) /\ 0 \in Nat
    OBVIOUS
  <2> DEFINE e == <<>>
  <2>2. post = [info EXCEPT !.digest = e, !.count_lo = 0, !.count_hi = 0, !.local = 0]
    BY DEF sha_init
  <2>3. e \in Seq(S)
    BY <2>1
  <2> HIDE DEF e, post
  <2>4. /\ post \in Infos(S) /\ post.digest = e /\ post.local = 0
        /\ post.count_lo = 0 /\ post.count_hi = 0
    BY ONLY <2>1, <2>2, <2>3, info \in Infos(S) DEF Infos
  <2> QED
    BY <2>4 DEF e
<1> HIDE DEF post
<1>4. <<>> \in Seq(S) /\ Len(<<>>) = 0
  OBVIOUS
<1>5. post.digest \o First(post.data, post.local) = <<>>
  <2>1. First(post.data, 0) = <<>>
    BY SubSeqEmpty DEF First
  <2>2. <<>> \o <<>> = <<>>
    BY <1>4, ConcatEmptySeq
  <2> QED
    BY ONLY <1>3, <2>1, <2>2
<1> QED
  BY <1>1, <1>2, <1>3, <1>4, <1>5 DEF Holds, Counts, post

\* How many zeros follow the mark.
PadLen(n) == LET over == (n + 1 + SHA_LENSIZE) % SHA_BLOCKSIZE
             IN  IF over = 0 THEN 0 ELSE SHA_BLOCKSIZE - over

\* The zeros fill this block up to the length, or this one and most of the next.
LEMMA PadLenIs ==
  ASSUME NEW n \in Nat, NEW r, r = n % SHA_BLOCKSIZE
  PROVE  /\ r + 1 <= SHA_BLOCKSIZE - SHA_LENSIZE
              => PadLen(n) = SHA_BLOCKSIZE - SHA_LENSIZE - 1 - r
         /\ r + 1 > SHA_BLOCKSIZE - SHA_LENSIZE
              => PadLen(n) = 2 * SHA_BLOCKSIZE - SHA_LENSIZE - 1 - r
<1> DEFINE d == n - r
           k == r + 1 + SHA_LENSIZE
<1>1. r \in 0..(SHA_BLOCKSIZE - 1) /\ d \in Nat /\ d % SHA_BLOCKSIZE = 0
  BY WholeBlocks
<1>2. k \in Nat /\ d + k = n + 1 + SHA_LENSIZE
  BY <1>1, Sizes
<1>3. (n + 1 + SHA_LENSIZE) % SHA_BLOCKSIZE = k % SHA_BLOCKSIZE
  <2> HIDE DEF d, k
  <2>1. (d + k) % SHA_BLOCKSIZE = k % SHA_BLOCKSIZE
    BY ONLY <1>1, <1>2, RemainderOfSum, Sizes
  <2> QED
    BY ONLY <1>2, <2>1
<1>4. ASSUME k < SHA_BLOCKSIZE PROVE k % SHA_BLOCKSIZE = k
  <2> HIDE DEF k
  <2>1. k \in 0..(SHA_BLOCKSIZE - 1)
    BY <1>2, <1>4, Sizes
  <2> QED
    BY ONLY <2>1, SmallRemainder
<1>5. ASSUME k >= SHA_BLOCKSIZE, k < 2 * SHA_BLOCKSIZE
      PROVE  k % SHA_BLOCKSIZE = k - SHA_BLOCKSIZE
  <2> HIDE DEF k
  <2>1. PICK q \in Nat, e \in 0..(SHA_BLOCKSIZE - 1) : q = 1 /\ e = k - SHA_BLOCKSIZE
    BY <1>2, <1>5, Sizes
  <2>2. (q * SHA_BLOCKSIZE) + e = k
    BY <1>2, <2>1, Sizes
  <2>3. ((q * SHA_BLOCKSIZE) + e) % SHA_BLOCKSIZE = e
    BY ONLY Remainder, Sizes
  <2> QED
    BY ONLY <2>1, <2>2, <2>3
<1>6. PadLen(n) = IF k % SHA_BLOCKSIZE = 0 THEN 0
                  ELSE SHA_BLOCKSIZE - (k % SHA_BLOCKSIZE)
  BY <1>3 DEF PadLen
<1>7. k < 2 * SHA_BLOCKSIZE /\ k >= 2
  BY <1>1, Sizes
<1> SUFFICES /\ k <= SHA_BLOCKSIZE => PadLen(n) = SHA_BLOCKSIZE - k
             /\ k > SHA_BLOCKSIZE => PadLen(n) = 2 * SHA_BLOCKSIZE - k
  BY <1>1, Sizes
<1> HIDE DEF k
<1> QED
  BY <1>2, <1>4, <1>5, <1>6, <1>7, Sizes

\* Zeros are bytes of zero.
LEMMA ZerosAre ==
  ASSUME NEW T, Byte(0) \in T, NEW p \in Nat
  PROVE  /\ Zeros(p) \in Seq(T) /\ Len(Zeros(p)) = p
         /\ \A i \in 1..p : Zeros(p)[i] = Byte(0)
<1> DEFINE z == Byte(0)
           f == [i \in 1..p |-> z]
<1>1. Zeros(p) = f
  BY DEF Zeros
<1>2. f \in Seq(T) /\ Len(f) = p /\ \A i \in 1..p : f[i] = z
  <2>1. z \in T
    OBVIOUS
  <2> HIDE DEF z
  <2>2. f \in [1..p -> T] /\ \A i \in 1..p : f[i] = z
    BY <2>1
  <2> HIDE DEF f
  <2> QED
    BY <2>2
<1> QED
  BY <1>1, <1>2

\* Zeros after zeros.
LEMMA MoreZeros ==
  ASSUME NEW j \in Nat, NEW k \in Nat
  PROVE  Zeros(j) \o Zeros(k) = Zeros(j + k)
<1> DEFINE T == {Byte(0)}
<1>1. /\ Zeros(j) \in Seq(T) /\ Len(Zeros(j)) = j /\ \A i \in 1..j : Zeros(j)[i] = Byte(0)
      /\ Zeros(k) \in Seq(T) /\ Len(Zeros(k)) = k /\ \A i \in 1..k : Zeros(k)[i] = Byte(0)
  BY ZerosAre
<1>2. /\ Zeros(j + k) \in Seq(T) /\ Len(Zeros(j + k)) = j + k
      /\ \A i \in 1..(j + k) : Zeros(j + k)[i] = Byte(0)
  <2>1. PICK l \in Nat : l = j + k
    OBVIOUS
  <2>2. /\ Zeros(l) \in Seq(T) /\ Len(Zeros(l)) = l
        /\ \A i \in 1..l : Zeros(l)[i] = Byte(0)
    BY ZerosAre
  <2> QED
    BY ONLY <2>1, <2>2
<1> HIDE DEF T
<1>3. PICK a, b : a = Zeros(j) /\ b = Zeros(k)
  OBVIOUS
<1>4. /\ a \in Seq(T) /\ b \in Seq(T) /\ Len(a) = j /\ Len(b) = k
      /\ (\A i \in 1..j : a[i] = Byte(0)) /\ \A i \in 1..k : b[i] = Byte(0)
  BY ONLY <1>1, <1>3
<1>5. /\ a \o b \in Seq(T) /\ Len(a \o b) = j + k
      /\ \A i \in 1..(j + k) : (a \o b)[i] = IF i <= j THEN a[i] ELSE b[i - j]
  BY ONLY <1>4, Cat
<1>6. ASSUME NEW i \in 1..(j + k) PROVE (a \o b)[i] = Zeros(j + k)[i]
  <2>1. CASE i <= j
    <3>1. i \in 1..j
      BY <2>1
    <3> QED
      BY ONLY <1>2, <1>4, <1>5, <2>1, <3>1, i \in 1..(j + k)
  <2>2. CASE ~(i <= j)
    <3>1. i - j \in 1..k
      BY <2>2
    <3> QED
      BY ONLY <1>2, <1>4, <1>5, <2>2, <3>1, i \in 1..(j + k)
  <2> QED
    BY <2>1, <2>2
<1>7. PICK c : c = Zeros(j + k)
  OBVIOUS
<1>8. /\ c \in Seq(T) /\ Len(c) = j + k /\ \A i \in 1..(j + k) : (a \o b)[i] = c[i]
  BY ONLY <1>2, <1>6, <1>7
<1>9. a \o b = c
  BY ONLY <1>5, <1>8, SeqEqual
<1> QED
  BY ONLY <1>3, <1>7, <1>9

\* The length is SHA_LENSIZE bytes.
LEMMA LenBytesAre ==
  ASSUME NEW hi, NEW lo, NEW T,
         \A i \in 1..SHA_LENSIZE : LenByte(hi, lo, i) \in T
  PROVE  LenBytes(hi, lo) \in Seq(T) /\ Len(LenBytes(hi, lo)) = SHA_LENSIZE
<1> DEFINE b(i) == LenByte(hi, lo, i)
           l    == [i \in 1..SHA_LENSIZE |-> b(i)]
<1>1. LenBytes(hi, lo) = l
  BY DEF LenBytes
<1>2. \A i \in 1..SHA_LENSIZE : b(i) \in T
  OBVIOUS
<1> HIDE DEF b
<1>3. l \in [1..SHA_LENSIZE -> T]
  BY <1>2
<1>4. l \in Seq(T) /\ Len(l) = SHA_LENSIZE
  <2> HIDE DEF l
  <2> QED
    BY <1>3, Sizes
<1> QED
  BY ONLY <1>1, <1>4

\* The bytes that sha_final() puts behind a text.
PadBytes(n) == {Byte(0), Byte(128)} \cup
  {LenByte(n \div SHA_WRAP, n % SHA_WRAP, i) : i \in 1..SHA_LENSIZE}

\* One more memcpy() at the end of what is there.
LEMMA Extended ==
  ASSUME NEW S, NEW g, NEW x, NEW at \in Nat, NEW u, NEW t, NEW end,
         g \in Seq(S), x \in Buffers(S), u \in Seq(S), t \in Seq(S),
         g \o First(x, at) = t, end = at + Len(u), end <= SHA_BLOCKSIZE
  PROVE  /\ Copied(x, at, u) \in Buffers(S)
         /\ g \o First(Copied(x, at, u), end) = t \o u
         /\ t \o u \in Seq(S)
<1>1. at + Len(u) <= SHA_BLOCKSIZE
  OBVIOUS
<1>2. g \o First(Copied(x, at, u), at + Len(u)) = (g \o First(x, at)) \o u
  BY ONLY <1>1, Continued, g \in Seq(S), x \in Buffers(S), u \in Seq(S), at \in Nat
<1>3. Copied(x, at, u) \in Buffers(S)
  BY ONLY <1>1, CopiedIs, x \in Buffers(S), u \in Seq(S), at \in Nat
<1>4. t \o u \in Seq(S)
  BY ConcatProperties
<1> QED
  BY <1>2, <1>3, <1>4

\* A block whose beginning, behind what was compressed, ends the text t.
Filled(g, x, at, t, S) ==
  g \in Seq(S) /\ x \in Buffers(S) /\ t \in Seq(S) /\ g \o First(x, at) = t

\* One more memcpy() at the end of what is there.
LEMMA FilledMore ==
  ASSUME NEW S, NEW g, NEW x, NEW at \in Nat, NEW t, NEW u, NEW end,
         Filled(g, x, at, t, S), u \in Seq(S), end = at + Len(u),
         end <= SHA_BLOCKSIZE
  PROVE  Filled(g, Copied(x, at, u), end, t \o u, S)
<1>1. g \in Seq(S) /\ x \in Buffers(S) /\ t \in Seq(S) /\ g \o First(x, at) = t
  BY DEF Filled
<1>2. at + Len(u) <= SHA_BLOCKSIZE
  OBVIOUS
<1>3. g \o First(Copied(x, at, u), at + Len(u)) = (g \o First(x, at)) \o u
  <2>1. g \in Seq(S) /\ x \in Buffers(S) /\ u \in Seq(S) /\ at + Len(u) <= SHA_BLOCKSIZE
    BY <1>1, <1>2
  <2> QED
    BY ONLY <2>1, at \in Nat, Continued, SMT
<1>4. Copied(x, at, u) \in Buffers(S)
  BY ONLY <1>1, <1>2, CopiedIs, u \in Seq(S), at \in Nat
<1>5. t \o u \in Seq(S)
  BY <1>1, ConcatProperties
<1> QED
  BY ONLY <1>1, <1>3, <1>4, <1>5, end = at + Len(u) DEF Filled

\* A full block is the end of the text.
LEMMA FilledUp ==
  ASSUME NEW S, NEW g, NEW x, NEW t, Filled(g, x, SHA_BLOCKSIZE, t, S)
  PROVE  g \o x = t
<1>1. x \in Buffers(S) /\ g \o First(x, SHA_BLOCKSIZE) = t
  BY DEF Filled
<1>2. First(x, SHA_BLOCKSIZE) = x
  BY ONLY <1>1, BlockIsSeq
<1> QED
  BY ONLY <1>1, <1>2

\* A new block adds nothing yet.
LEMMA FilledNone ==
  ASSUME NEW S, NEW g, NEW x, g \in Seq(S), x \in Buffers(S)
  PROVE  Filled(g, x, 0, g, S)
<1>1. First(x, 0) = <<>>
  BY SubSeqEmpty DEF First
<1>2. g \o <<>> = g
  BY ConcatEmptySeq
<1> QED
  BY ONLY <1>1, <1>2, g \in Seq(S), x \in Buffers(S) DEF Filled

\* sha_final() compresses the text padded as FIPS 180 says, in one block or in two.
LEMMA FinalPadded ==
  ASSUME NEW S, NEW info, NEW s, Holds(info, s, S), PadBytes(Len(s)) \subseteq S
  PROVE  /\ sha_final(info) \in Infos(S)
         /\ sha_final(info).count_lo = info.count_lo
         /\ sha_final(info).local = info.local
         /\ sha_final(info).digest = Padded(s)
<1> DEFINE post == sha_final(info)
<1>1. info \in Infos(S) /\ s \in Seq(S) /\ Len(s) \in Nat
  BY DEF Holds
<1>2. PICK n \in Nat : n = Len(s)
  BY <1>1
<1>3. PICK r \in Nat : r = info.local /\ r = n % SHA_BLOCKSIZE /\ r < SHA_BLOCKSIZE
  <2>1. (n % SHA_BLOCKSIZE) \in Nat /\ (n % SHA_BLOCKSIZE) < SHA_BLOCKSIZE
    <3>1. (n % SHA_BLOCKSIZE) \in 0..(SHA_BLOCKSIZE - 1)
      BY ONLY WholeBlocks
    <3> QED
      BY ONLY <3>1, Sizes
  <2> QED
    BY <1>2, <2>1 DEF Holds
<1>4. PICK g : g \in Seq(S) /\ g = info.digest
  BY <1>1 DEF Infos
<1>5. PICK x : x \in Buffers(S) /\ x = info.data
  BY <1>1 DEF Infos
<1>6. g \o First(x, r) = s
  BY <1>3, <1>4, <1>5 DEF Holds
<1>7. PICK hi, lo : /\ hi = info.count_hi /\ lo = info.count_lo
                    /\ hi = n \div SHA_WRAP /\ lo = n % SHA_WRAP
  BY <1>2 DEF Holds, Counts
<1>8. lo % SHA_BLOCKSIZE = r
  <2>1. (n % SHA_WRAP) % SHA_BLOCKSIZE = n % SHA_BLOCKSIZE
    BY ONLY RemainderTwice, Sizes
  <2> QED
    BY ONLY <1>3, <1>7, <2>1
<1>9. PICK room \in Nat : room = SHA_BLOCKSIZE - SHA_LENSIZE
  BY Sizes
<1>10. room + SHA_LENSIZE = SHA_BLOCKSIZE /\ room < SHA_BLOCKSIZE
  BY <1>9, Sizes
<1>11. /\ r + 1 <= room => PadLen(n) = room - 1 - r
       /\ r + 1 > room => PadLen(n) = SHA_BLOCKSIZE + room - 1 - r
  <2>1. /\ r + 1 <= SHA_BLOCKSIZE - SHA_LENSIZE
              => PadLen(n) = SHA_BLOCKSIZE - SHA_LENSIZE - 1 - r
        /\ r + 1 > SHA_BLOCKSIZE - SHA_LENSIZE
              => PadLen(n) = 2 * SHA_BLOCKSIZE - SHA_LENSIZE - 1 - r
    BY ONLY <1>3, PadLenIs
  <2> QED
    BY <1>9, <2>1, Sizes
<1>12. PICK p \in Nat : p = PadLen(n)
  BY <1>3, <1>11, Sizes
<1>13. PICK m, l : /\ m = <<Byte(128)>> /\ m \in Seq(S) /\ Len(m) = 1
                   /\ l = LenBytes(hi, lo) /\ l \in Seq(S) /\ Len(l) = SHA_LENSIZE
  <2>1. Byte(128) \in S /\ \A i \in 1..SHA_LENSIZE : LenByte(hi, lo, i) \in S
    BY <1>2, <1>7 DEF PadBytes
  <2>2. LenBytes(hi, lo) \in Seq(S) /\ Len(LenBytes(hi, lo)) = SHA_LENSIZE
    BY ONLY <2>1, LenBytesAre
  <2>3. <<Byte(128)>> \in Seq(S) /\ Len(<<Byte(128)>>) = 1
    BY <2>1
  <2> QED
    BY ONLY <2>2, <2>3
<1>14. Byte(0) \in S
  BY DEF PadBytes
<1>15. Padded(s) = ((s \o m) \o Zeros(p)) \o l
  BY ONLY <1>2, <1>7, <1>12, <1>13 DEF Padded, PadLen
<1>16. PICK q \in Nat : q = r + 1
  OBVIOUS
<1>17. PICK marked : marked = Copied(x, r, m) /\ Filled(g, marked, q, s \o m, S)
  <2>1. q = r + Len(m) /\ q <= SHA_BLOCKSIZE
    BY <1>3, <1>16, <1>13, Sizes
  <2>2. Filled(g, x, r, s, S) /\ m \in Seq(S)
    BY ONLY <1>6, <1>1, <1>4, <1>5, <1>13 DEF Filled
  <2>3. Filled(g, Copied(x, r, m), q, s \o m, S)
    BY ONLY <2>1, <2>2, r \in Nat, FilledMore
  <2> QED
    BY ONLY <2>3
<1>18. CASE q <= room
  <2>1. PICK z : z = Zeros(p) /\ z \in Seq(S) /\ Len(z) = p
    BY <1>14, ZerosAre
  <2>2. PICK y : y = Copied(marked, q, z) /\ Filled(g, y, room, (s \o m) \o z, S)
    <3>1. room = q + Len(z) /\ room <= SHA_BLOCKSIZE
      BY <1>11, <1>12, <1>18, <1>10, <1>16, <2>1, Sizes
    <3>2. Filled(g, Copied(marked, q, z), room, (s \o m) \o z, S)
      BY ONLY <3>1, <1>17, <2>1, q \in Nat, FilledMore
    <3> QED
      BY ONLY <3>2
  <2>3. PICK f : f = Copied(y, room, l) /\ Filled(g, f, SHA_BLOCKSIZE, Padded(s), S)
    <3>1. SHA_BLOCKSIZE = room + Len(l) /\ SHA_BLOCKSIZE <= SHA_BLOCKSIZE
      BY <1>13, <1>10, Sizes
    <3>2. Filled(g, Copied(y, room, l), SHA_BLOCKSIZE, ((s \o m) \o z) \o l, S)
      BY ONLY <3>1, <1>13, <2>2, room \in Nat, FilledMore
    <3> QED
      BY ONLY <1>15, <2>1, <3>2
  <2>4. /\ f \in Buffers(S) /\ g \o f = Padded(s) /\ Padded(s) \in Seq(S)
    BY ONLY <2>3, FilledUp DEF Filled
  <2>5. post = [info EXCEPT !.digest = g \o f, !.data = f]
    <3>1. z = Zeros(room - r - 1)
      <4>1. p = room - r - 1
        BY <1>11, <1>12, <1>18, <1>16
      <4> QED
        BY ONLY <2>1, <4>1
    <3>2. f = Copied(Copied(Copied(info.data, info.count_lo % SHA_BLOCKSIZE,
                                   <<Byte(128)>>),
                            (info.count_lo % SHA_BLOCKSIZE) + 1, Zeros(room - r - 1)),
                     room, LenBytes(info.count_hi, info.count_lo))
      BY ONLY <1>3, <1>5, <1>7, <1>8, <1>16, <1>13, <1>17, <2>2, <2>3, <3>1
    <3>3. post = sha_transform([info EXCEPT !.data = f])
      <4>1. ~((info.count_lo % SHA_BLOCKSIZE) + 1 > room)
        BY <1>18, <1>16, <1>7, <1>8
      <4>2. info.count_lo % SHA_BLOCKSIZE = r
        BY <1>7, <1>8
      <4> QED
        BY ONLY <1>9, <3>2, <4>1, <4>2 DEF sha_final
    <3> HIDE DEF post
    <3> QED
      BY ONLY <1>1, <1>4, <2>4, <3>3 DEF sha_transform, Infos
  <2>6. PICK d : d = g \o f /\ d \in Seq(S) /\ d = Padded(s)
    BY ONLY <2>4
  <2>7. PICK fin : fin = post
    OBVIOUS
  <2> HIDE DEF post
  <2>8. fin = [info EXCEPT !.digest = d, !.data = f]
    BY ONLY <2>5, <2>6, <2>7
  <2>9. fin \in Infos(S) /\ fin.local = info.local /\ fin.digest = d
        /\ fin.count_lo = info.count_lo
    BY ONLY <1>1, <2>4, <2>6, <2>8 DEF Infos
  <2> QED
    BY ONLY <2>6, <2>7, <2>9 DEF post
<1>19. CASE q > room
  <2>1. PICK j \in Nat : j = SHA_BLOCKSIZE - r - 1
    <3>1. SHA_BLOCKSIZE - r - 1 \in Nat
      BY <1>3, Sizes
    <3> QED
      BY ONLY <3>1
  <2>2. j + room = p
    BY <1>3, <1>10, <1>11, <1>12, <1>19, <1>16, <2>1, Sizes
  <2>3. PICK z, e : /\ z = Zeros(j) /\ z \in Seq(S) /\ Len(z) = j
                    /\ e = Zeros(room) /\ e \in Seq(S) /\ Len(e) = room
    BY <1>14, ZerosAre
  <2>4. PICK y : /\ y = Copied(marked, q, z)
                 /\ Filled(g, y, SHA_BLOCKSIZE, (s \o m) \o z, S)
    <3>1. SHA_BLOCKSIZE = q + Len(z) /\ SHA_BLOCKSIZE <= SHA_BLOCKSIZE
      BY <1>3, <1>16, <2>1, <2>3, Sizes
    <3>2. Filled(g, Copied(marked, q, z), SHA_BLOCKSIZE, (s \o m) \o z, S)
      BY ONLY <3>1, <1>17, <2>3, q \in Nat, FilledMore
    <3> QED
      BY ONLY <3>2
  <2>5. PICK h : h = g \o y /\ h = (s \o m) \o z /\ h \in Seq(S) /\ y \in Buffers(S)
    <3>1. g \o y = (s \o m) \o z
      BY ONLY <2>4, FilledUp
    <3>2. (s \o m) \o z \in Seq(S) /\ y \in Buffers(S)
      BY ONLY <2>4 DEF Filled
    <3> QED
      BY ONLY <3>1, <3>2
  <2>6. PICK w : w = Copied(y, 0, e) /\ Filled(h, w, room, h \o e, S)
    <3>1. Filled(h, y, 0, h, S)
      BY ONLY <2>5, FilledNone
    <3>2. room = 0 + Len(e) /\ room <= SHA_BLOCKSIZE /\ 0 \in Nat
      BY <1>10, <2>3, Sizes
    <3>3. Filled(h, Copied(y, 0, e), room, h \o e, S)
      BY ONLY <3>1, <3>2, <2>3, FilledMore
    <3> QED
      BY ONLY <3>3
  <2>7. PICK f : f = Copied(w, room, l) /\ Filled(h, f, SHA_BLOCKSIZE, (h \o e) \o l, S)
    <3>1. SHA_BLOCKSIZE = room + Len(l) /\ SHA_BLOCKSIZE <= SHA_BLOCKSIZE
      BY <1>13, <1>10, Sizes
    <3>2. Filled(h, Copied(w, room, l), SHA_BLOCKSIZE, (h \o e) \o l, S)
      BY ONLY <3>1, <1>13, <2>6, room \in Nat, FilledMore
    <3> QED
      BY ONLY <3>2
  <2>8. h \o e = (s \o m) \o Zeros(p)
    <3>1. PICK t : t = s \o m
      OBVIOUS
    <3>2. t \in Seq(S) /\ z \in Seq(S) /\ e \in Seq(S)
      BY <1>17, <2>3, <3>1 DEF Filled
    <3>3. (t \o z) \o e = t \o (z \o e)
      <4>1. Joined(Joined(t, z), e) = Joined(t, Joined(z, e))
        BY ONLY <3>2, Assoc
      <4> QED
        BY ONLY <4>1 DEF Joined
    <3>4. Zeros(j) \o Zeros(room) = Zeros(j + room)
      BY MoreZeros
    <3> QED
      BY ONLY <2>2, <2>3, <2>5, <3>1, <3>3, <3>4
  <2>9. h \o f = Padded(s)
    <3>1. h \o f = (h \o e) \o l
      BY ONLY <2>7, FilledUp
    <3> QED
      BY ONLY <1>15, <2>8, <3>1
  <2>10. f \in Buffers(S) /\ h \o f \in Seq(S)
    <3>1. f \in Buffers(S) /\ (h \o e) \o l \in Seq(S)
      BY ONLY <2>7 DEF Filled
    <3> QED
      BY ONLY <2>7, <3>1, FilledUp
  <2>11. post = [info EXCEPT !.digest = h \o f, !.data = f]
    <3> DEFINE full  == [info EXCEPT !.data = y]
               ended == sha_transform(full)
    <3>1. y = Copied(Copied(info.data, info.count_lo % SHA_BLOCKSIZE, <<Byte(128)>>),
                     (info.count_lo % SHA_BLOCKSIZE) + 1,
                     Zeros(SHA_BLOCKSIZE - (info.count_lo % SHA_BLOCKSIZE) - 1))
      BY ONLY <1>5, <1>7, <1>8, <1>13, <1>17, <1>16, <2>1, <2>3, <2>4
    <3>2. ended = [info EXCEPT !.data = y, !.digest = h] /\ ended.data = y
          /\ ended.digest = h
      BY ONLY <1>1, <1>4, <2>5 DEF sha_transform, Infos
    <3>3. post = sha_transform([ended EXCEPT !.data =
                   Copied(Copied(ended.data, 0, Zeros(room)), room,
                          LenBytes(info.count_hi, info.count_lo))])
      <4>1. (info.count_lo % SHA_BLOCKSIZE) + 1 > room
        BY <1>19, <1>16, <1>7, <1>8
      <4> QED
        BY ONLY <1>9, <3>1, <4>1 DEF sha_final
    <3> HIDE DEF full, ended, post
    <3>4. post = sha_transform([ended EXCEPT !.data = f])
      BY ONLY <1>7, <1>13, <2>3, <2>6, <2>7, <3>2, <3>3
    <3> QED
      BY ONLY <1>1, <2>10, <3>2, <3>4 DEF sha_transform, Infos
  <2>12. PICK d : d = h \o f /\ d \in Seq(S) /\ d = Padded(s)
    BY ONLY <2>10, <2>9
  <2>13. PICK fin : fin = post
    OBVIOUS
  <2> HIDE DEF post
  <2>14. fin = [info EXCEPT !.digest = d, !.data = f]
    BY ONLY <2>11, <2>12, <2>13
  <2>15. fin \in Infos(S) /\ fin.local = info.local /\ fin.digest = d
        /\ fin.count_lo = info.count_lo
    BY ONLY <1>1, <2>10, <2>12, <2>14 DEF Infos
  <2> QED
    BY ONLY <2>12, <2>13, <2>15 DEF post
<1> QED
  <2>1. q <= room \/ q > room
    OBVIOUS
  <2> QED
    BY ONLY <2>1, <1>3, <1>18, <1>19

\* More bytes to choose from change nothing.
LEMMA HoldsMore ==
  ASSUME NEW S, NEW T, S \subseteq T
  PROVE  /\ Buffers(S) \subseteq Buffers(T)
         /\ Infos(S) \subseteq Infos(T)
         /\ \A info, s : Holds(info, s, S) => Holds(info, s, T)
<1>1. Seq(S) \subseteq Seq(T)
  <2> SUFFICES ASSUME NEW x \in Seq(S) PROVE x \in Seq(T)
    OBVIOUS
  <2>1. Len(x) \in Nat /\ x \in [1..Len(x) -> T]
    OBVIOUS
  <2> QED
    BY <2>1
<1>2. Buffers(S) \subseteq Buffers(T)
  BY DEF Buffers
<1>3. Infos(S) \subseteq Infos(T)
  BY ONLY <1>1, <1>2 DEF Infos
<1>4. ASSUME NEW info, NEW s, Holds(info, s, S) PROVE Holds(info, s, T)
  BY ONLY <1>1, <1>3, <1>4 DEF Holds
<1> QED
  BY <1>2, <1>3, <1>4

\* The ranges of the counters, and what they count.
LEMMA SmallCounters ==
  ASSUME NEW S, NEW info, NEW s, Holds(info, s, S)
  PROVE  /\ info.local \in 0..(SHA_BLOCKSIZE - 1)
         /\ info.count_lo \in 0..(SHA_WRAP - 1)
         /\ info.count_hi * SHA_WRAP + info.count_lo = Len(s)
<1>1. PICK n \in Nat : n = Len(s)
  <2>1. s \in Seq(S)
    BY DEF Holds
  <2>2. Len(s) \in Nat
    BY ONLY <2>1
  <2> QED
    BY ONLY <2>2
<1>2. (n % SHA_BLOCKSIZE) \in 0..(SHA_BLOCKSIZE - 1)
  BY ONLY WholeBlocks
<1>3. /\ (n % SHA_WRAP) \in 0..(SHA_WRAP - 1)
      /\ n = ((n \div SHA_WRAP) * SHA_WRAP) + (n % SHA_WRAP)
  BY ONLY Division, Sizes
<1>4. /\ info.local = n % SHA_BLOCKSIZE /\ info.count_lo = n % SHA_WRAP
      /\ info.count_hi = n \div SHA_WRAP
  BY ONLY <1>1, Holds(info, s, S) DEF Holds, Counts
<1> QED
  BY ONLY <1>1, <1>2, <1>3, <1>4

\* A key's block goes in first.
LEMMA PadHolds ==
  ASSUME NEW S, NEW info, NEW pad, info \in Infos(S), pad \in Buffers(S)
  PROVE  Holds(sha_update(sha_init(info), pad), pad, S)
<1>1. Holds(sha_init(info), <<>>, S)
  BY InitHolds
<1>2. pad \in Seq(S)
  BY BlockIsSeq
<1>3. PICK e, i : e = <<>> /\ i = sha_init(info)
  OBVIOUS
<1>4. Holds(i, e, S)
  BY ONLY <1>1, <1>3
<1>5. Holds(sha_update(i, pad), e \o pad, S)
  BY ONLY <1>2, <1>4, UpdateHolds
<1>6. <<>> \o pad = pad
  BY <1>2, ConcatEmptySeq
<1> QED
  BY ONLY <1>3, <1>5, <1>6

\* FinalPadded, with the bytes of the padding added to those of the text.
LEMMA UpToEnd ==
  ASSUME NEW S, NEW info, NEW s, Holds(info, s, S)
  PROVE  /\ sha_final(info) \in Infos(S \cup PadBytes(Len(s)))
         /\ sha_final(info).local = info.local
         /\ sha_final(info).count_lo = info.count_lo
         /\ sha_final(info).digest = Padded(s)
<1>1. PICK T : T = S \cup PadBytes(Len(s))
  OBVIOUS
<1>2. S \subseteq T /\ PadBytes(Len(s)) \subseteq T
  BY <1>1
<1>3. Holds(info, s, T)
  BY ONLY <1>2, HoldsMore, Holds(info, s, S)
<1>4. /\ sha_final(info) \in Infos(T)
      /\ sha_final(info).count_lo = info.count_lo
      /\ sha_final(info).local = info.local
      /\ sha_final(info).digest = Padded(s)
  BY ONLY <1>2, <1>3, FinalPadded
<1> QED
  BY ONLY <1>1, <1>4

\* SHA-1 of a text in one piece is what FIPS 180 says: it compresses the padded
\* text and nothing else, for every length (sha_digest()).
THEOREM DigestIsPadded ==
  ASSUME NEW S, NEW data, data \in Seq(S)
  PROVE  sha_digest(data) = Padded(data)
<1>1. PICK T : T = S \cup {Stack(i) : i \in 1..SHA_BLOCKSIZE}
  OBVIOUS
<1>2. PICK u : u = Uninitialised
  OBVIOUS
<1>3. u \in Infos(T)
  <2> DEFINE a(i) == Stack(i)
             x == [i \in 1..SHA_BLOCKSIZE |-> a(i)]
             e == <<>>
  <2>1. \A i \in 1..SHA_BLOCKSIZE : a(i) \in T
    BY <1>1
  <2>2. u = [digest |-> e, count_lo |-> 0, count_hi |-> 0, local |-> 0, data |-> x]
    BY <1>2 DEF Uninitialised
  <2>3. e \in Seq(T)
    OBVIOUS
  <2> HIDE DEF a, e
  <2>4. x \in Buffers(T)
    BY <2>1 DEF Buffers
  <2> HIDE DEF x
  <2> QED
    BY ONLY <2>2, <2>3, <2>4 DEF Infos
<1>4. data \in Seq(T)
  <2>1. Len(data) \in Nat /\ data \in [1..Len(data) -> T]
    BY <1>1
  <2> QED
    BY <2>1
<1>5. PICK e, i : e = <<>> /\ i = sha_init(u)
  OBVIOUS
<1>6. Holds(i, e, T)
  BY ONLY <1>3, <1>5, InitHolds
<1>7. PICK f : f = sha_update(i, data) /\ Holds(f, e \o data, T)
  <2>1. Holds(sha_update(i, data), e \o data, T)
    BY ONLY <1>4, <1>6, UpdateHolds
  <2> QED
    BY ONLY <2>1
<1>8. e \o data = data
  BY <1>4, <1>5, ConcatEmptySeq
<1>9. Holds(f, data, T)
  BY ONLY <1>7, <1>8
<1>10. sha_final(f).digest = Padded(data)
  BY ONLY <1>9, UpToEnd
<1> QED
  BY ONLY <1>2, <1>5, <1>7, <1>10 DEF sha_digest

\* The second digest, over the other pad and the first.
LEMMA OuterDigest ==
  ASSUME NEW S, NEW info, NEW s, Holds(info, s, S), NEW opad, opad \in Buffers(S),
         NEW inner, inner = sha_final(info),
         NEW outer,
         outer = sha_final(sha_update(sha_update(sha_init(inner), opad),
                                      DigestBytes(inner.digest, 0)))
  PROVE  /\ \E T : S \subseteq T /\ outer \in Infos(T)
         /\ outer.local \in 0..(SHA_BLOCKSIZE - 1)
         /\ outer.count_lo \in 0..(SHA_WRAP - 1)
         /\ outer.digest = Padded(opad \o DigestBytes(Padded(s), 0))
<1>1. PICK d : d = DigestBytes(inner.digest, 0)
  OBVIOUS
<1>2. PICK V : d \in Seq(V)
  <2> DEFINE b(i) == DigestByte(inner.digest, 0, i)
  <2>1. d = [i \in 1..SHA_DIGESTSIZE |-> b(i)]
    BY <1>1 DEF DigestBytes
  <2>2. PICK V : V = {b(i) : i \in 1..SHA_DIGESTSIZE}
    OBVIOUS
  <2>3. \A i \in 1..SHA_DIGESTSIZE : b(i) \in V
    BY <2>2
  <2> HIDE DEF b
  <2>4. d \in [1..SHA_DIGESTSIZE -> V]
    BY <2>1, <2>3
  <2>5. d \in Seq(V)
    BY ONLY <2>4, Sizes
  <2> QED
    BY <2>5
<1>3. inner.digest = Padded(s) /\ inner \in Infos(S \cup PadBytes(Len(s)))
  BY ONLY UpToEnd, Holds(info, s, S), inner = sha_final(info)
<1>4. PICK T : T = (S \cup PadBytes(Len(s))) \cup V
  OBVIOUS
<1>5. inner \in Infos(T) /\ opad \in Buffers(T)
  <2>1. S \cup PadBytes(Len(s)) \subseteq T /\ S \subseteq T
    BY <1>4
  <2> QED
    BY ONLY <1>3, <2>1, HoldsMore, opad \in Buffers(S)
<1>6. d \in Seq(T)
  <2>1. V \subseteq T
    BY <1>4
  <2>2. Len(d) \in Nat /\ d \in [1..Len(d) -> T]
    BY <1>2, <2>1
  <2> QED
    BY <2>2
<1>7. PICK f : f = sha_update(sha_init(inner), opad) /\ Holds(f, opad, T)
  <2>1. Holds(sha_update(sha_init(inner), opad), opad, T)
    BY ONLY <1>5, PadHolds
  <2> QED
    BY ONLY <2>1
<1>8. PICK h, t : h = sha_update(f, d) /\ t = opad \o d /\ Holds(h, t, T)
  <2>1. Holds(sha_update(f, d), opad \o d, T)
    BY ONLY <1>6, <1>7, UpdateHolds
  <2> QED
    BY ONLY <2>1
<1>9. outer = sha_final(h)
  BY <1>1, <1>7, <1>8
<1>10. /\ outer \in Infos(T \cup PadBytes(Len(t)))
       /\ outer.local = h.local
       /\ outer.count_lo = h.count_lo
       /\ outer.digest = Padded(t)
  BY ONLY <1>8, <1>9, UpToEnd
<1>11. h.local \in 0..(SHA_BLOCKSIZE - 1) /\ h.count_lo \in 0..(SHA_WRAP - 1)
  BY ONLY <1>8, SmallCounters
<1>12. \E U : S \subseteq U /\ outer \in Infos(U)
  <2>1. S \subseteq T \cup PadBytes(Len(t))
    BY <1>4
  <2> QED
    BY ONLY <1>10, <2>1
<1>13. t = opad \o DigestBytes(Padded(s), 0)
  BY <1>1, <1>3, <1>8
<1> QED
  BY ONLY <1>10, <1>11, <1>12, <1>13

\* A srs_hmac_ctx_t with bytes in S.
Contexts(S) == [sctx : Infos(S), ipad : Buffers(S), opad : Buffers(S)]

\* The key that the digests start from.
Key == IF Len(secret) > SHA_BLOCKSIZE THEN DigestBytes(Padded(secret), zero)
       ELSE secret

\* No zero byte cuts the key short.
Whole == Len(secret) <= SHA_BLOCKSIZE \/ zero = 0

\* The inductive invariant: between srs_hmac_init() and srs_hmac_fini() the text
\* hashed is the inner pad and what the caller gave, and the pads are those of the
\* key that HMAC defines.  In every other state the context can hold anything a
\* call before has left in it.
HashInv ==
  /\ pc \in {"idle", "keyed", "done"}
  /\ ctx.sctx.local \in 0..(SHA_BLOCKSIZE - 1)
  /\ ctx.sctx.count_lo \in 0..(SHA_WRAP - 1)
  /\ \E S : /\ ctx \in Contexts(S)
            /\ pc = "keyed" => /\ text \in Seq(S)
                               /\ Holds(ctx.sctx, ctx.ipad \o text, S)
  /\ pc = "keyed" /\ Whole => /\ ctx.ipad = PadOf("ipad", Key, Len(Key))
                              /\ ctx.opad = PadOf("opad", Key, Len(Key))
  /\ pc = "done" /\ Whole => out = HMAC

\* A pad is a block.
LEMMA PadIsBuffer ==
  ASSUME NEW which, NEW key, NEW len
  PROVE  \E S : PadOf(which, key, len) \in Buffers(S)
<1> DEFINE b(i) == Pad(which, IF i <= len THEN key[i] ELSE Byte(0))
           S == {b(i) : i \in 1..SHA_BLOCKSIZE}
<1>1. PadOf(which, key, len) = [i \in 1..SHA_BLOCKSIZE |-> b(i)]
  BY DEF PadOf
<1>2. \A i \in 1..SHA_BLOCKSIZE : b(i) \in S
  OBVIOUS
<1> HIDE DEF b, S
<1> QED
  BY <1>1, <1>2 DEF Buffers

\* Secrets and strings are texts.
LEMMA ByteSeq ==
  ASSUME NEW len \in Nat, NEW from
  PROVE  /\ \E S : [i \in 1..len |-> Byte(from + i)] \in Seq(S)
         /\ Len([i \in 1..len |-> Byte(from + i)]) = len
<1> DEFINE b(i) == Byte(from + i)
           S == {b(i) : i \in 1..len}
           x == [i \in 1..len |-> b(i)]
<1>1. \A i \in 1..len : b(i) \in S
  OBVIOUS
<1> HIDE DEF b, S
<1>2. x \in [1..len -> S]
  BY <1>1
<1> HIDE DEF x
<1>3. x \in Seq(S) /\ Len(x) = len
  BY <1>2
<1> QED
  BY <1>3 DEF x, b

\* The initial states.
LEMMA InitInv == HashInit => HashInv
<1> SUFFICES ASSUME HashInit PROVE HashInv
  OBVIOUS
<1> USE DEF HashInit, Init
<1>1. PICK S : S = {Stack(i) : i \in 1..SHA_BLOCKSIZE}
  OBVIOUS
<1>2. PICK u : u = Uninitialised
  OBVIOUS
<1>3. u \in Infos(S) /\ u.data \in Buffers(S) /\ u.local = 0 /\ u.count_lo = 0
  <2> DEFINE a(i) == Stack(i)
             x == [i \in 1..SHA_BLOCKSIZE |-> a(i)]
             e == <<>>
  <2>1. \A i \in 1..SHA_BLOCKSIZE : a(i) \in S
    BY <1>1
  <2>2. u = [digest |-> e, count_lo |-> 0, count_hi |-> 0, local |-> 0, data |-> x]
    BY <1>2 DEF Uninitialised
  <2>3. e \in Seq(S)
    OBVIOUS
  <2> HIDE DEF a, e
  <2>4. x \in Buffers(S)
    BY <2>1 DEF Buffers
  <2> HIDE DEF x
  <2> QED
    BY ONLY <2>2, <2>3, <2>4 DEF Infos
<1>4. ctx \in Contexts(S) /\ ctx.sctx = u
  BY ONLY <1>2, <1>3, HashInit DEF Contexts, HashInit, Init
<1>5. 0 \in 0..(SHA_BLOCKSIZE - 1) /\ 0 \in 0..(SHA_WRAP - 1)
  BY Sizes
<1>6. pc = "idle"
  OBVIOUS
<1> QED
  BY ONLY <1>3, <1>4, <1>5, <1>6 DEF HashInv

\* srs_hmac_init() on a context used before, with a short or a long secret.
LEMMA BeginInv ==
  ASSUME HashInv, NEW len \in SecretLens, NEW z \in ZeroBytes, srs_hmac_init(len, z)
  PROVE  HashInv'
<1>1. PICK S : ctx \in Contexts(S)
  BY DEF HashInv
<1>2. len \in Nat /\ z \in 0..SHA_DIGESTSIZE
  BY LensAssumption
<1>3. PICK sec, U : sec = Secret(len) /\ sec \in Seq(U) /\ Len(sec) = len
  <2>1. PICK from : from = 1000
    OBVIOUS
  <2>2. \E U : [i \in 1..len |-> Byte(from + i)] \in Seq(U)
    BY ONLY <1>2, ByteSeq
  <2>3. Len([i \in 1..len |-> Byte(from + i)]) = len
    BY ONLY <1>2, ByteSeq
  <2>4. Secret(len) = [i \in 1..len |-> Byte(from + i)]
    BY ONLY <2>1 DEF Secret
  <2> QED
    BY ONLY <2>2, <2>3, <2>4
<1>4. PICK key, keylen :
        /\ key = IF len > SHA_BLOCKSIZE THEN DigestBytes(sha_digest(sec), z) ELSE sec
        /\ keylen = IF len > SHA_BLOCKSIZE THEN strlen_sbuf(z) ELSE len
  OBVIOUS
<1>5. PICK ipad, opad : /\ ipad = PadOf("ipad", key, keylen)
                        /\ opad = PadOf("opad", key, keylen)
  OBVIOUS
<1>6. PICK T : S \subseteq T /\ ipad \in Buffers(T) /\ opad \in Buffers(T)
  <2>1. PICK A, B : ipad \in Buffers(A) /\ opad \in Buffers(B)
    BY ONLY <1>5, PadIsBuffer
  <2>2. PICK T : T = S \cup (A \cup B)
    OBVIOUS
  <2>3. S \subseteq T /\ A \subseteq T /\ B \subseteq T
    BY <2>2
  <2> QED
    BY ONLY <2>1, <2>3, HoldsMore
<1>7. PICK old : old = ctx.sctx /\ old \in Infos(T)
  <2>1. ctx.sctx \in Infos(S)
    BY <1>1 DEF Contexts
  <2> QED
    BY ONLY <1>6, <2>1, HoldsMore
<1>8. PICK new : new = sha_update(sha_init(old), ipad) /\ Holds(new, ipad, T)
  <2>1. Holds(sha_update(sha_init(old), ipad), ipad, T)
    BY ONLY <1>6, <1>7, PadHolds
  <2> QED
    BY ONLY <2>1
<1>9. /\ ctx' = [sctx |-> new, ipad |-> ipad, opad |-> opad]
      /\ secret' = sec /\ zero' = z /\ text' = <<>> /\ pc' = "keyed"
  BY ONLY <1>3, <1>4, <1>5, <1>7, <1>8, srs_hmac_init(len, z) DEF srs_hmac_init
<1>10. /\ ctx'.sctx = new /\ ctx'.ipad = ipad /\ ctx'.opad = opad
  BY ONLY <1>9
<1>11. new.local \in 0..(SHA_BLOCKSIZE - 1) /\ new.count_lo \in 0..(SHA_WRAP - 1)
  BY ONLY <1>8, SmallCounters
<1>12. ctx' \in Contexts(T)
  <2>1. new \in Infos(T)
    BY ONLY <1>8 DEF Holds
  <2> QED
    BY ONLY <1>6, <1>9, <2>1 DEF Contexts
<1>13. text' \in Seq(T) /\ Holds(ctx'.sctx, ctx'.ipad \o text', T)
  <2>1. <<>> \in Seq(T)
    OBVIOUS
  <2>2. ipad \in Seq(T)
    BY ONLY <1>6, BlockIsSeq
  <2>3. ipad \o <<>> = ipad
    BY ONLY <2>2, ConcatEmptySeq
  <2> QED
    BY ONLY <1>8, <1>9, <1>10, <2>1, <2>3
<1>14. ASSUME Whole'
       PROVE  /\ ctx'.ipad = PadOf("ipad", Key', Len(Key'))
              /\ ctx'.opad = PadOf("opad", Key', Len(Key'))
  <2>1. Key' = IF len > SHA_BLOCKSIZE THEN DigestBytes(Padded(sec), z) ELSE sec
    BY ONLY <1>3, <1>9 DEF Key
  <2>2. sha_digest(sec) = Padded(sec)
    BY ONLY <1>3, DigestIsPadded
  <2>3. Key' = key
    BY ONLY <1>4, <2>1, <2>2
  <2>4. Len(key) = keylen
    <3>1. CASE len > SHA_BLOCKSIZE
      <4>1. z = 0
        <5>1. Len(sec) <= SHA_BLOCKSIZE \/ z = 0
          BY ONLY <1>9, <1>14 DEF Whole
        <5>2. ~(len <= SHA_BLOCKSIZE)
          BY <1>2, <3>1, Sizes
        <5> QED
          BY ONLY <1>3, <5>1, <5>2
      <4>2. keylen = SHA_DIGESTSIZE
        BY ONLY <1>4, <3>1, <4>1 DEF strlen_sbuf
      <4>3. PICK d : d = sha_digest(sec)
        OBVIOUS
      <4>4. key = DigestBytes(d, z)
        BY ONLY <1>4, <3>1, <4>3
      <4>5. Len(DigestBytes(d, z)) = SHA_DIGESTSIZE
        <5> DEFINE b(i) == DigestByte(d, z, i)
        <5>1. DigestBytes(d, z) = [i \in 1..SHA_DIGESTSIZE |-> b(i)]
          BY DEF DigestBytes
        <5> HIDE DEF b
        <5>2. Len([i \in 1..SHA_DIGESTSIZE |-> b(i)]) = SHA_DIGESTSIZE
          BY ONLY Sizes
        <5> QED
          BY ONLY <5>1, <5>2
      <4> QED
        BY ONLY <4>2, <4>4, <4>5
    <3>2. CASE ~(len > SHA_BLOCKSIZE)
      BY ONLY <1>3, <1>4, <3>2
    <3> QED
      BY ONLY <3>1, <3>2
  <2> QED
    BY ONLY <1>5, <1>10, <2>3, <2>4
<1>15. pc' = "keyed"
  BY <1>9
<1> QED
  BY ONLY <1>10, <1>11, <1>12, <1>13, <1>14, <1>15 DEF HashInv

\* srs_hmac_update().
LEMMA UpdateInv ==
  ASSUME HashInv, NEW len \in ChunkLens, srs_hmac_update(len)
  PROVE  HashInv'
<1>1. pc = "keyed"
  BY DEF srs_hmac_update
<1>2. PICK S : /\ ctx \in Contexts(S) /\ text \in Seq(S)
               /\ Holds(ctx.sctx, ctx.ipad \o text, S)
  BY ONLY <1>1, HashInv DEF HashInv
<1>3. PICK old, ipad, opad, t :
        /\ old = ctx.sctx /\ ipad = ctx.ipad /\ opad = ctx.opad /\ t = text
        /\ ipad \in Buffers(S) /\ opad \in Buffers(S) /\ t \in Seq(S)
        /\ Holds(old, ipad \o t, S)
  BY ONLY <1>2 DEF Contexts
<1>4. PICK b, U : b = Chunk(len) /\ b \in Seq(U)
  <2>1. len \in Nat
    BY LensAssumption
  <2>2. PICK from : from = Len(t)
    OBVIOUS
  <2>3. \E U : [i \in 1..len |-> Byte(from + i)] \in Seq(U)
    BY ONLY <2>1, ByteSeq
  <2>4. Chunk(len) = [i \in 1..len |-> Byte(from + i)]
    BY ONLY <1>3, <2>2 DEF Chunk
  <2> QED
    BY ONLY <2>3, <2>4
<1>5. PICK T : S \subseteq T /\ U \subseteq T
  <2>1. S \subseteq S \cup U /\ U \subseteq S \cup U
    OBVIOUS
  <2> QED
    BY ONLY <2>1
<1>6. /\ ipad \in Buffers(T) /\ opad \in Buffers(T) /\ Holds(old, ipad \o t, T)
  BY ONLY <1>3, <1>5, HoldsMore
<1>7. t \in Seq(T) /\ b \in Seq(T)
  <2>1. Len(t) \in Nat /\ t \in [1..Len(t) -> T]
    BY <1>3, <1>5
  <2>2. Len(b) \in Nat /\ b \in [1..Len(b) -> T]
    BY <1>4, <1>5
  <2> QED
    BY ONLY <2>1, <2>2
<1>8. PICK new : new = sha_update(old, b) /\ Holds(new, (ipad \o t) \o b, T)
  <2>1. Holds(sha_update(old, b), (ipad \o t) \o b, T)
    BY ONLY <1>6, <1>7, UpdateHolds
  <2> QED
    BY ONLY <2>1
<1>9. (ipad \o t) \o b = ipad \o (t \o b)
  <2>1. ipad \in Seq(T)
    BY ONLY <1>6, BlockIsSeq
  <2> QED
    <3>1. Joined(Joined(ipad, t), b) = Joined(ipad, Joined(t, b))
      BY ONLY <1>7, <2>1, Assoc
    <3> QED
      BY ONLY <3>1 DEF Joined
<1>10. t \o b \in Seq(T)
  BY ONLY <1>7, ConcatProperties
<1>11. /\ ctx' = [ctx EXCEPT !.sctx = new] /\ text' = t \o b
       /\ pc' = pc /\ secret' = secret /\ zero' = zero
  BY ONLY <1>3, <1>4, <1>8, srs_hmac_update(len) DEF srs_hmac_update
<1>12. /\ ctx'.sctx = new /\ ctx'.ipad = ctx.ipad
       /\ ctx'.opad = ctx.opad /\ ctx' \in Contexts(T)
  <2>1. new \in Infos(T)
    BY ONLY <1>8 DEF Holds
  <2> QED
    BY ONLY <1>2, <1>3, <1>6, <1>11, <2>1 DEF Contexts
<1>13. new.local \in 0..(SHA_BLOCKSIZE - 1) /\ new.count_lo \in 0..(SHA_WRAP - 1)
  BY ONLY <1>8, SmallCounters
<1>14. text' \in Seq(T) /\ Holds(ctx'.sctx, ctx'.ipad \o text', T)
  BY ONLY <1>3, <1>8, <1>9, <1>10, <1>11, <1>12
<1>15. Whole' = Whole /\ Key' = Key
  BY ONLY <1>11 DEF Whole, Key
<1>16. Whole => /\ ctx.ipad = PadOf("ipad", Key, Len(Key))
                /\ ctx.opad = PadOf("opad", Key, Len(Key))
  BY ONLY <1>1, HashInv DEF HashInv
<1> QED
  BY ONLY <1>1, <1>11, <1>12, <1>13, <1>14, <1>15, <1>16 DEF HashInv

\* srs_hmac_fini().
LEMMA FiniInv ==
  ASSUME HashInv, srs_hmac_fini
  PROVE  HashInv'
<1>1. pc = "keyed" /\ pc' = "done"
  BY DEF srs_hmac_fini
<1>2. PICK S : /\ ctx \in Contexts(S) /\ text \in Seq(S)
               /\ Holds(ctx.sctx, ctx.ipad \o text, S)
  BY ONLY <1>1, HashInv DEF HashInv
<1>3. PICK old, ipad, opad, s :
        /\ old = ctx.sctx /\ ipad = ctx.ipad /\ opad = ctx.opad /\ s = ctx.ipad \o text
        /\ ipad \in Buffers(S) /\ opad \in Buffers(S)
        /\ Holds(old, s, S)
  BY ONLY <1>2 DEF Contexts
<1>4. PICK inner : inner = sha_final(old)
  OBVIOUS
<1>5. PICK outer :
        outer = sha_final(sha_update(sha_update(sha_init(inner), opad),
                                     DigestBytes(inner.digest, 0)))
  OBVIOUS
<1>6. /\ \E T : S \subseteq T /\ outer \in Infos(T)
      /\ outer.local \in 0..(SHA_BLOCKSIZE - 1)
      /\ outer.count_lo \in 0..(SHA_WRAP - 1)
      /\ outer.digest = Padded(opad \o DigestBytes(Padded(s), 0))
  BY ONLY <1>3, <1>4, <1>5, OuterDigest
<1>7. PICK T : S \subseteq T /\ outer \in Infos(T)
  BY ONLY <1>6
<1>8. /\ out' = outer.digest /\ ctx' = [ctx EXCEPT !.sctx = outer]
      /\ secret' = secret /\ zero' = zero /\ text' = text
  BY ONLY <1>3, <1>4, <1>5, srs_hmac_fini DEF srs_hmac_fini
<1>9. ctx'.sctx = outer /\ ctx' \in Contexts(T)
  <2>1. ipad \in Buffers(T) /\ opad \in Buffers(T)
    BY ONLY <1>3, <1>7, HoldsMore
  <2> QED
    BY ONLY <1>2, <1>3, <1>7, <1>8, <2>1 DEF Contexts
<1>10. ASSUME Whole' PROVE out' = HMAC'
  <2>1. Whole
    BY ONLY <1>8, <1>10 DEF Whole
  <2>2. /\ ipad = PadOf("ipad", Key, Len(Key)) /\ opad = PadOf("opad", Key, Len(Key))
    BY ONLY <1>1, <1>3, <2>1, HashInv DEF HashInv
  <2>3. HMAC = Padded(PadOf("opad", Key, Len(Key)) \o
                 DigestBytes(Padded(PadOf("ipad", Key, Len(Key)) \o text), 0))
    BY DEF HMAC, Key
  <2>4. HMAC' = HMAC
    BY ONLY <1>8 DEF HMAC
  <2>5. s = PadOf("ipad", Key, Len(Key)) \o text
    BY ONLY <1>3, <2>2
  <2> QED
    BY ONLY <1>6, <1>8, <2>2, <2>3, <2>4, <2>5
<1> QED
  BY ONLY <1>1, <1>6, <1>9, <1>10 DEF HashInv

\* Every step: the loop of the encoding does not touch the context.
LEMMA HashStepInv == HashInv /\ [HashNext]_hashvars => HashInv'
<1> SUFFICES ASSUME HashInv, [HashNext]_hashvars PROVE HashInv'
  OBVIOUS
<1>1. ASSUME Begin PROVE HashInv'
  BY <1>1, BeginInv DEF Begin
<1>2. ASSUME NEW len \in ChunkLens, srs_hmac_update(len) PROVE HashInv'
  BY <1>2, UpdateInv
<1>3. ASSUME Digest PROVE HashInv'
  BY <1>3, FiniInv DEF Digest
<1>4. ASSUME UNCHANGED vars PROVE HashInv'
  BY <1>4 DEF vars, HashInv, Whole, Key, HMAC
<1>5. Encode => UNCHANGED vars
  BY DEF Encode
<1>6. UNCHANGED hashvars => UNCHANGED vars
  BY DEF hashvars
<1> QED
  BY <1>1, <1>2, <1>3, <1>4, <1>5, <1>6 DEF HashNext

\* The context has its types and its counters their ranges, over any number of
\* calls on the same stack.
THEOREM HmacTyped == HashSpec => []TypeOK
<1>1. HashInv => TypeOK
  BY Sizes DEF HashInv, TypeOK, Contexts, Infos, Buffers
<1> QED
  BY <1>1, InitInv, HashStepInv, PTL DEF HashSpec

\* What the invariant says of the pieces.
LEMMA InvLoses == HashInv => NothingLost
<1> SUFFICES ASSUME HashInv, pc = "keyed"
             PROVE  /\ ctx.sctx.digest \o SubSeq(ctx.sctx.data, 1, ctx.sctx.local)
                         = ctx.ipad \o text
                    /\ ctx.sctx.count_hi * SHA_WRAP + ctx.sctx.count_lo
                         = SHA_BLOCKSIZE + Len(text)
  BY DEF NothingLost
<1>1. PICK S : /\ ctx \in Contexts(S) /\ text \in Seq(S)
               /\ Holds(ctx.sctx, ctx.ipad \o text, S)
  BY DEF HashInv
<1>2. PICK info, s, t, p :
        /\ info = ctx.sctx /\ s = ctx.ipad \o text /\ t = text /\ p = ctx.ipad
        /\ Holds(info, s, S) /\ t \in Seq(S) /\ p \in Buffers(S)
  BY ONLY <1>1 DEF Contexts
<1>3. info.digest \o SubSeq(info.data, 1, info.local) = s
  BY ONLY <1>2 DEF Holds, First
<1>4. info.count_hi * SHA_WRAP + info.count_lo = Len(s)
  BY ONLY <1>2, SmallCounters
<1>5. Len(s) = SHA_BLOCKSIZE + Len(t)
  <2>1. p \in Seq(S) /\ Len(p) = SHA_BLOCKSIZE
    BY ONLY <1>2, BlockIsSeq
  <2>2. Len(p \o t) = Len(p) + Len(t)
    BY ONLY <1>2, <2>1, ConcatProperties
  <2> QED
    BY ONLY <1>2, <2>1, <2>2
<1> QED
  BY ONLY <1>2, <1>3, <1>4, <1>5

\* In whatever pieces a text comes, and however often the counter wraps, no byte
\* is lost, doubled or moved (sha_update()).
THEOREM NothingIsLost == HashSpec => []NothingLost
  BY InvLoses, InitInv, HashStepInv, PTL DEF HashSpec

\* The digest is the HMAC of FIPS 198 for every secret and every text, in whatever
\* pieces, when no zero byte cuts the key short (srs_hmac_fini()).
THEOREM StandardHmac == HashSpec => []HmacIsStandard
<1>1. HashInv => HmacIsStandard
  BY DEF HashInv, HmacIsStandard, Whole
<1> QED
  BY <1>1, InitInv, HashStepInv, PTL DEF HashSpec
=============================================================================
