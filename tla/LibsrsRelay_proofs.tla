------------------------- MODULE LibsrsRelay_proofs -------------------------
(***************************************************************************)
(* The properties of LibsrsRelay for any relays, origins, arguments of     *)
(* SRS_new() and days.  TypeCorrect and BlocksSuffice follow from Sane,    *)
(* which says that every sender is made of pieces that have a length and   *)
(* every handle can be hashed with.  The others follow from Followed:      *)
(* every sender is the origin, or SRS0 or SRS1 around what the first relay *)
(* of the trail wrote (Held).  They are about addresses that MAX_RWA does  *)
(* not cut (Short).                                                        *)
(***************************************************************************)
EXTENDS LibsrsRelay, SrsString_proofs

-----------------------------------------------------------------------------
(* Strings put together around a separator, and taken apart at it *)

\* a and b with c in between.
Glue(a, c, b) == a \o (<<c>> \o b)

Without(s, c) == \A i \in 1..Len(s) : s[i] # c

\* What Glue() makes, token by token.
Glued(s, a, c, b) ==
    /\ IsText(s) /\ Len(s) = Len(a) + 1 + Len(b)
    /\ \A i \in 1..Len(a) : s[i] = a[i]
    /\ s[Len(a) + 1] = c
    /\ \A i \in 1..Len(b) : s[Len(a) + 1 + i] = b[i]

\* Glue() makes that.
LEMMA GlueIndex ==
  ASSUME NEW a, NEW b, NEW c, IsText(a), IsText(b)
  PROVE  Glued(Glue(a, c, b), a, c, b)
PROOF
  <1>1. IsText(<<c>>) /\ Len(<<c>>) = 1 /\ <<c>>[1] = c
    BY TextTuples
  <1>2. PICK k : k = <<c>>
    OBVIOUS
  <1>3. PICK t : t = k \o b
    OBVIOUS
  <1>4. /\ IsText(t) /\ Len(t) = 1 + Len(b) /\ t[1] = c
        /\ \A i \in 1..Len(b) : t[1 + i] = b[i]
    <2>1. /\ IsText(k \o b)
          /\ Len(k \o b) = Len(k) + Len(b)
          /\ \A i \in 1..Len(k) : (k \o b)[i] = k[i]
          /\ \A i \in 1..Len(b) : (k \o b)[Len(k) + i] = b[i]
      BY <1>1, <1>2, TextConcat
    <2>2. 1 \in 1..Len(k)
      BY <1>1, <1>2
    <2> QED BY <1>1, <1>2, <1>3, <2>1, <2>2
  <1>5. PICK s : s = a \o t
    OBVIOUS
  <1>6. /\ IsText(s) /\ Len(s) = Len(a) + Len(t)
        /\ \A i \in 1..Len(a) : s[i] = a[i]
        /\ \A i \in 1..Len(t) : s[Len(a) + i] = t[i]
    <2>1. /\ IsText(a \o t)
          /\ Len(a \o t) = Len(a) + Len(t)
          /\ \A i \in 1..Len(a) : (a \o t)[i] = a[i]
          /\ \A i \in 1..Len(t) : (a \o t)[Len(a) + i] = t[i]
      BY <1>4, TextConcat
    <2> QED BY <1>5, <2>1
  <1>7. Len(a) \in Nat /\ Len(b) \in Nat
    BY TextIndex
  <1>8. s[Len(a) + 1] = c
    BY <1>4, <1>6, <1>7
  <1>9. ASSUME NEW i \in 1..Len(b) PROVE s[Len(a) + 1 + i] = b[i]
    <2>1. 1 + i \in 1..Len(t) /\ Len(a) + (1 + i) = Len(a) + 1 + i
      BY <1>4, <1>7
    <2>2. s[Len(a) + (1 + i)] = t[1 + i]
      BY <1>6, <2>1
    <2> QED BY <1>4, <2>1, <2>2
  <1>10. s = Glue(a, c, b)
    BY <1>2, <1>3, <1>5 DEF Glue
  <1>11. Len(s) = Len(a) + 1 + Len(b)
    BY <1>4, <1>6, <1>7
  <1> QED BY <1>6, <1>8, <1>9, <1>10, <1>11 DEF Glued

\* Texts glued are a text.
LEMMA GlueText ==
  ASSUME NEW a, NEW b, NEW c, IsText(a), IsText(b)
  PROVE  IsText(Glue(a, c, b))
  BY GlueIndex DEF Glued

\* A token is in what Glue() makes where it is in one of the parts.
LEMMA GlueWithout ==
  ASSUME NEW a, NEW b, NEW c, IsText(a), IsText(b), NEW x
  PROVE  Without(Glue(a, c, b), x) <=> Without(a, x) /\ c # x /\ Without(b, x)
PROOF
  <1>1. PICK s : s = Glue(a, c, b)
    OBVIOUS
  <1>2. /\ IsText(s) /\ Len(s) = Len(a) + 1 + Len(b)
        /\ \A i \in 1..Len(a) : s[i] = a[i]
        /\ s[Len(a) + 1] = c
        /\ \A i \in 1..Len(b) : s[Len(a) + 1 + i] = b[i]
        /\ Len(a) \in Nat /\ Len(b) \in Nat
    BY <1>1, GlueIndex, TextIndex DEF Glued
  <1>3. ASSUME Without(s, x) PROVE Without(a, x) /\ c # x /\ Without(b, x)
    <2>1. /\ \A i \in 1..Len(a) : i \in 1..Len(s)
          /\ Len(a) + 1 \in 1..Len(s)
          /\ \A i \in 1..Len(b) : Len(a) + 1 + i \in 1..Len(s)
      BY <1>2
    <2> QED BY <1>2, <1>3, <2>1 DEF Without
  <1>4. ASSUME Without(a, x), c # x, Without(b, x) PROVE Without(s, x)
    <2> SUFFICES ASSUME NEW i \in 1..Len(s) PROVE s[i] # x
      BY DEF Without
    <2>1. CASE i \in 1..Len(a)
      BY <1>2, <1>4, <2>1 DEF Without
    <2>2. CASE i = Len(a) + 1
      BY <1>2, <1>4, <2>2
    <2>3. CASE i > Len(a) + 1
      <3>1. PICK j \in 1..Len(b) : i = Len(a) + 1 + j
        <4>1. i - (Len(a) + 1) \in 1..Len(b) /\ i = Len(a) + 1 + (i - (Len(a) + 1))
          BY <1>2, <2>3
        <4> QED BY <4>1
      <3> QED BY <1>2, <1>4, <3>1 DEF Without
    <2> QED BY <1>2, <2>1, <2>2, <2>3
  <1> QED BY <1>1, <1>3, <1>4

\* Gluing is associative.
LEMMA GlueAssoc ==
  ASSUME NEW a, NEW b, NEW d, NEW c, NEW e, IsText(a), IsText(b), IsText(d)
  PROVE  Glue(Glue(a, c, b), e, d) = Glue(a, c, Glue(b, e, d))
PROOF
  <1>1. PICK ab, bd : ab = Glue(a, c, b) /\ bd = Glue(b, e, d)
    OBVIOUS
  <1>2. PICK s, t : s = Glue(ab, e, d) /\ t = Glue(a, c, bd)
    OBVIOUS
  <1>3. Len(a) \in Nat /\ Len(b) \in Nat /\ Len(d) \in Nat
    BY TextIndex
  <1>4. /\ IsText(ab) /\ Len(ab) = Len(a) + 1 + Len(b)
        /\ \A i \in 1..Len(a) : ab[i] = a[i]
        /\ ab[Len(a) + 1] = c
        /\ \A i \in 1..Len(b) : ab[Len(a) + 1 + i] = b[i]
    BY <1>1, GlueIndex DEF Glued
  <1>5. /\ IsText(bd) /\ Len(bd) = Len(b) + 1 + Len(d)
        /\ \A i \in 1..Len(b) : bd[i] = b[i]
        /\ bd[Len(b) + 1] = e
        /\ \A i \in 1..Len(d) : bd[Len(b) + 1 + i] = d[i]
    BY <1>1, GlueIndex DEF Glued
  <1>6. /\ IsText(s) /\ Len(s) = Len(ab) + 1 + Len(d)
        /\ \A i \in 1..Len(ab) : s[i] = ab[i]
        /\ s[Len(ab) + 1] = e
        /\ \A i \in 1..Len(d) : s[Len(ab) + 1 + i] = d[i]
    <2>1. IsText(ab)
      BY <1>4
    <2>2. Glued(Glue(ab, e, d), ab, e, d)
      BY <2>1, GlueIndex
    <2>3. Glued(s, ab, e, d)
      BY <1>2, <2>2
    <2> QED BY <2>3 DEF Glued
  <1>7. /\ IsText(t) /\ Len(t) = Len(a) + 1 + Len(bd)
        /\ \A i \in 1..Len(a) : t[i] = a[i]
        /\ t[Len(a) + 1] = c
        /\ \A i \in 1..Len(bd) : t[Len(a) + 1 + i] = bd[i]
    <2>1. IsText(bd)
      BY <1>5
    <2>2. Glued(Glue(a, c, bd), a, c, bd)
      BY <2>1, GlueIndex
    <2>3. Glued(t, a, c, bd)
      BY <1>2, <2>2
    <2> QED BY <2>3 DEF Glued
  <1>8. Len(s) = Len(t)
    BY <1>3, <1>4, <1>5, <1>6, <1>7
  <1>9. ASSUME NEW i \in 1..Len(s) PROVE s[i] = t[i]
    <2>1. CASE i \in 1..Len(a)
      <3>1. i \in 1..Len(ab)
        BY <1>3, <1>4, <2>1
      <3> QED BY <1>4, <1>6, <1>7, <2>1, <3>1
    <2>2. CASE i = Len(a) + 1
      <3>1. i \in 1..Len(ab)
        BY <1>3, <1>4, <2>2
      <3> QED BY <1>4, <1>6, <1>7, <2>2, <3>1
    <2>3. CASE i \in (Len(a) + 2)..Len(ab)
      <3>1. PICK j \in 1..Len(b) : i = Len(a) + 1 + j
        <4>1. /\ i - (Len(a) + 1) \in 1..Len(b)
              /\ i = Len(a) + 1 + (i - (Len(a) + 1))
          BY <1>3, <1>4, <2>3
        <4> QED BY <4>1
      <3>2. i \in 1..Len(ab) /\ j \in 1..Len(bd)
        BY <1>3, <1>4, <1>5, <3>1
      <3> QED BY <1>4, <1>5, <1>6, <1>7, <3>1, <3>2
    <2>4. CASE i = Len(ab) + 1
      <3>1. Len(b) + 1 \in 1..Len(bd) /\ i = Len(a) + 1 + (Len(b) + 1)
        BY <1>3, <1>4, <1>5, <2>4
      <3>2. t[Len(a) + 1 + (Len(b) + 1)] = bd[Len(b) + 1]
        BY <1>7, <3>1
      <3> QED BY <1>5, <1>6, <2>4, <3>1, <3>2
    <2>5. CASE i > Len(ab) + 1
      <3>1. PICK j \in 1..Len(d) : i = Len(ab) + 1 + j
        <4>1. /\ i - (Len(ab) + 1) \in 1..Len(d)
              /\ i = Len(ab) + 1 + (i - (Len(ab) + 1))
          BY <1>3, <1>4, <1>6, <2>5
        <4> QED BY <4>1
      <3>2. PICK k : k = Len(b) + 1 + j
        OBVIOUS
      <3>3. k \in 1..Len(bd) /\ i = Len(a) + 1 + k
        BY <1>3, <1>4, <1>5, <3>1, <3>2
      <3>4. t[i] = bd[k]
        BY <1>7, <3>3
      <3> QED BY <1>5, <1>6, <3>1, <3>2, <3>4
    <2>6. Len(ab) = Len(a) + 1 + Len(b) /\ Len(s) = Len(ab) + 1 + Len(d)
      BY <1>4, <1>6
    <2>7. PICK x, y, z, n : /\ x = Len(a) /\ y = Len(b) /\ z = Len(ab) /\ n = Len(s)
      OBVIOUS
    <2>8. /\ x \in Nat /\ z \in Nat /\ n \in Nat /\ i \in 1..n
      BY <1>3, <2>6, <2>7
    <2>9. \/ i \in 1..x \/ i = x + 1 \/ i \in (x + 2)..z \/ i = z + 1 \/ i > z + 1
      BY ONLY <2>8
    <2> QED BY <2>1, <2>2, <2>3, <2>4, <2>5, <2>7, <2>9
  <1>10. s = t
    BY <1>6, <1>7, <1>8, <1>9, TextEqual
  <1> QED BY <1>1, <1>2, <1>10

\* strchr() finds the first separator, and both sides of it are the parts.
LEMMA GlueSplit ==
  ASSUME NEW a, NEW b, NEW c, IsText(a), IsText(b), Without(a, c)
  PROVE  LET s == Glue(a, c, b) IN
         /\ StrChr(s, 1, c) = Len(a) + 1
         /\ StrChr(s, 1, c) # 0
         /\ Before(s, StrChr(s, 1, c)) = a
         /\ From(s, StrChr(s, 1, c) + 1) = b
PROOF
  <1>1. PICK s : s = Glue(a, c, b)
    OBVIOUS
  <1>2. /\ IsText(s) /\ Len(s) = Len(a) + 1 + Len(b)
        /\ \A i \in 1..Len(a) : s[i] = a[i]
        /\ s[Len(a) + 1] = c
        /\ \A i \in 1..Len(b) : s[Len(a) + 1 + i] = b[i]
        /\ Len(a) \in Nat /\ Len(b) \in Nat
    BY <1>1, GlueIndex, TextIndex DEF Glued
  <1>3. PICK n : n = Len(a) + 1 /\ n \in Nat
    BY <1>2
  <1>4. StrChr(s, 1, c) = n
    <2>1. n \in 1..Len(s) /\ \A k \in 1..(n - 1) : k \in 1..Len(a)
      BY <1>2, <1>3
    <2>2. s[n] = c /\ \A k \in 1..(n - 1) : s[k] # c
      BY <1>2, <1>3, <2>1 DEF Without
    <2> QED BY <1>2, <2>1, <2>2, StrChrFirst
  <1>5. Before(s, n) = a
    <2>1. PICK p : p = SubSeq(s, 1, Len(a))
      OBVIOUS
    <2>2. /\ IsText(SubSeq(s, 1, Len(a)))
          /\ Len(SubSeq(s, 1, Len(a))) = Len(a) - 1 + 1
          /\ \A k \in 1..(Len(a) - 1 + 1) : SubSeq(s, 1, Len(a))[k] = s[1 + k - 1]
      BY <1>2, TextSub
    <2>3. Len(a) - 1 + 1 = Len(a) /\ \A k \in 1..Len(a) : 1 + k - 1 = k
      BY <1>2
    <2>4. IsText(p) /\ Len(p) = Len(a) /\ \A k \in 1..Len(a) : p[k] = s[k]
      BY <2>1, <2>2, <2>3
    <2>5. p = a
      BY <1>2, <2>4, TextEqual
    <2>6. n - 1 = Len(a)
      BY <1>2, <1>3
    <2> QED BY <2>1, <2>5, <2>6 DEF Before
  <1>6. From(s, n + 1) = b
    <2>1. PICK p, q : p = SubSeq(s, q, Len(s)) /\ q = n + 1
      OBVIOUS
    <2>2. /\ IsText(SubSeq(s, q, Len(s)))
          /\ Len(SubSeq(s, q, Len(s))) = Len(s) - q + 1
          /\ \A k \in 1..(Len(s) - q + 1) : SubSeq(s, q, Len(s))[k] = s[q + k - 1]
      BY <1>2, <1>3, <2>1, TextSub
    <2>3. Len(s) - q + 1 = Len(b) /\ \A k \in 1..Len(b) : q + k - 1 = Len(a) + 1 + k
      BY <1>2, <1>3, <2>1
    <2>4. IsText(p) /\ Len(p) = Len(b) /\ \A k \in 1..Len(b) : p[k] = b[k]
      BY <1>2, <2>1, <2>2, <2>3
    <2>5. p = b
      BY <2>4, TextEqual
    <2> QED BY <2>1, <2>5 DEF From
  <1> QED BY <1>1, <1>2, <1>3, <1>4, <1>5, <1>6

\* Has() is what it says.
LEMMA HasIs ==
  ASSUME NEW s, IsText(s), NEW c
  PROVE  /\ Has(s, c) <=> ~Without(s, c)
         /\ Has(s, c) => StrChr(s, 1, c) \in 1..Len(s)
PROOF
  <1>1. Len(s) \in Nat
    BY TextIndex
  <1>2. CASE Without(s, c)
    <2>1. StrChr(s, 1, c) = 0
      BY <1>2, StrChrNone DEF Without
    <2> QED BY <1>2, <2>1 DEF Has
  <1>3. CASE ~Without(s, c)
    <2> DEFINE T == {i \in 1..Len(s) : s[i] = c}
    <2>1. T \subseteq Nat /\ T # {}
      BY <1>1, <1>3 DEF Without
    <2>2. PICK j \in T : \A y \in T : j <= y
      BY <2>1, Least
    <2>3. j \in 1..Len(s) /\ s[j] = c
      BY <2>2
    <2>4. ASSUME NEW k \in 1..(j - 1) PROVE s[k] # c
      <3>1. k \in 1..Len(s) /\ ~(j <= k)
        BY <1>1, <2>3
      <3> QED BY <2>2, <3>1
    <2>5. StrChr(s, 1, c) = j
      BY <2>3, <2>4, StrChrFirst
    <2> QED BY <1>3, <2>3, <2>5 DEF Has
  <1> QED BY <1>2, <1>3

\* strlen() of what Glue() makes.
LEMMA GlueLen ==
  ASSUME NEW a, NEW b, NEW c, Measured(a), Measured(b), TokenLen(c) \in Nat
  PROVE  /\ Measured(Glue(a, c, b))
         /\ StrLen(Glue(a, c, b)) = StrLen(a) + TokenLen(c) + StrLen(b)
PROOF
  <1>1. Measured(<<c>>) /\ StrLen(<<c>>) = TokenLen(c)
    BY StrLenOne
  <1>2. PICK k : k = <<c>>
    OBVIOUS
  <1>3. Measured(k \o b) /\ StrLen(k \o b) = TokenLen(c) + StrLen(b)
    BY <1>1, <1>2, StrLenConcat
  <1>4. /\ Measured(a \o (k \o b))
        /\ StrLen(a \o (k \o b)) = StrLen(a) + StrLen(k \o b)
    BY <1>3, StrLenConcat
  <1>5. StrLen(a) \in Nat /\ StrLen(b) \in Nat
    BY StrLenType
  <1> QED BY <1>2, <1>3, <1>4, <1>5 DEF Glue

\* A tag is four characters long, so that the separator behind it is the one
\* UTIL_get_rtype_sep() looks for.
LEMMA SepBehindTag ==
  ASSUME NEW t, NEW p \in srs_separators, NEW x, Measured(x)
  PROVE  LET s == Glue(<<Tag(t)>>, p, x) IN
         UTIL_get_rtype_sep(s) = 2 /\ From(s, 2 + 1) = x
PROOF
  <1>1. PICK a : a = <<Tag(t)>>
    OBVIOUS
  <1>2. IsText(a) /\ Len(a) = 1 /\ a[1] = Tag(t)
    BY <1>1, TextTuples
  <1>3. Measured(a) /\ StrLen(a) = 4 /\ TokenLen(p) = 1
    BY <1>1, StrLenOne, TokenLens
  <1>4. IsText(x) /\ Len(x) \in Nat
    BY TextIndex DEF Measured
  <1>5. PICK s : s = Glue(a, p, x)
    OBVIOUS
  <1>6. Measured(s)
    BY <1>3, <1>5, GlueLen
  <1>7. /\ Len(s) = 2 + Len(x) /\ s[1] = Tag(t) /\ s[2] = p
    BY <1>2, <1>4, <1>5, GlueIndex DEF Glued
  <1>8. PICK f : Ruler(s, f)
    BY <1>6, StrLenRuler
  <1>9. f[0] = 0 /\ f[1] = 4 /\ f[2] = 5
    <2>1. 1 \in 1..Len(s) /\ 2 \in 1..Len(s)
      BY <1>4, <1>7
    <2>2. f[1] = f[0] + TokenLen(s[1]) /\ f[2] = f[1] + TokenLen(s[2])
      BY <1>8, <2>1 DEF Ruler
    <2>3. TokenLen(s[1]) = 4
      BY <1>7, TokenLens
    <2> QED BY <1>3, <1>7, <1>8, <2>2, <2>3 DEF Ruler
  <1>10. ASSUME NEW i \in 1..Len(s) PROVE StrLen(Before(s, i)) = 4 <=> i = 2
    <2>1. i - 1 \in Nat /\ i - 1 <= Len(s) /\ Len(s) \in Nat
      BY <1>4, <1>7
    <2>2. StrLen(SubSeq(s, 0 + 1, i - 1)) = f[i - 1] - f[0]
      BY <1>6, <1>8, <2>1, StrLenSub
    <2>3. f[i - 1] \in Nat
      BY <1>8, <2>1 DEF Ruler
    <2>4. StrLen(Before(s, i)) = f[i - 1]
      BY <1>9, <2>2, <2>3 DEF Before
    <2>5. CASE i = 1
      BY <1>9, <2>4, <2>5
    <2>6. CASE i = 2
      BY <1>9, <2>4, <2>6
    <2>7. CASE i > 2
      <3>1. 2 \in 0..Len(s) /\ i - 1 \in 2..Len(s)
        BY <2>1, <2>7
      <3>2. f[2] <= f[i - 1]
        BY <1>6, <1>8, <3>1, RulerRises
      <3> QED BY <1>9, <2>3, <2>4, <2>7, <3>2
    <2> QED BY <2>5, <2>6, <2>7
  <1>11. 2 \in 1..Len(s)
    BY <1>4, <1>7
  <1>12. UTIL_get_rtype_sep(s) = 2
    BY <1>7, <1>10, <1>11 DEF UTIL_get_rtype_sep
  <1>13. Without(a, p)
    <2>1. Tag(t) # p
      BY TokensDiffer DEF srs_separators, Tag, Eq, Minus, Plus
    <2> QED BY <1>2, <2>1 DEF Without
  <1>14. From(s, StrChr(s, 1, p) + 1) = x /\ StrChr(s, 1, p) = 1 + 1
    BY <1>2, <1>4, <1>5, <1>13, GlueSplit
  <1> QED BY <1>1, <1>5, <1>12, <1>14

-----------------------------------------------------------------------------
(* Tokens, and the limits of snprintf() *)

\* A token has a length, and a digit of a stamp is one of 32.
TokenOK(c) == TokenLen(c) \in Nat /\ (c.kind = "base32" => c.digit \in 0..31)

Sound(s) == IsText(s) /\ \A i \in 1..Len(s) : TokenOK(s[i])

\* A sound string has a length.
LEMMA SoundMeasured == \A s : Sound(s) => Measured(s)
  BY DEF Sound, Measured, TokenOK

\* So has one of one token, and none.
LEMMA SoundOne ==
  /\ Sound(<<>>) 
  /\ \A c : TokenOK(c) => Sound(<<c>>)
  BY TextTuples DEF Sound

\* Strings put together.
LEMMA SoundConcat ==
  ASSUME NEW s, NEW t, Sound(s), Sound(t)
  PROVE  Sound(s \o t)
PROOF
  <1>1. /\ IsText(s \o t) /\ Len(s \o t) = Len(s) + Len(t)
        /\ \A i \in 1..Len(s) : (s \o t)[i] = s[i]
        /\ \A i \in 1..Len(t) : (s \o t)[Len(s) + i] = t[i]
    BY TextConcat DEF Sound
  <1>2. Len(s) \in Nat /\ Len(t) \in Nat
    BY TextIndex DEF Sound
  <1> SUFFICES ASSUME NEW i \in 1..Len(s \o t) PROVE TokenOK((s \o t)[i])
    BY <1>1 DEF Sound
  <1>3. CASE i \in 1..Len(s)
    BY <1>1, <1>3 DEF Sound
  <1>4. CASE i > Len(s)
    <2>1. i - Len(s) \in 1..Len(t) /\ Len(s) + (i - Len(s)) = i
      BY <1>1, <1>2, <1>4
    <2>2. (s \o t)[Len(s) + (i - Len(s))] = t[i - Len(s)]
      BY <1>1, <2>1
    <2> QED BY <2>1, <2>2 DEF Sound
  <1> QED BY <1>1, <1>2, <1>3, <1>4

\* A part of a string.
LEMMA SoundPart ==
  ASSUME NEW s, Sound(s), NEW a \in Nat \ {0}, NEW b \in Nat, b <= Len(s)
  PROVE  Sound(SubSeq(s, a, b)) /\ StrLen(SubSeq(s, a, b)) <= StrLen(s)
PROOF
  <1>1. StrLen(SubSeq(s, a, b)) <= StrLen(s)
    BY SoundMeasured, StrLenPart
  <1>2. CASE a <= b + 1
    <2>1. /\ IsText(SubSeq(s, a, b))
          /\ Len(SubSeq(s, a, b)) = b - a + 1
          /\ \A k \in 1..(b - a + 1) : SubSeq(s, a, b)[k] = s[a + k - 1]
      BY <1>2, TextSub DEF Sound
    <2>2. ASSUME NEW k \in 1..(b - a + 1) PROVE a + k - 1 \in 1..Len(s)
      <3>1. Len(s) \in Nat
        BY TextIndex DEF Sound
      <3> QED BY <3>1
    <2> QED BY <1>1, <2>1, <2>2 DEF Sound
  <1>3. CASE a > b + 1
    <2>1. SubSeq(s, a, b) = <<>>
      <3>1. s \in Seq(Range(s))
        BY DEF Sound, IsText
      <3>2. a > b
        BY <1>3
      <3> QED BY <3>1, <3>2
    <2> QED BY <1>1, <2>1, SoundOne
  <1> QED BY <1>2, <1>3

\* Both sides of a separator that is there.
LEMMA SoundSplit ==
  ASSUME NEW s, Sound(s), NEW c, Has(s, c)
  PROVE  /\ Sound(Before(s, StrChr(s, 1, c))) /\ Sound(From(s, StrChr(s, 1, c) + 1))
PROOF
  <1>1. PICK i : i = StrChr(s, 1, c)
    OBVIOUS
  <1>2. i \in 1..Len(s) /\ Len(s) \in Nat
    BY <1>1, HasIs, TextIndex DEF Sound
  <1>3. Sound(SubSeq(s, 1, i - 1))
    BY <1>2, SoundPart
  <1>4. Sound(SubSeq(s, i + 1, Len(s)))
    BY <1>2, SoundPart
  <1> QED BY <1>1, <1>3, <1>4 DEF Before, From

\* What snprintf() leaves of a string is no longer, and no other.
LEMMA CutSound ==
  ASSUME NEW s, Sound(s), NEW n \in Nat \ {0}
  PROVE  Sound(Cut(s, n)) /\ StrLen(Cut(s, n)) <= StrLen(s)
PROOF
  <1>1. Measured(s) /\ Len(s) \in Nat /\ StrLen(s) \in Nat
    BY SoundMeasured, StrLenType, TextIndex DEF Sound
  <1>2. CASE StrLen(s) < n
    BY <1>1, <1>2 DEF Cut
  <1>3. CASE ~(StrLen(s) < n)
    <2>1. PICK f : Ruler(s, f) /\ StrLen(s) = f[Len(s)]
      BY <1>1, StrLenRuler
    <2>2. ASSUME NEW i \in 1..(Len(s) + 1) PROVE StrLen(Before(s, i)) = f[i - 1]
      <3>1. i - 1 \in Nat /\ i - 1 <= Len(s)
        BY <1>1
      <3>2. StrLen(SubSeq(s, 0 + 1, i - 1)) = f[i - 1] - f[0]
        BY <1>1, <2>1, <3>1, StrLenSub
      <3>3. f[0] = 0 /\ f[i - 1] \in Nat
        BY <2>1, <3>1 DEF Ruler
      <3> QED BY <3>2, <3>3 DEF Before
    <2> DEFINE T == {j \in 1..Len(s) : f[j] >= n}
    <2>3. T \subseteq Nat /\ Len(s) \in T
      <3>1. Len(s) # 0
        BY <1>3, <2>1 DEF Ruler
      <3> QED BY <1>1, <1>3, <2>1, <3>1
    <2>4. PICK j \in T : \A y \in T : j <= y
      BY <2>3, Least
    <2>5. j \in 1..Len(s) /\ f[j] >= n
      BY <2>4
    <2>6. f[j - 1] < n
      <3>1. CASE j = 1
        BY <2>1, <3>1 DEF Ruler
      <3>2. CASE j # 1
        <4>1. j - 1 \in 1..Len(s) /\ ~(j <= j - 1)
          BY <1>1, <2>5, <3>2
        <4>2. ~(f[j - 1] >= n) /\ f[j - 1] \in Nat
          BY <2>1, <2>4, <4>1 DEF Ruler
        <4> QED BY <4>2
      <3> QED BY <3>1, <3>2
    <2> DEFINE P(i) == StrLen(Before(s, i)) < n /\ StrLen(Before(s, i + 1)) >= n
    <2>7. P(j)
      <3>1. j \in 1..(Len(s) + 1) /\ j + 1 \in 1..(Len(s) + 1) /\ (j + 1) - 1 = j
        BY <1>1, <2>5
      <3> QED BY <2>2, <2>5, <2>6, <3>1
    <2> HIDE DEF P
    <2>8. PICK i \in 1..Len(s) : Cut(s, n) = Before(s, i)
      <3>1. (CHOOSE k \in 1..Len(s) : P(k)) \in 1..Len(s)
        BY <2>5, <2>7
      <3> QED BY <1>3, <3>1 DEF Cut, P
    <2>9. /\ Sound(SubSeq(s, 1, i - 1))
          /\ StrLen(SubSeq(s, 1, i - 1)) <= StrLen(s)
      BY <1>1, SoundPart
    <2> QED BY <2>8, <2>9 DEF Before
  <1> QED BY <1>2, <1>3

\* snprintf() into a block that is measured for it.
LEMMA SnprintfSound ==
  ASSUME NEW s, Sound(s), NEW n
  PROVE  /\ Snprintf(n, s).ret = "ok" /\ Sound(Snprintf(n, s).out)
         /\ n \in Int /\ StrLen(s) + 1 <= n => ~Snprintf(n, s).over
         /\ StrLen(s) < MAX_RWA => Snprintf(n, s).out = s
         /\ DOMAIN Snprintf(n, s) = {"ret", "out", "over"}
PROOF
  <1>1. Sound(Cut(s, MAX_RWA)) /\ StrLen(Cut(s, MAX_RWA)) <= StrLen(s)
    BY CutSound DEF MAX_RWA
  <1>2. StrLen(Cut(s, MAX_RWA)) \in Nat /\ StrLen(s) \in Nat
    BY <1>1, SoundMeasured, StrLenType
  <1>3. PICK out : out = Cut(s, MAX_RWA)
    OBVIOUS
  <1>4. PICK over \in BOOLEAN : over <=> StrLen(out) + 1 > n
    OBVIOUS
  <1>5. over = (StrLen(out) + 1 > n)
    BY <1>4
  <1>6. Snprintf(n, s) = [ret |-> "ok", out |-> out, over |-> over]
    BY <1>3, <1>5 DEF Snprintf, Answer
  <1>7. StrLen(s) < MAX_RWA => out = s
    BY <1>3 DEF Cut
  <1>8. n \in Int /\ StrLen(s) + 1 <= n => ~over
    BY <1>1, <1>2, <1>3, <1>4
  <1>9. Sound(out)
    BY <1>1, <1>3
  <1> QED BY <1>6, <1>7, <1>8, <1>9

\* Glue() of sound parts.
LEMMA GlueSound ==
  ASSUME NEW a, NEW b, NEW c, Sound(a), Sound(b), TokenOK(c)
  PROVE  /\ Sound(Glue(a, c, b))
         /\ StrLen(Glue(a, c, b)) = StrLen(a) + TokenLen(c) + StrLen(b)
PROOF
  <1>1. PICK k : k = <<c>>
    OBVIOUS
  <1>2. Sound(k)
    BY <1>1, SoundOne
  <1>3. Sound(k \o b)
    BY <1>2, SoundConcat
  <1>4. Sound(a \o (k \o b))
    BY <1>3, SoundConcat
  <1>5. StrLen(Glue(a, c, b)) = StrLen(a) + TokenLen(c) + StrLen(b)
    BY SoundMeasured, GlueLen DEF TokenOK
  <1> QED BY <1>1, <1>4, <1>5 DEF Glue

\* \o is associative, so what is put together from left to right is glued.
LEMMA GluedLeft ==
  ASSUME NEW a, NEW b, NEW c, IsText(a), IsText(b)
  PROVE  (a \o <<c>>) \o b = Glue(a, c, b)
PROOF
  <1>1. PICK k : k = <<c>>
    OBVIOUS
  <1>2. IsText(k) /\ Len(k) = 1 /\ k[1] = c
    BY <1>1, TextTuples
  <1>3. PICK ak : ak = a \o k
    OBVIOUS
  <1>4. /\ IsText(a \o k) /\ Len(a \o k) = Len(a) + Len(k)
        /\ \A i \in 1..Len(a) : (a \o k)[i] = a[i]
        /\ \A i \in 1..Len(k) : (a \o k)[Len(a) + i] = k[i]
    <2>1. IsText(k)
      BY <1>2
    <2> QED BY <2>1, TextConcat
  <1>5. Len(a) \in Nat /\ Len(b) \in Nat /\ 1 \in 1..Len(k)
    BY <1>2, TextIndex
  <1>6. /\ IsText(ak) /\ Len(ak) = Len(a) + 1 /\ ak[Len(a) + 1] = c
        /\ \A i \in 1..Len(a) : ak[i] = a[i]
    BY <1>2, <1>3, <1>4, <1>5
  <1>7. PICK s : s = ak \o b
    OBVIOUS
  <1>8. /\ IsText(ak \o b) /\ Len(ak \o b) = Len(ak) + Len(b)
        /\ \A i \in 1..Len(ak) : (ak \o b)[i] = ak[i]
        /\ \A i \in 1..Len(b) : (ak \o b)[Len(ak) + i] = b[i]
    BY <1>6, TextConcat
  <1>9. PICK t : t = Glue(a, c, b)
    OBVIOUS
  <1>10. /\ IsText(t) /\ Len(t) = Len(a) + 1 + Len(b)
         /\ \A i \in 1..Len(a) : t[i] = a[i]
         /\ t[Len(a) + 1] = c
         /\ \A i \in 1..Len(b) : t[Len(a) + 1 + i] = b[i]
    BY <1>9, GlueIndex DEF Glued
  <1>11. /\ IsText(s) /\ Len(s) = Len(t)
         /\ \A i \in 1..Len(ak) : s[i] = ak[i]
         /\ \A i \in 1..Len(b) : s[Len(a) + 1 + i] = b[i]
    BY <1>6, <1>7, <1>8, <1>10
  <1>12. ASSUME NEW i \in 1..Len(t) PROVE s[i] = t[i]
    <2>1. CASE i \in 1..Len(ak)
      <3>1. i \in 1..Len(a) \/ i = Len(a) + 1
        BY <1>5, <1>6, <2>1
      <3> QED BY <1>6, <1>10, <1>11, <2>1, <3>1
    <2>2. CASE i > Len(ak)
      <3>1. PICK j \in 1..Len(b) : i = Len(a) + 1 + j
        <4>1. /\ i - (Len(a) + 1) \in 1..Len(b)
              /\ i = Len(a) + 1 + (i - (Len(a) + 1))
          BY <1>5, <1>6, <1>10, <2>2
        <4> QED BY <4>1
      <3> QED BY <1>10, <1>11, <3>1
    <2>3. i \in 1..Len(ak) \/ i > Len(ak)
      BY <1>5, <1>6
    <2> QED BY <2>1, <2>2, <2>3
  <1>13. s = t
    BY <1>10, <1>11, <1>12, TextEqual
  <1> QED BY <1>1, <1>3, <1>7, <1>9, <1>13

-----------------------------------------------------------------------------
(* The addresses of this library *)

\* What stands behind the tag of an SRS0 address, its local part, the local part
\* of an SRS1 address, and an address.
Inner(d, t, h, u) == Glue(d, Eq, Glue(t, Eq, Glue(h, Eq, u)))
S0(p, x) == Glue(<<SRS_TAG>>, p, x)
S1(q, x) == Glue(<<SRS_WRAP>>, Eq, Glue(q, Eq, x))
Mailbox(w, h) == Glue(w, At, h)

\* The tokens in it.
LEMMA TokensOK ==
  /\ TokenOK(Eq) /\ TokenOK(At) /\ TokenOK(SRS_TAG) /\ TokenOK(SRS_WRAP)
  /\ \A p \in srs_separators : TokenOK(p) /\ TokenLen(p) = 1
  /\ \A n : TokenOK(Name(n))
  /\ \A d \in 0..31 : TokenOK(Base32(d))
  /\ \A k, d : \A n \in Nat : TokenOK(Hash(k, d, n))
PROOF
  <1>1. /\ Eq.kind = "sep" /\ At.kind = "at" /\ SRS_TAG.kind = "tag"
        /\ SRS_WRAP.kind = "tag"
        /\ \A p \in srs_separators : p.kind = "sep"
        /\ \A n : Name(n).kind = "name"
        /\ \A d : Base32(d).digit = d
        /\ \A k, d, n : Hash(k, d, n).kind = "hash"
    BY DEF Eq, At, SRS_TAG, SRS_WRAP, Tag, srs_separators, Minus, Plus, Name,
           Base32, Hash
  <1> QED BY <1>1, TokenLens, NameLenAssumption DEF TokenOK, SRS_TAG, SRS_WRAP

\* A tag and the separator behind it in front of a text.
LEMMA TagFront ==
  ASSUME NEW a, NEW b, NEW x, IsText(x)
  PROVE  <<a, b>> \o x = Glue(<<a>>, b, x)
PROOF
  <1>1. PICK k, e : k = <<a>> /\ e = <<b>>
    OBVIOUS
  <1>2. k \o e = <<a, b>>
    <2>1. IsText(k) /\ IsText(e) /\ Len(k) = 1 /\ Len(e) = 1 /\ k[1] = a /\ e[1] = b
      BY <1>1, TextTuples
    <2>2. PICK s : s = k \o e
      OBVIOUS
    <2>3. /\ IsText(k \o e) /\ Len(k \o e) = Len(k) + Len(e)
          /\ \A i \in 1..Len(k) : (k \o e)[i] = k[i]
          /\ \A i \in 1..Len(e) : (k \o e)[Len(k) + i] = e[i]
      <3>1. IsText(k) /\ IsText(e)
        BY <2>1
      <3> QED BY <3>1, TextConcat
    <2>4. 1 \in 1..Len(k) /\ 1 \in 1..Len(e) /\ Len(k) + 1 = 2
      BY <2>1
    <2>5. IsText(s) /\ Len(s) = 2 /\ s[1] = a /\ s[2] = b
      BY <2>1, <2>2, <2>3, <2>4
    <2>6. PICK r : r = <<a, b>>
      OBVIOUS
    <2>7. IsText(r) /\ Len(r) = 2 /\ r[1] = a /\ r[2] = b
      BY <2>6, TextTuples
    <2>8. \A i \in 1..Len(s) : s[i] = r[i]
      BY <2>5, <2>7
    <2>9. s = r
      BY <2>5, <2>7, <2>8, TextEqual
    <2> QED BY <2>2, <2>6, <2>9
  <1>3. (k \o e) \o x = Glue(k, b, x)
    BY <1>1, TextTuples, GluedLeft
  <1> QED BY <1>1, <1>2, <1>3

\* What SRS_compile() prints for an SRS0 address.
LEMMA S0Printed ==
  ASSUME NEW d, NEW t, NEW h, NEW u, IsText(d), IsText(t), IsText(h), IsText(u)
  PROVE  <<SRS_TAG, Eq>> \o d \o <<Eq>> \o t \o <<Eq>> \o h \o <<Eq>> \o u
           = S0(Eq, Inner(d, t, h, u))
PROOF
  <1>1. PICK k : k = <<SRS_TAG>> /\ IsText(k)
    BY TextTuples
  <1>2. PICK x1 : x1 = <<SRS_TAG, Eq>> \o d
    OBVIOUS
  <1>3. x1 = Glue(k, Eq, d) /\ IsText(x1)
    <2>1. x1 = Glue(k, Eq, d)
      BY <1>1, <1>2, TagFront
    <2> QED BY <1>1, <1>2, <2>1, GlueText
  <1>4. PICK x2 : x2 = (x1 \o <<Eq>>) \o t
    OBVIOUS
  <1>5. x2 = Glue(x1, Eq, t) /\ IsText(x2)
    <2>1. x2 = Glue(x1, Eq, t)
      BY <1>3, <1>4, GluedLeft
    <2> QED BY <1>3, <1>4, <2>1, GlueText
  <1>6. PICK x3 : x3 = (x2 \o <<Eq>>) \o h
    OBVIOUS
  <1>7. x3 = Glue(x2, Eq, h) /\ IsText(x3)
    <2>1. x3 = Glue(x2, Eq, h)
      BY <1>5, <1>6, GluedLeft
    <2> QED BY <1>5, <1>6, <2>1, GlueText
  <1>8. PICK x4 : x4 = (x3 \o <<Eq>>) \o u
    OBVIOUS
  <1>9. x4 = Glue(x3, Eq, u)
    BY <1>7, <1>8, GluedLeft
  <1>10. PICK hu : hu = Glue(h, Eq, u) /\ IsText(hu)
    BY GlueText
  <1>11. PICK thu : thu = Glue(t, Eq, hu) /\ IsText(thu)
    BY <1>10, GlueText
  <1>12. x4 = Glue(x2, Eq, hu)
    BY <1>5, <1>7, <1>9, <1>10, GlueAssoc
  <1>13. x4 = Glue(x1, Eq, thu)
    BY <1>3, <1>5, <1>10, <1>11, <1>12, GlueAssoc
  <1>14. x4 = Glue(k, Eq, Glue(d, Eq, thu))
    BY <1>1, <1>3, <1>11, <1>13, GlueAssoc
  <1> QED BY <1>1, <1>2, <1>4, <1>6, <1>8, <1>10, <1>11, <1>14 DEF S0, Inner

\* What it prints for an SRS1 address.
LEMMA S1Printed ==
  ASSUME NEW h, NEW x, IsText(h), IsText(x)
  PROVE  <<SRS_WRAP, Eq>> \o h \o <<Eq>> \o x = S1(h, x)
PROOF
  <1>1. PICK k : k = <<SRS_WRAP>> /\ IsText(k)
    BY TextTuples
  <1>2. PICK x1 : x1 = <<SRS_WRAP, Eq>> \o h
    OBVIOUS
  <1>3. x1 = Glue(k, Eq, h) /\ IsText(x1)
    <2>1. x1 = Glue(k, Eq, h)
      BY <1>1, <1>2, TagFront
    <2> QED BY <1>1, <1>2, <2>1, GlueText
  <1>4. (x1 \o <<Eq>>) \o x = Glue(x1, Eq, x)
    BY <1>3, GluedLeft
  <1>5. Glue(x1, Eq, x) = Glue(k, Eq, Glue(h, Eq, x))
    BY <1>1, <1>3, GlueAssoc
  <1> QED BY <1>1, <1>2, <1>4, <1>5 DEF S1

\* What SRS_parse() prints for the first relay.
LEMMA UnwrappedPrinted ==
  ASSUME NEW q, NEW x, IsText(q), IsText(x)
  PROVE  <<SRS_TAG, Eq>> \o x \o <<At>> \o q = Mailbox(S0(Eq, x), q)
PROOF
  <1>1. PICK k : k = <<SRS_TAG>> /\ IsText(k)
    BY TextTuples
  <1>2. PICK x1 : x1 = <<SRS_TAG, Eq>> \o x
    OBVIOUS
  <1>3. x1 = Glue(k, Eq, x) /\ IsText(x1)
    <2>1. x1 = Glue(k, Eq, x)
      BY <1>1, <1>2, TagFront
    <2> QED BY <1>1, <1>2, <2>1, GlueText
  <1>4. (x1 \o <<At>>) \o q = Glue(x1, At, q)
    BY <1>3, GluedLeft
  <1> QED BY <1>1, <1>2, <1>3, <1>4 DEF S0, Mailbox

\* A hash and a stamp, as they are made.
LEMMA HashSound ==
  ASSUME NEW handle, handle.hash_len \in 1..22, NEW data
  PROVE  /\ SRS_hash_create(handle, data) = <<Hash(Key(handle), data, handle.hash_len)>>
         /\ Sound(SRS_hash_create(handle, data))
         /\ StrLen(SRS_hash_create(handle, data)) = handle.hash_len
PROOF
  <1>1. PICK n \in 1..22 : n = handle.hash_len
    OBVIOUS
  <1>2. SRS_hash_create(handle, data) = <<Hash(Key(handle), data, n)>>
    BY <1>1 DEF SRS_hash_create, CRYPTO_hmac_sha1
  <1>3. PICK c : c = Hash(Key(handle), data, n)
    OBVIOUS
  <1>4. TokenOK(c) /\ TokenLen(c) = n /\ n \in Nat
    <2>1. n \in Nat
      OBVIOUS
    <2> QED BY <1>3, <2>1, TokensOK, TokenLens
  <1>5. Sound(<<c>>) /\ StrLen(<<c>>) = n
    BY <1>4, SoundOne, StrLenOne
  <1> QED BY <1>1, <1>2, <1>3, <1>5

\* A timestamp is sound, and holds digits only.
LEMMA StampSound ==
  ASSUME NEW d \in Nat
  PROVE  /\ Sound(SRS_timestamp_create(d)) /\ StrLen(SRS_timestamp_create(d)) = 2
         /\ \A c : c.kind # "base32" => Without(SRS_timestamp_create(d), c)
PROOF
  <1>1. PICK x, y : /\ x = Base32((d \div 32) % 32) /\ y = Base32(d % 32)
    OBVIOUS
  <1>2. (d \div 32) % 32 \in 0..31 /\ d % 32 \in 0..31
    OBVIOUS
  <1>3. /\ TokenOK(x) /\ TokenOK(y) /\ TokenLen(x) = 1 /\ TokenLen(y) = 1
        /\ x.kind = "base32" /\ y.kind = "base32"
    <2>1. \A n : Base32(n).kind = "base32"
      BY DEF Base32
    <2> QED BY <1>1, <1>2, <2>1, TokensOK, TokenLens
  <1>4. PICK s : s = <<x, y>>
    OBVIOUS
  <1>5. IsText(s) /\ Len(s) = 2 /\ s[1] = x /\ s[2] = y
    BY <1>4, TextTuples
  <1>6. \A i \in 1..Len(s) : i = 1 \/ i = 2
    BY <1>5
  <1>7. Sound(s)
    BY <1>3, <1>5, <1>6 DEF Sound
  <1>8. StrLen(s) = 2
    BY <1>3, <1>4, StrLenTwo
  <1>9. \A c : c.kind # "base32" => Without(s, c)
    BY <1>3, <1>5, <1>6 DEF Without
  <1> QED BY <1>1, <1>4, <1>7, <1>8, <1>9 DEF SRS_timestamp_create

\* The blocks for hashes are long enough for every digest without a zero byte
\* among its first sixteen.
LEMMA HashBlockEnough ==
  ASSUME NEW handle, handle.hash_len \in 1..22, NEW zero \in 0..20, zero \notin 1..16
  PROVE  ~HashOverruns(handle, zero)
  BY DEF HashOverruns, HashBlock

\* The local part that an address without a tag is given.
FirstLocal(handle, user, host, d) ==
    LET stamp == SRS_timestamp_create(d)
        hash  == SRS_hash_create(handle, UTIL_create_hashdata(stamp, host, user))
    IN  S0(Eq, Inner(hash, stamp, host, user))

\* An answer that prints w, which is n long.
Compiles(ans, w, n, zero) ==
    /\ ans.ret = "ok" /\ Sound(ans.out)
    /\ zero \notin 1..16 => ~ans.over
    /\ Sound(w) /\ StrLen(w) = n
    /\ StrLen(w) < MAX_RWA => ans.out = w

\* What SRS_compile() makes of an address without a tag.
LEMMA CompiledSound ==
  ASSUME NEW handle, handle.hash_len \in 1..22, NEW user, NEW host,
         Sound(user), Sound(host), NEW d \in Nat, NEW zero \in 0..20
  PROVE  Compiles(Compiled(handle, user, host, d, zero),
                  FirstLocal(handle, user, host, d),
                  handle.hash_len + StrLen(host) + StrLen(user) + 10, zero)
PROOF
  <1>1. PICK t : t = SRS_timestamp_create(d)
    OBVIOUS
  <1>2. PICK h : h = SRS_hash_create(handle, UTIL_create_hashdata(t, host, user))
    OBVIOUS
  <1>3. /\ Sound(t) /\ StrLen(t) = 2 /\ Sound(h) /\ StrLen(h) = handle.hash_len
    BY <1>1, <1>2, HashSound, StampSound
  <1>4. PICK s : s = S0(Eq, Inner(h, t, host, user))
    OBVIOUS
  <1>5. s = <<SRS_TAG, Eq>> \o h \o <<Eq>> \o t \o <<Eq>> \o host \o <<Eq>> \o user
    BY <1>3, <1>4, S0Printed DEF Sound
  <1>6. Sound(s) /\ StrLen(s) = handle.hash_len + StrLen(host) + StrLen(user) + 10
    <2>0. TokenOK(Eq) /\ TokenLen(Eq) = 1 /\ TokenOK(SRS_TAG) /\ TokenLen(SRS_TAG) = 4
      BY TokensOK, TokenLens DEF SRS_TAG
    <2>1. PICK x1 : x1 = Glue(host, Eq, user)
      OBVIOUS
    <2>2. Sound(x1) /\ StrLen(x1) = StrLen(host) + 1 + StrLen(user)
      BY <2>0, <2>1, GlueSound
    <2>3. PICK x2 : x2 = Glue(t, Eq, x1)
      OBVIOUS
    <2>4. Sound(x2) /\ StrLen(x2) = 2 + 1 + StrLen(x1)
      BY <1>3, <2>0, <2>2, <2>3, GlueSound
    <2>5. PICK x3 : x3 = Glue(h, Eq, x2)
      OBVIOUS
    <2>6. Sound(x3) /\ StrLen(x3) = handle.hash_len + 1 + StrLen(x2)
      BY <1>3, <2>0, <2>4, <2>5, GlueSound
    <2>7. PICK k : k = <<SRS_TAG>>
      OBVIOUS
    <2>8. Sound(k) /\ StrLen(k) = 4
      BY <2>0, <2>7, SoundOne, StrLenOne DEF TokenOK
    <2>9. Sound(Glue(k, Eq, x3)) /\ StrLen(Glue(k, Eq, x3)) = 4 + 1 + StrLen(x3)
      BY <2>0, <2>6, <2>8, GlueSound
    <2>10. s = Glue(k, Eq, x3)
      BY <1>4, <2>1, <2>3, <2>5, <2>7 DEF S0, Inner
    <2>11. StrLen(host) \in Nat /\ StrLen(user) \in Nat
      BY SoundMeasured, StrLenType
    <2> QED BY <2>2, <2>4, <2>6, <2>9, <2>10, <2>11
  <1>7. PICK n : n = 4 + StrLen(h \o t \o host \o user) + 5
    OBVIOUS
  <1>8. n = handle.hash_len + StrLen(host) + StrLen(user) + 11 /\ n \in Int
    <2>1. Measured(h) /\ Measured(t) /\ Measured(host) /\ Measured(user)
      BY <1>3, SoundMeasured
    <2>2. PICK x1 : x1 = h \o t
      OBVIOUS
    <2>3. Measured(x1) /\ StrLen(x1) = StrLen(h) + StrLen(t)
      BY <2>1, <2>2, StrLenConcat
    <2>4. PICK x2 : x2 = x1 \o host
      OBVIOUS
    <2>5. Measured(x2) /\ StrLen(x2) = StrLen(x1) + StrLen(host)
      BY <2>1, <2>3, <2>4, StrLenConcat
    <2>6. StrLen(x2 \o user) = StrLen(x2) + StrLen(user)
      BY <2>1, <2>5, StrLenConcat
    <2>7. StrLen(host) \in Nat /\ StrLen(user) \in Nat
      BY <2>1, StrLenType
    <2>8. n = 4 + StrLen(x2 \o user) + 5
      BY <1>7, <2>2, <2>4
    <2> QED BY <1>3, <2>3, <2>5, <2>6, <2>7, <2>8
  <1>9. PICK print : print = Snprintf(n, s)
    OBVIOUS
  <1>10. /\ print.ret = "ok" /\ Sound(print.out) /\ ~print.over
         /\ DOMAIN print = {"ret", "out", "over"}
         /\ StrLen(s) < MAX_RWA => print.out = s
    <2>1. StrLen(s) + 1 <= n
      <3>1. StrLen(host) \in Nat /\ StrLen(user) \in Nat
        BY SoundMeasured, StrLenType
      <3> QED BY <1>6, <1>8, <3>1
    <2> QED BY <1>6, <1>8, <1>9, <2>1, SnprintfSound
  <1>11. PICK over \in BOOLEAN : over <=> (print.over \/ HashOverruns(handle, zero))
    OBVIOUS
  <1>12. over = (print.over \/ HashOverruns(handle, zero))
    BY <1>11
  <1>13. Compiled(handle, user, host, d, zero) = [print EXCEPT !.over = over]
    BY <1>1, <1>2, <1>5, <1>7, <1>9, <1>12, Zenon DEF Compiled
  <1>14. zero \notin 1..16 => ~over
    BY <1>10, <1>11, HashBlockEnough
  <1>15. PICK ans : ans = [print EXCEPT !.over = over]
    OBVIOUS
  <1>16. ans.ret = "ok" /\ ans.out = print.out /\ ans.over = over
    BY <1>10, <1>15
  <1>17. ans = Compiled(handle, user, host, d, zero)
    BY <1>13, <1>15
  <1>18. s = FirstLocal(handle, user, host, d)
    BY <1>1, <1>2, <1>4 DEF FirstLocal
  <1>19. Compiles(ans, s, handle.hash_len + StrLen(host) + StrLen(user) + 10, zero)
    BY <1>6, <1>10, <1>14, <1>16 DEF Compiles
  <1> QED BY <1>17, <1>18, <1>19

\* What SRS_compile() makes of an SRS0 address.
LEMMA WrapSound ==
  ASSUME NEW user, NEW host, Sound(user), Sound(host),
         UTIL_get_rtype_sep(user) # 0
  PROVE  LET ans == Wrap(user, host)
             rwa == From(user, UTIL_get_rtype_sep(user) + 1)
         IN  /\ ans.ret = "ok" /\ Sound(ans.out) /\ ~ans.over
             /\ Sound(rwa) /\ Sound(S1(host, rwa))
             /\ StrLen(S1(host, rwa)) = StrLen(host) + StrLen(rwa) + 6
             /\ StrLen(S1(host, rwa)) < MAX_RWA => ans.out = S1(host, rwa)
PROOF
  <1>1. PICK sep : sep = UTIL_get_rtype_sep(user)
    OBVIOUS
  <1>2. sep \in 1..Len(user) /\ Len(user) \in Nat
    <2>1. \E i \in 1..Len(user) :
            user[i] \in srs_separators /\ StrLen(Before(user, i)) = 4
      BY Zenon DEF UTIL_get_rtype_sep
    <2>2. sep = CHOOSE i \in 1..Len(user) :
                  user[i] \in srs_separators /\ StrLen(Before(user, i)) = 4
      BY <1>1, <2>1, Zenon DEF UTIL_get_rtype_sep
    <2> DEFINE P(i) == user[i] \in srs_separators /\ StrLen(Before(user, i)) = 4
    <2>3. (\E i \in 1..Len(user) : P(i)) /\ sep = CHOOSE i \in 1..Len(user) : P(i)
      BY <2>1, <2>2, Zenon
    <2> HIDE DEF P
    <2>4. sep \in 1..Len(user)
      BY <2>3
    <2> QED BY <2>4, TextIndex DEF Sound
  <1>3. PICK x : x = From(user, sep + 1)
    OBVIOUS
  <1>4. Sound(x)
    BY <1>2, <1>3, SoundPart DEF From
  <1>5. PICK s : s = S1(host, x)
    OBVIOUS
  <1>6. s = <<SRS_WRAP, Eq>> \o host \o <<Eq>> \o x
    BY <1>4, <1>5, S1Printed DEF Sound
  <1>7. /\ Sound(s) /\ StrLen(s) = StrLen(host) + StrLen(x) + 6
        /\ StrLen(host) \in Nat /\ StrLen(x) \in Nat
    <2>0. TokenOK(Eq) /\ TokenLen(Eq) = 1 /\ TokenOK(SRS_WRAP) /\ TokenLen(SRS_WRAP) = 4
      BY TokensOK, TokenLens DEF SRS_WRAP
    <2>1. PICK x1 : x1 = Glue(host, Eq, x)
      OBVIOUS
    <2>2. Sound(x1) /\ StrLen(x1) = StrLen(host) + 1 + StrLen(x)
      BY <1>4, <2>0, <2>1, GlueSound
    <2>3. PICK k : k = <<SRS_WRAP>>
      OBVIOUS
    <2>4. Sound(k) /\ StrLen(k) = 4
      BY <2>0, <2>3, SoundOne, StrLenOne DEF TokenOK
    <2>5. Sound(Glue(k, Eq, x1)) /\ StrLen(Glue(k, Eq, x1)) = 4 + 1 + StrLen(x1)
      BY <2>0, <2>2, <2>4, GlueSound
    <2>6. s = Glue(k, Eq, x1)
      BY <1>5, <2>1, <2>3 DEF S1
    <2>7. StrLen(host) \in Nat /\ StrLen(x) \in Nat
      BY <1>4, SoundMeasured, StrLenType
    <2> QED BY <2>2, <2>5, <2>6, <2>7
  <1>8. PICK n : n = 4 + StrLen(host) + StrLen(x) + 3
    OBVIOUS
  <1>9. n \in Int /\ StrLen(s) + 1 <= n
    BY <1>7, <1>8
  <1>10. Wrap(user, host) = Snprintf(n, s)
    BY <1>1, <1>3, <1>6, <1>8 DEF Wrap
  <1> QED BY <1>1, <1>3, <1>4, <1>5, <1>7, <1>9, <1>10, SnprintfSound

\* The local part of a rewritten address.
LEMMA LocalSound ==
  ASSUME NEW handle, handle.hash_len \in 1..22, NEW user, NEW host,
         Sound(user), Sound(host), NEW d \in Nat, NEW zero \in 0..20
  PROVE  LET ans == Local(handle, user, host, d, zero) IN
         \/ ans = Crash
         \/ /\ ans.ret = "ok" /\ Sound(ans.out)
            /\ zero \notin 1..16 => ~ans.over
PROOF
  <1>1. CASE HasTag(user, "SRS1")
    BY <1>1 DEF Local, Answer
  <1>2. CASE ~HasTag(user, "SRS1") /\ ~Has(user, SRS_TAG)
    <2>1. Local(handle, user, host, d, zero) = Compiled(handle, user, host, d, zero)
      BY <1>2 DEF Local, SRS_compile
    <2>2. Compiles(Compiled(handle, user, host, d, zero),
                   FirstLocal(handle, user, host, d),
                   handle.hash_len + StrLen(host) + StrLen(user) + 10, zero)
      BY CompiledSound
    <2> QED BY <2>1, <2>2 DEF Compiles
  <1>3. CASE ~HasTag(user, "SRS1") /\ Has(user, SRS_TAG)
    BY <1>3, WrapSound DEF Local, SRS_compile
  <1> QED BY <1>1, <1>2, <1>3

\* The alias of a relay has its name behind the at sign.
LEMMA AliasHost ==
  ASSUME NEW r
  PROVE  Has(Alias(r), At) /\ From(Alias(r), StrChr(Alias(r), 1, At) + 1) = <<Name(r)>>
PROOF
  <1>1. PICK a, b : a = <<Name("alias")>> /\ b = <<Name(r)>>
    OBVIOUS
  <1>2. /\ IsText(a) /\ Len(a) = 1 /\ a[1] = Name("alias")
        /\ IsText(b) /\ Len(b) = 1 /\ b[1] = Name(r)
    BY <1>1, TextTuples
  <1>3. PICK s : s = Glue(a, At, b)
    OBVIOUS
  <1>4. /\ IsText(s) /\ Len(s) = 3
        /\ s[1] = Name("alias") /\ s[2] = At /\ s[3] = Name(r)
    <2>1. /\ IsText(s) /\ Len(s) = Len(a) + 1 + Len(b)
          /\ \A i \in 1..Len(a) : s[i] = a[i]
          /\ s[Len(a) + 1] = At
          /\ \A i \in 1..Len(b) : s[Len(a) + 1 + i] = b[i]
      <3>1. IsText(a) /\ IsText(b)
        BY <1>2
      <3>2. Glued(s, a, At, b)
        BY <1>3, <3>1, GlueIndex
      <3> QED BY <3>2 DEF Glued
    <2>2. 1 \in 1..Len(a) /\ 1 \in 1..Len(b) /\ Len(a) + 1 = 2 /\ Len(a) + 1 + 1 = 3
      BY <1>2
    <2> QED BY <1>2, <2>1, <2>2
  <1>5. PICK t : t = Alias(r)
    OBVIOUS
  <1>6. /\ IsText(t) /\ Len(t) = 3
        /\ t[1] = Name("alias") /\ t[2] = At /\ t[3] = Name(r)
    <2>1. t = <<Name("alias"), At, Name(r)>>
      BY <1>5 DEF Alias
    <2>2. t \in Seq({Name("alias"), At, Name(r)})
      BY <2>1
    <2> QED BY <2>1, <2>2, SequencesAreTexts
  <1>7. s = t
    <2>1. \A i \in 1..3 : s[i] = t[i]
      BY <1>4, <1>6
    <2> QED BY <1>4, <1>6, <2>1, TextEqual
  <1>8. Without(a, At)
    BY <1>2, TokensDiffer DEF Without
  <1>9. StrChr(s, 1, At) # 0 /\ From(s, StrChr(s, 1, At) + 1) = b
    BY <1>2, <1>3, <1>8, GlueSplit
  <1> QED BY <1>1, <1>5, <1>7, <1>9 DEF Has

\* The at sign and the host behind a local part.
LEMMA MailboxSound ==
  ASSUME NEW w, NEW h, Sound(w), Sound(h)
  PROVE  /\ Sound(Mailbox(w, h))
         /\ StrLen(Mailbox(w, h)) = StrLen(w) + 1 + StrLen(h)
         /\ w \o <<At>> \o h = Mailbox(w, h)
PROOF
  <1>1. TokenOK(At) /\ TokenLen(At) = 1
    BY TokensOK, TokenLens
  <1>2. /\ Sound(Glue(w, At, h))
        /\ StrLen(Glue(w, At, h)) = StrLen(w) + TokenLen(At) + StrLen(h)
    BY <1>1, GlueSound
  <1>3. (w \o <<At>>) \o h = Glue(w, At, h)
    BY GluedLeft DEF Sound
  <1> QED BY <1>1, <1>2, <1>3 DEF Mailbox

\* A name is a sound string.
LEMMA NameSound == \A n : Sound(<<Name(n)>>) /\ StrLen(<<Name(n)>>) = NameLen
  BY TokensOK, SoundOne, StrLenOne, TokenLens DEF TokenOK

\* An answer that prints the relay behind a local part.
Posted(ans, local, r) ==
    LET out == Mailbox(local.out, <<Name(r)>>) IN
    /\ ans.ret = "ok" /\ Sound(ans.out)
    /\ ~local.over => ~ans.over
    /\ Sound(out) /\ StrLen(out) = StrLen(local.out) + 1 + NameLen
    /\ StrLen(out) < MAX_RWA => ans.out = out

\* SRS_forward() puts the at sign and the relay behind the local part.
LEMMA ForwardPrints ==
  ASSUME NEW handle, NEW s, Has(s, At), NEW r, NEW d, NEW zero,
         NEW user, user = Before(s, StrChr(s, 1, At)),
         NEW host, host = From(s, StrChr(s, 1, At) + 1),
         NEW local, local = Local(handle, user, host, d, zero),
         local.ret = "ok", Sound(local.out)
  PROVE  Posted(SRS_forward(handle, s, Alias(r), d, zero), local, r)
PROOF
  <1>1. PICK h : h = <<Name(r)>>
    OBVIOUS
  <1>2. Sound(h) /\ StrLen(h) = NameLen
    BY <1>1, NameSound
  <1>3. PICK out : out = Mailbox(local.out, h)
    OBVIOUS
  <1>4. /\ Sound(out) /\ StrLen(out) = StrLen(local.out) + 1 + NameLen
        /\ local.out \o <<At>> \o h = out
    BY <1>2, <1>3, MailboxSound
  <1>5. PICK n : n = StrLen(local.out) + StrLen(h) + 2
    OBVIOUS
  <1>6. n \in Int /\ StrLen(out) + 1 <= n
    <2>1. StrLen(local.out) \in Nat /\ NameLen \in Nat
      BY SoundMeasured, StrLenType, NameLenAssumption
    <2> QED BY <1>2, <1>4, <1>5, <2>1
  <1>7. PICK print : print = Snprintf(n, out)
    OBVIOUS
  <1>8. /\ print.ret = "ok" /\ Sound(print.out) /\ ~print.over
        /\ DOMAIN print = {"ret", "out", "over"}
        /\ StrLen(out) < MAX_RWA => print.out = out
    BY <1>4, <1>6, <1>7, SnprintfSound
  <1>9. PICK over \in BOOLEAN : over <=> (print.over \/ local.over)
    OBVIOUS
  <1>10. over = (print.over \/ local.over)
    BY <1>9
  <1>11. SRS_forward(handle, s, Alias(r), d, zero) = [print EXCEPT !.over = over]
    <2>1. /\ Has(Alias(r), At)
          /\ From(Alias(r), StrChr(Alias(r), 1, At) + 1) = h
      BY <1>1, AliasHost
    <2>2. UTIL_split_addr(s).user = user /\ UTIL_split_addr(s).host = host
      BY DEF UTIL_split_addr
    <2> QED BY <1>4, <1>5, <1>7, <1>10, <2>1, <2>2, Zenon DEF SRS_forward
  <1>12. PICK ans : ans = [print EXCEPT !.over = over]
    OBVIOUS
  <1>13. ans.ret = "ok" /\ ans.out = print.out /\ ans.over = over
    BY <1>8, <1>12
  <1>14. ans = SRS_forward(handle, s, Alias(r), d, zero)
    BY <1>11, <1>12
  <1>15. Posted(ans, local, r)
    BY <1>1, <1>3, <1>4, <1>8, <1>9, <1>13 DEF Posted
  <1> QED BY <1>14, <1>15

\* Whatever SRS_forward() is given, its answer is sound, and written into blocks
\* that are measured for it.
LEMMA ForwardSound ==
  ASSUME NEW handle, handle.hash_len \in 1..22, NEW s, Sound(s), NEW r,
         NEW d \in Nat, NEW zero \in 0..20
  PROVE  LET ans == SRS_forward(handle, s, Alias(r), d, zero) IN
         /\ ans.ret = "ok" => Sound(ans.out)
         /\ ans.ret # "ok" => ans \in {Exit, Crash}
         /\ zero \notin 1..16 => ~ans.over
PROOF
  <1>1. Exit.ret # "ok" /\ Crash.ret # "ok" /\ ~Exit.over /\ ~Crash.over
    BY DEF Exit, Crash
  <1>2. CASE ~Has(s, At)
    <2>1. SRS_forward(handle, s, Alias(r), d, zero) = Exit
      BY <1>2 DEF SRS_forward
    <2> QED BY <1>1, <2>1
  <1>3. CASE Has(s, At)
    <2>1. PICK user, host : /\ user = Before(s, StrChr(s, 1, At))
                            /\ host = From(s, StrChr(s, 1, At) + 1)
      OBVIOUS
    <2>2. Sound(user) /\ Sound(host)
      BY <1>3, <2>1, SoundSplit
    <2>3. PICK local : local = Local(handle, user, host, d, zero)
      OBVIOUS
    <2>4. CASE local = Crash
      <3>1. UTIL_split_addr(s).user = user /\ UTIL_split_addr(s).host = host
        BY <2>1 DEF UTIL_split_addr
      <3>2. SRS_forward(handle, s, Alias(r), d, zero) = Crash
        BY <1>1, <1>3, <2>3, <2>4, <3>1, Zenon DEF SRS_forward
      <3> QED BY <1>1, <3>2
    <2>5. CASE /\ local.ret = "ok" /\ Sound(local.out)
               /\ zero \notin 1..16 => ~local.over
      <3>1. local.ret = "ok" /\ Sound(local.out)
        BY <2>5
      <3>2. Posted(SRS_forward(handle, s, Alias(r), d, zero), local, r)
        BY <1>3, <2>1, <2>3, <3>1, ForwardPrints
      <3> QED BY <2>5, <3>2 DEF Posted
    <2> QED BY <2>2, <2>3, <2>4, <2>5, LocalSound
  <1> QED BY <1>2, <1>3

\* A separator that is found is in the string.
LEMMA SepPlace ==
  ASSUME NEW s, UTIL_get_rtype_sep(s) # 0
  PROVE  UTIL_get_rtype_sep(s) \in 1..Len(s)
PROOF
  <1> DEFINE P(i) == s[i] \in srs_separators /\ StrLen(Before(s, i)) = 4
  <1>1. \E i \in 1..Len(s) : P(i)
    BY Zenon DEF UTIL_get_rtype_sep
  <1>2. UTIL_get_rtype_sep(s) = CHOOSE i \in 1..Len(s) : P(i)
    BY <1>1, Zenon DEF UTIL_get_rtype_sep
  <1> HIDE DEF P
  <1> QED BY <1>1, <1>2

\* What stands behind it is sound.
LEMMA BehindSep ==
  ASSUME NEW s, Sound(s), UTIL_get_rtype_sep(s) # 0
  PROVE  Sound(From(s, UTIL_get_rtype_sep(s) + 1))
PROOF
  <1>1. PICK sep : sep = UTIL_get_rtype_sep(s)
    OBVIOUS
  <1>2. sep \in 1..Len(s) /\ Len(s) \in Nat
    BY <1>1, SepPlace, TextIndex DEF Sound
  <1>3. Sound(SubSeq(s, sep + 1, Len(s)))
    BY <1>2, SoundPart
  <1> QED BY <1>1, <1>3 DEF From

\* An answer that prints a string into a block that is long enough.
Printed(ans, out) ==
    /\ ans.ret = "ok" /\ Sound(ans.out) /\ Sound(out)
    /\ StrLen(out) < MAX_RWA => ans.out = out

\* The branch of SRS_parse() for SRS1, when the address has all its parts.
LEMMA UnwrapPrints ==
  ASSUME NEW addr, Sound(addr), UTIL_get_rtype_sep(addr) # 0,
         NEW s, s = From(addr, UTIL_get_rtype_sep(addr) + 1), Has(s, At),
         NEW c, c = Before(s, StrChr(s, 1, At)), Has(c, Eq)
  PROVE  /\ Printed(Unwrap(addr), Mailbox(S0(Eq, Rest(c)), Field(c)))
         /\ ~Unwrap(addr).over
PROOF
  <1>1. Sound(s)
    BY BehindSep
  <1>2. Sound(c)
    BY <1>1, SoundSplit
  <1>3. PICK x, q : x = Rest(c) /\ q = Field(c)
    OBVIOUS
  <1>4. Sound(x) /\ Sound(q)
    BY <1>2, <1>3, SoundSplit DEF Rest, Field
  <1>5. PICK w : w = S0(Eq, x)
    OBVIOUS
  <1>6. Sound(w) /\ StrLen(w) = StrLen(x) + 5
    <2>1. TokenOK(Eq) /\ TokenLen(Eq) = 1 /\ TokenOK(SRS_TAG) /\ TokenLen(SRS_TAG) = 4
      BY TokensOK, TokenLens DEF SRS_TAG
    <2>2. PICK k : k = <<SRS_TAG>>
      OBVIOUS
    <2>3. Sound(k) /\ StrLen(k) = 4
      BY <2>1, <2>2, SoundOne, StrLenOne DEF TokenOK
    <2>4. Sound(Glue(k, Eq, x)) /\ StrLen(Glue(k, Eq, x)) = 4 + 1 + StrLen(x)
      BY <1>4, <2>1, <2>3, GlueSound
    <2>5. StrLen(x) \in Nat
      BY <1>4, SoundMeasured, StrLenType
    <2> QED BY <1>5, <2>2, <2>4, <2>5 DEF S0
  <1>7. PICK out : out = Mailbox(w, q)
    OBVIOUS
  <1>8. Sound(out) /\ StrLen(out) = StrLen(w) + 1 + StrLen(q)
    BY <1>4, <1>6, <1>7, MailboxSound
  <1>9. out = <<SRS_TAG, Eq>> \o x \o <<At>> \o q
    BY <1>4, <1>5, <1>7, UnwrappedPrinted DEF Sound
  <1>10. PICK n : n = 4 + StrLen(x) + StrLen(q) + 3
    OBVIOUS
  <1>11. n \in Int /\ StrLen(out) + 1 <= n
    <2>1. StrLen(x) \in Nat /\ StrLen(q) \in Nat
      BY <1>4, SoundMeasured, StrLenType
    <2> QED BY <1>6, <1>8, <1>10, <2>1
  <1>12. Unwrap(addr) = Snprintf(n, out)
    BY <1>3, <1>9, <1>10, Zenon DEF Unwrap
  <1>13. Printed(Snprintf(n, out), out) /\ ~Snprintf(n, out).over
    BY <1>8, <1>11, SnprintfSound DEF Printed
  <1> QED BY <1>3, <1>5, <1>7, <1>12, <1>13

\* The parts of an SRS0 address, where SRS_parse() finds them.
Parts(addr, d, t, h, user) ==
    \E a, b, e, l :
      /\ UTIL_get_rtype_sep(addr) # 0
      /\ a = From(addr, UTIL_get_rtype_sep(addr) + 1) /\ Has(a, Eq)
      /\ d = Field(a) /\ b = Rest(a) /\ Has(b, Eq)
      /\ t = Field(b) /\ e = Rest(b) /\ Has(e, Eq)
      /\ h = Field(e) /\ l = Rest(e) /\ Has(l, At)
      /\ user = Before(l, StrChr(l, 1, At))

\* An address without all of them crashes the process.
LEMMA NoParts ==
  ASSUME NEW handle, NEW addr, NEW day_, NEW zero,
         Decompile(handle, addr, day_, zero) # Crash
  PROVE  \E d, t, h, user : Parts(addr, d, t, h, user)
PROOF
  <1>1. PICK a : a = From(addr, UTIL_get_rtype_sep(addr) + 1)
    OBVIOUS
  <1>2. PICK d, b : d = Field(a) /\ b = Rest(a)
    OBVIOUS
  <1>3. PICK t, e : t = Field(b) /\ e = Rest(b)
    OBVIOUS
  <1>4. PICK h, l : h = Field(e) /\ l = Rest(e)
    OBVIOUS
  <1>5. PICK user : user = Before(l, StrChr(l, 1, At))
    OBVIOUS
  <1>6. /\ UTIL_get_rtype_sep(addr) # 0 /\ Has(a, Eq) /\ Has(b, Eq) /\ Has(e, Eq)
        /\ Has(l, At)
    BY <1>1, <1>2, <1>3, <1>4, Zenon DEF Decompile
  <1> QED BY <1>1, <1>2, <1>3, <1>4, <1>5, <1>6, Zenon DEF Parts

\* The parts are sound.
LEMMA PartsSound ==
  ASSUME NEW addr, Sound(addr), NEW d, NEW t, NEW h, NEW user,
         Parts(addr, d, t, h, user)
  PROVE  Sound(d) /\ Sound(t) /\ Sound(h) /\ Sound(user)
PROOF
  <1>1. PICK a, b, e, l :
          /\ UTIL_get_rtype_sep(addr) # 0
          /\ a = From(addr, UTIL_get_rtype_sep(addr) + 1) /\ Has(a, Eq)
          /\ d = Field(a) /\ b = Rest(a) /\ Has(b, Eq)
          /\ t = Field(b) /\ e = Rest(b) /\ Has(e, Eq)
          /\ h = Field(e) /\ l = Rest(e) /\ Has(l, At)
          /\ user = Before(l, StrChr(l, 1, At))
    BY DEF Parts
  <1>2. Sound(a)
    BY <1>1, BehindSep
  <1>3. Sound(d) /\ Sound(b)
    BY <1>1, <1>2, SoundSplit DEF Rest, Field
  <1>4. Sound(t) /\ Sound(e)
    BY <1>1, <1>3, SoundSplit DEF Rest, Field
  <1>5. Sound(h) /\ Sound(l)
    BY <1>1, <1>4, SoundSplit DEF Rest, Field
  <1>6. Sound(user)
    BY <1>1, <1>5, SoundSplit
  <1> QED BY <1>3, <1>4, <1>5, <1>6

\* Whether an SRS0 address with these parts is accepted.
Accepts(handle, day_, d, t, h, user) ==
    /\ SRS_timestamp_check(handle, t, day_)
    /\ SRS_hash_verify(handle, UTIL_create_hashdata(t, h, user), d)

\* The branch of SRS_parse() for SRS0, when the address has all its parts.
LEMMA DecompilePrints ==
  ASSUME NEW handle, handle.hash_len \in 1..22, NEW addr, Sound(addr),
         NEW day_, NEW zero \in 0..20, NEW d, NEW t, NEW h, NEW user,
         Parts(addr, d, t, h, user)
  PROVE  /\ ~Accepts(handle, day_, d, t, h, user) =>
              Decompile(handle, addr, day_, zero) = Exit
         /\ Accepts(handle, day_, d, t, h, user) =>
              /\ Printed(Decompile(handle, addr, day_, zero), Mailbox(user, h))
              /\ zero \notin 1..16 => ~Decompile(handle, addr, day_, zero).over
PROOF
  <1>1. PICK a, b, e, l :
          /\ UTIL_get_rtype_sep(addr) # 0
          /\ a = From(addr, UTIL_get_rtype_sep(addr) + 1) /\ Has(a, Eq)
          /\ d = Field(a) /\ b = Rest(a) /\ Has(b, Eq)
          /\ t = Field(b) /\ e = Rest(b) /\ Has(e, Eq)
          /\ h = Field(e) /\ l = Rest(e) /\ Has(l, At)
          /\ user = Before(l, StrChr(l, 1, At))
    BY DEF Parts
  <1>2. Sound(h) /\ Sound(user)
    BY PartsSound
  <1>3. ASSUME ~Accepts(handle, day_, d, t, h, user)
        PROVE  Decompile(handle, addr, day_, zero) = Exit
    <2>1. \/ ~SRS_timestamp_check(handle, t, day_)
          \/ ~SRS_hash_verify(handle, UTIL_create_hashdata(t, h, user), d)
      BY <1>3, Zenon DEF Accepts
    <2> QED BY <1>1, <2>1, Zenon DEF Decompile
  <1>4. ASSUME Accepts(handle, day_, d, t, h, user)
        PROVE  /\ Printed(Decompile(handle, addr, day_, zero), Mailbox(user, h))
               /\ zero \notin 1..16 => ~Decompile(handle, addr, day_, zero).over
    <2>1. PICK out : out = Mailbox(user, h)
      OBVIOUS
    <2>2. /\ Sound(out) /\ StrLen(out) = StrLen(user) + 1 + StrLen(h)
          /\ user \o <<At>> \o h = out
      BY <1>2, <2>1, MailboxSound
    <2>3. PICK n : n = StrLen(user) + StrLen(h) + 2
      OBVIOUS
    <2>4. n \in Int /\ StrLen(out) + 1 <= n
      <3>1. StrLen(user) \in Nat /\ StrLen(h) \in Nat
        BY <1>2, SoundMeasured, StrLenType
      <3> QED BY <2>2, <2>3, <3>1
    <2>5. PICK print : print = Snprintf(n, out)
      OBVIOUS
    <2>6. /\ print.ret = "ok" /\ Sound(print.out) /\ ~print.over
          /\ DOMAIN print = {"ret", "out", "over"}
          /\ StrLen(out) < MAX_RWA => print.out = out
      BY <2>2, <2>4, <2>5, SnprintfSound
    <2>7. PICK over \in BOOLEAN : over <=> (print.over \/ HashOverruns(handle, zero))
      OBVIOUS
    <2>8. over = (print.over \/ HashOverruns(handle, zero))
      BY <2>7
    <2>9. /\ SRS_timestamp_check(handle, t, day_)
          /\ SRS_hash_verify(handle, UTIL_create_hashdata(t, h, user), d)
      BY <1>4 DEF Accepts
    <2>10. Decompile(handle, addr, day_, zero) = [print EXCEPT !.over = over]
      BY <1>1, <2>2, <2>3, <2>5, <2>8, <2>9, Zenon DEF Decompile
    <2>11. PICK ans : ans = [print EXCEPT !.over = over]
      OBVIOUS
    <2>12. ans.ret = "ok" /\ ans.out = print.out /\ ans.over = over
      BY <2>6, <2>11
    <2>13. zero \notin 1..16 => ~over
      BY <2>6, <2>7, HashBlockEnough
    <2> QED BY <2>1, <2>2, <2>6, <2>10, <2>11, <2>12, <2>13 DEF Printed
  <1> QED BY <1>3, <1>4

\* Whatever SRS_reverse() is given, its answer is sound, and written into blocks
\* that are measured for it.
LEMMA ReverseSound ==
  ASSUME NEW handle, handle.hash_len \in 1..22, NEW s, Sound(s),
         NEW day_, NEW zero \in 0..20
  PROVE  LET ans == SRS_reverse(handle, s, day_, zero) IN
         /\ ans.ret = "ok" => Sound(ans.out)
         /\ ans.ret # "ok" => ans \in {Exit, Crash, NoRwa}
         /\ zero \notin 1..16 => ~ans.over
PROOF
  <1>1. /\ Exit.ret # "ok" /\ Crash.ret # "ok" /\ NoRwa.ret # "ok"
        /\ ~Exit.over /\ ~Crash.over /\ ~NoRwa.over
    BY DEF Exit, Crash, NoRwa
  <1>2. PICK ans : ans = SRS_reverse(handle, s, day_, zero)
    OBVIOUS
  <1>3. CASE ans \in {Exit, Crash, NoRwa}
    BY <1>1, <1>2, <1>3
  <1>4. CASE ans = Unwrap(s) /\ ans # Crash
    <2>1. /\ UTIL_get_rtype_sep(s) # 0
          /\ Has(From(s, UTIL_get_rtype_sep(s) + 1), At)
          /\ Has(Before(From(s, UTIL_get_rtype_sep(s) + 1),
                        StrChr(From(s, UTIL_get_rtype_sep(s) + 1), 1, At)), Eq)
      BY <1>4, Zenon DEF Unwrap
    <2>2. PICK b : b = From(s, UTIL_get_rtype_sep(s) + 1)
      OBVIOUS
    <2>3. PICK c : c = Before(b, StrChr(b, 1, At))
      OBVIOUS
    <2>4. Printed(Unwrap(s), Mailbox(S0(Eq, Rest(c)), Field(c))) /\ ~Unwrap(s).over
      BY <2>1, <2>2, <2>3, UnwrapPrints
    <2> QED BY <1>2, <1>4, <2>4 DEF Printed
  <1>5. CASE ans = Decompile(handle, s, day_, zero) /\ ans # Crash /\ ans # Exit
    <2>1. PICK d, t, h, user : Parts(s, d, t, h, user)
      BY <1>5, NoParts
    <2>2. /\ Printed(Decompile(handle, s, day_, zero), Mailbox(user, h))
          /\ zero \notin 1..16 => ~Decompile(handle, s, day_, zero).over
      BY <1>5, <2>1, DecompilePrints
    <2> QED BY <1>2, <1>5, <2>2 DEF Printed
  <1>6. \/ ans = Exit \/ ans = NoRwa \/ ans = Unwrap(s)
        \/ ans = Decompile(handle, s, day_, zero)
    BY <1>2, Zenon DEF SRS_reverse, SRS_parse
  <1> QED BY <1>3, <1>4, <1>5, <1>6

-----------------------------------------------------------------------------
(* The steps, field by field *)

Fields == {"state", "origin", "sender", "code", "over", "trail"}
States == {"new", "transit", "unsent", "bounce", "returned", "lost"}

\* Handles whose secret fits and whose hashes are no longer than there are
\* characters; envelopes with a sound sender.
HandleOK(h) ==
    /\ DOMAIN h = {"secret", "s_len", "hash_len", "hash_min", "age"}
    /\ h.secret \in Secrets /\ h.s_len \in 1..MAX_SECRET
    /\ h.hash_len \in 1..22 /\ h.hash_min \in Int /\ h.age \in Int

EnvelopeOK(e) ==
    /\ DOMAIN e = Fields
    /\ e.state \in States
    /\ IsText(e.trail) /\ Len(e.trail) <= MaxHops
    /\ Sound(e.sender)

Sane ==
    /\ day \in Days /\ settings \in 0..MaxSettings
    /\ DOMAIN srs = Relays /\ \A r \in Relays : HandleOK(srs[r])
    /\ DOMAIN mail = Mail /\ \A m \in Mail : EnvelopeOK(mail[m])

\* Only envelope m changes, and becomes f.
Becomes(m, f) ==
    /\ mail' = [mail EXCEPT ![m] = f] /\ DOMAIN f = Fields
    /\ UNCHANGED <<day, srs, settings>>

Submitted(m, o, f) ==
    /\ Becomes(m, f) /\ o \in Origins
    /\ mail[m].state = "new" /\ f.state = "transit"
    /\ f.origin = o /\ f.sender = o
    /\ f.code = mail[m].code /\ f.over = mail[m].over /\ f.trail = mail[m].trail

\* Bounce and HandOver: only the state changes.
Turned(m, f) ==
    /\ Becomes(m, f)
    /\ f.origin = mail[m].origin /\ f.sender = mail[m].sender
    /\ f.code = mail[m].code /\ f.over = mail[m].over /\ f.trail = mail[m].trail

Forwarded(m, r, ans, f) ==
    /\ Becomes(m, f)
    /\ mail[m].state = "transit" /\ Len(mail[m].trail) < MaxHops
    /\ f.origin = mail[m].origin /\ f.over = ans.over
    /\ ans.ret = "ok" => /\ f.state = "transit" /\ f.sender = ans.out
                         /\ f.code = "ok"
                         /\ f.trail = Append(mail[m].trail, Entry(r))
    /\ ans.ret # "ok" => /\ f.state = "unsent" /\ f.sender = mail[m].sender
                         /\ f.code = ans.ret /\ f.trail = mail[m].trail

Returned(m, r, ans, f) ==
    /\ Becomes(m, f)
    /\ mail[m].state = "bounce" /\ SenderHost(m) = <<Name(r)>>
    /\ f.origin = mail[m].origin /\ f.trail = mail[m].trail
    /\ ans.ret = "ok" => /\ f.state = "bounce" /\ f.sender = ans.out
                         /\ f.code = "ok" /\ f.over = ans.over
    /\ ans.ret = "NULL" => /\ f.state = "returned" /\ f.sender = mail[m].sender
                           /\ f.code = mail[m].code /\ f.over = mail[m].over
    /\ ans.ret \notin {"ok", "NULL"} =>
         /\ f.state = "lost" /\ f.sender = mail[m].sender
         /\ f.code = ans.ret /\ f.over = ans.over

\* Each action is the step that is named after it.
LEMMA SubmitEffect ==
  ASSUME NEW m \in Mail, EnvelopeOK(mail[m]), Submit(m)
  PROVE  \E o, f : Submitted(m, o, f)
PROOF
  <1> DEFINE g(o) == [mail[m] EXCEPT !.state = "transit",
                                     !.origin = o, !.sender = o]
  <1>1. PICK o \in Origins : mail' = [mail EXCEPT ![m] = g(o)]
    BY DEF Submit
  <1>2. PICK f : f = g(o)
    OBVIOUS
  <1>3. /\ DOMAIN f = Fields /\ f.state = "transit" /\ f.origin = o /\ f.sender = o
        /\ f.code = mail[m].code /\ f.over = mail[m].over /\ f.trail = mail[m].trail
    BY <1>2 DEF EnvelopeOK, Fields
  <1> HIDE DEF g
  <1> QED BY <1>1, <1>2, <1>3 DEF Submit, Submitted, Becomes

\* A bounce begins.
LEMMA BounceEffect ==
  ASSUME NEW m \in Mail, EnvelopeOK(mail[m]), Bounce(m)
  PROVE  \E f : /\ Turned(m, f)
                /\ mail[m].state = "transit" /\ f.state = "bounce"
PROOF
  <1>1. PICK f : f = [mail[m] EXCEPT !.state = "bounce"]
    OBVIOUS
  <1>2. mail' = [mail EXCEPT ![m] = f]
    BY <1>1 DEF Bounce
  <1>3. /\ DOMAIN f = Fields /\ f.state = "bounce" /\ f.origin = mail[m].origin
        /\ f.sender = mail[m].sender /\ f.code = mail[m].code
        /\ f.over = mail[m].over /\ f.trail = mail[m].trail
    BY <1>1 DEF EnvelopeOK, Fields
  <1> QED BY <1>2, <1>3 DEF Bounce, Turned, Becomes

\* A bounce is handed over, or is lost without a host.
LEMMA HandOverEffect ==
  ASSUME NEW m \in Mail, EnvelopeOK(mail[m]), HandOver(m)
  PROVE  \E f : /\ Turned(m, f)
                /\ mail[m].state = "bounce"
                /\ \A r \in Relays : SenderHost(m) # <<Name(r)>>
                /\ Has(mail[m].sender, At) => f.state = "returned"
                /\ ~Has(mail[m].sender, At) => f.state = "lost"
PROOF
  <1>1. PICK st : st = IF Has(mail[m].sender, At) THEN "returned" ELSE "lost"
    OBVIOUS
  <1>2. PICK f : f = [mail[m] EXCEPT !.state = st]
    OBVIOUS
  <1>3. mail' = [mail EXCEPT ![m] = f]
    BY <1>1, <1>2 DEF HandOver
  <1>4. /\ DOMAIN f = Fields /\ f.state = st /\ f.origin = mail[m].origin
        /\ f.sender = mail[m].sender /\ f.code = mail[m].code
        /\ f.over = mail[m].over /\ f.trail = mail[m].trail
    BY <1>2 DEF EnvelopeOK, Fields
  <1> QED BY <1>1, <1>3, <1>4 DEF HandOver, Turned, Becomes

\* A relay forwards.
LEMMA ForwardEffect ==
  ASSUME NEW m \in Mail, EnvelopeOK(mail[m]), NEW r \in Relays, Forward(m, r)
  PROVE  \E zero \in ZeroBytes :
         \E ans \in Outcomes(SRS_forward(srs[r], mail[m].sender, Alias(r), day, zero)) :
         \E f : Forwarded(m, r, ans, f)
PROOF
  <1> DEFINE sent(ans) == [mail[m] EXCEPT !.sender = ans.out, !.code = "ok",
                                          !.over = ans.over,
                                          !.trail = Append(mail[m].trail, Entry(r))]
             kept(ans) == [mail[m] EXCEPT !.state = "unsent", !.code = ans.ret,
                                          !.over = ans.over]
  <1>0. \E zero \in ZeroBytes :
        \E ans \in Outcomes(SRS_forward(srs[r], mail[m].sender, Alias(r), day, zero)) :
          mail' = [mail EXCEPT ![m] = IF ans.ret = "ok" THEN sent(ans) ELSE kept(ans)]
    BY DEF Forward
  <1> HIDE DEF sent, kept
  <1>1. PICK zero \in ZeroBytes :
        \E ans \in Outcomes(SRS_forward(srs[r], mail[m].sender, Alias(r), day, zero)) :
          mail' = [mail EXCEPT ![m] = IF ans.ret = "ok" THEN sent(ans) ELSE kept(ans)]
    BY <1>0
  <1>2. PICK ans \in Outcomes(SRS_forward(srs[r], mail[m].sender, Alias(r), day, zero)) :
          mail' = [mail EXCEPT ![m] = IF ans.ret = "ok" THEN sent(ans) ELSE kept(ans)]
    BY <1>1
  <1>3. /\ mail[m].state = "transit" /\ Len(mail[m].trail) < MaxHops
        /\ UNCHANGED <<day, srs, settings>>
    BY DEF Forward
  <1>4. CASE ans.ret = "ok"
    <2>1. PICK f : f = sent(ans)
      OBVIOUS
    <2>2. /\ DOMAIN f = Fields /\ f.state = "transit" /\ f.origin = mail[m].origin
          /\ f.sender = ans.out /\ f.code = "ok" /\ f.over = ans.over
          /\ f.trail = Append(mail[m].trail, Entry(r))
      BY <1>3, <2>1 DEF EnvelopeOK, Fields, sent
    <2>3. Forwarded(m, r, ans, f)
      BY <1>2, <1>3, <1>4, <2>1, <2>2 DEF Forwarded, Becomes
    <2> QED BY <2>3
  <1>5. CASE ans.ret # "ok"
    <2>1. PICK f : f = kept(ans)
      OBVIOUS
    <2>2. /\ DOMAIN f = Fields /\ f.state = "unsent" /\ f.origin = mail[m].origin
          /\ f.sender = mail[m].sender /\ f.code = ans.ret /\ f.over = ans.over
          /\ f.trail = mail[m].trail
      BY <1>3, <2>1 DEF EnvelopeOK, Fields, kept
    <2>3. Forwarded(m, r, ans, f)
      BY <1>2, <1>3, <1>5, <2>1, <2>2 DEF Forwarded, Becomes
    <2> QED BY <2>3
  <1> QED BY <1>4, <1>5

\* A bounce comes to a relay.
LEMMA ReverseEffect ==
  ASSUME NEW m \in Mail, EnvelopeOK(mail[m]), NEW r \in Relays, ReverseBounce(m, r)
  PROVE  \E zero \in ZeroBytes :
         \E ans \in Outcomes(SRS_reverse(srs[r], mail[m].sender, day, zero)) :
         \E f : Returned(m, r, ans, f)
PROOF
  <1> DEFINE e         == mail[m]
             back(ans) == [e EXCEPT !.sender = ans.out, !.code = "ok",
                                    !.over = ans.over]
             home      == [e EXCEPT !.state = "returned"]
             lost(ans) == [e EXCEPT !.state = "lost", !.code = ans.ret,
                                    !.over = ans.over]
             new(ans)  == CASE ans.ret = "ok" -> back(ans)
                            [] ans.ret = "NULL" -> home
                            [] OTHER -> lost(ans)
  <1>0. \E zero \in ZeroBytes :
        \E ans \in Outcomes(SRS_reverse(srs[r], e.sender, day, zero)) :
          mail' = [mail EXCEPT ![m] = new(ans)]
    BY DEF ReverseBounce
  <1> HIDE DEF new
  <1>1. PICK zero \in ZeroBytes :
        \E ans \in Outcomes(SRS_reverse(srs[r], e.sender, day, zero)) :
          mail' = [mail EXCEPT ![m] = new(ans)]
    BY <1>0
  <1>2. PICK ans \in Outcomes(SRS_reverse(srs[r], e.sender, day, zero)) :
          mail' = [mail EXCEPT ![m] = new(ans)]
    BY <1>1
  <1>3. /\ mail[m].state = "bounce" /\ SenderHost(m) = <<Name(r)>>
        /\ UNCHANGED <<day, srs, settings>>
    BY DEF ReverseBounce
  <1>4. PICK f : f = new(ans)
    OBVIOUS
  <1>5. CASE ans.ret = "ok"
    <2>1. f = back(ans)
      BY <1>4, <1>5, Zenon DEF new
    <2>2. /\ DOMAIN f = Fields /\ f.state = "bounce" /\ f.origin = mail[m].origin
          /\ f.sender = ans.out /\ f.code = "ok" /\ f.over = ans.over
          /\ f.trail = mail[m].trail
      BY <1>3, <2>1 DEF EnvelopeOK, Fields
    <2>3. Returned(m, r, ans, f)
      BY <1>2, <1>3, <1>4, <1>5, <2>2 DEF Returned, Becomes
    <2> QED BY <2>3
  <1>6. CASE ans.ret = "NULL"
    <2>0. ans.ret # "ok"
      BY <1>6
    <2>1. f = home
      BY <1>4, <1>6, <2>0, Zenon DEF new
    <2>2. /\ DOMAIN f = Fields /\ f.state = "returned" /\ f.origin = mail[m].origin
          /\ f.sender = mail[m].sender /\ f.code = mail[m].code
          /\ f.over = mail[m].over /\ f.trail = mail[m].trail
      BY <1>3, <2>1 DEF EnvelopeOK, Fields
    <2>3. Returned(m, r, ans, f)
      BY <1>2, <1>3, <1>4, <1>6, <2>2 DEF Returned, Becomes
    <2> QED BY <2>3
  <1>7. CASE ans.ret # "ok" /\ ans.ret # "NULL"
    <2>1. f = lost(ans)
      BY <1>4, <1>7, Zenon DEF new
    <2>2. /\ DOMAIN f = Fields /\ f.state = "lost" /\ f.origin = mail[m].origin
          /\ f.sender = mail[m].sender /\ f.code = ans.ret /\ f.over = ans.over
          /\ f.trail = mail[m].trail
      BY <1>3, <2>1 DEF EnvelopeOK, Fields
    <2>3. Returned(m, r, ans, f)
      BY <1>2, <1>3, <1>4, <1>7, <2>2 DEF Returned, Becomes
    <2> QED BY <2>3
  <1> QED BY <1>5, <1>6, <1>7

\* What comes of a call is its answer, or a process that ended.
LEMMA OutcomeIs ==
  ASSUME NEW ans, NEW x \in Outcomes(ans)
  PROVE  \/ x = ans
         \/ ans.ret = "ok" /\ x = NoMemory
         \/ ans.over /\ x = [Crash EXCEPT !.over = TRUE]
  BY DEF Outcomes

\* How the answers say that a process ended.
LEMMA Endings ==
  /\ Exit.ret = "exit" /\ ~Exit.over /\ Crash.ret = "SIGSEGV" /\ ~Crash.over
  /\ NoRwa.ret = "NULL" /\ ~NoRwa.over /\ NoMemory.ret = "nomem" /\ ~NoMemory.over
  /\ [Crash EXCEPT !.over = TRUE].ret = "SIGSEGV"
  /\ [Crash EXCEPT !.over = TRUE].over
  BY DEF Exit, Crash, NoRwa, NoMemory

-----------------------------------------------------------------------------
(* Types and blocks *)

\* A secret that fits into its block is copied.
LEMMA SecretCopied ==
  \A s \in Secrets : UTIL_strndup(s) = s /\ s.len \in 1..MAX_SECRET
PROOF
  <1> SUFFICES ASSUME NEW s \in Secrets
               PROVE  UTIL_strndup(s) = s /\ s.len \in 1..MAX_SECRET
    OBVIOUS
  <1>1. PICK n, l : n = s.name /\ l = s.len
    OBVIOUS
  <1>2. s = [name |-> n, len |-> l] /\ l \in 1..MAX_SECRET
    BY <1>1, SettingsAssumption DEF Secrets
  <1>3. ~(l > MAX_SECRET)
    BY <1>2 DEF MAX_SECRET
  <1>4. UTIL_strndup(s) = [s EXCEPT !.len = l]
    BY <1>1, <1>2, <1>3 DEF UTIL_strndup
  <1> QED BY <1>2, <1>4

\* Handles, as SRS_new() and SRS_set_secret() make them.
LEMMA NewHandleOK == \A h \in NewHandles : HandleOK(h)
PROOF
  <1> SUFFICES ASSUME NEW h \in NewHandles PROVE HandleOK(h)
    OBVIOUS
  <1>1. PICK a \in Arguments : h = SRS_new(a.secret, a.age, a.hash_len, a.hash_min)
    BY DEF NewHandles
  <1>2. a.secret \in Secrets
    BY DEF Secrets
  <1>3. UTIL_strndup(a.secret) = a.secret /\ a.secret.len \in 1..MAX_SECRET
    BY <1>2, SecretCopied
  <1>4. /\ h.secret = a.secret /\ h.s_len = a.secret.len /\ h.hash_len = a.hash_len
        /\ h.hash_min = a.hash_min /\ h.age = a.age
        /\ DOMAIN h = {"secret", "s_len", "hash_len", "hash_min", "age"}
    BY <1>1, <1>3 DEF SRS_new
  <1> QED BY <1>2, <1>3, <1>4, SettingsAssumption DEF HandleOK

\* SRS_set_secret() leaves a handle in order.
LEMMA SetSecretOK ==
  ASSUME NEW h, HandleOK(h), NEW s \in Secrets
  PROVE  HandleOK(SRS_set_secret(h, s))
PROOF
  <1>1. SRS_set_secret(h, s) = [h EXCEPT !.secret = s]
    BY SecretCopied DEF SRS_set_secret
  <1>2. PICK g : g = [h EXCEPT !.secret = s]
    OBVIOUS
  <1>3. /\ DOMAIN g = DOMAIN h /\ g.secret = s /\ g.s_len = h.s_len
        /\ g.hash_len = h.hash_len /\ g.hash_min = h.hash_min /\ g.age = h.age
    BY <1>2 DEF HandleOK
  <1> QED BY <1>1, <1>2, <1>3 DEF HandleOK

\* An origin is sound, for nobody starts mail with a hash.
LEMMA OriginSound == \A o \in Origins : Sound(o)
PROOF
  <1> SUFFICES ASSUME NEW o \in Origins PROVE Sound(o)
    OBVIOUS
  <1>1. OriginOK(o)
    BY OriginsAssumption
  <1> QED BY <1>1, OthersMeasured DEF OriginOK, Sound, TokenOK, IsText

\* A trail that is grown.
LEMMA AppendText ==
  ASSUME NEW s, IsText(s), NEW e
  PROVE  /\ IsText(Append(s, e)) /\ Len(Append(s, e)) = Len(s) + 1
         /\ Len(s) \in Nat
         /\ Append(s, e)[1] = IF Len(s) = 0 THEN e ELSE s[1]
PROOF
  <1> DEFINE T == Range(s) \cup {e}
  <1>1. s \in Seq(T) /\ e \in T
    BY DEF IsText, Range
  <1> HIDE DEF T
  <1>2. Append(s, e) \in Seq(T) /\ Len(Append(s, e)) = Len(s) + 1 /\ Len(s) \in Nat
    BY <1>1
  <1>3. Append(s, e)[1] = IF Len(s) = 0 THEN e ELSE s[1]
    BY <1>1, <1>2
  <1> QED BY <1>2, <1>3, SequencesAreTexts

\* An envelope not yet used is in order.
LEMMA BlankOK == EnvelopeOK(Blank)
PROOF
  <1>1. IsText(<<>>) /\ Len(<<>>) = 0 /\ Sound(<<>>)
    BY TextTuples, SoundOne
  <1> QED BY <1>1, SettingsAssumption DEF Blank, EnvelopeOK, Fields, States

\* At the start everything is in order.
LEMMA SaneInit == Init => Sane
PROOF
  <1> SUFFICES ASSUME Init PROVE Sane
    OBVIOUS
  <1>1. DOMAIN srs = Relays /\ \A r \in Relays : HandleOK(srs[r])
    BY NewHandleOK DEF Init
  <1>2. DOMAIN mail = Mail /\ \A m \in Mail : EnvelopeOK(mail[m])
    BY BlankOK DEF Init
  <1>3. day \in Days /\ settings \in 0..MaxSettings
    BY SettingsAssumption DEF Init
  <1> QED BY <1>1, <1>2, <1>3 DEF Sane

\* A step that changes one envelope.
LEMMA MailSane ==
  ASSUME Sane, NEW m \in Mail, NEW f, EnvelopeOK(f), Becomes(m, f)
  PROVE  Sane'
PROOF
  <1>1. /\ mail' = [mail EXCEPT ![m] = f] /\ DOMAIN mail = Mail
        /\ UNCHANGED <<day, srs, settings>>
    BY DEF Becomes, Sane
  <1>2. ASSUME NEW k \in Mail PROVE EnvelopeOK(mail'[k])
    <2>1. CASE k = m
      BY <1>1, <2>1
    <2>2. CASE k # m
      BY <1>1, <2>2 DEF Sane
    <2> QED BY <2>1, <2>2
  <1>3. \A k \in Mail : EnvelopeOK(mail[k])'
    BY <1>2 DEF EnvelopeOK
  <1>4. \A r \in Relays : HandleOK(srs[r])'
    BY <1>1 DEF Sane, HandleOK
  <1> QED BY <1>1, <1>3, <1>4 DEF Sane

\* A change of a handle.
LEMMA SetSane ==
  ASSUME Sane, NEW r \in Relays, NEW h, HandleOK(h), Set(r, h)
  PROVE  Sane'
PROOF
  <1>1. /\ srs' = [srs EXCEPT ![r] = h] /\ DOMAIN srs = Relays
        /\ settings' = settings + 1 /\ settings < MaxSettings
        /\ UNCHANGED <<day, mail>>
    BY DEF Set, Sane
  <1>2. settings' \in 0..MaxSettings
    BY <1>1, SettingsAssumption DEF Sane
  <1>3. ASSUME NEW k \in Relays PROVE HandleOK(srs'[k])
    <2>1. CASE k = r
      BY <1>1, <2>1
    <2>2. CASE k # r
      BY <1>1, <2>2 DEF Sane
    <2> QED BY <2>1, <2>2
  <1>4. \A k \in Relays : HandleOK(srs[k])'
    BY <1>3 DEF HandleOK
  <1>5. \A m \in Mail : EnvelopeOK(mail[m])'
    BY <1>1 DEF Sane, EnvelopeOK
  <1> QED BY <1>1, <1>2, <1>4, <1>5 DEF Sane

\* Every step keeps it.
LEMMA SaneStep == Sane /\ [Next]_vars => Sane'
PROOF
  <1> SUFFICES ASSUME Sane, [Next]_vars PROVE Sane'
    OBVIOUS
  <1>0. /\ \A m \in Mail : EnvelopeOK(mail[m])
        /\ \A r \in Relays : HandleOK(srs[r])
        /\ day \in Nat
    BY SettingsAssumption DEF Sane
  <1>1. ASSUME NEW m \in Mail, Submit(m) PROVE Sane'
    <2>1. PICK o, f : Submitted(m, o, f)
      BY <1>0, <1>1, SubmitEffect
    <2>2. EnvelopeOK(f)
      BY <1>0, <2>1, OriginSound DEF EnvelopeOK, Submitted, Becomes, States
    <2> QED BY <2>1, <2>2, MailSane DEF Submitted
  <1>2. ASSUME NEW m \in Mail, Bounce(m) PROVE Sane'
    <2>1. PICK f : Turned(m, f) /\ f.state = "bounce"
      BY <1>0, <1>2, BounceEffect
    <2>2. EnvelopeOK(f)
      BY <1>0, <2>1 DEF EnvelopeOK, Turned, Becomes, States
    <2> QED BY <2>1, <2>2, MailSane DEF Turned
  <1>3. ASSUME NEW m \in Mail, HandOver(m) PROVE Sane'
    <2>1. PICK f : Turned(m, f) /\ f.state \in States
      BY <1>0, <1>3, HandOverEffect DEF States
    <2>2. EnvelopeOK(f)
      BY <1>0, <2>1 DEF EnvelopeOK, Turned, Becomes
    <2> QED BY <2>1, <2>2, MailSane DEF Turned
  <1>4. ASSUME NEW m \in Mail, NEW r \in Relays, Forward(m, r) PROVE Sane'
    <2>1. PICK zero \in ZeroBytes :
          \E ans \in Outcomes(SRS_forward(srs[r], mail[m].sender, Alias(r), day, zero)) :
          \E f : Forwarded(m, r, ans, f)
      BY <1>0, <1>4, ForwardEffect
    <2>2. PICK call : call = SRS_forward(srs[r], mail[m].sender, Alias(r), day, zero)
      OBVIOUS
    <2>3. PICK ans, f : ans \in Outcomes(call) /\ Forwarded(m, r, ans, f)
      BY <2>1, <2>2
    <2>4. call.ret = "ok" => Sound(call.out)
      <3>1. /\ srs[r].hash_len \in 1..22 /\ Sound(mail[m].sender) /\ zero \in 0..20
        BY <1>0, SettingsAssumption DEF HandleOK, EnvelopeOK
      <3> QED BY <1>0, <2>2, <3>1, ForwardSound
    <2>5. ans.ret = "ok" => Sound(ans.out)
      BY <2>3, <2>4, OutcomeIs, Endings
    <2>6. Sound(f.sender) /\ f.state \in States
      BY <1>0, <2>3, <2>5 DEF Forwarded, EnvelopeOK, States
    <2>7. IsText(f.trail) /\ Len(f.trail) <= MaxHops
      <3>1. IsText(mail[m].trail) /\ Len(mail[m].trail) < MaxHops
        BY <1>0, <2>3 DEF EnvelopeOK, Forwarded
      <3>2. /\ IsText(Append(mail[m].trail, Entry(r)))
            /\ Len(Append(mail[m].trail, Entry(r))) = Len(mail[m].trail) + 1
            /\ Len(mail[m].trail) \in Nat
        BY <3>1, AppendText
      <3>3. PICK g : g = Append(mail[m].trail, Entry(r))
        OBVIOUS
      <3>4. IsText(g) /\ Len(g) <= MaxHops
        BY <3>1, <3>2, <3>3, SettingsAssumption
      <3>5. f.trail = g \/ f.trail = mail[m].trail
        BY <2>3, <3>3 DEF Forwarded
      <3>6. Len(mail[m].trail) <= MaxHops
        BY <3>1, <3>2, SettingsAssumption
      <3> QED BY <3>1, <3>4, <3>5, <3>6
    <2>8. EnvelopeOK(f)
      BY <2>3, <2>6, <2>7 DEF EnvelopeOK, Forwarded, Becomes
    <2> QED BY <2>3, <2>8, MailSane DEF Forwarded
  <1>5. ASSUME NEW m \in Mail, NEW r \in Relays, ReverseBounce(m, r) PROVE Sane'
    <2>1. PICK zero \in ZeroBytes :
          \E ans \in Outcomes(SRS_reverse(srs[r], mail[m].sender, day, zero)) :
          \E f : Returned(m, r, ans, f)
      BY <1>0, <1>5, ReverseEffect
    <2>2. PICK call : call = SRS_reverse(srs[r], mail[m].sender, day, zero)
      OBVIOUS
    <2>3. PICK ans, f : ans \in Outcomes(call) /\ Returned(m, r, ans, f)
      BY <2>1, <2>2
    <2>4. call.ret = "ok" => Sound(call.out)
      <3>1. /\ srs[r].hash_len \in 1..22 /\ Sound(mail[m].sender) /\ zero \in 0..20
        BY <1>0, SettingsAssumption DEF HandleOK, EnvelopeOK
      <3> QED BY <2>2, <3>1, ReverseSound
    <2>5. ans.ret = "ok" => Sound(ans.out)
      BY <2>3, <2>4, OutcomeIs, Endings
    <2>6. Sound(f.sender) /\ f.state \in States /\ f.trail = mail[m].trail
      BY <1>0, <2>3, <2>5 DEF Returned, EnvelopeOK, States
    <2>7. EnvelopeOK(f)
      BY <1>0, <2>3, <2>6 DEF EnvelopeOK, Returned, Becomes
    <2> QED BY <2>3, <2>7, MailSane DEF Returned
  <1>6. ASSUME NEW r \in Relays, SetSecret(r) PROVE Sane'
    <2>1. PICK s \in Secrets : Set(r, SRS_set_secret(srs[r], s))
      BY <1>6 DEF SetSecret
    <2>2. HandleOK(SRS_set_secret(srs[r], s))
      BY <1>0, SetSecretOK
    <2> QED BY <2>1, <2>2, SetSane
  <1>7. ASSUME NEW r \in Relays, Renew(r) PROVE Sane'
    <2>1. PICK h \in NewHandles : Set(r, h)
      BY <1>7 DEF Renew
    <2> QED BY <2>1, NewHandleOK, SetSane
  <1>8. CASE Tick \/ UNCHANGED vars
    <2>1. UNCHANGED <<srs, settings, mail>> /\ day' \in Days
      BY <1>8 DEF Tick, vars, Sane
    <2> QED BY <2>1 DEF Sane, HandleOK, EnvelopeOK
  <1> QED BY <1>1, <1>2, <1>3, <1>4, <1>5, <1>6, <1>7, <1>8 DEF Next

\* The types are those of the invariant.
THEOREM TypeCorrect == Spec => []TypeOK
PROOF
  <1>1. Sane => TypeOK
    <2> SUFFICES ASSUME Sane PROVE TypeOK
      OBVIOUS
    <2>1. ASSUME NEW m \in Mail
          PROVE  /\ mail[m].state \in {"new", "transit", "unsent", "bounce",
                                       "returned", "lost"}
                 /\ Len(mail[m].trail) \in 0..MaxHops
                 /\ \A i \in 1..Len(mail[m].sender) :
                      mail[m].sender[i].kind = "base32" =>
                        mail[m].sender[i].digit \in 0..31
      <3>1. EnvelopeOK(mail[m]) /\ MaxHops \in Nat
        BY SettingsAssumption DEF Sane
      <3>2. Len(mail[m].trail) \in 0..MaxHops
        <4>1. Len(mail[m].trail) \in Nat /\ Len(mail[m].trail) <= MaxHops
          BY <3>1, TextIndex DEF EnvelopeOK
        <4> QED BY <3>1, <4>1
      <3> QED BY <3>1, <3>2 DEF EnvelopeOK, Sound, TokenOK, States
    <2> QED BY <2>1 DEF TypeOK, Sane, HandleOK
  <1> QED BY <1>1, SaneInit, SaneStep, PTL DEF Spec

\* No block is overrun, but for the digest with an early zero byte: everything
\* that is printed is measured before (UTIL_varlen()).
THEOREM BlocksSuffice == Spec => []InBounds
PROOF
  <1>1. Sane => InBounds
    <2> SUFFICES ASSUME Sane, NEW m \in Mail, NEW r \in Relays,
                        NEW zero \in ZeroBytes \ 1..16
                 PROVE  /\ ~SRS_forward(srs[r], mail[m].sender, Alias(r), day, zero).over
                        /\ ~SRS_reverse(srs[r], mail[m].sender, day, zero).over
      BY DEF InBounds
    <2>1. /\ srs[r].hash_len \in 1..22 /\ Sound(mail[m].sender) /\ day \in Nat
          /\ zero \in 0..20 /\ zero \notin 1..16
      BY SettingsAssumption DEF Sane, HandleOK, EnvelopeOK
    <2>2. ~SRS_forward(srs[r], mail[m].sender, Alias(r), day, zero).over
      BY <2>1, ForwardSound
    <2>3. ~SRS_reverse(srs[r], mail[m].sender, day, zero).over
      BY <2>1, ReverseSound
    <2> QED BY <2>2, <2>3
  <1> QED BY <1>1, SaneInit, SaneStep, PTL DEF Spec

\* A bounce is changed by the relay that its host names, or handed over.
LEMMA BounceMoves ==
  ASSUME Sane, [Next]_vars, NEW m \in Mail,
         mail[m].state = "bounce", mail'[m] # mail[m]
  PROVE  HandOver(m) \/ \E r \in Relays : ReverseBounce(m, r)
PROOF
  <1>0. DOMAIN mail = Mail /\ \A k \in Mail : EnvelopeOK(mail[k])
    BY DEF Sane
  <1>1. ASSUME NEW k \in Mail, NEW f, Becomes(k, f) PROVE k = m
    BY <1>0, <1>1 DEF Becomes
  <1>2. ASSUME NEW k \in Mail, Submit(k) PROVE FALSE
    <2>1. PICK o, f : Submitted(k, o, f)
      BY <1>0, <1>2, SubmitEffect
    <2>2. k = m
      BY <1>1, <2>1 DEF Submitted
    <2> QED BY <2>1, <2>2 DEF Submitted
  <1>3. ASSUME NEW k \in Mail, Bounce(k) PROVE FALSE
    <2>1. PICK f : Turned(k, f) /\ mail[k].state = "transit"
      BY <1>0, <1>3, BounceEffect
    <2>2. k = m
      BY <1>1, <2>1 DEF Turned
    <2> QED BY <2>1, <2>2
  <1>4. ASSUME NEW k \in Mail, NEW r \in Relays, Forward(k, r) PROVE FALSE
    <2>1. PICK zero \in ZeroBytes :
          \E ans \in Outcomes(SRS_forward(srs[r], mail[k].sender, Alias(r), day, zero)) :
          \E f : Forwarded(k, r, ans, f)
      BY <1>0, <1>4, ForwardEffect
    <2>2. PICK ans, f : Forwarded(k, r, ans, f)
      BY <2>1
    <2>3. k = m
      BY <1>1, <2>2 DEF Forwarded
    <2> QED BY <2>2, <2>3 DEF Forwarded
  <1>5. ASSUME NEW k \in Mail, HandOver(k) PROVE k = m
    <2>1. PICK f : Turned(k, f)
      BY <1>0, <1>5, HandOverEffect
    <2> QED BY <1>1, <2>1 DEF Turned
  <1>6. ASSUME NEW k \in Mail, NEW r \in Relays, ReverseBounce(k, r) PROVE k = m
    <2>1. PICK zero \in ZeroBytes :
          \E ans \in Outcomes(SRS_reverse(srs[r], mail[k].sender, day, zero)) :
          \E f : Returned(k, r, ans, f)
      BY <1>0, <1>6, ReverseEffect
    <2> QED BY <1>1, <2>1 DEF Returned
  <1>7. ASSUME NEW r \in Relays, SetSecret(r) \/ Renew(r) PROVE FALSE
    BY <1>7 DEF SetSecret, Renew, Set
  <1>8. ~Tick /\ ~UNCHANGED vars
    BY DEF Tick, vars
  <1> QED BY <1>2, <1>3, <1>4, <1>5, <1>6, <1>7, <1>8 DEF Next

\* The tag of a relay is its own.
LEMMA OwnHost == \A a, r : <<Name(a)>> = <<Name(r)>> => a = r
PROOF
  <1> SUFFICES ASSUME NEW a, NEW r, <<Name(a)>> = <<Name(r)>> PROVE a = r
    OBVIOUS
  <1>1. PICK s : s = <<Name(a)>> /\ s = <<Name(r)>>
    OBVIOUS
  <1>2. s[1] = Name(a) /\ s[1] = Name(r)
    BY <1>1, TextTuples
  <1> QED BY <1>2 DEF Name

-----------------------------------------------------------------------------
(* The forms an address goes through *)

\* What stands behind a tag: sound, without an at sign or a tag SRS1.
Good(x) == Sound(x) /\ Without(x, At) /\ Without(x, SRS_WRAP)

OnceFacts(s, p, x, a) ==
    /\ Sound(s) /\ Has(s, At)
    /\ Before(s, StrChr(s, 1, At)) = S0(p, x)
    /\ From(s, StrChr(s, 1, At) + 1) = <<Name(a)>>
    /\ HasTag(s, "SRS0") /\ ~HasTag(s, "SRS1")
    /\ ~Has(s, SRS_WRAP) /\ Has(s, SRS_TAG)
    /\ UTIL_get_rtype_sep(s) = 2 /\ From(s, 3) = Mailbox(x, <<Name(a)>>)
    /\ Last(s) = Name(a)

TwiceFacts(s, q, x, r) ==
    /\ Sound(s) /\ Has(s, At)
    /\ Before(s, StrChr(s, 1, At)) = S1(<<Name(q)>>, x)
    /\ From(s, StrChr(s, 1, At) + 1) = <<Name(r)>>
    /\ HasTag(s, "SRS1") /\ ~HasTag(s, "SRS0") /\ Has(s, SRS_WRAP)
    /\ UTIL_get_rtype_sep(s) = 2
    /\ From(s, 3) = Mailbox(Glue(<<Name(q)>>, Eq, x), <<Name(r)>>)
    /\ s[3] = Name(q) /\ Last(s) = Name(r)

\* The tags and the separators differ.
LEMMA TagsDiffer ==
  /\ SRS_TAG # SRS_WRAP /\ SRS_TAG # At /\ SRS_WRAP # At /\ Eq # At
  /\ \A p \in srs_separators : p # At /\ p # SRS_TAG /\ p # SRS_WRAP
  /\ \A n : Name(n) # At /\ Name(n) # SRS_TAG /\ Name(n) # SRS_WRAP /\ Name(n) # Eq
  /\ \A k, d, n : /\ Hash(k, d, n) # At /\ Hash(k, d, n) # SRS_WRAP
                  /\ Hash(k, d, n) # Eq
  /\ Eq # SRS_TAG /\ Eq # SRS_WRAP /\ Eq \in srs_separators
  BY DEF SRS_TAG, SRS_WRAP, Tag, At, Eq, Minus, Plus, srs_separators, Name, Hash

\* A string of one token.
LEMMA OneToken ==
  ASSUME NEW c
  PROVE  /\ IsText(<<c>>) /\ Len(<<c>>) = 1 /\ <<c>>[1] = c
         /\ \A d : Without(<<c>>, d) <=> c # d
PROOF
  <1>1. PICK k : k = <<c>>
    OBVIOUS
  <1>2. IsText(k) /\ Len(k) = 1 /\ k[1] = c
    BY <1>1, TextTuples
  <1>3. \A d : Without(k, d) <=> c # d
    BY <1>2 DEF Without
  <1> QED BY <1>1, <1>2, <1>3

\* A local part that begins with a tag begins with that tag only.
LEMMA TagAhead ==
  ASSUME NEW t, NEW c, NEW b, IsText(b)
  PROVE  LET s == Glue(<<Tag(t)>>, c, b) IN
         /\ \A w : HasTag(s, w) <=> w = t
         /\ Has(s, Tag(t))
PROOF
  <1>1. PICK k : k = <<Tag(t)>>
    OBVIOUS
  <1>2. IsText(k) /\ Len(k) = 1 /\ k[1] = Tag(t)
    BY <1>1, OneToken
  <1>3. PICK s : s = Glue(k, c, b)
    OBVIOUS
  <1>4. /\ IsText(s) /\ Len(s) = 2 + Len(b) /\ Len(b) \in Nat /\ s[1] = Tag(t)
    <2>1. Glued(s, k, c, b)
      BY <1>2, <1>3, GlueIndex
    <2>2. Len(b) \in Nat /\ 1 \in 1..Len(k)
      BY <1>2, TextIndex
    <2> QED BY <1>2, <2>1, <2>2 DEF Glued
  <1>5. \A w : HasTag(s, w) <=> w = t
    BY <1>4, TagsEqual DEF HasTag
  <1>6. Has(s, Tag(t))
    BY <1>4, HasIs DEF Without
  <1> QED BY <1>1, <1>3, <1>5, <1>6

\* The local part and the host of an address.
LEMMA MailboxSplit ==
  ASSUME NEW w, NEW n, Sound(w), Without(w, At)
  PROVE  LET s == Mailbox(w, <<Name(n)>>) IN
         /\ Sound(s) /\ StrLen(s) = StrLen(w) + 1 + NameLen
         /\ Has(s, At) /\ Before(s, StrChr(s, 1, At)) = w
         /\ From(s, StrChr(s, 1, At) + 1) = <<Name(n)>>
         /\ Last(s) = Name(n)
         /\ \A c : c # At /\ c # Name(n) => (Has(s, c) <=> Has(w, c))
PROOF
  <1>1. PICK h : h = <<Name(n)>>
    OBVIOUS
  <1>2. /\ IsText(h) /\ Len(h) = 1 /\ h[1] = Name(n)
        /\ \A d : Without(h, d) <=> Name(n) # d
    BY <1>1, OneToken
  <1>3. Sound(h) /\ StrLen(h) = NameLen
    BY <1>1, NameSound
  <1>4. PICK s : s = Mailbox(w, h)
    OBVIOUS
  <1>5. Sound(s) /\ StrLen(s) = StrLen(w) + 1 + NameLen
    BY <1>3, <1>4, MailboxSound
  <1>6. /\ Has(s, At) /\ Before(s, StrChr(s, 1, At)) = w
        /\ From(s, StrChr(s, 1, At) + 1) = h
    BY <1>2, <1>4, GlueSplit DEF Mailbox, Has, Sound
  <1>7. Last(s) = Name(n)
    <2>1. Glued(s, w, At, h)
      BY <1>2, <1>4, GlueIndex DEF Mailbox, Sound
    <2>2. Len(w) \in Nat /\ 1 \in 1..Len(h)
      BY <1>2, TextIndex DEF Sound
    <2>3. Len(s) = Len(w) + 1 + 1 /\ s[Len(w) + 1 + 1] = Name(n)
      BY <1>2, <2>1, <2>2 DEF Glued
    <2> QED BY <2>3 DEF Last
  <1>8. ASSUME NEW c, c # At, c # Name(n) PROVE Has(s, c) <=> Has(w, c)
    <2>1. Without(Glue(w, At, h), c) <=> Without(w, c) /\ At # c /\ Without(h, c)
      BY <1>2, GlueWithout DEF Sound
    <2>2. Has(s, c) <=> ~Without(s, c)
      BY <1>5, HasIs DEF Sound
    <2>3. Has(w, c) <=> ~Without(w, c)
      BY HasIs DEF Sound
    <2> QED BY <1>2, <1>4, <1>8, <2>1, <2>2, <2>3 DEF Mailbox
  <1> QED BY <1>1, <1>4, <1>5, <1>6, <1>7, <1>8

\* A rewritten local part.
LEMMA S0Local ==
  ASSUME NEW p \in srs_separators, NEW x, Good(x)
  PROVE  LET w == S0(p, x) IN
         /\ Sound(w) /\ StrLen(w) = StrLen(x) + 5 /\ StrLen(x) \in Nat
         /\ Without(w, At) /\ Without(w, SRS_WRAP)
         /\ \A t : HasTag(w, t) <=> t = "SRS0"
         /\ Has(w, SRS_TAG)
         /\ UTIL_get_rtype_sep(w) = 2 /\ From(w, 2 + 1) = x
PROOF
  <1>1. PICK k : k = <<SRS_TAG>>
    OBVIOUS
  <1>2. /\ IsText(k) /\ Without(k, At) /\ Without(k, SRS_WRAP)
        /\ Sound(k) /\ StrLen(k) = 4
    BY <1>1, OneToken, TagsDiffer, TokensOK, SoundOne, StrLenOne, TokenLens
       DEF TokenOK, SRS_TAG
  <1>3. Sound(x) /\ IsText(x) /\ Without(x, At) /\ Without(x, SRS_WRAP)
    BY DEF Good, Sound
  <1>4. PICK w : w = Glue(k, p, x)
    OBVIOUS
  <1>5. Sound(w) /\ StrLen(w) = 4 + 1 + StrLen(x) /\ StrLen(x) \in Nat
    <2>1. TokenOK(p) /\ TokenLen(p) = 1
      BY TokensOK
    <2> QED BY <1>2, <1>3, <1>4, <2>1, GlueSound, SoundMeasured, StrLenType
  <1>6. Without(w, At) /\ Without(w, SRS_WRAP)
    BY <1>2, <1>3, <1>4, GlueWithout, TagsDiffer
  <1>7. (\A t : HasTag(w, t) <=> t = "SRS0") /\ Has(w, SRS_TAG)
    BY <1>1, <1>3, <1>4, TagAhead DEF SRS_TAG
  <1>8. UTIL_get_rtype_sep(w) = 2 /\ From(w, 2 + 1) = x
    BY <1>1, <1>3, <1>4, SepBehindTag, SoundMeasured DEF SRS_TAG
  <1>9. StrLen(w) = StrLen(x) + 5
    BY <1>5
  <1> QED BY <1>1, <1>4, <1>5, <1>6, <1>7, <1>8, <1>9 DEF S0

\* A local part that is rewritten again.
LEMMA S1Local ==
  ASSUME NEW a, NEW x, Good(x)
  PROVE  LET w == S1(<<Name(a)>>, x)
             y == Glue(<<Name(a)>>, Eq, x)
         IN
         /\ Sound(w) /\ StrLen(w) = StrLen(x) + NameLen + 6 /\ StrLen(x) \in Nat
         /\ Without(w, At) /\ Has(w, SRS_WRAP)
         /\ \A t : HasTag(w, t) <=> t = "SRS1"
         /\ Sound(y) /\ Without(y, At)
         /\ Has(y, Eq) /\ Field(y) = <<Name(a)>> /\ Rest(y) = x
         /\ w = Glue(<<SRS_WRAP>>, Eq, y)
PROOF
  <1>1. PICK k, q : k = <<SRS_WRAP>> /\ q = <<Name(a)>>
    OBVIOUS
  <1>2. /\ IsText(k) /\ Without(k, At) /\ Sound(k) /\ StrLen(k) = 4
    BY <1>1, OneToken, TagsDiffer, TokensOK, SoundOne, StrLenOne, TokenLens
       DEF TokenOK, SRS_WRAP
  <1>3. /\ IsText(q) /\ Without(q, At) /\ Without(q, Eq)
        /\ Sound(q) /\ StrLen(q) = NameLen
    BY <1>1, OneToken, TagsDiffer, NameSound
  <1>4. Sound(x) /\ IsText(x) /\ Without(x, At)
    BY DEF Good, Sound
  <1>5. PICK y : y = Glue(q, Eq, x)
    OBVIOUS
  <1>6. /\ Sound(y) /\ StrLen(y) = NameLen + 1 + StrLen(x) /\ StrLen(x) \in Nat
    <2>1. TokenOK(Eq) /\ TokenLen(Eq) = 1
      BY TokensOK, TokenLens
    <2> QED BY <1>3, <1>4, <1>5, <2>1, GlueSound, SoundMeasured, StrLenType
  <1>7. Without(y, At)
    BY <1>3, <1>4, <1>5, GlueWithout, TagsDiffer
  <1>8. Has(y, Eq) /\ Field(y) = q /\ Rest(y) = x
    BY <1>3, <1>4, <1>5, GlueSplit DEF Has, Field, Rest
  <1>9. PICK w : w = Glue(k, Eq, y)
    OBVIOUS
  <1>10. Sound(w) /\ StrLen(w) = 4 + 1 + StrLen(y)
    <2>1. TokenOK(Eq) /\ TokenLen(Eq) = 1
      BY TokensOK, TokenLens
    <2> QED BY <1>2, <1>6, <1>9, <2>1, GlueSound
  <1>11. Without(w, At)
    BY <1>2, <1>6, <1>7, <1>9, GlueWithout, TagsDiffer DEF Sound
  <1>12. (\A t : HasTag(w, t) <=> t = "SRS1") /\ Has(w, SRS_WRAP)
    BY <1>1, <1>6, <1>9, TagAhead DEF SRS_WRAP, Sound
  <1>13. StrLen(w) = StrLen(x) + NameLen + 6
    BY <1>6, <1>10, NameLenAssumption
  <1>14. w = S1(q, x)
    BY <1>1, <1>5, <1>9 DEF S1
  <1> QED BY <1>1, <1>5, <1>6, <1>7, <1>8, <1>9, <1>10, <1>11, <1>12, <1>13, <1>14

\* An address that was rewritten once.
LEMMA OnceIs ==
  ASSUME NEW p \in srs_separators, NEW x, Good(x), NEW a,
         NEW s, s = Mailbox(S0(p, x), <<Name(a)>>)
  PROVE  OnceFacts(s, p, x, a) /\ StrLen(s) = StrLen(x) + NameLen + 6
PROOF
  <1>1. PICK w, k, h : w = S0(p, x) /\ k = <<SRS_TAG>> /\ h = <<Name(a)>>
    OBVIOUS
  <1>2. /\ Sound(w) /\ StrLen(w) = StrLen(x) + 5 /\ StrLen(x) \in Nat
        /\ Without(w, At) /\ Without(w, SRS_WRAP) /\ Has(w, SRS_TAG)
    BY <1>1, S0Local
  <1>3. /\ Sound(s) /\ StrLen(s) = StrLen(w) + 1 + NameLen
        /\ Has(s, At) /\ Before(s, StrChr(s, 1, At)) = w
        /\ From(s, StrChr(s, 1, At) + 1) = <<Name(a)>>
        /\ Last(s) = Name(a)
        /\ \A c : c # At /\ c # Name(a) => (Has(s, c) <=> Has(w, c))
    BY <1>1, <1>2, MailboxSplit
  <1>4. ~Has(s, SRS_WRAP) /\ Has(s, SRS_TAG)
    <2>1. ~Has(w, SRS_WRAP)
      BY <1>2, HasIs DEF Sound
    <2> QED BY <1>2, <1>3, <2>1, TagsDiffer
  <1>5. PICK y : y = Mailbox(x, h)
    OBVIOUS
  <1>6. Sound(y)
    BY <1>1, <1>5, NameSound, MailboxSound DEF Good
  <1>7. s = Glue(k, p, y)
    <2>1. IsText(k) /\ IsText(x) /\ IsText(h)
      BY <1>1, OneToken DEF Good, Sound
    <2>2. Glue(Glue(k, p, x), At, h) = Glue(k, p, Glue(x, At, h))
      BY <2>1, GlueAssoc
    <2> QED BY <1>1, <1>5, <2>2 DEF S0, Mailbox
  <1>8. \A t : HasTag(s, t) <=> t = "SRS0"
    BY <1>1, <1>6, <1>7, TagAhead DEF SRS_TAG, Sound
  <1>9. UTIL_get_rtype_sep(s) = 2 /\ From(s, 2 + 1) = y
    BY <1>1, <1>6, <1>7, SepBehindTag, SoundMeasured DEF SRS_TAG
  <1>10. StrLen(s) = StrLen(x) + NameLen + 6
    BY <1>2, <1>3, NameLenAssumption
  <1> QED BY <1>1, <1>3, <1>4, <1>5, <1>8, <1>9, <1>10 DEF OnceFacts

\* An address that was rewritten again.
LEMMA TwiceIs ==
  ASSUME NEW x, Good(x), NEW a, NEW r,
         NEW s, s = Mailbox(S1(<<Name(a)>>, x), <<Name(r)>>)
  PROVE  TwiceFacts(s, a, x, r) /\ StrLen(s) = StrLen(x) + 2 * NameLen + 7
PROOF
  <1>1. PICK w, k, h, q : /\ w = S1(q, x) /\ k = <<SRS_WRAP>>
                          /\ h = <<Name(r)>> /\ q = <<Name(a)>>
    OBVIOUS
  <1>2. PICK v : v = Glue(q, Eq, x)
    OBVIOUS
  <1>3. /\ Sound(w) /\ StrLen(w) = StrLen(x) + NameLen + 6 /\ StrLen(x) \in Nat
        /\ Without(w, At) /\ Has(w, SRS_WRAP)
        /\ Sound(v) /\ Without(v, At)
        /\ w = Glue(k, Eq, v)
    BY <1>1, <1>2, S1Local
  <1>4. /\ Sound(s) /\ StrLen(s) = StrLen(w) + 1 + NameLen
        /\ Has(s, At) /\ Before(s, StrChr(s, 1, At)) = w
        /\ From(s, StrChr(s, 1, At) + 1) = <<Name(r)>>
        /\ Last(s) = Name(r)
        /\ \A c : c # At /\ c # Name(r) => (Has(s, c) <=> Has(w, c))
    BY <1>1, <1>3, MailboxSplit
  <1>5. Has(s, SRS_WRAP)
    BY <1>3, <1>4, TagsDiffer
  <1>6. PICK y : y = Mailbox(v, h)
    OBVIOUS
  <1>7. Sound(y)
    BY <1>1, <1>3, <1>6, NameSound, MailboxSound
  <1>8. s = Glue(k, Eq, y)
    <2>1. IsText(k) /\ IsText(v) /\ IsText(h)
      BY <1>1, <1>3, OneToken DEF Sound
    <2>2. Glue(Glue(k, Eq, v), At, h) = Glue(k, Eq, Glue(v, At, h))
      BY <2>1, GlueAssoc
    <2> QED BY <1>1, <1>3, <1>6, <2>2 DEF Mailbox
  <1>9. \A t : HasTag(s, t) <=> t = "SRS1"
    BY <1>1, <1>7, <1>8, TagAhead DEF SRS_WRAP, Sound
  <1>10. UTIL_get_rtype_sep(s) = 2 /\ From(s, 2 + 1) = y
    BY <1>1, <1>7, <1>8, SepBehindTag, SoundMeasured, TagsDiffer DEF SRS_WRAP
  <1>11. s[3] = Name(a)
    <2>1. IsText(q) /\ Len(q) = 1 /\ q[1] = Name(a) /\ IsText(x) /\ Len(x) \in Nat
      BY <1>1, OneToken, TextIndex DEF Good, Sound
    <2>2. v[1] = Name(a) /\ Len(v) = 1 + 1 + Len(x)
      <3>1. Glued(v, q, Eq, x)
        BY <1>2, <2>1, GlueIndex
      <3>2. 1 \in 1..Len(q)
        BY <2>1
      <3> QED BY <2>1, <3>1, <3>2 DEF Glued
    <2>3. y[1] = Name(a) /\ 1 \in 1..Len(y)
      <3>1. IsText(h) /\ Len(h) = 1 /\ IsText(v)
        BY <1>1, <1>3, OneToken DEF Sound
      <3>2. Glued(y, v, At, h)
        BY <1>6, <3>1, GlueIndex DEF Mailbox
      <3>3. 1 \in 1..Len(v)
        BY <2>1, <2>2
      <3> QED BY <2>1, <2>2, <3>1, <3>2, <3>3 DEF Glued
    <2>4. IsText(k) /\ Len(k) = 1 /\ IsText(y)
      BY <1>1, <1>7, OneToken DEF Sound
    <2>5. Glued(s, k, Eq, y)
      BY <1>8, <2>4, GlueIndex
    <2>6. s[Len(k) + 1 + 1] = y[1]
      BY <2>3, <2>5 DEF Glued
    <2>7. Len(k) + 1 + 1 = 3
      BY <2>4
    <2> QED BY <2>3, <2>6, <2>7
  <1>12. StrLen(s) = StrLen(x) + 2 * NameLen + 7
    BY <1>3, <1>4, NameLenAssumption
  <1> QED BY <1>1, <1>2, <1>4, <1>5, <1>6, <1>9, <1>10, <1>11, <1>12
          DEF TwiceFacts

\* What is put behind SRS0 for user u at host h by the relay of trail entry i.
Stamp(i)      == SRS_timestamp_create(i.day)
Data(i, h, u) == UTIL_create_hashdata(Stamp(i), <<Name(h)>>, u)
Digest(i, h, u) == <<Hash(i.key, Data(i, h, u), i.hash_len)>>
Ticket(i, h, u) == Inner(Digest(i, h, u), Stamp(i), <<Name(h)>>, u)

\* The entry has a hash length and a day that a relay can have.
Entered(i) == i.hash_len \in 1..22 /\ i.day \in Nat /\ i.relay \in Relays

\* A ticket is sound, and SRS_parse() finds its parts.
LEMMA TicketIs ==
  ASSUME NEW i, Entered(i), NEW h, NEW u, Good(u)
  PROVE  /\ Good(Ticket(i, h, u))
         /\ StrLen(Ticket(i, h, u)) = i.hash_len + StrLen(u) + NameLen + 5
         /\ StrLen(Digest(i, h, u)) = i.hash_len
PROOF
  <1>1. PICK d, t, n : d = Digest(i, h, u) /\ t = Stamp(i) /\ n = <<Name(h)>>
    OBVIOUS
  <1>2. /\ Sound(d) /\ StrLen(d) = i.hash_len /\ i.hash_len \in Nat
        /\ Without(d, At) /\ Without(d, SRS_WRAP)
    <2>1. PICK c : c = Hash(i.key, Data(i, h, u), i.hash_len)
      OBVIOUS
    <2>2. i.hash_len \in Nat
      BY DEF Entered
    <2>3. TokenOK(c) /\ TokenLen(c) = i.hash_len /\ c # At /\ c # SRS_WRAP
      BY <2>1, <2>2, TokensOK, TokenLens, TagsDiffer
    <2>4. d = <<c>>
      BY <1>1, <2>1 DEF Digest
    <2> QED BY <2>2, <2>3, <2>4, SoundOne, StrLenOne, OneToken
  <1>3. /\ Sound(t) /\ StrLen(t) = 2 /\ Without(t, At) /\ Without(t, SRS_WRAP)
    <2>1. At.kind # "base32" /\ SRS_WRAP.kind # "base32"
      BY DEF At, SRS_WRAP, Tag
    <2>2. i.day \in Nat
      BY DEF Entered
    <2> QED BY <1>1, <2>1, <2>2, StampSound DEF Stamp
  <1>4. /\ Sound(n) /\ StrLen(n) = NameLen /\ Without(n, At) /\ Without(n, SRS_WRAP)
    BY <1>1, NameSound, OneToken, TagsDiffer
  <1>5. /\ Sound(u) /\ Without(u, At) /\ Without(u, SRS_WRAP) /\ StrLen(u) \in Nat
    BY SoundMeasured, StrLenType DEF Good
  <1>6. TokenOK(Eq) /\ TokenLen(Eq) = 1 /\ Eq # At /\ Eq # SRS_WRAP
    BY TokensOK, TokenLens, TagsDiffer
  <1>7. PICK x1 : x1 = Glue(n, Eq, u)
    OBVIOUS
  <1>8. Sound(x1) /\ StrLen(x1) = NameLen + 1 + StrLen(u)
    BY <1>4, <1>5, <1>6, <1>7, GlueSound
  <1>9. Without(x1, At) /\ Without(x1, SRS_WRAP)
    BY <1>4, <1>5, <1>6, <1>7, GlueWithout DEF Sound
  <1>10. PICK x2 : x2 = Glue(t, Eq, x1)
    OBVIOUS
  <1>11. Sound(x2) /\ StrLen(x2) = 2 + 1 + StrLen(x1)
    BY <1>3, <1>6, <1>8, <1>10, GlueSound
  <1>12. Without(x2, At) /\ Without(x2, SRS_WRAP)
    BY <1>3, <1>6, <1>8, <1>9, <1>10, GlueWithout DEF Sound
  <1>13. PICK x3 : x3 = Glue(d, Eq, x2)
    OBVIOUS
  <1>14. Sound(x3) /\ StrLen(x3) = i.hash_len + 1 + StrLen(x2)
    BY <1>2, <1>6, <1>11, <1>13, GlueSound
  <1>15. Without(x3, At) /\ Without(x3, SRS_WRAP)
    BY <1>2, <1>6, <1>11, <1>12, <1>13, GlueWithout DEF Sound
  <1>16. x3 = Ticket(i, h, u)
    BY <1>1, <1>7, <1>10, <1>13 DEF Ticket, Inner
  <1>17. StrLen(x3) = i.hash_len + StrLen(u) + NameLen + 5
    BY <1>2, <1>5, <1>8, <1>11, <1>14, NameLenAssumption
  <1> QED BY <1>1, <1>2, <1>14, <1>15, <1>16, <1>17 DEF Good

\* SRS_parse() finds what SRS_compile() put behind SRS0.
LEMMA TicketParts ==
  ASSUME NEW i, Entered(i), NEW h, NEW u, Good(u), NEW p \in srs_separators,
         NEW a, NEW s, s = Mailbox(S0(p, Ticket(i, h, u)), <<Name(a)>>)
  PROVE  Parts(s, Digest(i, h, u), Stamp(i), <<Name(h)>>, u)
PROOF
  <1>1. PICK d, t, n, e : /\ d = Digest(i, h, u) /\ t = Stamp(i)
                          /\ n = <<Name(h)>> /\ e = <<Name(a)>>
    OBVIOUS
  <1>2. /\ IsText(d) /\ IsText(t) /\ IsText(n) /\ IsText(e) /\ IsText(u)
        /\ Without(d, Eq) /\ Without(t, Eq) /\ Without(n, Eq) /\ Without(u, At)
    <2>1. Eq.kind # "base32" /\ i.day \in Nat
      BY DEF Eq, Entered
    <2>2. Sound(t) /\ Without(t, Eq)
      BY <1>1, <2>1, StampSound DEF Stamp
    <2>3. /\ IsText(d) /\ IsText(n) /\ IsText(e)
          /\ Without(d, Eq) /\ Without(n, Eq)
      BY <1>1, OneToken, TagsDiffer DEF Digest
    <2> QED BY <2>2, <2>3 DEF Good, Sound
  <1>3. PICK l : l = Glue(u, At, e)
    OBVIOUS
  <1>4. PICK f : f = Glue(n, Eq, l)
    OBVIOUS
  <1>5. PICK b : b = Glue(t, Eq, f)
    OBVIOUS
  <1>6. PICK k : k = Glue(d, Eq, b)
    OBVIOUS
  <1>7. IsText(l) /\ IsText(f) /\ IsText(b)
    <2>1. IsText(l)
      BY <1>2, <1>3, GlueText
    <2>2. IsText(f)
      BY <1>2, <1>4, <2>1, GlueText
    <2>3. IsText(b)
      BY <1>2, <1>5, <2>2, GlueText
    <2> QED BY <2>1, <2>2, <2>3
  <1>8. Mailbox(Ticket(i, h, u), e) = k
    <2>1. PICK x1 : x1 = Glue(n, Eq, u)
      OBVIOUS
    <2>2. IsText(x1) /\ Glue(x1, At, e) = f
      BY <1>2, <1>3, <1>4, <2>1, GlueText, GlueAssoc
    <2>3. PICK x2 : x2 = Glue(t, Eq, x1)
      OBVIOUS
    <2>4. IsText(x2) /\ Glue(x2, At, e) = b
      BY <1>2, <1>5, <2>2, <2>3, GlueText, GlueAssoc
    <2>5. PICK x3 : x3 = Glue(d, Eq, x2)
      OBVIOUS
    <2>6. Glue(x3, At, e) = k
      BY <1>2, <1>6, <2>4, <2>5, GlueAssoc
    <2>7. x3 = Ticket(i, h, u)
      BY <1>1, <2>1, <2>3, <2>5 DEF Ticket, Inner
    <2> QED BY <2>6, <2>7 DEF Mailbox
  <1>9. UTIL_get_rtype_sep(s) = 2 /\ From(s, 3) = k
    <2>1. OnceFacts(s, p, Ticket(i, h, u), a)
      BY TicketIs, OnceIs
    <2> QED BY <1>1, <1>8, <2>1 DEF OnceFacts
  <1>10. Has(k, Eq) /\ Field(k) = d /\ Rest(k) = b
    BY <1>2, <1>6, <1>7, GlueSplit DEF Has, Field, Rest
  <1>11. Has(b, Eq) /\ Field(b) = t /\ Rest(b) = f
    BY <1>2, <1>5, <1>7, GlueSplit DEF Has, Field, Rest
  <1>12. Has(f, Eq) /\ Field(f) = n /\ Rest(f) = l
    BY <1>2, <1>4, <1>7, GlueSplit DEF Has, Field, Rest
  <1>13. Has(l, At) /\ Before(l, StrChr(l, 1, At)) = u
    BY <1>2, <1>3, GlueSplit DEF Has
  <1>14. /\ UTIL_get_rtype_sep(s) # 0
         /\ k = From(s, UTIL_get_rtype_sep(s) + 1)
    BY <1>9
  <1>15. Parts(s, d, t, n, u)
    BY <1>10, <1>11, <1>12, <1>13, <1>14, Zenon DEF Parts
  <1> QED BY <1>1, <1>15

-----------------------------------------------------------------------------
(* Origins *)

Plain(o, u, h) ==
    /\ o = Mailbox(u, <<Name(h)>>) /\ Good(u) /\ Without(u, SRS_TAG)

Foreign(o, p, x, a) ==
    /\ o = Mailbox(S0(p, x), <<Name(a)>>)
    /\ p \in srs_separators /\ Good(x) /\ \A r \in Relays : r # a

\* An origin is an address without a tag, one of other SRS software, or has no
\* host.
LEMMA OriginForms ==
  ASSUME NEW o \in Origins
  PROVE  \/ ~Has(o, At)
         \/ \E u, h : Plain(o, u, h)
         \/ \E p, x, a : Foreign(o, p, x, a)
PROOF
  <1>1. OriginOK(o) /\ Sound(o)
    BY OriginsAssumption, OriginSound
  <1>2. IsText(o) /\ Len(o) \in Nat
    BY <1>1, TextIndex DEF Sound
  <1> SUFFICES ASSUME Has(o, At)
               PROVE  \/ \E u, h : Plain(o, u, h)
                      \/ \E p, x, a : Foreign(o, p, x, a)
    OBVIOUS
  <1>3. PICK i \in 1..Len(o) : o[i] = At
    BY <1>2, HasIs DEF Without
  <1>4. i = Len(o) - 1 /\ Last(o) = Name(Last(o).name)
    BY <1>1, <1>3 DEF OriginOK
  <1>5. PICK h, e, u : /\ h = Last(o).name /\ e = <<Name(h)>>
                       /\ u = SubSeq(o, 1, i - 1)
    OBVIOUS
  <1>6. IsText(e) /\ Len(e) = 1 /\ e[1] = Name(h)
    BY <1>5, OneToken
  <1>7. /\ IsText(u) /\ Len(u) = i - 1
        /\ \A k \in 1..(i - 1) : u[k] = o[k]
    <2>1. /\ IsText(SubSeq(o, 1, i - 1)) /\ Len(SubSeq(o, 1, i - 1)) = (i - 1) - 1 + 1
          /\ \A k \in 1..((i - 1) - 1 + 1) : SubSeq(o, 1, i - 1)[k] = o[1 + k - 1]
      BY <1>2, <1>3, TextSub
    <2>2. (i - 1) - 1 + 1 = i - 1 /\ \A k \in 1..(i - 1) : 1 + k - 1 = k
      BY <1>3
    <2> QED BY <1>5, <2>1, <2>2
  <1>8. Sound(u)
    <2>1. Sound(SubSeq(o, 1, i - 1))
      BY <1>1, <1>2, <1>3, SoundPart
    <2> QED BY <1>5, <2>1
  <1>9. o = Glue(u, At, e)
    <2>1. PICK g : g = Glue(u, At, e)
      OBVIOUS
    <2>2. /\ IsText(g) /\ Len(g) = Len(u) + 1 + Len(e)
          /\ \A k \in 1..Len(u) : g[k] = u[k]
          /\ g[Len(u) + 1] = At
          /\ \A k \in 1..Len(e) : g[Len(u) + 1 + k] = e[k]
      <3>1. IsText(u) /\ IsText(e)
        BY <1>6, <1>7
      <3>2. Glued(g, u, At, e)
        BY <2>1, <3>1, GlueIndex
      <3> QED BY <3>2 DEF Glued
    <2>3. Len(g) = Len(o) /\ g[i] = At /\ g[i + 1] = Name(h)
      <3>1. 1 \in 1..Len(e) /\ Len(u) + 1 = i /\ Len(u) + 1 + 1 = i + 1
        BY <1>3, <1>6, <1>7
      <3> QED BY <1>2, <1>3, <1>4, <1>6, <1>7, <2>2, <3>1
    <2>4. o[Len(o)] = Name(h)
      BY <1>4, <1>5 DEF Last
    <2>5. ASSUME NEW k \in 1..Len(g) PROVE g[k] = o[k]
      <3>1. k \in 1..(i - 1) \/ k = i \/ k = i + 1
        BY <1>2, <1>3, <1>4, <2>3
      <3>2. k = i + 1 => k = Len(o)
        BY <1>2, <1>4
      <3> QED BY <1>3, <1>7, <2>2, <2>3, <2>4, <3>1, <3>2
    <2>6. g = o
      BY <1>2, <2>2, <2>3, <2>5, TextEqual
    <2> QED BY <2>1, <2>6
  <1>10. Without(u, At)
    <2>1. ASSUME NEW k \in 1..Len(u) PROVE u[k] # At
      <3>1. k \in 1..Len(o) /\ k # Len(o) - 1 /\ k \in 1..(i - 1)
        BY <1>2, <1>3, <1>4, <1>7
      <3>2. o[k] # At
        BY <1>1, <3>1 DEF OriginOK
      <3> QED BY <1>7, <3>1, <3>2
    <2> QED BY <2>1 DEF Without
  <1>11. Without(u, SRS_WRAP) /\ (~Has(o, SRS_TAG) => Without(u, SRS_TAG))
    <2>1. Without(o, SRS_WRAP)
      BY <1>1, <1>2, HasIs DEF OriginOK
    <2>2. ASSUME NEW c, Without(o, c) PROVE Without(u, c)
      BY <1>6, <1>7, <1>9, <2>2, GlueWithout
    <2>3. ~Has(o, SRS_TAG) => Without(o, SRS_TAG)
      BY <1>2, HasIs
    <2> QED BY <2>1, <2>2, <2>3
  <1>12. CASE ~Has(o, SRS_TAG)
    <2>1. Plain(o, u, h)
      BY <1>5, <1>8, <1>9, <1>10, <1>11, <1>12 DEF Plain, Mailbox, Good
    <2> QED BY <2>1
  <1>13. CASE Has(o, SRS_TAG)
    <2>1. /\ o[1] = SRS_TAG /\ Len(o) >= 2 /\ o[2] \in srs_separators
          /\ \A r \in Relays : Last(o) # Name(r)
      BY <1>1, <1>13 DEF OriginOK, HasTag, SRS_TAG
    <2>2. o[1] # At /\ o[2] # At
      BY <2>1, TagsDiffer
    <2>3. i # 1 /\ i # 2 /\ i > 2
      BY <1>3, <2>2
    <2>4. u[1] = SRS_TAG /\ u[2] \in srs_separators /\ Len(u) >= 2
      <3>1. 1 \in 1..(i - 1) /\ 2 \in 1..(i - 1)
        BY <1>3, <2>3
      <3> QED BY <1>3, <1>7, <2>1, <2>3, <3>1
    <2>5. PICK p, x, k : p = u[2] /\ x = SubSeq(u, 3, Len(u)) /\ k = <<SRS_TAG>>
      OBVIOUS
    <2>6. IsText(k) /\ Len(k) = 1 /\ k[1] = SRS_TAG
      BY <2>5, OneToken
    <2>7. Len(u) \in Nat
      BY <1>7, TextIndex
    <2>8. /\ IsText(x) /\ Len(x) = Len(u) - 2 /\ Sound(x)
          /\ \A j \in 1..(Len(u) - 2) : x[j] = u[2 + j]
      <3>1. /\ IsText(SubSeq(u, 3, Len(u))) /\ Len(SubSeq(u, 3, Len(u))) = Len(u) - 3 + 1
            /\ \A j \in 1..(Len(u) - 3 + 1) : SubSeq(u, 3, Len(u))[j] = u[3 + j - 1]
        BY <1>7, <2>4, <2>7, TextSub
      <3>2. /\ Len(u) - 3 + 1 = Len(u) - 2
            /\ \A j \in 1..(Len(u) - 2) : 3 + j - 1 = 2 + j
        BY <2>7
      <3>3. Sound(SubSeq(u, 3, Len(u)))
        BY <1>8, <2>7, SoundPart
      <3> QED BY <2>5, <3>1, <3>2, <3>3
    <2>9. u = Glue(k, p, x)
      <3>1. PICK g : g = Glue(k, p, x)
        OBVIOUS
      <3>2. /\ IsText(g) /\ Len(g) = Len(k) + 1 + Len(x)
            /\ \A j \in 1..Len(k) : g[j] = k[j]
            /\ g[Len(k) + 1] = p
            /\ \A j \in 1..Len(x) : g[Len(k) + 1 + j] = x[j]
        <4>1. IsText(k) /\ IsText(x)
          BY <2>6, <2>8
        <4>2. Glued(g, k, p, x)
          BY <3>1, <4>1, GlueIndex
        <4> QED BY <4>2 DEF Glued
      <3>3. /\ Len(g) = Len(u) /\ g[1] = SRS_TAG /\ g[2] = p
            /\ \A j \in 1..Len(x) : g[2 + j] = x[j]
        <4>1. 1 \in 1..Len(k) /\ Len(k) + 1 = 2
          BY <2>6
        <4> QED BY <2>6, <2>7, <2>8, <3>2, <4>1
      <3>4. ASSUME NEW j \in 1..Len(g) PROVE g[j] = u[j]
        <4>1. CASE j = 1
          BY <2>4, <3>3, <4>1
        <4>2. CASE j = 2
          BY <2>5, <3>3, <4>2
        <4>3. CASE j > 2
          <5>1. j - 2 \in 1..Len(x) /\ j - 2 \in 1..(Len(u) - 2) /\ 2 + (j - 2) = j
            BY <2>7, <2>8, <3>3, <4>3
          <5>2. g[2 + (j - 2)] = x[j - 2] /\ x[j - 2] = u[2 + (j - 2)]
            BY <2>8, <3>3, <5>1
          <5> QED BY <5>1, <5>2
        <4> QED BY <4>1, <4>2, <4>3
      <3>5. g = u
        BY <1>7, <3>2, <3>3, <3>4, TextEqual
      <3> QED BY <3>1, <3>5
    <2>10. Without(x, At) /\ Without(x, SRS_WRAP)
      BY <1>10, <1>11, <2>6, <2>8, <2>9, GlueWithout
    <2>11. \A r \in Relays : r # h
      <3>1. Last(o) = Name(h)
        BY <1>4, <1>5
      <3> QED BY <2>1, <3>1
    <2>12. Foreign(o, p, x, h)
      BY <1>5, <1>9, <2>4, <2>5, <2>8, <2>9, <2>10, <2>11
         DEF Foreign, Good, S0, Mailbox
    <2> QED BY <2>12
  <1> QED BY <1>12, <1>13

-----------------------------------------------------------------------------
(* What a mail that was rewritten carries *)

\* No address is so long that SRS_compile(), SRS_forward() or SRS_parse() cuts it:
\* the longest is the origin, a hash, a stamp, two tags and two names.
Short == \A o \in Origins : StrLen(o) + 2 * NameLen + 40 < MAX_RWA

\* What stands behind SRS0, and who wrote it: the first relay on trail T, or
\* other SRS software before the mail came.
Base(o, T, x, a) ==
    \/ \E u, h : /\ Plain(o, u, h) /\ Len(T) >= 1 /\ Entered(T[1])
                 /\ a = T[1].relay /\ x = Ticket(T[1], h, u)
    \/ \E p : Foreign(o, p, x, a)

Once(s, x, a) == \E p \in srs_separators : s = Mailbox(S0(p, x), <<Name(a)>>)

Twice(s, x, a) ==
    \E r \in Relays : s = Mailbox(S1(<<Name(a)>>, x), <<Name(r)>>)

Held(s, o, T, new) ==
    \/ s = o /\ (new => Len(T) = 0)
    \/ \E x, a : Base(o, T, x, a) /\ (Once(s, x, a) \/ Twice(s, x, a))

RouteOf(s) ==
    IF HasTag(s, "SRS0") THEN << Last(s).name >>
    ELSE IF HasTag(s, "SRS1") THEN << s[3].name, Last(s).name >>
    ELSE <<>>

\* It fits.
LEMMA BaseGood ==
  ASSUME Short, NEW o \in Origins, NEW T, NEW x, NEW a, Base(o, T, x, a)
  PROVE  /\ Good(x) /\ StrLen(x) \in Nat
         /\ StrLen(x) + 2 * NameLen + 7 < MAX_RWA
PROOF
  <1>1. CASE \E u, h : /\ Plain(o, u, h) /\ Len(T) >= 1 /\ Entered(T[1])
                       /\ a = T[1].relay /\ x = Ticket(T[1], h, u)
    <2>1. PICK u, h : /\ Plain(o, u, h) /\ Entered(T[1])
                      /\ x = Ticket(T[1], h, u)
      BY <1>1
    <2>2. Good(x) /\ StrLen(x) = T[1].hash_len + StrLen(u) + NameLen + 5
      BY <2>1, TicketIs DEF Plain
    <2>3. StrLen(o) = StrLen(u) + 1 + NameLen
      BY <2>1, MailboxSplit DEF Plain, Good
    <2>4. StrLen(u) \in Nat /\ T[1].hash_len \in 1..22 /\ NameLen \in Nat
      BY <2>1, NameLenAssumption, SoundMeasured, StrLenType DEF Plain, Good, Entered
    <2>5. PICK n : n = T[1].hash_len
      OBVIOUS
    <2>6. StrLen(o) + 2 * NameLen + 40 < MAX_RWA
      BY DEF Short
    <2> QED BY <2>2, <2>3, <2>4, <2>5, <2>6 DEF MAX_RWA
  <1>2. CASE \E p : Foreign(o, p, x, a)
    <2>1. PICK p : Foreign(o, p, x, a)
      BY <1>2
    <2>2. StrLen(o) = StrLen(x) + NameLen + 6 /\ Good(x)
      BY <2>1, OnceIs DEF Foreign
    <2>3. StrLen(x) \in Nat /\ NameLen \in Nat
      BY <2>2, NameLenAssumption, SoundMeasured, StrLenType DEF Good
    <2>4. StrLen(o) + 2 * NameLen + 40 < MAX_RWA
      BY DEF Short
    <2> QED BY <2>2, <2>3, <2>4 DEF MAX_RWA
  <1> QED BY <1>1, <1>2 DEF Base

\* The routes of the forms.
LEMMA OnceRoute ==
  ASSUME NEW x, Good(x), NEW a, NEW s, Once(s, x, a)
  PROVE  RouteOf(s) = <<a>>
PROOF
  <1>1. PICK p \in srs_separators : s = Mailbox(S0(p, x), <<Name(a)>>)
    BY DEF Once
  <1>2. HasTag(s, "SRS0") /\ Last(s) = Name(a)
    BY <1>1, OnceIs DEF OnceFacts
  <1>3. Last(s).name = a
    BY <1>2 DEF Name
  <1> QED BY <1>2, <1>3 DEF RouteOf

\* An SRS1 address leads through two.
LEMMA TwiceRoute ==
  ASSUME NEW x, Good(x), NEW a, NEW r,
         NEW s, s = Mailbox(S1(<<Name(a)>>, x), <<Name(r)>>)
  PROVE  RouteOf(s) = <<a, r>>
PROOF
  <1>1. /\ HasTag(s, "SRS1") /\ ~HasTag(s, "SRS0")
        /\ s[3] = Name(a) /\ Last(s) = Name(r)
    BY TwiceIs DEF TwiceFacts
  <1>2. s[3].name = a /\ Last(s).name = r
    BY <1>1 DEF Name
  <1> QED BY <1>1, <1>2 DEF RouteOf

\* An address without tags has none.
LEMMA BareRoute ==
  ASSUME NEW s, Sound(s), ~Has(s, SRS_TAG), ~Has(s, SRS_WRAP)
  PROVE  RouteOf(s) = <<>> /\ \A t \in {"SRS0", "SRS1"} : ~HasTag(s, t)
PROOF
  <1>1. Without(s, SRS_TAG) /\ Without(s, SRS_WRAP) /\ Len(s) \in Nat
    BY HasIs, TextIndex DEF Sound
  <1>2. ~HasTag(s, "SRS0") /\ ~HasTag(s, "SRS1")
    BY <1>1 DEF HasTag, Without, SRS_TAG, SRS_WRAP
  <1> QED BY <1>2 DEF RouteOf

\* A plain address has none.
LEMMA PlainBare ==
  ASSUME NEW o, NEW u, NEW h, Plain(o, u, h)
  PROVE  /\ Sound(o) /\ Has(o, At) /\ ~Has(o, SRS_TAG) /\ ~Has(o, SRS_WRAP)
         /\ Before(o, StrChr(o, 1, At)) = u
         /\ From(o, StrChr(o, 1, At) + 1) = <<Name(h)>>
         /\ StrLen(o) = StrLen(u) + 1 + NameLen /\ StrLen(u) \in Nat
         /\ ~HasTag(u, "SRS1") /\ ~Has(u, SRS_TAG)
PROOF
  <1>1. /\ Sound(u) /\ Without(u, At) /\ Without(u, SRS_WRAP)
        /\ Without(u, SRS_TAG) /\ IsText(u)
    BY DEF Plain, Good, Sound
  <1>2. /\ Sound(o) /\ StrLen(o) = StrLen(u) + 1 + NameLen
        /\ Has(o, At) /\ Before(o, StrChr(o, 1, At)) = u
        /\ From(o, StrChr(o, 1, At) + 1) = <<Name(h)>>
        /\ \A c : c # At /\ c # Name(h) => (Has(o, c) <=> Has(u, c))
    BY <1>1, MailboxSplit DEF Plain
  <1>3. ~Has(u, SRS_TAG) /\ ~Has(u, SRS_WRAP)
    BY <1>1, HasIs
  <1>4. ~Has(o, SRS_TAG) /\ ~Has(o, SRS_WRAP)
    BY <1>2, <1>3, TagsDiffer
  <1>5. ~HasTag(u, "SRS1")
    BY <1>1, <1>3, BareRoute
  <1>6. StrLen(u) \in Nat
    BY <1>1, SoundMeasured, StrLenType
  <1> QED BY <1>2, <1>3, <1>4, <1>5, <1>6

-----------------------------------------------------------------------------
(* The calls on these forms *)

\* A plain address is rewritten.
LEMMA ForwardCompiles ==
  ASSUME Short, NEW o \in Origins, NEW u, NEW h, Plain(o, u, h),
         NEW handle, handle.hash_len \in 1..22, NEW r, NEW d \in Nat,
         NEW zero \in 0..20,
         NEW i, i.key = Key(handle), i.hash_len = handle.hash_len, i.day = d
  PROVE  LET ans == SRS_forward(handle, o, Alias(r), d, zero) IN
         /\ ans.ret = "ok"
         /\ ans.out = Mailbox(S0(Eq, Ticket(i, h, u)), <<Name(r)>>)
PROOF
  <1>1. PICK host : host = <<Name(h)>>
    OBVIOUS
  <1>2. /\ Sound(u) /\ Sound(host) /\ StrLen(host) = NameLen
        /\ StrLen(u) \in Nat /\ NameLen \in Nat
        /\ Has(o, At) /\ u = Before(o, StrChr(o, 1, At))
        /\ host = From(o, StrChr(o, 1, At) + 1)
        /\ StrLen(o) = StrLen(u) + 1 + NameLen
        /\ ~HasTag(u, "SRS1") /\ ~Has(u, SRS_TAG)
    BY <1>1, PlainBare, NameSound, NameLenAssumption DEF Plain, Good
  <1>3. PICK local : local = Local(handle, u, host, d, zero)
    OBVIOUS
  <1>4. local = Compiled(handle, u, host, d, zero)
    BY <1>2, <1>3 DEF Local, SRS_compile
  <1>5. PICK w : w = S0(Eq, Ticket(i, h, u))
    OBVIOUS
  <1>6. w = FirstLocal(handle, u, host, d)
    <2>1. \A data : SRS_hash_create(handle, data)
                      = <<Hash(Key(handle), data, handle.hash_len)>>
      BY HashSound
    <2> QED BY <1>1, <1>5, <2>1 DEF Ticket, Digest, Data, Stamp, FirstLocal
  <1>7. PICK n \in 1..22 : n = handle.hash_len
    OBVIOUS
  <1>8. /\ local.ret = "ok" /\ Sound(local.out) /\ Sound(w)
        /\ StrLen(w) = n + StrLen(host) + StrLen(u) + 10
        /\ StrLen(w) < MAX_RWA => local.out = w
    <2>1. Compiles(Compiled(handle, u, host, d, zero),
                   FirstLocal(handle, u, host, d),
                   handle.hash_len + StrLen(host) + StrLen(u) + 10, zero)
      BY <1>2, CompiledSound
    <2> QED BY <1>4, <1>6, <1>7, <2>1 DEF Compiles
  <1>9. StrLen(o) + 2 * NameLen + 40 < MAX_RWA
    BY DEF Short
  <1>10. StrLen(w) < MAX_RWA /\ StrLen(w) + 1 + NameLen < MAX_RWA
    BY <1>2, <1>7, <1>8, <1>9 DEF MAX_RWA
  <1>11. local.out = w
    BY <1>8, <1>10
  <1>12. Posted(SRS_forward(handle, o, Alias(r), d, zero), local, r)
    BY <1>2, <1>3, <1>8, ForwardPrints
  <1> QED BY <1>5, <1>10, <1>11, <1>12 DEF Posted

\* A rewritten address is wrapped.
LEMMA ForwardWraps ==
  ASSUME NEW x, Good(x), StrLen(x) + 2 * NameLen + 7 < MAX_RWA, NEW a,
         NEW s, Once(s, x, a), NEW handle, NEW r, NEW d, NEW zero
  PROVE  LET ans == SRS_forward(handle, s, Alias(r), d, zero) IN
         /\ ans.ret = "ok"
         /\ ans.out = Mailbox(S1(<<Name(a)>>, x), <<Name(r)>>)
PROOF
  <1>1. PICK p \in srs_separators : s = Mailbox(S0(p, x), <<Name(a)>>)
    BY DEF Once
  <1>2. PICK user, host : user = S0(p, x) /\ host = <<Name(a)>>
    OBVIOUS
  <1>3. /\ Has(s, At) /\ user = Before(s, StrChr(s, 1, At))
        /\ host = From(s, StrChr(s, 1, At) + 1)
    BY <1>1, <1>2, OnceIs DEF OnceFacts
  <1>4. /\ Sound(user) /\ Sound(host) /\ StrLen(host) = NameLen
        /\ ~HasTag(user, "SRS1") /\ Has(user, SRS_TAG)
        /\ UTIL_get_rtype_sep(user) = 2 /\ From(user, 2 + 1) = x
        /\ StrLen(x) \in Nat /\ NameLen \in Nat
    BY <1>2, S0Local, NameSound, NameLenAssumption
  <1>5. PICK local : local = Local(handle, user, host, d, zero)
    OBVIOUS
  <1>6. local = Wrap(user, host)
    BY <1>4, <1>5 DEF Local, SRS_compile
  <1>7. PICK w : w = S1(host, x)
    OBVIOUS
  <1>8. /\ local.ret = "ok" /\ Sound(local.out)
        /\ StrLen(w) = NameLen + StrLen(x) + 6
        /\ StrLen(w) < MAX_RWA => local.out = w
    <2>1. UTIL_get_rtype_sep(user) # 0
      BY <1>4
    <2>2. x = From(user, UTIL_get_rtype_sep(user) + 1)
      BY <1>4
    <2> QED BY <1>4, <1>6, <1>7, <2>1, <2>2, WrapSound
  <1>9. StrLen(w) < MAX_RWA /\ StrLen(w) + 1 + NameLen < MAX_RWA
    BY <1>4, <1>8 DEF MAX_RWA
  <1>10. local.out = w
    BY <1>8, <1>9
  <1>11. Posted(SRS_forward(handle, s, Alias(r), d, zero), local, r)
    BY <1>3, <1>5, <1>8, ForwardPrints
  <1> QED BY <1>2, <1>7, <1>9, <1>10, <1>11 DEF Posted

\* A wrapped one keeps its local part.
LEMMA ForwardKeeps ==
  ASSUME NEW x, Good(x), StrLen(x) + 2 * NameLen + 7 < MAX_RWA, NEW a,
         NEW s, Twice(s, x, a), NEW handle, NEW r, NEW d, NEW zero
  PROVE  LET ans == SRS_forward(handle, s, Alias(r), d, zero) IN
         /\ ans.ret = "ok"
         /\ ans.out = Mailbox(S1(<<Name(a)>>, x), <<Name(r)>>)
PROOF
  <1>1. PICK q \in Relays : s = Mailbox(S1(<<Name(a)>>, x), <<Name(q)>>)
    BY DEF Twice
  <1>2. PICK user, host : user = S1(<<Name(a)>>, x) /\ host = <<Name(q)>>
    OBVIOUS
  <1>3. /\ Has(s, At) /\ user = Before(s, StrChr(s, 1, At))
        /\ host = From(s, StrChr(s, 1, At) + 1)
    BY <1>1, <1>2, TwiceIs DEF TwiceFacts
  <1>4. /\ Sound(user) /\ StrLen(user) = StrLen(x) + NameLen + 6
        /\ HasTag(user, "SRS1") /\ StrLen(x) \in Nat /\ NameLen \in Nat
    BY <1>2, S1Local, NameLenAssumption
  <1>5. PICK local : local = Local(handle, user, host, d, zero)
    OBVIOUS
  <1>6. local.ret = "ok" /\ local.out = user
    BY <1>4, <1>5 DEF Local, Answer
  <1>7. Posted(SRS_forward(handle, s, Alias(r), d, zero), local, r)
    <2>1. local.ret = "ok" /\ Sound(local.out)
      BY <1>4, <1>6
    <2> QED BY <1>3, <1>5, <2>1, ForwardPrints
  <1>8. StrLen(user) + 1 + NameLen < MAX_RWA
    BY <1>4 DEF MAX_RWA
  <1> QED BY <1>2, <1>6, <1>7, <1>8 DEF Posted

\* A wrapped address is unwrapped.
LEMMA ReverseUnwraps ==
  ASSUME NEW x, Good(x), StrLen(x) + 2 * NameLen + 7 < MAX_RWA, NEW a,
         NEW s, Twice(s, x, a), NEW handle, NEW d, NEW zero
  PROVE  LET ans == SRS_reverse(handle, s, d, zero) IN
         /\ ans.ret = "ok" /\ ans.out = Mailbox(S0(Eq, x), <<Name(a)>>)
PROOF
  <1>1. PICK q \in Relays : s = Mailbox(S1(<<Name(a)>>, x), <<Name(q)>>)
    BY DEF Twice
  <1>2. TwiceFacts(s, a, x, q)
    BY <1>1, TwiceIs
  <1>3. PICK y, b : /\ y = Glue(<<Name(a)>>, Eq, x) /\ b = Mailbox(y, <<Name(q)>>)
    OBVIOUS
  <1>4. /\ Sound(y) /\ Without(y, At)
        /\ Has(y, Eq) /\ Field(y) = <<Name(a)>> /\ Rest(y) = x
    BY <1>3, S1Local
  <1>5. Has(b, At) /\ y = Before(b, StrChr(b, 1, At))
    BY <1>3, <1>4, MailboxSplit
  <1>6. /\ Sound(s) /\ UTIL_get_rtype_sep(s) # 0
        /\ b = From(s, UTIL_get_rtype_sep(s) + 1)
        /\ Has(s, SRS_WRAP) /\ Has(s, At)
    BY <1>2, <1>3 DEF TwiceFacts
  <1>7. Printed(Unwrap(s), Mailbox(S0(Eq, Rest(y)), Field(y)))
    BY <1>4, <1>5, <1>6, UnwrapPrints
  <1>8. SRS_reverse(handle, s, d, zero) = Unwrap(s)
    BY <1>6 DEF SRS_reverse, SRS_parse
  <1>9. PICK out : out = Mailbox(S0(Eq, x), <<Name(a)>>)
    OBVIOUS
  <1>10. StrLen(out) = StrLen(x) + NameLen + 6 /\ StrLen(x) \in Nat /\ NameLen \in Nat
    BY <1>9, OnceIs, TagsDiffer, S0Local, NameLenAssumption
  <1>11. StrLen(out) < MAX_RWA
    BY <1>10 DEF MAX_RWA
  <1> QED BY <1>4, <1>7, <1>8, <1>9, <1>11 DEF Printed

\* A relay accepts its own hash.
LEMMA AcceptsIs ==
  ASSUME NEW handle, handle.hash_len \in 1..22, NEW i, Entered(i), NEW h, NEW u,
         Good(u), NEW d
  PROVE  Accepts(handle, d, Digest(i, h, u), Stamp(i), <<Name(h)>>, u) <=>
         /\ SRS_timestamp_check(handle, Stamp(i), d)
         /\ handle.hash_min \in 0..i.hash_len
         /\ i.key = Key(handle) /\ i.hash_len = handle.hash_len
PROOF
  <1>1. PICK c, e : /\ c = Hash(i.key, Data(i, h, u), i.hash_len)
                    /\ e = Hash(Key(handle), Data(i, h, u), handle.hash_len)
    OBVIOUS
  <1>2. PICK s, t : s = <<c>> /\ t = <<e>>
    OBVIOUS
  <1>3. s = Digest(i, h, u) /\ t = SRS_hash_create(handle, Data(i, h, u))
    BY <1>1, <1>2, HashSound DEF Digest
  <1>4. s = t <=> c = e
    <2>1. s[1] = c /\ t[1] = e
      BY <1>2, OneToken
    <2> QED BY <1>2, <2>1
  <1>5. c = e <=> i.key = Key(handle) /\ i.hash_len = handle.hash_len
    BY <1>1, HashesEqual
  <1>6. StrLen(s) = i.hash_len
    BY <1>3, TicketIs
  <1>7. SRS_hash_verify(handle, Data(i, h, u), s) <=>
          handle.hash_min \in 0..i.hash_len /\ s = t
    BY <1>3, <1>6 DEF SRS_hash_verify
  <1> QED BY <1>3, <1>4, <1>5, <1>7 DEF Accepts, Data

\* A rewritten address is opened, if it is accepted.
LEMMA ReverseOpens ==
  ASSUME Short, NEW o \in Origins, NEW u, NEW h, Plain(o, u, h),
         NEW handle, handle.hash_len \in 1..22, NEW i, Entered(i),
         NEW s, NEW a, Once(s, Ticket(i, h, u), a), NEW d, NEW zero \in 0..20
  PROVE  LET ans == SRS_reverse(handle, s, d, zero)
             ok  == /\ SRS_timestamp_check(handle, Stamp(i), d)
                    /\ handle.hash_min \in 0..i.hash_len
                    /\ i.key = Key(handle) /\ i.hash_len = handle.hash_len
         IN  /\ ~ok => ans = Exit
             /\ ok => ans.ret = "ok" /\ ans.out = o
PROOF
  <1>1. PICK x : x = Ticket(i, h, u) /\ Good(x) /\ Good(u)
    BY TicketIs DEF Plain
  <1>2. PICK p \in srs_separators : s = Mailbox(S0(p, x), <<Name(a)>>)
    BY <1>1 DEF Once
  <1>3. OnceFacts(s, p, x, a)
    BY <1>1, <1>2, OnceIs
  <1>4. PICK g, t, n : g = Digest(i, h, u) /\ t = Stamp(i) /\ n = <<Name(h)>>
    OBVIOUS
  <1>5. Parts(s, g, t, n, u)
    BY <1>1, <1>2, <1>4, TicketParts
  <1>6. SRS_reverse(handle, s, d, zero) = Decompile(handle, s, d, zero)
    BY <1>3 DEF OnceFacts, SRS_reverse, SRS_parse
  <1>7. /\ ~Accepts(handle, d, g, t, n, u) => Decompile(handle, s, d, zero) = Exit
        /\ Accepts(handle, d, g, t, n, u) =>
             Printed(Decompile(handle, s, d, zero), Mailbox(u, n))
    <2>1. Sound(s)
      BY <1>3 DEF OnceFacts
    <2> QED BY <1>5, <2>1, DecompilePrints
  <1>8. Mailbox(u, n) = o
    BY <1>4 DEF Plain
  <1>9. StrLen(o) < MAX_RWA
    <2>1. StrLen(o) = StrLen(u) + 1 + NameLen /\ StrLen(u) \in Nat
      BY PlainBare
    <2>2. StrLen(o) + 2 * NameLen + 40 < MAX_RWA
      BY DEF Short
    <2> QED BY <2>1, <2>2, NameLenAssumption DEF MAX_RWA
  <1>10. Accepts(handle, d, g, t, n, u) <=>
           /\ SRS_timestamp_check(handle, t, d)
           /\ handle.hash_min \in 0..i.hash_len
           /\ i.key = Key(handle) /\ i.hash_len = handle.hash_len
    BY <1>1, <1>4, AcceptsIs
  <1> QED BY <1>4, <1>6, <1>7, <1>8, <1>9, <1>10 DEF Printed

\* The first entry of a trail stays the first.
LEMMA BaseGrows ==
  ASSUME NEW o, NEW T, IsText(T), NEW i, NEW x, NEW a, Base(o, T, x, a)
  PROVE  Base(o, Append(T, i), x, a)
PROOF
  <1>1. PICK G : G = Append(T, i)
    OBVIOUS
  <1>2. Len(T) \in Nat /\ Len(G) = Len(T) + 1 /\ (Len(T) >= 1 => G[1] = T[1])
    BY <1>1, AppendText
  <1>3. CASE \E p : Foreign(o, p, x, a)
    BY <1>3 DEF Base
  <1>4. CASE \E u, h : /\ Plain(o, u, h) /\ Len(T) >= 1 /\ Entered(T[1])
                       /\ a = T[1].relay /\ x = Ticket(T[1], h, u)
    <2>1. PICK u, h : /\ Plain(o, u, h) /\ Len(T) >= 1 /\ Entered(T[1])
                      /\ a = T[1].relay /\ x = Ticket(T[1], h, u)
      BY <1>4
    <2>2. Len(G) >= 1 /\ G[1] = T[1]
      BY <1>2, <2>1
    <2>3. Base(o, G, x, a)
      BY <2>1, <2>2, Zenon DEF Base
    <2> QED BY <1>1, <2>3
  <1> QED BY <1>3, <1>4 DEF Base

\* The route of an address with relay r behind it.
Onto(p, r) == IF p = <<>> THEN <<r>> ELSE <<p[1], r>>

\* The sender that SRS_forward() answers, for the trail with the relay on it.
Rewritten(ans, s, o, T, r) ==
    /\ ans.ret = "ok"
    /\ \E x, a : Base(o, T, x, a) /\ (Once(ans.out, x, a) \/ Twice(ans.out, x, a))
    /\ RouteOf(ans.out) = Onto(RouteOf(s), r)

\* A rewritten address is wrapped or kept.
LEMMA AgainWrites ==
  ASSUME NEW x, Good(x), StrLen(x) + 2 * NameLen + 7 < MAX_RWA, NEW a,
         NEW s, Once(s, x, a) \/ Twice(s, x, a),
         NEW o, NEW T, Base(o, T, x, a),
         NEW handle, NEW r \in Relays, NEW d, NEW zero
  PROVE  Rewritten(SRS_forward(handle, s, Alias(r), d, zero), s, o, T, r)
PROOF
  <1>1. PICK ans : ans = SRS_forward(handle, s, Alias(r), d, zero)
    OBVIOUS
  <1>2. ans.ret = "ok" /\ ans.out = Mailbox(S1(<<Name(a)>>, x), <<Name(r)>>)
    BY <1>1, ForwardWraps, ForwardKeeps
  <1>3. Twice(ans.out, x, a)
    BY <1>2 DEF Twice
  <1>4. RouteOf(ans.out) = <<a, r>>
    BY <1>2, TwiceRoute
  <1>5. RouteOf(s) # <<>> /\ RouteOf(s)[1] = a
    <2>1. CASE Once(s, x, a)
      <3>1. RouteOf(s) = <<a>>
        BY <2>1, OnceRoute
      <3> QED BY <3>1
    <2>2. CASE Twice(s, x, a)
      <3>1. PICK q \in Relays : s = Mailbox(S1(<<Name(a)>>, x), <<Name(q)>>)
        BY <2>2 DEF Twice
      <3>2. RouteOf(s) = <<a, q>>
        BY <3>1, TwiceRoute
      <3> QED BY <3>2
    <2> QED BY <2>1, <2>2
  <1>6. RouteOf(ans.out) = Onto(RouteOf(s), r)
    BY <1>4, <1>5 DEF Onto
  <1> QED BY <1>1, <1>2, <1>3, <1>6 DEF Rewritten

Answers(ans, out) == ans.ret = "ok" /\ ans.out = out

\* Every sender is rewritten, or has no at sign.
LEMMA ForwardWrites ==
  ASSUME Short, NEW o \in Origins, NEW T, IsText(T), NEW s, Held(s, o, T, TRUE),
         NEW handle, handle.hash_len \in 1..22, NEW r \in Relays, NEW d \in Nat,
         NEW zero \in 0..20,
         NEW i, Entered(i), i.relay = r, i.key = Key(handle),
         i.hash_len = handle.hash_len, i.day = d
  PROVE  LET ans == SRS_forward(handle, s, Alias(r), d, zero) IN
         ans = Exit \/ Rewritten(ans, s, o, Append(T, i), r)
PROOF
  <1>1. PICK G : G = Append(T, i)
    OBVIOUS
  <1>2. ASSUME NEW x, NEW a, Base(o, T, x, a), Once(s, x, a) \/ Twice(s, x, a)
        PROVE  Rewritten(SRS_forward(handle, s, Alias(r), d, zero), s, o, G, r)
    <2>1. Base(o, G, x, a)
      BY <1>1, <1>2, BaseGrows
    <2>2. Good(x) /\ StrLen(x) + 2 * NameLen + 7 < MAX_RWA
      BY <1>2, BaseGood
    <2> QED BY <1>2, <2>1, <2>2, AgainWrites
  <1>3. CASE s = o /\ ~Has(o, At)
    BY <1>3 DEF SRS_forward
  <1>4. ASSUME NEW u, NEW h, Plain(o, u, h), s = o, Len(T) = 0
        PROVE  Rewritten(SRS_forward(handle, s, Alias(r), d, zero), s, o, G, r)
    <2>1. PICK ans : ans = SRS_forward(handle, s, Alias(r), d, zero)
      OBVIOUS
    <2>2. PICK x : x = Ticket(i, h, u) /\ Good(x)
      BY <1>4, TicketIs DEF Plain
    <2>3. ans.ret = "ok" /\ ans.out = Mailbox(S0(Eq, x), <<Name(r)>>)
      <3>1. Answers(SRS_forward(handle, o, Alias(r), d, zero),
                    Mailbox(S0(Eq, Ticket(i, h, u)), <<Name(r)>>))
        <4>1. Plain(o, u, h)
          BY <1>4
        <4> QED BY <4>1, ForwardCompiles DEF Answers
      <3>2. Answers(ans, Mailbox(S0(Eq, x), <<Name(r)>>))
        BY <1>4, <2>1, <2>2, <3>1
      <3> QED BY <3>2 DEF Answers
    <2>4. Len(G) = 1 /\ G[1] = i
      BY <1>1, <1>4, AppendText
    <2>5. Len(G) >= 1 /\ Entered(G[1]) /\ r = G[1].relay /\ x = Ticket(G[1], h, u)
      BY <2>2, <2>4
    <2>6. Base(o, G, x, r)
      BY <1>4, <2>5, Zenon DEF Base
    <2>7. Once(ans.out, x, r)
      BY <2>3, TagsDiffer DEF Once
    <2>8. RouteOf(ans.out) = <<r>>
      BY <2>2, <2>7, OnceRoute
    <2>9. RouteOf(s) = <<>>
      BY <1>4, PlainBare, BareRoute
    <2>10. RouteOf(ans.out) = Onto(RouteOf(s), r)
      BY <2>8, <2>9 DEF Onto
    <2> QED BY <2>1, <2>3, <2>6, <2>7, <2>10 DEF Rewritten
  <1>5. ASSUME NEW p, NEW x, NEW a, Foreign(o, p, x, a), s = o
        PROVE  Rewritten(SRS_forward(handle, s, Alias(r), d, zero), s, o, G, r)
    <2>1. Base(o, T, x, a) /\ Once(s, x, a)
      BY <1>5 DEF Base, Foreign, Once
    <2> QED BY <1>2, <2>1
  <1>6. CASE \E x, a : Base(o, T, x, a) /\ (Once(s, x, a) \/ Twice(s, x, a))
    BY <1>1, <1>2, <1>6
  <1>7. CASE s = o /\ Len(T) = 0
    BY <1>1, <1>3, <1>4, <1>5, <1>7, OriginForms
  <1> QED BY <1>6, <1>7 DEF Held

\* Why a relay may refuse what was entered as i.
Reasons(i, handle, d) ==
    \/ ~SRS_timestamp_check(handle, SRS_timestamp_create(i.day), d)
    \/ i.key # Key(handle)
    \/ i.hash_len # handle.hash_len
    \/ handle.hash_min \notin 0..i.hash_len

\* The route without its last relay.
Shorter(ans, s) ==
    /\ RouteOf(s) # <<>>
    /\ RouteOf(ans.out) = SubSeq(RouteOf(s), 1, Len(RouteOf(s)) - 1)

Unwound(ans, s, o, T) ==
    /\ ans.ret = "ok" /\ Has(s, SRS_WRAP)
    /\ \E x, a : Base(o, T, x, a) /\ Once(ans.out, x, a)
    /\ Shorter(ans, s)

Opened(ans, s, o, T, r, handle) ==
    /\ ans.ret = "ok" /\ ans.out = o
    /\ Len(T) >= 1 /\ T[1].relay = r
    /\ T[1].key = Key(handle) /\ T[1].hash_len = handle.hash_len
    /\ Shorter(ans, s)

Refused(ans, s, T, r, handle, d) ==
    /\ ans = Exit
    /\ ~Has(s, At) \/ (Len(T) >= 1 /\ T[1].relay = r /\ Reasons(T[1], handle, d))

Opens(ans, handle, i, d, o) ==
    LET ok == /\ SRS_timestamp_check(handle, Stamp(i), d)
              /\ handle.hash_min \in 0..i.hash_len
              /\ i.key = Key(handle) /\ i.hash_len = handle.hash_len
    IN  /\ ~ok => ans = Exit
        /\ ok => ans.ret = "ok" /\ ans.out = o

\* A route without its last relay.
LEMMA PairShort ==
  \A a, q : SubSeq(<<a, q>>, 1, Len(<<a, q>>) - 1) = <<a>> /\ <<a, q>> # <<>>
PROOF
  <1> SUFFICES ASSUME NEW a, NEW q
               PROVE  /\ SubSeq(<<a, q>>, 1, Len(<<a, q>>) - 1) = <<a>>
                      /\ <<a, q>> # <<>>
    OBVIOUS
  <1>1. PICK p, c : p = <<a, q>> /\ c = <<a>>
    OBVIOUS
  <1>2. /\ IsText(p) /\ Len(p) = 2 /\ p[1] = a
        /\ IsText(c) /\ Len(c) = 1 /\ c[1] = a
        /\ Len(<<>>) = 0
    BY <1>1, TextTuples
  <1>3. /\ IsText(SubSeq(p, 1, 1)) /\ Len(SubSeq(p, 1, 1)) = 1 - 1 + 1
        /\ \A k \in 1..(1 - 1 + 1) : SubSeq(p, 1, 1)[k] = p[1 + k - 1]
    <2>1. IsText(p) /\ 1 \in Nat \ {0} /\ 1 <= Len(p) /\ 1 <= 1 + 1
      BY <1>2
    <2> QED BY ONLY <2>1, TextSub
  <1>4. SubSeq(p, 1, 1)[1] = a
    BY <1>2, <1>3
  <1>5. SubSeq(p, 1, 1) = c
    <2>1. PICK g : g = SubSeq(p, 1, 1)
      OBVIOUS
    <2>2. IsText(g) /\ Len(g) = 1 /\ g[1] = a
      BY <1>3, <1>4, <2>1
    <2>3. \A i \in 1..Len(g) : g[i] = c[i]
      BY <1>2, <2>2
    <2>4. g = c
      BY <1>2, <2>2, <2>3, TextEqual
    <2> QED BY <2>1, <2>4
  <1>6. Len(p) - 1 = 1 /\ p # <<>>
    BY <1>2
  <1>7. SubSeq(p, 1, Len(p) - 1) = c
    BY <1>5, <1>6
  <1> QED BY <1>1, <1>6, <1>7

\* A route of one relay, without it.
LEMMA OneShort ==
  \A a : SubSeq(<<a>>, 1, Len(<<a>>) - 1) = <<>> /\ <<a>> # <<>>
PROOF
  <1> SUFFICES ASSUME NEW a
               PROVE  SubSeq(<<a>>, 1, Len(<<a>>) - 1) = <<>> /\ <<a>> # <<>>
    OBVIOUS
  <1> QED OBVIOUS

\* Only a relay's own address is reversed there, or what it wraps.
LEMMA AgainReads ==
  ASSUME Short, NEW o \in Origins, NEW T, NEW x, NEW a, Base(o, T, x, a),
         NEW s, Once(s, x, a) \/ Twice(s, x, a),
         NEW handle, handle.hash_len \in 1..22, handle.hash_min \in Int,
         NEW r \in Relays, From(s, StrChr(s, 1, At) + 1) = <<Name(r)>>,
         NEW d, NEW zero \in 0..20
  PROVE  LET ans == SRS_reverse(handle, s, d, zero) IN
         \/ Refused(ans, s, T, r, handle, d)
         \/ Unwound(ans, s, o, T)
         \/ Opened(ans, s, o, T, r, handle)
PROOF
  <1>1. PICK ans : ans = SRS_reverse(handle, s, d, zero)
    OBVIOUS
  <1>2. Good(x) /\ StrLen(x) + 2 * NameLen + 7 < MAX_RWA
    BY BaseGood
  <1>3. CASE Twice(s, x, a)
    <2>1. PICK q \in Relays : s = Mailbox(S1(<<Name(a)>>, x), <<Name(q)>>)
      BY <1>3 DEF Twice
    <2>2. ans.ret = "ok" /\ ans.out = Mailbox(S0(Eq, x), <<Name(a)>>)
      BY <1>1, <1>2, <1>3, ReverseUnwraps
    <2>3. Once(ans.out, x, a)
      BY <2>2, TagsDiffer DEF Once
    <2>4. RouteOf(ans.out) = <<a>> /\ RouteOf(s) = <<a, q>>
      BY <1>2, <2>1, <2>3, OnceRoute, TwiceRoute
    <2>5. Shorter(ans, s)
      <3>1. SubSeq(<<a, q>>, 1, Len(<<a, q>>) - 1) = <<a>> /\ <<a, q>> # <<>>
        BY PairShort
      <3> QED BY <2>4, <3>1 DEF Shorter
    <2>6. Has(s, SRS_WRAP)
      BY <1>2, <2>1, TwiceIs DEF TwiceFacts
    <2>7. Unwound(ans, s, o, T)
      BY <2>2, <2>3, <2>5, <2>6 DEF Unwound
    <2> QED BY <1>1, <2>7
  <1>4. CASE Once(s, x, a)
    <2>1. PICK p \in srs_separators : s = Mailbox(S0(p, x), <<Name(a)>>)
      BY <1>4 DEF Once
    <2>2. <<Name(a)>> = <<Name(r)>> /\ ~Has(s, SRS_WRAP)
      BY <1>2, <2>1, OnceIs DEF OnceFacts
    <2>3. a = r
      BY <2>2, OwnHost
    <2>4. PICK u, h : /\ Plain(o, u, h) /\ Len(T) >= 1 /\ Entered(T[1])
                      /\ a = T[1].relay /\ x = Ticket(T[1], h, u)
      BY <2>3 DEF Base, Foreign
    <2>5. PICK i : i = T[1]
      OBVIOUS
    <2>6. Opens(ans, handle, i, d, o)
      <3>1. Plain(o, u, h) /\ Entered(i) /\ Once(s, Ticket(i, h, u), a)
        BY <1>4, <2>4, <2>5
      <3>2. Opens(SRS_reverse(handle, s, d, zero), handle, i, d, o)
        BY <3>1, ReverseOpens DEF Opens
      <3> QED BY <1>1, <3>2
    <2>7. CASE /\ SRS_timestamp_check(handle, Stamp(i), d)
               /\ handle.hash_min \in 0..i.hash_len
               /\ i.key = Key(handle) /\ i.hash_len = handle.hash_len
      <3>1. ans.ret = "ok" /\ ans.out = o
        BY <2>6, <2>7 DEF Opens
      <3>2. RouteOf(s) = <<a>> /\ RouteOf(o) = <<>>
        BY <1>2, <1>4, <2>4, OnceRoute, PlainBare, BareRoute
      <3>3. Shorter(ans, s)
        <4>1. SubSeq(<<a>>, 1, Len(<<a>>) - 1) = <<>> /\ <<a>> # <<>>
          BY OneShort
        <4> QED BY <3>1, <3>2, <4>1 DEF Shorter
      <3>4. Opened(ans, s, o, T, r, handle)
        BY <2>3, <2>4, <2>5, <2>7, <3>1, <3>3 DEF Opened
      <3> QED BY <1>1, <3>4
    <2>8. CASE ~ /\ SRS_timestamp_check(handle, Stamp(i), d)
                 /\ handle.hash_min \in 0..i.hash_len
                 /\ i.key = Key(handle) /\ i.hash_len = handle.hash_len
      <3>1. ans = Exit
        BY <2>6, <2>8 DEF Opens
      <3>2. Reasons(i, handle, d)
        BY <2>8, Zenon DEF Reasons, Stamp
      <3>3. Refused(ans, s, T, r, handle, d)
        BY <2>3, <2>4, <2>5, <3>1, <3>2 DEF Refused
      <3> QED BY <1>1, <3>3
    <2> QED BY <2>7, <2>8
  <1> QED BY <1>3, <1>4

\* Nor is anything else reversed.
LEMMA ReverseReads ==
  ASSUME Short, NEW o \in Origins, NEW T, NEW s, Held(s, o, T, FALSE),
         NEW handle, handle.hash_len \in 1..22, handle.hash_min \in Int,
         NEW r \in Relays, From(s, StrChr(s, 1, At) + 1) = <<Name(r)>>,
         NEW d, NEW zero \in 0..20
  PROVE  LET ans == SRS_reverse(handle, s, d, zero) IN
         \/ ans = NoRwa /\ s = o
         \/ Refused(ans, s, T, r, handle, d)
         \/ Unwound(ans, s, o, T)
         \/ Opened(ans, s, o, T, r, handle)
PROOF
  <1>1. CASE \E x, a : Base(o, T, x, a) /\ (Once(s, x, a) \/ Twice(s, x, a))
    BY <1>1, AgainReads
  <1>2. CASE s = o
    <2>1. CASE ~Has(o, At)
      BY <1>2, <2>1 DEF SRS_reverse, Refused
    <2>2. ASSUME NEW u, NEW h, Plain(o, u, h) PROVE SRS_reverse(handle, s, d, zero) = NoRwa
      <3>1. Has(o, At) /\ ~Has(o, SRS_TAG) /\ ~Has(o, SRS_WRAP)
        BY <2>2, PlainBare
      <3> QED BY <1>2, <3>1 DEF SRS_reverse, SRS_parse
    <2>3. ASSUME NEW p, NEW x, NEW a, Foreign(o, p, x, a)
          PROVE  Base(o, T, x, a) /\ Once(s, x, a)
      BY <1>2, <2>3 DEF Base, Foreign, Once
    <2> QED BY <1>2, <2>1, <2>2, <2>3, OriginForms, AgainReads
  <1> QED BY <1>1, <1>2 DEF Held

\* What is handed over elsewhere is what the mail was sent from.
Home(s, o) == SameAddress(s, o) /\ (~Has(o, SRS_TAG) => s = o)

\* An origin is at home.
LEMMA SameIsHome == \A o : Home(o, o)
  BY DEF Home, SameAddress

\* What has a host that is no relay is at home.
LEMMA ElsewhereIsHome ==
  ASSUME Short, NEW o \in Origins, NEW T, NEW s, Held(s, o, T, FALSE),
         \A r \in Relays : From(s, StrChr(s, 1, At) + 1) # <<Name(r)>>
  PROVE  Home(s, o)
PROOF
  <1>1. CASE s = o
    BY <1>1, SameIsHome
  <1>2. CASE s # o
    <2>1. PICK x, a : Base(o, T, x, a) /\ (Once(s, x, a) \/ Twice(s, x, a))
      BY <1>2 DEF Held
    <2>2. Good(x)
      BY <2>1, BaseGood
    <2>3. ~Twice(s, x, a)
      <3> SUFFICES ASSUME NEW q \in Relays,
                          s = Mailbox(S1(<<Name(a)>>, x), <<Name(q)>>)
                   PROVE  FALSE
        BY DEF Twice
      <3> QED BY <2>2, TwiceIs DEF TwiceFacts
    <2>4. PICK p \in srs_separators : s = Mailbox(S0(p, x), <<Name(a)>>)
      BY <2>1, <2>3 DEF Once
    <2>5. OnceFacts(s, p, x, a)
      BY <2>2, <2>4, OnceIs
    <2>6. a \notin Relays
      BY <2>5 DEF OnceFacts
    <2>7. PICK g : Foreign(o, g, x, a)
      BY <2>1, <2>6 DEF Base, Entered
    <2>8. OnceFacts(o, g, x, a)
      BY <2>7, OnceIs DEF Foreign
    <2>9. /\ HasTag(s, "SRS0") /\ HasTag(o, "SRS0") /\ Has(o, SRS_TAG)
          /\ From(s, 3) = From(o, 3)
      BY <2>5, <2>8 DEF OnceFacts
    <2> QED BY <2>9 DEF Home, SameAddress
  <1> QED BY <1>1, <1>2

-----------------------------------------------------------------------------
(* Every sender is one that its trail explains *)

Entrusted(e) ==
    /\ e.state = "new" => e.origin = <<>> /\ e.sender = <<>> /\ Len(e.trail) = 0
    /\ e.state # "new" =>
         /\ e.origin \in Origins
         /\ Held(e.sender, e.origin, e.trail, e.state = "transit")
    /\ e.state = "returned" => Home(e.sender, e.origin)
    /\ e.code = "SIGSEGV" => e.over

Followed == Sane /\ \A m \in Mail : Entrusted(mail[m])

\* What SRS_forward() and SRS_reverse() make of envelope e at relay r.
Writing(e, r, i, ans) ==
    \/ ans.ret # "ok" /\ (ans.ret = "SIGSEGV" => ans.over)
    \/ Rewritten(ans, e.sender, e.origin, Append(e.trail, i), r)

Reading(e, r, handle, d, ans) ==
    \/ ans = NoRwa /\ e.sender = e.origin
    \/ Refused(ans, e.sender, e.trail, r, handle, d)
    \/ Unwound(ans, e.sender, e.origin, e.trail)
    \/ Opened(ans, e.sender, e.origin, e.trail, r, handle)
    \/ ans.ret = "nomem"
    \/ ans.ret = "SIGSEGV" /\ ans.over

\* A relay's entry on a trail is one that it can have.
LEMMA EntryIs ==
  ASSUME Sane, NEW r \in Relays
  PROVE  /\ Entered(Entry(r)) /\ Entry(r).relay = r /\ Entry(r).key = Key(srs[r])
         /\ Entry(r).hash_len = srs[r].hash_len /\ Entry(r).day = day
PROOF
  <1>1. /\ Entry(r).relay = r /\ Entry(r).key = Key(srs[r])
        /\ Entry(r).hash_len = srs[r].hash_len /\ Entry(r).day = day
    BY DEF Entry
  <1>2. srs[r].hash_len \in 1..22 /\ day \in Nat
    BY SettingsAssumption DEF Sane, HandleOK
  <1> QED BY <1>1, <1>2 DEF Entered

\* SRS_forward() on what arrives at a relay.
LEMMA ForwardIs ==
  ASSUME Short, Followed, NEW m \in Mail, NEW r \in Relays, Forward(m, r)
  PROVE  \E ans, f : Forwarded(m, r, ans, f) /\ Writing(mail[m], r, Entry(r), ans)
PROOF
  <1>0. EnvelopeOK(mail[m]) /\ Entrusted(mail[m]) /\ HandleOK(srs[r])
    BY DEF Followed, Sane
  <1>1. PICK zero \in ZeroBytes :
        \E ans \in Outcomes(SRS_forward(srs[r], mail[m].sender, Alias(r), day, zero)) :
        \E f : Forwarded(m, r, ans, f)
    BY <1>0, ForwardEffect
  <1>2. PICK e, h, d, i : e = mail[m] /\ h = srs[r] /\ d = day /\ i = Entry(r)
    OBVIOUS
  <1>3. PICK call : call = SRS_forward(h, e.sender, Alias(r), d, zero)
    OBVIOUS
  <1>4. PICK ans, f : ans \in Outcomes(call) /\ Forwarded(m, r, ans, f)
    BY <1>1, <1>2, <1>3
  <1>5. e.state = "transit"
    BY <1>2, <1>4 DEF Forwarded
  <1>6. /\ e.origin \in Origins /\ IsText(e.trail)
        /\ Held(e.sender, e.origin, e.trail, TRUE)
    <2>1. e.state # "new" /\ (e.state = "transit") = TRUE
      BY <1>5
    <2> QED BY <1>0, <1>2, <2>1 DEF Entrusted, EnvelopeOK
  <1>7. /\ h.hash_len \in 1..22 /\ d \in Nat /\ zero \in 0..20
        /\ Entered(i) /\ i.relay = r /\ i.key = Key(h)
        /\ i.hash_len = h.hash_len /\ i.day = d
    BY <1>0, <1>2, EntryIs, SettingsAssumption DEF Followed, Sane, HandleOK
  <1>8. \/ call = Exit
        \/ Rewritten(call, e.sender, e.origin, Append(e.trail, i), r)
    <2>1. PICK s, o, T : s = e.sender /\ o = e.origin /\ T = e.trail
      OBVIOUS
    <2>2. o \in Origins /\ IsText(T) /\ Held(s, o, T, TRUE)
      BY <1>6, <2>1
    <2>3. \/ SRS_forward(h, s, Alias(r), d, zero) = Exit
          \/ Rewritten(SRS_forward(h, s, Alias(r), d, zero), s, o, Append(T, i), r)
      BY <1>7, <2>2, ForwardWrites
    <2> QED BY <1>3, <2>1, <2>3
  <1>9. Writing(e, r, i, ans)
    BY <1>4, <1>8, OutcomeIs, Endings DEF Writing
  <1> QED BY <1>2, <1>4, <1>9

\* SRS_reverse() on a bounce.
LEMMA ReverseIs ==
  ASSUME Short, Followed, NEW m \in Mail, NEW r \in Relays, ReverseBounce(m, r)
  PROVE  \E ans, f : Returned(m, r, ans, f) /\ Reading(mail[m], r, srs[r], day, ans)
PROOF
  <1>0. EnvelopeOK(mail[m]) /\ Entrusted(mail[m]) /\ HandleOK(srs[r])
    BY DEF Followed, Sane
  <1>1. PICK zero \in ZeroBytes :
        \E ans \in Outcomes(SRS_reverse(srs[r], mail[m].sender, day, zero)) :
        \E f : Returned(m, r, ans, f)
    BY <1>0, ReverseEffect
  <1>2. PICK e, h, d : e = mail[m] /\ h = srs[r] /\ d = day
    OBVIOUS
  <1>3. PICK call : call = SRS_reverse(h, e.sender, d, zero)
    OBVIOUS
  <1>4. PICK ans, f : ans \in Outcomes(call) /\ Returned(m, r, ans, f)
    BY <1>1, <1>2, <1>3
  <1>5. e.state = "bounce" /\ From(e.sender, StrChr(e.sender, 1, At) + 1) = <<Name(r)>>
    BY <1>2, <1>4 DEF Returned, SenderHost
  <1>6. e.origin \in Origins /\ Held(e.sender, e.origin, e.trail, FALSE)
    <2>1. e.state # "new" /\ (e.state = "transit") = FALSE
      BY <1>5
    <2> QED BY <1>0, <1>2, <2>1 DEF Entrusted
  <1>7. h.hash_len \in 1..22 /\ h.hash_min \in Int /\ zero \in 0..20
    BY <1>0, <1>2, SettingsAssumption DEF HandleOK
  <1>8. Reading(e, r, h, d, call)
    <2>1. PICK s, o, T : s = e.sender /\ o = e.origin /\ T = e.trail
      OBVIOUS
    <2>2. /\ o \in Origins /\ Held(s, o, T, FALSE)
          /\ From(s, StrChr(s, 1, At) + 1) = <<Name(r)>>
      BY <1>5, <1>6, <2>1
    <2>3. PICK c : c = SRS_reverse(h, s, d, zero)
      OBVIOUS
    <2>4. \/ c = NoRwa /\ s = o
          \/ Refused(c, s, T, r, h, d)
          \/ Unwound(c, s, o, T)
          \/ Opened(c, s, o, T, r, h)
      BY <1>7, <2>2, <2>3, ReverseReads
    <2> QED BY <1>3, <2>1, <2>3, <2>4 DEF Reading
  <1>9. Reading(e, r, h, d, ans)
    BY <1>4, <1>8, OutcomeIs, Endings DEF Reading
  <1> QED BY <1>2, <1>4, <1>9

\* A step that changes one envelope.
LEMMA MailFollowed ==
  ASSUME Followed, Sane', NEW m \in Mail, NEW f, Entrusted(f), Becomes(m, f)
  PROVE  Followed'
PROOF
  <1>1. mail' = [mail EXCEPT ![m] = f] /\ DOMAIN mail = Mail
    BY DEF Becomes, Followed, Sane
  <1>2. ASSUME NEW k \in Mail PROVE Entrusted(mail'[k])
    <2>1. CASE k = m
      BY <1>1, <2>1
    <2>2. CASE k # m
      BY <1>1, <2>2 DEF Followed
    <2> QED BY <2>1, <2>2
  <1>3. \A k \in Mail : Entrusted(mail[k])'
    BY <1>2 DEF Entrusted
  <1> QED BY <1>3 DEF Followed

\* The envelope that a step makes is explained, too.
LEMMA SentOn ==
  ASSUME Followed, NEW m \in Mail, NEW r \in Relays, NEW ans, NEW f,
         Forwarded(m, r, ans, f), Writing(mail[m], r, Entry(r), ans)
  PROVE  Entrusted(f)
PROOF
  <1>0. Entrusted(mail[m]) /\ mail[m].state = "transit"
    BY DEF Followed, Forwarded
  <1>1. /\ mail[m].origin \in Origins
        /\ Held(mail[m].sender, mail[m].origin, mail[m].trail, TRUE)
    <2>1. mail[m].state # "new" /\ (mail[m].state = "transit") = TRUE
      BY <1>0
    <2> QED BY <1>0, <2>1 DEF Entrusted
  <1>2. PICK e, i : e = mail[m] /\ i = Entry(r)
    OBVIOUS
  <1>3. CASE ans.ret # "ok"
    <2>1. ans.ret = "SIGSEGV" => ans.over
      BY <1>3 DEF Writing, Rewritten
    <2>2. /\ f.state = "unsent" /\ f.sender = e.sender /\ f.code = ans.ret
          /\ f.trail = e.trail /\ f.origin = e.origin /\ f.over = ans.over
      BY <1>2, <1>3 DEF Forwarded
    <2>3. Held(f.sender, f.origin, f.trail, FALSE)
      BY <1>1, <1>2, <2>2 DEF Held
    <2>4. (f.state = "transit") = FALSE /\ f.state # "new" /\ f.state # "returned"
      BY <2>2
    <2> QED BY <1>1, <1>2, <2>1, <2>2, <2>3, <2>4 DEF Entrusted
  <1>4. CASE ans.ret = "ok"
    <2>1. Rewritten(ans, e.sender, e.origin, Append(e.trail, i), r)
      BY <1>2, <1>4 DEF Writing
    <2>2. /\ f.state = "transit" /\ f.sender = ans.out /\ f.code = "ok"
          /\ f.trail = Append(e.trail, i) /\ f.origin = e.origin
      BY <1>2, <1>4 DEF Forwarded
    <2>3. \A new : Held(f.sender, f.origin, f.trail, new)
      BY <2>1, <2>2 DEF Held, Rewritten
    <2>4. f.state # "new" /\ f.state # "returned" /\ f.code # "SIGSEGV"
      BY <2>2
    <2> QED BY <1>1, <1>2, <2>2, <2>3, <2>4 DEF Entrusted
  <1> QED BY <1>3, <1>4

\* So is what SRS_reverse() leaves.
LEMMA CameBack ==
  ASSUME Followed, NEW m \in Mail, NEW r \in Relays, NEW ans, NEW f,
         Returned(m, r, ans, f), Reading(mail[m], r, srs[r], day, ans)
  PROVE  Entrusted(f)
PROOF
  <1>0. Entrusted(mail[m]) /\ mail[m].state = "bounce"
    BY DEF Followed, Returned
  <1>1. /\ mail[m].origin \in Origins
        /\ Held(mail[m].sender, mail[m].origin, mail[m].trail, FALSE)
    <2>1. mail[m].state # "new" /\ (mail[m].state = "transit") = FALSE
      BY <1>0
    <2> QED BY <1>0, <2>1 DEF Entrusted
  <1>2. PICK e, h, d : e = mail[m] /\ h = srs[r] /\ d = day
    OBVIOUS
  <1>3. CASE ans.ret = "ok"
    <2>1. \/ Unwound(ans, e.sender, e.origin, e.trail)
          \/ Opened(ans, e.sender, e.origin, e.trail, r, h)
      BY <1>2, <1>3, Endings DEF Reading, Refused
    <2>2. /\ f.state = "bounce" /\ f.sender = ans.out /\ f.code = "ok"
          /\ f.trail = e.trail /\ f.origin = e.origin
      BY <1>2, <1>3 DEF Returned
    <2>3. Held(f.sender, f.origin, f.trail, FALSE)
      <3>1. CASE Opened(ans, e.sender, e.origin, e.trail, r, h)
        BY <2>2, <3>1 DEF Opened, Held
      <3>2. CASE Unwound(ans, e.sender, e.origin, e.trail)
        BY <2>2, <3>2 DEF Unwound, Held
      <3> QED BY <2>1, <3>1, <3>2
    <2>4. /\ (f.state = "transit") = FALSE /\ f.state # "new"
          /\ f.state # "returned" /\ f.code # "SIGSEGV"
      BY <2>2
    <2> QED BY <1>1, <1>2, <2>2, <2>3, <2>4 DEF Entrusted
  <1>4. CASE ans.ret = "NULL"
    <2>1. e.sender = e.origin
      BY <1>2, <1>4, Endings DEF Reading, Refused, Unwound, Opened
    <2>2. /\ f.state = "returned" /\ f.sender = e.sender /\ f.code = e.code
          /\ f.trail = e.trail /\ f.origin = e.origin /\ f.over = e.over
      BY <1>2, <1>4 DEF Returned
    <2>3. Home(f.sender, f.origin)
      BY <2>1, <2>2, SameIsHome
    <2>4. (f.state = "transit") = FALSE /\ f.state # "new"
      BY <2>2
    <2>5. f.code = "SIGSEGV" => f.over
      BY <1>0, <1>2, <2>2 DEF Entrusted
    <2> QED BY <1>1, <1>2, <2>2, <2>3, <2>4, <2>5 DEF Entrusted
  <1>5. CASE ans.ret \notin {"ok", "NULL"}
    <2>1. ans.ret = "SIGSEGV" => ans.over
      BY <1>2, <1>5, Endings DEF Reading, Refused, Unwound, Opened
    <2>2. /\ f.state = "lost" /\ f.sender = e.sender /\ f.code = ans.ret
          /\ f.trail = e.trail /\ f.origin = e.origin /\ f.over = ans.over
      BY <1>2, <1>5 DEF Returned
    <2>3. (f.state = "transit") = FALSE /\ f.state # "new" /\ f.state # "returned"
      BY <2>2
    <2> QED BY <1>1, <1>2, <2>1, <2>2, <2>3 DEF Entrusted
  <1> QED BY <1>3, <1>4, <1>5

\* Bounces that are not at a relay's are at home.
LEMMA HandedOver ==
  ASSUME Short, Followed, NEW m \in Mail, mail[m].state = "bounce",
         \A r \in Relays : SenderHost(m) # <<Name(r)>>
  PROVE  Home(mail[m].sender, mail[m].origin)
PROOF
  <1>1. PICK e : e = mail[m]
    OBVIOUS
  <1>2. e.origin \in Origins /\ Held(e.sender, e.origin, e.trail, FALSE)
    <2>1. e.state # "new" /\ (e.state = "transit") = FALSE
      BY <1>1
    <2> QED BY <1>1, <2>1 DEF Followed, Entrusted
  <1>3. PICK s, o, T : s = e.sender /\ o = e.origin /\ T = e.trail
    OBVIOUS
  <1>4. \A r \in Relays : From(s, StrChr(s, 1, At) + 1) # <<Name(r)>>
    BY <1>1, <1>3 DEF SenderHost
  <1>5. Home(s, o)
    <2>1. o \in Origins /\ Held(s, o, T, FALSE)
      BY <1>2, <1>3
    <2> QED BY <1>4, <2>1, ElsewhereIsHome
  <1> QED BY <1>1, <1>3, <1>5

\* New envelopes need no explanation.
LEMMA FollowedInit == Init => Followed
PROOF
  <1> SUFFICES ASSUME Init PROVE Followed
    OBVIOUS
  <1>1. \A m \in Mail : mail[m] = Blank
    BY DEF Init
  <1>2. Entrusted(Blank)
    BY TextTuples DEF Entrusted, Blank
  <1> QED BY <1>1, <1>2, SaneInit DEF Followed

\* Every step keeps it.
LEMMA FollowedStep ==
  ASSUME Short, Followed, [Next]_vars
  PROVE  Followed'
PROOF
  <1>0. /\ Sane /\ Sane'
        /\ \A m \in Mail : EnvelopeOK(mail[m]) /\ Entrusted(mail[m])
    BY SaneStep DEF Followed, Sane
  <1>1. ASSUME NEW m \in Mail, Submit(m) PROVE Followed'
    <2>1. PICK o, f : Submitted(m, o, f)
      BY <1>0, <1>1, SubmitEffect
    <2>2. PICK e : e = mail[m] /\ Entrusted(e) /\ e.state = "new"
      BY <1>0, <2>1 DEF Submitted
    <2>3. /\ f.state = "transit" /\ f.origin = o /\ f.sender = o /\ o \in Origins
          /\ f.code = e.code /\ f.over = e.over /\ f.trail = e.trail
          /\ Becomes(m, f)
      BY <2>1, <2>2 DEF Submitted
    <2>4. Len(f.trail) = 0
      BY <2>2, <2>3 DEF Entrusted
    <2>5. Held(f.sender, f.origin, f.trail, f.state = "transit")
      BY <2>3, <2>4 DEF Held
    <2>6. f.code = "SIGSEGV" => f.over
      BY <2>2, <2>3 DEF Entrusted
    <2>7. f.state # "new" /\ f.state # "returned"
      BY <2>3
    <2>8. Entrusted(f)
      BY <2>3, <2>5, <2>6, <2>7 DEF Entrusted
    <2> QED BY <1>0, <2>3, <2>8, MailFollowed
  <1>2. ASSUME NEW m \in Mail, NEW f, NEW st, Turned(m, f), f.state = st,
               mail[m].state # "new", st \in {"bounce", "returned", "lost"},
               st = "returned" => Home(mail[m].sender, mail[m].origin)
        PROVE  Followed'
    <2>1. PICK e : e = mail[m] /\ Entrusted(e) /\ e.state # "new"
      BY <1>0, <1>2
    <2>2. /\ f.origin = e.origin /\ f.sender = e.sender
          /\ f.code = e.code /\ f.over = e.over /\ f.trail = e.trail
          /\ Becomes(m, f)
      BY <1>2, <2>1 DEF Turned
    <2>3. e.origin \in Origins /\ Held(e.sender, e.origin, e.trail, e.state = "transit")
      BY <2>1 DEF Entrusted
    <2>4. Held(f.sender, f.origin, f.trail, FALSE)
      BY <2>2, <2>3 DEF Held
    <2>5. (f.state = "transit") = FALSE /\ f.state # "new"
      BY <1>2
    <2>6. f.code = "SIGSEGV" => f.over
      BY <2>1, <2>2 DEF Entrusted
    <2>7. f.state = "returned" => Home(f.sender, f.origin)
      BY <1>2, <2>1, <2>2
    <2>8. Entrusted(f)
      BY <2>2, <2>3, <2>4, <2>5, <2>6, <2>7 DEF Entrusted
    <2> QED BY <1>0, <2>2, <2>8, MailFollowed
  <1>3. ASSUME NEW m \in Mail, Bounce(m) PROVE Followed'
    <2>1. PICK f : Turned(m, f) /\ f.state = "bounce" /\ mail[m].state = "transit"
      BY <1>0, <1>3, BounceEffect
    <2> QED BY <1>2, <2>1
  <1>4. ASSUME NEW m \in Mail, HandOver(m) PROVE Followed'
    <2>1. PICK f : /\ Turned(m, f) /\ mail[m].state = "bounce"
                   /\ \A r \in Relays : SenderHost(m) # <<Name(r)>>
                   /\ f.state \in {"returned", "lost"}
      BY <1>0, <1>4, HandOverEffect
    <2>2. Home(mail[m].sender, mail[m].origin)
      BY <2>1, HandedOver
    <2> QED BY <1>2, <2>1, <2>2
  <1>5. ASSUME NEW m \in Mail, NEW r \in Relays, Forward(m, r) PROVE Followed'
    <2>1. PICK ans, f : Forwarded(m, r, ans, f) /\ Writing(mail[m], r, Entry(r), ans)
      BY <1>5, ForwardIs
    <2>2. Entrusted(f) /\ Becomes(m, f)
      BY <2>1, SentOn DEF Forwarded
    <2> QED BY <1>0, <2>2, MailFollowed
  <1>6. ASSUME NEW m \in Mail, NEW r \in Relays, ReverseBounce(m, r) PROVE Followed'
    <2>1. PICK ans, f : Returned(m, r, ans, f) /\ Reading(mail[m], r, srs[r], day, ans)
      BY <1>6, ReverseIs
    <2>2. Entrusted(f) /\ Becomes(m, f)
      BY <2>1, CameBack DEF Returned
    <2> QED BY <1>0, <2>2, MailFollowed
  <1>7. ASSUME mail' = mail PROVE Followed'
    BY <1>0, <1>7 DEF Followed, Entrusted
  <1>8. ASSUME NEW r \in Relays, SetSecret(r) \/ Renew(r) PROVE mail' = mail
    BY <1>8 DEF SetSecret, Renew, Set
  <1>9. CASE Tick \/ UNCHANGED vars
    BY <1>7, <1>9 DEF Tick, vars
  <1> QED BY <1>1, <1>3, <1>4, <1>5, <1>6, <1>7, <1>8, <1>9 DEF Next

\* The bounce that is handed over is home, whatever the handles were told in
\* between and whichever separators the local part has.
THEOREM HomeInTheEnd == ASSUME Short PROVE Spec => []NoMisdelivery
PROOF
  <1>1. Followed => NoMisdelivery
    BY DEF Followed, Entrusted, NoMisdelivery, Home
  <1>2. Followed /\ [Next]_vars => Followed'
    BY FollowedStep
  <1> QED BY <1>1, <1>2, FollowedInit, PTL DEF Spec

\* No call reads through a NULL pointer but after a block was overrun.
THEOREM NoNullIsRead == ASSUME Short PROVE Spec => []NeverCrashes
PROOF
  <1>1. Followed => NeverCrashes
    BY DEF Followed, Entrusted, NeverCrashes
  <1>2. Followed /\ [Next]_vars => Followed'
    BY FollowedStep
  <1> QED BY <1>1, <1>2, FollowedInit, PTL DEF Spec

-----------------------------------------------------------------------------
(* How bounces end *)

Ended(m, f) ==
    /\ Turned(m, f) /\ mail[m].state = "bounce"
    /\ \A r \in Relays : SenderHost(m) # <<Name(r)>>
    /\ Has(mail[m].sender, At) => f.state = "returned"
    /\ ~Has(mail[m].sender, At) => f.state = "lost"

\* A bounce is changed by the relay that its host names, or handed over.
LEMMA BounceStep ==
  ASSUME Short, Followed, [Next]_vars, NEW m \in Mail,
         mail[m].state = "bounce", mail'[m] # mail[m]
  PROVE  \/ \E r, ans :
              /\ r \in Relays /\ Returned(m, r, ans, mail'[m])
              /\ Reading(mail[m], r, srs[r], day, ans)
         \/ Ended(m, mail'[m])
PROOF
  <1>1. EnvelopeOK(mail[m]) /\ m \in DOMAIN mail /\ Sane
    BY DEF Followed, Sane
  <1>2. ASSUME NEW f, Becomes(m, f) PROVE mail'[m] = f
    BY <1>1, <1>2 DEF Becomes
  <1>3. CASE HandOver(m)
    <2>1. PICK f : Ended(m, f)
      BY <1>1, <1>3, HandOverEffect DEF Ended
    <2>2. mail'[m] = f
      BY <1>2, <2>1 DEF Ended, Turned
    <2> QED BY <2>1, <2>2
  <1>4. ASSUME NEW r \in Relays, ReverseBounce(m, r)
        PROVE  \E ans : /\ Returned(m, r, ans, mail'[m])
                        /\ Reading(mail[m], r, srs[r], day, ans)
    <2>1. PICK ans, f : Returned(m, r, ans, f) /\ Reading(mail[m], r, srs[r], day, ans)
      BY <1>4, ReverseIs
    <2>2. mail'[m] = f
      BY <1>2, <2>1 DEF Returned
    <2> QED BY <2>1, <2>2
  <1> QED BY <1>1, <1>3, <1>4, BounceMoves

\* The first entry of a trail.
LEMMA HeadIs == ASSUME NEW s, IsText(s), Len(s) >= 1 PROVE Head(s) = s[1]
  BY DEF IsText

\* A relay that ends over a bounce has one of the reasons named.
THEOREM Refusals == ASSUME Short PROVE Spec => RefusalsExplained
PROOF
  <1>1. ASSUME Followed, [Next]_vars, NEW m \in Mail,
               mail[m].state = "bounce", mail'[m].state = "lost"
        PROVE  \/ mail'[m].code = "nomem" \/ mail'[m].over
               \/ ~Has(mail[m].sender, At)
               \/ LET issue == Head(mail[m].trail)
                      now   == srs[issue.relay]
                  IN  \/ ~SRS_timestamp_check(now, SRS_timestamp_create(issue.day), day)
                      \/ issue.key # Key(now)
                      \/ issue.hash_len # now.hash_len
                      \/ now.hash_min \notin 0..issue.hash_len
    <2>1. CASE Ended(m, mail'[m])
      BY <1>1, <2>1 DEF Ended
    <2>2. ASSUME NEW r, NEW ans, r \in Relays, Returned(m, r, ans, mail'[m]),
                 Reading(mail[m], r, srs[r], day, ans)
          PROVE  \/ mail'[m].code = "nomem" \/ mail'[m].over
                 \/ ~Has(mail[m].sender, At)
                 \/ LET issue == Head(mail[m].trail)
                        now   == srs[issue.relay]
                    IN  \/ ~SRS_timestamp_check(now, SRS_timestamp_create(issue.day), day)
                        \/ issue.key # Key(now)
                        \/ issue.hash_len # now.hash_len
                        \/ now.hash_min \notin 0..issue.hash_len
      <3>1. PICK f : f = mail'[m]
        OBVIOUS
      <3>2. /\ ans.ret \notin {"ok", "NULL"} /\ f.code = ans.ret /\ f.over = ans.over
        BY <1>1, <2>2, <3>1 DEF Returned
      <3>3. \/ ans.ret = "nomem" \/ ans.over
            \/ Refused(ans, mail[m].sender, mail[m].trail, r, srs[r], day)
        BY <2>2, <3>2, Endings DEF Reading, Unwound, Opened
      <3>4. CASE Refused(ans, mail[m].sender, mail[m].trail, r, srs[r], day)
        <4>1. CASE ~Has(mail[m].sender, At)
          BY <4>1
        <4>2. CASE Has(mail[m].sender, At)
          <5>1. PICK T, i, h, d : T = mail[m].trail /\ i = T[1] /\ h = srs[r] /\ d = day
            OBVIOUS
          <5>2. Len(T) >= 1 /\ i.relay = r /\ Reasons(i, h, d)
            BY <3>4, <4>2, <5>1 DEF Refused
          <5>3. IsText(T)
            BY <1>1, <5>1 DEF Followed, Sane, EnvelopeOK
          <5>4. Head(mail[m].trail) = i
            BY <5>1, <5>2, <5>3, HeadIs
          <5>5. srs[i.relay] = h /\ day = d
            BY <5>1, <5>2
          <5> QED BY <5>2, <5>4, <5>5, Zenon DEF Reasons
        <4> QED BY <4>1, <4>2
      <3> QED BY <3>1, <3>2, <3>3, <3>4
    <2>3. mail'[m] # mail[m]
      BY <1>1
    <2> QED BY <1>1, <2>1, <2>2, <2>3, BounceStep
  <1>2. Followed /\ [Next]_vars =>
          [\A m \in Mail :
             (mail[m].state = "bounce" /\ mail'[m].state = "lost") =>
               \/ mail'[m].code = "nomem" \/ mail'[m].over
               \/ ~Has(mail[m].sender, At)
               \/ LET issue == Head(mail[m].trail)
                      now   == srs[issue.relay]
                  IN  \/ ~SRS_timestamp_check(now, SRS_timestamp_create(issue.day), day)
                      \/ issue.key # Key(now)
                      \/ issue.hash_len # now.hash_len
                      \/ now.hash_min \notin 0..issue.hash_len]_vars
    BY <1>1, Zenon
  <1>3. Followed /\ [Next]_vars => Followed'
    BY FollowedStep
  <1> QED BY <1>2, <1>3, FollowedInit, PTL DEF Spec, RefusalsExplained

\* Only the relay that wrote an SRS0 address reverses it, and only as long as it
\* has the key and the hash length of that day.
THEOREM UnderKey == ASSUME Short PROVE Spec => AcceptedUnderKey
PROOF
  <1>1. ASSUME Followed, [Next]_vars, NEW m \in Mail, NEW r \in Relays, Reversed(m, r)
        PROVE  LET issue == Head(mail[m].trail)
               IN  /\ issue.relay = r /\ issue.key = Key(srs[r])
                   /\ issue.hash_len = srs[r].hash_len
    <2>1. /\ mail[m].state = "bounce" /\ SenderHost(m) = <<Name(r)>>
          /\ ~Has(mail[m].sender, SRS_WRAP) /\ mail'[m].sender # mail[m].sender
      BY <1>1 DEF Reversed
    <2>2. ~Ended(m, mail'[m])
      BY <2>1 DEF Ended
    <2>3. PICK q, ans : /\ q \in Relays
                        /\ Returned(m, q, ans, mail'[m])
                        /\ Reading(mail[m], q, srs[q], day, ans)
      BY <1>1, <2>1, <2>2, BounceStep
    <2>4. q = r
      <3>1. <<Name(q)>> = <<Name(r)>>
        BY <2>1, <2>3 DEF Returned
      <3> QED BY <3>1, OwnHost
    <2>5. ans.ret = "ok"
      BY <2>1, <2>3 DEF Returned
    <2>6. Opened(ans, mail[m].sender, mail[m].origin, mail[m].trail, r, srs[r])
      BY <2>1, <2>3, <2>4, <2>5, Endings DEF Reading, Refused, Unwound
    <2>7. /\ Len(mail[m].trail) >= 1 /\ mail[m].trail[1].relay = r
          /\ mail[m].trail[1].key = Key(srs[r])
          /\ mail[m].trail[1].hash_len = srs[r].hash_len
      BY <2>6 DEF Opened
    <2>8. Head(mail[m].trail) = mail[m].trail[1]
      <3>1. PICK T : T = mail[m].trail
        OBVIOUS
      <3>2. IsText(T) /\ Len(T) >= 1
        BY <1>1, <2>7, <3>1 DEF Followed, Sane, EnvelopeOK
      <3> QED BY <3>1, <3>2, HeadIs
    <2> QED BY <2>7, <2>8
  <1>2. Followed /\ [Next]_vars =>
          [\A m \in Mail, r \in Relays : Reversed(m, r) =>
             LET issue == Head(mail[m].trail)
             IN  /\ issue.relay = r /\ issue.key = Key(srs[r])
                 /\ issue.hash_len = srs[r].hash_len]_vars
    BY <1>1
  <1>3. Followed /\ [Next]_vars => Followed'
    BY FollowedStep
  <1> QED BY <1>2, <1>3, FollowedInit, PTL DEF Spec, AcceptedUnderKey

-----------------------------------------------------------------------------
(* ReturnPath *)

\* What ReturnPath sees of an envelope.
Kept(e)     == ~Has(e.origin, SRS_TAG)
StateOf(e)  == IF Kept(e) THEN e.state ELSE "new"
RouteFor(e) == IF Kept(e) THEN RouteOf(e.sender) ELSE <<>>

state_ == [m \in Mail |-> IF Promised(m) THEN mail[m].state ELSE "new"]
route_ == [m \in Mail |-> IF Promised(m) THEN Route(m) ELSE <<>>]

\* It sees that of every envelope.
LEMMA SeenAs ==
  ASSUME NEW m \in Mail
  PROVE  state_[m] = StateOf(mail[m]) /\ route_[m] = RouteFor(mail[m])
  BY DEF state_, route_, StateOf, RouteFor, Kept, Promised, Route, RouteOf

\* What it sees of a step that changes one envelope.
LEMMA SeenStep ==
  ASSUME Sane, NEW m \in Mail, NEW f, Becomes(m, f)
  PROVE  /\ state_' = [state_ EXCEPT ![m] = StateOf(f)]
         /\ route_' = [route_ EXCEPT ![m] = RouteFor(f)]
PROOF
  <1>1. mail'[m] = f /\ \A k \in Mail \ {m} : mail'[k] = mail[k]
    BY DEF Sane, Becomes
  <1>3. \A k \in Mail : /\ state_'[k] = StateOf(mail'[k])
                        /\ route_'[k] = RouteFor(mail'[k])
    BY DEF state_, route_, StateOf, RouteFor, Kept, Promised, Route, RouteOf
  <1>4. \A k \in Mail : /\ state_[k] = StateOf(mail[k])
                        /\ route_[k] = RouteFor(mail[k])
    BY SeenAs
  <1>5. /\ state_ = [k \in Mail |-> state_[k]] /\ state_' = [k \in Mail |-> state_'[k]]
        /\ route_ = [k \in Mail |-> route_[k]] /\ route_' = [k \in Mail |-> route_'[k]]
    BY DEF state_, route_
  <1>6. /\ \A k \in Mail \ {m} : state_'[k] = state_[k] /\ route_'[k] = route_[k]
        /\ state_'[m] = StateOf(f) /\ route_'[m] = RouteFor(f)
    BY <1>1, <1>3, <1>4
  <1> QED BY <1>5, <1>6

\* A step that leaves an envelope as it is for ReturnPath.
LEMMA SeenStill ==
  ASSUME NEW m \in Mail, NEW e,
         state_' = [state_ EXCEPT ![m] = StateOf(e)],
         route_' = [route_ EXCEPT ![m] = RouteFor(e)],
         StateOf(e) = StateOf(mail[m]), RouteFor(e) = RouteFor(mail[m])
  PROVE  UNCHANGED <<state_, route_>>
PROOF
  <1>1. state_[m] = StateOf(mail[m]) /\ route_[m] = RouteFor(mail[m])
    BY SeenAs
  <1>2. /\ state_ = [k \in Mail |-> state_[k]]
        /\ route_ = [k \in Mail |-> route_[k]]
    BY DEF state_, route_
  <1> QED BY <1>1, <1>2

PromiseStep == Promise!Next \/ UNCHANGED <<state_, route_>>

\* An envelope that is none of ReturnPath's stays so.
LEMMA Unkept ==
  ASSUME Sane, NEW m \in Mail, NEW f, ~Kept(mail[m]), f.origin = mail[m].origin,
         Becomes(m, f)
  PROVE  PromiseStep
PROOF
  <1>1. StateOf(f) = StateOf(mail[m]) /\ RouteFor(f) = RouteFor(mail[m])
    BY DEF StateOf, RouteFor, Kept
  <1> QED BY <1>1, SeenStep, SeenStill DEF PromiseStep

\* A plain origin has no route.
LEMMA OriginRoute ==
  ASSUME NEW o \in Origins, ~Has(o, SRS_TAG)
  PROVE  RouteOf(o) = <<>>
  BY OriginsAssumption, OriginSound, BareRoute DEF OriginOK

\* Mail begins with the empty route.
LEMMA SubmitPath ==
  ASSUME Followed, NEW m \in Mail, Submit(m)
  PROVE  PromiseStep
PROOF
  <1>1. EnvelopeOK(mail[m]) /\ Entrusted(mail[m]) /\ Sane
    BY DEF Followed, Sane
  <1>2. PICK o, f : Submitted(m, o, f)
    BY <1>1, SubmitEffect
  <1>3. /\ mail[m].state = "new" /\ mail[m].sender = <<>> /\ mail[m].origin = <<>>
        /\ f.state = "transit" /\ f.origin = o /\ f.sender = o /\ o \in Origins
        /\ Becomes(m, f)
    BY <1>1, <1>2 DEF Submitted, Entrusted
  <1>4. /\ state_' = [state_ EXCEPT ![m] = StateOf(f)]
        /\ route_' = [route_ EXCEPT ![m] = RouteFor(f)]
    BY <1>1, <1>3, SeenStep
  <1>5. StateOf(mail[m]) = "new" /\ RouteFor(mail[m]) = <<>>
    <2>1. RouteOf(<<>>) = <<>>
      BY TextTuples DEF RouteOf, HasTag
    <2> QED BY <1>3, <2>1 DEF StateOf, RouteFor
  <1>6. RouteFor(f) = <<>>
    BY <1>3, OriginRoute DEF RouteFor, Kept
  <1>7. CASE Kept(f)
    <2>1. StateOf(f) = "transit"
      BY <1>3, <1>7 DEF StateOf
    <2>2. state_[m] = "new" /\ route_[m] = <<>>
      BY <1>5, SeenAs
    <2>3. UNCHANGED route_
      BY <1>4, <1>6, <2>2 DEF route_
    <2>4. Promise!Submit(m)
      BY <1>4, <2>1, <2>2, <2>3 DEF Promise!Submit, Promise!Move, state_, route_
    <2> QED BY <2>4 DEF PromiseStep, Promise!Next
  <1>8. CASE ~Kept(f)
    <2>1. StateOf(f) = "new"
      BY <1>8 DEF StateOf
    <2> QED BY <1>4, <1>5, <1>6, <2>1, SeenStill DEF PromiseStep
  <1> QED BY <1>7, <1>8

\* Forwarding is Rewrite of ReturnPath, or GiveUp.
LEMMA ForwardPath ==
  ASSUME Short, Followed, NEW m \in Mail, NEW r \in Relays, Forward(m, r)
  PROVE  PromiseStep
PROOF
  <1>1. PICK ans, f : Forwarded(m, r, ans, f) /\ Writing(mail[m], r, Entry(r), ans)
    BY ForwardIs
  <1>2. /\ Sane /\ Becomes(m, f) /\ f.origin = mail[m].origin
        /\ mail[m].state = "transit"
    BY <1>1 DEF Followed, Forwarded
  <1>3. CASE ~Kept(mail[m])
    BY <1>2, <1>3, Unkept
  <1>4. CASE Kept(mail[m])
    <2>1. PICK p : p = RouteOf(mail[m].sender)
      OBVIOUS
    <2>2. /\ state_' = [state_ EXCEPT ![m] = f.state]
          /\ route_' = [route_ EXCEPT ![m] = RouteOf(f.sender)]
      BY <1>2, <1>4, SeenStep DEF StateOf, RouteFor, Kept
    <2>3. state_[m] = "transit" /\ route_[m] = p
      BY <1>2, <1>4, <2>1, SeenAs DEF StateOf, RouteFor
    <2>4. CASE ans.ret # "ok"
      <3>1. f.state = "unsent" /\ f.sender = mail[m].sender
        BY <1>1, <2>4 DEF Forwarded
      <3>2. UNCHANGED route_
        BY <2>1, <2>2, <2>3, <3>1 DEF route_
      <3>3. Promise!GiveUp(m)
        BY <2>2, <2>3, <3>1, <3>2 DEF Promise!GiveUp, Promise!Move, state_, route_
      <3> QED BY <3>3 DEF PromiseStep, Promise!Next
    <2>5. CASE ans.ret = "ok"
      <3>1. f.state = "transit" /\ f.sender = ans.out
        BY <1>1, <2>5 DEF Forwarded
      <3>2. RouteOf(ans.out) = Onto(p, r)
        BY <1>1, <2>1, <2>5 DEF Writing, Rewritten
      <3>3. UNCHANGED state_
        BY <2>2, <2>3, <3>1 DEF state_
      <3>4. route_' = [route_ EXCEPT ![m] = IF @ = <<>> THEN <<r>> ELSE <<@[1], r>>]
        BY <2>2, <2>3, <3>1, <3>2 DEF Onto
      <3>5. Promise!Rewrite(m, r)
        BY <2>3, <3>3, <3>4 DEF Promise!Rewrite, state_, route_
      <3> QED BY <3>5 DEF PromiseStep, Promise!Next
    <2> QED BY <2>4, <2>5
  <1> QED BY <1>3, <1>4

\* A bounce begins where the mail was.
LEMMA BouncePath ==
  ASSUME Sane, NEW m \in Mail, Bounce(m)
  PROVE  PromiseStep
PROOF
  <1>0. EnvelopeOK(mail[m])
    BY DEF Sane
  <1>1. PICK f : Turned(m, f) /\ mail[m].state = "transit" /\ f.state = "bounce"
    BY <1>0, BounceEffect
  <1>2. Becomes(m, f) /\ f.origin = mail[m].origin /\ f.sender = mail[m].sender
    BY <1>1 DEF Turned
  <1>3. CASE ~Kept(mail[m])
    BY <1>2, <1>3, Unkept
  <1>4. CASE Kept(mail[m])
    <2>1. /\ state_' = [state_ EXCEPT ![m] = "bounce"]
          /\ route_' = [route_ EXCEPT ![m] = RouteOf(mail[m].sender)]
      BY <1>1, <1>2, <1>4, SeenStep DEF StateOf, RouteFor, Kept
    <2>2. state_[m] = "transit" /\ route_[m] = RouteOf(mail[m].sender)
      BY <1>1, <1>4, SeenAs DEF StateOf, RouteFor
    <2>3. UNCHANGED route_
      BY <2>1, <2>2 DEF route_
    <2>4. Promise!Bounce(m)
      BY <2>1, <2>2, <2>3 DEF Promise!Bounce, Promise!Move, state_, route_
    <2> QED BY <2>4 DEF PromiseStep, Promise!Next
  <1> QED BY <1>3, <1>4

\* The end of a bounce: lost, or given back at the end of its route.
LEMMA EndPath ==
  ASSUME Followed, NEW m \in Mail, NEW f, mail[m].state = "bounce",
         f.origin = mail[m].origin, f.sender = mail[m].sender,
         f.state \in {"lost", "returned"},
         f.state = "returned" => Home(mail[m].sender, mail[m].origin),
         Becomes(m, f)
  PROVE  PromiseStep
PROOF
  <1>1. Sane
    BY DEF Followed
  <1>2. CASE ~Kept(mail[m])
    BY <1>1, <1>2, Unkept
  <1>3. CASE Kept(mail[m])
    <2>1. /\ state_' = [state_ EXCEPT ![m] = f.state]
          /\ route_' = [route_ EXCEPT ![m] = RouteOf(mail[m].sender)]
      BY <1>1, <1>3, SeenStep DEF StateOf, RouteFor, Kept
    <2>2. state_[m] = "bounce" /\ route_[m] = RouteOf(mail[m].sender)
      BY <1>3, SeenAs DEF StateOf, RouteFor
    <2>3. UNCHANGED route_
      BY <2>1, <2>2 DEF route_
    <2>4. CASE f.state = "lost"
      <3>1. Promise!Lose(m)
        BY <2>1, <2>2, <2>3, <2>4 DEF Promise!Lose, Promise!Move, state_, route_
      <3> QED BY <3>1 DEF PromiseStep, Promise!Next
    <2>5. CASE f.state = "returned"
      <3>1. mail[m].sender = mail[m].origin /\ mail[m].origin \in Origins
        BY <1>3, <2>5 DEF Home, Kept, Followed, Entrusted
      <3>2. RouteOf(mail[m].sender) = <<>>
        BY <1>3, <3>1, OriginRoute DEF Kept
      <3>3. Promise!GiveBack(m)
        BY <2>1, <2>2, <2>3, <2>5, <3>2
           DEF Promise!GiveBack, Promise!Move, state_, route_
      <3> QED BY <3>3 DEF PromiseStep, Promise!Next
    <2> QED BY <2>4, <2>5
  <1> QED BY <1>2, <1>3

\* A reversal is Unwind of ReturnPath, or the end of the bounce.
LEMMA ReversePath ==
  ASSUME Short, Followed, NEW m \in Mail, NEW r \in Relays, ReverseBounce(m, r)
  PROVE  PromiseStep
PROOF
  <1>1. PICK ans, f : Returned(m, r, ans, f) /\ Reading(mail[m], r, srs[r], day, ans)
    BY ReverseIs
  <1>2. /\ Sane /\ Becomes(m, f) /\ f.origin = mail[m].origin
        /\ mail[m].state = "bounce"
    BY <1>1 DEF Followed, Returned
  <1>3. CASE ans.ret # "ok"
    <2>1. /\ f.sender = mail[m].sender /\ f.state \in {"lost", "returned"}
          /\ f.state = "returned" => ans.ret = "NULL"
      BY <1>1, <1>3 DEF Returned
    <2>2. ans.ret = "NULL" => mail[m].sender = mail[m].origin
      BY <1>1, Endings DEF Reading, Refused, Unwound, Opened
    <2>3. f.state = "returned" => Home(mail[m].sender, mail[m].origin)
      BY <2>1, <2>2, SameIsHome
    <2> QED BY <1>2, <2>1, <2>3, EndPath
  <1>4. CASE ans.ret = "ok" /\ ~Kept(mail[m])
    BY <1>2, <1>4, Unkept
  <1>5. CASE ans.ret = "ok" /\ Kept(mail[m])
    <2>1. f.state = "bounce" /\ f.sender = ans.out
      BY <1>1, <1>5 DEF Returned
    <2>2. Shorter(ans, mail[m].sender)
      BY <1>1, <1>5, Endings DEF Reading, Refused, Unwound, Opened
    <2>3. PICK p : p = RouteOf(mail[m].sender)
      OBVIOUS
    <2>4. p # <<>> /\ RouteOf(f.sender) = SubSeq(p, 1, Len(p) - 1)
      BY <2>1, <2>2, <2>3 DEF Shorter
    <2>5. /\ state_' = [state_ EXCEPT ![m] = "bounce"]
          /\ route_' = [route_ EXCEPT ![m] = RouteOf(f.sender)]
      BY <1>2, <1>5, <2>1, SeenStep DEF StateOf, RouteFor, Kept
    <2>6. state_[m] = "bounce" /\ route_[m] = p
      BY <1>2, <1>5, <2>3, SeenAs DEF StateOf, RouteFor
    <2>7. UNCHANGED state_
      BY <2>5, <2>6 DEF state_
    <2>8. route_' = [route_ EXCEPT ![m] = SubSeq(@, 1, Len(@) - 1)]
      BY <2>4, <2>5, <2>6
    <2>9. Promise!Unwind(m)
      BY <2>4, <2>6, <2>7, <2>8 DEF Promise!Unwind, state_, route_
    <2> QED BY <2>9 DEF PromiseStep, Promise!Next
  <1> QED BY <1>3, <1>4, <1>5

\* What is handed over is at the end of its route.
LEMMA HandOverPath ==
  ASSUME Short, Followed, NEW m \in Mail, HandOver(m)
  PROVE  PromiseStep
PROOF
  <1>0. EnvelopeOK(mail[m])
    BY DEF Followed, Sane
  <1>1. PICK f : /\ Turned(m, f) /\ mail[m].state = "bounce"
                 /\ \A r \in Relays : SenderHost(m) # <<Name(r)>>
                 /\ f.state \in {"returned", "lost"}
    BY <1>0, HandOverEffect
  <1>2. Home(mail[m].sender, mail[m].origin)
    BY <1>1, HandedOver
  <1> QED BY <1>1, <1>2, EndPath DEF Turned

\* Every step is one of ReturnPath or none.
LEMMA PathStep ==
  ASSUME Short, Followed, [Next]_vars
  PROVE  PromiseStep
PROOF
  <1>0. Sane
    BY DEF Followed
  <1>1. ASSUME mail' = mail PROVE PromiseStep
    BY <1>1 DEF PromiseStep, state_, route_, Promised, Route
  <1>2. ASSUME NEW r \in Relays, SetSecret(r) \/ Renew(r) PROVE mail' = mail
    BY <1>2 DEF SetSecret, Renew, Set
  <1>3. CASE Tick \/ UNCHANGED vars
    BY <1>1, <1>3 DEF Tick, vars
  <1> QED BY <1>0, <1>1, <1>2, <1>3, SubmitPath, ForwardPath, BouncePath,
             ReversePath, HandOverPath DEF Next

\* Both begin with new mail.
LEMMA PathInit == Init => Promise!Init
PROOF
  <1> SUFFICES ASSUME Init PROVE Promise!Init
    OBVIOUS
  <1>1. \A m \in Mail : mail[m] = Blank
    BY DEF Init
  <1>2. Blank.state = "new" /\ Blank.origin = <<>> /\ Blank.sender = <<>>
    BY DEF Blank
  <1>3. RouteOf(<<>>) = <<>>
    BY TextTuples DEF RouteOf, HasTag
  <1>4. \A m \in Mail : state_[m] = "new" /\ route_[m] = <<>>
    BY <1>1, <1>2, <1>3, SeenAs DEF StateOf, RouteFor
  <1> QED BY <1>4 DEF Promise!Init, state_, route_

\* Whatever relays mail from an address without a tag goes through, its bounce
\* takes the way that ReturnPath says: back to the last relay, from there to the
\* first, and to the sender, or it is lost.
THEOREM PromiseKept == ASSUME Short PROVE Spec => KeepsPromise
PROOF
  <1>1. Followed /\ [Next]_vars => Followed' /\ [Promise!Next]_(Promise!vars)
    BY FollowedStep, PathStep DEF PromiseStep, Promise!vars, state_, route_
  <1>2. Init => Followed /\ Promise!Init
    BY FollowedInit, PathInit
  <1> QED BY <1>1, <1>2, PTL DEF Spec, KeepsPromise, Promise!Spec
=============================================================================
