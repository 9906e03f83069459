--------------------------- MODULE SrsString_proofs ---------------------------
(***************************************************************************)
(* Facts about the strings of SrsString: they are sequences over their own *)
(* range (texts), and strchr() on them.                                    *)
(***************************************************************************)
EXTENDS SrsString, SequenceTheorems, WellFoundedInduction, TLAPS

IsText(s) == s \in Seq(Range(s))

\* The kinds of tokens differ, and so do the separators.
LEMMA TokensDiffer ==
    /\ Eq # At /\ Eq # Nul /\ At # Nul
    /\ Minus # At /\ Minus # Nul /\ Plus # At /\ Plus # Nul
    /\ \A n : Name(n) # Eq /\ Name(n) # At /\ Name(n) # Nul
    /\ \A d : Base32(d) # Eq /\ Base32(d) # At /\ Base32(d) # Nul
    /\ \A t : Tag(t) # Eq /\ Tag(t) # At /\ Tag(t) # Nul
    /\ \A k, d, n : Hash(k, d, n) # Eq /\ Hash(k, d, n) # At /\ Hash(k, d, n) # Nul
    /\ \A t, n : Tag(t) # Name(n)
  BY DEF Eq, Minus, Plus, At, Nul, Name, Base32, Tag, Hash

\* A name is determined by its text.
LEMMA NamesEqual == \A m, n : Name(m) = Name(n) => m = n
  BY DEF Name

\* A tag is determined by its text.
LEMMA TagsEqual == \A m, n : Tag(m) = Tag(n) => m = n
  BY DEF Tag

\* A hash is determined by its key, its data and its length.
LEMMA HashesEqual ==
  \A k1, d1, n1, k2, d2, n2 :
    Hash(k1, d1, n1) = Hash(k2, d2, n2) => k1 = k2 /\ d1 = d2 /\ n1 = n2
  BY DEF Hash

\* A text is a function on 1..Len(s).
LEMMA TextIndex ==
  ASSUME NEW s, IsText(s)
  PROVE  Len(s) \in Nat /\ DOMAIN s = 1..Len(s)
  BY DEF IsText

\* Two texts of one length with the same tokens are one text.
LEMMA TextEqual ==
  ASSUME NEW s, NEW t, IsText(s), IsText(t), Len(s) = Len(t),
         \A i \in 1..Len(s) : s[i] = t[i]
  PROVE  s = t
  BY DEF IsText

\* Whatever is a function on 1..n is a text.
LEMMA SequencesAreTexts ==
  ASSUME NEW T, NEW s \in Seq(T)
  PROVE  IsText(s)
PROOF
  <1>1. PICK n \in Nat : s \in [1..n -> T]
    BY SeqDef
  <1>2. s \in [1..n -> Range(s)]
    BY <1>1 DEF Range
  <1> QED BY <1>2, SeqDef DEF IsText

\* What \o makes of two texts.
LEMMA TextConcat ==
  ASSUME NEW s, NEW t, IsText(s), IsText(t)
  PROVE  /\ IsText(s \o t)
         /\ Len(s \o t) = Len(s) + Len(t)
         /\ \A i \in 1..Len(s) : (s \o t)[i] = s[i]
         /\ \A i \in 1..Len(t) : (s \o t)[Len(s) + i] = t[i]
PROOF
  <1> DEFINE T == Range(s) \cup Range(t)
  <1>1. s \in Seq(T) /\ t \in Seq(T)
    BY DEF IsText, Range
  <1>2. /\ s \o t \in Seq(T)
        /\ Len(s \o t) = Len(s) + Len(t)
        /\ \A i \in 1..Len(s) : (s \o t)[i] = s[i]
        /\ \A i \in 1..Len(t) : (s \o t)[Len(s) + i] = t[i]
    BY <1>1
  <1> QED BY <1>2, SequencesAreTexts

\* What SubSeq makes of a text.
LEMMA TextSub ==
  ASSUME NEW s, IsText(s), NEW i \in Nat \ {0}, NEW j \in Nat,
         j <= Len(s), i <= j + 1
  PROVE  /\ IsText(SubSeq(s, i, j))
         /\ Len(SubSeq(s, i, j)) = j - i + 1
         /\ \A k \in 1..(j - i + 1) : SubSeq(s, i, j)[k] = s[i + k - 1]
PROOF
  <1>2. /\ SubSeq(s, i, j) \in Seq(Range(s))
        /\ Len(SubSeq(s, i, j)) = j - i + 1
        /\ \A k \in 1..(j - i + 1) : SubSeq(s, i, j)[k] = s[i + k - 1]
    BY DEF IsText
  <1> QED BY <1>2, SequencesAreTexts

\* The texts of one and of two tokens.
LEMMA TextTuples ==
  /\ IsText(<<>>) /\ Len(<<>>) = 0
  /\ \A a : IsText(<<a>>) /\ Len(<<a>>) = 1 /\ <<a>>[1] = a
  /\ \A a, b : /\ IsText(<<a, b>>) /\ Len(<<a, b>>) = 2
               /\ <<a, b>>[1] = a /\ <<a, b>>[2] = b
  BY DEF IsText, Range

\* strchr() finds the first place.
LEMMA StrChrFirst ==
  ASSUME NEW s, NEW c, IsText(s), NEW i \in Nat \ {0}, NEW j \in i..Len(s),
         s[j] = c, \A k \in i..(j - 1) : s[k] # c
  PROVE  StrChr(s, i, c) = j
  BY TextIndex DEF StrChr

\* strchr() answers NULL when there is no such place.
LEMMA StrChrNone ==
  ASSUME NEW s, NEW c, IsText(s), NEW i \in Nat, \A k \in i..Len(s) : s[k] # c
  PROVE  StrChr(s, i, c) = 0
  BY TextIndex DEF StrChr
-----------------------------------------------------------------------------
(* Induction: the library's schema takes an operator, this one takes the set *)
(* of the numbers that have the property.                                    *)

\* A set of natural numbers has a least one.
LEMMA Least ==
  ASSUME NEW T, T \subseteq Nat, T # {}
  PROVE  \E x \in T : \A y \in T : x <= y
PROOF
  <1>1. PICK R : R = OpToRel(<, Nat)
    OBVIOUS
  <1>2. IsWellFoundedOn(R, Nat)
    BY <1>1, NatLessThanWellFounded
  <1>3. PICK x \in T : \A y \in T : <<y, x>> \notin R
    BY ONLY <1>2, WFMin, T \subseteq Nat, T # {}
  <1>4. ASSUME NEW y \in T PROVE x <= y
    <2>1. y \in Nat /\ x \in Nat
      OBVIOUS
    <2>2. y < x => <<y, x>> \in R
      BY <1>1, <2>1 DEF OpToRel
    <2> QED BY <1>3, <2>1, <2>2
  <1> QED BY <1>4

\* What holds of 0, and of n + 1 if of n, holds of every n.
LEMMA Induction ==
  ASSUME NEW S, 0 \in S, \A n \in Nat : n \in S => n + 1 \in S
  PROVE  \A n \in Nat : n \in S
PROOF
  <1> SUFFICES ASSUME NEW m \in Nat, m \notin S PROVE FALSE
    OBVIOUS
  <1>1. PICK T : T = Nat \ S
    OBVIOUS
  <1>2. PICK x \in T : \A y \in T : x <= y
    BY <1>1, Least
  <1>3. x \in Nat /\ x # 0 /\ x - 1 \in Nat /\ x - 1 \in S
    BY <1>1, <1>2
  <1> QED BY <1>1, <1>2, <1>3

-----------------------------------------------------------------------------
(* strlen() *)

\* Every token has a length: no hash of a length that is no number.
Measured(s) == IsText(s) /\ \A i \in 1..Len(s) : TokenLen(s[i]) \in Nat

\* What StrLen() adds up: f[i] is the length of the first i tokens.
Sums(s, f) == f = [i \in 0..Len(s) |->
                     IF i = 0 THEN 0 ELSE f[i - 1] + TokenLen(s[i])]

\* Sums() one token at a time.
Ruler(s, f) ==
    /\ f[0] = 0
    /\ \A i \in 0..Len(s) : f[i] \in Nat
    /\ \A i \in 1..Len(s) : f[i] = f[i - 1] + TokenLen(s[i])

\* Such a function exists for every text.
LEMMA SumsExist ==
  ASSUME NEW s, Measured(s)
  PROVE  \E f : Sums(s, f)
PROOF
  <1> DEFINE Step(f, i) == IF i = 0 THEN 0 ELSE f[i - 1] + TokenLen(s[i])
             Part(n, f) == f = [i \in 0..n |-> Step(f, i)]
             S == {n \in Nat : \E f : Part(n, f)}
  <1>1. 0 \in S
    <2> DEFINE f == [i \in 0..0 |-> 0]
    <2>1. f = [i \in 0..0 |-> Step(f, i)]
      OBVIOUS
    <2>2. Part(0, f)
      BY <2>1
    <2> QED BY <2>2
  <1>2. ASSUME NEW n \in Nat, n \in S PROVE n + 1 \in S
    <2>1. PICK f : Part(n, f)
      BY <1>2
    <2> DEFINE g == [i \in 0..(n + 1) |->
                       IF i = n + 1 THEN f[n] + TokenLen(s[n + 1]) ELSE f[i]]
    <2>2. \A i \in 0..n : f[i] = Step(f, i)
      BY <2>1
    <2>3. ASSUME NEW i \in 0..(n + 1) PROVE g[i] = Step(g, i)
      <3>1. CASE i = n + 1
        BY <3>1
      <3>2. CASE i # n + 1
        <4>1. i \in 0..n /\ (i # 0 => i - 1 \in 0..n /\ i - 1 # n + 1)
          BY <3>2
        <4> QED BY <2>2, <4>1, <3>2
      <3> QED BY <3>1, <3>2
    <2>4. Part(n + 1, g)
      <3> HIDE DEF Step
      <3>1. \A i \in 0..(n + 1) : g[i] = Step(g, i)
        BY <2>3
      <3>2. g = [i \in 0..(n + 1) |-> g[i]]
        OBVIOUS
      <3> HIDE DEF g
      <3>3. g = [i \in 0..(n + 1) |-> Step(g, i)]
        BY <3>1, <3>2
      <3> QED BY <3>3
    <2> HIDE DEF g, Part
    <2>5. \E x : Part(n + 1, x)
      BY <2>4
    <2> QED BY <2>5 DEF S
  <1> HIDE DEF S
  <1>3. Len(s) \in S
    BY <1>1, <1>2, Induction, TextIndex DEF Measured
  <1> QED BY <1>3 DEF S, Sums
\* A function that adds up the lengths is a ruler: it never leaves Nat.
LEMMA SumsRuler ==
  ASSUME NEW s, Measured(s), NEW f, Sums(s, f)
  PROVE  Ruler(s, f)
PROOF
  <1>1. Len(s) \in Nat /\ \A i \in 1..Len(s) : TokenLen(s[i]) \in Nat
    BY TextIndex DEF Measured
  <1>2. \A i \in 0..Len(s) :
          f[i] = IF i = 0 THEN 0 ELSE f[i - 1] + TokenLen(s[i])
    BY DEF Sums
  <1>3. f[0] = 0 /\ \A i \in 1..Len(s) : f[i] = f[i - 1] + TokenLen(s[i])
    BY <1>1, <1>2
  <1> DEFINE S == {n \in Nat : n <= Len(s) => f[n] \in Nat}
  <1>4. 0 \in S
    BY <1>3
  <1>5. ASSUME NEW n \in Nat, n \in S PROVE n + 1 \in S
    <2>1. n + 1 <= Len(s) => f[n + 1] \in Nat
      <3> SUFFICES ASSUME n + 1 <= Len(s) PROVE f[n + 1] \in Nat
        OBVIOUS
      <3>1. n + 1 \in 1..Len(s) /\ (n + 1) - 1 = n /\ n <= Len(s)
        BY <1>1
      <3>2. f[n + 1] = f[n] + TokenLen(s[n + 1])
        BY <1>3, <3>1
      <3>3. f[n] \in Nat /\ TokenLen(s[n + 1]) \in Nat
        BY <1>1, <1>5, <3>1
      <3> QED BY <3>2, <3>3
    <2> QED BY <2>1
  <1>6. \A n \in Nat : n \in S
    <2> HIDE DEF S
    <2> QED BY <1>4, <1>5, Induction
  <1>7. \A i \in 0..Len(s) : f[i] \in Nat
    BY <1>1, <1>6
  <1> QED BY <1>3, <1>7 DEF Ruler

\* StrLen() is the last mark of a ruler.
LEMMA StrLenRuler ==
  ASSUME NEW s, Measured(s)
  PROVE  \E f : Ruler(s, f) /\ StrLen(s) = f[Len(s)]
PROOF
  <1> DEFINE len == CHOOSE f : Sums(s, f)
  <1>1. Sums(s, len)
    BY SumsExist
  <1>2. StrLen(s) = len[Len(s)]
    BY DEF StrLen, Sums
  <1> HIDE DEF len
  <1>3. Ruler(s, len)
    BY <1>1, SumsRuler
  <1> QED BY <1>2, <1>3

\* The marks of two rulers lie equally far apart where the texts agree.
LEMMA RulersAgree ==
  ASSUME NEW s, NEW t, NEW f, NEW g, Measured(s), Measured(t),
         Ruler(s, f), Ruler(t, g),
         NEW p \in Nat, p + Len(t) <= Len(s),
         \A i \in 1..Len(t) : t[i] = s[p + i]
  PROVE  f[p + Len(t)] = f[p] + g[Len(t)]
PROOF
  <1>1. Len(s) \in Nat /\ Len(t) \in Nat
    BY TextIndex DEF Measured
  <1> DEFINE S == {n \in Nat : n <= Len(t) => f[p + n] = f[p] + g[n]}
  <1>2. 0 \in S
    <2>1. p \in 0..Len(s) /\ p + 0 = p
      BY <1>1
    <2>2. f[p] \in Nat /\ g[0] = 0
      BY <2>1 DEF Ruler
    <2>3. f[p + 0] = f[p] + g[0]
      BY <2>1, <2>2
    <2> QED BY <2>3
  <1>3. ASSUME NEW n \in Nat, n \in S PROVE n + 1 \in S
    <2>1. ASSUME n + 1 <= Len(t) PROVE f[p + (n + 1)] = f[p] + g[n + 1]
      <3>1. /\ n + 1 \in 1..Len(t) /\ n \in 0..Len(t) /\ n <= Len(t)
            /\ p + (n + 1) \in 1..Len(s) /\ p \in 0..Len(s) /\ p + n \in 0..Len(s)
            /\ (n + 1) - 1 = n /\ (p + (n + 1)) - 1 = p + n
        BY <1>1, <2>1
      <3>2. f[p + (n + 1)] = f[p + n] + TokenLen(s[p + (n + 1)])
        BY <3>1 DEF Ruler
      <3>3. g[n + 1] = g[n] + TokenLen(t[n + 1])
        BY <3>1 DEF Ruler
      <3>4. t[n + 1] = s[p + (n + 1)]
        BY <3>1
      <3>5. f[p + n] = f[p] + g[n]
        BY <1>3, <3>1
      <3>6. f[p] \in Nat /\ g[n] \in Nat /\ TokenLen(t[n + 1]) \in Nat
        BY <3>1 DEF Ruler, Measured
      <3> QED BY <3>2, <3>3, <3>4, <3>5, <3>6
    <2> QED BY <2>1
  <1>4. \A n \in Nat : n \in S
    <2> HIDE DEF S
    <2> QED BY <1>2, <1>3, Induction
  <1> QED BY <1>1, <1>4

\* The marks of a ruler never go down.
LEMMA RulerRises ==
  ASSUME NEW s, NEW f, Measured(s), Ruler(s, f),
         NEW i \in 0..Len(s), NEW j \in i..Len(s)
  PROVE  f[i] <= f[j]
PROOF
  <1>1. Len(s) \in Nat /\ i \in Nat /\ j \in Nat
    BY TextIndex DEF Measured
  <1> DEFINE S == {n \in Nat : i + n <= Len(s) => f[i] <= f[i + n]}
  <1>2. 0 \in S
    <2>1. f[i] \in Nat /\ i + 0 = i
      BY <1>1 DEF Ruler
    <2> QED BY <2>1
  <1>3. ASSUME NEW n \in Nat, n \in S PROVE n + 1 \in S
    <2>1. ASSUME i + (n + 1) <= Len(s) PROVE f[i] <= f[i + (n + 1)]
      <3>1. /\ i + (n + 1) \in 1..Len(s) /\ i + n \in 0..Len(s)
            /\ (i + (n + 1)) - 1 = i + n /\ i + n <= Len(s)
        BY <1>1, <2>1
      <3>2. f[i + (n + 1)] = f[i + n] + TokenLen(s[i + (n + 1)])
        BY <3>1 DEF Ruler
      <3>3. f[i] <= f[i + n]
        BY <1>3, <3>1
      <3>4. f[i] \in Nat /\ f[i + n] \in Nat /\ TokenLen(s[i + (n + 1)]) \in Nat
        BY <3>1 DEF Ruler, Measured
      <3> QED BY <3>2, <3>3, <3>4
    <2> QED BY <2>1
  <1>4. \A n \in Nat : n \in S
    <2> HIDE DEF S
    <2> QED BY <1>2, <1>3, Induction
  <1>5. j - i \in Nat /\ i + (j - i) = j /\ j <= Len(s)
    BY <1>1
  <1>6. j - i \in S
    BY <1>4, <1>5
  <1> QED BY <1>5, <1>6

\* A length is a natural number.
LEMMA StrLenType ==
  ASSUME NEW s, Measured(s)
  PROVE  StrLen(s) \in Nat
PROOF
  <1>1. PICK f : Ruler(s, f) /\ StrLen(s) = f[Len(s)]
    BY StrLenRuler
  <1> QED BY <1>1, TextIndex DEF Ruler, Measured

\* The empty string has no length.
LEMMA StrLenEmpty == Measured(<<>>) /\ StrLen(<<>>) = 0
PROOF
  <1>1. Measured(<<>>)
    BY TextTuples DEF Measured
  <1>2. PICK f : Ruler(<<>>, f) /\ StrLen(<<>>) = f[Len(<<>>)]
    BY <1>1, StrLenRuler
  <1> QED BY <1>1, <1>2 DEF Ruler

\* A string of one token has the length of the token.
LEMMA StrLenOne ==
  ASSUME NEW c, TokenLen(c) \in Nat
  PROVE  Measured(<<c>>) /\ StrLen(<<c>>) = TokenLen(c)
PROOF
  <1> DEFINE s == <<c>>
  <1>1. IsText(s) /\ Len(s) = 1 /\ s[1] = c
    BY TextTuples
  <1> HIDE DEF s
  <1>2. Measured(s)
    BY <1>1 DEF Measured
  <1>3. PICK f : Ruler(s, f) /\ StrLen(s) = f[Len(s)]
    BY <1>2, StrLenRuler
  <1>4. f[0] = 0 /\ f[1] = f[1 - 1] + TokenLen(s[1])
    BY <1>1, <1>3 DEF Ruler
  <1>5. StrLen(s) = TokenLen(c)
    BY <1>1, <1>3, <1>4
  <1> QED BY <1>2, <1>5 DEF s

\* strlen() of what two strings are printed to, one behind the other.
LEMMA StrLenConcat ==
  ASSUME NEW s, NEW t, Measured(s), Measured(t)
  PROVE  Measured(s \o t) /\ StrLen(s \o t) = StrLen(s) + StrLen(t)
PROOF
  <1>1. PICK z : z = s \o t
    OBVIOUS
  <1>2. IsText(s) /\ IsText(t) /\ Len(s) \in Nat /\ Len(t) \in Nat
    BY TextIndex DEF Measured
  <1>3. /\ IsText(z) /\ Len(z) = Len(s) + Len(t)
        /\ \A i \in 1..Len(s) : z[i] = s[i]
        /\ \A i \in 1..Len(t) : z[Len(s) + i] = t[i]
    BY <1>1, <1>2, TextConcat
  <1>4. Measured(z)
    <2> SUFFICES ASSUME NEW i \in 1..Len(z) PROVE TokenLen(z[i]) \in Nat
      BY <1>3 DEF Measured
    <2>1. CASE i <= Len(s)
      BY <1>2, <1>3, <2>1 DEF Measured
    <2>2. CASE i > Len(s)
      <3>1. i - Len(s) \in 1..Len(t) /\ Len(s) + (i - Len(s)) = i
        BY <1>2, <1>3, <2>2
      <3>2. z[Len(s) + (i - Len(s))] = t[i - Len(s)]
        BY <1>3, <3>1
      <3> QED BY <3>1, <3>2 DEF Measured
    <2> QED BY <1>2, <1>3, <2>1, <2>2
  <1>5. PICK f : Ruler(z, f) /\ StrLen(z) = f[Len(z)]
    BY <1>4, StrLenRuler
  <1>6. PICK g : Ruler(s, g) /\ StrLen(s) = g[Len(s)]
    BY StrLenRuler
  <1>7. PICK k : Ruler(t, k) /\ StrLen(t) = k[Len(t)]
    BY StrLenRuler
  <1>8. f[0 + Len(s)] = f[0] + g[Len(s)]
    <2>1. 0 \in Nat /\ 0 + Len(s) <= Len(z) /\ \A i \in 1..Len(s) : s[i] = z[0 + i]
      BY <1>2, <1>3
    <2> QED BY <1>4, <1>5, <1>6, <2>1, RulersAgree
  <1>9. f[Len(s) + Len(t)] = f[Len(s)] + k[Len(t)]
    BY <1>2, <1>3, <1>4, <1>5, <1>7, RulersAgree
  <1>10. f[0] = 0 /\ g[Len(s)] \in Nat /\ k[Len(t)] \in Nat /\ 0 + Len(s) = Len(s)
    BY <1>2, <1>5, <1>6, <1>7 DEF Ruler
  <1>11. StrLen(z) = StrLen(s) + StrLen(t)
    BY <1>3, <1>5, <1>6, <1>7, <1>8, <1>9, <1>10
  <1> QED BY <1>1, <1>4, <1>11
\* A part of a string is as long as its ends are apart on the ruler.
LEMMA StrLenSub ==
  ASSUME NEW s, Measured(s), NEW f, Ruler(s, f),
         NEW a \in Nat, NEW b \in Nat, a <= b, b <= Len(s)
  PROVE  /\ Measured(SubSeq(s, a + 1, b))
         /\ StrLen(SubSeq(s, a + 1, b)) = f[b] - f[a]
PROOF
  <1>1. PICK t : t = SubSeq(s, a + 1, b)
    OBVIOUS
  <1>2. IsText(s) /\ Len(s) \in Nat
    BY TextIndex DEF Measured
  <1>3. /\ IsText(t) /\ Len(t) = b - a
        /\ \A k \in 1..(b - a) : t[k] = s[a + k]
    <2>1. a + 1 \in Nat \ {0} /\ a + 1 <= b + 1 /\ b - (a + 1) + 1 = b - a
      OBVIOUS
    <2>2. /\ IsText(t) /\ Len(t) = b - (a + 1) + 1
          /\ \A k \in 1..(b - (a + 1) + 1) : t[k] = s[a + 1 + k - 1]
      BY <1>1, <1>2, <2>1, TextSub
    <2>3. \A k \in 1..(b - a) : a + 1 + k - 1 = a + k
      OBVIOUS
    <2> QED BY <2>1, <2>2, <2>3
  <1>4. Measured(t)
    BY <1>2, <1>3 DEF Measured
  <1>5. PICK g : Ruler(t, g) /\ StrLen(t) = g[Len(t)]
    BY <1>4, StrLenRuler
  <1>6. a + Len(t) = b /\ a \in 0..Len(s) /\ b \in 0..Len(s)
    BY <1>2, <1>3
  <1>7. f[a + Len(t)] = f[a] + g[Len(t)]
    BY <1>3, <1>4, <1>5, <1>6, RulersAgree
  <1>8. f[a] \in Nat /\ f[b] \in Nat /\ g[Len(t)] \in Nat
    BY <1>3, <1>5, <1>6 DEF Ruler
  <1>9. StrLen(t) = f[b] - f[a]
    BY <1>5, <1>6, <1>7, <1>8
  <1> QED BY <1>1, <1>4, <1>9

\* Any part of a string is measured and no longer than the string.
LEMMA StrLenPart ==
  ASSUME NEW s, Measured(s), NEW a \in Nat \ {0}, NEW b \in Nat, b <= Len(s)
  PROVE  Measured(SubSeq(s, a, b)) /\ StrLen(SubSeq(s, a, b)) <= StrLen(s)
PROOF
  <1>1. Len(s) \in Nat /\ StrLen(s) \in Nat
    BY TextIndex, StrLenType DEF Measured
  <1>2. CASE a > b
    <2>1. SubSeq(s, a, b) = <<>>
      BY <1>1, <1>2
    <2> QED BY <1>1, <2>1, StrLenEmpty
  <1>3. CASE a <= b
    <2>1. PICK f : Ruler(s, f) /\ StrLen(s) = f[Len(s)]
      BY StrLenRuler
    <2>2. PICK c \in Nat : c = a - 1
      OBVIOUS
    <2>3. /\ Measured(SubSeq(s, c + 1, b))
          /\ StrLen(SubSeq(s, c + 1, b)) = f[b] - f[c]
      BY <1>1, <1>3, <2>1, <2>2, StrLenSub
    <2>4. f[b] <= f[Len(s)] /\ f[c] \in Nat /\ f[b] \in Nat /\ f[Len(s)] \in Nat
      <3>1. b \in 0..Len(s) /\ c \in 0..Len(s) /\ Len(s) \in b..Len(s)
        BY <1>1, <1>3, <2>2
      <3> QED BY <2>1, <3>1, RulerRises DEF Ruler
    <2>5. c + 1 = a
      BY <2>2
    <2> QED BY <2>1, <2>3, <2>4, <2>5
  <1> QED BY <1>1, <1>2, <1>3

\* A string is what stands before a token, the token, and what stands behind.
LEMMA StrLenSplit ==
  ASSUME NEW s, Measured(s), NEW i \in 1..Len(s)
  PROVE  /\ Measured(Before(s, i)) /\ Measured(From(s, i + 1))
         /\ StrLen(s) = StrLen(Before(s, i)) + TokenLen(s[i])
                          + StrLen(From(s, i + 1))
PROOF
  <1>1. PICK f : Ruler(s, f) /\ StrLen(s) = f[Len(s)]
    BY StrLenRuler
  <1>2. Len(s) \in Nat /\ i \in Nat
    BY TextIndex DEF Measured
  <1>3. PICK c \in Nat : c = i - 1
    BY <1>2
  <1>4. 0 \in Nat /\ 0 <= c /\ c <= Len(s) /\ i <= Len(s)
    BY <1>2, <1>3
  <1>5. /\ Measured(SubSeq(s, 0 + 1, c))
        /\ StrLen(SubSeq(s, 0 + 1, c)) = f[c] - f[0]
    BY <1>1, <1>4, StrLenSub
  <1>6. /\ Measured(SubSeq(s, i + 1, Len(s)))
        /\ StrLen(SubSeq(s, i + 1, Len(s))) = f[Len(s)] - f[i]
    BY <1>1, <1>2, <1>4, StrLenSub
  <1>7. /\ f[0] = 0 /\ f[c] \in Nat /\ f[i] \in Nat /\ f[Len(s)] \in Nat
        /\ f[i] = f[c] + TokenLen(s[i])
    BY <1>1, <1>2, <1>3 DEF Ruler
  <1>8. Before(s, i) = SubSeq(s, 0 + 1, c) /\ From(s, i + 1) = SubSeq(s, i + 1, Len(s))
    BY <1>3 DEF Before, From
  <1>9. TokenLen(s[i]) \in Nat
    BY DEF Measured
  <1>10. Measured(Before(s, i)) /\ StrLen(Before(s, i)) = f[c] - f[0]
    BY ONLY <1>5, <1>8
  <1>11. /\ Measured(From(s, i + 1))
         /\ StrLen(From(s, i + 1)) = f[Len(s)] - f[i]
    BY ONLY <1>6, <1>8
  <1>12. StrLen(s) = StrLen(Before(s, i)) + TokenLen(s[i])
                       + StrLen(From(s, i + 1))
    BY ONLY <1>1, <1>7, <1>9, <1>10, <1>11
  <1> QED BY <1>10, <1>11, <1>12

\* What a buffer reads as is no longer than what was printed into it.
LEMMA StrLenCString ==
  ASSUME NEW s, Measured(s)
  PROVE  Measured(CString(s)) /\ StrLen(CString(s)) <= StrLen(s)
PROOF
  <1>1. Len(s) \in Nat /\ StrLen(s) \in Nat
    BY TextIndex, StrLenType DEF Measured
  <1>2. PICK n : n = StrChr(s, 1, Nul)
    OBVIOUS
  <1>3. CASE n = 0
    BY <1>1, <1>2, <1>3 DEF CString
  <1>4. CASE n # 0
    <2>1. n \in 1..Len(s)
      BY <1>2, <1>4 DEF StrChr
    <2>2. n - 1 \in Nat /\ n - 1 <= Len(s) /\ 1 \in Nat \ {0}
      BY <1>1, <2>1
    <2>3. Measured(SubSeq(s, 1, n - 1)) /\ StrLen(SubSeq(s, 1, n - 1)) <= StrLen(s)
      BY <2>2, StrLenPart
    <2>4. CString(s) = SubSeq(s, 1, n - 1)
      BY <1>2, <1>4 DEF CString, Before
    <2> QED BY <2>3, <2>4
  <1> QED BY <1>3, <1>4

\* The tokens that libsrs2 writes itself.
LEMMA TokenLens ==
  /\ \A c \in srs_separators \cup {Nul} : TokenLen(c) = 1
  /\ TokenLen(Eq) = 1 /\ TokenLen(At) = 1
  /\ \A t : TokenLen(Tag(t)) = 4
  /\ \A n : TokenLen(Name(n)) = NameLen
  /\ \A d : TokenLen(Base32(d)) = 1
  /\ \A k, d, n : TokenLen(Hash(k, d, n)) = n
  BY DEF TokenLen, srs_separators, Eq, Minus, Plus, At, Nul, Tag, Name, Base32, Hash

\* Only a hash has a length of its own.
LEMMA OthersMeasured ==
  \A c : c.kind # "hash" => TokenLen(c) \in Nat
  BY NameLenAssumption DEF TokenLen
\* A string with one more token.
LEMMA StrLenPush ==
  ASSUME NEW s, Measured(s), NEW c, TokenLen(c) \in Nat
  PROVE  Measured(s \o <<c>>) /\ StrLen(s \o <<c>>) = StrLen(s) + TokenLen(c)
  BY StrLenOne, StrLenConcat

\* A string of two tokens.
LEMMA StrLenTwo ==
  ASSUME NEW c, NEW d, TokenLen(c) \in Nat, TokenLen(d) \in Nat
  PROVE  /\ Measured(<<c, d>>)
         /\ StrLen(<<c, d>>) = TokenLen(c) + TokenLen(d)
PROOF
  <1>1. <<c>> \o <<d>> = <<c, d>>
    <2>1. PICK s, t, z : s = <<c>> /\ t = <<d>> /\ z = <<c, d>>
      OBVIOUS
    <2>2. /\ IsText(s) /\ Len(s) = 1 /\ s[1] = c
          /\ IsText(t) /\ Len(t) = 1 /\ t[1] = d
          /\ IsText(z) /\ Len(z) = 2 /\ z[1] = c /\ z[2] = d
      BY <2>1, TextTuples
    <2>3. /\ IsText(s \o t) /\ Len(s \o t) = Len(s) + Len(t)
          /\ \A i \in 1..Len(s) : (s \o t)[i] = s[i]
          /\ \A i \in 1..Len(t) : (s \o t)[Len(s) + i] = t[i]
      BY ONLY <2>2, TextConcat
    <2>4. \A i \in 1..2 : (s \o t)[i] = z[i]
      BY <2>2, <2>3
    <2>5. PICK y : y = s \o t
      OBVIOUS
    <2>6. IsText(y) /\ Len(y) = 2 /\ \A i \in 1..2 : y[i] = z[i]
      BY <2>2, <2>3, <2>4, <2>5
    <2>7. y = z
      BY ONLY <2>2, <2>6, TextEqual
    <2> QED BY <2>1, <2>5, <2>7
  <1>2. Measured(<<c>>) /\ StrLen(<<c>>) = TokenLen(c)
    BY StrLenOne
  <1>3. /\ Measured(<<c>> \o <<d>>)
        /\ StrLen(<<c>> \o <<d>>) = StrLen(<<c>>) + TokenLen(d)
    BY <1>2, StrLenPush
  <1> QED BY ONLY <1>1, <1>2, <1>3
=============================================================================
