---------------------------- MODULE SrsTool_proofs ----------------------------
(***************************************************************************)
(* What the command makes of a call, for any options, operands and files.  *)
(* The invariant IInv says that handle and flags are those that the        *)
(* options read so far describe (Handled), by the definitions              *)
(* HandleAsGiven has for all of them, and that what is printed are the     *)
(* answers so far (Printed). One option more changes both sides alike,     *)
(* since FlattenSeq() puts one part more to the end (FlattenMore).         *)
(***************************************************************************)
EXTENDS SrsTool, SrsString_proofs

-----------------------------------------------------------------------------
(* Joining the parts of a sequence, one part at a time *)

\* What FlattenSeq() joins: f[i] is the first i parts of s.
Joins(s, n, f) == f = [i \in 1..n |-> IF i = 1 THEN s[i] ELSE f[i - 1] \o s[i]]

\* Such a function exists.
LEMMA JoinsExist ==
  ASSUME NEW s, NEW m \in Nat
  PROVE  \E f : Joins(s, m, f)
PROOF
  <1> DEFINE Step(f, i) == IF i = 1 THEN s[i] ELSE f[i - 1] \o s[i]
             S == {n \in Nat : \E f : Joins(s, n, f)}
  <1>1. 0 \in S
    <2> DEFINE f == [i \in 1..0 |-> 0]
    <2>1. f = [i \in 1..0 |-> Step(f, i)]
      OBVIOUS
    <2>2. Joins(s, 0, f)
      BY <2>1 DEF Joins
    <2> QED BY <2>2
  <1>2. ASSUME NEW n \in Nat, n \in S PROVE n + 1 \in S
    <2>1. PICK f : Joins(s, n, f)
      BY <1>2
    <2> DEFINE g == [i \in 1..(n + 1) |->
                       IF i = n + 1 THEN Step(f, i) ELSE f[i]]
    <2>2. \A i \in 1..n : f[i] = Step(f, i)
      BY <2>1 DEF Joins
    <2>3. ASSUME NEW i \in 1..(n + 1) PROVE g[i] = Step(g, i)
      <3>1. i # 1 => i - 1 \in 1..n /\ i - 1 # n + 1 /\ i - 1 \in 1..(n + 1)
        OBVIOUS
      <3>2. i # 1 => g[i - 1] = f[i - 1]
        BY <3>1
      <3>3. Step(g, i) = Step(f, i)
        BY <3>2
      <3>4. CASE i = n + 1
        BY <3>3, <3>4
      <3>5. CASE i # n + 1
        <4>1. i \in 1..n
          BY <3>5
        <4> QED BY <2>2, <3>3, <3>5, <4>1
      <3> QED BY <3>4, <3>5
    <2>4. Joins(s, n + 1, g)
      <3>1. g = [i \in 1..(n + 1) |-> g[i]]
        OBVIOUS
      <3> HIDE DEF g
      <3>2. g = [i \in 1..(n + 1) |-> Step(g, i)]
        <4> HIDE DEF Step
        <4> QED BY <2>3, <3>1
      <3> QED BY <3>2 DEF Joins
    <2> HIDE DEF g
    <2> QED BY <2>4
  <1> HIDE DEF S
  <1>3. m \in S
    BY <1>1, <1>2, Induction
  <1> QED BY <1>3 DEF S

\* Two of them agree as far as the parts do.
LEMMA JoinsAgree ==
  ASSUME NEW s, NEW t, NEW m \in Nat, NEW n \in Nat, m <= n,
         NEW f, Joins(s, m, f), NEW g, Joins(t, n, g),
         \A i \in 1..m : s[i] = t[i]
  PROVE  \A i \in 1..m : f[i] = g[i]
PROOF
  <1>1. \A i \in 1..m : f[i] = IF i = 1 THEN s[i] ELSE f[i - 1] \o s[i]
    BY DEF Joins
  <1>2. \A i \in 1..n : g[i] = IF i = 1 THEN t[i] ELSE g[i - 1] \o t[i]
    BY DEF Joins
  <1> DEFINE S == {i \in Nat : i \in 1..m => f[i] = g[i]}
  <1>3. 0 \in S
    OBVIOUS
  <1>4. ASSUME NEW i \in Nat, i \in S PROVE i + 1 \in S
    <2>1. SUFFICES ASSUME i + 1 \in 1..m PROVE f[i + 1] = g[i + 1]
      OBVIOUS
    <2>2. i + 1 \in 1..n /\ (i + 1) - 1 = i /\ (i + 1 # 1 => i \in 1..m)
      BY <2>1
    <2>3. i + 1 # 1 => f[i] = g[i]
      BY <1>4, <2>2
    <2> QED BY <1>1, <1>2, <2>1, <2>2, <2>3
  <1> HIDE DEF S
  <1>5. \A i \in Nat : i \in S
    BY <1>3, <1>4, Induction
  <1> QED BY <1>5 DEF S

\* FlattenSeq() is the last value of such a function.
LEMMA FlattenJoins ==
  ASSUME NEW n \in Nat \ {0}, NEW s, Len(s) = n
  PROVE  \E f : Joins(s, n, f) /\ FlattenSeq(s) = f[n]
PROOF
  <1> DEFINE flatten == CHOOSE f : Joins(s, n, f)
  <1>1. Joins(s, n, flatten)
    BY JoinsExist
  <1>2. FlattenSeq(s) = flatten[n]
    BY DEF FlattenSeq, Joins
  <1> HIDE DEF flatten
  <1> QED BY <1>1, <1>2

\* No parts make nothing.
LEMMA FlattenNone == \A e : FlattenSeq([i \in 1..0 |-> e[i]]) = <<>>
  BY DEF FlattenSeq

\* One part more goes to the end.
LEMMA FlattenMore ==
  ASSUME NEW n \in Nat, NEW e, IsText(e[n + 1])
  PROVE  FlattenSeq([i \in 1..(n + 1) |-> e[i]])
           = FlattenSeq([i \in 1..n |-> e[i]]) \o e[n + 1]
PROOF
  <1>1. PICK s : s = [i \in 1..n |-> e[i]]
    OBVIOUS
  <1>2. PICK t : t = [i \in 1..(n + 1) |-> e[i]]
    OBVIOUS
  <1>3. /\ Len(s) = n /\ Len(t) = n + 1 /\ n + 1 \in Nat \ {0}
        /\ \A i \in 1..n : s[i] = t[i]
        /\ t[n + 1] = e[n + 1]
    BY <1>1, <1>2
  <1>4. PICK g : Joins(t, n + 1, g) /\ FlattenSeq(t) = g[n + 1]
    BY <1>3, FlattenJoins
  <1>5. n + 1 \in 1..(n + 1)
    OBVIOUS
  <1>6. g[n + 1] = IF n + 1 = 1 THEN t[n + 1] ELSE g[(n + 1) - 1] \o t[n + 1]
    BY <1>4, <1>5 DEF Joins
  <1>7. FlattenSeq(t) = FlattenSeq(s) \o e[n + 1]
    <2>1. CASE n = 0
      <3>1. FlattenSeq(s) = <<>>
        BY <1>1, <2>1, FlattenNone
      <3>2. <<>> \o e[n + 1] = e[n + 1]
        BY DEF IsText
      <3> QED BY <1>3, <1>4, <1>6, <2>1, <3>1, <3>2
    <2>2. CASE n # 0
      <3>1. n \in Nat \ {0} /\ n \in 1..n /\ (n + 1) - 1 = n /\ n <= n + 1
        BY <2>2
      <3>2. PICK f : Joins(s, n, f) /\ FlattenSeq(s) = f[n]
        BY <1>3, <3>1, FlattenJoins
      <3>3. n + 1 \in Nat /\ \A i \in 1..n : f[i] = g[i]
        <4>1. /\ n \in Nat /\ n + 1 \in Nat /\ n <= n + 1
              /\ Joins(s, n, f) /\ Joins(t, n + 1, g)
              /\ \A i \in 1..n : s[i] = t[i]
          BY <1>3, <1>4, <3>1, <3>2
        <4> QED BY ONLY <4>1, JoinsAgree
      <3>4. n + 1 # 1
        BY <3>1
      <3>5. g[n + 1] = g[n] \o t[n + 1]
        BY <1>6, <3>1, <3>4, Zenon
      <3>6. f[n] = g[n]
        BY <3>1, <3>3
      <3> QED BY <1>3, <1>4, <3>2, <3>5, <3>6
    <2> QED BY <2>1, <2>2
  <1> QED BY <1>1, <1>2, <1>7

\* What parts that are texts make is a text.
LEMMA FlattenText ==
  ASSUME NEW m \in Nat, NEW e, \A i \in 1..m : IsText(e[i])
  PROVE  IsText(FlattenSeq([i \in 1..m |-> e[i]]))
PROOF
  <1> DEFINE F(n) == FlattenSeq([i \in 1..n |-> e[i]])
             S == {n \in Nat : n <= m => IsText(F(n))}
  <1>1. 0 \in S
    <2>1. F(0) = <<>>
      BY FlattenNone
    <2> QED BY <2>1, TextTuples
  <1>2. ASSUME NEW n \in Nat, n \in S PROVE n + 1 \in S
    <2>1. SUFFICES ASSUME n + 1 <= m PROVE IsText(F(n + 1))
      OBVIOUS
    <2>2. n + 1 \in 1..m /\ n <= m
      BY <2>1
    <2>3. IsText(e[n + 1]) /\ IsText(F(n))
      BY <1>2, <2>2
    <2>4. F(n + 1) = F(n) \o e[n + 1]
      BY <2>3, FlattenMore
    <2>5. PICK a : a = F(n)
      OBVIOUS
    <2>6. PICK b : b = F(n + 1)
      OBVIOUS
    <2> HIDE DEF F
    <2>7. IsText(a \o e[n + 1])
      BY ONLY <2>3, <2>5, TextConcat
    <2> QED BY <2>4, <2>5, <2>6, <2>7
  <1> HIDE DEF S
  <1>3. m \in S
    BY <1>1, <1>2, Induction
  <1> QED BY <1>3 DEF S

-----------------------------------------------------------------------------
(* The options *)

\* No comment is longer than the buffer that fgets() fills: the rest of one
\* that is becomes a secret.
ShortComments ==
    \A o \in Options : o.opt = "f" =>
      \A line \in ToSet(o.arg.lines) : line.comment => Len(line.pieces) = 1

\* The pieces that are added are then those that Keys has.
LEMMA PiecesAreKeys ==
  ASSUME NEW o \in Options, o.opt = "f"
  PROVE  /\ IsText(SecretPieces(o.arg))
         /\ ShortComments => SecretPieces(o.arg) = KeysOf(o)
PROOF
  <1>1. PICK L : L = o.arg.lines
    OBVIOUS
  <1>2. L \in Seq(ToSet(L)) /\ Len(L) \in Nat /\ DOMAIN L = 1..Len(L)
    BY <1>1, OptionsAssumption DEF OptionOK
  <1>3. ASSUME NEW n \in 1..Len(L)
        PROVE  /\ L[n].pieces \in Seq(ToSet(L[n].pieces))
               /\ L[n].comment => Len(L[n].pieces) >= 1
               /\ ShortComments /\ L[n].comment => Len(L[n].pieces) = 1
    <2>1. L[n] \in ToSet(L)
      BY <1>2 DEF ToSet
    <2> QED BY <1>1, <2>1, OptionsAssumption DEF OptionOK, ShortComments
  <1>4. PICK e : e = [n \in 1..Len(L) |-> IF L[n].comment THEN <<>> ELSE L[n].pieces]
    OBVIOUS
  <1>5. PICK f : f = [n \in 1..Len(L) |-> IF L[n].comment THEN Tail(L[n].pieces)
                                          ELSE L[n].pieces]
    OBVIOUS
  <1>6. ASSUME NEW n \in 1..Len(L)
        PROVE  IsText(f[n]) /\ (ShortComments => e[n] = f[n])
    <2>1. PICK p : p = L[n].pieces
      OBVIOUS
    <2>2. p \in Seq(ToSet(p)) /\ (L[n].comment => Len(p) >= 1)
      BY <1>3, <2>1
    <2>3. IsText(p)
      BY <2>2, SequencesAreTexts
    <2>4. CASE ~L[n].comment
      BY <1>4, <1>5, <2>1, <2>3, <2>4
    <2>5. CASE L[n].comment
      <3>1. PICK q : q = Tail(p)
        OBVIOUS
      <3>2. q \in Seq(ToSet(p)) /\ Len(q) = Len(p) - 1
        BY <2>2, <2>5, <3>1
      <3>3. IsText(q)
        BY <3>2, SequencesAreTexts
      <3>4. Len(p) = 1 => q = <<>>
        <4>1. Len(p) = 1 => Len(q) = 0
          BY <3>2
        <4> QED BY ONLY <3>3, <4>1, TextTuples, TextEqual
      <3>5. e[n] = <<>> /\ f[n] = q
        BY <1>4, <1>5, <2>1, <2>5, <3>1
      <3> QED BY <1>3, <2>1, <2>5, <3>3, <3>4, <3>5
    <2> QED BY <2>4, <2>5
  <1>7. ShortComments => e = f
    BY <1>4, <1>5, <1>6
  <1>8. SecretPieces(o.arg) = FlattenSeq(f)
    BY <1>1, <1>5 DEF SecretPieces
  <1>9. KeysOf(o) = FlattenSeq(e)
    BY <1>1, <1>4 DEF KeysOf
  <1>10. f = [n \in 1..Len(L) |-> f[n]]
    BY <1>5
  <1>11. IsText(FlattenSeq([n \in 1..Len(L) |-> f[n]]))
    BY <1>2, <1>6, FlattenText
  <1> QED BY <1>7, <1>8, <1>9, <1>10, <1>11

\* A handle like h with the secrets s.
Loaded(h, s) ==
    [secrets |-> s, separator |-> h.separator, maxage |-> h.maxage,
     hashlength |-> h.hashlength, hashmin |-> h.hashmin,
     alwaysrewrite |-> h.alwaysrewrite]

IsHandle(h) == h = Loaded(h, h.secrets) /\ IsText(h.secrets)

\* srs_add_secret() changes the secrets only.
LEMMA LoadedMore ==
  \A h, s, x : srs_add_secret(Loaded(h, s), x) = Loaded(h, Append(s, x))
PROOF
  <1> TAKE h, s, x
  <1>1. PICK r : r = Loaded(h, s)
    OBVIOUS
  <1>2. PICK q : q = [r EXCEPT !.secrets = Append(@, x)]
    OBVIOUS
  <1>3. /\ r.secrets = s /\ r.separator = h.separator /\ r.maxage = h.maxage
        /\ r.hashlength = h.hashlength /\ r.hashmin = h.hashmin
        /\ r.alwaysrewrite = h.alwaysrewrite
        /\ DOMAIN r = {"secrets", "separator", "maxage", "hashlength", "hashmin",
                       "alwaysrewrite"}
    BY <1>1 DEF Loaded
  <1>4. q = [x_ \in DOMAIN r |-> IF x_ = "secrets" THEN Append(s, x) ELSE r[x_]]
    BY <1>2, <1>3
  <1>5. q = Loaded(h, Append(s, x))
    BY <1>3, <1>4 DEF Loaded
  <1> QED BY <1>1, <1>2, <1>5 DEF srs_add_secret

\* One token more.
LEMMA AppendPart ==
  ASSUME NEW a, IsText(a), NEW t, IsText(t), NEW n \in 1..Len(t)
  PROVE  Append(a \o SubSeq(t, 1, n - 1), t[n]) = a \o SubSeq(t, 1, n)
PROOF
  <1> DEFINE b == SubSeq(t, 1, n - 1)
             c == SubSeq(t, 1, n)
             T == Range(a) \cup Range(t)
  <1>1. n \in Nat /\ Len(t) \in Nat /\ t[n] \in T
    BY TextIndex DEF Range
  <1>2. a \in Seq(T) /\ t \in Seq(T)
    BY DEF IsText, Range
  <1>3. /\ b \in Seq(T) /\ Len(b) = n - 1 /\ \A i \in 1..(n - 1) : b[i] = t[i]
        /\ c \in Seq(T) /\ Len(c) = n /\ \A i \in 1..n : c[i] = t[i]
    BY <1>1, <1>2
  <1> HIDE DEF b, c, T
  <1>4. /\ a \o b \in Seq(T) /\ Len(a \o b) = Len(a) + (n - 1)
        /\ \A i \in 1..Len(a) : (a \o b)[i] = a[i]
        /\ \A i \in 1..(n - 1) : (a \o b)[Len(a) + i] = t[i]
    <2>1. /\ a \o b \in Seq(T) /\ Len(a \o b) = Len(a) + Len(b)
          /\ \A i \in 1..Len(a) : (a \o b)[i] = a[i]
          /\ \A i \in 1..Len(b) : (a \o b)[Len(a) + i] = b[i]
      <3>1. a \in Seq(T) /\ b \in Seq(T)
        BY <1>2, <1>3
      <3> QED BY ONLY <3>1
    <2> QED BY <1>3, <2>1
  <1>5. /\ a \o c \in Seq(T) /\ Len(a \o c) = Len(a) + n
        /\ \A i \in 1..Len(a) : (a \o c)[i] = a[i]
        /\ \A i \in 1..n : (a \o c)[Len(a) + i] = t[i]
    <2>1. /\ a \o c \in Seq(T) /\ Len(a \o c) = Len(a) + Len(c)
          /\ \A i \in 1..Len(a) : (a \o c)[i] = a[i]
          /\ \A i \in 1..Len(c) : (a \o c)[Len(a) + i] = c[i]
      <3>1. a \in Seq(T) /\ c \in Seq(T)
        BY <1>2, <1>3
      <3> QED BY ONLY <3>1
    <2> QED BY <1>3, <2>1
  <1>6. PICK x : x = a \o b
    OBVIOUS
  <1>7. PICK y : y = a \o c
    OBVIOUS
  <1>8. PICK z : z = Append(x, t[n])
    OBVIOUS
  <1>9. Len(a) \in Nat
    BY <1>2
  <1>10. /\ z \in Seq(T) /\ Len(z) = Len(a) + n
         /\ \A i \in 1..(Len(a) + (n - 1)) : z[i] = x[i]
         /\ z[Len(a) + n] = t[n]
    BY <1>1, <1>4, <1>6, <1>8, <1>9
  <1>11. ASSUME NEW i \in 1..(Len(a) + n) PROVE z[i] = y[i]
    <2>1. CASE i \in 1..Len(a)
      <3>1. i \in 1..(Len(a) + (n - 1))
        BY ONLY <1>1, <1>9, <2>1, n \in 1..Len(t)
      <3>2. z[i] = x[i] /\ x[i] = a[i]
        BY <1>4, <1>6, <1>10, <2>1, <3>1
      <3> QED BY <1>5, <1>7, <2>1, <3>2
    <2>2. CASE i = Len(a) + n
      <3>1. n \in 1..n
        BY <1>1
      <3> QED BY <1>5, <1>7, <1>10, <2>2, <3>1
    <2>3. CASE i \notin 1..Len(a) /\ i # Len(a) + n
      <3>1. PICK k : k = i - Len(a)
        OBVIOUS
      <3>2. k \in 1..(n - 1) /\ k \in 1..n /\ i = Len(a) + k
            /\ i \in 1..(Len(a) + (n - 1))
        BY ONLY <1>1, <1>9, <2>3, <3>1, i \in 1..(Len(a) + n)
      <3> QED BY <1>4, <1>5, <1>6, <1>7, <1>10, <3>2
    <2> QED BY <2>1, <2>2, <2>3
  <1>12. z = y
    <2>1. IsText(z) /\ IsText(y) /\ Len(z) = Len(y)
      BY <1>5, <1>7, <1>10, SequencesAreTexts
    <2>2. \A i \in 1..Len(z) : z[i] = y[i]
      BY <1>10, <1>11
    <2> QED BY ONLY <2>1, <2>2, TextEqual
  <1> QED BY <1>6, <1>7, <1>8, <1>12 DEF b, c

\* srs_add_secret() in a loop: the secrets go behind the others.
LEMMA SecretsAdded ==
  ASSUME NEW m, IsHandle(m.srs), NEW t, IsText(t)
  PROVE  AddSecrets(m, t)
           = [m EXCEPT !.srs = Loaded(m.srs, m.srs.secrets \o t),
                       !.secrets = @ + Len(t)]
PROOF
  <1> DEFINE h == m.srs
             a == h.secrets
             W(n) == Loaded(h, a \o SubSeq(t, 1, n))
             Runs(f) == f = [n \in 0..Len(t) |->
                               IF n = 0 THEN h ELSE srs_add_secret(f[n - 1], t[n])]
  <1>1. IsText(a) /\ h = Loaded(h, a) /\ Len(t) \in Nat
    BY TextIndex DEF IsHandle
  <1>2. W(0) = h
    <2>1. SubSeq(t, 1, 0) = <<>>
      BY DEF IsText
    <2>2. a \o <<>> = a
      BY <1>1 DEF IsText
    <2> QED BY <1>1, <2>1, <2>2
  <1>3. ASSUME NEW n \in 1..Len(t) PROVE W(n) = srs_add_secret(W(n - 1), t[n])
    <2>1. PICK b : b = a \o SubSeq(t, 1, n - 1)
      OBVIOUS
    <2>2. PICK c : c = a \o SubSeq(t, 1, n)
      OBVIOUS
    <2>3. Append(b, t[n]) = c
      BY <1>1, <2>1, <2>2, AppendPart
    <2>4. srs_add_secret(Loaded(h, b), t[n]) = Loaded(h, Append(b, t[n]))
      BY LoadedMore
    <2> QED BY <2>1, <2>2, <2>3, <2>4
  <1>4. W(Len(t)) = Loaded(h, a \o t)
    <2>1. SubSeq(t, 1, Len(t)) = t
      BY DEF IsText
    <2> QED BY <2>1
  <1> HIDE DEF W
  <1>5. \E f : Runs(f)
    <2> DEFINE f == [n \in 0..Len(t) |-> W(n)]
    <2>1. ASSUME NEW n \in 0..Len(t)
          PROVE  f[n] = IF n = 0 THEN h ELSE srs_add_secret(f[n - 1], t[n])
      <3>1. n # 0 => n \in 1..Len(t) /\ n - 1 \in 0..Len(t)
        BY <1>1
      <3> QED BY <1>2, <1>3, <3>1
    <2>2. f = [n \in 0..Len(t) |-> f[n]]
      OBVIOUS
    <2> HIDE DEF f, h
    <2>3. Runs(f)
      BY <2>1, <2>2
    <2> HIDE DEF Runs
    <2> QED BY <2>3
  <1> DEFINE srs == CHOOSE f : Runs(f)
  <1>6. Runs(srs)
    BY <1>5
  <1>7. AddSecrets(m, t) = [m EXCEPT !.srs = srs[Len(t)], !.secrets = @ + Len(t)]
    BY DEF AddSecrets
  <1> HIDE DEF srs
  <1>8. \A n \in 0..Len(t) :
          srs[n] = IF n = 0 THEN h ELSE srs_add_secret(srs[n - 1], t[n])
    BY <1>6
  <1> DEFINE S == {n \in Nat : n <= Len(t) => srs[n] = W(n)}
  <1>9. 0 \in S
    BY <1>1, <1>2, <1>8
  <1>10. ASSUME NEW n \in Nat, n \in S PROVE n + 1 \in S
    <2>1. SUFFICES ASSUME n + 1 <= Len(t) PROVE srs[n + 1] = W(n + 1)
      OBVIOUS
    <2>2. /\ n + 1 \in 0..Len(t) /\ n + 1 \in 1..Len(t) /\ n + 1 # 0
          /\ (n + 1) - 1 = n /\ n <= Len(t)
      BY <1>1, <2>1
    <2>3. srs[n + 1] = srs_add_secret(srs[n], t[n + 1])
      BY <1>8, <2>2
    <2>4. W(n + 1) = srs_add_secret(W(n), t[n + 1])
      BY <1>3, <2>2
    <2> QED BY <1>10, <2>2, <2>3, <2>4
  <1>11. Len(t) \in S
    <2> HIDE DEF S
    <2> QED BY <1>1, <1>9, <1>10, Induction
  <1>12. srs[Len(t)] = Loaded(h, a \o t)
    BY <1>1, <1>4, <1>11
  <1> QED BY <1>7, <1>12

\* What is set for the first k of the options o.
KeysOfFirst(o, k) == FlattenSeq([n \in 1..k |-> KeysOf(o[n])])
ArgsOfFirst(o, opt, k) == FlattenSeq([n \in 1..k |-> ArgOf(o[n], opt)])

MainFields == {"srs", "direction", "daemonflags", "secrets", "socketpath", "alias",
               "addrs"}

\* The handle as these options describe it, and whether a daemon is wanted.
Handled(m, o, k) ==
    /\ DOMAIN m = MainFields /\ IsHandle(m.srs)
    /\ ShortComments => m.srs.secrets = KeysOfFirst(o, k)
    /\ m.secrets = Len(m.srs.secrets)
    /\ m.srs.separator = LastOr(ArgsOfFirst(o, "e", k), Eq)
    /\ m.srs.hashlength = LastOr(ArgsOfFirst(o, "l", k), 4)
    /\ "DF_DAEMON" \in m.daemonflags <=> \E n \in 1..k : o[n].opt = "d"

Listed(m, o, k) == m.addrs = ArgsOfFirst(o, "a", k)

\* Before the first option.
LEMMA NoneTaken ==
  ASSUME NEW o, NEW m,
         m = [srs |-> srs_init, direction |-> "SRS_DIR_FORWARD",
              daemonflags |-> {}, secrets |-> 0, socketpath |-> "/tmp/srsd",
              alias |-> <<>>, addrs |-> <<>>]
  PROVE  Handled(m, o, 0) /\ Listed(m, o, 0)
PROOF
  <1>1. KeysOfFirst(o, 0) = <<>>
    BY DEF FlattenSeq, KeysOfFirst
  <1>2. \A opt : ArgsOfFirst(o, opt, 0) = <<>>
    BY DEF FlattenSeq, ArgsOfFirst
  <1>3. IsHandle(srs_init)
    BY TextTuples DEF IsHandle, Loaded, srs_init
  <1>4. /\ DOMAIN m = MainFields /\ m.srs = srs_init /\ m.secrets = 0
        /\ m.daemonflags = {} /\ m.addrs = <<>>
    BY DEF MainFields
  <1>5. /\ srs_init.secrets = <<>> /\ srs_init.separator = Eq
        /\ srs_init.hashlength = 4
    BY DEF srs_init
  <1>6. Listed(m, o, 0)
    BY <1>2, <1>4 DEF Listed
  <1>7. Handled(m, o, 0)
    BY <1>1, <1>2, <1>3, <1>4, <1>5 DEF Handled, LastOr
  <1> QED BY <1>6, <1>7

\* One option more.
LEMMA FirstKeys ==
  ASSUME ShortComments, NEW o, NEW k \in Nat, o[k + 1] \in Options,
         \A n \in 1..k : o[n] \in Options
  PROVE  /\ KeysOfFirst(o, k + 1) = KeysOfFirst(o, k) \o KeysOf(o[k + 1])
         /\ IsText(KeysOfFirst(o, k)) /\ IsText(KeysOf(o[k + 1]))
PROOF
  <1>1. ASSUME NEW p \in Options PROVE IsText(KeysOf(p))
    <2>1. CASE p.opt = "k"
      <3>1. KeysOf(p) = << p.arg >>
        BY <2>1 DEF KeysOf
      <3> QED BY <3>1, TextTuples
    <2>2. CASE p.opt = "f"
      BY <2>2, PiecesAreKeys
    <2>3. CASE p.opt \notin {"k", "f"}
      <3>1. KeysOf(p) = <<>>
        BY <2>3 DEF KeysOf
      <3> QED BY <3>1, TextTuples
    <2> QED BY <2>1, <2>2, <2>3
  <1>2. PICK e : e = [n \in 1..(k + 1) |-> KeysOf(o[n])]
    OBVIOUS
  <1>3. \A n \in 1..(k + 1) : e[n] = KeysOf(o[n]) /\ IsText(e[n])
    BY <1>1, <1>2
  <1>4. /\ [n \in 1..k |-> KeysOf(o[n])] = [n \in 1..k |-> e[n]]
        /\ [n \in 1..(k + 1) |-> KeysOf(o[n])] = [n \in 1..(k + 1) |-> e[n]]
    BY <1>3
  <1>5. IsText(e[k + 1]) /\ e[k + 1] = KeysOf(o[k + 1])
    BY <1>3
  <1>6. IsText(FlattenSeq([n \in 1..k |-> e[n]]))
    BY <1>3, FlattenText
  <1> QED BY <1>4, <1>5, <1>6, FlattenMore DEF KeysOfFirst

\* One option more: its argument is the last one, if it has any.
LEMMA FirstArgs ==
  ASSUME NEW o, NEW opt, NEW k \in Nat
  PROVE  /\ ArgsOfFirst(o, opt, k + 1)
              = ArgsOfFirst(o, opt, k) \o ArgOf(o[k + 1], opt)
         /\ IsText(ArgsOfFirst(o, opt, k))
         /\ o[k + 1].opt = opt =>
              \A d : LastOr(ArgsOfFirst(o, opt, k + 1), d) = o[k + 1].arg
         /\ o[k + 1].opt # opt =>
              ArgsOfFirst(o, opt, k + 1) = ArgsOfFirst(o, opt, k)
PROOF
  <1>1. \A p : IsText(ArgOf(p, opt))
    BY TextTuples DEF ArgOf
  <1>2. PICK e : e = [n \in 1..(k + 1) |-> ArgOf(o[n], opt)]
    OBVIOUS
  <1>3. \A n \in 1..(k + 1) : e[n] = ArgOf(o[n], opt) /\ IsText(e[n])
    BY <1>1, <1>2
  <1>4. /\ [n \in 1..k |-> ArgOf(o[n], opt)] = [n \in 1..k |-> e[n]]
        /\ [n \in 1..(k + 1) |-> ArgOf(o[n], opt)] = [n \in 1..(k + 1) |-> e[n]]
    BY <1>3
  <1>5. IsText(e[k + 1]) /\ e[k + 1] = ArgOf(o[k + 1], opt)
    BY <1>3
  <1>6. IsText(FlattenSeq([n \in 1..k |-> e[n]]))
    BY <1>3, FlattenText
  <1>7. /\ ArgsOfFirst(o, opt, k + 1)
             = ArgsOfFirst(o, opt, k) \o ArgOf(o[k + 1], opt)
        /\ IsText(ArgsOfFirst(o, opt, k))
    BY <1>4, <1>5, <1>6, FlattenMore DEF ArgsOfFirst
  <1>8. PICK a : a = ArgsOfFirst(o, opt, k)
    OBVIOUS
  <1>9. PICK b : b = ArgsOfFirst(o, opt, k + 1)
    OBVIOUS
  <1>10. CASE o[k + 1].opt = opt
    <2>1. b = a \o << o[k + 1].arg >> /\ IsText(a) /\ Len(a) \in Nat
      BY <1>7, <1>8, <1>9, <1>10, TextIndex DEF ArgOf
    <2>2. b # <<>> /\ Len(b) = Len(a) + 1 /\ b[Len(a) + 1] = o[k + 1].arg
      <3>1. PICK c : c = << o[k + 1].arg >>
        OBVIOUS
      <3>2. IsText(c) /\ Len(c) = 1 /\ c[1] = o[k + 1].arg
        BY <3>1, TextTuples
      <3>3. /\ Len(a \o c) = Len(a) + Len(c)
            /\ \A i \in 1..Len(c) : (a \o c)[Len(a) + i] = c[i]
        <4>1. IsText(a) /\ IsText(c)
          BY <2>1, <3>2
        <4> QED BY ONLY <4>1, TextConcat
      <3>4. Len(b) = Len(a) + 1 /\ b[Len(a) + 1] = o[k + 1].arg
        BY <2>1, <3>1, <3>2, <3>3
      <3> QED BY <2>1, <3>4, TextTuples
    <2> QED BY <1>7, <1>8, <1>9, <1>10, <2>2 DEF LastOr, Last
  <1>11. CASE o[k + 1].opt # opt
    <2>1. b = a
      BY <1>7, <1>8, <1>9, <1>11 DEF ArgOf, IsText
    <2> QED BY <1>7, <1>8, <1>9, <1>11, <2>1
  <1> QED BY <1>10, <1>11

\* One option more, whatever it is.
LEMMA OneTaken ==
  ASSUME NEW o, NEW k \in Nat, NEW m,
         \A n \in 1..(k + 1) : o[n] \in Options,
         ~Unusable(o[k + 1]), Handled(m, o, k), Listed(m, o, k)
  PROVE  /\ Handled(Taken(m, o[k + 1]), o, k + 1)
         /\ Listed(Taken(m, o[k + 1]), o, k + 1)
PROOF
  <1>1. PICK p : p = o[k + 1]
    OBVIOUS
  <1>2. PICK q : q = Taken(m, p)
    OBVIOUS
  <1>3. /\ ShortComments => KeysOfFirst(o, k + 1) = m.srs.secrets \o KeysOf(p)
        /\ IsText(m.srs.secrets)
    <2>1. o[k + 1] \in Options /\ \A n \in 1..k : o[n] \in Options
      OBVIOUS
    <2> QED BY <1>1, <2>1, FirstKeys DEF Handled, IsHandle
  <1>4. /\ LastOr(ArgsOfFirst(o, "e", k + 1), Eq)
             = IF p.opt = "e" THEN p.arg ELSE m.srs.separator
        /\ LastOr(ArgsOfFirst(o, "l", k + 1), 4)
             = IF p.opt = "l" THEN p.arg ELSE m.srs.hashlength
        /\ ArgsOfFirst(o, "a", k + 1) = m.addrs \o ArgOf(p, "a")
        /\ IsText(m.addrs)
    <2>1. ASSUME NEW opt
          PROVE  /\ ArgsOfFirst(o, opt, k + 1)
                      = ArgsOfFirst(o, opt, k) \o ArgOf(p, opt)
                 /\ IsText(ArgsOfFirst(o, opt, k))
                 /\ p.opt = opt =>
                      \A d : LastOr(ArgsOfFirst(o, opt, k + 1), d) = p.arg
                 /\ p.opt # opt =>
                      ArgsOfFirst(o, opt, k + 1) = ArgsOfFirst(o, opt, k)
      BY <1>1, FirstArgs
    <2>2. LastOr(ArgsOfFirst(o, "e", k + 1), Eq)
            = IF p.opt = "e" THEN p.arg ELSE m.srs.separator
      <3>1. LastOr(ArgsOfFirst(o, "e", k), Eq) = m.srs.separator
        BY DEF Handled
      <3> QED BY <2>1, <3>1
    <2>3. LastOr(ArgsOfFirst(o, "l", k + 1), 4)
            = IF p.opt = "l" THEN p.arg ELSE m.srs.hashlength
      <3>1. LastOr(ArgsOfFirst(o, "l", k), 4) = m.srs.hashlength
        BY DEF Handled
      <3> QED BY <2>1, <3>1
    <2>4. ArgsOfFirst(o, "a", k + 1) = m.addrs \o ArgOf(p, "a") /\ IsText(m.addrs)
      BY <2>1 DEF Listed
    <2> QED BY <2>2, <2>3, <2>4
  <1>5. (\E n \in 1..(k + 1) : o[n].opt = "d")
          <=> "DF_DAEMON" \in m.daemonflags \/ p.opt = "d"
    <2>1. \A n \in 1..(k + 1) : n \in 1..k \/ n = k + 1
      OBVIOUS
    <2>2. 1..k \subseteq 1..(k + 1) /\ k + 1 \in 1..(k + 1)
      OBVIOUS
    <2>3. "DF_DAEMON" \in m.daemonflags <=> \E n \in 1..k : o[n].opt = "d"
      BY DEF Handled
    <2> QED BY ONLY <1>1, <2>1, <2>2, <2>3
  <1>6. /\ p.opt \in {"d", "x", "s", "e", "a", "k", "f", "o", "v", "i", "l"}
        /\ p.opt = "e" => SeparatorAccepted(p.arg)
    <2>1. p \in Options /\ OptionOK(p) /\ ~Unusable(p)
      BY <1>1, OptionsAssumption
    <2> QED BY <2>1 DEF OptionOK, Unusable
  <1>7. /\ DOMAIN m = MainFields /\ IsHandle(m.srs)
        /\ m.secrets = Len(m.srs.secrets)
    BY DEF Handled
  <1>8. /\ p.opt \notin {"k", "f"} => KeysOf(p) = <<>>
        /\ p.opt # "a" => ArgOf(p, "a") = <<>>
    BY DEF KeysOf, ArgOf
  \* What an option has to leave behind.
  <1> DEFINE Good == /\ DOMAIN q = MainFields /\ IsHandle(q.srs)
                     /\ ShortComments =>
                          q.srs.secrets = m.srs.secrets \o KeysOf(p)
                     /\ q.secrets = Len(q.srs.secrets)
                     /\ q.srs.separator
                          = IF p.opt = "e" THEN p.arg ELSE m.srs.separator
                     /\ q.srs.hashlength
                          = IF p.opt = "l" THEN p.arg ELSE m.srs.hashlength
                     /\ "DF_DAEMON" \in q.daemonflags
                          <=> "DF_DAEMON" \in m.daemonflags \/ p.opt = "d"
                     /\ q.addrs = m.addrs \o ArgOf(p, "a")
  <1>9. Good => Handled(q, o, k + 1) /\ Listed(q, o, k + 1)
    BY <1>3, <1>4, <1>5 DEF Handled, Listed
  <1>10. m.srs.secrets \o <<>> = m.srs.secrets /\ m.addrs \o <<>> = m.addrs
    BY <1>3, <1>4 DEF IsText
  <1>11. CASE p.opt \in {"k", "f"}
    <2>1. \E t : /\ q = AddSecrets(m, t) /\ IsText(t)
                 /\ ShortComments => t = KeysOf(p)
      <3>1. CASE p.opt = "k"
        <4>1. q = AddSecrets(m, << p.arg >>)
          BY <1>2, <3>1, Zenon DEF Taken
        <4>2. KeysOf(p) = << p.arg >>
          BY <3>1 DEF KeysOf
        <4> QED BY <4>1, <4>2, TextTuples
      <3>2. CASE p.opt = "f"
        <4>1. q = AddSecrets(m, SecretPieces(p.arg))
          BY <1>2, <3>2, Zenon DEF Taken
        <4>2. p \in Options
          BY <1>1
        <4> QED BY <3>2, <4>1, <4>2, PiecesAreKeys
      <3> QED BY <1>11, <3>1, <3>2
    <2>2. PICK t : /\ q = AddSecrets(m, t) /\ IsText(t)
                   /\ ShortComments => t = KeysOf(p)
      BY <2>1
    <2>3. q = [m EXCEPT !.srs = Loaded(m.srs, m.srs.secrets \o t),
                        !.secrets = @ + Len(t)]
      BY <1>3, <1>7, <2>2, SecretsAdded
    <2>4. PICK s : s = m.srs.secrets \o t
      OBVIOUS
    <2>5. IsText(s) /\ Len(s) = Len(m.srs.secrets) + Len(t)
      <3>1. PICK a : a = m.srs.secrets
        OBVIOUS
      <3>2. IsText(a) /\ IsText(t)
        BY <1>3, <2>2, <3>1
      <3>3. IsText(a \o t) /\ Len(a \o t) = Len(a) + Len(t)
        BY ONLY <3>2, TextConcat
      <3> QED BY <2>4, <3>1, <3>3
    <2>6. /\ DOMAIN q = MainFields /\ q.srs = Loaded(m.srs, s)
          /\ q.secrets = m.secrets + Len(t)
          /\ q.daemonflags = m.daemonflags /\ q.addrs = m.addrs
      BY <1>7, <2>3, <2>4 DEF MainFields
    <2>7. /\ q.srs.secrets = s /\ q.srs.separator = m.srs.separator
          /\ q.srs.hashlength = m.srs.hashlength
          /\ IsHandle(q.srs)
      BY <2>5, <2>6 DEF Loaded, IsHandle
    <2>8. Good
      BY <1>7, <1>8, <1>10, <1>11, <2>2, <2>4, <2>5, <2>6, <2>7
    <2> QED BY <1>1, <1>2, <1>9, <2>8
  <1>12. CASE p.opt \in {"x", "s", "o", "v", "i"}
    <2>1. /\ DOMAIN q = MainFields /\ q.srs = m.srs /\ q.secrets = m.secrets
          /\ "DF_DAEMON" \in q.daemonflags <=> "DF_DAEMON" \in m.daemonflags
          /\ q.addrs = m.addrs
      <3>1. CASE p.opt = "x"
        <4>1. q = [m EXCEPT !.daemonflags = @ \cup {"DF_NOFORK"}]
          BY <1>2, <3>1, Zenon DEF Taken
        <4> QED BY <1>7, <4>1 DEF MainFields
      <3>2. CASE p.opt = "s"
        <4>1. q = [m EXCEPT !.socketpath = p.arg]
          BY <1>2, <3>2, Zenon DEF Taken
        <4> QED BY <1>7, <4>1 DEF MainFields
      <3>3. CASE p.opt = "o"
        <4>1. q = [m EXCEPT !.direction = "SRS_DIR_FORWARD"]
          BY <1>2, <3>3, Zenon DEF Taken
        <4> QED BY <1>7, <4>1 DEF MainFields
      <3>4. CASE p.opt = "v"
        <4>1. q = [m EXCEPT !.direction = "SRS_DIR_REVERSE"]
          BY <1>2, <3>4, Zenon DEF Taken
        <4> QED BY <1>7, <4>1 DEF MainFields
      <3>5. CASE p.opt = "i"
        <4>1. q = [m EXCEPT !.alias = << p.arg >>]
          BY <1>2, <3>5, Zenon DEF Taken
        <4> QED BY <1>7, <4>1 DEF MainFields
      <3> QED BY <1>12, <3>1, <3>2, <3>3, <3>4, <3>5
    <2>2. Good
      BY <1>7, <1>8, <1>10, <1>12, <2>1
    <2> QED BY <1>1, <1>2, <1>9, <2>2
  <1>13. CASE p.opt = "d"
    <2>1. q = [m EXCEPT !.daemonflags = @ \cup {"DF_DAEMON"}]
      BY <1>2, <1>13, Zenon DEF Taken
    <2>2. /\ DOMAIN q = MainFields /\ q.srs = m.srs /\ q.secrets = m.secrets
          /\ "DF_DAEMON" \in q.daemonflags /\ q.addrs = m.addrs
      BY <1>7, <2>1 DEF MainFields
    <2>3. Good
      BY <1>7, <1>8, <1>10, <1>13, <2>2
    <2> QED BY <1>1, <1>2, <1>9, <2>3
  <1>14. CASE p.opt = "a"
    <2>1. q = [m EXCEPT !.addrs = Append(@, p.arg)]
      BY <1>2, <1>14, Zenon DEF Taken
    <2>2. Append(m.addrs, p.arg) = m.addrs \o << p.arg >>
      BY <1>4 DEF IsText
    <2>3. /\ DOMAIN q = MainFields /\ q.srs = m.srs /\ q.secrets = m.secrets
          /\ q.daemonflags = m.daemonflags
          /\ q.addrs = m.addrs \o << p.arg >>
      BY <1>7, <2>1, <2>2 DEF MainFields
    <2>4. ArgOf(p, "a") = << p.arg >>
      BY <1>14 DEF ArgOf
    <2>5. Good
      BY <1>7, <1>8, <1>10, <1>14, <2>3, <2>4
    <2> QED BY <1>1, <1>2, <1>9, <2>5
  <1>15. CASE p.opt = "e"
    <2>1. q = [m EXCEPT !.srs = srs_set_separator(@, p.arg)]
      BY <1>2, <1>15, Zenon DEF Taken
    <2>2. PICK h : h = m.srs
      OBVIOUS
    <2>3. PICK g : g = srs_set_separator(h, p.arg)
      OBVIOUS
    <2>4. h = Loaded(h, h.secrets) /\ IsText(h.secrets)
      BY <1>7, <2>2 DEF IsHandle
    <2>5. g = [h EXCEPT !.separator = p.arg]
      BY <1>6, <1>15, <2>3 DEF srs_set_separator
    <2>6. /\ g = Loaded(g, g.secrets) /\ g.secrets = h.secrets
          /\ g.separator = p.arg /\ g.hashlength = h.hashlength
      BY <2>4, <2>5 DEF Loaded
    <2>7. /\ DOMAIN q = MainFields /\ q.srs = g /\ q.secrets = m.secrets
          /\ q.daemonflags = m.daemonflags /\ q.addrs = m.addrs
      BY <1>7, <2>1, <2>2, <2>3 DEF MainFields
    <2>8. IsHandle(q.srs)
      BY <2>4, <2>6, <2>7 DEF IsHandle
    <2>9. Good
      BY <1>7, <1>8, <1>10, <1>15, <2>2, <2>6, <2>7, <2>8
    <2> QED BY <1>1, <1>2, <1>9, <2>9
  <1>16. CASE p.opt = "l"
    <2>1. q = [m EXCEPT !.srs.hashlength = p.arg]
      BY <1>2, <1>16, Zenon DEF Taken
    <2>2. PICK h : h = m.srs
      OBVIOUS
    <2>3. PICK g : g = [h EXCEPT !.hashlength = p.arg]
      OBVIOUS
    <2>4. h = Loaded(h, h.secrets) /\ IsText(h.secrets)
      BY <1>7, <2>2 DEF IsHandle
    <2>5. /\ g = Loaded(g, g.secrets) /\ g.secrets = h.secrets
          /\ g.separator = h.separator /\ g.hashlength = p.arg
      BY <2>3, <2>4 DEF Loaded
    <2>6. /\ DOMAIN q = MainFields /\ q.srs = g /\ q.secrets = m.secrets
          /\ q.daemonflags = m.daemonflags /\ q.addrs = m.addrs
      BY <1>7, <2>1, <2>2, <2>3 DEF MainFields
    <2>7. IsHandle(q.srs)
      BY <2>4, <2>5, <2>6 DEF IsHandle
    <2>8. Good
      BY <1>7, <1>8, <1>10, <1>16, <2>2, <2>5, <2>6, <2>7
    <2> QED BY <1>1, <1>2, <1>9, <2>8
  <1> QED BY <1>6, <1>11, <1>12, <1>13, <1>14, <1>15, <1>16

-----------------------------------------------------------------------------
(* The answers of the library *)

IsAnswer(ans) == ans = [ret |-> ans.ret, out |-> ans.out]

\* Every way through the library ends in Fail() or Done().
LEMMA Answers == \A m, addr : IsAnswer(Answer(m, addr))
PROOF
  <1>1. /\ \A c : IsAnswer(Fail(c))
        /\ \A s : IsAnswer(Done(s))
    BY DEF IsAnswer, Fail, Done
  <1>2. \A srs, n, host, user, alias, now :
          IsAnswer(Shortcut(srs, n, host, user, alias, now))
    BY <1>1, Zenon DEF Shortcut
  <1>3. \A srs, n, host, user, alias, now :
          IsAnswer(srs_compile_shortcut(srs, n, host, user, alias, now))
    BY <1>1, <1>2, ZenonT(60) DEF srs_compile_shortcut
  <1>4. \A srs, n, host, user, alias : IsAnswer(Guarded(srs, n, host, user, alias))
    BY <1>1, Zenon DEF Guarded
  <1>5. \A srs, n, host, user, alias, now :
          IsAnswer(srs_compile_guarded(srs, n, host, user, alias, now))
    <2> SUFFICES ASSUME NEW srs, NEW n, NEW host, NEW user, NEW alias, NEW now
                 PROVE  IsAnswer(srs_compile_guarded(srs, n, host, user, alias, now))
      OBVIOUS
    <2>1. CASE Tagged(user, "SRS1")
      BY <1>1, <1>4, <2>1, Zenon DEF srs_compile_guarded
    <2>2. CASE ~Tagged(user, "SRS1")
      BY <1>3, <1>4, <2>2, Zenon DEF srs_compile_guarded
    <2> QED BY <2>1, <2>2
  <1>6. \A srs, n, sender, alias, now :
          IsAnswer(srs_forward(srs, n, sender, alias, now))
    BY <1>1, <1>5, Zenon DEF srs_forward
  <1>7. \A srs, user, now : IsAnswer(srs_parse_shortcut(srs, user, now))
    BY <1>1, ZenonT(60) DEF srs_parse_shortcut
  <1>8. \A srs, user, now : IsAnswer(srs_parse_guarded(srs, user, now))
    BY <1>1, <1>7, Zenon DEF srs_parse_guarded
  <1>9. \A srs, n, sender, now : IsAnswer(srs_reverse(srs, n, sender, now))
    BY <1>1, <1>8, Zenon DEF srs_reverse
  <1> QED BY <1>6, <1>9, Zenon DEF Answer

-----------------------------------------------------------------------------
(* The course of a call *)

\* How many options are taken.
Gone == Len(given.options) - Len(options)

\* What is printed are the answers so far.
Printed(p, m, wanted) ==
    /\ Len(p) <= Len(wanted)
    /\ \A n \in 1..Len(p) :
         Answer(m, wanted[n]) = [ret |-> "SRS_SUCCESS", out |-> p[n]]

IInv ==
    /\ given.options \in Seq(Options) /\ given.operands \in Seq(Operands)
    /\ pc \in {"options", "check", "rewrite", "daemon", "exit"}
    /\ IsText(options) /\ Len(options) <= Len(given.options)
    /\ \A n \in 1..Len(options) : options[n] = given.options[Gone + n]
    /\ Handled(main, given.options, Gone)
    /\ pc \in {"options", "check"} =>
         printed = <<>> /\ Listed(main, given.options, Gone)
    /\ pc \in {"check", "daemon", "rewrite"} => options = <<>>
    /\ pc \in {"daemon", "rewrite"} =>
         /\ main.secrets # 0
         /\ pc = "daemon" <=> "DF_DAEMON" \in main.daemonflags
    /\ IsText(printed)
    /\ pc = "daemon" => printed = <<>>
    /\ pc = "rewrite" => main.addrs = Wanted
    /\ Printed(printed, main, Wanted)
    /\ pc = "exit" =>
         IF code = "0" THEN Len(printed) = Len(Wanted)
         ELSE printed # <<>> =>
                Answer(main, Wanted[Len(printed) + 1]).ret # "SRS_SUCCESS"

\* The addresses are a text.
LEMMA WantedText ==
  ASSUME given.options \in Seq(Options), given.operands \in Seq(Operands)
  PROVE  /\ IsText(Wanted) /\ Len(Wanted) \in Nat
         /\ Wanted = ArgsOfFirst(given.options, "a", Len(given.options))
                       \o given.operands
PROOF
  <1>1. PICK a : a = ArgsOfFirst(given.options, "a", Len(given.options))
    OBVIOUS
  <1>2. PICK b : b = given.operands
    OBVIOUS
  <1>3. Wanted = a \o b
    BY <1>1, <1>2 DEF Wanted, Args, ArgsOfFirst
  <1>4. IsText(a)
    <2>1. PICK o : o = given.options
      OBVIOUS
    <2>2. PICK k : k = Len(o)
      OBVIOUS
    <2>3. k \in Nat
      BY <2>1, <2>2
    <2>4. IsText(ArgsOfFirst(o, "a", k))
      BY <2>3, FirstArgs
    <2> QED BY <1>1, <2>1, <2>2, <2>4
  <1>5. IsText(b)
    BY <1>2, SequencesAreTexts
  <1>6. PICK c : c = a \o b
    OBVIOUS
  <1>7. IsText(c)
    BY <1>4, <1>5, <1>6, TextConcat
  <1>8. Len(c) \in Nat
    BY <1>7, TextIndex
  <1> QED BY <1>1, <1>2, <1>3, <1>6, <1>7, <1>8

\* Before the first option is read.
LEMMA Starts == Init => IInv
PROOF
  <1> SUFFICES ASSUME Init PROVE IInv
    OBVIOUS
  <1>1. \A S, n : n \in Nat => \A s \in BoundedSeq(S, n) : s \in Seq(S)
    BY DEF BoundedSeq, SeqOf
  <1>2. given.options \in Seq(Options) /\ given.operands \in Seq(Operands)
    BY <1>1, ToolAssumption DEF Init
  <1>3. IsText(given.options) /\ Len(given.options) \in Nat
    BY <1>2, SequencesAreTexts
  <1>4. options = given.options /\ Gone = 0 /\ printed = <<>> /\ pc = "options"
    BY <1>3 DEF Init, Gone
  <1>5. Handled(main, given.options, 0) /\ Listed(main, given.options, 0)
    BY NoneTaken DEF Init
  <1>6. Len(printed) = 0 /\ IsText(printed)
    BY <1>4, TextTuples
  <1>7. Len(Wanted) \in Nat
    BY <1>2, WantedText
  <1> QED BY <1>2, <1>3, <1>4, <1>5, <1>6, <1>7 DEF IInv, Printed

\* An option is taken (Option).
LEMMA OptionStep == ASSUME IInv, Option PROVE IInv'
PROOF
  <1>1. /\ pc = "options" /\ options # <<>> /\ ~Unusable(Head(options))
        /\ main' = Taken(main, Head(options)) /\ options' = Tail(options)
        /\ pc' = pc /\ printed' = printed /\ code' = code /\ given' = given
    BY DEF Option
  <1>2. /\ given.options \in Seq(Options) /\ given.operands \in Seq(Operands)
        /\ IsText(options) /\ Len(options) <= Len(given.options)
        /\ \A n \in 1..Len(options) : options[n] = given.options[Gone + n]
        /\ Handled(main, given.options, Gone)
        /\ printed = <<>> /\ Listed(main, given.options, Gone)
    BY <1>1 DEF IInv
  <1>3. PICK k : k = Gone
    OBVIOUS
  <1>4. PICK o : o = given.options
    OBVIOUS
  <1>5. /\ Len(options) \in Nat \ {0} /\ Head(options) = options[1]
        /\ IsText(Tail(options)) /\ Len(Tail(options)) = Len(options) - 1
        /\ \A n \in 1..(Len(options) - 1) : Tail(options)[n] = options[n + 1]
    <2>1. Tail(options) \in Seq(Range(options))
      BY <1>1, <1>2 DEF IsText
    <2>2. IsText(Tail(options))
      BY <2>1, SequencesAreTexts
    <2> QED BY <1>1, <1>2, <2>2 DEF IsText
  <1>6. k \in Nat /\ k + 1 <= Len(o) /\ Len(o) \in Nat /\ Gone' = k + 1
    BY <1>1, <1>2, <1>3, <1>4, <1>5 DEF Gone
  <1>7. Head(options) = o[k + 1]
    BY <1>2, <1>3, <1>4, <1>5
  <1>8. \A n \in 1..(k + 1) : o[n] \in Options
    BY <1>2, <1>4, <1>6
  <1>9. PICK m : m = main
    OBVIOUS
  <1>10. ~Unusable(o[k + 1]) /\ Handled(m, o, k) /\ Listed(m, o, k)
    BY <1>1, <1>2, <1>3, <1>4, <1>7, <1>9
  <1>11. /\ Handled(Taken(m, o[k + 1]), o, k + 1)
         /\ Listed(Taken(m, o[k + 1]), o, k + 1)
    BY <1>6, <1>8, <1>10, OneTaken
  <1>12. Handled(main', given'.options, Gone') /\ Listed(main', given'.options, Gone')
    BY <1>1, <1>4, <1>6, <1>7, <1>9, <1>11
  <1>13. ASSUME NEW n \in 1..Len(Tail(options))
         PROVE  Tail(options)[n] = o[(k + 1) + n]
    <2>1. n \in 1..(Len(options) - 1) /\ n + 1 \in 1..Len(options)
          /\ k + (n + 1) = (k + 1) + n
      BY <1>5, <1>6
    <2> QED BY <1>2, <1>3, <1>4, <1>5, <2>1
  <1>14. Len(Tail(options)) <= Len(o)
    BY <1>2, <1>4, <1>5, <1>6
  <1>15. \A n \in 1..Len(options') : options'[n] = given'.options[Gone' + n]
    BY <1>1, <1>4, <1>6, <1>13
  <1>16. Wanted' = Wanted /\ Len(Wanted) \in Nat
    BY <1>1, <1>2, WantedText DEF Wanted, Args
  <1>17. Printed(printed', main', Wanted')
    BY <1>1, <1>2, <1>16 DEF Printed
  <1>18. IsText(printed') /\ IsText(options')
    BY <1>1, <1>2, <1>5, TextTuples
  <1> QED
    BY <1>1, <1>2, <1>4, <1>12, <1>14, <1>15, <1>17, <1>18 DEF IInv

\* Options and operands of the call stay, and so do the addresses they name.
LEMMA CallStays ==
  ASSUME IInv, given' = given
  PROVE  /\ Wanted' = Wanted /\ IsText(Wanted) /\ Len(Wanted) \in Nat
         /\ options' = options => Gone' = Gone
  BY WantedText DEF IInv, Wanted, Args, Gone

\* An option ends the call, or they are all taken.
LEMMA EndSteps == ASSUME IInv, BadOption \/ EndOfOptions PROVE IInv'
PROOF
  <1>1. /\ pc = "options" /\ options' = options /\ main' = main
        /\ printed' = printed /\ given' = given
        /\ \/ pc' = "exit" /\ code' = "255"
           \/ pc' = "check" /\ options = <<>>
    BY DEF BadOption, EndOfOptions, Exit
  <1>2. /\ Wanted' = Wanted /\ Gone' = Gone
    BY <1>1, CallStays
  <1>3. printed = <<>>
    BY <1>1 DEF IInv
  <1> QED BY <1>1, <1>2, <1>3 DEF IInv

\* The call is checked, and the operands are put behind the other addresses.
LEMMA CheckStep == ASSUME IInv, Check PROVE IInv'
PROOF
  <1> DEFINE addrs == main.addrs \o given.operands
             daemon == "DF_DAEMON" \in main.daemonflags
  <1>1. /\ pc = "check" /\ options' = options /\ printed' = printed /\ given' = given
        /\ \/ pc' = "exit" /\ code' = "255"
           \/ main.secrets # 0 /\ daemon /\ pc' = "daemon"
           \/ main.secrets # 0 /\ ~daemon /\ pc' = "rewrite"
        /\ main' = IF main.secrets = 0 \/ daemon THEN main
                   ELSE [main EXCEPT !.addrs = addrs]
    BY DEF Check, Exit
  <1>2. Wanted' = Wanted /\ Gone' = Gone /\ IsText(Wanted) /\ Len(Wanted) \in Nat
    BY <1>1, CallStays
  <1>3. /\ printed = <<>> /\ options = <<>> /\ Listed(main, given.options, Gone)
        /\ Handled(main, given.options, Gone)
        /\ given.options \in Seq(Options) /\ given.operands \in Seq(Operands)
    BY <1>1 DEF IInv
  <1>4. addrs = Wanted
    <2>1. Gone = Len(given.options)
      <3>1. Len(options) = 0 /\ Len(given.options) \in Nat
        BY <1>3
      <3> QED BY <3>1 DEF Gone
    <2> QED BY <1>3, <2>1, WantedText DEF Listed
  <1> HIDE DEF addrs
  <1>5. Handled(main', given'.options, Gone')
    <2>1. CASE main' = main
      BY <1>1, <1>2, <1>3, <2>1
    <2>2. CASE main' = [main EXCEPT !.addrs = addrs]
      <3>1. DOMAIN main = MainFields
        BY <1>3 DEF Handled
      <3>2. /\ DOMAIN main' = MainFields /\ main'.srs = main.srs
            /\ main'.secrets = main.secrets /\ main'.daemonflags = main.daemonflags
        BY <2>2, <3>1 DEF MainFields
      <3> QED BY <1>1, <1>2, <1>3, <3>2 DEF Handled
    <2> QED BY <1>1, <2>1, <2>2
  <1>6. pc' \in {"daemon", "rewrite"} =>
          /\ main'.secrets # 0
          /\ pc' = "daemon" <=> "DF_DAEMON" \in main'.daemonflags
    <2>1. DOMAIN main = MainFields
      BY <1>3 DEF Handled
    <2> QED BY <1>1, <2>1 DEF MainFields
  <1>7. pc' = "rewrite" => main'.addrs = Wanted'
    <2>1. DOMAIN main = MainFields
      BY <1>3 DEF Handled
    <2> QED BY <1>1, <1>2, <1>4, <2>1 DEF MainFields
  <1>8. Printed(printed', main', Wanted')
    BY <1>1, <1>2, <1>3 DEF Printed
  <1>9. /\ pc' \in {"daemon", "rewrite", "exit"} /\ (pc' = "exit" => code' = "255")
        /\ printed' = <<>> /\ options' = <<>>
    BY <1>1, <1>3
  <1>10. /\ given'.options \in Seq(Options) /\ given'.operands \in Seq(Operands)
         /\ IsText(options') /\ IsText(printed') /\ Len(options') <= Len(given'.options)
         /\ \A n \in 1..Len(options') : options'[n] = given'.options[Gone' + n]
    BY <1>1, <1>2 DEF IInv
  <1> QED BY <1>5, <1>6, <1>7, <1>8, <1>9, <1>10 DEF IInv

\* An address is rewritten and printed, or ends the call.
LEMMA RewriteStep == ASSUME IInv, Rewrite PROVE IInv'
PROOF
  <1>1. PICK ans : ans = Answer(main, main.addrs[Len(printed) + 1])
    OBVIOUS
  <1>2. /\ pc = "rewrite" /\ Len(printed) < Len(main.addrs)
        /\ options' = options /\ main' = main /\ given' = given
        /\ \/ /\ ans.ret = "SRS_SUCCESS" /\ printed' = Append(printed, ans.out)
              /\ pc' = pc
           \/ /\ ans.ret # "SRS_SUCCESS" /\ pc' = "exit" /\ printed' = printed
              /\ code' # "0"
    <2>1. /\ pc = "rewrite" /\ Len(printed) < Len(main.addrs)
          /\ options' = options /\ main' = main /\ given' = given
      BY DEF Rewrite
    <2>2. CASE ans.ret = "SRS_SUCCESS"
      <3>1. printed' = Append(printed, ans.out) /\ UNCHANGED <<pc, code>>
        BY <1>1, <2>2, Zenon DEF Rewrite
      <3> QED BY <2>1, <2>2, <3>1
    <2>3. CASE ans.ret = "SIGSEGV"
      <3>1. "SIGSEGV" # "SRS_SUCCESS" /\ "SIGSEGV" # "0"
        OBVIOUS
      <3>2. Exit("SIGSEGV") /\ UNCHANGED printed
        BY <1>1, <2>3, <3>1, Zenon DEF Rewrite
      <3> QED BY <2>1, <2>3, <3>1, <3>2 DEF Exit
    <2>4. CASE ans.ret \notin {"SRS_SUCCESS", "SIGSEGV"}
      <3>1. ans.ret # "SRS_SUCCESS" /\ ans.ret # "SIGSEGV" /\ "255" # "0"
        BY <2>4
      <3>2. Exit("255") /\ UNCHANGED printed
        BY <1>1, <3>1, Zenon DEF Rewrite
      <3> QED BY <2>1, <3>1, <3>2 DEF Exit
    <2> QED BY <2>2, <2>3, <2>4
  <1>3. Wanted' = Wanted /\ Gone' = Gone /\ IsText(Wanted) /\ Len(Wanted) \in Nat
    BY <1>2, CallStays
  <1>4. /\ main.addrs = Wanted /\ IsText(printed) /\ Printed(printed, main, Wanted)
        /\ options = <<>> /\ main.secrets # 0
        /\ "DF_DAEMON" \notin main.daemonflags
    BY <1>2 DEF IInv
  <1>5. Len(printed) \in Nat
    BY <1>4, TextIndex
  <1>6. IsText(printed') /\ Printed(printed', main', Wanted')
    <2>1. CASE printed' = printed
      BY <1>2, <1>3, <1>4, <2>1
    <2>2. CASE ans.ret = "SRS_SUCCESS" /\ printed' = Append(printed, ans.out)
      <3>1. PICK p : p = Append(printed, ans.out)
        OBVIOUS
      <3>2. /\ IsText(p) /\ Len(p) = Len(printed) + 1
            /\ p[Len(printed) + 1] = ans.out
            /\ \A n \in 1..Len(printed) : p[n] = printed[n]
        <4>1. PICK T : T = Range(printed) \cup {ans.out}
          OBVIOUS
        <4>2. printed \in Seq(T) /\ ans.out \in T
          BY <1>4, <4>1 DEF IsText, Range
        <4>3. p \in Seq(T)
          BY <3>1, <4>2
        <4>4. IsText(p)
          BY <4>3, SequencesAreTexts
        <4> QED BY <3>1, <4>2, <4>4
      <3>3. ans = [ret |-> "SRS_SUCCESS", out |-> ans.out]
        BY <1>1, <2>2, Answers DEF IsAnswer
      <3>4. Len(p) <= Len(Wanted)
        BY <1>2, <1>3, <1>4, <1>5, <3>2
      <3>5. ASSUME NEW n \in 1..Len(p)
            PROVE  Answer(main, Wanted[n]) = [ret |-> "SRS_SUCCESS", out |-> p[n]]
        <4>1. CASE n = Len(printed) + 1
          BY <1>1, <1>4, <3>2, <3>3, <4>1
        <4>2. CASE n \in 1..Len(printed)
          BY <1>4, <3>2, <4>2 DEF Printed
        <4> QED BY <1>5, <3>2, <4>1, <4>2
      <3>6. Printed(p, main, Wanted)
        BY <3>4, <3>5 DEF Printed
      <3> QED BY <1>2, <1>3, <2>2, <3>1, <3>2, <3>6
    <2> QED BY <1>2, <2>1, <2>2
  <1>7. pc' = "exit" => /\ code' # "0"
                        /\ Answer(main', Wanted'[Len(printed') + 1]).ret
                             # "SRS_SUCCESS"
    BY <1>1, <1>2, <1>3, <1>4
  <1>8. pc' \in {"rewrite", "exit"} /\ options' = <<>> /\ main'.addrs = Wanted'
        /\ main'.secrets # 0 /\ "DF_DAEMON" \notin main'.daemonflags
    BY <1>2, <1>3, <1>4
  <1>9. /\ given'.options \in Seq(Options) /\ given'.operands \in Seq(Operands)
        /\ IsText(options') /\ Len(options') <= Len(given'.options)
        /\ \A n \in 1..Len(options') : options'[n] = given'.options[Gone' + n]
        /\ Handled(main', given'.options, Gone')
    BY <1>2, <1>3 DEF IInv
  <1> QED BY <1>6, <1>7, <1>8, <1>9 DEF IInv

\* All addresses are printed.
LEMMA FinishStep == ASSUME IInv, Finish PROVE IInv'
PROOF
  <1>1. /\ pc = "rewrite" /\ Len(printed) = Len(main.addrs)
        /\ pc' = "exit" /\ code' = "0"
        /\ options' = options /\ main' = main /\ printed' = printed /\ given' = given
    BY DEF Finish, Exit
  <1>2. Wanted' = Wanted /\ Gone' = Gone
    BY <1>1, CallStays
  <1> QED BY <1>1, <1>2 DEF IInv

-----------------------------------------------------------------------------
(* The results *)

\* Every step keeps what the call has come to.
LEMMA Course == Spec => []IInv
PROOF
  <1>1. IInv /\ [Next]_vars => IInv'
    <2> SUFFICES ASSUME IInv, [Next]_vars PROVE IInv'
      OBVIOUS
    <2>1. CASE UNCHANGED vars
      <3>1. /\ pc' = pc /\ options' = options /\ main' = main /\ code' = code
            /\ printed' = printed /\ given' = given
        BY <2>1 DEF vars
      <3>2. Wanted' = Wanted /\ Gone' = Gone
        BY <3>1, CallStays
      <3> QED BY <3>1, <3>2 DEF IInv
    <2> QED BY <2>1, OptionStep, EndSteps, CheckStep, RewriteStep, FinishStep
            DEF Next
  <1> QED BY <1>1, Starts, PTL DEF Spec

\* Whatever the order of the options, the library is put to work with the secrets
\* of the call in their order, its last separator and hash length, and a daemon
\* is started exactly when one was asked for; if no comment of a secret file is
\* longer than BUFSIZ (main()).
THEOREM AsGiven == ASSUME ShortComments PROVE Spec => []HandleAsGiven
PROOF
  <1>1. IInv => HandleAsGiven
    <2> SUFFICES ASSUME IInv, pc \in {"daemon", "rewrite"} PROVE HandleAsGiven
      BY DEF HandleAsGiven
    <2>1. /\ options = <<>> /\ Len(given.options) \in Nat
          /\ Handled(main, given.options, Gone) /\ main.secrets # 0
          /\ pc = "daemon" <=> "DF_DAEMON" \in main.daemonflags
      BY DEF IInv
    <2>2. Gone = Len(given.options)
      <3>1. Len(options) = 0
        BY <2>1
      <3> QED BY <2>1, <3>1 DEF Gone
    <2>3. /\ Keys = KeysOfFirst(given.options, Gone)
          /\ \A opt : Args(opt) = ArgsOfFirst(given.options, opt, Gone)
      BY <2>2 DEF Keys, KeysOfFirst, Args, ArgsOfFirst
    <2>4. Used("d") <=> "DF_DAEMON" \in main.daemonflags
      BY <2>1, <2>2 DEF Used, Handled
    <2>5. main.srs.secrets = Keys /\ main.secrets = Len(Keys)
      BY <2>1, <2>3 DEF Handled
    <2>6. Keys # <<>>
      BY <2>1, <2>5, TextTuples
    <2>7. /\ main.srs.separator = LastOr(Args("e"), Eq)
          /\ main.srs.hashlength = LastOr(Args("l"), 4)
      BY <2>1, <2>3 DEF Handled
    <2> QED BY <2>1, <2>4, <2>5, <2>6, <2>7 DEF HandleAsGiven
  <1> QED BY <1>1, Course, PTL

\* What is printed is the answers to the addresses of the call in their order, and
\* the status says whether all of them are there (SRS_DIE_UNLESS()).
THEOREM InOrder == Spec => []PrintedInOrder
PROOF
  <1>1. IInv => PrintedInOrder
    BY DEF IInv, Printed, PrintedInOrder
  <1> QED BY <1>1, Course, PTL
=============================================================================
