----------------------------- MODULE Srs2_proofs -----------------------------
(***************************************************************************)
(* What srs_forward() and srs_reverse() make of an address, for any        *)
(* handle, any host and any local part.  An address is a local part        *)
(* without at signs and terminators, an at sign and one host (Addr); the   *)
(* lemmas say which form a rewriting gives it and that reversal undoes it. *)
(***************************************************************************)
EXTENDS Srs2, SrsString_proofs

\* A token behind a text.
LEMMA PushOne ==
  ASSUME NEW s, IsText(s), NEW c
  PROVE  /\ IsText(s \o <<c>>)
         /\ Len(s \o <<c>>) = Len(s) + 1
         /\ \A i \in 1..Len(s) : (s \o <<c>>)[i] = s[i]
         /\ (s \o <<c>>)[Len(s) + 1] = c
  BY TextConcat, TextTuples

\* A token behind two texts.
LEMMA PushTwo ==
  ASSUME NEW s, IsText(s), NEW c, NEW d
  PROVE  /\ IsText(s \o <<c, d>>)
         /\ Len(s \o <<c, d>>) = Len(s) + 2
         /\ \A i \in 1..Len(s) : (s \o <<c, d>>)[i] = s[i]
         /\ (s \o <<c, d>>)[Len(s) + 1] = c
         /\ (s \o <<c, d>>)[Len(s) + 2] = d
PROOF
  <1>1. IsText(<<c, d>>) /\ Len(<<c, d>>) = 2 /\ <<c, d>>[1] = c /\ <<c, d>>[2] = d
    BY TextTuples
  <1>2. /\ IsText(s \o <<c, d>>)
        /\ Len(s \o <<c, d>>) = Len(s) + 2
        /\ \A i \in 1..Len(s) : (s \o <<c, d>>)[i] = s[i]
        /\ \A i \in 1..2 : (s \o <<c, d>>)[Len(s) + i] = <<c, d>>[i]
    BY <1>1, TextConcat
  <1> QED BY <1>1, <1>2

\* A text of length one.
LEMMA OneToken ==
  ASSUME NEW s, IsText(s), Len(s) = 1
  PROVE  s = <<s[1]>>
PROOF
  <1>1. IsText(<<s[1]>>) /\ Len(<<s[1]>>) = 1 /\ <<s[1]>>[1] = s[1]
    BY TextTuples
  <1>2. \A i \in 1..1 : s[i] = <<s[1]>>[i]
    BY <1>1
  <1> QED BY <1>1, <1>2, TextEqual

Clean(u) == IsText(u) /\ \A i \in 1..Len(u) : u[i] # At /\ u[i] # Nul

Local(u) == Clean(u) /\ Len(u) > 0

Addr(s, u, h) ==
    /\ IsText(s) /\ Len(s) = Len(u) + 2
    /\ \A i \in 1..Len(u) : s[i] = u[i]
    /\ s[Len(u) + 1] = At /\ s[Len(u) + 2] = Name(h)

\* A SubSeq of one token.
LEMMA SingleSub ==
  ASSUME NEW s, IsText(s), NEW i \in 1..Len(s)
  PROVE  /\ IsText(SubSeq(s, i, i)) /\ Len(SubSeq(s, i, i)) = 1
         /\ SubSeq(s, i, i)[1] = s[i]
PROOF
  <1>1. /\ Len(s) \in Nat /\ i \in Nat \ {0} /\ i \in Nat /\ i <= Len(s)
        /\ i <= i + 1 /\ i - i + 1 = 1 /\ i + 1 - 1 = i
    BY TextIndex
  <1>2. /\ IsText(SubSeq(s, i, i)) /\ Len(SubSeq(s, i, i)) = i - i + 1
        /\ \A k \in 1..(i - i + 1) : SubSeq(s, i, i)[k] = s[i + k - 1]
    BY <1>1, TextSub
  <1> QED BY <1>1, <1>2

\* strchr() and the two parts that srs_forward() and srs_reverse() cut an
\* address into.
LEMMA AddrParts ==
  ASSUME NEW s, NEW u, NEW h, Local(u), Addr(s, u, h)
  PROVE  /\ StrChr(s, 1, At) = Len(u) + 1
         /\ Before(s, Len(u) + 1) = u
         /\ From(s, Len(u) + 2) = <<Name(h)>>
         /\ CString(s) = s
PROOF
  <1>0. Len(u) \in Nat \ {0}
    BY TextIndex DEF Local, Clean
  <1>1. StrChr(s, 1, At) = Len(u) + 1
    BY <1>0, StrChrFirst DEF Local, Clean, Addr
  <1>2. Before(s, Len(u) + 1) = u
    <2>1. /\ IsText(SubSeq(s, 1, Len(u))) /\ Len(SubSeq(s, 1, Len(u))) = Len(u)
          /\ \A k \in 1..Len(u) : SubSeq(s, 1, Len(u))[k] = s[k]
      BY <1>0, TextSub DEF Addr
    <2>2. SubSeq(s, 1, Len(u)) = u
      BY <2>1, TextEqual DEF Local, Clean, Addr
    <2> QED BY <2>2, <1>0 DEF Before
  <1>3. From(s, Len(u) + 2) = <<Name(h)>>
    <2> DEFINE t == SubSeq(s, Len(u) + 2, Len(u) + 2)
    <2>1. IsText(t) /\ Len(t) = 1 /\ t[1] = Name(h)
      <3>1. /\ IsText(t) /\ Len(t) = 1
            /\ \A k \in 1..1 : t[k] = s[Len(u) + 2 + k - 1]
        BY <1>0, TextSub DEF Addr
      <3> QED BY <3>1, <1>0 DEF Addr
    <2>2. t = <<Name(h)>>
      BY <2>1, OneToken
    <2> QED BY <2>2 DEF From, Addr
  <1>4. \A k \in 1..Len(s) : s[k] # Nul
    BY <1>0, TokensDiffer DEF Local, Clean, Addr
  <1>5. StrChr(s, 1, Nul) = 0
    BY <1>4, StrChrNone DEF Addr
  <1> QED BY <1>1, <1>2, <1>3, <1>5 DEF CString

S0User(w, u, h) ==
    /\ Local(w) /\ Len(w) = Len(u) + 9
    /\ w[1] = Tag("SRS0") /\ w[2] \in srs_separators
    /\ w[3] # Eq /\ w[4] = Eq /\ w[5] # Eq /\ w[6] # Eq /\ w[7] = Eq
    /\ w[8] = Name(h) /\ w[9] = Eq
    /\ \A i \in 1..Len(u) : w[9 + i] = u[i]

\* The hash and the stamp that the relay with this secret and this hash length
\* puts into it at that time.
Stamped(w, u, h, key, len, time) ==
    /\ w[3] = Hash(key, srs_timestamp_create(time) \o <<Name(h)>> \o u, len)
    /\ w[5] = srs_timestamp_create(time)[1] /\ w[6] = srs_timestamp_create(time)[2]

\* What the lemmas need of a handle.
Known(srs) == /\ srs.separator \in srs_separators \cup {Nul}
              /\ srs.hashlength \in Nat \ {0}

Printed(w, r) == (w \o <<At>>) \o <<Name(r)>>

\* A local part printed with an at sign and a host is an address of them.
LEMMA PrintedAddr ==
  ASSUME NEW w, NEW r, IsText(w)
  PROVE  Addr(Printed(w, r), w, r)
PROOF
  <1> DEFINE y == w \o <<At>>
             z == y \o <<Name(r)>>
  <1>1. Len(w) \in Nat
    BY TextIndex
  <1>2. /\ IsText(y) /\ Len(y) = Len(w) + 1
        /\ \A i \in 1..Len(w) : y[i] = w[i]
        /\ y[Len(w) + 1] = At
    BY PushOne
  <1>3. Printed(w, r) = z
    BY DEF Printed
  <1> HIDE DEF y
  <1>4. /\ IsText(z) /\ Len(z) = Len(y) + 1
        /\ \A i \in 1..Len(y) : z[i] = y[i]
        /\ z[Len(y) + 1] = Name(r)
    BY <1>2, PushOne
  <1> HIDE DEF z
  <1>5. Addr(z, w, r)
    <2>1. Len(w) \in Nat /\ Len(y) \in Nat /\ Len(z) = Len(w) + 2
      BY <1>1, <1>2, <1>4
    <2>2. \A i \in 1..Len(w) : z[i] = w[i]
      BY <2>1, <1>2, <1>4
    <2>3. z[Len(w) + 1] = At /\ z[Len(w) + 2] = Name(r)
      BY <2>1, <1>2, <1>4
    <2> QED BY <2>1, <2>2, <2>3, <1>4 DEF Addr
  <1> QED BY <1>3, <1>5

\* An address is determined by its local part and its host.
LEMMA AddrUnique ==
  ASSUME NEW s, NEW t, NEW u, NEW h, IsText(u), Addr(s, u, h), Addr(t, u, h)
  PROVE  s = t
PROOF
  <1>1. Len(u) \in Nat
    BY TextIndex
  <1>2. \A i \in 1..Len(s) : i \in 1..Len(u) \/ i = Len(u) + 1 \/ i = Len(u) + 2
    BY <1>1 DEF Addr
  <1>3. \A i \in 1..Len(s) : s[i] = t[i]
    BY <1>2 DEF Addr
  <1> QED BY <1>3, TextEqual DEF Addr

\* sprintf() keeps such an address, or ends it behind its tag when the
\* separator is the terminator.
LEMMA PrintedShape ==
  ASSUME NEW w, NEW r, NEW t, NEW sep \in srs_separators \cup {Nul},
         IsText(w), Len(w) >= 3, w[1] = Tag(t), w[2] = sep,
         \A i \in 3..Len(w) : w[i] # At /\ w[i] # Nul
  PROVE  \/ CString(Printed(w, r)) = <<Tag(t)>> /\ sep = Nul
         \/ /\ Local(w) /\ w[2] \in srs_separators
            /\ Addr(CString(Printed(w, r)), w, r)
PROOF
  <1> DEFINE z == Printed(w, r)
  <1>1. Len(w) \in Nat
    BY TextIndex
  <1>5. Addr(z, w, r)
    BY PrintedAddr
  <1> HIDE DEF z
  <1>4. IsText(z)
    BY <1>5 DEF Addr
  <1>6. CASE sep \in srs_separators
    <2>1. \A i \in 1..Len(w) : w[i] # At /\ w[i] # Nul
      <3>1. \A i \in 1..Len(w) : i = 1 \/ i = 2 \/ i \in 3..Len(w)
        BY <1>1
      <3>2. w[1] # At /\ w[1] # Nul
        BY TokensDiffer
      <3>3. w[2] # At /\ w[2] # Nul
        BY <1>6, TokensDiffer DEF srs_separators
      <3> QED BY <3>1, <3>2, <3>3
    <2>2. Local(w)
      BY <2>1, <1>1 DEF Local, Clean
    <2> QED BY <2>2, <1>5, <1>6, AddrParts DEF z
  <1>7. CASE sep = Nul
    <2>1. z[1] = Tag(t) /\ z[2] = Nul /\ Len(z) >= 2 /\ Len(z) \in Nat
      BY <1>1, <1>5, <1>7 DEF Addr
    <2>2. StrChr(z, 1, Nul) = 2
      BY <2>1, <1>4, StrChrFirst, TokensDiffer
    <2>3. Before(z, 2) = <<Tag(t)>>
      <3>1. /\ IsText(SubSeq(z, 1, 1)) /\ Len(SubSeq(z, 1, 1)) = 1
            /\ \A k \in 1..1 : SubSeq(z, 1, 1)[k] = z[1 + k - 1]
        BY <1>4, <2>1, TextSub
      <3>2. SubSeq(z, 1, 1)[1] = Tag(t)
        BY <3>1, <2>1
      <3>3. SubSeq(z, 1, 1) = <<Tag(t)>>
        BY <3>1, <3>2, OneToken
      <3> QED BY <3>3 DEF Before
    <2> QED BY <1>7, <2>2, <2>3 DEF CString, z
  <1> QED BY <1>6, <1>7

\* What srs_compile_shortcut() writes, token by token.
LEMMA ShortcutShape ==
  ASSUME NEW srs, Known(srs), NEW u, Local(u), NEW h, NEW r, NEW now, NEW buflen,
         Shortcut(srs, buflen, <<Name(h)>>, u, <<Name(r)>>, now).ret = "SRS_SUCCESS"
  PROVE  LET out == Shortcut(srs, buflen, <<Name(h)>>, u, <<Name(r)>>, now).out
         IN  \/ out = <<Tag("SRS0")>> /\ srs.separator = Nul
             \/ \E w : /\ S0User(w, u, h) /\ Addr(out, w, r)
                      /\ Stamped(w, u, h, srs.secrets[1], srs.hashlength, now)
PROOF
  <1> DEFINE st == srs_timestamp_create(now)
             b1 == Base32((Day(now) \div SRS_TIME_BASE) % SRS_TIME_BASE)
             b2 == Base32(Day(now) % SRS_TIME_BASE)
             hh == Hash(srs.secrets[1], st \o <<Name(h)>> \o u, srs.hashlength)
             x0 == <<Tag("SRS0"), srs.separator>>
             x1 == x0 \o <<hh>>
             x2 == x1 \o <<Eq>>
             x3 == x2 \o <<b1, b2>>
             x4 == x3 \o <<Eq>>
             x5 == x4 \o <<Name(h)>>
             x6 == x5 \o <<Eq>>
             w  == x6 \o u
  <1>1. Shortcut(srs, buflen, <<Name(h)>>, u, <<Name(r)>>, now).out
          = CString(Printed(w, r))
    BY DEF Printed, Shortcut, Fail, Done, srs_hash_create, srs_hash_create_v,
           Known, srs_timestamp_create
  <1> HIDE DEF hh, b1, b2
  <1>2. /\ IsText(x0) /\ Len(x0) = 2 /\ x0[1] = Tag("SRS0") /\ x0[2] = srs.separator
    BY TextTuples
  <1>3. /\ IsText(x1) /\ Len(x1) = 3 /\ \A i \in 1..2 : x1[i] = x0[i]
        /\ x1[3] = hh
    BY <1>2, PushOne
  <1>4. /\ IsText(x2) /\ Len(x2) = 4 /\ \A i \in 1..3 : x2[i] = x1[i]
        /\ x2[4] = Eq
    BY <1>3, PushOne
  <1>5. /\ IsText(x3) /\ Len(x3) = 6 /\ \A i \in 1..4 : x3[i] = x2[i]
        /\ x3[5] = b1 /\ x3[6] = b2
    BY <1>4, PushTwo
  <1>6. /\ IsText(x4) /\ Len(x4) = 7 /\ \A i \in 1..6 : x4[i] = x3[i]
        /\ x4[7] = Eq
    BY <1>5, PushOne
  <1>7. /\ IsText(x5) /\ Len(x5) = 8 /\ \A i \in 1..7 : x5[i] = x4[i]
        /\ x5[8] = Name(h)
    BY <1>6, PushOne
  <1>8. /\ IsText(x6) /\ Len(x6) = 9 /\ \A i \in 1..8 : x6[i] = x5[i]
        /\ x6[9] = Eq
    BY <1>7, PushOne
  <1> HIDE DEF x0, x1, x2, x3, x4, x5, x6
  <1>a. IsText(u) /\ Len(u) \in Nat \ {0}
    BY TextIndex DEF Local, Clean
  <1>9. /\ IsText(w) /\ Len(w) = 9 + Len(u)
        /\ \A i \in 1..9 : w[i] = x6[i]
        /\ \A i \in 1..Len(u) : w[9 + i] = u[i]
    <2>1. /\ IsText(w) /\ Len(w) = Len(x6) + Len(u)
          /\ \A i \in 1..Len(x6) : w[i] = x6[i]
          /\ \A i \in 1..Len(u) : w[Len(x6) + i] = u[i]
      <3>1. IsText(x6) /\ IsText(u)
        BY <1>8, <1>a
      <3> QED BY ONLY <3>1, TextConcat DEF w
    <2> QED BY <2>1, <1>8
  <1> HIDE DEF w
  <1>13. /\ w[1] = Tag("SRS0") /\ w[2] = srs.separator /\ w[3] = hh /\ w[4] = Eq
         /\ w[5] = b1 /\ w[6] = b2 /\ w[7] = Eq /\ w[8] = Name(h) /\ w[9] = Eq
    BY <1>2, <1>3, <1>4, <1>5, <1>6, <1>7, <1>8, <1>9
  <1>14. hh # Eq /\ hh # At /\ hh # Nul /\ b1 # Eq /\ b1 # At /\ b1 # Nul
         /\ b2 # Eq /\ b2 # At /\ b2 # Nul
    BY TokensDiffer DEF hh, b1, b2
  <1>15. \A i \in 3..Len(w) : w[i] # At /\ w[i] # Nul
    <2>1. \A i \in 3..Len(w) : i \in {3, 4, 5, 6, 7, 8, 9} \/ i - 9 \in 1..Len(u)
      BY <1>9, <1>a
    <2>2. \A i \in {3, 4, 5, 6, 7, 8, 9} : w[i] # At /\ w[i] # Nul
      BY <1>13, <1>14, TokensDiffer
    <2>3. \A i \in 3..Len(w) : i - 9 \in 1..Len(u) => w[i] = u[i - 9]
      BY <1>9, <1>a
    <2> QED BY <2>1, <2>2, <2>3 DEF Local, Clean
  <1>16. \/ CString(Printed(w, r)) = <<Tag("SRS0")>> /\ srs.separator = Nul
         \/ /\ Local(w) /\ w[2] \in srs_separators
            /\ Addr(CString(Printed(w, r)), w, r)
    <2>1. /\ srs.separator \in srs_separators \cup {Nul}
          /\ IsText(w) /\ Len(w) >= 3
          /\ w[1] = Tag("SRS0") /\ w[2] = srs.separator
          /\ \A i \in 3..Len(w) : w[i] # At /\ w[i] # Nul
      BY <1>9, <1>13, <1>15, <1>a DEF Known
    <2> HIDE DEF Known
    <2> QED BY ONLY <2>1, PrintedShape
  <1>17. Local(w) /\ w[2] \in srs_separators => S0User(w, u, h)
    BY <1>9, <1>13, <1>14, <1>a DEF S0User
  <1>18. Stamped(w, u, h, srs.secrets[1], srs.hashlength, now)
    <2>1. w[3] = Hash(srs.secrets[1], srs_timestamp_create(now) \o <<Name(h)>> \o u,
                      srs.hashlength)
      BY <1>13 DEF hh
    <2>2. srs_timestamp_create(now)[1] = b1 /\ srs_timestamp_create(now)[2] = b2
      BY DEF srs_timestamp_create, b1, b2
    <2> QED BY <1>13, <2>1, <2>2, Zenon DEF Stamped
  <1> QED BY <1>1, <1>16, <1>17, <1>18

\* The local part that Guarded() writes for a host and a user.
GuardedUser(w, hash, host, user) ==
    /\ Local(w) /\ Len(w) = 5 + Len(host) + Len(user)
    /\ w[1] = Tag("SRS1") /\ w[2] \in srs_separators
    /\ w[3] = hash /\ w[4] = Eq
    /\ \A i \in 1..Len(host) : w[4 + i] = host[i]
    /\ w[5 + Len(host)] = Eq
    /\ \A i \in 1..Len(user) : w[5 + Len(host) + i] = user[i]

\* What srs_compile_guarded() writes, token by token.
LEMMA GuardedShape ==
  ASSUME NEW srs, Known(srs), NEW host, Clean(host), NEW user, Clean(user),
         NEW r, NEW buflen,
         Guarded(srs, buflen, host, user, <<Name(r)>>).ret = "SRS_SUCCESS"
  PROVE  LET out == Guarded(srs, buflen, host, user, <<Name(r)>>).out
         IN  \/ out = <<Tag("SRS1")>> /\ srs.separator = Nul
             \/ \E w : /\ Addr(out, w, r)
                      /\ GuardedUser(w, Hash(srs.secrets[1], host \o user,
                                             srs.hashlength), host, user)
PROOF
  <1> DEFINE hh == Hash(srs.secrets[1], host \o user, srs.hashlength)
             x0 == <<Tag("SRS1"), srs.separator>>
             x1 == x0 \o <<hh>>
             x2 == x1 \o <<Eq>>
             x3 == x2 \o host
             x4 == x3 \o <<Eq>>
             w  == x4 \o user
  <1>1. Guarded(srs, buflen, host, user, <<Name(r)>>).out
          = CString(Printed(w, r))
    BY DEF Printed, Guarded, Fail, Done, srs_hash_create, srs_hash_create_v,
           Known
  <1>2. /\ IsText(host) /\ Len(host) \in Nat
        /\ IsText(user) /\ Len(user) \in Nat
    BY TextIndex DEF Clean
  <1>3. hh # Eq /\ hh # At /\ hh # Nul
    BY TokensDiffer
  <1> HIDE DEF hh
  <1>4. /\ IsText(x0) /\ Len(x0) = 2
        /\ x0[1] = Tag("SRS1") /\ x0[2] = srs.separator
    BY TextTuples
  <1>5. /\ IsText(x1) /\ Len(x1) = 3 /\ \A i \in 1..2 : x1[i] = x0[i]
        /\ x1[3] = hh
    BY <1>4, PushOne
  <1>6. /\ IsText(x2) /\ Len(x2) = 4 /\ \A i \in 1..3 : x2[i] = x1[i]
        /\ x2[4] = Eq
    BY <1>5, PushOne
  <1> HIDE DEF x0, x1, x2
  <1>7. /\ IsText(x3) /\ Len(x3) = 4 + Len(host)
        /\ \A i \in 1..4 : x3[i] = x2[i]
        /\ \A i \in 1..Len(host) : x3[4 + i] = host[i]
    <2>1. IsText(x2) /\ IsText(host)
      BY <1>2, <1>6
    <2>2. /\ IsText(x3) /\ Len(x3) = Len(x2) + Len(host)
          /\ \A i \in 1..Len(x2) : x3[i] = x2[i]
          /\ \A i \in 1..Len(host) : x3[Len(x2) + i] = host[i]
      BY ONLY <2>1, TextConcat DEF x3
    <2> QED BY <2>2, <1>6
  <1> HIDE DEF x3
  <1>8. /\ IsText(x4) /\ Len(x4) = 5 + Len(host)
        /\ \A i \in 1..(4 + Len(host)) : x4[i] = x3[i]
        /\ x4[5 + Len(host)] = Eq
    <2>1. /\ IsText(x4) /\ Len(x4) = Len(x3) + 1
          /\ \A i \in 1..Len(x3) : x4[i] = x3[i]
          /\ x4[Len(x3) + 1] = Eq
      BY <1>7, PushOne
    <2> QED BY <2>1, <1>2, <1>7
  <1> HIDE DEF x4
  <1>9. /\ IsText(w) /\ Len(w) = 5 + Len(host) + Len(user)
        /\ \A i \in 1..(5 + Len(host)) : w[i] = x4[i]
        /\ \A i \in 1..Len(user) : w[5 + Len(host) + i] = user[i]
    <2>1. IsText(x4) /\ IsText(user)
      BY <1>2, <1>8
    <2>2. /\ IsText(w) /\ Len(w) = Len(x4) + Len(user)
          /\ \A i \in 1..Len(x4) : w[i] = x4[i]
          /\ \A i \in 1..Len(user) : w[Len(x4) + i] = user[i]
      BY ONLY <2>1, TextConcat DEF w
    <2> QED BY <2>2, <1>8
  <1> HIDE DEF w
  <1>10. /\ w[1] = Tag("SRS1") /\ w[2] = srs.separator /\ w[3] = hh
         /\ w[4] = Eq /\ w[5 + Len(host)] = Eq
         /\ \A i \in 1..Len(host) : w[4 + i] = host[i]
    <2>1. \A i \in 1..4 : w[i] = x2[i]
      BY <1>2, <1>7, <1>8, <1>9
    <2>2. \A i \in 1..Len(host) : w[4 + i] = host[i]
      BY <1>2, <1>7, <1>8, <1>9
    <2>3. w[5 + Len(host)] = Eq
      BY <1>2, <1>8, <1>9
    <2>4. /\ x2[1] = Tag("SRS1") /\ x2[2] = srs.separator /\ x2[3] = hh
          /\ x2[4] = Eq
      BY <1>4, <1>5, <1>6
    <2> QED BY <2>1, <2>2, <2>3, <2>4
  <1>11. \A i \in 3..Len(w) : w[i] # At /\ w[i] # Nul
    <2>1. \A i \in 3..Len(w) : \/ i = 3 \/ i = 4 \/ i = 5 + Len(host)
                               \/ i - 4 \in 1..Len(host)
                               \/ i - 5 - Len(host) \in 1..Len(user)
      BY <1>2, <1>9
    <2>2. \A i \in 3..Len(w) : i - 4 \in 1..Len(host) => w[i] = host[i - 4]
      <3> SUFFICES ASSUME NEW i \in 3..Len(w), i - 4 \in 1..Len(host)
                   PROVE  w[i] = host[i - 4]
        OBVIOUS
      <3>1. w[4 + (i - 4)] = host[i - 4] /\ 4 + (i - 4) = i
        BY <1>10, <1>2, <1>9
      <3> QED BY <3>1
    <2>3. \A i \in 3..Len(w) :
            i - 5 - Len(host) \in 1..Len(user)
               => w[i] = user[i - 5 - Len(host)]
      <3> SUFFICES ASSUME NEW i \in 3..Len(w),
                          i - 5 - Len(host) \in 1..Len(user)
                   PROVE  w[i] = user[i - 5 - Len(host)]
        OBVIOUS
      <3> DEFINE k == i - 5 - Len(host)
      <3>1. k \in 1..Len(user) /\ 5 + Len(host) + k = i
        BY <1>2
      <3> HIDE DEF k
      <3>2. w[i] = user[k]
        BY <1>9, <3>1
      <3> QED BY <3>2 DEF k
    <2> QED BY <2>1, <2>2, <2>3, <1>3, <1>10, TokensDiffer DEF Clean
  <1>12. \/ CString(Printed(w, r)) = <<Tag("SRS1")>> /\ srs.separator = Nul
         \/ /\ Local(w) /\ w[2] \in srs_separators
            /\ Addr(CString(Printed(w, r)), w, r)
    <2>1. /\ srs.separator \in srs_separators \cup {Nul}
          /\ IsText(w) /\ Len(w) >= 3
          /\ w[1] = Tag("SRS1") /\ w[2] = srs.separator
          /\ \A i \in 3..Len(w) : w[i] # At /\ w[i] # Nul
      BY <1>2, <1>9, <1>10, <1>11 DEF Known
    <2> QED BY ONLY <2>1, PrintedShape
  <1>13. Local(w) /\ w[2] \in srs_separators => GuardedUser(w, hh, host, user)
    BY <1>9, <1>10 DEF GuardedUser
  <1> QED BY <1>1, <1>12, <1>13 DEF hh

\* A suffix of a local part is one, when it is not empty.
LEMMA CleanSuffix ==
  ASSUME NEW u, Clean(u), NEW i \in Nat \ {0}, i <= Len(u) + 1
  PROVE  /\ Clean(From(u, i)) /\ Len(From(u, i)) = Len(u) - i + 1
         /\ \A k \in 1..(Len(u) - i + 1) : From(u, i)[k] = u[i + k - 1]
PROOF
  <1>1. IsText(u) /\ Len(u) \in Nat
    BY TextIndex DEF Clean
  <1>2. /\ IsText(SubSeq(u, i, Len(u)))
        /\ Len(SubSeq(u, i, Len(u))) = Len(u) - i + 1
        /\ \A k \in 1..(Len(u) - i + 1) : SubSeq(u, i, Len(u))[k] = u[i + k - 1]
    BY <1>1, TextSub
  <1>3. \A k \in 1..(Len(u) - i + 1) : i + k - 1 \in 1..Len(u)
    BY <1>1
  <1> QED BY <1>1, <1>2, <1>3 DEF Clean, From

Aliased(r) == <<Name("alias"), At, Name(r)>>

\* What is left of an alias with one at sign.
LEMMA DomainBehindAt ==
  ASSUME NEW a, IsText(a), Len(a) = 3, a[1] # At, a[2] = At, a[3] # At
  PROVE  Domain(a) = <<a[3]>>
PROOF
  <1>1. {i \in 1..Len(a) : a[i] = At} = {2}
    OBVIOUS
  <1>2. Max({2}) = 2
    BY DEF Max
  <1>3. Domain(a) = From(a, 2 + 1)
    BY <1>1, <1>2 DEF Domain, SelectLastInSeq
  <1>4. From(a, 2 + 1) = SubSeq(a, 3, 3)
    BY DEF From
  <1>5. /\ IsText(SubSeq(a, 3, 3)) /\ Len(SubSeq(a, 3, 3)) = 1
        /\ SubSeq(a, 3, 3)[1] = a[3]
    <2>1. 3 \in 1..Len(a)
      OBVIOUS
    <2> QED BY <2>1, SingleSub
  <1> QED BY <1>3, <1>4, <1>5, OneToken

\* The domain of the alias that a relay passes is its own.
LEMMA DomainOfAlias == \A r : Domain(Aliased(r)) = <<Name(r)>>
PROOF
  <1> SUFFICES ASSUME NEW r PROVE Domain(Aliased(r)) = <<Name(r)>>
    OBVIOUS
  <1>1. /\ Len(Aliased(r)) = 3 /\ Aliased(r)[1] # At /\ Aliased(r)[2] = At
        /\ Aliased(r)[3] = Name(r) /\ Aliased(r)[3] # At
    BY TokensDiffer DEF Aliased
  <1>2. IsText(Aliased(r))
    <2>1. Aliased(r) \in Seq({Name("alias"), At, Name(r)})
      BY DEF Aliased
    <2> QED BY <2>1, SequencesAreTexts
  <1> QED BY <1>1, <1>2, DomainBehindAt

\* Forwarding leaves an address alone or compiles its two parts.
LEMMA ForwardOpened ==
  ASSUME NEW s, NEW u, NEW h, Local(u), Addr(s, u, h), NEW srs, NEW buflen,
         NEW now, NEW r,
         srs_forward(srs, buflen, s, Aliased(r), now).ret = "SRS_SUCCESS"
  PROVE  \/ srs_forward(srs, buflen, s, Aliased(r), now).out = s
         \/ srs_forward(srs, buflen, s, Aliased(r), now)
              = srs_compile_guarded(srs, buflen, <<Name(h)>>, u, <<Name(r)>>, now)
PROOF
  <1>1. Len(u) \in Nat
    BY TextIndex DEF Local, Clean
  <1>2. /\ StrChr(s, 1, At) = Len(u) + 1
        /\ Before(s, Len(u) + 1) = u
        /\ From(s, (Len(u) + 1) + 1) = <<Name(h)>>
        /\ CString(s) = s
    BY <1>1, AddrParts
  <1> QED BY <1>1, <1>2, DomainOfAlias DEF srs_forward, Fail, Done

\* A plain address becomes an SRS0 address around it.
LEMMA ForwardPlain ==
  ASSUME NEW s, NEW u, NEW h, Local(u), Addr(s, u, h),
         ~Tagged(u, "SRS0"), ~Tagged(u, "SRS1"),
         NEW srs, Known(srs), NEW buflen, NEW now, NEW r,
         srs_forward(srs, buflen, s, Aliased(r), now).ret = "SRS_SUCCESS"
  PROVE  LET out == srs_forward(srs, buflen, s, Aliased(r), now).out
         IN  \/ out = s
             \/ out = <<Tag("SRS0")>> /\ srs.separator = Nul
             \/ \E w : /\ S0User(w, u, h) /\ Addr(out, w, r)
                      /\ Stamped(w, u, h, srs.secrets[1], srs.hashlength, now)
PROOF
  <1>1. srs_compile_guarded(srs, buflen, <<Name(h)>>, u, <<Name(r)>>, now)
          = Shortcut(srs, buflen, <<Name(h)>>, u, <<Name(r)>>, now)
    BY DEF srs_compile_guarded, srs_compile_shortcut
  <1> QED BY <1>1, ForwardOpened, ShortcutShape

\* The local part of an SRS1 address around an SRS0 address x at host a.
S1User(w, x, a) ==
    /\ Local(w) /\ Len(w) = 5 + Len(x)
    /\ w[1] = Tag("SRS1") /\ w[2] \in srs_separators
    /\ w[3].kind = "hash" /\ w[3] # Eq /\ w[4] = Eq /\ w[5] = Name(a) /\ w[6] = Eq
    /\ \A i \in 2..Len(x) : w[5 + i] = x[i]

\* The hash that the relay with this secret and this hash length puts into it.
Sealed(w, x, a, key, len) == w[3] = Hash(key, <<Name(a)>> \o From(x, 2), len)

\* A host is a text of one name.
LEMMA OneName == \A n : /\ Clean(<<Name(n)>>) /\ Len(<<Name(n)>>) = 1
                        /\ <<Name(n)>>[1] = Name(n)
  BY TextTuples, TokensDiffer DEF Clean

\* An SRS0 address becomes an SRS1 address around it.
LEMMA ForwardS0 ==
  ASSUME NEW s, NEW x, NEW a, Local(x), Addr(s, x, a),
         Tagged(x, "SRS0"), Len(x) >= 2,
         NEW srs, Known(srs), NEW buflen, NEW now, NEW r,
         srs_forward(srs, buflen, s, Aliased(r), now).ret = "SRS_SUCCESS"
  PROVE  LET out == srs_forward(srs, buflen, s, Aliased(r), now).out
         IN  \/ out = s
             \/ out = <<Tag("SRS1")>> /\ srs.separator = Nul
             \/ \E w : /\ S1User(w, x, a) /\ Addr(out, w, r)
                      /\ Sealed(w, x, a, srs.secrets[1], srs.hashlength)
PROOF
  <1> DEFINE host == <<Name(a)>>
             user == From(x, 2)
  <1>1. ~Tagged(x, "SRS1")
    BY TagsEqual DEF Tagged, HasTag
  <1>2. srs_compile_guarded(srs, buflen, host, x, <<Name(r)>>, now)
          = Guarded(srs, buflen, host, user, <<Name(r)>>)
    BY <1>1 DEF srs_compile_guarded
  <1>3. Clean(x) /\ Len(x) \in Nat
    BY TextIndex DEF Local, Clean
  <1>4. /\ Clean(user) /\ Len(user) = Len(x) - 1
        /\ \A k \in 1..(Len(x) - 1) : user[k] = x[k + 1]
    BY <1>3, CleanSuffix
  <1>5. Clean(host) /\ Len(host) = 1 /\ host[1] = Name(a)
    BY OneName
  <1> HIDE DEF host, user
  <1>6. ASSUME NEW w, NEW hh, hh.kind = "hash", hh # Eq, GuardedUser(w, hh, host, user)
        PROVE  S1User(w, x, a)
    <2>1. /\ Local(w) /\ Len(w) = 5 + Len(x)
          /\ w[1] = Tag("SRS1") /\ w[2] \in srs_separators
          /\ w[3].kind = "hash" /\ w[3] # Eq /\ w[4] = Eq
          /\ w[5] = Name(a) /\ w[6] = Eq
      BY <1>3, <1>4, <1>5, <1>6 DEF GuardedUser
    <2>2. \A k \in 1..(Len(x) - 1) : w[6 + k] = x[k + 1]
      BY <1>3, <1>4, <1>5, <1>6 DEF GuardedUser
    <2>3. ASSUME NEW i \in 2..Len(x) PROVE w[5 + i] = x[i]
      <3>1. i - 1 \in 1..(Len(x) - 1) /\ 6 + (i - 1) = 5 + i /\ (i - 1) + 1 = i
        BY <1>3
      <3> QED BY <3>1, <2>2
    <2> QED BY <2>1, <2>3 DEF S1User
  <1>7. /\ Hash(srs.secrets[1], host \o user, srs.hashlength) # Eq
        /\ Hash(srs.secrets[1], host \o user, srs.hashlength).kind = "hash"
    BY TokensDiffer DEF Hash
  <1> DEFINE hash == Hash(srs.secrets[1], host \o user, srs.hashlength)
  <1>9. ASSUME NEW w, GuardedUser(w, hash, host, user)
        PROVE  Sealed(w, x, a, srs.secrets[1], srs.hashlength)
    BY <1>9 DEF GuardedUser, Sealed, host, user
  <1> HIDE DEF hash
  <1>8. CASE srs_forward(srs, buflen, s, Aliased(r), now)
               = Guarded(srs, buflen, host, user, <<Name(r)>>)
    <2>1. \/ /\ srs_forward(srs, buflen, s, Aliased(r), now).out = <<Tag("SRS1")>>
             /\ srs.separator = Nul
          \/ \E w : /\ Addr(srs_forward(srs, buflen, s, Aliased(r), now).out, w, r)
                   /\ GuardedUser(w, hash, host, user)
      BY <1>4, <1>5, <1>8, GuardedShape DEF hash
    <2> QED BY <1>6, <1>7, <1>9, <2>1 DEF hash
  <1> QED BY <1>2, <1>8, ForwardOpened DEF host

\* The local part of an SRS1 address, its own or other software's.
Chained(x) ==
    /\ Local(x) /\ Len(x) >= 5
    /\ x[1] = Tag("SRS1") /\ x[2] \in srs_separators
    /\ x[3] # Eq /\ x[4] = Eq /\ x[5] # Eq

\* What srs_compile_guarded() makes of one: the hash covers another string
\* than the one the parser will find.
Broken(w) ==
    /\ Local(w) /\ Len(w) >= 7
    /\ w[1] = Tag("SRS1") /\ w[2] \in srs_separators
    /\ \E key, data, len : w[3] = Hash(key, data, len) /\ data[2] = Eq
    /\ w[4] = Eq /\ w[5] # Eq /\ w[6] = Eq /\ w[7] # Eq

\* It keeps all that stood behind the tag and the separator.
Inside(x, w) == /\ Len(w) >= Len(x) + 2
                /\ \A i \in 3..Len(x) : w[i + 2] = x[i]

\* An SRS1 address becomes an SRS1 address with the old hash for its host, or
\* ends behind its tag.
LEMMA ForwardS1 ==
  ASSUME NEW s, NEW x, NEW a, Chained(x), Addr(s, x, a),
         NEW srs, Known(srs), NEW buflen, NEW now, NEW r,
         srs_forward(srs, buflen, s, Aliased(r), now).ret = "SRS_SUCCESS"
  PROVE  LET out == srs_forward(srs, buflen, s, Aliased(r), now).out
         IN  \/ out = s
             \/ out = <<Tag("SRS1")>> /\ srs.separator = Nul
             \/ \E w : /\ Broken(w) /\ Addr(out, w, r) /\ Inside(x, w)
                      /\ w[3].len = srs.hashlength
PROOF
  <1> DEFINE host == From(x, 3)
             user == From(host, 2)
  <1>1. Clean(x) /\ Local(x) /\ Len(x) \in Nat /\ Len(x) >= 5
    BY TextIndex DEF Chained, Local, Clean
  <1>2. /\ Clean(host) /\ Len(host) = Len(x) - 2
        /\ \A k \in 1..(Len(x) - 2) : host[k] = x[k + 2]
    BY <1>1, CleanSuffix
  <1>3. Len(host) \in Nat /\ Len(host) >= 3
    BY <1>1, <1>2
  <1>4. host[1] # Eq /\ host[2] = Eq /\ host[3] # Eq
    BY <1>1, <1>2 DEF Chained
  <1> HIDE DEF host
  <1>5. /\ Clean(user) /\ Len(user) = Len(host) - 1
        /\ \A k \in 1..(Len(host) - 1) : user[k] = host[k + 1]
    BY <1>2, <1>3, CleanSuffix
  <1>6. Len(user) \in Nat /\ Len(user) >= 2 /\ user[1] = Eq /\ user[2] # Eq
    BY <1>3, <1>4, <1>5
  <1>7. StrChr(host, 1, Eq) = 2
    BY <1>2, <1>3, <1>4, StrChrFirst DEF Clean
  <1>8. Tagged(x, "SRS1") /\ Len(x) # 1
    BY <1>1 DEF Chained, Tagged, HasTag
  <1>9. CASE srs_forward(srs, buflen, s, Aliased(r), now)
               = srs_compile_guarded(srs, buflen, <<Name(a)>>, x, <<Name(r)>>, now)
    <2>1. PastTag(x, <<Name(a)>>) = host
      BY <1>8 DEF PastTag, host
    <2>2. host # <<>>
      BY <1>3, TextTuples
    <2>3. srs_compile_guarded(srs, buflen, <<Name(a)>>, x, <<Name(r)>>, now)
            = Guarded(srs, buflen, host, user, <<Name(r)>>)
      BY <1>7, <1>8, <2>1, <2>2 DEF srs_compile_guarded
    <2> DEFINE hh == Hash(srs.secrets[1], host \o user, srs.hashlength)
    <2>4. (host \o user)[2] = Eq
      BY <1>2, <1>3, <1>4, <1>5, TextConcat DEF Clean
    <2>5. ASSUME NEW w, GuardedUser(w, hh, host, user)
          PROVE  Broken(w)
      <3>1. /\ Local(w) /\ Len(w) >= 7 /\ w[1] = Tag("SRS1")
            /\ w[2] \in srs_separators /\ w[3] = hh /\ w[4] = Eq
        BY <1>3, <1>6, <2>5 DEF GuardedUser
      <3>2. w[4 + 1] = host[1] /\ w[4 + 2] = host[2] /\ w[4 + 3] = host[3]
        BY <1>3, <2>5 DEF GuardedUser
      <3>3. \E key, data, len : w[3] = Hash(key, data, len) /\ data[2] = Eq
        BY <3>1, <2>4
      <3> QED BY <3>1, <3>2, <3>3, <1>4 DEF Broken
    <2>7. ASSUME NEW w, GuardedUser(w, hh, host, user)
          PROVE  Inside(x, w)
      <3>1. \A i \in 3..Len(x) : /\ i - 2 \in 1..Len(host) /\ 4 + (i - 2) = i + 2
                                 /\ (i - 2) + 2 = i
        BY <1>1, <1>2
      <3>2. \A i \in 3..Len(x) : w[4 + (i - 2)] = host[i - 2] /\ host[i - 2] = x[i]
        BY <1>2, <2>7, <3>1 DEF GuardedUser
      <3>3. Len(w) >= Len(x) + 2
        BY <1>1, <1>2, <1>6, <2>7 DEF GuardedUser
      <3> QED BY <3>1, <3>2, <3>3 DEF Inside
    <2>8. ASSUME NEW w, GuardedUser(w, hh, host, user)
          PROVE  w[3].len = srs.hashlength
      BY <2>8 DEF GuardedUser, Hash
    <2> HIDE DEF hh, user
    <2>6. \/ /\ srs_forward(srs, buflen, s, Aliased(r), now).out = <<Tag("SRS1")>>
             /\ srs.separator = Nul
          \/ \E w : /\ Addr(srs_forward(srs, buflen, s, Aliased(r), now).out, w, r)
                   /\ GuardedUser(w, hh, host, user)
      BY <1>2, <1>5, <1>9, <2>3, GuardedShape DEF hh
    <2> QED BY <2>5, <2>6, <2>7, <2>8
  <1> QED BY <1>1, <1>9, ForwardOpened

\* An address that ended behind its tag is not forwarded again.
LEMMA ForwardCut ==
  ASSUME NEW t, NEW srs, NEW buflen, NEW alias, NEW now
  PROVE  srs_forward(srs, buflen, <<Tag(t)>>, alias, now).ret # "SRS_SUCCESS"
PROOF
  <1>1. /\ IsText(<<Tag(t)>>) /\ Len(<<Tag(t)>>) = 1 /\ <<Tag(t)>>[1] = Tag(t)
    BY TextTuples
  <1>2. StrChr(<<Tag(t)>>, 1, At) = 0
    BY <1>1, StrChrNone, TokensDiffer
  <1> QED BY <1>2 DEF srs_forward, Fail

\* What the parser answers to an SRS0 address whose three separators are found.
LEMMA ParsedS0 ==
  ASSUME NEW srs, NEW w, NEW now, NEW i, NEW j, NEW k,
         HasTag(w, "SRS0"), ~HasTag(w, "SRS1"),
         StrChr(w, 3, Eq) = i, StrChr(w, i + 1, Eq) = j,
         StrChr(w, j + 1, Eq) = k, i # 0, j # 0, k # 0
  PROVE  LET ans == srs_parse_guarded(srs, w, now)
         IN  /\ ans.ret = "SRS_SUCCESS" =>
                  ans.out = CString(From(w, k + 1) \o <<At>>
                                      \o SubSeq(w, j + 1, k - 1))
             /\ ans.ret \notin {"SRS_ENOTSRSADDRESS", "SIGSEGV"}
PROOF
  <1> DEFINE hash  == SubSeq(w, 3, i - 1)
             stamp == SubSeq(w, i + 1, j - 1)
             host  == SubSeq(w, j + 1, k - 1)
             user  == From(w, k + 1)
             fresh == srs_timestamp_check(srs, stamp, now)
             valid == srs_hash_check(srs, hash, stamp \o host \o user)
             text  == user \o <<At>> \o host
  <1>1. srs_parse_guarded(srs, w, now) = srs_parse_shortcut(srs, w, now)
    BY DEF srs_parse_guarded
  <1>2. srs_parse_shortcut(srs, w, now) =
          IF fresh # "SRS_SUCCESS" THEN Fail(fresh)
          ELSE IF valid # "SRS_SUCCESS" THEN Fail(valid)
          ELSE Done(text)
    BY Zenon DEF srs_parse_shortcut
  <1>3. /\ fresh \notin {"SRS_ENOTSRSADDRESS", "SIGSEGV"}
        /\ valid \notin {"SRS_ENOTSRSADDRESS", "SIGSEGV"}
    BY DEF srs_timestamp_check, srs_hash_check
  <1> HIDE DEF fresh, valid, text
  <1>4. LET ans == srs_parse_shortcut(srs, w, now)
        IN  /\ ans.ret = "SRS_SUCCESS" => ans.out = CString(text)
            /\ ans.ret \notin {"SRS_ENOTSRSADDRESS", "SIGSEGV"}
    BY <1>2, <1>3 DEF Fail, Done
  <1> QED BY <1>1, <1>4 DEF text

\* What it answers to an SRS1 address whose two separators are found.
LEMMA ParsedS1 ==
  ASSUME NEW srs, NEW w, NEW now, NEW i, NEW j, HasTag(w, "SRS1"),
         StrChr(w, 3, Eq) = i, StrChr(w, i + 1, Eq) = j, i # 0, j # 0
  PROVE  LET ans   == srs_parse_guarded(srs, w, now)
             host  == SubSeq(w, i + 1, j - 1)
             user  == From(w, j + 1)
             valid == srs_hash_check(srs, SubSeq(w, 3, i - 1), host \o user)
         IN  /\ ans.ret = "SRS_SUCCESS" =>
                  /\ ans.out = CString(<<Tag("SRS0")>> \o user \o <<At>> \o host)
                  /\ valid = "SRS_SUCCESS"
             /\ ans.ret \notin {"SRS_ENOTSRSADDRESS", "SIGSEGV"}
PROOF
  <1> DEFINE host  == SubSeq(w, i + 1, j - 1)
             user  == From(w, j + 1)
             valid == srs_hash_check(srs, SubSeq(w, 3, i - 1), host \o user)
             text  == <<Tag("SRS0")>> \o user \o <<At>> \o host
  <1>1. srs_parse_guarded(srs, w, now) =
          IF valid # "SRS_SUCCESS" THEN Fail(valid) ELSE Done(text)
    BY Zenon DEF srs_parse_guarded
  <1>2. valid \notin {"SRS_ENOTSRSADDRESS", "SIGSEGV"}
    BY DEF srs_hash_check
  <1> HIDE DEF valid, text
  <1>3. LET ans == srs_parse_guarded(srs, w, now)
        IN  /\ ans.ret = "SRS_SUCCESS" =>
                 ans.out = CString(text) /\ valid = "SRS_SUCCESS"
            /\ ans.ret \notin {"SRS_ENOTSRSADDRESS", "SIGSEGV"}
    BY <1>1, <1>2 DEF Fail, Done
  <1> QED BY <1>3 DEF text, valid

\* Where srs_reverse() and the parser find the parts of an SRS0 address.
LEMMA S0Opened ==
  ASSUME NEW s, NEW w, NEW r, NEW u, NEW h,
         Local(u), S0User(w, u, h), Addr(s, w, r)
  PROVE  /\ StrChr(s, 1, At) # 0 /\ Before(s, StrChr(s, 1, At)) = w
         /\ SRS_IS_SRS_ADDRESS(s)
         /\ HasTag(w, "SRS0") /\ ~HasTag(w, "SRS1")
         /\ StrChr(w, 3, Eq) = 4 /\ StrChr(w, 4 + 1, Eq) = 7
         /\ StrChr(w, 7 + 1, Eq) = 9
         /\ SubSeq(w, 7 + 1, 9 - 1) = <<Name(h)>>
         /\ From(w, 9 + 1) = u
PROOF
  <1>1. /\ IsText(u) /\ Len(u) \in Nat /\ Len(u) > 0
        /\ IsText(w) /\ Len(w) = Len(u) + 9 /\ Clean(w) /\ Local(w)
    BY TextIndex DEF S0User, Local, Clean
  <1>2. /\ StrChr(s, 1, At) # 0 /\ Before(s, StrChr(s, 1, At)) = w
    BY <1>1, AddrParts
  <1>3. SRS_IS_SRS_ADDRESS(s)
    BY <1>1 DEF SRS_IS_SRS_ADDRESS, Tagged, HasTag, Addr, S0User
  <1>4. HasTag(w, "SRS0") /\ ~HasTag(w, "SRS1")
    BY <1>1, TagsEqual DEF HasTag, S0User
  <1>5. StrChr(w, 3, Eq) = 4
    <2>1. w[3] # Eq /\ w[4] = Eq
      BY DEF S0User
    <2> QED BY <1>1, <2>1, StrChrFirst
  <1>6. StrChr(w, 4 + 1, Eq) = 7
    <2>1. w[5] # Eq /\ w[6] # Eq /\ w[7] = Eq
      BY DEF S0User
    <2>2. \A k \in (4 + 1)..(7 - 1) : w[k] # Eq
      BY <2>1
    <2> QED BY <1>1, <2>1, <2>2, StrChrFirst
  <1>7. StrChr(w, 7 + 1, Eq) = 9
    <2>1. w[8] # Eq /\ w[9] = Eq
      BY TokensDiffer DEF S0User
    <2>2. \A k \in (7 + 1)..(9 - 1) : w[k] # Eq
      BY <2>1
    <2> QED BY <1>1, <2>1, <2>2, StrChrFirst
  <1>8. SubSeq(w, 7 + 1, 9 - 1) = <<Name(h)>>
    <2>1. /\ IsText(SubSeq(w, 8, 8)) /\ Len(SubSeq(w, 8, 8)) = 1
          /\ SubSeq(w, 8, 8)[1] = w[8]
      BY <1>1, SingleSub
    <2>2. w[8] = Name(h)
      BY DEF S0User
    <2>3. SubSeq(w, 8, 8) = <<Name(h)>>
      BY <2>1, <2>2, OneToken
    <2> QED BY <2>3
  <1>9. From(w, 9 + 1) = u
    <2> DEFINE t == From(w, 10)
    <2>1. Clean(w) /\ 10 \in Nat \ {0} /\ 10 <= Len(w) + 1
      BY <1>1
    <2>2. /\ Clean(From(w, 10)) /\ Len(From(w, 10)) = Len(w) - 10 + 1
          /\ \A k \in 1..(Len(w) - 10 + 1) : From(w, 10)[k] = w[10 + k - 1]
      BY ONLY <2>1, CleanSuffix
    <2> HIDE DEF t
    <2>3. \A k \in 1..Len(u) : 10 + k - 1 = 9 + k
      BY <1>1
    <2>4. Len(t) = Len(u) /\ \A k \in 1..Len(u) : t[k] = w[9 + k]
      BY <1>1, <2>2, <2>3 DEF t
    <2>5. \A k \in 1..Len(u) : t[k] = u[k]
      BY <2>4 DEF S0User
    <2>6. t = u
      BY <1>1, <2>2, <2>4, <2>5, TextEqual DEF Clean, t
    <2> QED BY <2>6 DEF t
  <1> QED BY <1>2, <1>3, <1>4, <1>5, <1>6, <1>7, <1>8, <1>9

\* Reversal takes an SRS0 address back to the address it was made from.
LEMMA ReverseS0 ==
  ASSUME NEW s, NEW w, NEW r, NEW o, NEW u, NEW h,
         Local(u), Addr(o, u, h), S0User(w, u, h), Addr(s, w, r),
         NEW srs, NEW buflen, NEW now
  PROVE  LET ans == srs_reverse(srs, buflen, s, now)
         IN  /\ ans.ret = "SRS_SUCCESS" => ans.out = o
             /\ ans.ret \notin {"SRS_ENOTSRSADDRESS", "SIGSEGV"}
PROOF
  <1>1. IsText(u)
    BY DEF Local, Clean
  <1>2. /\ StrChr(s, 1, At) # 0 /\ Before(s, StrChr(s, 1, At)) = w
        /\ SRS_IS_SRS_ADDRESS(s)
    BY S0Opened
  <1>4. /\ HasTag(w, "SRS0") /\ ~HasTag(w, "SRS1")
        /\ StrChr(w, 3, Eq) = 4 /\ StrChr(w, 4 + 1, Eq) = 7
        /\ StrChr(w, 7 + 1, Eq) = 9
    BY S0Opened
  <1>8. SubSeq(w, 7 + 1, 9 - 1) = <<Name(h)>> /\ From(w, 9 + 1) = u
    BY S0Opened
  <1>10. CString(Printed(u, h)) = o
    BY <1>1, PrintedAddr, AddrUnique, AddrParts
  <1>11. LET ans == srs_parse_guarded(srs, w, now)
         IN  /\ ans.ret = "SRS_SUCCESS" =>
                  ans.out = CString(From(w, 9 + 1) \o <<At>>
                                      \o SubSeq(w, 7 + 1, 9 - 1))
             /\ ans.ret \notin {"SRS_ENOTSRSADDRESS", "SIGSEGV"}
    BY ONLY <1>4, ParsedS0
  <1>12. From(w, 9 + 1) \o <<At>> \o SubSeq(w, 7 + 1, 9 - 1) = Printed(u, h)
    BY <1>8, Zenon DEF Printed
  <1>13. LET ans == srs_parse_guarded(srs, w, now)
         IN  /\ ans.ret = "SRS_SUCCESS" => ans.out = o
             /\ ans.ret \notin {"SRS_ENOTSRSADDRESS", "SIGSEGV"}
    BY <1>10, <1>11, <1>12, Zenon
  <1> QED BY <1>2, <1>13 DEF srs_reverse, Fail

\* Where srs_reverse() and the parser find the parts of an SRS1 address.
LEMMA S1Opened ==
  ASSUME NEW s, NEW w, NEW r, NEW x, NEW a,
         Local(x), Tagged(x, "SRS0"), Len(x) >= 2, S1User(w, x, a), Addr(s, w, r)
  PROVE  /\ StrChr(s, 1, At) # 0 /\ Before(s, StrChr(s, 1, At)) = w
         /\ SRS_IS_SRS_ADDRESS(s)
         /\ HasTag(w, "SRS1")
         /\ StrChr(w, 3, Eq) = 4 /\ StrChr(w, 4 + 1, Eq) = 6
         /\ SubSeq(w, 4 + 1, 6 - 1) = <<Name(a)>>
         /\ <<Tag("SRS0")>> \o From(w, 6 + 1) = x
         /\ From(w, 6 + 1) = From(x, 2)
PROOF
  <1>1. /\ IsText(x) /\ Len(x) \in Nat
        /\ IsText(w) /\ Len(w) = Len(x) + 5 /\ Clean(w) /\ Local(w)
    BY TextIndex DEF S1User, Local, Clean
  <1>2. /\ StrChr(s, 1, At) # 0 /\ Before(s, StrChr(s, 1, At)) = w
    BY <1>1, AddrParts
  <1>3. SRS_IS_SRS_ADDRESS(s)
    BY <1>1 DEF SRS_IS_SRS_ADDRESS, Tagged, HasTag, Addr, S1User
  <1>4. HasTag(w, "SRS1")
    BY <1>1 DEF HasTag, S1User
  <1>5. StrChr(w, 3, Eq) = 4
    <2>1. w[3] # Eq /\ w[4] = Eq
      BY DEF S1User
    <2> QED BY <1>1, <2>1, StrChrFirst
  <1>6. StrChr(w, 4 + 1, Eq) = 6
    <2>1. w[5] # Eq /\ w[6] = Eq
      BY TokensDiffer DEF S1User
    <2>2. \A k \in (4 + 1)..(6 - 1) : w[k] # Eq
      BY <2>1
    <2> QED BY <1>1, <2>1, <2>2, StrChrFirst
  <1>7. SubSeq(w, 4 + 1, 6 - 1) = <<Name(a)>>
    <2>1. /\ IsText(SubSeq(w, 5, 5)) /\ Len(SubSeq(w, 5, 5)) = 1
          /\ SubSeq(w, 5, 5)[1] = w[5]
      BY <1>1, SingleSub
    <2>2. w[5] = Name(a)
      BY DEF S1User
    <2>3. SubSeq(w, 5, 5) = <<Name(a)>>
      BY <2>1, <2>2, OneToken
    <2> QED BY <2>3
  <1>8. <<Tag("SRS0")>> \o From(w, 6 + 1) = x
    <2> DEFINE t == From(w, 7)
    <2>0. Clean(w) /\ 7 \in Nat \ {0} /\ 7 <= Len(w) + 1
      BY <1>1
    <2>1. /\ Clean(t) /\ Len(t) = Len(w) - 7 + 1
          /\ \A k \in 1..(Len(w) - 7 + 1) : t[k] = w[7 + k - 1]
      BY ONLY <2>0, CleanSuffix
    <2> HIDE DEF t
    <2>2. Len(t) = Len(x) - 1 /\ IsText(t)
      BY <1>1, <2>1 DEF Clean
    <2>3. \A k \in 2..Len(x) : t[k - 1] = x[k]
      <3> SUFFICES ASSUME NEW k \in 2..Len(x) PROVE t[k - 1] = x[k]
        OBVIOUS
      <3>1. k - 1 \in 1..(Len(w) - 7 + 1) /\ 7 + (k - 1) - 1 = 5 + k
        BY <1>1
      <3>2. t[k - 1] = w[5 + k]
        BY <2>1, <3>1
      <3> QED BY <3>2 DEF S1User
    <2> DEFINE tag == <<Tag("SRS0")>>
               y   == tag \o t
    <2>4. IsText(tag) /\ Len(tag) = 1 /\ tag[1] = Tag("SRS0")
      BY TextTuples
    <2> HIDE DEF tag
    <2>5. /\ IsText(y) /\ Len(y) = Len(tag) + Len(t)
          /\ \A k \in 1..Len(tag) : y[k] = tag[k]
          /\ \A k \in 1..Len(t) : y[Len(tag) + k] = t[k]
      <3>1. IsText(tag) /\ IsText(t)
        BY <2>2, <2>4
      <3> QED BY ONLY <3>1, TextConcat DEF y
    <2> HIDE DEF y
    <2>6. Len(y) = Len(x) /\ y[1] = x[1]
      BY <1>1, <2>2, <2>4, <2>5 DEF Tagged, HasTag
    <2>7. \A k \in 2..Len(x) : y[k] = x[k]
      <3> SUFFICES ASSUME NEW k \in 2..Len(x) PROVE y[k] = x[k]
        OBVIOUS
      <3>1. k - 1 \in 1..Len(t) /\ Len(tag) + (k - 1) = k
        BY <1>1, <2>2, <2>4
      <3>2. y[k] = t[k - 1]
        BY <2>5, <3>1
      <3> QED BY <3>2, <2>3
    <2>8. \A k \in 1..Len(y) : y[k] = x[k]
      BY <1>1, <2>6, <2>7
    <2>9. y = x
      BY <1>1, <2>5, <2>6, <2>8, TextEqual
    <2> QED BY <2>9 DEF y, tag, t
  <1>9. From(w, 6 + 1) = From(x, 2)
    <2>1. /\ Clean(w) /\ 7 \in Nat \ {0} /\ 7 <= Len(w) + 1
          /\ Clean(x) /\ 2 \in Nat \ {0} /\ 2 <= Len(x) + 1
      BY <1>1 DEF Local
    <2>2. /\ Clean(From(w, 7)) /\ Len(From(w, 7)) = Len(w) - 7 + 1
          /\ \A k \in 1..(Len(w) - 7 + 1) : From(w, 7)[k] = w[7 + k - 1]
      BY ONLY <2>1, CleanSuffix
    <2>3. /\ Clean(From(x, 2)) /\ Len(From(x, 2)) = Len(x) - 2 + 1
          /\ \A k \in 1..(Len(x) - 2 + 1) : From(x, 2)[k] = x[2 + k - 1]
      BY ONLY <2>1, CleanSuffix
    <2>4. PICK y, z : y = From(w, 7) /\ z = From(x, 2)
      OBVIOUS
    <2>5. ASSUME NEW k \in 1..(Len(x) - 1) PROVE y[k] = z[k]
      <3>1. /\ k \in 1..(Len(w) - 7 + 1) /\ k \in 1..(Len(x) - 2 + 1)
            /\ 2 + k - 1 \in 2..Len(x) /\ 7 + k - 1 = 5 + (2 + k - 1)
        BY <1>1
      <3>2. y[k] = w[5 + (2 + k - 1)] /\ z[k] = x[2 + k - 1]
        BY <2>2, <2>3, <2>4, <3>1
      <3> QED BY <3>1, <3>2 DEF S1User
    <2>6. /\ IsText(y) /\ IsText(z) /\ Len(y) = Len(z)
          /\ Len(y) = Len(x) - 1
      BY <1>1, <2>2, <2>3, <2>4 DEF Clean
    <2>7. y = z
      BY <2>5, <2>6, TextEqual
    <2> QED BY <2>4, <2>7
  <1> QED BY <1>2, <1>3, <1>4, <1>5, <1>6, <1>7, <1>8, <1>9

\* Reversal takes an SRS1 address back to the SRS0 address it was made from.
LEMMA ReverseS1 ==
  ASSUME NEW s, NEW w, NEW r, NEW p, NEW x, NEW a,
         Local(x), Tagged(x, "SRS0"), Len(x) >= 2, Addr(p, x, a),
         S1User(w, x, a), Addr(s, w, r),
         NEW srs, NEW buflen, NEW now
  PROVE  LET ans == srs_reverse(srs, buflen, s, now)
         IN  /\ ans.ret = "SRS_SUCCESS" => ans.out = p
             /\ ans.ret \notin {"SRS_ENOTSRSADDRESS", "SIGSEGV"}
PROOF
  <1>1. IsText(x)
    BY DEF Local, Clean
  <1>2. /\ StrChr(s, 1, At) # 0 /\ Before(s, StrChr(s, 1, At)) = w
        /\ SRS_IS_SRS_ADDRESS(s)
    BY S1Opened
  <1>4. /\ HasTag(w, "SRS1")
        /\ StrChr(w, 3, Eq) = 4 /\ StrChr(w, 4 + 1, Eq) = 6
    BY S1Opened
  <1>7. /\ SubSeq(w, 4 + 1, 6 - 1) = <<Name(a)>>
        /\ <<Tag("SRS0")>> \o From(w, 6 + 1) = x
    BY S1Opened
  <1>9. CString(Printed(x, a)) = p
    BY <1>1, PrintedAddr, AddrUnique, AddrParts
  <1>10. LET ans == srs_parse_guarded(srs, w, now)
         IN  /\ ans.ret = "SRS_SUCCESS" =>
                  ans.out = CString(<<Tag("SRS0")>> \o From(w, 6 + 1) \o <<At>>
                                      \o SubSeq(w, 4 + 1, 6 - 1))
             /\ ans.ret \notin {"SRS_ENOTSRSADDRESS", "SIGSEGV"}
    BY ONLY <1>4, ParsedS1
  <1>11. <<Tag("SRS0")>> \o From(w, 6 + 1) \o <<At>> \o SubSeq(w, 4 + 1, 6 - 1)
           = Printed(x, a)
    BY <1>7, Zenon DEF Printed
  <1>12. LET ans == srs_parse_guarded(srs, w, now)
         IN  /\ ans.ret = "SRS_SUCCESS" => ans.out = p
             /\ ans.ret \notin {"SRS_ENOTSRSADDRESS", "SIGSEGV"}
    BY <1>9, <1>10, <1>11, Zenon
  <1> QED BY <1>2, <1>12 DEF srs_reverse, Fail

\* Nothing that srs_compile_guarded() makes of an SRS1 address is reversed.
LEMMA ReverseBroken ==
  ASSUME NEW s, NEW w, NEW r, Broken(w), Addr(s, w, r),
         NEW srs, Known(srs), NEW buflen, NEW now
  PROVE  srs_reverse(srs, buflen, s, now).ret
           \notin {"SRS_SUCCESS", "SRS_ENOTSRSADDRESS", "SIGSEGV"}
PROOF
  <1>1. /\ IsText(w) /\ Len(w) \in Nat /\ Len(w) >= 7 /\ Clean(w) /\ Local(w)
    BY TextIndex DEF Broken, Local, Clean
  <1>2. /\ StrChr(s, 1, At) # 0 /\ Before(s, StrChr(s, 1, At)) = w
    BY <1>1, AddrParts
  <1>3. SRS_IS_SRS_ADDRESS(s)
    BY <1>1 DEF SRS_IS_SRS_ADDRESS, Tagged, HasTag, Addr, Broken
  <1>4. HasTag(w, "SRS1")
    BY <1>1 DEF HasTag, Broken
  <1>5. StrChr(w, 3, Eq) = 4
    <2>1. w[3] # Eq /\ w[4] = Eq
      BY TokensDiffer DEF Broken
    <2> QED BY <1>1, <2>1, StrChrFirst
  <1>6. StrChr(w, 4 + 1, Eq) = 6
    <2>1. w[5] # Eq /\ w[6] = Eq
      BY DEF Broken
    <2>2. \A k \in (4 + 1)..(6 - 1) : w[k] # Eq
      BY <2>1
    <2> QED BY <1>1, <2>1, <2>2, StrChrFirst
  <1> DEFINE hash == SubSeq(w, 3, 4 - 1)
             host == SubSeq(w, 4 + 1, 6 - 1)
             user == From(w, 6 + 1)
             valid == srs_hash_check(srs, hash, host \o user)
  <1>7. hash = <<w[3]>>
    <2>1. /\ IsText(SubSeq(w, 3, 3)) /\ Len(SubSeq(w, 3, 3)) = 1
          /\ SubSeq(w, 3, 3)[1] = w[3]
      BY <1>1, SingleSub
    <2>2. SubSeq(w, 3, 3) = <<w[3]>>
      BY <2>1, OneToken
    <2> QED BY <2>2
  <1>8. IsText(host) /\ Len(host) = 1
    <2>1. /\ IsText(SubSeq(w, 5, 5)) /\ Len(SubSeq(w, 5, 5)) = 1
      BY <1>1, SingleSub
    <2> QED BY <2>1
  <1>9. IsText(user) /\ Len(user) = Len(w) - 6 /\ user[1] = w[7]
    <2>0. Clean(w) /\ 7 \in Nat \ {0} /\ 7 <= Len(w) + 1
      BY <1>1
    <2>1. /\ Clean(From(w, 7)) /\ Len(From(w, 7)) = Len(w) - 7 + 1
          /\ \A k \in 1..(Len(w) - 7 + 1) : From(w, 7)[k] = w[7 + k - 1]
      BY ONLY <2>0, CleanSuffix
    <2>2. From(w, 7)[1] = w[7] /\ Len(From(w, 7)) = Len(w) - 6
      BY <1>1, <2>1
    <2> QED BY <2>1, <2>2 DEF Clean
  <1> HIDE DEF hash, host, user
  <1>10. (host \o user)[2] = w[7]
    <2> DEFINE y == host \o user
    <2>1. /\ Len(y) = Len(host) + Len(user)
          /\ \A i \in 1..Len(user) : y[Len(host) + i] = user[i]
      <3>1. IsText(host) /\ IsText(user)
        BY <1>8, <1>9
      <3> QED BY ONLY <3>1, TextConcat DEF y
    <2> HIDE DEF y
    <2>2. 1 \in 1..Len(user) /\ Len(host) + 1 = 2
      BY <1>1, <1>8, <1>9
    <2>3. y[2] = w[7]
      BY <1>9, <2>1, <2>2
    <2> QED BY <2>3 DEF y
  <1>11. valid # "SRS_SUCCESS"
    <2> SUFFICES ASSUME NEW i \in 1..Len(srs.secrets),
                        hash = srs_hash_create_v(srs, i, host \o user)
                 PROVE  FALSE
      BY DEF srs_hash_check
    <2>1. <<w[3]>> = <<Hash(srs.secrets[i], host \o user, srs.hashlength)>>
      BY <1>7 DEF srs_hash_create_v, Known
    <2>2. w[3] = Hash(srs.secrets[i], host \o user, srs.hashlength)
      BY <2>1
    <2>3. PICK key, data, len : w[3] = Hash(key, data, len) /\ data[2] = Eq
      BY DEF Broken
    <2> DEFINE both == host \o user
    <2> HIDE DEF both
    <2>4. Hash(srs.secrets[i], both, srs.hashlength) = Hash(key, data, len)
      BY <2>2, <2>3, Zenon DEF both
    <2> DEFINE mine == Hash(srs.secrets[i], both, srs.hashlength)
               his  == Hash(key, data, len)
    <2>5. both = data
      <3>1. mine.data = both /\ his.data = data
        BY DEF Hash
      <3>2. mine = his
        BY <2>4
      <3> HIDE DEF mine, his
      <3> QED BY ONLY <3>1, <3>2
    <2> QED BY <2>3, <2>5, <1>10 DEF Broken, both
  <1>12. srs_parse_guarded(srs, w, now).ret = valid
    BY <1>4, <1>5, <1>6, <1>11 DEF srs_parse_guarded, Fail, hash, host, user
  <1>13. valid \notin {"SRS_ENOTSRSADDRESS", "SIGSEGV"}
    BY DEF srs_hash_check
  <1> QED BY <1>2, <1>3, <1>11, <1>12, <1>13 DEF srs_reverse, Fail

\* Where strchr() may point.
LEMMA StrChrRange ==
  ASSUME NEW s, NEW i, NEW c, StrChr(s, i, c) # 0
  PROVE  StrChr(s, i, c) \in i..Len(s) /\ s[StrChr(s, i, c)] = c
  BY DEF StrChr

\* Forwarding reads through no NULL pointer.
LEMMA ForwardNeverCrashes ==
  ASSUME NEW srs, NEW buflen, NEW s, NEW alias, NEW now
  PROVE  srs_forward(srs, buflen, s, alias, now).ret # "SIGSEGV"
PROOF
  <1>1. \A user, host, al :
          /\ Shortcut(srs, buflen, host, user, al, now).ret # "SIGSEGV"
          /\ Guarded(srs, buflen, host, user, al).ret # "SIGSEGV"
    BY DEF Shortcut, Guarded, Fail, Done
  <1>2. \A user, host, al :
          srs_compile_shortcut(srs, buflen, host, user, al, now).ret # "SIGSEGV"
    BY <1>1, Zenon DEF srs_compile_shortcut, Fail
  <1> QED BY <1>1, <1>2 DEF srs_compile_guarded, srs_forward, Fail, Done

\* An address in which no hash of this library stands is never reversed, and
\* one that does not look like an SRS address is answered as such.
LEMMA ReverseForeign ==
  ASSUME NEW s, NEW u, NEW h, Local(u), Addr(s, u, h),
         \A i \in 1..Len(u) : u[i].kind # "hash",
         NEW srs, Known(srs), NEW buflen, NEW now
  PROVE  LET ans == srs_reverse(srs, buflen, s, now)
         IN  /\ ans.ret # "SRS_SUCCESS"
             /\ ~SRS_IS_SRS_ADDRESS(s) => ans.ret = "SRS_ENOTSRSADDRESS"
PROOF
  <1>1. Len(u) \in Nat /\ IsText(u)
    BY TextIndex DEF Local, Clean
  <1>2. StrChr(s, 1, At) # 0 /\ Before(s, StrChr(s, 1, At)) = u
    BY <1>1, AddrParts
  <1> DEFINE i    == StrChr(u, 3, Eq)
             hash == SubSeq(u, 3, i - 1)
  <1>3. ASSUME i # 0, NEW data, srs_hash_check(srs, hash, data) = "SRS_SUCCESS"
        PROVE  FALSE
    <2>1. PICK n \in 1..Len(srs.secrets) : hash = srs_hash_create_v(srs, n, data)
      BY <1>3 DEF srs_hash_check
    <2> DEFINE token == Hash(srs.secrets[n], data, srs.hashlength)
    <2>2. hash = <<token>>
      BY <2>1 DEF srs_hash_create_v, Known
    <2>3. token.kind = "hash"
      BY DEF Hash
    <2> HIDE DEF token
    <2>4. i \in 3..Len(u)
      BY <1>3, StrChrRange
    <2> HIDE DEF i
    <2> DEFINE j == i - 1
    <2>5. 3 \in Nat \ {0} /\ j \in Nat /\ j <= Len(u) /\ 3 <= j + 1
      BY <1>1, <2>4
    <2> HIDE DEF j
    <2>6. /\ Len(SubSeq(u, 3, j)) = j - 3 + 1
          /\ \A k \in 1..(j - 3 + 1) : SubSeq(u, 3, j)[k] = u[3 + k - 1]
      BY ONLY <1>1, <2>5, TextSub
    <2>7. Len(<<token>>) = 1 /\ <<token>>[1] = token
      OBVIOUS
    <2>8. j - 3 + 1 = 1 /\ SubSeq(u, 3, j)[1] = token
      BY <2>2, <2>6, <2>7 DEF j
    <2>10. u[3] = token
      <3>1. 1 \in 1..(j - 3 + 1) /\ 3 + 1 - 1 = 3
        BY <2>8
      <3>2. SubSeq(u, 3, j)[1] = u[3 + 1 - 1]
        BY <2>6, <3>1
      <3> QED BY <2>8, <3>1, <3>2
    <2>9. 3 \in 1..Len(u)
      BY <1>1, <2>4
    <2> QED BY <2>3, <2>9, <2>10
  <1>4. srs_parse_guarded(srs, u, now).ret # "SRS_SUCCESS"
    <2>1. ASSUME HasTag(u, "SRS1")
          PROVE  srs_parse_guarded(srs, u, now).ret # "SRS_SUCCESS"
      BY <1>3, <2>1 DEF srs_parse_guarded, Fail
    <2>2. ASSUME ~HasTag(u, "SRS1")
          PROVE  srs_parse_guarded(srs, u, now).ret # "SRS_SUCCESS"
      <3>1. srs_parse_shortcut(srs, u, now).ret # "SRS_SUCCESS"
        BY <1>3 DEF srs_parse_shortcut, Fail
      <3> QED BY <2>2, <3>1 DEF srs_parse_guarded
    <2> QED BY <2>1, <2>2
  <1> QED BY <1>2, <1>4 DEF srs_reverse, Fail
-----------------------------------------------------------------------------
(* What is written, and the room it takes *)

\* The length that srs_compile_shortcut() computes is that of what it prints.
LEMMA ShortcutFits ==
  ASSUME NEW srs, Known(srs), NEW host, Measured(host), NEW user, Measured(user),
         NEW alias, Measured(alias), NEW now, NEW buflen \in Int,
         Shortcut(srs, buflen, host, user, alias, now).ret = "SRS_SUCCESS"
  PROVE  LET out == Shortcut(srs, buflen, host, user, alias, now).out
         IN  Measured(out) /\ StrLen(out) < buflen
PROOF
  <1> DEFINE st == srs_timestamp_create(now)
             hh == Hash(srs.secrets[1], st \o host \o user, srs.hashlength)
             len == 4 + 1 + srs.hashlength + 1 + SRS_TIME_SIZE + 1
                      + StrLen(host) + 1 + StrLen(user) + 1 + StrLen(alias)
             x0 == <<Tag("SRS0"), srs.separator>>
             x1 == x0 \o <<hh>>
             x2 == x1 \o <<Eq>>
             x3 == x2 \o st
             x4 == x3 \o <<Eq>>
             x5 == x4 \o host
             x6 == x5 \o <<Eq>>
             x7 == x6 \o user
             x8 == x7 \o <<At>>
             x9 == x8 \o alias
  <1>1. /\ Shortcut(srs, buflen, host, user, alias, now).out = CString(x9)
        /\ ~(len >= buflen)
    BY DEF Shortcut, Fail, Done, srs_hash_create, srs_hash_create_v, Known
  <1>2. /\ StrLen(host) \in Nat /\ StrLen(user) \in Nat /\ StrLen(alias) \in Nat
        /\ srs.hashlength \in Nat /\ TokenLen(srs.separator) = 1
    BY StrLenType, TokenLens DEF Known
  <1>3. Measured(st) /\ StrLen(st) = 2
    BY TokenLens, StrLenTwo DEF srs_timestamp_create
  <1>4. TokenLen(hh) = srs.hashlength
    BY TokenLens
  <1> HIDE DEF st, hh
  <1>5. Measured(x0) /\ StrLen(x0) = 5
    BY <1>2, TokenLens, StrLenTwo
  <1> HIDE DEF x0
  <1>6. Measured(x1) /\ StrLen(x1) = 5 + srs.hashlength
    BY <1>2, <1>4, <1>5, StrLenPush
  <1> HIDE DEF x1
  <1>7. Measured(x2) /\ StrLen(x2) = StrLen(x1) + 1
    BY <1>6, TokenLens, StrLenPush
  <1> HIDE DEF x2
  <1>8. Measured(x3) /\ StrLen(x3) = StrLen(x2) + 2
    BY <1>3, <1>7, StrLenConcat
  <1> HIDE DEF x3
  <1>9. Measured(x4) /\ StrLen(x4) = StrLen(x3) + 1
    BY <1>8, TokenLens, StrLenPush
  <1> HIDE DEF x4
  <1>10. Measured(x5) /\ StrLen(x5) = StrLen(x4) + StrLen(host)
    BY <1>9, StrLenConcat
  <1> HIDE DEF x5
  <1>11. Measured(x6) /\ StrLen(x6) = StrLen(x5) + 1
    BY <1>10, TokenLens, StrLenPush
  <1> HIDE DEF x6
  <1>12. Measured(x7) /\ StrLen(x7) = StrLen(x6) + StrLen(user)
    BY <1>11, StrLenConcat
  <1> HIDE DEF x7
  <1>13. Measured(x8) /\ StrLen(x8) = StrLen(x7) + 1
    BY <1>12, TokenLens, StrLenPush
  <1> HIDE DEF x8
  <1>14. Measured(x9) /\ StrLen(x9) = StrLen(x8) + StrLen(alias)
    BY <1>13, StrLenConcat
  <1> HIDE DEF x9
  <1>15. StrLen(x9) = len
    BY <1>2, <1>6, <1>7, <1>8, <1>9, <1>10, <1>11, <1>12, <1>13, <1>14
       DEF SRS_TIME_SIZE
  <1>16. len \in Nat
    BY <1>2 DEF SRS_TIME_SIZE
  <1> HIDE DEF len
  <1>17. /\ Measured(CString(x9)) /\ StrLen(CString(x9)) <= StrLen(x9)
         /\ StrLen(CString(x9)) \in Nat
    BY <1>14, StrLenCString, StrLenType
  <1>18. StrLen(CString(x9)) < buflen
    BY <1>1, <1>15, <1>16, <1>17
  <1> QED BY <1>1, <1>17, <1>18

\* The length that srs_compile_guarded() computes is that of what it prints.
LEMMA GuardedFits ==
  ASSUME NEW srs, Known(srs), NEW host, Measured(host), NEW user, Measured(user),
         NEW alias, Measured(alias), NEW buflen \in Int,
         Guarded(srs, buflen, host, user, alias).ret = "SRS_SUCCESS"
  PROVE  LET out == Guarded(srs, buflen, host, user, alias).out
         IN  Measured(out) /\ StrLen(out) < buflen
PROOF
  <1> DEFINE hh == Hash(srs.secrets[1], host \o user, srs.hashlength)
             len == 4 + 1 + srs.hashlength + 1 + StrLen(host) + 1 + StrLen(user)
                      + 1 + StrLen(alias)
             x0 == <<Tag("SRS1"), srs.separator>>
             x1 == x0 \o <<hh>>
             x2 == x1 \o <<Eq>>
             x3 == x2 \o host
             x4 == x3 \o <<Eq>>
             x5 == x4 \o user
             x6 == x5 \o <<At>>
             x7 == x6 \o alias
  <1>1. /\ Guarded(srs, buflen, host, user, alias).out = CString(x7)
        /\ ~(len >= buflen)
    BY DEF Guarded, Fail, Done, srs_hash_create, srs_hash_create_v, Known
  <1>2. /\ StrLen(host) \in Nat /\ StrLen(user) \in Nat /\ StrLen(alias) \in Nat
        /\ srs.hashlength \in Nat /\ TokenLen(srs.separator) = 1
    BY StrLenType, TokenLens DEF Known
  <1>3. TokenLen(hh) = srs.hashlength
    BY TokenLens
  <1> HIDE DEF hh
  <1>4. Measured(x0) /\ StrLen(x0) = 5
    BY <1>2, TokenLens, StrLenTwo
  <1> HIDE DEF x0
  <1>5. Measured(x1) /\ StrLen(x1) = 5 + srs.hashlength
    BY <1>2, <1>3, <1>4, StrLenPush
  <1> HIDE DEF x1
  <1>6. Measured(x2) /\ StrLen(x2) = StrLen(x1) + 1
    BY <1>5, TokenLens, StrLenPush
  <1> HIDE DEF x2
  <1>7. Measured(x3) /\ StrLen(x3) = StrLen(x2) + StrLen(host)
    BY <1>6, StrLenConcat
  <1> HIDE DEF x3
  <1>8. Measured(x4) /\ StrLen(x4) = StrLen(x3) + 1
    BY <1>7, TokenLens, StrLenPush
  <1> HIDE DEF x4
  <1>9. Measured(x5) /\ StrLen(x5) = StrLen(x4) + StrLen(user)
    BY <1>8, StrLenConcat
  <1> HIDE DEF x5
  <1>10. Measured(x6) /\ StrLen(x6) = StrLen(x5) + 1
    BY <1>9, TokenLens, StrLenPush
  <1> HIDE DEF x6
  <1>11. Measured(x7) /\ StrLen(x7) = StrLen(x6) + StrLen(alias)
    BY <1>10, StrLenConcat
  <1> HIDE DEF x7
  <1>12. StrLen(x7) = len
    BY <1>2, <1>5, <1>6, <1>7, <1>8, <1>9, <1>10, <1>11
  <1>13. len \in Nat
    BY <1>2
  <1> HIDE DEF len
  <1>14. /\ Measured(CString(x7)) /\ StrLen(CString(x7)) <= StrLen(x7)
         /\ StrLen(CString(x7)) \in Nat
    BY <1>11, StrLenCString, StrLenType
  <1>15. StrLen(CString(x7)) < buflen
    BY <1>1, <1>12, <1>13, <1>14
  <1> QED BY <1>1, <1>14, <1>15
\* What a pointer into a string points at is measured and no longer.
LEMMA FromFits ==
  ASSUME NEW s, Measured(s), NEW i \in Nat \ {0}
  PROVE  Measured(From(s, i)) /\ StrLen(From(s, i)) <= StrLen(s)
PROOF
  <1>1. Len(s) \in Nat /\ Len(s) <= Len(s)
    BY TextIndex DEF Measured
  <1> QED BY <1>1, StrLenPart DEF From

\* What srs_forward() hands to the compilers is measured.
LEMMA CompileFits ==
  ASSUME NEW srs, Known(srs), NEW host, Measured(host), NEW user, Measured(user),
         NEW alias, Measured(alias), NEW now, NEW buflen \in Int,
         srs_compile_guarded(srs, buflen, host, user, alias, now).ret
           = "SRS_SUCCESS"
  PROVE  LET out == srs_compile_guarded(srs, buflen, host, user, alias, now).out
         IN  Measured(out) /\ StrLen(out) < buflen
PROOF
  <1>1. PICK past : past = PastTag(user, host)
    OBVIOUS
  <1>2. Measured(past)
    <2>1. Measured(From(user, 3))
      BY FromFits
    <2> QED BY <1>1, <2>1 DEF PastTag
  <1>3. PICK sep : sep = StrChr(past, 1, Eq)
    OBVIOUS
  <1>4. sep # 0 => Measured(From(past, sep))
    <2> SUFFICES ASSUME sep # 0 PROVE Measured(From(past, sep))
      OBVIOUS
    <2>1. sep \in 1..Len(past) /\ Len(past) \in Nat
      BY <1>2, <1>3, TextIndex DEF StrChr, Measured
    <2> QED BY <1>2, <2>1, FromFits
  <1>5. Measured(From(user, 2))
    BY FromFits
  <1>6. \A h, u : Measured(h) /\ Measured(u) =>
          /\ Guarded(srs, buflen, h, u, alias).ret = "SRS_SUCCESS" =>
               /\ Measured(Guarded(srs, buflen, h, u, alias).out)
               /\ StrLen(Guarded(srs, buflen, h, u, alias).out) < buflen
          /\ Shortcut(srs, buflen, h, u, alias, now).ret = "SRS_SUCCESS" =>
               /\ Measured(Shortcut(srs, buflen, h, u, alias, now).out)
               /\ StrLen(Shortcut(srs, buflen, h, u, alias, now).out) < buflen
    BY GuardedFits, ShortcutFits
  <1>7. \A code : code # "SRS_SUCCESS" => Fail(code).ret # "SRS_SUCCESS"
    BY DEF Fail
  <1>8. \/ /\ sep # 0
           /\ srs_compile_guarded(srs, buflen, host, user, alias, now)
                = Guarded(srs, buflen, past, From(past, sep), alias)
        \/ srs_compile_guarded(srs, buflen, host, user, alias, now)
             = Guarded(srs, buflen, host, From(user, 2), alias)
        \/ srs_compile_guarded(srs, buflen, host, user, alias, now)
             = Shortcut(srs, buflen, host, user, alias, now)
        \/ /\ sep # 0
           /\ srs_compile_guarded(srs, buflen, host, user, alias, now)
                = Shortcut(srs, buflen, past, From(past, sep), alias, now)
    BY <1>1, <1>3, <1>7 DEF srs_compile_guarded, srs_compile_shortcut
  <1> QED BY <1>2, <1>4, <1>5, <1>6, <1>8

\* Whatever srs_forward() writes, with its terminator, fits into the buffer.
LEMMA ForwardFits ==
  ASSUME NEW srs, Known(srs), NEW sender, Measured(sender), NEW r, NEW now,
         NEW buflen \in Int,
         srs_forward(srs, buflen, sender, Aliased(r), now).ret = "SRS_SUCCESS"
  PROVE  LET out == srs_forward(srs, buflen, sender, Aliased(r), now).out
         IN  Measured(out) /\ StrLen(out) < buflen
PROOF
  <1>1. PICK at : at = StrChr(sender, 1, At)
    OBVIOUS
  <1>2. Domain(Aliased(r)) = <<Name(r)>> /\ Measured(<<Name(r)>>)
    BY DomainOfAlias, StrLenOne, TokenLens, NameLenAssumption
  <1>3. at # 0
    BY <1>1 DEF srs_forward, Fail
  <1>4. at \in 1..Len(sender)
    BY <1>1, <1>3 DEF StrChr
  <1>5. Measured(Before(sender, at)) /\ Measured(From(sender, at + 1))
    BY <1>4, StrLenSplit
  <1>6. \/ /\ srs_forward(srs, buflen, sender, Aliased(r), now) = Done(sender)
           /\ ~(StrLen(sender) >= buflen)
        \/ srs_forward(srs, buflen, sender, Aliased(r), now)
             = srs_compile_guarded(srs, buflen, From(sender, at + 1),
                                   Before(sender, at), <<Name(r)>>, now)
    BY <1>1, <1>2, <1>3 DEF srs_forward, Fail
  <1>7. /\ Measured(CString(sender)) /\ StrLen(CString(sender)) <= StrLen(sender)
        /\ StrLen(sender) \in Nat /\ StrLen(CString(sender)) \in Nat
        /\ Done(sender).out = CString(sender)
    BY StrLenCString, StrLenType DEF Done
  <1> QED BY <1>2, <1>5, <1>6, <1>7, CompileFits

\* What the parsers print is no longer than what they read.
LEMMA ParseFits ==
  ASSUME NEW srs, NEW w, Measured(w), NEW now,
         srs_parse_guarded(srs, w, now).ret = "SRS_SUCCESS"
  PROVE  LET out == srs_parse_guarded(srs, w, now).out
         IN  Measured(out) /\ StrLen(out) <= StrLen(w)
PROOF
  <1>0. Len(w) \in Nat /\ IsText(w) /\ StrLen(w) \in Nat
    BY TextIndex, StrLenType DEF Measured
  <1>1. CASE ~HasTag(w, "SRS1")
    <2>1. PICK i, j, k : /\ i = StrChr(w, 3, Eq) /\ j = StrChr(w, i + 1, Eq)
                         /\ k = StrChr(w, j + 1, Eq)
      OBVIOUS
    <2>2. PICK user, host : user = From(w, k + 1) /\ host = SubSeq(w, j + 1, k - 1)
      OBVIOUS
    <2>3. /\ i # 0 /\ j # 0 /\ k # 0
          /\ srs_parse_guarded(srs, w, now) = Done(user \o <<At>> \o host)
      BY <1>1, <2>1, <2>2 DEF srs_parse_guarded, srs_parse_shortcut, Fail
    <2>4. i \in 3..Len(w) /\ j \in (i + 1)..Len(w) /\ k \in (j + 1)..Len(w)
          /\ w[k] = Eq
      BY <2>1, <2>3, StrChrRange
    <2>5. /\ k \in 1..Len(w) /\ j \in Nat /\ k - 1 \in Nat /\ j <= k - 1
          /\ k - 1 <= Len(w) /\ j + 1 \in Nat \ {0} /\ k \in Nat /\ k <= Len(w)
      BY <1>0, <2>4
    <2>6. PICK f : Ruler(w, f) /\ StrLen(w) = f[Len(w)]
      BY StrLenRuler
    <2>7. Measured(host) /\ StrLen(host) = f[k - 1] - f[j]
      BY <2>2, <2>5, <2>6, StrLenSub
    <2>8. Measured(user) /\ StrLen(user) = f[Len(w)] - f[k]
      BY <1>0, <2>2, <2>5, <2>6, StrLenSub DEF From
    <2>9. /\ f[k] = f[k - 1] + 1 /\ f[j] \in Nat /\ f[k] \in Nat
          /\ f[k - 1] \in Nat /\ f[Len(w)] \in Nat
      BY <1>0, <2>4, <2>5, <2>6, TokenLens DEF Ruler
    <2>10. /\ Measured(user \o <<At>>)
           /\ StrLen(user \o <<At>>) = StrLen(user) + 1
      BY <2>8, TokenLens, StrLenPush
    <2>11. PICK z : z = user \o <<At>> \o host
      OBVIOUS
    <2>12. Measured(z) /\ StrLen(z) = (StrLen(user) + 1) + StrLen(host)
      BY <2>7, <2>10, <2>11, StrLenConcat
    <2>13. StrLen(z) <= StrLen(w)
      BY <2>6, <2>7, <2>8, <2>9, <2>12
    <2>14. /\ Measured(CString(z)) /\ StrLen(CString(z)) <= StrLen(z)
           /\ StrLen(CString(z)) \in Nat /\ StrLen(z) \in Nat
      BY <2>12, StrLenCString, StrLenType
    <2>15. srs_parse_guarded(srs, w, now).out = CString(z)
      BY <2>3, <2>11 DEF Done
    <2> QED BY <1>0, <2>13, <2>14, <2>15
  <1>2. CASE HasTag(w, "SRS1")
    <2>1. PICK i, j : i = StrChr(w, 3, Eq) /\ j = StrChr(w, i + 1, Eq)
      OBVIOUS
    <2>2. PICK user, host : user = From(w, j + 1) /\ host = SubSeq(w, i + 1, j - 1)
      OBVIOUS
    <2>3. /\ i # 0 /\ j # 0
          /\ srs_parse_guarded(srs, w, now)
               = Done(<<Tag("SRS0")>> \o user \o <<At>> \o host)
      BY <1>2, <2>1, <2>2 DEF srs_parse_guarded, Fail
    <2>4. i \in 3..Len(w) /\ j \in (i + 1)..Len(w) /\ w[j] = Eq
      BY <2>1, <2>3, StrChrRange
    <2>5. /\ j \in 1..Len(w) /\ i \in Nat /\ j - 1 \in Nat /\ i <= j - 1
          /\ j - 1 <= Len(w) /\ j \in Nat /\ j <= Len(w) /\ 1 \in 1..Len(w)
          /\ 1 <= i /\ i <= Len(w) /\ 1 - 1 = 0
      BY <1>0, <2>4
    <2>6. PICK f : Ruler(w, f) /\ StrLen(w) = f[Len(w)]
      BY StrLenRuler
    <2>7. Measured(host) /\ StrLen(host) = f[j - 1] - f[i]
      BY <2>2, <2>5, <2>6, StrLenSub
    <2>8. Measured(user) /\ StrLen(user) = f[Len(w)] - f[j]
      BY <1>0, <2>2, <2>5, <2>6, StrLenSub DEF From
    <2>9. /\ f[j] = f[j - 1] + 1 /\ f[j] \in Nat /\ f[i] \in Nat
          /\ f[j - 1] \in Nat /\ f[Len(w)] \in Nat
      BY <1>0, <2>4, <2>5, <2>6, TokenLens DEF Ruler
    <2>10. f[1] = 4 /\ f[1] <= f[i]
      <3>1. w[1] = Tag("SRS1")
        BY <1>2 DEF HasTag
      <3>2. f[1] = f[1 - 1] + TokenLen(w[1]) /\ f[0] = 0
        BY <2>5, <2>6 DEF Ruler
      <3>3. f[1] = 4
        BY <3>1, <3>2, TokenLens
      <3>4. 1 \in 0..Len(w) /\ i \in 1..Len(w)
        BY <1>0, <2>5
      <3> QED BY <2>6, <3>3, <3>4, RulerRises
    <2>11. PICK x, y, z : /\ x = <<Tag("SRS0")>> \o user /\ y = x \o <<At>>
                          /\ z = y \o host
      OBVIOUS
    <2>12. Measured(x) /\ StrLen(x) = 4 + StrLen(user)
      <3>1. Measured(<<Tag("SRS0")>>) /\ StrLen(<<Tag("SRS0")>>) = 4
        BY TokenLens, StrLenOne
      <3> QED BY <2>8, <2>11, <3>1, StrLenConcat
    <2>13. Measured(y) /\ StrLen(y) = StrLen(x) + 1
      <3>1. TokenLen(At) = 1 /\ TokenLen(At) \in Nat
        BY TokenLens
      <3>2. /\ Measured(x \o <<At>>)
            /\ StrLen(x \o <<At>>) = StrLen(x) + TokenLen(At)
        BY ONLY <2>12, <3>1, StrLenPush
      <3> QED BY ONLY <2>11, <3>1, <3>2
    <2>14. Measured(z) /\ StrLen(z) = StrLen(y) + StrLen(host)
      BY <2>7, <2>11, <2>13, StrLenConcat
    <2>15. StrLen(z) <= StrLen(w)
      BY <2>6, <2>7, <2>8, <2>9, <2>10, <2>12, <2>13, <2>14
    <2>16. /\ Measured(CString(z)) /\ StrLen(CString(z)) <= StrLen(z)
           /\ StrLen(CString(z)) \in Nat /\ StrLen(z) \in Nat
      BY <2>14, StrLenCString, StrLenType
    <2>17. srs_parse_guarded(srs, w, now).out = CString(z)
      BY <2>3, <2>11 DEF Done
    <2> QED BY <1>0, <2>15, <2>16, <2>17
  <1> QED BY <1>1, <1>2

\* Whatever srs_reverse() writes, with its terminator, fits into the buffer.
LEMMA ReverseFits ==
  ASSUME NEW srs, NEW sender, Measured(sender), NEW now, NEW buflen \in Int,
         srs_reverse(srs, buflen, sender, now).ret = "SRS_SUCCESS"
  PROVE  LET out == srs_reverse(srs, buflen, sender, now).out
         IN  Measured(out) /\ StrLen(out) < buflen
PROOF
  <1>1. PICK at : at = StrChr(sender, 1, At)
    OBVIOUS
  <1>2. PICK w : w = IF at = 0 THEN sender ELSE Before(sender, at)
    OBVIOUS
  <1>3. /\ ~(StrLen(sender) >= buflen)
        /\ srs_reverse(srs, buflen, sender, now) = srs_parse_guarded(srs, w, now)
    BY <1>1, <1>2 DEF srs_reverse, Fail
  <1>4. Measured(w) /\ StrLen(w) <= StrLen(sender)
    <2>1. CASE at = 0
      BY <1>2, <2>1, StrLenType
    <2>2. CASE at # 0
      <3>1. at \in 1..Len(sender) /\ Len(sender) \in Nat
        BY <1>1, <2>2, TextIndex DEF StrChr, Measured
      <3>2. 1 \in Nat \ {0} /\ at - 1 \in Nat /\ at - 1 <= Len(sender)
        BY <3>1
      <3>3. Measured(SubSeq(sender, 1, at - 1))
            /\ StrLen(SubSeq(sender, 1, at - 1)) <= StrLen(sender)
        BY <3>2, StrLenPart
      <3> QED BY <1>2, <2>2, <3>3 DEF Before
    <2> QED BY <2>1, <2>2
  <1>5. PICK out : out = srs_parse_guarded(srs, w, now).out
    OBVIOUS
  <1>6. Measured(out) /\ StrLen(out) <= StrLen(w)
    BY <1>3, <1>4, <1>5, ParseFits
  <1>7. StrLen(out) \in Nat /\ StrLen(w) \in Nat /\ StrLen(sender) \in Nat
    BY <1>4, <1>6, StrLenType
  <1>8. StrLen(out) < buflen
    BY <1>3, <1>4, <1>6, <1>7
  <1> QED BY <1>3, <1>5, <1>6, <1>8
\* How long the alias of a relay and its domain are.
LEMMA AliasLen ==
  \A r : /\ StrLen(Aliased(r)) = 2 * NameLen + 1
         /\ Measured(<<Name(r)>>) /\ StrLen(<<Name(r)>>) = NameLen
PROOF
  <1> SUFFICES ASSUME NEW r
               PROVE  /\ StrLen(Aliased(r)) = 2 * NameLen + 1
                      /\ Measured(<<Name(r)>>) /\ StrLen(<<Name(r)>>) = NameLen
    OBVIOUS
  <1>1. NameLen \in Nat
    BY NameLenAssumption
  <1>2. \A n : Measured(<<Name(n)>>) /\ StrLen(<<Name(n)>>) = NameLen
    BY <1>1, StrLenOne, TokenLens
  <1>3. PICK a : a = Aliased(r)
    OBVIOUS
  <1>4. /\ IsText(a) /\ Len(a) = 3
        /\ a[1] = Name("alias") /\ a[2] = At /\ a[3] = Name(r)
    BY <1>3 DEF Aliased, IsText, Range
  <1>5. \A i \in 1..3 : TokenLen(a[i]) \in Nat
    <2>1. \A i \in 1..3 : i = 1 \/ i = 2 \/ i = 3
      OBVIOUS
    <2> QED BY <1>1, <1>4, <2>1, TokenLens
  <1>6. Measured(a)
    BY <1>4, <1>5 DEF Measured
  <1>7. PICK f : Ruler(a, f) /\ StrLen(a) = f[Len(a)]
    BY <1>6, StrLenRuler
  <1>8. /\ f[0] = 0 /\ f[1] = f[1 - 1] + NameLen /\ f[2] = f[2 - 1] + 1
        /\ f[3] = f[3 - 1] + NameLen
    BY <1>4, <1>7, TokenLens DEF Ruler
  <1>9. StrLen(a) = 2 * NameLen + 1
    BY <1>1, <1>4, <1>7, <1>8
  <1> QED BY <1>2, <1>3, <1>9

\* The room that srs_forward_alloc() takes is enough for every address of one
\* host that is not an SRS1 address.
LEMMA AllocEnough ==
  ASSUME NEW s, NEW w, NEW h, Local(w), Addr(s, w, h), Measured(s),
         ~Tagged(s, "SRS1"), NEW srs, Known(srs), NEW r, NEW now
  PROVE  srs_forward_alloc(srs, s, Aliased(r), now).ret # "SRS_EBUFTOOSMALL"
PROOF
  <1> DEFINE room == AllocLen(srs, s, Aliased(r))
  <1>1. /\ NameLen \in Nat /\ srs.hashlength \in Nat /\ IsText(w)
        /\ Len(w) \in Nat \ {0}
    BY NameLenAssumption, TextIndex DEF Known, Local, Clean
  <1>2. /\ StrChr(s, 1, At) = Len(w) + 1 /\ Before(s, Len(w) + 1) = w
        /\ From(s, (Len(w) + 1) + 1) = <<Name(h)>>
    <2>1. (Len(w) + 1) + 1 = Len(w) + 2
      BY <1>1
    <2> QED BY <2>1, AddrParts
  <1>3. Len(w) + 1 \in 1..Len(s) /\ s[Len(w) + 1] = At
    BY <1>1 DEF Addr
  <1>4. Measured(w) /\ StrLen(s) = StrLen(w) + 1 + NameLen
    BY <1>2, <1>3, StrLenSplit, AliasLen, TokenLens
  <1>5. StrLen(w) \in Nat /\ StrLen(s) \in Nat
    BY <1>4, StrLenType
  <1>6. room = StrLen(w) + 3 * NameLen + srs.hashlength + 68
    BY <1>1, <1>4, <1>5, AliasLen DEF AllocLen, SRS_TIME_SIZE
  <1>a. StrLen(<<Name(h)>>) = NameLen /\ StrLen(<<Name(r)>>) = NameLen
    BY AliasLen
  <1> HIDE DEF room
  <1>7. \/ srs_forward(srs, room, s, Aliased(r), now).ret # "SRS_EBUFTOOSMALL"
        \/ srs_forward(srs, room, s, Aliased(r), now)
             = srs_compile_guarded(srs, room, <<Name(h)>>, w, <<Name(r)>>, now)
    <2>1. ~(StrLen(s) >= room) /\ Len(w) + 1 # 0
      BY <1>1, <1>4, <1>5, <1>6
    <2> QED BY <1>2, <2>1, DomainOfAlias DEF srs_forward, Done, Fail
  <1>b. ASSUME NEW x \in Nat, NEW k \in Nat, x <= StrLen(w), k <= 3
        PROVE  ~(4 + 1 + srs.hashlength + 1 + k + 1 + StrLen(<<Name(h)>>) + 1 + x
                   + 1 + StrLen(<<Name(r)>>) >= room)
    <2>1. PICK n, l, y : n = NameLen /\ l = srs.hashlength /\ y = StrLen(w)
      OBVIOUS
    <2>2. n \in Nat /\ l \in Nat /\ y \in Nat /\ x <= y
      BY <1>1, <1>5, <1>b, <2>1
    <2>3. ~(4 + 1 + l + 1 + k + 1 + n + 1 + x + 1 + n >= y + 3 * n + l + 68)
      BY ONLY <1>b, <2>2
    <2> QED BY <1>6, <1>a, <2>1, <2>3
  <1>8. CASE Tagged(w, "SRS1")
    <2>1. Len(w) = 1
      <3> SUFFICES ASSUME Len(w) # 1 PROVE FALSE
        OBVIOUS
      <3>1. 1 \in 1..Len(w) /\ 2 \in 1..Len(w) /\ Len(s) >= 1
        <4>1. PICK n : n = Len(w)
          OBVIOUS
        <4>2. n \in Nat /\ n # 0 /\ n # 1
          BY <1>1, <4>1
        <4>3. 1 \in 1..n /\ 2 \in 1..n
          BY <4>2
        <4>4. Len(s) = n + 2
          BY <4>1 DEF Addr
        <4>5. Len(s) >= 1
          BY <4>2, <4>4
        <4> QED BY <4>1, <4>3, <4>5
      <3>2. s[1] = w[1] /\ s[2] = w[2]
        BY <3>1 DEF Addr
      <3>3. w[1] = Tag("SRS1") /\ w[2] \in srs_separators
        BY <1>8 DEF Tagged, HasTag
      <3> QED BY <3>1, <3>2, <3>3 DEF Tagged, HasTag
    <2>2. PastTag(w, <<Name(h)>>) = <<Name(h)>>
      BY <2>1 DEF PastTag
    <2>3. StrChr(<<Name(h)>>, 1, Eq) = 0
      <3>1. PICK x : x = <<Name(h)>>
        OBVIOUS
      <3>2. IsText(x) /\ Len(x) = 1 /\ x[1] # Eq
        BY <3>1, TextTuples, TokensDiffer
      <3>3. \A k \in 1..Len(x) : x[k] # Eq
        BY <3>2
      <3> QED BY <3>1, <3>2, <3>3, StrChrNone
    <2>4. srs_compile_guarded(srs, room, <<Name(h)>>, w, <<Name(r)>>, now).ret
            \in {"SRS_ENOSRS1HOST", "SRS_ENOSRS1USER"}
      BY <1>8, <2>2, <2>3 DEF srs_compile_guarded, Fail
    <2> QED BY <1>7, <2>4 DEF srs_forward_alloc, room
  <1>9. CASE ~Tagged(w, "SRS1") /\ Tagged(w, "SRS0")
    <2>1. PICK u : u = From(w, 2)
      OBVIOUS
    <2>2. StrLen(u) <= StrLen(w) /\ StrLen(u) \in Nat
      BY <1>4, <2>1, FromFits, StrLenType
    <2>3. ~(4 + 1 + srs.hashlength + 1 + StrLen(<<Name(h)>>) + 1 + StrLen(u)
              + 1 + StrLen(<<Name(r)>>) >= room)
      <3>1. ~(4 + 1 + srs.hashlength + 1 + 0 + 1 + StrLen(<<Name(h)>>) + 1
                + StrLen(u) + 1 + StrLen(<<Name(r)>>) >= room)
        BY <1>b, <2>2
      <3>2. PICK n, l, y, k : n = NameLen /\ l = srs.hashlength /\ y = StrLen(u)
                              /\ k = room
        OBVIOUS
      <3>3. n \in Nat /\ l \in Nat /\ y \in Nat /\ k \in Int
        BY <1>1, <1>5, <1>6, <2>2, <3>2
      <3>4. ~(4 + 1 + l + 1 + 0 + 1 + n + 1 + y + 1 + n >= k)
        BY <1>a, <3>1, <3>2
      <3>5. ~(4 + 1 + l + 1 + n + 1 + y + 1 + n >= k)
        BY ONLY <3>3, <3>4
      <3> QED BY <1>a, <3>2, <3>5
    <2>4. srs_compile_guarded(srs, room, <<Name(h)>>, w, <<Name(r)>>, now).ret
            # "SRS_EBUFTOOSMALL"
      BY <1>9, <2>1, <2>3 DEF srs_compile_guarded, Guarded, Done, Fail
    <2> QED BY <1>7, <2>4 DEF srs_forward_alloc, room
  <1>10. CASE ~Tagged(w, "SRS1") /\ ~Tagged(w, "SRS0")
    <2>1. ~(4 + 1 + srs.hashlength + 1 + SRS_TIME_SIZE + 1
              + StrLen(<<Name(h)>>) + 1 + StrLen(w) + 1 + StrLen(<<Name(r)>>)
            >= room)
      BY <1>b, <1>5 DEF SRS_TIME_SIZE
    <2>2. srs_compile_guarded(srs, room, <<Name(h)>>, w, <<Name(r)>>, now).ret
            # "SRS_EBUFTOOSMALL"
      BY <1>10, <2>1 DEF srs_compile_guarded, srs_compile_shortcut, Shortcut,
                         Done, Fail
    <2> QED BY <1>7, <2>2 DEF srs_forward_alloc, room
  <1> QED BY <1>8, <1>9, <1>10
-----------------------------------------------------------------------------
(* Stamps *)

\* v holds the value of the stamp after each of its digits.
Values(stamp, v) ==
    v = [n \in 0..Len(stamp) |->
           IF n = 0 THEN 0 ELSE v[n - 1] * SRS_TIME_BASE + stamp[n].digit]

\* The loop over the two digits of a stamp.
LEMMA TwoDigits ==
  ASSUME NEW c \in Nat, NEW d \in Nat
  PROVE  StampValue(<<Base32(c), Base32(d)>>) = c * 32 + d
PROOF
  <1>1. PICK t : t = <<Base32(c), Base32(d)>>
    OBVIOUS
  <1>2. Len(t) = 2 /\ t[1].digit = c /\ t[2].digit = d
    BY <1>1 DEF Base32
  <1> DEFINE f == [n \in 0..2 |-> IF n = 0 THEN 0 ELSE IF n = 1 THEN c
                                  ELSE c * 32 + d]
  <1>3. Values(t, f)
    <2>1. ASSUME NEW n \in 0..2
          PROVE  f[n] = IF n = 0 THEN 0 ELSE f[n - 1] * SRS_TIME_BASE + t[n].digit
      <3>1. f[0] = 0 /\ f[1] = c /\ f[2] = c * 32 + d
        OBVIOUS
      <3> HIDE DEF f
      <3>2. n = 0 \/ n = 1 \/ n = 2
        OBVIOUS
      <3>3. f[1] = f[1 - 1] * 32 + t[1].digit /\ f[2] = f[2 - 1] * 32 + t[2].digit
        BY <1>2, <3>1
      <3> QED BY <3>1, <3>2, <3>3 DEF SRS_TIME_BASE
    <2> QED BY <1>2, <2>1 DEF Values
  <1> DEFINE v == CHOOSE g : Values(t, g)
  <1>4. Values(t, v)
    BY <1>3
  <1>5. StampValue(t) = v[Len(t)]
    BY DEF StampValue, Values
  <1> HIDE DEF v
  <1>6. v[0] = 0 /\ v[1] = v[1 - 1] * 32 + c /\ v[2] = v[2 - 1] * 32 + d
    <2>1. \A n \in 0..2 : v[n] = IF n = 0 THEN 0
                                 ELSE v[n - 1] * 32 + t[n].digit
      BY <1>2, <1>4 DEF Values, SRS_TIME_BASE
    <2>2. 0 \in 0..2 /\ 1 \in 0..2 /\ 2 \in 0..2
      OBVIOUS
    <2> QED BY <1>2, <2>1, <2>2
  <1>7. v[2] = c * 32 + d
    BY <1>6
  <1> QED BY <1>1, <1>2, <1>5, <1>7

\* The parts of a number of days that a stamp shows.
LEMMA SlotDigits ==
  ASSUME NEW n \in Nat
  PROVE  /\ (n \div 32) % 32 \in Nat /\ n % 32 \in Nat
         /\ ((n \div 32) % 32) * 32 + (n % 32) = n % 1024
  OBVIOUS

\* A stamp is the day of the rewriting, counted round the 1024 slots.
LEMMA StampIsSlot ==
  ASSUME NEW time \in Nat
  PROVE  /\ Day(time) \in Nat
         /\ StampValue(srs_timestamp_create(time)) = Day(time) % 1024
PROOF
  <1>1. Day(time) \in Nat
    BY DEF Day, SRS_TIME_PRECISION
  <1>2. PICK n : n = Day(time)
    OBVIOUS
  <1>3. /\ (n \div 32) % 32 \in Nat /\ n % 32 \in Nat
        /\ ((n \div 32) % 32) * 32 + (n % 32) = n % 1024
    BY <1>1, <1>2, SlotDigits
  <1>4. srs_timestamp_create(time) = <<Base32((n \div 32) % 32), Base32(n % 32)>>
    BY <1>2 DEF srs_timestamp_create, SRS_TIME_BASE
  <1>5. PICK c, d : c = (n \div 32) % 32 /\ d = n % 32
    OBVIOUS
  <1>6. StampValue(<<Base32(c), Base32(d)>>) = c * 32 + d
    BY <1>3, <1>5, TwoDigits
  <1> QED BY <1>1, <1>2, <1>3, <1>4, <1>5, <1>6

\* The slot of today, moved up behind that of a stamp, is as many days behind it
\* as the two days are apart, counted round the slots.
LEMMA UnwrapAge ==
  ASSUME NEW m \in Nat, NEW n \in Nat
  PROVE  /\ Unwrap(n % 1024, m % 1024) \in Int
         /\ Unwrap(n % 1024, m % 1024) - (m % 1024) = (n - m) % 1024
PROOF
  <1>1. PICK a, b : a = n % 1024 /\ b = m % 1024
    OBVIOUS
  <1>2. a \in 0..1023 /\ b \in 0..1023 /\ (n - m) % 1024 = (a - b) % 1024
    BY <1>1
  <1>3. CASE a >= b
    BY <1>1, <1>2, <1>3 DEF Unwrap
  <1>4. CASE ~(a >= b)
    <2>1. (b - a + 1024 - 1) \div 1024 = 1
      BY <1>2, <1>4
    <2>2. Unwrap(a, b) = a + 1 * 1024
      BY <1>4, <2>1 DEF Unwrap, SRS_TIME_SLOTS
    <2>3. (a - b) % 1024 = a - b + 1024
      BY <1>2, <1>4
    <2> QED BY <1>1, <1>2, <2>2, <2>3
  <1> QED BY <1>3, <1>4

\* srs_timestamp_check() accepts the stamp of a rewriting for maxage days and
\* knows no other reason to refuse it.
LEMMA StampCheck ==
  ASSUME NEW time \in Nat, NEW now \in Nat, NEW srs, srs.maxage \in Int
  PROVE  srs_timestamp_check(srs, srs_timestamp_create(time), now)
           = IF (Day(now) - Day(time)) % SRS_TIME_SLOTS <= srs.maxage
             THEN "SRS_SUCCESS" ELSE "SRS_ETIMESTAMPOUTOFDATE"
PROOF
  <1>1. PICK stamp : stamp = srs_timestamp_create(time)
    OBVIOUS
  <1>2. \A n \in 1..Len(stamp) : stamp[n].kind = "base32"
    <2>1. PICK c, d : stamp = <<Base32(c), Base32(d)>>
      BY <1>1 DEF srs_timestamp_create
    <2>2. Len(stamp) = 2 /\ stamp[1] = Base32(c) /\ stamp[2] = Base32(d)
      BY <2>1
    <2>3. \A n \in 1..2 : n = 1 \/ n = 2
      OBVIOUS
    <2> QED BY <2>2, <2>3 DEF Base32
  <1>3. PICK m, n : m = Day(time) /\ n = Day(now)
    OBVIOUS
  <1>4. m \in Nat /\ n \in Nat /\ StampValue(stamp) = m % 1024
    BY <1>1, <1>3, StampIsSlot
  <1>5. PICK today : today = Unwrap(n % 1024, m % 1024)
    OBVIOUS
  <1>6. today \in Int /\ today - (m % 1024) = (n - m) % 1024
    BY <1>4, <1>5, UnwrapAge
  <1>7. today <= (m % 1024) + srs.maxage <=> (n - m) % 1024 <= srs.maxage
    BY <1>4, <1>6
  <1>8. srs_timestamp_check(srs, stamp, now)
          = IF Unwrap(Day(now) % 1024, StampValue(stamp))
                 <= StampValue(stamp) + srs.maxage
            THEN "SRS_SUCCESS" ELSE "SRS_ETIMESTAMPOUTOFDATE"
    BY <1>2, Zenon DEF srs_timestamp_check, SRS_TIME_SLOTS
  <1>9. srs_timestamp_check(srs, stamp, now)
          = IF (n - m) % 1024 <= srs.maxage
            THEN "SRS_SUCCESS" ELSE "SRS_ETIMESTAMPOUTOFDATE"
    BY ONLY <1>3, <1>4, <1>5, <1>7, <1>8
  <1> QED BY ONLY <1>1, <1>3, <1>9 DEF SRS_TIME_SLOTS
-----------------------------------------------------------------------------
(* What a refusal says *)

\* srs_hash_check() accepts a hash under a secret and a length of today only,
\* and refuses the hash of these data for one of three reasons.
LEMMA HashVerdict ==
  ASSUME NEW srs, Known(srs), IsText(srs.secrets),
         NEW key, NEW data, NEW len \in Nat, NEW found
  PROVE  LET ret == srs_hash_check(srs, <<Hash(key, data, len)>>, found)
         IN  /\ ret \in {"SRS_SUCCESS", "SRS_EHASHTOOSHORT", "SRS_EHASHINVALID"}
             /\ ret = "SRS_SUCCESS" =>
                  key \in ToSet(srs.secrets) /\ len = srs.hashlength
             /\ ret = "SRS_EHASHTOOSHORT" => len < srs.hashmin
             /\ ret = "SRS_EHASHINVALID" /\ found = data =>
                  key \notin ToSet(srs.secrets) \/ len # srs.hashlength
PROOF
  <1> DEFINE hash == <<Hash(key, data, len)>>
             same(n) == hash = srs_hash_create_v(srs, n, found)
  <1>1. StrLen(hash) = len
    <2>1. TokenLen(Hash(key, data, len)) = len
      BY TokenLens
    <2> QED BY <2>1, StrLenOne
  <1>2. \A n : same(n) <=> /\ key = srs.secrets[n] /\ data = found
                           /\ len = srs.hashlength
    <2> SUFFICES ASSUME NEW n
                 PROVE  same(n) <=> /\ key = srs.secrets[n] /\ data = found
                                    /\ len = srs.hashlength
      OBVIOUS
    <2>1. PICK a, b : /\ a = Hash(key, data, len)
                      /\ b = Hash(srs.secrets[n], found, srs.hashlength)
      OBVIOUS
    <2>2. same(n) <=> <<a>> = <<b>>
      BY <2>1 DEF srs_hash_create_v, Known
    <2>3. <<a>> = <<b>> <=> a = b
      <3>1. <<a>>[1] = a /\ <<b>>[1] = b
        OBVIOUS
      <3> QED BY ONLY <3>1, Zenon
    <2>4. a = b <=> /\ key = srs.secrets[n] /\ data = found
                    /\ len = srs.hashlength
      BY <2>1, HashesEqual
    <2> QED BY <2>2, <2>3, <2>4
  <1>3. srs_hash_check(srs, hash, found) =
          IF StrLen(hash) < srs.hashmin THEN "SRS_EHASHTOOSHORT"
          ELSE IF \E n \in 1..Len(srs.secrets) : same(n) THEN "SRS_SUCCESS"
          ELSE "SRS_EHASHINVALID"
    BY Zenon DEF srs_hash_check
  <1>4. key \in ToSet(srs.secrets) <=>
          \E n \in 1..Len(srs.secrets) : key = srs.secrets[n]
    BY TextIndex DEF ToSet
  <1> HIDE DEF hash, same
  <1> QED BY <1>1, <1>2, <1>3, <1>4, Zenon DEF hash

\* What the parser answers to an SRS0 address: the verdict on its stamp, then
\* that on its hash.
LEMMA VerdictS0 ==
  ASSUME NEW srs, NEW w, NEW now, NEW i, NEW j, NEW k,
         HasTag(w, "SRS0"), ~HasTag(w, "SRS1"),
         StrChr(w, 3, Eq) = i, StrChr(w, i + 1, Eq) = j,
         StrChr(w, j + 1, Eq) = k, i # 0, j # 0, k # 0
  PROVE  LET stamp == SubSeq(w, i + 1, j - 1)
             fresh == srs_timestamp_check(srs, stamp, now)
             valid == srs_hash_check(srs, SubSeq(w, 3, i - 1),
                        stamp \o SubSeq(w, j + 1, k - 1) \o From(w, k + 1))
         IN  srs_parse_guarded(srs, w, now).ret
               = IF fresh # "SRS_SUCCESS" THEN fresh ELSE valid
PROOF
  <1> DEFINE hash  == SubSeq(w, 3, i - 1)
             stamp == SubSeq(w, i + 1, j - 1)
             host  == SubSeq(w, j + 1, k - 1)
             user  == From(w, k + 1)
             fresh == srs_timestamp_check(srs, stamp, now)
             valid == srs_hash_check(srs, hash, stamp \o host \o user)
             text  == user \o <<At>> \o host
  <1>1. srs_parse_guarded(srs, w, now) = srs_parse_shortcut(srs, w, now)
    BY DEF srs_parse_guarded
  <1>2. srs_parse_shortcut(srs, w, now) =
          IF fresh # "SRS_SUCCESS" THEN Fail(fresh)
          ELSE IF valid # "SRS_SUCCESS" THEN Fail(valid)
          ELSE Done(text)
    BY Zenon DEF srs_parse_shortcut
  <1> HIDE DEF fresh, valid, text
  <1>3. srs_parse_guarded(srs, w, now).ret
          = IF fresh # "SRS_SUCCESS" THEN fresh ELSE valid
    BY <1>1, <1>2 DEF Fail, Done
  <1> QED BY <1>3 DEF fresh, valid

\* What it answers to an SRS1 address: the verdict on its hash.
LEMMA VerdictS1 ==
  ASSUME NEW srs, NEW w, NEW now, NEW i, NEW j, HasTag(w, "SRS1"),
         StrChr(w, 3, Eq) = i, StrChr(w, i + 1, Eq) = j, i # 0, j # 0
  PROVE  srs_parse_guarded(srs, w, now).ret
           = srs_hash_check(srs, SubSeq(w, 3, i - 1),
                            SubSeq(w, i + 1, j - 1) \o From(w, j + 1))
PROOF
  <1> DEFINE host  == SubSeq(w, i + 1, j - 1)
             user  == From(w, j + 1)
             valid == srs_hash_check(srs, SubSeq(w, 3, i - 1), host \o user)
             text  == <<Tag("SRS0")>> \o user \o <<At>> \o host
  <1>1. srs_parse_guarded(srs, w, now) =
          IF valid # "SRS_SUCCESS" THEN Fail(valid) ELSE Done(text)
    BY Zenon DEF srs_parse_guarded
  <1> HIDE DEF valid, text
  <1>2. srs_parse_guarded(srs, w, now).ret = valid
    BY <1>1 DEF Fail, Done
  <1> QED BY <1>2 DEF valid

\* srs_reverse() looks at the room, then asks the parser.
LEMMA ReverseVerdict ==
  ASSUME NEW s, SRS_IS_SRS_ADDRESS(s), StrChr(s, 1, At) # 0,
         NEW srs, NEW buflen, NEW now
  PROVE  srs_reverse(srs, buflen, s, now).ret
           = IF StrLen(s) >= buflen THEN "SRS_EBUFTOOSMALL"
             ELSE srs_parse_guarded(srs, Before(s, StrChr(s, 1, At)), now).ret
  BY DEF srs_reverse, Fail

\* A handle whose secrets are a text and whose maxage is a number.
SetUp(srs) == Known(srs) /\ IsText(srs.secrets) /\ srs.maxage \in Int

\* What the answer about a hash says of the rewriting that made it.
HashSays(ret, srs, key, len) ==
    /\ ret = "SRS_SUCCESS" => key \in ToSet(srs.secrets) /\ len = srs.hashlength
    /\ ret = "SRS_EHASHTOOSHORT" => len < srs.hashmin
    /\ ret = "SRS_EHASHINVALID" =>
          key \notin ToSet(srs.secrets) \/ len # srs.hashlength

\* An SRS0 address of this library is reversed only within maxage days, under a
\* secret and a hash length that are still set, and refused only because one of
\* these does not hold, the hash is shorter than hashmin or there is no room.
LEMMA JudgedS0 ==
  ASSUME NEW s, NEW w, NEW r, NEW u, NEW h,
         Local(u), S0User(w, u, h), Addr(s, w, r),
         NEW key, NEW len \in Nat, NEW time \in Nat, Stamped(w, u, h, key, len, time),
         NEW srs, SetUp(srs), NEW buflen, NEW now \in Nat
  PROVE  LET ret == srs_reverse(srs, buflen, s, now).ret
             age == (Day(now) - Day(time)) % SRS_TIME_SLOTS
         IN  /\ ret \in {"SRS_SUCCESS", "SRS_EBUFTOOSMALL", "SRS_EHASHTOOSHORT",
                         "SRS_EHASHINVALID", "SRS_ETIMESTAMPOUTOFDATE"}
             /\ HashSays(ret, srs, key, len)
             /\ ret = "SRS_SUCCESS" => age <= srs.maxage
             /\ ret = "SRS_ETIMESTAMPOUTOFDATE" => age > srs.maxage
             /\ ret = "SRS_EBUFTOOSMALL" => StrLen(s) >= buflen
PROOF
  <1>1. /\ IsText(u) /\ Len(u) \in Nat /\ IsText(w) /\ Len(w) = Len(u) + 9
    BY TextIndex DEF S0User, Local, Clean
  <1>2. /\ StrChr(s, 1, At) # 0 /\ Before(s, StrChr(s, 1, At)) = w
        /\ SRS_IS_SRS_ADDRESS(s)
    BY S0Opened
  <1>3. /\ HasTag(w, "SRS0") /\ ~HasTag(w, "SRS1")
        /\ StrChr(w, 3, Eq) = 4 /\ StrChr(w, 4 + 1, Eq) = 7
        /\ StrChr(w, 7 + 1, Eq) = 9
    BY S0Opened
  <1>4. SubSeq(w, 7 + 1, 9 - 1) = <<Name(h)>> /\ From(w, 9 + 1) = u
    BY S0Opened
  <1> DEFINE stamp == srs_timestamp_create(time)
             data  == stamp \o <<Name(h)>> \o u
             fresh == srs_timestamp_check(srs, stamp, now)
             valid == srs_hash_check(srs, <<Hash(key, data, len)>>, data)
             age   == (Day(now) - Day(time)) % SRS_TIME_SLOTS
  <1>5. SubSeq(w, 3, 4 - 1) = <<Hash(key, data, len)>>
    <2>1. /\ IsText(SubSeq(w, 3, 3)) /\ Len(SubSeq(w, 3, 3)) = 1
          /\ SubSeq(w, 3, 3)[1] = w[3]
      BY <1>1, SingleSub
    <2>2. SubSeq(w, 3, 3) = <<w[3]>>
      BY <2>1, OneToken
    <2>3. w[3] = Hash(key, data, len)
      BY DEF Stamped
    <2>4. 4 - 1 = 3
      OBVIOUS
    <2> QED BY <2>2, <2>3, <2>4, Zenon
  <1>6. SubSeq(w, 4 + 1, 7 - 1) = stamp
    <2>1. PICK c, d : stamp = <<c, d>>
      BY DEF srs_timestamp_create
    <2>2. w[5] = c /\ w[6] = d
      <3>1. <<c, d>>[1] = c /\ <<c, d>>[2] = d
        OBVIOUS
      <3> QED BY <2>1, <3>1, Zenon DEF Stamped
    <2>3. 5 \in Nat \ {0} /\ 6 \in Nat /\ 6 <= Len(w) /\ 5 <= 6 + 1
      BY <1>1
    <2>4. /\ IsText(SubSeq(w, 5, 6)) /\ Len(SubSeq(w, 5, 6)) = 6 - 5 + 1
          /\ \A k \in 1..(6 - 5 + 1) : SubSeq(w, 5, 6)[k] = w[5 + k - 1]
      BY ONLY <1>1, <2>3, TextSub
    <2>5. PICK y, z : y = SubSeq(w, 5, 6) /\ z = <<c, d>>
      OBVIOUS
    <2>6. IsText(z) /\ Len(z) = 2 /\ z[1] = c /\ z[2] = d
      BY <2>5, TextTuples
    <2>7. IsText(y) /\ Len(y) = 2 /\ y[1] = c /\ y[2] = d
      BY <2>2, <2>4, <2>5
    <2>8. \A k \in 1..2 : k = 1 \/ k = 2
      OBVIOUS
    <2>9. y = z
      BY <2>6, <2>7, <2>8, TextEqual
    <2>10. 4 + 1 = 5 /\ 7 - 1 = 6
      OBVIOUS
    <2> QED BY <2>1, <2>5, <2>9, <2>10, Zenon
  <1>7. srs_parse_guarded(srs, w, now).ret
          = IF fresh # "SRS_SUCCESS" THEN fresh ELSE valid
    <2>1. LET st == SubSeq(w, 4 + 1, 7 - 1)
              fr == srs_timestamp_check(srs, st, now)
              va == srs_hash_check(srs, SubSeq(w, 3, 4 - 1),
                      st \o SubSeq(w, 7 + 1, 9 - 1) \o From(w, 9 + 1))
          IN  srs_parse_guarded(srs, w, now).ret
                = IF fr # "SRS_SUCCESS" THEN fr ELSE va
      BY ONLY <1>3, VerdictS0
    <2> QED BY <1>4, <1>5, <1>6, <2>1, Zenon
  <1>8. fresh = IF age <= srs.maxage THEN "SRS_SUCCESS"
                ELSE "SRS_ETIMESTAMPOUTOFDATE"
    BY StampCheck DEF SetUp
  <1>9. /\ valid \in {"SRS_SUCCESS", "SRS_EHASHTOOSHORT", "SRS_EHASHINVALID"}
        /\ HashSays(valid, srs, key, len)
    BY HashVerdict DEF SetUp, HashSays
  <1>10. age \in Int
    <2>1. Day(now) \in Nat /\ Day(time) \in Nat
      BY StampIsSlot
    <2> QED BY <2>1 DEF SRS_TIME_SLOTS
  <1> DEFINE ret == srs_reverse(srs, buflen, s, now).ret
  <1>11. ret = IF StrLen(s) >= buflen THEN "SRS_EBUFTOOSMALL"
               ELSE IF fresh # "SRS_SUCCESS" THEN fresh ELSE valid
    BY <1>2, <1>7, ReverseVerdict
  <1> HIDE DEF ret, fresh, valid, age
  <1>12. \/ ret = "SRS_EBUFTOOSMALL" /\ StrLen(s) >= buflen
         \/ ret = "SRS_ETIMESTAMPOUTOFDATE" /\ ~(age <= srs.maxage)
         \/ ret = valid /\ age <= srs.maxage
    BY <1>8, <1>11
  <1>13. /\ ret \in {"SRS_SUCCESS", "SRS_EBUFTOOSMALL", "SRS_EHASHTOOSHORT",
                     "SRS_EHASHINVALID", "SRS_ETIMESTAMPOUTOFDATE"}
         /\ HashSays(ret, srs, key, len)
         /\ ret = "SRS_SUCCESS" => age <= srs.maxage
         /\ ret = "SRS_ETIMESTAMPOUTOFDATE" => age > srs.maxage
         /\ ret = "SRS_EBUFTOOSMALL" => StrLen(s) >= buflen
    BY <1>9, <1>10, <1>12 DEF HashSays, SetUp
  <1> QED BY <1>13 DEF ret, age

\* The same of an SRS1 address around an SRS0 address, but for the stamp, at
\* which srs_parse_guarded() does not look.
LEMMA JudgedS1 ==
  ASSUME NEW s, NEW w, NEW r, NEW x, NEW a,
         Local(x), Tagged(x, "SRS0"), Len(x) >= 2, S1User(w, x, a), Addr(s, w, r),
         NEW key, NEW len \in Nat, Sealed(w, x, a, key, len),
         NEW srs, SetUp(srs), NEW buflen, NEW now
  PROVE  LET ret == srs_reverse(srs, buflen, s, now).ret
         IN  /\ ret \in {"SRS_SUCCESS", "SRS_EBUFTOOSMALL", "SRS_EHASHTOOSHORT",
                         "SRS_EHASHINVALID"}
             /\ HashSays(ret, srs, key, len)
             /\ ret = "SRS_EBUFTOOSMALL" => StrLen(s) >= buflen
PROOF
  <1>1. IsText(w) /\ Len(w) = Len(x) + 5 /\ Len(x) \in Nat
    BY TextIndex DEF S1User, Local, Clean
  <1>2. /\ StrChr(s, 1, At) # 0 /\ Before(s, StrChr(s, 1, At)) = w
        /\ SRS_IS_SRS_ADDRESS(s)
    BY S1Opened
  <1>3. HasTag(w, "SRS1") /\ StrChr(w, 3, Eq) = 4 /\ StrChr(w, 4 + 1, Eq) = 6
    BY S1Opened
  <1>4. /\ SubSeq(w, 4 + 1, 6 - 1) = <<Name(a)>>
        /\ From(w, 6 + 1) = From(x, 2)
    BY S1Opened
  <1> DEFINE data  == <<Name(a)>> \o From(x, 2)
             valid == srs_hash_check(srs, <<Hash(key, data, len)>>, data)
  <1>5. SubSeq(w, 3, 4 - 1) = <<Hash(key, data, len)>>
    <2>1. /\ IsText(SubSeq(w, 3, 3)) /\ Len(SubSeq(w, 3, 3)) = 1
          /\ SubSeq(w, 3, 3)[1] = w[3]
      BY <1>1, SingleSub
    <2>2. SubSeq(w, 3, 3) = <<w[3]>>
      BY <2>1, OneToken
    <2>3. w[3] = Hash(key, data, len)
      BY DEF Sealed
    <2>4. 4 - 1 = 3
      OBVIOUS
    <2> QED BY <2>2, <2>3, <2>4, Zenon
  <1>6. srs_parse_guarded(srs, w, now).ret = valid
    <2>1. srs_parse_guarded(srs, w, now).ret
            = srs_hash_check(srs, SubSeq(w, 3, 4 - 1),
                             SubSeq(w, 4 + 1, 6 - 1) \o From(w, 6 + 1))
      BY ONLY <1>3, VerdictS1
    <2> QED BY <1>4, <1>5, <2>1, Zenon
  <1>7. /\ valid \in {"SRS_SUCCESS", "SRS_EHASHTOOSHORT", "SRS_EHASHINVALID"}
        /\ HashSays(valid, srs, key, len)
    BY HashVerdict DEF SetUp, HashSays
  <1> DEFINE ret == srs_reverse(srs, buflen, s, now).ret
  <1>8. ret = IF StrLen(s) >= buflen THEN "SRS_EBUFTOOSMALL" ELSE valid
    BY <1>2, <1>6, ReverseVerdict
  <1> HIDE DEF ret, valid
  <1>9. /\ ret \in {"SRS_SUCCESS", "SRS_EBUFTOOSMALL", "SRS_EHASHTOOSHORT",
                    "SRS_EHASHINVALID"}
        /\ HashSays(ret, srs, key, len)
        /\ ret = "SRS_EBUFTOOSMALL" => StrLen(s) >= buflen
    BY <1>7, <1>8 DEF HashSays
  <1> QED BY <1>9 DEF ret

\* One made from an SRS1 address is refused: there is no room, or its hash is
\* too short or covers another string.
LEMMA JudgedBroken ==
  ASSUME NEW s, NEW w, NEW r, Broken(w), Addr(s, w, r), w[3].len \in Nat,
         NEW srs, SetUp(srs), NEW buflen, NEW now
  PROVE  LET ret == srs_reverse(srs, buflen, s, now).ret
         IN  /\ ret \in {"SRS_EBUFTOOSMALL", "SRS_EHASHTOOSHORT",
                         "SRS_EHASHINVALID"}
             /\ ret = "SRS_EHASHTOOSHORT" => w[3].len < srs.hashmin
             /\ ret = "SRS_EBUFTOOSMALL" => StrLen(s) >= buflen
PROOF
  <1>1. /\ IsText(w) /\ Len(w) \in Nat /\ Len(w) >= 7 /\ Clean(w) /\ Local(w)
    BY TextIndex DEF Broken, Local, Clean
  <1>2. /\ StrChr(s, 1, At) # 0 /\ Before(s, StrChr(s, 1, At)) = w
    BY <1>1, AddrParts
  <1>3. SRS_IS_SRS_ADDRESS(s)
    BY <1>1 DEF SRS_IS_SRS_ADDRESS, Tagged, HasTag, Addr, Broken
  <1>4. HasTag(w, "SRS1")
    BY <1>1 DEF HasTag, Broken
  <1>5. StrChr(w, 3, Eq) = 4
    <2>1. w[3] # Eq /\ w[4] = Eq
      BY TokensDiffer DEF Broken
    <2> QED BY <1>1, <2>1, StrChrFirst
  <1>6. StrChr(w, 4 + 1, Eq) = 6
    <2>1. w[5] # Eq /\ w[6] = Eq
      BY DEF Broken
    <2>2. \A k \in (4 + 1)..(6 - 1) : w[k] # Eq
      BY <2>1
    <2> QED BY <1>1, <2>1, <2>2, StrChrFirst
  <1> DEFINE found == SubSeq(w, 4 + 1, 6 - 1) \o From(w, 6 + 1)
             valid == srs_hash_check(srs, SubSeq(w, 3, 4 - 1), found)
             ret   == srs_reverse(srs, buflen, s, now).ret
  <1>7. ret = IF StrLen(s) >= buflen THEN "SRS_EBUFTOOSMALL" ELSE valid
    <2>1. srs_parse_guarded(srs, w, now).ret = valid
      BY <1>4, <1>5, <1>6, VerdictS1
    <2> QED BY <1>2, <1>3, <2>1, ReverseVerdict
  <1>8. PICK key, data, len : w[3] = Hash(key, data, len)
    BY DEF Broken
  <1>9. w[3].len = len
    BY <1>8 DEF Hash
  <1>10. SubSeq(w, 3, 4 - 1) = <<Hash(key, data, len)>>
    <2>1. /\ IsText(SubSeq(w, 3, 3)) /\ Len(SubSeq(w, 3, 3)) = 1
          /\ SubSeq(w, 3, 3)[1] = w[3]
      BY <1>1, SingleSub
    <2>2. SubSeq(w, 3, 3) = <<w[3]>>
      BY <2>1, OneToken
    <2>4. 4 - 1 = 3
      OBVIOUS
    <2> QED BY <1>8, <2>2, <2>4, Zenon
  <1>11. /\ valid \in {"SRS_SUCCESS", "SRS_EHASHTOOSHORT", "SRS_EHASHINVALID"}
         /\ valid = "SRS_EHASHTOOSHORT" => len < srs.hashmin
    <2>1. len \in Nat
      BY <1>9
    <2>2. valid = srs_hash_check(srs, <<Hash(key, data, len)>>, found)
      BY <1>10, Zenon
    <2> HIDE DEF found, valid
    <2> QED BY <2>1, <2>2, HashVerdict DEF SetUp
  <1>12. ret # "SRS_SUCCESS"
    BY ReverseBroken DEF SetUp
  <1> HIDE DEF ret, valid
  <1>13. /\ ret \in {"SRS_EBUFTOOSMALL", "SRS_EHASHTOOSHORT", "SRS_EHASHINVALID"}
         /\ ret = "SRS_EHASHTOOSHORT" => w[3].len < srs.hashmin
         /\ ret = "SRS_EBUFTOOSMALL" => StrLen(s) >= buflen
    BY <1>7, <1>9, <1>11, <1>12
  <1> QED BY <1>13 DEF ret
=============================================================================
