----------------------------- MODULE Relay_proofs -----------------------------
(***************************************************************************)
(* Module Relay for every value of its constants.  The inductive invariant *)
(* IInv says of the sender of every envelope where it stands with respect  *)
(* to its origin (Reach): it is the origin, or an SRS0 address around it   *)
(* (Once), or an SRS1 address around that (Twice), or one that no relay    *)
(* reverses (Dead): an SRS1 address made from an SRS1 address, or a tag    *)
(* with nothing behind it. Forwarding leads from one of these to another,  *)
(* reversal one step back.                                                 *)
(* For mail from plain addresses OnPath adds which relays are in a sender, *)
(* so that every step is one of module ReturnPath. Lengths says that every *)
(* sender has a length, which bounds what is written into buffers; Issues  *)
(* says which rewriting on the trail wrote the hash and the stamp of a     *)
(* sender, so that a refusal has a reason.                                 *)
(***************************************************************************)
EXTENDS Relay, Srs2_proofs

Unmarked(u) == ~Tagged(u, "SRS0") /\ ~Tagged(u, "SRS1")

\* An origin taken apart: the local part u and the host h.
Shape(o, u, h) ==
    /\ Local(u) /\ Addr(o, u, h)
    /\ \A i \in 1..Len(u) : u[i].kind # "hash"
    /\ Tagged(u, "SRS0") => Len(u) >= 2
    /\ Tagged(u, "SRS1") => Chained(u)

\* Every origin has a local part and a host.
LEMMA OriginShape ==
  ASSUME NEW o, OriginOK(o)
  PROVE  \E u, h : Shape(o, u, h)
PROOF
  <1> DEFINE n == Len(o) - 2
             u == SubSeq(o, 1, n)
             h == o[Len(o)].name
  <1>1. IsText(o) /\ Len(o) \in Nat /\ Len(o) >= 3
    BY TextIndex DEF OriginOK, IsText
  <1>2. n \in Nat /\ n >= 1 /\ Len(o) = n + 2 /\ Len(o) - 1 = n + 1
    BY <1>1
  <1>3. /\ o[n + 1] = At /\ o[n + 2] = Name(h)
        /\ \A i \in 1..n : o[i] # At /\ o[i] # Nul /\ o[i].kind # "hash"
    BY <1>2 DEF OriginOK
  <1>4. /\ HasTag(o, "SRS0") => n >= 2
        /\ HasTag(o, "SRS1") =>
             /\ n >= 2
             /\ o[2] \in srs_separators =>
                  n >= 5 /\ o[3] # Eq /\ o[4] = Eq /\ o[5] # Eq
    BY <1>1, <1>2 DEF OriginOK
  <1> HIDE DEF n, h
  <1>5. IsText(u) /\ Len(u) = n /\ \A i \in 1..n : u[i] = o[i]
    <2>1. 1 \in Nat \ {0} /\ n <= Len(o) /\ 1 <= n + 1
      BY <1>2
    <2>2. /\ IsText(SubSeq(o, 1, n)) /\ Len(SubSeq(o, 1, n)) = n - 1 + 1
          /\ \A k \in 1..(n - 1 + 1) : SubSeq(o, 1, n)[k] = o[1 + k - 1]
      BY ONLY <1>1, <1>2, <2>1, TextSub
    <2>3. n - 1 + 1 = n /\ \A k \in 1..n : 1 + k - 1 = k
      BY <1>2
    <2> QED BY <2>2, <2>3
  <1> HIDE DEF u
  <1>6. Local(u) /\ Addr(o, u, h)
    BY <1>1, <1>2, <1>3, <1>5 DEF Local, Clean, Addr
  <1>7. \A t : HasTag(u, t) <=> HasTag(o, t)
    BY <1>1, <1>2, <1>5 DEF HasTag
  <1>8. Tagged(u, "SRS0") => Len(u) >= 2
    BY <1>4, <1>5, <1>7 DEF Tagged
  <1>9. Tagged(u, "SRS1") => Chained(u)
    <2> SUFFICES ASSUME Tagged(u, "SRS1") PROVE Chained(u)
      OBVIOUS
    <2>1. HasTag(o, "SRS1") /\ n >= 2
      BY <1>4, <1>7 DEF Tagged
    <2>2. u[2] \in srs_separators /\ u[2] = o[2]
      BY <1>2, <1>5, <2>1 DEF Tagged
    <2>3. n >= 5 /\ u[3] # Eq /\ u[4] = Eq /\ u[5] # Eq
      BY <1>2, <1>4, <1>5, <2>1, <2>2
    <2> QED BY <1>5, <1>6, <2>2, <2>3 DEF Chained, Tagged, HasTag
  <1> QED BY <1>3, <1>5, <1>6, <1>8, <1>9 DEF Shape

-----------------------------------------------------------------------------
Once(s, u, h) ==
    \E w : \E r \in Relays : S0User(w, u, h) /\ Addr(s, w, r) /\ Unmarked(u)

Twice(s, u, h) ==
    \E w, x, a : \E r \in Relays :
      /\ S1User(w, x, a) /\ Addr(s, w, r)
      /\ Local(x) /\ Tagged(x, "SRS0") /\ Len(x) >= 2
      /\ \/ x = u /\ a = h
         \/ S0User(x, u, h) /\ a \in Relays /\ Unmarked(u)

Dead(s) == \/ \E w : \E r \in Relays : Broken(w) /\ Addr(s, w, r)
           \/ \E t : s = <<Tag(t)>>

\* Where a sender may stand from which at most n reversals lead to o.
Reach(s, o, u, h, n) ==
    \/ s = o
    \/ n >= 1 /\ Once(s, u, h)
    \/ n >= 2 /\ Twice(s, u, h)
    \/ Dead(s)

\* The alias of a relay as the lemmas on srs_forward() write it.
LEMMA AliasIsAliased == \A r : Alias(r) = Aliased(r)
  BY DEF Alias, Aliased

\* What srs_compile_shortcut() writes is tagged SRS0 ...
LEMMA S0Tagged ==
  ASSUME NEW w, NEW u, NEW h, Local(u), S0User(w, u, h)
  PROVE  Local(w) /\ Tagged(w, "SRS0") /\ Len(w) >= 2
PROOF
  <1>1. Len(u) \in Nat
    BY TextIndex DEF Local, Clean
  <1> QED BY <1>1 DEF S0User, Tagged, HasTag

\* ... and what srs_compile_guarded() writes is tagged SRS1, with a hash and
\* a host behind it,
LEMMA S1Chained ==
  ASSUME NEW w, NEW x, NEW a, Local(x), Len(x) >= 2, S1User(w, x, a)
  PROVE  Chained(w)
PROOF
  <1>1. Len(x) \in Nat
    BY TextIndex DEF Local, Clean
  <1> QED BY <1>1, TokensDiffer DEF S1User, Chained

\* ... also where it was made from an SRS1 address.
LEMMA BrokenChained ==
  ASSUME NEW w, Broken(w)
  PROVE  Chained(w)
PROOF
  <1>1. Len(w) \in Nat
    BY TextIndex DEF Broken, Local, Clean
  <1> QED BY <1>1, TokensDiffer DEF Broken, Chained

\* Forwarding keeps a sender within two reversals of its origin, or dead.
LEMMA ForwardStep ==
  ASSUME NEW o, NEW u, NEW h, Shape(o, u, h),
         NEW s, Reach(s, o, u, h, 2), NEW r \in Relays,
         NEW srs_r, Known(srs_r), NEW buflen, NEW now,
         srs_forward(srs_r, buflen, s, Alias(r), now).ret = "SRS_SUCCESS"
  PROVE  Reach(srs_forward(srs_r, buflen, s, Alias(r), now).out, o, u, h, 2)
PROOF
  <1> DEFINE out == srs_forward(srs_r, buflen, s, Aliased(r), now).out
  <1>1. srs_forward(srs_r, buflen, s, Aliased(r), now).ret = "SRS_SUCCESS"
    BY AliasIsAliased
  <1>2. SUFFICES Reach(out, o, u, h, 2)
    BY AliasIsAliased
  <1>3. SUFFICES ASSUME out # s, \A t : out # <<Tag(t)>>
                 PROVE  Reach(out, o, u, h, 2)
    BY DEF Reach, Dead
  <1> HIDE DEF out
  <1>4. CASE s = o
    <2>1. CASE Unmarked(u)
      <3>1. \E w : S0User(w, u, h) /\ Addr(out, w, r)
        BY <1>1, <1>3, <1>4, <2>1, ForwardPlain DEF Shape, Unmarked, out
      <3> QED BY <2>1, <3>1 DEF Reach, Once
    <2>2. CASE Tagged(u, "SRS0")
      <3>1. \E w : S1User(w, u, h) /\ Addr(out, w, r)
        BY <1>1, <1>3, <1>4, <2>2, ForwardS0 DEF Shape, out
      <3> QED BY <2>2, <3>1 DEF Reach, Twice, Shape
    <2>3. CASE Tagged(u, "SRS1")
      <3>1. \E w : Broken(w) /\ Addr(out, w, r)
        BY <1>1, <1>3, <1>4, <2>3, ForwardS1 DEF Shape, out
      <3> QED BY <3>1 DEF Reach, Dead
    <2> QED BY <2>1, <2>2, <2>3 DEF Unmarked
  <1>5. CASE Once(s, u, h)
    <2>1. PICK x, a :
            a \in Relays /\ S0User(x, u, h) /\ Addr(s, x, a) /\ Unmarked(u)
      BY <1>5 DEF Once
    <2>2. Local(x) /\ Tagged(x, "SRS0") /\ Len(x) >= 2
      BY <2>1, S0Tagged DEF Shape
    <2>3. \E w : S1User(w, x, a) /\ Addr(out, w, r)
      BY <1>1, <1>3, <2>1, <2>2, ForwardS0 DEF out
    <2> QED BY <2>1, <2>2, <2>3 DEF Reach, Twice
  <1>6. CASE Twice(s, u, h) \/ \E w : \E q \in Relays : Broken(w) /\ Addr(s, w, q)
    <2>1. PICK w, q : Chained(w) /\ Addr(s, w, q)
      BY <1>6, S1Chained, BrokenChained DEF Twice
    <2>2. \E v : Broken(v) /\ Addr(out, v, r)
      BY <1>1, <1>3, <2>1, ForwardS1 DEF out
    <2> QED BY <2>2 DEF Reach, Dead
  <1>7. CASE \E t : s = <<Tag(t)>>
    BY <1>1, <1>7, ForwardCut
  <1> QED BY <1>4, <1>5, <1>6, <1>7 DEF Reach, Dead

\* What stands behind the at sign of an address.
LEMMA HostBehindAt ==
  ASSUME NEW s, NEW w, NEW r, Local(w), Addr(s, w, r)
  PROVE  /\ StrChr(s, 1, At) # 0
         /\ From(s, StrChr(s, 1, At) + 1) = <<Name(r)>>
PROOF
  <1>1. Len(w) \in Nat
    BY TextIndex DEF Local, Clean
  <1>2. StrChr(s, 1, At) = Len(w) + 1 /\ From(s, Len(w) + 2) = <<Name(r)>>
    BY AddrParts
  <1>3. Len(w) + 1 # 0 /\ (Len(w) + 1) + 1 = Len(w) + 2
    BY <1>1
  <1> QED BY <1>2, <1>3

\* A sender that ended behind its tag has no host to carry a bounce to.
LEMMA CutHasNoHost ==
  \A t, r : /\ StrChr(<<Tag(t)>>, 1, At) = 0
            /\ From(<<Tag(t)>>, 0 + 1) # <<Name(r)>>
PROOF
  <1> SUFFICES ASSUME NEW t, NEW r
               PROVE  /\ StrChr(<<Tag(t)>>, 1, At) = 0
                      /\ From(<<Tag(t)>>, 0 + 1) # <<Name(r)>>
    OBVIOUS
  <1> DEFINE s == <<Tag(t)>>
  <1>1. IsText(s) /\ Len(s) = 1 /\ s[1] = Tag(t)
    BY TextTuples
  <1>2. <<Name(r)>>[1] = Name(r)
    BY TextTuples
  <1> HIDE DEF s
  <1>3. StrChr(s, 1, At) = 0
    BY <1>1, StrChrNone, TokensDiffer
  <1>4. SubSeq(s, 1, 1)[1] = Tag(t)
    BY <1>1, SingleSub
  <1>5. From(s, 0 + 1) = SubSeq(s, 1, 1)
    BY <1>1 DEF From
  <1> QED BY <1>2, <1>3, <1>4, <1>5, TokensDiffer DEF s

\* Origins with an SRS tag are not at a relay.
TaggedElsewhere ==
    \A o \in Origins : SRS_IS_SRS_ADDRESS(o) =>
                         \A r \in Relays : o[Len(o)] # Name(r)

\* A reversal that succeeds comes one step nearer to the origin; an address is
\* taken for a local one only at the origin; and only an origin at this relay
\* can make its parser read through a NULL pointer.
LEMMA ReverseStep ==
  ASSUME NEW o, NEW u, NEW h, Shape(o, u, h),
         NEW s, NEW n \in 0..2, Reach(s, o, u, h, n),
         NEW r \in Relays, From(s, StrChr(s, 1, At) + 1) = <<Name(r)>>,
         NEW srs_r, Known(srs_r), NEW buflen, NEW now
  PROVE  LET ans == srs_reverse(srs_r, buflen, s, now)
         IN  /\ ans.ret = "SRS_SUCCESS" =>
                  n >= 1 /\ Reach(ans.out, o, u, h, n - 1)
             /\ ans.ret = "SRS_ENOTSRSADDRESS" => s = o
             /\ ~(SRS_IS_SRS_ADDRESS(o) /\ o[Len(o)] = Name(r)) =>
                  ans.ret # "SIGSEGV"
PROOF
  <1> DEFINE ans == srs_reverse(srs_r, buflen, s, now)
  <1>1. CASE s = o
    <2>1. /\ ans.ret # "SRS_SUCCESS"
          /\ ~SRS_IS_SRS_ADDRESS(o) => ans.ret = "SRS_ENOTSRSADDRESS"
      BY <1>1, ReverseForeign DEF Shape
    <2>2. o[Len(o)] = Name(r)
      <3>1. Name(r) = Name(h)
        <4>1. <<Name(h)>> = <<Name(r)>>
          BY <1>1, HostBehindAt DEF Shape
        <4>2. <<Name(h)>>[1] = Name(h) /\ <<Name(r)>>[1] = Name(r)
          BY TextTuples
        <4> QED BY <4>1, <4>2
      <3>2. o[Len(o)] = Name(h)
        BY DEF Shape, Addr
      <3> QED BY <3>1, <3>2
    <2> HIDE DEF ans
    <2>3. ~SRS_IS_SRS_ADDRESS(o) => ans.ret # "SIGSEGV"
      BY <2>1
    <2> QED BY <1>1, <2>1, <2>2, <2>3 DEF ans
  <1>2. CASE n >= 1 /\ Once(s, u, h)
    <2>1. PICK w, q : S0User(w, u, h) /\ Addr(s, w, q)
      BY <1>2 DEF Once
    <2>2. /\ ans.ret = "SRS_SUCCESS" => ans.out = o
          /\ ans.ret \notin {"SRS_ENOTSRSADDRESS", "SIGSEGV"}
      BY <2>1, ReverseS0 DEF Shape
    <2> HIDE DEF ans
    <2>3. /\ ans.ret = "SRS_SUCCESS" => n >= 1 /\ Reach(ans.out, o, u, h, n - 1)
          /\ ans.ret \notin {"SRS_ENOTSRSADDRESS", "SIGSEGV"}
      BY <1>2, <2>2 DEF Reach
    <2> QED BY <2>3 DEF ans
  <1>3. CASE n >= 2 /\ Twice(s, u, h)
    <2>1. PICK w, x, a, q :
            /\ S1User(w, x, a) /\ Addr(s, w, q)
            /\ Local(x) /\ Tagged(x, "SRS0") /\ Len(x) >= 2
            /\ \/ x = u /\ a = h
               \/ S0User(x, u, h) /\ a \in Relays /\ Unmarked(u)
      BY <1>3 DEF Twice
    <2>2. PICK p : Addr(p, x, a) /\ Reach(p, o, u, h, n - 1)
      <3>1. CASE x = u /\ a = h
        BY <3>1 DEF Reach, Shape
      <3>2. CASE S0User(x, u, h) /\ a \in Relays /\ Unmarked(u)
        <4>1. Addr(Printed(x, a), x, a)
          BY <2>1, PrintedAddr DEF Local, Clean
        <4>2. Once(Printed(x, a), u, h)
          BY <3>2, <4>1 DEF Once
        <4>3. n - 1 >= 1
          BY <1>3
        <4> QED BY <4>1, <4>2, <4>3 DEF Reach
      <3> QED BY <2>1, <3>1, <3>2
    <2>3. /\ ans.ret = "SRS_SUCCESS" => ans.out = p
          /\ ans.ret \notin {"SRS_ENOTSRSADDRESS", "SIGSEGV"}
      BY <2>1, <2>2, ReverseS1
    <2> HIDE DEF ans
    <2>4. /\ ans.ret = "SRS_SUCCESS" => n >= 1 /\ Reach(ans.out, o, u, h, n - 1)
          /\ ans.ret \notin {"SRS_ENOTSRSADDRESS", "SIGSEGV"}
      BY <1>3, <2>2, <2>3
    <2> QED BY <2>4 DEF ans
  <1>4. CASE \E w : \E q \in Relays : Broken(w) /\ Addr(s, w, q)
    <2>1. ans.ret \notin {"SRS_SUCCESS", "SRS_ENOTSRSADDRESS", "SIGSEGV"}
      BY <1>4, ReverseBroken
    <2> QED BY <2>1
  <1>5. CASE \E t : s = <<Tag(t)>>
    BY <1>5, CutHasNoHost
  <1> QED BY <1>1, <1>2, <1>3, <1>4, <1>5 DEF Reach, Dead

\* A bounce that arrives outside the relays is at its origin.
LEMMA HandOverStep ==
  ASSUME NEW o, NEW u, NEW h, NEW s, NEW n, Shape(o, u, h), Reach(s, o, u, h, n),
         \A r \in Relays : From(s, StrChr(s, 1, At) + 1) # <<Name(r)>>,
         StrChr(s, 1, At) # 0
  PROVE  s = o
PROOF
  <1>1. \A w : \A r \in Relays : ~(Local(w) /\ Addr(s, w, r))
    BY HostBehindAt
  <1>2. ~Once(s, u, h) /\ ~Twice(s, u, h)
    BY <1>1 DEF Once, Twice, S0User, S1User
  <1>3. ~Dead(s)
    BY <1>1, CutHasNoHost DEF Dead, Broken
  <1> QED BY <1>2, <1>3 DEF Reach

-----------------------------------------------------------------------------
(* The invariant *)

Fields == {"state", "origin", "sender", "code", "trail", "laps"}

EnvelopeOK(e) ==
    /\ DOMAIN e = Fields
    /\ e.state \in States
    /\ e.origin \in Origins \cup {<<>>}
    /\ IsText(e.trail) /\ Len(e.trail) <= MaxHops
    /\ e.laps \in 0..2
    /\ e.state \in {"new", "transit"} => e.laps = 0
    /\ e.state \in {"transit", "bounce"} =>
          /\ e.origin \in Origins
          /\ \E u, h : /\ Shape(e.origin, u, h)
                       /\ Reach(e.sender, e.origin, u, h, 2 - e.laps)
    /\ e.state = "returned" => e.sender = e.origin
    /\ TaggedElsewhere => e.code # "SIGSEGV"

IInv ==
    /\ clock \in Times
    /\ slips \in 0..MaxSlips
    /\ settings \in 0..MaxSettings
    /\ srs \in [Relays -> Handles]
    /\ \A r \in Relays : HaveSecret(srs[r])
    /\ mail = [m \in Mail |-> mail[m]]
    /\ \A m \in Mail : EnvelopeOK(mail[m])

\* The invariant implies the properties.
LEMMA IInvImplies ==
  ASSUME IInv
  PROVE  /\ TypeOK /\ NoMisdelivery /\ TwoLaps
         /\ TaggedElsewhere => NeverCrashes
PROOF
  <1>1. \A m \in Mail : Len(mail[m].trail) \in 0..MaxHops
    <2> SUFFICES ASSUME NEW m \in Mail PROVE Len(mail[m].trail) \in 0..MaxHops
      OBVIOUS
    <2>1. IsText(mail[m].trail) /\ Len(mail[m].trail) <= MaxHops
      BY DEF IInv, EnvelopeOK
    <2> QED BY <2>1, TextIndex, BoundsAssumption
  <1>2. TypeOK
    BY <1>1 DEF IInv, EnvelopeOK, TypeOK
  <1> QED BY <1>2 DEF IInv, EnvelopeOK, NoMisdelivery, TwoLaps, NeverCrashes

\* What the lemmas on srs2.c need of a handle.
LEMMA HandlesKnown == \A handle \in Handles : Known(handle)
PROOF
  <1> SUFFICES ASSUME NEW handle \in Handles PROVE Known(handle)
    OBVIOUS
  <1>1. handle.hashlength \in {4} \cup HashLengths
    BY DEF Handles
  <1>2. handle.separator \in srs_separators \cup {Nul}
    BY DEF Handles
  <1>3. \A n \in HashLengths : n \in Nat \ {0}
    BY LengthsAssumption
  <1>4. 4 \in Nat \ {0}
    OBVIOUS
  <1>5. handle.hashlength \in Nat \ {0}
    BY ONLY <1>1, <1>3, <1>4
  <1> QED BY <1>2, <1>5 DEF Known

\* A trail grows by one entry.
LEMMA AppendText ==
  ASSUME NEW s, IsText(s), NEW e
  PROVE  IsText(Append(s, e)) /\ Len(Append(s, e)) = Len(s) + 1
PROOF
  <1> DEFINE T == Range(s) \cup {e}
  <1>1. s \in Seq(T) /\ e \in T
    BY DEF IsText, Range
  <1> HIDE DEF T
  <1>2. Append(s, e) \in Seq(T) /\ Len(Append(s, e)) = Len(s) + 1
    BY <1>1
  <1> QED BY <1>2, SequencesAreTexts

\* An envelope not yet used is in order.
LEMMA BlankOK == EnvelopeOK(Blank)
PROOF
  <1>1. IsText(<<>>) /\ Len(<<>>) = 0
    BY TextTuples
  <1> QED BY <1>1, BoundsAssumption DEF Blank, EnvelopeOK, Fields, States

\* A handle with the secrets of a file is in order.
LEMMA NewHandleOK ==
  ASSUME NEW file \in SecretFiles
  PROVE  NewHandle(file) \in Handles /\ HaveSecret(NewHandle(file))
  BY SecretsAssumption DEF NewHandle, srs_init, Handles, HaveSecret, srs_separators

\* The invariant holds initially.
LEMMA InitOK == Init => IInv
PROOF
  <1> SUFFICES ASSUME Init PROVE IInv
    OBVIOUS
  <1>1. srs \in [Relays -> Handles] /\ \A r \in Relays : HaveSecret(srs[r])
    BY NewHandleOK DEF Init
  <1> QED BY <1>1, BlankOK, BoundsAssumption DEF Init, IInv

\* A step that changes one envelope.
LEMMA EnvelopeStep ==
  ASSUME IInv, NEW m \in Mail, NEW e, EnvelopeOK(e),
         mail' = [mail EXCEPT ![m] = e],
         UNCHANGED <<clock, slips, srs, settings>>
  PROVE  IInv'
PROOF
  <1>1. mail' = [k \in Mail |-> mail'[k]]
    BY DEF IInv
  <1>2. ASSUME NEW k \in Mail PROVE EnvelopeOK(mail'[k])
    BY DEF IInv
  <1>3. (\A k \in Mail : EnvelopeOK(mail[k]))'
    <2>1. ASSUME NEW k \in Mail PROVE EnvelopeOK(mail[k])'
      BY <1>2 DEF EnvelopeOK
    <2> QED BY <2>1
  <1> QED BY <1>1, <1>3 DEF IInv

\* The actions on an envelope keep the invariant.
LEMMA SubmitOK == ASSUME IInv, NEW m \in Mail, Submit(m) PROVE IInv'
PROOF
  <1> DEFINE e(o) == [mail[m] EXCEPT !.state = "transit",
                                     !.origin = o, !.sender = o]
  <1>1. PICK o \in Origins : mail' = [mail EXCEPT ![m] = e(o)]
    BY DEF Submit
  <1>2. EnvelopeOK(mail[m]) /\ mail[m].state = "new"
    BY DEF IInv, Submit
  <1>3. \E u, h : Shape(o, u, h) /\ Reach(o, o, u, h, 2 - 0)
    BY OriginsAssumption, OriginShape DEF Reach
  <1>4. /\ DOMAIN e(o) = Fields
        /\ e(o).state = "transit"
        /\ e(o).origin = o
        /\ e(o).sender = o
        /\ e(o).code = mail[m].code
        /\ e(o).trail = mail[m].trail
        /\ e(o).laps = 0
    BY <1>2 DEF EnvelopeOK, Fields
  <1> HIDE DEF e
  <1>5. /\ IsText(mail[m].trail) /\ Len(mail[m].trail) <= MaxHops
        /\ TaggedElsewhere => mail[m].code # "SIGSEGV"
        /\ "transit" \in States /\ 0 \in 0..2
    BY <1>2 DEF EnvelopeOK, States
  <1>6. EnvelopeOK(e(o))
    BY <1>3, <1>4, <1>5 DEF EnvelopeOK
  <1> QED BY <1>1, <1>6, EnvelopeStep DEF Submit

\* srs_forward() keeps the invariant: ForwardStep for the sender, and a trail
\* that grows by one.
LEMMA ForwardOK ==
  ASSUME IInv, NEW m \in Mail, NEW r \in Relays, Forward(m, r) PROVE IInv'
PROOF
  <1> DEFINE e       == mail[m]
             ok(ans) == ans.ret = "SRS_SUCCESS"
             f(ans)  == [e EXCEPT
                 !.state  = IF ok(ans) THEN "transit" ELSE "unsent",
                 !.sender = IF ok(ans) THEN ans.out ELSE @,
                 !.trail  = IF ok(ans) /\ ans.out # e.sender
                            THEN Append(@, Entry(r)) ELSE @,
                 !.code   = ans.ret]
  <1>1. PICK call \in ForwardCalls(r, e.sender) :
           mail' = [mail EXCEPT ![m] = f(call.ans)]
    BY DEF Forward
  <1>2. PICK len : call.ans = srs_forward(srs[r], len, e.sender, Alias(r), clock)
    BY DEF ForwardCalls, srs_forward_alloc
  <1>3. /\ EnvelopeOK(e) /\ e.state = "transit" /\ Len(e.trail) < MaxHops
        /\ Known(srs[r])
    BY HandlesKnown DEF IInv, Forward
  <1> DEFINE ans == call.ans
  <1>4. ans.ret # "SIGSEGV"
    BY <1>2, ForwardNeverCrashes
  <1>5. PICK u, h : Shape(e.origin, u, h) /\ Reach(e.sender, e.origin, u, h, 2)
    BY <1>3 DEF EnvelopeOK
  <1>6. ok(ans) => Reach(ans.out, e.origin, u, h, 2)
    BY <1>2, <1>3, <1>5, ForwardStep
  <1>7. /\ IsText(Append(e.trail, Entry(r)))
        /\ Len(Append(e.trail, Entry(r))) <= MaxHops
    <2>1. IsText(e.trail) /\ Len(e.trail) \in Nat
      BY <1>3, TextIndex DEF EnvelopeOK
    <2>2. /\ IsText(Append(e.trail, Entry(r)))
          /\ Len(Append(e.trail, Entry(r))) = Len(e.trail) + 1
      BY <2>1, AppendText
    <2> QED BY <1>3, <2>1, <2>2, BoundsAssumption
  <1> HIDE DEF ans
  <1>8. /\ e.origin \in Origins /\ e.laps = 0 /\ IsText(e.trail)
        /\ Len(e.trail) <= MaxHops /\ {"transit", "unsent"} \subseteq States
        /\ 0 \in 0..2
    BY <1>3 DEF EnvelopeOK, States
  <1>9. EnvelopeOK(f(ans))
    <2>1. CASE ok(ans)
      <3> DEFINE trail == IF ans.out # e.sender
                          THEN Append(e.trail, Entry(r)) ELSE e.trail
      <3>1. /\ DOMAIN f(ans) = Fields
            /\ f(ans).state = "transit"
            /\ f(ans).origin = e.origin
            /\ f(ans).sender = ans.out
            /\ f(ans).code = ans.ret
            /\ f(ans).trail = trail
            /\ f(ans).laps = 0
        BY <1>3, <1>8, <2>1 DEF EnvelopeOK, Fields
      <3>2. IsText(trail) /\ Len(trail) <= MaxHops
        BY <1>7, <1>8
      <3> HIDE DEF trail, f
      <3>3. \E v, k : Shape(e.origin, v, k) /\ Reach(ans.out, e.origin, v, k, 2 - 0)
        BY <1>5, <1>6, <2>1
      <3> QED BY <1>4, <1>8, <3>1, <3>2, <3>3 DEF EnvelopeOK
    <2>2. CASE ~ok(ans)
      <3>1. /\ DOMAIN f(ans) = Fields
            /\ f(ans).state = "unsent"
            /\ f(ans).origin = e.origin
            /\ f(ans).sender = e.sender
            /\ f(ans).code = ans.ret
            /\ f(ans).trail = e.trail
            /\ f(ans).laps = 0
        BY <1>3, <1>8, <2>2 DEF EnvelopeOK, Fields
      <3> HIDE DEF f
      <3> QED BY <1>4, <1>8, <3>1 DEF EnvelopeOK
    <2> QED BY <2>1, <2>2
  <1> HIDE DEF f
  <1> QED BY <1>1, <1>9, EnvelopeStep DEF Forward, ans

\* A bounce begins with no reversal behind it.
LEMMA BounceOK == ASSUME IInv, NEW m \in Mail, Bounce(m) PROVE IInv'
PROOF
  <1> DEFINE e == [mail[m] EXCEPT !.state = "bounce"]
  <1>1. EnvelopeOK(mail[m]) /\ mail[m].state = "transit"
    BY DEF IInv, Bounce
  <1> DEFINE x == mail[m]
  <1>2. /\ DOMAIN e = Fields
        /\ e.state = "bounce"
        /\ e.origin = x.origin
        /\ e.sender = x.sender
        /\ e.code = x.code
        /\ e.trail = x.trail
        /\ e.laps = x.laps
    BY <1>1 DEF EnvelopeOK, Fields
  <1>3. mail' = [mail EXCEPT ![m] = e]
    BY DEF Bounce
  <1> HIDE DEF e
  <1>4. /\ x.origin \in Origins /\ IsText(x.trail) /\ Len(x.trail) <= MaxHops
        /\ TaggedElsewhere => x.code # "SIGSEGV"
        /\ \E u, h : /\ Shape(x.origin, u, h)
                     /\ Reach(x.sender, x.origin, u, h, 2 - x.laps)
        /\ "bounce" \in States /\ x.laps \in 0..2
    BY <1>1 DEF EnvelopeOK, States
  <1>5. EnvelopeOK(e)
    BY <1>2, <1>4 DEF EnvelopeOK
  <1> QED BY <1>3, <1>5, EnvelopeStep DEF Bounce

\* srs_reverse() keeps the invariant: ReverseStep for the sender, and one lap
\* more for each success.
LEMMA ReverseBounceOK ==
  ASSUME IInv, NEW m \in Mail, NEW r \in Relays, ReverseBounce(m, r) PROVE IInv'
PROOF
  <1> DEFINE e       == mail[m]
             ok(ans) == ans.ret = "SRS_SUCCESS"
             f(ans)  == [e EXCEPT
                 !.state  = IF ok(ans) THEN "bounce"
                            ELSE IF ans.ret = "SRS_ENOTSRSADDRESS" THEN "returned"
                            ELSE "lost",
                 !.sender = IF ok(ans) THEN ans.out ELSE @,
                 !.laps   = IF ok(ans) THEN @ + 1 ELSE @,
                 !.code   = ans.ret]
  <1>1. PICK call \in ReverseCalls(r, e.sender) :
           mail' = [mail EXCEPT ![m] = f(call.ans)]
    BY DEF ReverseBounce
  <1>2. PICK len : call.ans = srs_reverse(srs[r], len, e.sender, clock)
    BY DEF ReverseCalls, srs_reverse_alloc
  <1>3. /\ EnvelopeOK(e) /\ e.state = "bounce" /\ Known(srs[r])
        /\ From(e.sender, StrChr(e.sender, 1, At) + 1) = <<Name(r)>>
    BY HandlesKnown DEF IInv, ReverseBounce, SenderHost
  <1> DEFINE ans == call.ans
             n   == 2 - e.laps
  <1>4. n \in 0..2 /\ e.origin \in Origins
    BY <1>3 DEF EnvelopeOK
  <1>5. PICK u, h : Shape(e.origin, u, h) /\ Reach(e.sender, e.origin, u, h, n)
    BY <1>3 DEF EnvelopeOK
  <1> HIDE DEF n
  <1>6. /\ ok(ans) => n >= 1 /\ Reach(ans.out, e.origin, u, h, n - 1)
        /\ ans.ret = "SRS_ENOTSRSADDRESS" => e.sender = e.origin
        /\ ~(SRS_IS_SRS_ADDRESS(e.origin)
               /\ e.origin[Len(e.origin)] = Name(r)) => ans.ret # "SIGSEGV"
    BY <1>2, <1>3, <1>4, <1>5, ReverseStep
  <1>7. TaggedElsewhere => ans.ret # "SIGSEGV"
    BY <1>4, <1>6 DEF TaggedElsewhere
  <1> HIDE DEF ans
  <1>8. /\ IsText(e.trail) /\ Len(e.trail) <= MaxHops /\ e.laps \in 0..2
        /\ {"bounce", "returned", "lost"} \subseteq States
    BY <1>3 DEF EnvelopeOK, States
  <1>9. EnvelopeOK(f(ans))
    <2>1. CASE ok(ans)
      <3>1. /\ DOMAIN f(ans) = Fields
            /\ f(ans).state = "bounce"
            /\ f(ans).origin = e.origin
            /\ f(ans).sender = ans.out
            /\ f(ans).code = ans.ret
            /\ f(ans).trail = e.trail
            /\ f(ans).laps = e.laps + 1
        BY <1>3, <2>1 DEF EnvelopeOK, Fields
      <3>2. e.laps + 1 \in 0..2 /\ 2 - (e.laps + 1) = n - 1
        BY <1>6, <1>8, <2>1 DEF n
      <3>3. \E v, k : /\ Shape(e.origin, v, k)
                      /\ Reach(ans.out, e.origin, v, k, 2 - (e.laps + 1))
        BY <1>5, <1>6, <2>1, <3>2
      <3> HIDE DEF f
      <3> QED BY <1>4, <1>7, <1>8, <3>1, <3>2, <3>3 DEF EnvelopeOK
    <2>2. CASE ~ok(ans)
      <3> DEFINE state == IF ans.ret = "SRS_ENOTSRSADDRESS" THEN "returned"
                          ELSE "lost"
      <3>1. /\ DOMAIN f(ans) = Fields
            /\ f(ans).state = state
            /\ f(ans).origin = e.origin
            /\ f(ans).sender = e.sender
            /\ f(ans).code = ans.ret
            /\ f(ans).trail = e.trail
            /\ f(ans).laps = e.laps
        BY <1>3, <2>2 DEF EnvelopeOK, Fields
      <3>2. /\ state \in States
            /\ state \notin {"new", "transit", "bounce"}
            /\ state = "returned" => e.sender = e.origin
        BY <1>6, <1>8
      <3> HIDE DEF f, state
      <3> QED BY <1>4, <1>7, <1>8, <3>1, <3>2 DEF EnvelopeOK
    <2> QED BY <2>1, <2>2
  <1> HIDE DEF f
  <1> QED BY <1>1, <1>9, EnvelopeStep DEF ReverseBounce, ans

\* What is handed over is at its origin.
LEMMA HandOverOK == ASSUME IInv, NEW m \in Mail, HandOver(m) PROVE IInv'
PROOF
  <1> DEFINE e == mail[m]
             f == [e EXCEPT !.state = IF StrChr(e.sender, 1, At) = 0 THEN "lost"
                                      ELSE "returned"]
  <1>1. mail' = [mail EXCEPT ![m] = f]
    BY DEF HandOver
  <1>2. /\ EnvelopeOK(e) /\ e.state = "bounce"
        /\ \A r \in Relays :
             From(e.sender, StrChr(e.sender, 1, At) + 1) # <<Name(r)>>
    BY DEF IInv, HandOver, SenderHost
  <1>3. StrChr(e.sender, 1, At) # 0 => e.sender = e.origin
    <2>1. PICK u, h : /\ Shape(e.origin, u, h)
                      /\ Reach(e.sender, e.origin, u, h, 2 - e.laps)
      BY <1>2 DEF EnvelopeOK
    <2> QED BY <1>2, <2>1, HandOverStep
  <1>4. EnvelopeOK(f)
    BY <1>2, <1>3 DEF EnvelopeOK, States
  <1> HIDE DEF f
  <1> QED BY <1>1, <1>4, EnvelopeStep DEF HandOver

\* A step that changes one handle.
LEMMA HandleStep ==
  ASSUME IInv, NEW r \in Relays, NEW handle \in Handles, HaveSecret(handle),
         Set(r, handle)
  PROVE  IInv'
PROOF
  <1>1. settings' \in 0..MaxSettings
    BY BoundsAssumption DEF IInv, Set
  <1>2. /\ srs' \in [Relays -> Handles]
        /\ \A k \in Relays : HaveSecret(srs'[k])
    BY DEF IInv, Set
  <1> QED BY <1>1, <1>2 DEF IInv, Set, EnvelopeOK

\* No operator takes the last secret from a handle, and every setter leaves a
\* handle of the known kind.
LEMMA OperateOK == ASSUME IInv, NEW r \in Relays, Operate(r) PROVE IInv'
PROOF
  <1> DEFINE handle == srs[r]
  <1>1. handle \in Handles /\ HaveSecret(handle)
    BY DEF IInv
  <1>2. ASSUME NEW file \in SecretFiles
        PROVE  /\ srs_add_secret(handle, file[1]) \in Handles
               /\ HaveSecret(srs_add_secret(handle, file[1]))
    <2>1. file[1] \in Secrets
      BY SecretsAssumption
    <2>2. handle.secrets \in Seq(Secrets)
      BY <1>1 DEF Handles
    <2>3. /\ Append(handle.secrets, file[1]) \in Seq(Secrets)
          /\ Len(Append(handle.secrets, file[1])) > 0
      BY <2>1, <2>2
    <2> QED BY <1>1, <2>3 DEF srs_add_secret, Handles, HaveSecret
  <1>3. ASSUME NEW c \in SeparatorArgs
        PROVE  /\ srs_set_separator(handle, c) \in Handles
               /\ HaveSecret(srs_set_separator(handle, c))
    BY <1>1 DEF srs_set_separator, SeparatorAccepted, Handles, HaveSecret
  <1>4. ASSUME NEW v \in MaxAges
        PROVE  /\ [handle EXCEPT !.maxage = v] \in Handles
               /\ HaveSecret([handle EXCEPT !.maxage = v])
    BY <1>1 DEF Handles, HaveSecret
  <1>5. ASSUME NEW v \in HashLengths
        PROVE  /\ [handle EXCEPT !.hashlength = v] \in Handles
               /\ HaveSecret([handle EXCEPT !.hashlength = v])
    BY <1>1 DEF Handles, HaveSecret
  <1>6. ASSUME NEW v \in HashMins
        PROVE  /\ [handle EXCEPT !.hashmin = v] \in Handles
               /\ HaveSecret([handle EXCEPT !.hashmin = v])
    BY <1>1 DEF Handles, HaveSecret
  <1>7. ASSUME NEW v \in BOOLEAN
        PROVE  /\ [handle EXCEPT !.alwaysrewrite = v] \in Handles
               /\ HaveSecret([handle EXCEPT !.alwaysrewrite = v])
    BY <1>1 DEF Handles, HaveSecret
  <1> HIDE DEF handle
  <1>8. CASE AddSecret(r)
    BY <1>2, <1>8, HandleStep DEF AddSecret, handle
  <1>9. CASE Restart(r)
    BY <1>9, NewHandleOK, HandleStep DEF Restart
  <1>10. CASE SetSeparator(r)
    BY <1>3, <1>10, HandleStep DEF SetSeparator, handle
  <1>11. CASE SetMaxage(r)
    BY <1>4, <1>11, HandleStep DEF SetMaxage, handle
  <1>12. CASE SetHashlength(r)
    BY <1>5, <1>12, HandleStep DEF SetHashlength, handle
  <1>13. CASE SetHashmin(r)
    BY <1>6, <1>13, HandleStep DEF SetHashmin, handle
  <1>14. CASE SetAlwaysrewrite(r)
    BY <1>7, <1>14, HandleStep DEF SetAlwaysrewrite, handle
  <1> QED BY <1>8, <1>9, <1>10, <1>11, <1>12, <1>13, <1>14 DEF Operate

\* The clock moves between known instants.
LEMMA ClockOK == ASSUME IInv, Tick \/ SlipBack PROVE IInv'
PROOF
  <1>1. clock' \in Times /\ slips' \in 0..MaxSlips
    BY BoundsAssumption DEF IInv, Tick, SlipBack
  <1> QED BY <1>1 DEF IInv, Tick, SlipBack, EnvelopeOK

\* The invariant is inductive.
LEMMA NextOK == IInv /\ [Next]_vars => IInv'
PROOF
  <1> SUFFICES ASSUME IInv, [Next]_vars PROVE IInv'
    OBVIOUS
  <1>1. ASSUME NEW m \in Mail, Submit(m) PROVE IInv'
    BY <1>1, SubmitOK
  <1>2. ASSUME NEW m \in Mail, Bounce(m) PROVE IInv'
    BY <1>2, BounceOK
  <1>3. ASSUME NEW m \in Mail, HandOver(m) PROVE IInv'
    BY <1>3, HandOverOK
  <1>4. ASSUME NEW m \in Mail, NEW r \in Relays, ReverseBounce(m, r) PROVE IInv'
    BY <1>4, ReverseBounceOK
  <1>5. ASSUME NEW m \in Mail, NEW r \in Relays, Forward(m, r) PROVE IInv'
    BY <1>5, ForwardOK
  <1>6. ASSUME NEW r \in Relays, Operate(r) PROVE IInv'
    BY <1>6, OperateOK
  <1>7. CASE Tick \/ SlipBack
    BY <1>7, ClockOK
  <1>8. CASE UNCHANGED vars
    BY <1>8 DEF vars, IInv, EnvelopeOK
  <1> QED BY <1>1, <1>2, <1>3, <1>4, <1>5, <1>6, <1>7, <1>8 DEF Next, Carry

\* The inductive invariant holds in every state, for every value of the
\* constants: the sender of every envelope is within two reversals of the
\* address it started from, or can be reversed by nobody.
THEOREM Invariant == Spec => []IInv
  BY InitOK, NextOK, PTL DEF Spec

\* Clock, counters, handles and envelopes keep their types, and every handle
\* keeps a secret (srs_add_secret() and the setters).
THEOREM TypeCorrect == Spec => []TypeOK
  BY Invariant, IInvImplies, PTL

\* Whatever relays a mail went through, and whatever their operators did since,
\* a bounce that is handed over is addressed to where the mail came from
\* (srs_forward() and srs_reverse()).
THEOREM Returns == Spec => []NoMisdelivery
  BY Invariant, IInvImplies, PTL

\* However long its path was, a bounce is reversed at most twice
\* (srs_compile_guarded() keeps the first relay).
THEOREM FewLaps == Spec => []TwoLaps
  BY Invariant, IInvImplies, PTL

\* Where no mail starts at a relay with an SRS tag of its own, no bounce makes
\* srs_parse_shortcut() or srs_parse_guarded() read through a NULL pointer.
THEOREM CrashFree == ASSUME TaggedElsewhere PROVE Spec => []NeverCrashes
PROOF
  <1>1. IInv => NeverCrashes
    BY IInvImplies
  <1> QED BY <1>1, Invariant, PTL
-----------------------------------------------------------------------------
(* The promise of module ReturnPath *)

\* n is the first name in w: in an SRS1 address, the first relay.
Leads(w, n) == \E k \in 1..Len(w) : /\ w[k] = Name(n)
                                    /\ \A i \in 1..(k - 1) : w[i].kind # "name"

\* The route p that a sender s on its way from o stands for.
Path(s, o, u, h, p) ==
    \/ s = o /\ p = <<>>
    \/ \E w : \E r \in Relays :
         S0User(w, u, h) /\ Addr(s, w, r) /\ p = <<r>>
    \/ \E w, x : \E a, r \in Relays :
         S1User(w, x, a) /\ S0User(x, u, h) /\ Addr(s, w, r) /\ p = <<a, r>>
    \/ \E w : \E a, r \in Relays :
         Broken(w) /\ Leads(w, a) /\ Addr(s, w, r) /\ p = <<a, r>>

RouteOf(s) ==
    IF Tagged(s, "SRS0") THEN << Last(s).name >>
    ELSE IF Tagged(s, "SRS1") THEN << FirstName(s), Last(s).name >>
    ELSE <<>>

\* FirstName() finds the first name.
LEMMA FirstNameIs ==
  ASSUME NEW s, NEW w, NEW n, NEW r, IsText(w), Leads(w, n), Addr(s, w, r)
  PROVE  FirstName(s) = n
PROOF
  <1> DEFINE I == {i \in 1..Len(s) : s[i].kind = "name"}
  <1>1. PICK k \in 1..Len(w) : /\ w[k] = Name(n)
                               /\ \A i \in 1..(k - 1) : w[i].kind # "name"
    BY DEF Leads
  <1>2. Len(w) \in Nat
    BY TextIndex
  <1>3. k \in I /\ s[k] = Name(n)
    BY <1>1, <1>2 DEF Addr, Name
  <1>4. \A i \in I : i \in Nat /\ k <= i
    BY <1>1, <1>2 DEF Addr
  <1>5. Min(I) = k
    BY <1>3, <1>4 DEF Min
  <1>6. SelectInSeq(s, LAMBDA t : t.kind = "name") = k
    BY <1>3, <1>5 DEF SelectInSeq
  <1> QED BY <1>3, <1>6 DEF FirstName, Name

\* The last name of an address is its host.
LEMMA LastName ==
  ASSUME NEW s, NEW w, NEW r, IsText(w), Addr(s, w, r)
  PROVE  Last(s).name = r
  BY TextIndex DEF Addr, Last, Name

\* An address is tagged as its local part is, if that has two tokens.
LEMMA AddrTagged ==
  ASSUME NEW s, NEW w, NEW r, IsText(w), Len(w) >= 2, Addr(s, w, r), NEW t
  PROVE  Tagged(s, t) <=> Tagged(w, t)
  BY TextIndex DEF Addr, Tagged, HasTag

\* In an SRS1 address that is made from an SRS0 address, the first name is the
\* host of that, ...
LEMMA S1Leads ==
  ASSUME NEW w, NEW x, NEW a, IsText(x), S1User(w, x, a)
  PROVE  Leads(w, a)
PROOF
  <1>1. Len(x) \in Nat /\ Len(w) >= 5 /\ w[5] = Name(a)
    BY TextIndex DEF S1User
  <1>2. \A i \in 1..4 : w[i].kind # "name"
    BY DEF S1User, Tag, srs_separators, Eq, Minus, Plus
  <1> QED BY <1>1, <1>2 DEF Leads, S1User

\* ... and it stays the first when others are put around it.
LEMMA InsideLeads ==
  ASSUME NEW x, NEW w, NEW a, Chained(x), Leads(x, a), Broken(w), Inside(x, w)
  PROVE  Leads(w, a)
PROOF
  <1>1. PICK k \in 1..Len(x) : /\ x[k] = Name(a)
                               /\ \A i \in 1..(k - 1) : x[i].kind # "name"
    BY DEF Leads
  <1>2. Len(x) \in Nat /\ Len(w) \in Nat
    BY TextIndex DEF Chained, Broken, Local, Clean
  <1>3. k >= 3
    <2>1. x[1] # Name(a) /\ x[2] # Name(a)
      BY DEF Chained, Tag, srs_separators, Eq, Minus, Plus, Name
    <2> QED BY <1>1, <1>2, <2>1
  <1>4. w[k + 2] = Name(a) /\ k + 2 \in 1..Len(w)
    BY <1>1, <1>2, <1>3 DEF Inside
  <1>5. \A i \in 1..4 : w[i].kind # "name"
    BY DEF Broken, Tag, srs_separators, Eq, Minus, Plus, Hash
  <1>6. ASSUME NEW i \in 1..(k + 1) PROVE w[i].kind # "name"
    <2>1. CASE i <= 4
      BY <1>5, <2>1
    <2>2. CASE i > 4
      <3>1. i - 2 \in 3..Len(x) /\ i - 2 \in 1..(k - 1) /\ (i - 2) + 2 = i
        BY <1>1, <1>2, <2>2
      <3>2. w[(i - 2) + 2] = x[i - 2]
        BY ONLY <3>1, Inside(x, w) DEF Inside
      <3> QED BY <1>1, <3>1, <3>2
    <2> QED BY <1>1, <1>2, <2>1, <2>2
  <1> QED BY <1>4, <1>6 DEF Leads

\* A path is read off its sender.
LEMMA PathRoute ==
  ASSUME NEW o, NEW u, NEW h, Shape(o, u, h), ~SRS_IS_SRS_ADDRESS(o),
         NEW s, NEW p, Path(s, o, u, h, p)
  PROVE  RouteOf(s) = p
PROOF
  <1>1. CASE s = o /\ p = <<>>
    BY <1>1 DEF RouteOf, SRS_IS_SRS_ADDRESS
  <1>2. ASSUME NEW w, NEW r, S0User(w, u, h), Addr(s, w, r), p = <<r>>
        PROVE  RouteOf(s) = p
    <2>1. IsText(w) /\ Tagged(w, "SRS0") /\ Len(w) >= 2
      BY <1>2, S0Tagged DEF Shape, Local, Clean
    <2> QED BY <1>2, <2>1, AddrTagged, LastName DEF RouteOf
  <1>3. ASSUME NEW w, NEW a, NEW r, IsText(w), Tagged(w, "SRS1"), Len(w) >= 2,
               Leads(w, a), Addr(s, w, r), p = <<a, r>>
        PROVE  RouteOf(s) = p
    <2>1. Tagged(s, "SRS1") /\ ~Tagged(s, "SRS0")
      BY <1>3, AddrTagged, TagsEqual DEF Tagged, HasTag
    <2> QED BY <1>3, <2>1, FirstNameIs, LastName DEF RouteOf
  <1>4. ASSUME NEW w, NEW x, NEW a, NEW r, S1User(w, x, a), S0User(x, u, h),
               Addr(s, w, r), p = <<a, r>>
        PROVE  RouteOf(s) = p
    <2>1. Local(x) /\ Len(x) >= 2 /\ IsText(x)
      BY <1>4, S0Tagged DEF Shape, Local, Clean
    <2>2. Chained(w) /\ Leads(w, a)
      BY <1>4, <2>1, S1Chained, S1Leads
    <2> QED BY <1>3, <1>4, <2>2 DEF Chained, Tagged, HasTag, Local, Clean
  <1>5. ASSUME NEW w, NEW a, NEW r, Broken(w), Leads(w, a), Addr(s, w, r),
               p = <<a, r>>
        PROVE  RouteOf(s) = p
    <2>1. Chained(w)
      BY <1>5, BrokenChained
    <2> QED BY <1>3, <1>5, <2>1 DEF Chained, Tagged, HasTag, Local, Clean
  <1> QED BY <1>1, <1>2, <1>4, <1>5 DEF Path

\* A tag that makes an origin an SRS address is on its local part.
LEMMA PlainOrigin ==
  ASSUME NEW o, NEW u, NEW h, Shape(o, u, h), ~SRS_IS_SRS_ADDRESS(o)
  PROVE  Unmarked(u)
PROOF
  <1>1. IsText(u) /\ Len(u) \in Nat
    BY TextIndex DEF Shape, Local, Clean
  <1>2. \A t : Len(u) >= 2 => (Tagged(o, t) <=> Tagged(u, t))
    BY <1>1, AddrTagged DEF Shape
  <1>3. Tagged(u, "SRS0") \/ Tagged(u, "SRS1") => Len(u) >= 2
    BY DEF Shape, Chained
  <1> QED BY <1>2, <1>3 DEF Unmarked, SRS_IS_SRS_ADDRESS

\* Forwarding puts the relay at the end of the path, behind the first.
LEMMA PathForward ==
  ASSUME NEW o, NEW u, NEW h, Shape(o, u, h), ~SRS_IS_SRS_ADDRESS(o),
         NEW s, NEW p, Path(s, o, u, h, p), NEW r \in Relays,
         NEW srs_r, Known(srs_r), srs_r.separator # Nul, NEW buflen, NEW now,
         srs_forward(srs_r, buflen, s, Alias(r), now).ret = "SRS_SUCCESS"
  PROVE  LET out == srs_forward(srs_r, buflen, s, Alias(r), now).out
         IN  \/ out = s
             \/ Path(out, o, u, h, IF p = <<>> THEN <<r>> ELSE <<p[1], r>>)
PROOF
  <1> DEFINE out  == srs_forward(srs_r, buflen, s, Aliased(r), now).out
             next == IF p = <<>> THEN <<r>> ELSE <<p[1], r>>
  <1>1. srs_forward(srs_r, buflen, s, Aliased(r), now).ret = "SRS_SUCCESS"
    BY AliasIsAliased
  <1>2. SUFFICES ASSUME out # s PROVE Path(out, o, u, h, next)
    BY AliasIsAliased
  <1> HIDE DEF out
  <1>3. CASE s = o /\ p = <<>>
    <2>1. \E w : S0User(w, u, h) /\ Addr(out, w, r)
      BY <1>1, <1>2, <1>3, PlainOrigin, ForwardPlain DEF Shape, Unmarked, out
    <2> QED BY <1>3, <2>1 DEF Path
  <1>4. ASSUME NEW x, NEW a \in Relays, S0User(x, u, h), Addr(s, x, a), p = <<a>>
        PROVE  Path(out, o, u, h, next)
    <2>1. Local(x) /\ Tagged(x, "SRS0") /\ Len(x) >= 2
      BY <1>4, S0Tagged DEF Shape
    <2>2. \E w : S1User(w, x, a) /\ Addr(out, w, r)
      BY <1>1, <1>2, <1>4, <2>1, ForwardS0 DEF out
    <2>3. next = <<a, r>>
      BY <1>4
    <2> QED BY <1>4, <2>2, <2>3 DEF Path
  <1>5. ASSUME NEW x, NEW a \in Relays, NEW q, Chained(x), Leads(x, a),
               Addr(s, x, q), p = <<a, q>>
        PROVE  Path(out, o, u, h, next)
    <2>1. PICK w : Broken(w) /\ Addr(out, w, r) /\ Inside(x, w)
      BY <1>1, <1>2, <1>5, ForwardS1 DEF out
    <2>2. Leads(w, a)
      BY <1>5, <2>1, InsideLeads
    <2>3. next = <<a, r>>
      BY <1>5
    <2> QED BY <2>1, <2>2, <2>3 DEF Path
  <1>6. ASSUME NEW w, NEW x, NEW a \in Relays, NEW q, S1User(w, x, a),
               S0User(x, u, h), Addr(s, w, q), p = <<a, q>>
        PROVE  Path(out, o, u, h, next)
    <2>1. Local(x) /\ Len(x) >= 2 /\ IsText(x)
      BY <1>6, S0Tagged DEF Shape, Local, Clean
    <2>2. Chained(w) /\ Leads(w, a)
      BY <1>6, <2>1, S1Chained, S1Leads
    <2> QED BY <1>5, <1>6, <2>2
  <1>7. ASSUME NEW w, NEW a \in Relays, NEW q, Broken(w), Leads(w, a),
               Addr(s, w, q), p = <<a, q>>
        PROVE  Path(out, o, u, h, next)
    BY <1>5, <1>7, BrokenChained
  <1> HIDE DEF next
  <1> QED BY <1>3, <1>4, <1>6, <1>7 DEF Path

\* A reversal takes the end off the path.
LEMMA PathReverse ==
  ASSUME NEW o, NEW u, NEW h, Shape(o, u, h),
         NEW s, NEW p, Path(s, o, u, h, p),
         NEW srs_r, Known(srs_r), NEW buflen, NEW now,
         srs_reverse(srs_r, buflen, s, now).ret = "SRS_SUCCESS"
  PROVE  /\ p # <<>>
         /\ Path(srs_reverse(srs_r, buflen, s, now).out, o, u, h,
                 SubSeq(p, 1, Len(p) - 1))
PROOF
  <1> DEFINE ans == srs_reverse(srs_r, buflen, s, now)
  <1>1. CASE s = o /\ p = <<>>
    BY <1>1, ReverseForeign DEF Shape
  <1>2. ASSUME NEW w, NEW r, S0User(w, u, h), Addr(s, w, r), p = <<r>>
        PROVE  p # <<>> /\ Path(ans.out, o, u, h, SubSeq(p, 1, Len(p) - 1))
    <2>1. ans.out = o
      BY <1>2, ReverseS0 DEF Shape
    <2> HIDE DEF ans
    <2>2. p # <<>> /\ SubSeq(p, 1, Len(p) - 1) = <<>>
      BY <1>2
    <2> QED BY <2>1, <2>2 DEF Path
  <1>3. ASSUME NEW w, NEW x, NEW a \in Relays, NEW r, S1User(w, x, a),
               S0User(x, u, h), Addr(s, w, r), p = <<a, r>>
        PROVE  p # <<>> /\ Path(ans.out, o, u, h, SubSeq(p, 1, Len(p) - 1))
    <2>1. Local(x) /\ Tagged(x, "SRS0") /\ Len(x) >= 2 /\ IsText(x)
      BY <1>3, S0Tagged DEF Shape, Local, Clean
    <2>2. Addr(Printed(x, a), x, a)
      BY <2>1, PrintedAddr
    <2>3. ans.out = Printed(x, a)
      BY <1>3, <2>1, <2>2, ReverseS1
    <2> HIDE DEF ans
    <2>4. p # <<>> /\ SubSeq(p, 1, Len(p) - 1) = <<a>>
      <3>1. IsText(p) /\ Len(p) = 2 /\ p[1] = a /\ Len(p) - 1 = 1
        BY <1>3, TextTuples
      <3>2. /\ IsText(SubSeq(p, 1, 1)) /\ Len(SubSeq(p, 1, 1)) = 1
            /\ SubSeq(p, 1, 1)[1] = a
        BY <3>1, SingleSub
      <3>3. SubSeq(p, 1, 1) = <<a>>
        BY <3>2, OneToken
      <3>4. p # <<>>
        BY <3>1, TextTuples
      <3> QED BY ONLY <3>1, <3>3, <3>4
    <2> QED BY <1>3, <2>2, <2>3, <2>4 DEF Path
  <1>4. ASSUME NEW w, NEW r, Broken(w), Addr(s, w, r) PROVE FALSE
    BY <1>4, ReverseBroken
  <1> HIDE DEF ans
  <1>5. p # <<>> /\ Path(ans.out, o, u, h, SubSeq(p, 1, Len(p) - 1))
    BY <1>1, <1>2, <1>3, <1>4 DEF Path, ans
  <1> QED BY <1>5 DEF ans

\* What an envelope shows of itself to ReturnPath.
Kept(e)     == e.origin = <<>> \/ ~SRS_IS_SRS_ADDRESS(e.origin)
StateOf(e)  == IF Kept(e) THEN e.state ELSE "new"
RouteFor(e) == IF Kept(e) THEN RouteOf(e.sender) ELSE <<>>

state_ == [m \in Mail |-> IF Promised(m) THEN mail[m].state ELSE "new"]
route_ == [m \in Mail |-> IF Promised(m) THEN Route(m) ELSE <<>>]

PathOK(e) ==
    /\ e.state = "new" => e.origin = <<>> /\ e.sender = <<>>
    /\ e.state \in {"transit", "bounce"} /\ ~SRS_IS_SRS_ADDRESS(e.origin) =>
         \E u, h, p : Shape(e.origin, u, h) /\ Path(e.sender, e.origin, u, h, p)

\* Every sender is on a path, and no relay has the terminator for a separator.
OnPath == /\ \A r \in Relays : srs[r].separator # Nul
          /\ \A m \in Mail : PathOK(mail[m])

\* What ReturnPath sees of one envelope.
LEMMA SeenAs ==
  ASSUME NEW m \in Mail
  PROVE  state_[m] = StateOf(mail[m]) /\ route_[m] = RouteFor(mail[m])
  BY DEF state_, route_, StateOf, RouteFor, Kept, Promised, Route, RouteOf

\* What it sees of a step that changes one envelope.
LEMMA SeenStep ==
  ASSUME IInv, OnPath, NEW m \in Mail, NEW e, PathOK(e),
         mail' = [mail EXCEPT ![m] = e], srs' = srs
  PROVE  /\ OnPath'
         /\ state_' = [state_ EXCEPT ![m] = StateOf(e)]
         /\ route_' = [route_ EXCEPT ![m] = RouteFor(e)]
PROOF
  <1>1. mail'[m] = e /\ \A k \in Mail \ {m} : mail'[k] = mail[k]
    BY DEF IInv
  <1>2. OnPath'
    BY <1>1 DEF OnPath, PathOK
  <1>3. \A k \in Mail : /\ state_'[k] = StateOf(mail'[k])
                        /\ route_'[k] = RouteFor(mail'[k])
    BY DEF state_, route_, StateOf, RouteFor, Kept, Promised, Route, RouteOf
  <1>4. \A k \in Mail : /\ state_[k] = StateOf(mail[k])
                        /\ route_[k] = RouteFor(mail[k])
    BY SeenAs
  <1>5. /\ state_ = [k \in Mail |-> state_[k]] /\ state_' = [k \in Mail |-> state_'[k]]
        /\ route_ = [k \in Mail |-> route_[k]] /\ route_' = [k \in Mail |-> route_'[k]]
    BY DEF state_, route_
  <1>6. /\ \A k \in Mail \ {m} : state_'[k] = state_[k] /\ route_'[k] = route_[k]
        /\ state_'[m] = StateOf(e) /\ route_'[m] = RouteFor(e)
    BY <1>1, <1>3, <1>4
  <1> QED BY <1>2, <1>5, <1>6

\* A step that leaves an envelope as it is for ReturnPath.
LEMMA SeenStill ==
  ASSUME NEW m \in Mail, NEW e,
         state_' = [state_ EXCEPT ![m] = StateOf(e)],
         route_' = [route_ EXCEPT ![m] = RouteFor(e)],
         StateOf(e) = StateOf(mail[m]), RouteFor(e) = RouteFor(mail[m])
  PROVE  UNCHANGED <<state_, route_>>
PROOF
  <1>1. state_[m] = StateOf(mail[m]) /\ route_[m] = RouteFor(mail[m])
    BY SeenAs
  <1>2. /\ state_ = [k \in Mail |-> state_[k]]
        /\ route_ = [k \in Mail |-> route_[k]]
    BY DEF state_, route_
  <1> QED BY <1>1, <1>2

PromiseStep == Promise!Next \/ UNCHANGED <<state_, route_>>

\* An envelope that is none of ReturnPath's stays so.
LEMMA Unkept ==
  ASSUME NEW m \in Mail, NEW e, ~Kept(mail[m]), e.origin = mail[m].origin,
         state_' = [state_ EXCEPT ![m] = StateOf(e)],
         route_' = [route_ EXCEPT ![m] = RouteFor(e)]
  PROVE  UNCHANGED <<state_, route_>>
PROOF
  <1>1. StateOf(e) = StateOf(mail[m]) /\ RouteFor(e) = RouteFor(mail[m])
    BY DEF StateOf, RouteFor, Kept
  <1> QED BY <1>1, SeenStill

\* An origin is an address.
LEMMA OriginIsText == \A o \in Origins : o # <<>>
  BY OriginsAssumption DEF OriginOK

\* Mail begins with the empty route.
LEMMA SubmitPath ==
  ASSUME IInv, OnPath, NEW m \in Mail, Submit(m)
  PROVE  OnPath' /\ PromiseStep
PROOF
  <1> DEFINE e(o) == [mail[m] EXCEPT !.state = "transit",
                                     !.origin = o, !.sender = o]
  <1>1. PICK o \in Origins : mail' = [mail EXCEPT ![m] = e(o)]
    BY DEF Submit
  <1>2. DOMAIN mail[m] = Fields /\ mail[m].state = "new" /\ srs' = srs
        /\ mail[m].origin = <<>> /\ mail[m].sender = <<>>
    BY DEF IInv, EnvelopeOK, Submit, OnPath, PathOK
  <1>3. e(o).state = "transit" /\ e(o).origin = o /\ e(o).sender = o
    BY <1>2 DEF Fields
  <1> DEFINE f == e(o)
  <1> HIDE DEF e
  <1>4. \E u, h, p : Shape(o, u, h) /\ Path(o, o, u, h, p)
    BY OriginsAssumption, OriginShape DEF Path
  <1>5. PathOK(f)
    BY <1>3, <1>4 DEF PathOK
  <1>6. /\ OnPath'
        /\ state_' = [state_ EXCEPT ![m] = StateOf(f)]
        /\ route_' = [route_ EXCEPT ![m] = RouteFor(f)]
    BY <1>1, <1>2, <1>5, SeenStep
  <1>7. ~Tagged(<<>>, "SRS0") /\ ~Tagged(<<>>, "SRS1")
    BY DEF Tagged, HasTag
  <1>8. StateOf(mail[m]) = "new" /\ RouteFor(mail[m]) = <<>>
    BY <1>2, <1>7 DEF StateOf, RouteFor, Kept, RouteOf
  <1>9. RouteFor(f) = <<>>
    BY <1>3, OriginIsText DEF RouteFor, Kept, RouteOf, SRS_IS_SRS_ADDRESS
  <1>10. CASE Kept(f)
    <2>1. StateOf(f) = "transit"
      BY <1>3, <1>10 DEF StateOf
    <2>2. state_[m] = "new" /\ route_[m] = <<>>
      BY <1>8, SeenAs
    <2>3. UNCHANGED route_
      BY <1>6, <1>9, <2>2 DEF route_
    <2>4. Promise!Submit(m)
      BY <1>6, <2>1, <2>2, <2>3 DEF Promise!Submit, Promise!Move, state_, route_
    <2> QED BY <1>6, <2>4 DEF PromiseStep, Promise!Next
  <1>11. CASE ~Kept(f)
    <2>1. StateOf(f) = "new"
      BY <1>11 DEF StateOf
    <2>2. UNCHANGED <<state_, route_>>
      BY <1>6, <1>8, <1>9, <2>1, SeenStill
    <2> QED BY <1>6, <2>2 DEF PromiseStep
  <1> QED BY <1>10, <1>11

\* Forwarding is Rewrite of ReturnPath, or nothing, or GiveUp.
LEMMA ForwardPath ==
  ASSUME IInv, OnPath, NEW m \in Mail, NEW r \in Relays, Forward(m, r)
  PROVE  OnPath' /\ PromiseStep
PROOF
  <1> DEFINE e       == mail[m]
             ok(ans) == ans.ret = "SRS_SUCCESS"
             f(ans)  == [e EXCEPT
                 !.state  = IF ok(ans) THEN "transit" ELSE "unsent",
                 !.sender = IF ok(ans) THEN ans.out ELSE @,
                 !.trail  = IF ok(ans) /\ ans.out # e.sender
                            THEN Append(@, Entry(r)) ELSE @,
                 !.code   = ans.ret]
  <1>1. PICK call \in ForwardCalls(r, e.sender) :
           mail' = [mail EXCEPT ![m] = f(call.ans)]
    BY DEF Forward
  <1>2. PICK len : call.ans = srs_forward(srs[r], len, e.sender, Alias(r), clock)
    BY DEF ForwardCalls, srs_forward_alloc
  <1>3. /\ DOMAIN e = Fields /\ e.state = "transit" /\ e.origin # <<>>
        /\ Known(srs[r]) /\ srs[r].separator # Nul /\ srs' = srs
    BY HandlesKnown, OriginIsText DEF IInv, EnvelopeOK, Forward, OnPath
  <1> DEFINE ans == call.ans
             g   == f(ans)
  <1>4. /\ g.state = IF ok(ans) THEN "transit" ELSE "unsent"
        /\ g.sender = IF ok(ans) THEN ans.out ELSE e.sender
        /\ g.origin = e.origin
    BY <1>3 DEF Fields
  <1> HIDE DEF f
  <1>5. CASE ~Kept(e)
    <2>1. PathOK(g)
      BY <1>3, <1>4, <1>5 DEF PathOK, Kept
    <2>2. /\ OnPath'
          /\ state_' = [state_ EXCEPT ![m] = StateOf(g)]
          /\ route_' = [route_ EXCEPT ![m] = RouteFor(g)]
      BY <1>1, <1>3, <2>1, SeenStep
    <2> QED BY <1>4, <1>5, <2>2, Unkept DEF PromiseStep
  <1>6. CASE Kept(e)
    <2>1. ~SRS_IS_SRS_ADDRESS(e.origin)
      BY <1>3, <1>6 DEF Kept
    <2>2. PICK u, h, p : /\ Shape(e.origin, u, h)
                         /\ Path(e.sender, e.origin, u, h, p)
      BY <1>3, <2>1 DEF OnPath, PathOK
    <2> DEFINE next == IF p = <<>> THEN <<r>> ELSE <<p[1], r>>
    <2>3. ok(ans) => \/ ans.out = e.sender
                     \/ Path(ans.out, e.origin, u, h, next)
      BY <1>2, <1>3, <2>1, <2>2, PathForward
    <2> HIDE DEF ans, next
    <2>4. PathOK(g)
      BY <1>4, <2>2, <2>3 DEF PathOK
    <2>5. /\ OnPath'
          /\ state_' = [state_ EXCEPT ![m] = StateOf(g)]
          /\ route_' = [route_ EXCEPT ![m] = RouteFor(g)]
      BY <1>1, <1>3, <2>4, SeenStep DEF ans
    <2>6. state_[m] = "transit" /\ route_[m] = p /\ RouteOf(e.sender) = p
      BY <1>3, <1>6, <2>1, <2>2, SeenAs, PathRoute DEF StateOf, RouteFor
    <2>7. StateOf(g) = g.state /\ RouteFor(g) = RouteOf(g.sender)
      BY <1>4, <1>6 DEF StateOf, RouteFor, Kept
    <2> HIDE DEF g
    <2>8. CASE ~ok(ans)
      <3>1. StateOf(g) = "unsent" /\ RouteFor(g) = p
        BY <1>4, <2>6, <2>7, <2>8
      <3>2. UNCHANGED route_
        BY <2>5, <2>6, <3>1 DEF route_
      <3>3. Promise!GiveUp(m)
        BY <2>5, <2>6, <3>1, <3>2
           DEF Promise!GiveUp, Promise!Move, state_, route_
      <3> QED BY <2>5, <3>3 DEF PromiseStep, Promise!Next
    <2>9. CASE ok(ans) /\ ans.out = e.sender
      <3>1. StateOf(g) = StateOf(e) /\ RouteFor(g) = RouteFor(e)
        BY <1>3, <1>4, <1>6, <2>7, <2>9 DEF StateOf, RouteFor
      <3> QED BY <2>5, <3>1, SeenStill DEF PromiseStep
    <2>10. CASE ok(ans) /\ Path(ans.out, e.origin, u, h, next)
      <3>1. StateOf(g) = "transit" /\ RouteFor(g) = next
        BY <1>4, <2>1, <2>2, <2>7, <2>10, PathRoute
      <3>2. UNCHANGED state_
        BY <2>5, <2>6, <3>1 DEF state_
      <3>3. route_' = [route_ EXCEPT ![m] = IF @ = <<>> THEN <<r>> ELSE <<@[1], r>>]
        BY <2>5, <2>6, <3>1 DEF next
      <3>4. Promise!Rewrite(m, r)
        BY <2>6, <3>2, <3>3 DEF Promise!Rewrite, state_, route_
      <3> QED BY <2>5, <3>4 DEF PromiseStep, Promise!Next
    <2> QED BY <2>3, <2>8, <2>9, <2>10
  <1> QED BY <1>5, <1>6

\* A bounce begins where the mail was.
LEMMA BouncePath ==
  ASSUME IInv, OnPath, NEW m \in Mail, Bounce(m)
  PROVE  OnPath' /\ PromiseStep
PROOF
  <1> DEFINE e == mail[m]
             g == [e EXCEPT !.state = "bounce"]
  <1>1. /\ DOMAIN e = Fields /\ e.state = "transit" /\ srs' = srs
        /\ mail' = [mail EXCEPT ![m] = g]
    BY DEF IInv, EnvelopeOK, Bounce
  <1>2. g.state = "bounce" /\ g.sender = e.sender /\ g.origin = e.origin
    BY <1>1 DEF Fields
  <1> HIDE DEF g
  <1>3. PathOK(g)
    BY <1>1, <1>2 DEF OnPath, PathOK
  <1>4. /\ OnPath'
        /\ state_' = [state_ EXCEPT ![m] = StateOf(g)]
        /\ route_' = [route_ EXCEPT ![m] = RouteFor(g)]
    BY <1>1, <1>3, SeenStep
  <1>5. CASE ~Kept(e)
    BY <1>2, <1>4, <1>5, Unkept DEF PromiseStep
  <1>6. CASE Kept(e)
    <2>1. /\ StateOf(g) = "bounce" /\ RouteFor(g) = RouteFor(e)
          /\ state_[m] = "transit" /\ route_[m] = RouteFor(e)
      BY <1>1, <1>2, <1>6, SeenAs DEF StateOf, RouteFor, Kept
    <2>2. UNCHANGED route_
      BY <1>4, <2>1 DEF route_
    <2>3. Promise!Bounce(m)
      BY <1>4, <2>1, <2>2 DEF Promise!Bounce, Promise!Move, state_, route_
    <2> QED BY <1>4, <2>3 DEF PromiseStep, Promise!Next
  <1> QED BY <1>5, <1>6

\* The end of a bounce: lost, or given back at the end of its route.
LEMMA EndPath ==
  ASSUME IInv, OnPath, NEW m \in Mail, NEW g, mail[m].state = "bounce",
         g.origin = mail[m].origin, g.sender = mail[m].sender,
         g.state \in {"lost", "returned"},
         g.state = "returned" => g.sender = g.origin,
         mail' = [mail EXCEPT ![m] = g], srs' = srs
  PROVE  OnPath' /\ PromiseStep
PROOF
  <1> DEFINE e == mail[m]
  <1>1. PathOK(g)
    BY DEF PathOK
  <1>2. /\ OnPath'
        /\ state_' = [state_ EXCEPT ![m] = StateOf(g)]
        /\ route_' = [route_ EXCEPT ![m] = RouteFor(g)]
    BY <1>1, SeenStep
  <1>3. CASE ~Kept(e)
    BY <1>2, <1>3, Unkept DEF PromiseStep
  <1>4. CASE Kept(e)
    <2>1. /\ StateOf(g) = g.state /\ RouteFor(g) = RouteFor(e)
          /\ state_[m] = "bounce" /\ route_[m] = RouteFor(e)
      BY <1>4, SeenAs DEF StateOf, RouteFor, Kept
    <2>2. UNCHANGED route_
      BY <1>2, <2>1 DEF route_
    <2>3. CASE g.state = "lost"
      <3>1. Promise!Lose(m)
        BY <1>2, <2>1, <2>2, <2>3 DEF Promise!Lose, Promise!Move, state_, route_
      <3> QED BY <1>2, <3>1 DEF PromiseStep, Promise!Next
    <2>4. CASE g.state = "returned"
      <3>1. e.origin # <<>>
        BY OriginIsText DEF IInv, EnvelopeOK
      <3>2. RouteFor(e) = <<>>
        BY <1>4, <2>4, <3>1 DEF RouteFor, Kept, RouteOf, SRS_IS_SRS_ADDRESS
      <3>3. Promise!GiveBack(m)
        BY <1>2, <2>1, <2>2, <2>4, <3>2
           DEF Promise!GiveBack, Promise!Move, state_, route_
      <3> QED BY <1>2, <3>3 DEF PromiseStep, Promise!Next
    <2> QED BY <2>3, <2>4
  <1> QED BY <1>3, <1>4

\* A reversal is Unwind of ReturnPath, or the end of the bounce.
LEMMA ReversePath ==
  ASSUME IInv, OnPath, NEW m \in Mail, NEW r \in Relays, ReverseBounce(m, r)
  PROVE  OnPath' /\ PromiseStep
PROOF
  <1> DEFINE e       == mail[m]
             ok(ans) == ans.ret = "SRS_SUCCESS"
             f(ans)  == [e EXCEPT
                 !.state  = IF ok(ans) THEN "bounce"
                            ELSE IF ans.ret = "SRS_ENOTSRSADDRESS" THEN "returned"
                            ELSE "lost",
                 !.sender = IF ok(ans) THEN ans.out ELSE @,
                 !.laps   = IF ok(ans) THEN @ + 1 ELSE @,
                 !.code   = ans.ret]
  <1>1. PICK call \in ReverseCalls(r, e.sender) :
           mail' = [mail EXCEPT ![m] = f(call.ans)]
    BY DEF ReverseBounce
  <1>2. PICK len : call.ans = srs_reverse(srs[r], len, e.sender, clock)
    BY DEF ReverseCalls, srs_reverse_alloc
  <1>3. /\ EnvelopeOK(e) /\ DOMAIN e = Fields /\ e.state = "bounce"
        /\ e.origin # <<>> /\ Known(srs[r]) /\ srs' = srs
        /\ From(e.sender, StrChr(e.sender, 1, At) + 1) = <<Name(r)>>
    BY HandlesKnown, OriginIsText
       DEF IInv, EnvelopeOK, ReverseBounce, SenderHost
  <1> DEFINE ans == call.ans
             g   == f(ans)
             n   == 2 - e.laps
  <1>4. /\ g.state = IF ok(ans) THEN "bounce"
                     ELSE IF ans.ret = "SRS_ENOTSRSADDRESS" THEN "returned"
                     ELSE "lost"
        /\ g.sender = IF ok(ans) THEN ans.out ELSE e.sender
        /\ g.origin = e.origin
    BY <1>3 DEF Fields
  <1> HIDE DEF f
  <1>5. CASE ~ok(ans)
    <2>1. PICK u, h : Shape(e.origin, u, h) /\ Reach(e.sender, e.origin, u, h, n)
      BY <1>3 DEF EnvelopeOK
    <2>2. n \in 0..2
      BY <1>3 DEF EnvelopeOK
    <2> HIDE DEF n
    <2>3. ans.ret = "SRS_ENOTSRSADDRESS" => e.sender = e.origin
      BY <1>2, <1>3, <2>1, <2>2, ReverseStep
    <2> HIDE DEF ans
    <2>4. /\ g.state \in {"lost", "returned"} /\ g.sender = e.sender
          /\ g.state = "returned" => g.sender = g.origin
      BY <1>4, <1>5, <2>3
    <2> QED BY <1>1, <1>3, <1>4, <2>4, EndPath DEF ans
  <1>6. CASE ok(ans) /\ ~Kept(e)
    <2>1. PathOK(g)
      BY <1>3, <1>4, <1>6 DEF PathOK, Kept
    <2>2. /\ OnPath'
          /\ state_' = [state_ EXCEPT ![m] = StateOf(g)]
          /\ route_' = [route_ EXCEPT ![m] = RouteFor(g)]
      BY <1>1, <1>3, <2>1, SeenStep
    <2> QED BY <1>4, <1>6, <2>2, Unkept DEF PromiseStep
  <1>7. CASE ok(ans) /\ Kept(e)
    <2>1. ~SRS_IS_SRS_ADDRESS(e.origin)
      BY <1>3, <1>7 DEF Kept
    <2>2. PICK u, h, p : /\ Shape(e.origin, u, h)
                         /\ Path(e.sender, e.origin, u, h, p)
      BY <1>3, <2>1 DEF OnPath, PathOK
    <2> DEFINE next == SubSeq(p, 1, Len(p) - 1)
    <2>3. p # <<>> /\ Path(ans.out, e.origin, u, h, next)
      BY <1>2, <1>3, <1>7, <2>2, PathReverse
    <2> HIDE DEF ans, next
    <2>4. PathOK(g)
      BY <1>4, <1>7, <2>2, <2>3 DEF PathOK
    <2>5. /\ OnPath'
          /\ state_' = [state_ EXCEPT ![m] = StateOf(g)]
          /\ route_' = [route_ EXCEPT ![m] = RouteFor(g)]
      BY <1>1, <1>3, <2>4, SeenStep DEF ans
    <2>6. state_[m] = "bounce" /\ route_[m] = p
      BY <1>3, <1>7, <2>1, <2>2, SeenAs, PathRoute DEF StateOf, RouteFor
    <2>7. StateOf(g) = g.state /\ RouteFor(g) = RouteOf(g.sender)
      BY <1>4, <1>7 DEF StateOf, RouteFor, Kept
    <2> HIDE DEF g
    <2>8. StateOf(g) = "bounce" /\ RouteFor(g) = next
      BY <1>4, <1>7, <2>1, <2>2, <2>3, <2>7, PathRoute
    <2>9. UNCHANGED state_
      BY <2>5, <2>6, <2>8 DEF state_
    <2>10. route_' = [route_ EXCEPT ![m] = SubSeq(@, 1, Len(@) - 1)]
      BY <2>5, <2>6, <2>8 DEF next
    <2>11. Promise!Unwind(m)
      BY <2>3, <2>6, <2>9, <2>10 DEF Promise!Unwind, state_, route_
    <2> QED BY <2>5, <2>11 DEF PromiseStep, Promise!Next
  <1> QED BY <1>5, <1>6, <1>7

\* What is handed over is at the end of its route.
LEMMA HandOverPath ==
  ASSUME IInv, OnPath, NEW m \in Mail, HandOver(m)
  PROVE  OnPath' /\ PromiseStep
PROOF
  <1> DEFINE e == mail[m]
             g == [e EXCEPT !.state = IF StrChr(e.sender, 1, At) = 0 THEN "lost"
                                      ELSE "returned"]
  <1>1. /\ mail' = [mail EXCEPT ![m] = g] /\ srs' = srs
        /\ EnvelopeOK(e) /\ DOMAIN e = Fields /\ e.state = "bounce"
        /\ \A r \in Relays :
             From(e.sender, StrChr(e.sender, 1, At) + 1) # <<Name(r)>>
    BY DEF IInv, EnvelopeOK, HandOver, SenderHost
  <1>2. StrChr(e.sender, 1, At) # 0 => e.sender = e.origin
    <2>1. PICK u, h : /\ Shape(e.origin, u, h)
                      /\ Reach(e.sender, e.origin, u, h, 2 - e.laps)
      BY <1>1 DEF EnvelopeOK
    <2> QED BY <1>1, <2>1, HandOverStep
  <1>3. /\ g.origin = e.origin /\ g.sender = e.sender
        /\ g.state \in {"lost", "returned"}
        /\ g.state = "returned" => g.sender = g.origin
    BY <1>1, <1>2 DEF Fields
  <1> HIDE DEF g
  <1> QED BY <1>1, <1>3, EndPath

\* What an operator does changes no route and sets no terminator.
LEMMA OperatePath ==
  ASSUME IInv, OnPath, Nul \notin SeparatorArgs, NEW r \in Relays, Operate(r)
  PROVE  OnPath' /\ PromiseStep
PROOF
  <1>1. ASSUME NEW handle, Set(r, handle), handle.separator # Nul
        PROVE  OnPath' /\ PromiseStep
    <2>1. /\ mail' = mail
          /\ \A k \in Relays : srs'[k].separator # Nul
      BY <1>1 DEF Set, IInv, OnPath
    <2>2. OnPath'
      BY <2>1 DEF OnPath, PathOK
    <2>3. UNCHANGED <<state_, route_>>
      BY <2>1 DEF state_, route_, Promised, Route
    <2> QED BY <2>2, <2>3 DEF PromiseStep
  <1>2. srs[r] \in Handles /\ srs[r].separator # Nul
    BY DEF IInv, OnPath
  <1>3. \A file \in SecretFiles :
          /\ srs_add_secret(srs[r], file[1]).separator # Nul
          /\ NewHandle(file).separator # Nul
    BY <1>2, TokensDiffer DEF Handles, srs_add_secret, NewHandle, srs_init
  <1>4. \A c \in SeparatorArgs : srs_set_separator(srs[r], c).separator # Nul
    BY <1>2 DEF Handles, srs_set_separator
  <1>5. \A v : /\ [srs[r] EXCEPT !.maxage = v].separator # Nul
               /\ [srs[r] EXCEPT !.hashlength = v].separator # Nul
               /\ [srs[r] EXCEPT !.hashmin = v].separator # Nul
               /\ [srs[r] EXCEPT !.alwaysrewrite = v].separator # Nul
    BY <1>2 DEF Handles
  <1> QED BY <1>1, <1>3, <1>4, <1>5
          DEF Operate, AddSecret, Restart, SetSeparator, SetMaxage,
              SetHashlength, SetHashmin, SetAlwaysrewrite

\* Every step is one of ReturnPath or none.
LEMMA PathStep ==
  ASSUME Nul \notin SeparatorArgs, IInv, OnPath, [Next]_vars
  PROVE  OnPath' /\ PromiseStep
PROOF
  <1>1. CASE Tick \/ SlipBack \/ UNCHANGED vars
    <2>1. srs' = srs /\ mail' = mail
      BY <1>1 DEF Tick, SlipBack, vars
    <2>2. OnPath'
      BY <2>1 DEF OnPath, PathOK
    <2>3. UNCHANGED <<state_, route_>>
      BY <2>1 DEF state_, route_, Promised, Route
    <2> QED BY <2>2, <2>3 DEF PromiseStep
  <1> QED BY <1>1, SubmitPath, ForwardPath, BouncePath, ReversePath,
             HandOverPath, OperatePath DEF Next, Carry

\* At the start all mail is new and every separator the one of srs_init().
LEMMA PathInit == Init => OnPath /\ Promise!Init
PROOF
  <1> SUFFICES ASSUME Init PROVE OnPath /\ Promise!Init
    OBVIOUS
  <1>1. \A m \in Mail : mail[m] = Blank
    BY DEF Init
  <1>2. \A r \in Relays : srs[r].separator # Nul
    BY TokensDiffer DEF Init, NewHandle, srs_init
  <1>3. \A m \in Mail : state_[m] = "new" /\ route_[m] = <<>>
    <2>1. ~Tagged(<<>>, "SRS0") /\ ~Tagged(<<>>, "SRS1")
      BY DEF Tagged, HasTag
    <2>2. Blank.state = "new" /\ Blank.origin = <<>> /\ Blank.sender = <<>>
      BY DEF Blank
    <2>3. StateOf(Blank) = "new" /\ RouteFor(Blank) = <<>>
      BY <2>1, <2>2 DEF StateOf, RouteFor, Kept, RouteOf
    <2> QED BY <1>1, <2>3, SeenAs
  <1> QED BY <1>1, <1>2, <1>3
          DEF OnPath, PathOK, Blank, Promise!Init, state_, route_

\* Whatever relays mail from a plain address goes through, in whatever order and
\* with whatever done to their handles and clocks meanwhile, its bounce takes
\* the way that ReturnPath says: back to the last relay, from there to the first,
\* and to the sender, or it is lost.  No relay may have '\0' for a separator,
\* which ends what srs_compile_shortcut() and srs_compile_guarded() write.
THEOREM PromiseKept == ASSUME Nul \notin SeparatorArgs PROVE Spec => KeepsPromise
PROOF
  <1>1. IInv /\ OnPath /\ [Next]_vars => OnPath' /\ [Promise!Next]_(Promise!vars)
    BY PathStep DEF PromiseStep, Promise!vars, state_, route_
  <1>2. Init => OnPath /\ Promise!Init
    BY PathInit
  <1> QED BY <1>1, <1>2, Invariant, PTL DEF Spec, KeepsPromise, Promise!Spec
-----------------------------------------------------------------------------
(* Buffers *)

\* Every sender is made of tokens that have a length.
Lengths == \A m \in Mail : Measured(mail[m].sender)

\* Nobody starts mail with a hash, so an origin has a length.
LEMMA OriginMeasured ==
  ASSUME NEW o \in Origins
  PROVE  Measured(o)
PROOF
  <1>1. OriginOK(o)
    BY OriginsAssumption
  <1>2. IsText(o) /\ Len(o) \in Nat /\ Len(o) >= 3
    BY <1>1, TextIndex DEF OriginOK, IsText
  <1>3. ASSUME NEW i \in 1..Len(o) PROVE TokenLen(o[i]) \in Nat
    <2>1. CASE i = Len(o) - 1
      BY <1>1, <2>1, TokenLens DEF OriginOK
    <2>2. CASE i = Len(o)
      BY <1>1, <2>2, TokenLens, NameLenAssumption DEF OriginOK
    <2>3. CASE i < Len(o) - 1
      <3>1. i \in 1..(Len(o) - 2)
        BY <1>2, <2>3
      <3>2. o[i].kind # "hash"
        BY <1>1, <3>1 DEF OriginOK
      <3> QED BY <3>2, OthersMeasured
    <2> QED BY <1>2, <2>1, <2>2, <2>3
  <1> QED BY <1>2, <1>3 DEF Measured

\* The room that both ways into the library are given is a number.
LEMMA ForwardRoom ==
  ASSUME NEW r, NEW s, Measured(s), Known(srs[r]), NEW call \in ForwardCalls(r, s)
  PROVE  /\ call.room \in Int
         /\ call.ans = srs_forward(srs[r], call.room, s, Aliased(r), clock)
PROOF
  <1>1. StrLen(s) \in Nat /\ StrLen(Alias(r)) \in Nat
    BY StrLenType, AliasLen, AliasIsAliased, NameLenAssumption
  <1>2. AllocLen(srs[r], s, Alias(r)) \in Int
    BY <1>1 DEF AllocLen, SRS_TIME_SIZE, Known
  <1>3. CASE \E len \in BufLens :
               call = [room |-> len,
                       ans |-> srs_forward(srs[r], len, s, Alias(r), clock)]
    BY <1>3, NumbersAssumption, AliasIsAliased
  <1>4. CASE call = [room |-> AllocLen(srs[r], s, Alias(r)),
                     ans |-> srs_forward_alloc(srs[r], s, Alias(r), clock)]
    BY <1>2, <1>4, AliasIsAliased DEF srs_forward_alloc
  <1> QED BY <1>3, <1>4 DEF ForwardCalls

\* The same for srs_reverse() and srs_reverse_alloc().
LEMMA ReverseRoom ==
  ASSUME NEW r, NEW s, Measured(s), NEW call \in ReverseCalls(r, s)
  PROVE  /\ call.room \in Int
         /\ call.ans = srs_reverse(srs[r], call.room, s, clock)
PROOF
  <1>1. StrLen(s) + 1 \in Int
    BY StrLenType
  <1>2. BufLens \subseteq Int
    BY NumbersAssumption
  <1>3. CASE \E len \in BufLens :
               call = [room |-> len, ans |-> srs_reverse(srs[r], len, s, clock)]
    BY <1>2, <1>3
  <1>4. CASE call = [room |-> StrLen(s) + 1,
                     ans |-> srs_reverse_alloc(srs[r], s, clock)]
    BY <1>1, <1>4 DEF srs_reverse_alloc
  <1> QED BY <1>3, <1>4 DEF ReverseCalls

\* Forwarding keeps lengths and the room it has.
LEMMA ForwardCallFits ==
  ASSUME IInv, NEW r \in Relays, NEW s, Measured(s),
         NEW call \in ForwardCalls(r, s), call.ans.ret = "SRS_SUCCESS"
  PROVE  Measured(call.ans.out) /\ StrLen(call.ans.out) < call.room
PROOF
  <1>1. Known(srs[r])
    BY HandlesKnown DEF IInv
  <1>2. /\ call.room \in Int
        /\ call.ans = srs_forward(srs[r], call.room, s, Aliased(r), clock)
    BY <1>1, ForwardRoom
  <1> QED BY <1>1, <1>2, ForwardFits

\* So does reversal.
LEMMA ReverseCallFits ==
  ASSUME NEW r, NEW s, Measured(s),
         NEW call \in ReverseCalls(r, s), call.ans.ret = "SRS_SUCCESS"
  PROVE  Measured(call.ans.out) /\ StrLen(call.ans.out) < call.room
  BY ReverseRoom, ReverseFits

\* What every sender has, the sender of a step's envelope has too.
LEMMA LengthsKeep ==
  ASSUME IInv, Lengths, NEW m \in Mail, NEW e, Measured(e.sender),
         mail' = [mail EXCEPT ![m] = e]
  PROVE  Lengths'
PROOF
  <1>1. \A k \in Mail : mail'[k] = IF k = m THEN e ELSE mail[k]
    BY DEF IInv
  <1>2. \A k \in Mail : Measured(mail'[k].sender)
    BY <1>1 DEF Lengths
  <1> QED BY <1>2 DEF Lengths

\* Every step keeps the senders measured.
LEMMA LengthsStep == IInv /\ Lengths /\ [Next]_vars => Lengths'
PROOF
  <1> SUFFICES ASSUME IInv, Lengths, [Next]_vars PROVE Lengths'
    OBVIOUS
  <1>1. ASSUME NEW m \in Mail, Submit(m) PROVE Lengths'
    <2> DEFINE f(o) == [mail[m] EXCEPT !.state = "transit",
                                       !.origin = o, !.sender = o]
    <2>1. PICK o \in Origins : mail' = [mail EXCEPT ![m] = f(o)]
      BY <1>1 DEF Submit
    <2>2. f(o).sender = o
      BY DEF IInv, EnvelopeOK, Fields
    <2> HIDE DEF f
    <2> QED BY <2>1, <2>2, OriginMeasured, LengthsKeep
  <1>2. ASSUME NEW m \in Mail, Bounce(m) \/ HandOver(m) PROVE Lengths'
    <2> DEFINE f(st) == [mail[m] EXCEPT !.state = st]
    <2>1. PICK st : mail' = [mail EXCEPT ![m] = f(st)]
      BY <1>2 DEF Bounce, HandOver
    <2>2. f(st).sender = mail[m].sender
      BY DEF IInv, EnvelopeOK, Fields
    <2> HIDE DEF f
    <2> QED BY <2>1, <2>2, LengthsKeep DEF Lengths
  <1>3. ASSUME NEW m \in Mail, NEW r \in Relays, Forward(m, r) PROVE Lengths'
    <2> DEFINE e == mail[m]
               f(ans) == [e EXCEPT
                 !.state  = IF ans.ret = "SRS_SUCCESS" THEN "transit" ELSE "unsent",
                 !.sender = IF ans.ret = "SRS_SUCCESS" THEN ans.out ELSE @,
                 !.trail  = IF ans.ret = "SRS_SUCCESS" /\ ans.out # e.sender
                            THEN Append(@, Entry(r)) ELSE @,
                 !.code   = ans.ret]
    <2>1. PICK call \in ForwardCalls(r, e.sender) :
             mail' = [mail EXCEPT ![m] = f(call.ans)]
      BY <1>3 DEF Forward
    <2>2. f(call.ans).sender = IF call.ans.ret = "SRS_SUCCESS" THEN call.ans.out
                               ELSE e.sender
      BY DEF IInv, EnvelopeOK, Fields
    <2>3. Measured(e.sender)
      BY DEF Lengths
    <2> HIDE DEF f, e
    <2>4. Measured(f(call.ans).sender)
      BY <2>1, <2>2, <2>3, ForwardCallFits
    <2> QED BY <2>1, <2>4, LengthsKeep
  <1>4. ASSUME NEW m \in Mail, NEW r \in Relays, ReverseBounce(m, r) PROVE Lengths'
    <2> DEFINE e == mail[m]
               ok(ans) == ans.ret = "SRS_SUCCESS"
               f(ans)  == [e EXCEPT
                 !.state  = IF ok(ans) THEN "bounce"
                            ELSE IF ans.ret = "SRS_ENOTSRSADDRESS" THEN "returned"
                            ELSE "lost",
                 !.sender = IF ok(ans) THEN ans.out ELSE @,
                 !.laps   = IF ok(ans) THEN @ + 1 ELSE @,
                 !.code   = ans.ret]
    <2>1. PICK call \in ReverseCalls(r, e.sender) :
             mail' = [mail EXCEPT ![m] = f(call.ans)]
      BY <1>4 DEF ReverseBounce
    <2>2. f(call.ans).sender = IF call.ans.ret = "SRS_SUCCESS" THEN call.ans.out
                               ELSE e.sender
      BY DEF IInv, EnvelopeOK, Fields
    <2>3. Measured(e.sender)
      BY DEF Lengths
    <2> HIDE DEF f, e
    <2>4. Measured(f(call.ans).sender)
      BY <2>1, <2>2, <2>3, ReverseCallFits
    <2> QED BY <2>1, <2>4, LengthsKeep
  <1>5. ASSUME NEW r \in Relays, Operate(r) PROVE Lengths'
    <2>1. mail' = mail
      BY <1>5 DEF Operate, AddSecret, Restart, SetSeparator, SetMaxage,
                  SetHashlength, SetHashmin, SetAlwaysrewrite, Set
    <2> QED BY <2>1 DEF Lengths
  <1>6. CASE Tick \/ SlipBack \/ UNCHANGED vars
    <2>1. mail' = mail
      BY <1>6 DEF Tick, SlipBack, vars
    <2> QED BY <2>1 DEF Lengths
  <1> QED BY <1>1, <1>2, <1>3, <1>4, <1>5, <1>6 DEF Next, Carry

\* New mail has no sender yet.
LEMMA LengthsInit == Init => Lengths
PROOF
  <1> SUFFICES ASSUME Init, NEW m \in Mail PROVE Measured(mail[m].sender)
    BY DEF Lengths
  <1>1. mail[m] = Blank
    BY DEF Init
  <1>2. mail[m].sender = <<>>
    BY <1>1 DEF Blank
  <1> QED BY <1>2, StrLenEmpty

\* Measured senders and known handles are all that BufferRespected needs.
LEMMA FitsEverywhere == IInv /\ Lengths => BufferRespected
PROOF
  <1> SUFFICES ASSUME IInv, Lengths, NEW m \in Mail, NEW r \in Relays,
                      NEW call \in ForwardCalls(r, mail[m].sender)
                                     \cup ReverseCalls(r, mail[m].sender),
                      call.ans.ret = "SRS_SUCCESS"
               PROVE  StrLen(call.ans.out) < call.room
    BY DEF BufferRespected
  <1>1. PICK s : s = mail[m].sender
    OBVIOUS
  <1>2. Measured(s)
    BY <1>1 DEF Lengths
  <1> QED BY <1>1, <1>2, ForwardCallFits, ReverseCallFits

\* Whatever the relays, secrets, lengths and buffers, and whatever a sender went
\* through: what srs_forward() and srs_reverse() write, with its terminator,
\* fits into the buffer, and what the _alloc calls allocate is enough for it.
THEOREM Fits == Spec => []BufferRespected
  BY LengthsInit, LengthsStep, Invariant, FitsEverywhere, PTL DEF Spec

\* A sender is an address with one host, or was ended behind its tag.
LEMMA SenderForms ==
  ASSUME NEW s, NEW o, NEW u, NEW h, NEW n, Shape(o, u, h), Reach(s, o, u, h, n)
  PROVE  \/ \E w, r : Local(w) /\ Addr(s, w, r)
         \/ \E t : s = <<Tag(t)>>
  BY DEF Reach, Shape, Once, Twice, Dead, S0User, S1User, Broken

\* What is allocated for an address on its way is enough for it.
LEMMA RoomyEverywhere == IInv /\ Lengths => AllocRoomy
PROOF
  <1> SUFFICES ASSUME IInv, Lengths, NEW m \in Mail, NEW r \in Relays,
                      mail[m].state = "transit", ~Tagged(mail[m].sender, "SRS1")
               PROVE  srs_forward_alloc(srs[r], mail[m].sender, Alias(r), clock).ret
                        # "SRS_EBUFTOOSMALL"
    BY DEF AllocRoomy
  <1>1. PICK s : s = mail[m].sender
    OBVIOUS
  <1>2. Measured(s) /\ Known(srs[r])
    BY <1>1, HandlesKnown DEF Lengths, IInv
  <1>3. \/ \E w, q : Local(w) /\ Addr(s, w, q)
        \/ \E t : s = <<Tag(t)>>
    BY <1>1, SenderForms DEF IInv, EnvelopeOK
  <1>4. ASSUME NEW w, NEW q, Local(w), Addr(s, w, q)
        PROVE  srs_forward_alloc(srs[r], s, Alias(r), clock).ret
                 # "SRS_EBUFTOOSMALL"
    BY <1>1, <1>2, <1>4, AllocEnough, AliasIsAliased
  <1>5. ASSUME NEW t, s = <<Tag(t)>>
        PROVE  srs_forward_alloc(srs[r], s, Alias(r), clock).ret
                 # "SRS_EBUFTOOSMALL"
    BY <1>5, CutHasNoHost DEF srs_forward_alloc, srs_forward, Fail
  <1> QED BY <1>1, <1>3, <1>4, <1>5

\* The room that srs_forward_alloc() takes is enough for every sender that is no
\* SRS1 address, whatever it went through and whatever the hash length.
THEOREM Roomy == Spec => []AllocRoomy
  BY LengthsInit, LengthsStep, Invariant, RoomyEverywhere, PTL DEF Spec
-----------------------------------------------------------------------------
(* Hashes and stamps: which rewriting wrote what a sender carries *)

\* s is the SRS0 address that rewriting i made of u at h.
OnceBy(s, u, h, i) ==
    \E w : \E r \in Relays :
      /\ S0User(w, u, h) /\ Addr(s, w, r)
      /\ Stamped(w, u, h, i.key, i.len, i.time)

\* s is the SRS1 address that rewriting i made of the SRS0 address x at a.
AroundBy(s, x, a, i) ==
    \E w : \E r \in Relays :
      /\ S1User(w, x, a) /\ Addr(s, w, r)
      /\ Local(x) /\ Tagged(x, "SRS0") /\ Len(x) >= 2
      /\ Sealed(w, x, a, i.key, i.len)

\* s is the SRS1 address that rewriting j made of what i made of u at h.
TwiceBy(s, u, h, i, j) ==
    \E x : \E a \in Relays :
      /\ AroundBy(s, x, a, j) /\ S0User(x, u, h)
      /\ Stamped(x, u, h, i.key, i.len, i.time)

\* s is what rewriting i made of an SRS1 address.
BrokenBy(s, i) ==
    \E w : \E r \in Relays : Broken(w) /\ Addr(s, w, r) /\ w[3].len = i.len

CutOff(s) == \E t \in {"SRS0", "SRS1"} : s = <<Tag(t)>>

\* Sender s after the rewritings T of origin o, reversed n times since.
Written(s, o, u, h, T, n) ==
    \/ s = o /\ (n = 0 => Len(T) = 0)
    \/ n \in {0, 1} /\ Len(T) = n + 1 /\ OnceBy(s, u, h, T[1])
    \/ n = 0 /\ Len(T) = 1 /\ AroundBy(s, u, h, T[1])
    \/ n = 0 /\ Len(T) = 2 /\ TwiceBy(s, u, h, T[1], T[2])
    \/ n = 0 /\ Foreign(o) + Len(T) >= 3 /\ BrokenBy(s, T[Len(T)])
    \/ CutOff(s)

Issued(e) ==
    /\ e.state = "new" => Len(e.trail) = 0
    /\ \A k \in 1..Len(e.trail) : /\ e.trail[k].len \in Nat \ {0}
                                  /\ e.trail[k].time \in Times
    /\ e.state \in {"transit", "bounce"} =>
         \E u, h : /\ Shape(e.origin, u, h)
                   /\ Written(e.sender, e.origin, u, h, e.trail, e.laps)

Issues == \A m \in Mail : Issued(mail[m])

\* How many rewritings by others an origin has behind it.
LEMMA ForeignCount ==
  ASSUME NEW o, NEW u, NEW h, Shape(o, u, h)
  PROVE  /\ Foreign(o) \in 0..2
         /\ Tagged(u, "SRS0") => Foreign(o) = 1
         /\ Tagged(u, "SRS1") => Foreign(o) = 2
PROOF
  <1>1. Foreign(o) \in 0..2
    BY DEF Foreign
  <1>2. IsText(u) /\ Addr(o, u, h)
    BY DEF Shape, Local, Clean
  <1>3. Tagged(u, "SRS0") => Foreign(o) = 1
    <2> SUFFICES ASSUME Tagged(u, "SRS0") PROVE Foreign(o) = 1
      OBVIOUS
    <2>1. Len(u) >= 2
      BY DEF Shape
    <2>2. Tagged(o, "SRS0")
      BY <1>2, <2>1, AddrTagged
    <2> QED BY <2>2 DEF Foreign
  <1>4. Tagged(u, "SRS1") => Foreign(o) = 2
    <2> SUFFICES ASSUME Tagged(u, "SRS1") PROVE Foreign(o) = 2
      OBVIOUS
    <2>1. Len(u) >= 2
      BY DEF Shape, Chained
    <2>2. Tagged(o, "SRS1")
      BY <1>2, <2>1, AddrTagged
    <2>3. ~Tagged(o, "SRS0")
      BY <2>2, TagsEqual DEF Tagged, HasTag
    <2> QED BY <2>2, <2>3 DEF Foreign
  <1> QED BY <1>1, <1>3, <1>4

\* A trail with one more entry.
LEMMA TrailGrows ==
  ASSUME NEW T, IsText(T), NEW i
  PROVE  /\ Len(T) \in Nat /\ Len(Append(T, i)) = Len(T) + 1
         /\ \A k \in 1..Len(T) : Append(T, i)[k] = T[k]
         /\ Append(T, i)[Len(T) + 1] = i
  BY TextIndex DEF IsText

\* Forwarding leaves a sender alone or puts one rewriting more around it.
LEMMA ForwardWrites ==
  ASSUME NEW o, NEW u, NEW h, Shape(o, u, h), NEW T, IsText(T),
         NEW s, Written(s, o, u, h, T, 0), NEW r \in Relays,
         NEW handle, Known(handle), NEW buflen, NEW now,
         NEW i, i.key = handle.secrets[1], i.len = handle.hashlength, i.time = now,
         srs_forward(handle, buflen, s, Alias(r), now).ret = "SRS_SUCCESS"
  PROVE  LET out == srs_forward(handle, buflen, s, Alias(r), now).out
         IN  out = s \/ Written(out, o, u, h, Append(T, i), 0)
PROOF
  <1> DEFINE out == srs_forward(handle, buflen, s, Aliased(r), now).out
             A   == Append(T, i)
             n   == Len(T)
  <1>1. srs_forward(handle, buflen, s, Aliased(r), now).ret = "SRS_SUCCESS"
    BY AliasIsAliased
  <1>2. SUFFICES ASSUME out # s, ~CutOff(out) PROVE Written(out, o, u, h, A, 0)
    BY AliasIsAliased DEF Written
  <1>3. /\ n \in Nat /\ Len(A) = n + 1
        /\ \A k \in 1..n : A[k] = T[k]
        /\ A[n + 1] = i
    BY TrailGrows
  <1>c. out # <<Tag("SRS0")>> /\ out # <<Tag("SRS1")>>
    BY <1>2 DEF CutOff
  <1> HIDE DEF out, A, n
  <1>4. CASE s = o /\ n = 0
    <2>0. Len(A) = 1 /\ A[1] = i
      BY <1>3, <1>4
    <2>1. CASE Unmarked(u)
      <3>1. \E w : /\ S0User(w, u, h) /\ Addr(out, w, r)
                   /\ Stamped(w, u, h, i.key, i.len, i.time)
        BY <1>1, <1>2, <1>c, <1>4, <2>1, ForwardPlain DEF Shape, Unmarked, out
      <3>2. OnceBy(out, u, h, A[1])
        BY <2>0, <3>1 DEF OnceBy
      <3> QED BY <2>0, <3>2 DEF Written
    <2>2. CASE Tagged(u, "SRS0")
      <3>1. \E w : /\ S1User(w, u, h) /\ Addr(out, w, r)
                   /\ Sealed(w, u, h, i.key, i.len)
        BY <1>1, <1>2, <1>c, <1>4, <2>2, ForwardS0 DEF Shape, out
      <3>2. AroundBy(out, u, h, A[1])
        BY <2>0, <2>2, <3>1 DEF AroundBy, Shape
      <3> QED BY <2>0, <3>2 DEF Written
    <2>3. CASE Tagged(u, "SRS1")
      <3>1. \E w : Broken(w) /\ Addr(out, w, r) /\ w[3].len = i.len
        BY <1>1, <1>2, <1>c, <1>4, <2>3, ForwardS1 DEF Shape, out
      <3>2. BrokenBy(out, A[Len(A)])
        BY <2>0, <3>1 DEF BrokenBy
      <3>3. Foreign(o) + Len(A) >= 3
        BY <2>0, <2>3, ForeignCount
      <3> QED BY <3>2, <3>3 DEF Written
    <2> QED BY <2>1, <2>2, <2>3 DEF Unmarked
  <1>5. CASE n = 1 /\ OnceBy(s, u, h, T[1])
    <2>0. Len(A) = 2 /\ A[1] = T[1] /\ A[2] = i
      BY <1>3, <1>5
    <2>1. PICK x, a :
            /\ a \in Relays /\ S0User(x, u, h) /\ Addr(s, x, a)
            /\ Stamped(x, u, h, T[1].key, T[1].len, T[1].time)
      BY <1>5 DEF OnceBy
    <2>2. Local(x) /\ Tagged(x, "SRS0") /\ Len(x) >= 2
      BY <2>1, S0Tagged DEF Shape
    <2>3. \E w : S1User(w, x, a) /\ Addr(out, w, r) /\ Sealed(w, x, a, i.key, i.len)
      BY <1>1, <1>2, <1>c, <2>1, <2>2, ForwardS0 DEF out
    <2>4. AroundBy(out, x, a, i)
      BY <2>2, <2>3 DEF AroundBy
    <2>5. TwiceBy(out, u, h, A[1], A[2])
      BY <2>0, <2>1, <2>4 DEF TwiceBy
    <2> QED BY <2>0, <2>5 DEF Written
  <1>6. ASSUME NEW w, NEW q, Chained(w), Addr(s, w, q), Foreign(o) + n >= 2
        PROVE  Written(out, o, u, h, A, 0)
    <2>1. \E v : Broken(v) /\ Addr(out, v, r) /\ v[3].len = i.len
      BY <1>1, <1>2, <1>c, <1>6, ForwardS1 DEF out
    <2>2. BrokenBy(out, A[Len(A)])
      BY <1>3, <2>1 DEF BrokenBy
    <2>3. Foreign(o) + Len(A) >= 3
      BY <1>3, <1>6, ForeignCount
    <2> QED BY <2>2, <2>3 DEF Written
  <1>7. CASE n = 1 /\ AroundBy(s, u, h, T[1])
    <2>1. PICK w, q : Chained(w) /\ Addr(s, w, q)
      BY <1>7, S1Chained DEF AroundBy
    <2>2. Foreign(o) = 1
      BY <1>7, ForeignCount DEF AroundBy
    <2> QED BY <1>6, <1>7, <2>1, <2>2
  <1>8. CASE n = 2 /\ TwiceBy(s, u, h, T[1], T[2])
    <2>1. PICK w, q : Chained(w) /\ Addr(s, w, q)
      BY <1>8, S1Chained DEF TwiceBy, AroundBy
    <2>2. Foreign(o) \in 0..2
      BY ForeignCount
    <2> QED BY <1>6, <1>8, <2>1, <2>2
  <1>9. CASE Foreign(o) + n >= 3 /\ BrokenBy(s, T[n])
    <2>1. PICK w, q : Chained(w) /\ Addr(s, w, q)
      BY <1>9, BrokenChained DEF BrokenBy
    <2>2. Foreign(o) \in 0..2
      BY ForeignCount
    <2>3. Foreign(o) + n >= 2
      BY <1>3, <1>9, <2>2
    <2> QED BY <1>6, <2>1, <2>3
  <1>10. CASE CutOff(s)
    BY <1>1, <1>10, ForwardCut DEF CutOff
  <1> QED BY <1>4, <1>5, <1>7, <1>8, <1>9, <1>10 DEF Written, n

\* The reasons for a refusal, one by one.
LEMMA Reasons ==
  ASSUME NEW e, NEW handle
  PROVE  /\ Explained(e, handle, "SRS_ETIMESTAMPOUTOFDATE")
              <=> Age(Issue(e)) > handle.maxage
         /\ Explained(e, handle, "SRS_EHASHTOOSHORT")
              <=> Issue(e).len < handle.hashmin
         /\ Explained(e, handle, "SRS_EHASHINVALID")
              <=> \/ Issue(e).key \notin ToSet(handle.secrets)
                  \/ Issue(e).len # handle.hashlength
                  \/ e.laps = 0 /\ Foreign(e.origin) + Len(e.trail) >= 3
         /\ Explained(e, handle, "SRS_EBUFTOOSMALL")
              <=> \E len \in BufLens : StrLen(e.sender) >= len
  BY DEF Explained

\* What the answer to a bounce e says of the rewriting that wrote its sender: a
\* success, that it was made in time, under a secret and a length still set; a
\* refusal, why.
Judged(e, handle, buflen, ret) ==
    /\ ret = "SRS_SUCCESS" =>
         /\ HasTag(e.sender, "SRS0") => Age(Issue(e)) <= handle.maxage
         /\ Issue(e).key \in ToSet(handle.secrets)
         /\ Issue(e).len = handle.hashlength
    /\ ret \notin {"SRS_SUCCESS", "SRS_ENOTSRSADDRESS"} =>
         \/ ret = "SRS_EBUFTOOSMALL" /\ StrLen(e.sender) >= buflen
         \/ ret # "SRS_EBUFTOOSMALL" /\ Explained(e, handle, ret)

\* The rewriting that wrote the sender of a bounce is where Issue() looks.
LEMMA IssueIs ==
  ASSUME NEW e, IsText(e.trail)
  PROVE  /\ e.laps = 0 => Issue(e) = e.trail[Len(e.trail)]
         /\ e.laps # 0 => Issue(e) = e.trail[1]
  BY DEF Issue, Last, Head

\* An SRS0 address is judged by its stamp and its hash.
LEMMA OnceJudged ==
  ASSUME NEW e, NEW u, NEW h, Local(u), OnceBy(e.sender, u, h, Issue(e)),
         Issue(e).len \in Nat, Issue(e).time \in Nat, clock \in Nat,
         NEW handle, SetUp(handle), NEW buflen
  PROVE  Judged(e, handle, buflen,
                srs_reverse(handle, buflen, e.sender, clock).ret)
PROOF
  <1>1. PICK i, s, now : i = Issue(e) /\ s = e.sender /\ now = clock
    OBVIOUS
  <1>2. PICK w, r : /\ S0User(w, u, h) /\ Addr(s, w, r)
                    /\ Stamped(w, u, h, i.key, i.len, i.time)
    BY <1>1 DEF OnceBy
  <1>3. PICK key, len, time : key = i.key /\ len = i.len /\ time = i.time
    OBVIOUS
  <1> DEFINE ret == srs_reverse(handle, buflen, s, now).ret
             age == (Day(now) - Day(time)) % SRS_TIME_SLOTS
  <1>4. /\ ret \in {"SRS_SUCCESS", "SRS_EBUFTOOSMALL", "SRS_EHASHTOOSHORT",
                    "SRS_EHASHINVALID", "SRS_ETIMESTAMPOUTOFDATE"}
        /\ HashSays(ret, handle, key, len)
        /\ ret = "SRS_SUCCESS" => age <= handle.maxage
        /\ ret = "SRS_ETIMESTAMPOUTOFDATE" => age > handle.maxage
        /\ ret = "SRS_EBUFTOOSMALL" => StrLen(s) >= buflen
    BY <1>1, <1>2, <1>3, JudgedS0
  <1>5. age = Age(Issue(e))
    BY <1>1, <1>3 DEF Age
  <1> HIDE DEF ret, age
  <1>6. Judged(e, handle, buflen, ret)
    BY <1>1, <1>3, <1>4, <1>5, Reasons DEF HashSays, Judged
  <1> QED BY <1>1, <1>6 DEF ret

\* An SRS1 address is judged by its hash.
LEMMA AroundJudged ==
  ASSUME NEW e, NEW x, NEW a, AroundBy(e.sender, x, a, Issue(e)),
         Issue(e).len \in Nat,
         NEW handle, SetUp(handle), NEW buflen
  PROVE  Judged(e, handle, buflen,
                srs_reverse(handle, buflen, e.sender, clock).ret)
PROOF
  <1>1. PICK i, s, now : i = Issue(e) /\ s = e.sender /\ now = clock
    OBVIOUS
  <1>2. PICK w, r : /\ S1User(w, x, a) /\ Addr(s, w, r)
                    /\ Local(x) /\ Tagged(x, "SRS0") /\ Len(x) >= 2
                    /\ Sealed(w, x, a, i.key, i.len)
    BY <1>1 DEF AroundBy
  <1>3. PICK key, len : key = i.key /\ len = i.len
    OBVIOUS
  <1> DEFINE ret == srs_reverse(handle, buflen, s, now).ret
  <1>4. /\ ret \in {"SRS_SUCCESS", "SRS_EBUFTOOSMALL", "SRS_EHASHTOOSHORT",
                    "SRS_EHASHINVALID"}
        /\ HashSays(ret, handle, key, len)
        /\ ret = "SRS_EBUFTOOSMALL" => StrLen(s) >= buflen
    BY <1>1, <1>2, <1>3, JudgedS1
  <1>5. ~HasTag(s, "SRS0")
    <2>1. s[1] = Tag("SRS1")
      <3>1. Len(w) \in Nat /\ Len(w) >= 1
        BY <1>2, TextIndex DEF S1User, Local, Clean
      <3> QED BY <1>2, <3>1 DEF Addr, S1User
    <2> QED BY <2>1, TagsEqual DEF HasTag
  <1> HIDE DEF ret
  <1>6. Judged(e, handle, buflen, ret)
    BY <1>1, <1>3, <1>4, <1>5, Reasons DEF HashSays, Judged
  <1> QED BY <1>1, <1>6 DEF ret

\* What was made of an SRS1 address is refused, as it had been through too many
\* hands.
LEMMA BrokenJudged ==
  ASSUME NEW e, e.laps = 0, Foreign(e.origin) + Len(e.trail) >= 3,
         BrokenBy(e.sender, Issue(e)), Issue(e).len \in Nat,
         NEW handle, SetUp(handle), NEW buflen
  PROVE  LET ret == srs_reverse(handle, buflen, e.sender, clock).ret
         IN  ret # "SRS_SUCCESS" /\ Judged(e, handle, buflen, ret)
PROOF
  <1>1. PICK i, s, now : i = Issue(e) /\ s = e.sender /\ now = clock
    OBVIOUS
  <1>2. PICK w, r : Broken(w) /\ Addr(s, w, r) /\ w[3].len = i.len
    BY <1>1 DEF BrokenBy
  <1> DEFINE ret == srs_reverse(handle, buflen, s, now).ret
  <1>3. /\ ret \in {"SRS_EBUFTOOSMALL", "SRS_EHASHTOOSHORT", "SRS_EHASHINVALID"}
        /\ ret = "SRS_EHASHTOOSHORT" => w[3].len < handle.hashmin
        /\ ret = "SRS_EBUFTOOSMALL" => StrLen(s) >= buflen
    BY <1>1, <1>2, JudgedBroken
  <1> HIDE DEF ret
  <1>4. ret # "SRS_SUCCESS" /\ Judged(e, handle, buflen, ret)
    BY <1>1, <1>2, <1>3, Reasons DEF Judged
  <1> QED BY <1>1, <1>4 DEF ret

\* The answer to a bounce leads one rewriting back and is judged, except that an
\* origin with an SRS tag at this very relay is refused for what others wrote.
LEMMA ReverseReads ==
  ASSUME NEW e, NEW u, NEW h, Shape(e.origin, u, h), IsText(e.trail),
         e.laps \in 0..2, clock \in Nat,
         Written(e.sender, e.origin, u, h, e.trail, e.laps),
         \A k \in 1..Len(e.trail) : e.trail[k].len \in Nat /\ e.trail[k].time \in Nat,
         NEW r \in Relays,
         From(e.sender, StrChr(e.sender, 1, At) + 1) = <<Name(r)>>,
         NEW handle, SetUp(handle), NEW buflen
  PROVE  LET ans == srs_reverse(handle, buflen, e.sender, clock)
         IN  /\ ans.ret = "SRS_SUCCESS" =>
                  Written(ans.out, e.origin, u, h, e.trail, e.laps + 1)
             /\ \/ Judged(e, handle, buflen, ans.ret)
                \/ /\ ans.ret # "SRS_SUCCESS"
                   /\ SRS_IS_SRS_ADDRESS(e.origin)
                   /\ e.origin[Len(e.origin)] = Name(r)
PROOF
  <1>1. PICK o, s, T, n, now : /\ o = e.origin /\ s = e.sender /\ T = e.trail
                               /\ n = e.laps /\ now = clock
    OBVIOUS
  <1> DEFINE ans == srs_reverse(handle, buflen, s, now)
             Goal == /\ ans.ret = "SRS_SUCCESS" => Written(ans.out, o, u, h, T, n + 1)
                     /\ \/ Judged(e, handle, buflen, ans.ret)
                        \/ /\ ans.ret # "SRS_SUCCESS"
                           /\ SRS_IS_SRS_ADDRESS(o)
                           /\ o[Len(o)] = Name(r)
  <1>2. SUFFICES Goal
    BY <1>1, Zenon
  <1>k. Known(handle) /\ n \in 0..2 /\ Len(T) \in Nat
    BY <1>1, TextIndex DEF SetUp
  <1>i. (n = 0 => Issue(e) = T[Len(T)]) /\ (n # 0 => Issue(e) = T[1])
    BY <1>1, IssueIs
  <1>n. ASSUME Len(T) >= 1
        PROVE  Issue(e).len \in Nat /\ Issue(e).time \in Nat
    <2>1. 1 \in 1..Len(T) /\ Len(T) \in 1..Len(T)
      BY <1>k, <1>n
    <2> QED BY <1>1, <1>i, <2>1
  <1>3. CASE s = o
    <2>1. /\ ans.ret # "SRS_SUCCESS"
          /\ ~SRS_IS_SRS_ADDRESS(o) => ans.ret = "SRS_ENOTSRSADDRESS"
      BY <1>1, <1>3, <1>k, ReverseForeign DEF Shape
    <2>2. o[Len(o)] = Name(r)
      <3>1. <<Name(h)>> = <<Name(r)>>
        BY <1>1, <1>3, HostBehindAt DEF Shape
      <3>2. <<Name(h)>>[1] = Name(h) /\ <<Name(r)>>[1] = Name(r)
        BY TextTuples
      <3>3. o[Len(o)] = Name(h)
        BY <1>1 DEF Shape, Addr
      <3> QED BY <3>1, <3>2, <3>3
    <2> HIDE DEF ans
    <2>3. ~SRS_IS_SRS_ADDRESS(o) => Judged(e, handle, buflen, ans.ret)
      BY <2>1 DEF Judged
    <2> QED BY <2>1, <2>2, <2>3
  <1>4. CASE n \in {0, 1} /\ Len(T) = n + 1 /\ OnceBy(s, u, h, T[1])
    <2>1. Issue(e) = T[1] /\ Len(T) >= 1
      BY <1>4, <1>i
    <2>2. Judged(e, handle, buflen, ans.ret)
      BY <1>1, <1>4, <1>n, <2>1, OnceJudged DEF Shape
    <2>3. PICK w, q : S0User(w, u, h) /\ Addr(s, w, q)
      BY <1>4 DEF OnceBy
    <2>4. ans.ret = "SRS_SUCCESS" => ans.out = o
      BY <1>1, <2>3, ReverseS0 DEF Shape
    <2> HIDE DEF ans
    <2>5. ans.ret = "SRS_SUCCESS" => Written(ans.out, o, u, h, T, n + 1)
      BY <1>k, <2>4 DEF Written
    <2> QED BY <2>2, <2>5
  <1>5. CASE n = 0 /\ Len(T) = 1 /\ AroundBy(s, u, h, T[1])
    <2>1. Issue(e) = T[1] /\ Len(T) >= 1
      BY <1>5, <1>i
    <2>2. Judged(e, handle, buflen, ans.ret)
      BY <1>1, <1>5, <1>n, <2>1, AroundJudged
    <2>3. PICK w, q : /\ S1User(w, u, h) /\ Addr(s, w, q)
                      /\ Local(u) /\ Tagged(u, "SRS0") /\ Len(u) >= 2
      BY <1>5 DEF AroundBy
    <2>4. ans.ret = "SRS_SUCCESS" => ans.out = o
      BY <1>1, <2>3, ReverseS1 DEF Shape
    <2> HIDE DEF ans
    <2>5. ans.ret = "SRS_SUCCESS" => Written(ans.out, o, u, h, T, n + 1)
      BY <1>k, <2>4 DEF Written
    <2> QED BY <2>2, <2>5
  <1>6. CASE n = 0 /\ Len(T) = 2 /\ TwiceBy(s, u, h, T[1], T[2])
    <2>1. Issue(e) = T[2] /\ Len(T) >= 1
      BY <1>6, <1>i
    <2>2. PICK x, a : /\ a \in Relays /\ AroundBy(s, x, a, T[2]) /\ S0User(x, u, h)
                      /\ Stamped(x, u, h, T[1].key, T[1].len, T[1].time)
      BY <1>6 DEF TwiceBy
    <2>3. Judged(e, handle, buflen, ans.ret)
      BY <1>1, <1>n, <2>1, <2>2, AroundJudged
    <2>4. PICK w, q : /\ S1User(w, x, a) /\ Addr(s, w, q)
                      /\ Local(x) /\ Tagged(x, "SRS0") /\ Len(x) >= 2
      BY <2>2 DEF AroundBy
    <2>5. PICK p : p = Printed(x, a)
      OBVIOUS
    <2>6. Addr(p, x, a)
      BY <2>4, <2>5, PrintedAddr DEF Local, Clean
    <2>7. ans.ret = "SRS_SUCCESS" => ans.out = p
      BY <2>4, <2>6, ReverseS1
    <2>8. OnceBy(p, u, h, T[1])
      BY <2>2, <2>6 DEF OnceBy
    <2>9. Written(p, o, u, h, T, n + 1)
      BY <1>6, <2>8 DEF Written
    <2> HIDE DEF ans
    <2> QED BY <2>3, <2>7, <2>9
  <1>7. CASE n = 0 /\ Foreign(o) + Len(T) >= 3 /\ BrokenBy(s, T[Len(T)])
    <2>1. Foreign(o) \in 0..2
      BY <1>1, ForeignCount
    <2>2. Issue(e) = T[Len(T)] /\ Len(T) >= 1
      BY <1>7, <1>i, <1>k, <2>1
    <2>3. ans.ret # "SRS_SUCCESS" /\ Judged(e, handle, buflen, ans.ret)
      BY <1>1, <1>7, <1>n, <2>2, BrokenJudged
    <2> HIDE DEF ans
    <2> QED BY <2>3
  <1>8. CASE CutOff(s)
    BY <1>1, <1>8, CutHasNoHost DEF CutOff
  <1> QED BY <1>1, <1>3, <1>4, <1>5, <1>6, <1>7, <1>8 DEF Written
-----------------------------------------------------------------------------
(* The steps of an envelope *)

\* Every step that changes an envelope is one of its actions.
LEMMA MailSteps ==
  ASSUME IInv, [Next]_vars, NEW m \in Mail
  PROVE  \/ mail'[m] = mail[m]
         \/ Submit(m) \/ Bounce(m) \/ HandOver(m)
         \/ \E r \in Relays : Forward(m, r) \/ ReverseBounce(m, r)
PROOF
  <1>1. ASSUME NEW k \in Mail, k # m, NEW f, mail' = [mail EXCEPT ![k] = f]
        PROVE  mail'[m] = mail[m]
    BY <1>1
  <1>2. ASSUME NEW k \in Mail, k # m,
               \/ Submit(k) \/ Bounce(k) \/ HandOver(k)
               \/ \E r \in Relays : Forward(k, r) \/ ReverseBounce(k, r)
        PROVE  mail'[m] = mail[m]
    <2>1. \E f : mail' = [mail EXCEPT ![k] = f]
      BY <1>2 DEF Submit, Bounce, HandOver, Forward, ReverseBounce
    <2> QED BY <1>1, <1>2, <2>1
  <1>3. ASSUME NEW r \in Relays, Operate(r) PROVE mail' = mail
    BY <1>3 DEF Operate, AddSecret, Restart, SetSeparator, SetMaxage,
                SetHashlength, SetHashmin, SetAlwaysrewrite, Set
  <1>4. CASE Tick \/ SlipBack \/ UNCHANGED vars
    BY <1>4 DEF Tick, SlipBack, vars
  <1> QED BY <1>2, <1>3, <1>4 DEF Next, Carry

\* What srs_forward() makes of an envelope.
LEMMA ForwardEffect ==
  ASSUME IInv, NEW m \in Mail, NEW r \in Relays, Forward(m, r)
  PROVE  \E call \in ForwardCalls(r, mail[m].sender) :
           LET ok == call.ans.ret = "SRS_SUCCESS"
           IN  /\ mail[m].state = "transit" /\ clock' = clock
               /\ mail'[m].state = IF ok THEN "transit" ELSE "unsent"
               /\ mail'[m].origin = mail[m].origin
               /\ mail'[m].laps = mail[m].laps
               /\ mail'[m].sender = IF ok THEN call.ans.out ELSE mail[m].sender
               /\ mail'[m].trail = IF ok /\ call.ans.out # mail[m].sender
                                   THEN Append(mail[m].trail, Entry(r))
                                   ELSE mail[m].trail
PROOF
  <1> DEFINE e      == mail[m]
             ok(ans) == ans.ret = "SRS_SUCCESS"
             f(ans) == [e EXCEPT
                 !.state  = IF ok(ans) THEN "transit" ELSE "unsent",
                 !.sender = IF ok(ans) THEN ans.out ELSE @,
                 !.trail  = IF ok(ans) /\ ans.out # e.sender
                            THEN Append(@, Entry(r)) ELSE @,
                 !.code   = ans.ret]
  <1>1. PICK call \in ForwardCalls(r, e.sender) :
           mail' = [mail EXCEPT ![m] = f(call.ans)]
    BY DEF Forward
  <1>2. /\ DOMAIN e = Fields /\ m \in DOMAIN mail
        /\ e.state = "transit" /\ clock' = clock
    BY DEF IInv, EnvelopeOK, Forward
  <1>3. mail'[m] = f(call.ans)
    BY <1>1, <1>2
  <1>4. LET ans == call.ans IN
        /\ f(ans).state = IF ok(ans) THEN "transit" ELSE "unsent"
        /\ f(ans).origin = e.origin
        /\ f(ans).laps = e.laps
        /\ f(ans).sender = IF ok(ans) THEN ans.out ELSE e.sender
        /\ f(ans).trail = IF ok(ans) /\ ans.out # e.sender
                          THEN Append(e.trail, Entry(r)) ELSE e.trail
    BY <1>2 DEF Fields
  <1> HIDE DEF f
  <1> QED BY <1>1, <1>2, <1>3, <1>4

\* What srs_reverse() makes of one.
LEMMA ReverseEffect ==
  ASSUME IInv, NEW m \in Mail, NEW r \in Relays, ReverseBounce(m, r)
  PROVE  \E call \in ReverseCalls(r, mail[m].sender) :
           LET ok == call.ans.ret = "SRS_SUCCESS"
           IN  /\ mail[m].state = "bounce" /\ SenderHost(m) = <<Name(r)>>
               /\ clock' = clock
               /\ mail'[m].state = IF ok THEN "bounce"
                                   ELSE IF call.ans.ret = "SRS_ENOTSRSADDRESS"
                                     THEN "returned"
                                   ELSE "lost"
               /\ mail'[m].origin = mail[m].origin
               /\ mail'[m].trail = mail[m].trail
               /\ mail'[m].code = call.ans.ret
               /\ mail'[m].sender = IF ok THEN call.ans.out ELSE mail[m].sender
               /\ mail'[m].laps = IF ok THEN mail[m].laps + 1 ELSE mail[m].laps
PROOF
  <1> DEFINE e       == mail[m]
             ok(ans) == ans.ret = "SRS_SUCCESS"
             f(ans)  == [e EXCEPT
                 !.state  = IF ok(ans) THEN "bounce"
                            ELSE IF ans.ret = "SRS_ENOTSRSADDRESS" THEN "returned"
                            ELSE "lost",
                 !.sender = IF ok(ans) THEN ans.out ELSE @,
                 !.laps   = IF ok(ans) THEN @ + 1 ELSE @,
                 !.code   = ans.ret]
  <1>1. PICK call \in ReverseCalls(r, e.sender) :
           mail' = [mail EXCEPT ![m] = f(call.ans)]
    BY DEF ReverseBounce
  <1>2. /\ DOMAIN e = Fields /\ m \in DOMAIN mail
        /\ e.state = "bounce" /\ SenderHost(m) = <<Name(r)>> /\ clock' = clock
    BY DEF IInv, EnvelopeOK, ReverseBounce
  <1>3. mail'[m] = f(call.ans)
    BY <1>1, <1>2
  <1>4. LET ans == call.ans IN
        /\ f(ans).state = IF ok(ans) THEN "bounce"
                          ELSE IF ans.ret = "SRS_ENOTSRSADDRESS" THEN "returned"
                          ELSE "lost"
        /\ f(ans).origin = e.origin
        /\ f(ans).trail = e.trail
        /\ f(ans).code = ans.ret
        /\ f(ans).sender = IF ok(ans) THEN ans.out ELSE e.sender
        /\ f(ans).laps = IF ok(ans) THEN e.laps + 1 ELSE e.laps
    BY <1>2 DEF Fields
  <1> HIDE DEF f
  <1> QED BY <1>1, <1>2, <1>3, <1>4

\* What the lemmas on judgements need of a handle and of the clock.
LEMMA InvSetUp ==
  ASSUME IInv, NEW r \in Relays
  PROVE  SetUp(srs[r]) /\ clock \in Nat
PROOF
  <1>1. srs[r] \in Handles /\ clock \in Nat
    BY BoundsAssumption DEF IInv
  <1>2. PICK handle : handle = srs[r] /\ handle \in Handles
    BY <1>1
  <1>3. handle.secrets \in Seq(Secrets) /\ handle.maxage \in {21} \cup MaxAges
    BY <1>2 DEF Handles
  <1>4. IsText(handle.secrets)
    BY <1>3, SequencesAreTexts
  <1>5. handle.maxage \in Int
    BY <1>3, NumbersAssumption
  <1> QED BY <1>1, <1>2, <1>4, <1>5, HandlesKnown DEF SetUp

\* New mail is its origin.
LEMMA SubmitIssued ==
  ASSUME NEW e, Issued(e), e.state = "new", NEW o \in Origins,
         NEW f, f.state = "transit", f.origin = o, f.sender = o,
         f.trail = e.trail, f.laps = e.laps
  PROVE  Issued(f)
PROOF
  <1>1. PICK u, h : Shape(o, u, h)
    BY OriginsAssumption, OriginShape
  <1>2. Len(e.trail) = 0
    BY DEF Issued
  <1>3. Written(f.sender, f.origin, u, h, f.trail, f.laps)
    BY <1>2 DEF Written
  <1> QED BY <1>1, <1>3 DEF Issued

\* A step that changes the state of an envelope only.
LEMMA StateIssued ==
  ASSUME NEW e, Issued(e), e.state \in {"transit", "bounce"},
         NEW f, f.state # "new", f.origin = e.origin, f.sender = e.sender,
         f.trail = e.trail, f.laps = e.laps
  PROVE  Issued(f)
  BY DEF Issued

\* srs_forward() and the entry that is made of it.
LEMMA ForwardIssued ==
  ASSUME NEW e, Issued(e), IsText(e.trail), e.state = "transit", e.laps = 0,
         NEW r \in Relays, NEW handle, Known(handle), NEW len, NEW now \in Times,
         NEW i, i.key = handle.secrets[1], i.len = handle.hashlength, i.time = now,
         NEW ans, ans = srs_forward(handle, len, e.sender, Alias(r), now),
         ans.ret = "SRS_SUCCESS",
         NEW f, f.state = "transit", f.origin = e.origin, f.laps = e.laps,
         f.sender = ans.out,
         f.trail = IF ans.out # e.sender THEN Append(e.trail, i) ELSE e.trail
  PROVE  Issued(f)
PROOF
  <1>1. PICK u, h : /\ Shape(e.origin, u, h)
                    /\ Written(e.sender, e.origin, u, h, e.trail, 0)
    BY DEF Issued
  <1>2. CASE ans.out = e.sender
    BY <1>1, <1>2 DEF Issued
  <1>3. CASE ans.out # e.sender
    <2>1. Written(ans.out, e.origin, u, h, Append(e.trail, i), 0)
      BY <1>1, <1>3, ForwardWrites
    <2>2. /\ Len(e.trail) \in Nat /\ Len(Append(e.trail, i)) = Len(e.trail) + 1
          /\ \A k \in 1..Len(e.trail) : Append(e.trail, i)[k] = e.trail[k]
          /\ Append(e.trail, i)[Len(e.trail) + 1] = i
      BY TrailGrows
    <2>3. i.len \in Nat \ {0} /\ i.time \in Times
      BY DEF Known
    <2>4. PICK T : T = f.trail /\ T = Append(e.trail, i)
      BY <1>3
    <2>5. ASSUME NEW k \in 1..Len(T)
          PROVE  T[k].len \in Nat \ {0} /\ T[k].time \in Times
      <3>1. CASE k \in 1..Len(e.trail)
        BY <2>2, <2>4, <3>1 DEF Issued
      <3>2. CASE k = Len(e.trail) + 1
        BY <2>2, <2>3, <2>4, <3>2
      <3> QED BY <2>2, <2>4, <3>1, <3>2
    <2> QED BY <1>1, <2>1, <2>4, <2>5 DEF Issued
  <1> QED BY <1>2, <1>3

\* srs_reverse() takes one rewriting away.
LEMMA ReverseIssued ==
  ASSUME NEW e, Issued(e), IsText(e.trail), e.state = "bounce", e.laps \in 0..2,
         clock \in Nat, NEW r \in Relays,
         From(e.sender, StrChr(e.sender, 1, At) + 1) = <<Name(r)>>,
         NEW handle, SetUp(handle), NEW len,
         NEW ans, ans = srs_reverse(handle, len, e.sender, clock),
         ans.ret = "SRS_SUCCESS",
         NEW f, f.state = "bounce", f.origin = e.origin, f.laps = e.laps + 1,
         f.sender = ans.out, f.trail = e.trail
  PROVE  Issued(f)
PROOF
  <1>1. PICK u, h : /\ Shape(e.origin, u, h)
                    /\ Written(e.sender, e.origin, u, h, e.trail, e.laps)
    BY DEF Issued
  <1>2. \A k \in 1..Len(e.trail) : e.trail[k].len \in Nat /\ e.trail[k].time \in Nat
    BY BoundsAssumption DEF Issued
  <1>3. Written(ans.out, e.origin, u, h, e.trail, e.laps + 1)
    BY <1>1, <1>2, ReverseReads
  <1> QED BY <1>1, <1>3 DEF Issued

\* New mail went through nothing yet.
LEMMA IssuesInit == Init => Issues
PROOF
  <1> SUFFICES ASSUME Init, NEW m \in Mail PROVE Issued(mail[m])
    BY DEF Issues
  <1>1. mail[m] = Blank
    BY DEF Init
  <1>2. IsText(<<>>) /\ Len(<<>>) = 0
    BY TextTuples
  <1> QED BY <1>1, <1>2 DEF Blank, Issued

\* Every step keeps the record of who wrote what.
LEMMA IssuesStep == IInv /\ Issues /\ [Next]_vars => Issues'
PROOF
  <1> SUFFICES ASSUME IInv, Issues, [Next]_vars, NEW m \in Mail
               PROVE  Issued(mail'[m])
    BY DEF Issues
  <1>1. PICK e : e = mail[m]
    OBVIOUS
  <1>2. PICK f : f = mail'[m]
    OBVIOUS
  <1>3. /\ Issued(e) /\ DOMAIN e = Fields /\ IsText(e.trail) /\ e.laps \in 0..2
        /\ e.state \in {"new", "transit"} => e.laps = 0
    BY <1>1 DEF Issues, IInv, EnvelopeOK
  <1>4. CASE f = e
    BY <1>2, <1>3, <1>4
  <1>5. CASE Submit(m)
    <2>1. PICK o \in Origins :
            f = [e EXCEPT !.state = "transit", !.origin = o, !.sender = o]
      BY <1>1, <1>2, <1>5 DEF Submit, IInv
    <2>2. /\ f.state = "transit" /\ f.origin = o /\ f.sender = o
          /\ f.trail = e.trail /\ f.laps = e.laps /\ e.state = "new"
      BY <1>1, <1>3, <1>5, <2>1 DEF Fields, Submit
    <2> QED BY <1>2, <1>3, <2>2, SubmitIssued
  <1>6. CASE Bounce(m) \/ HandOver(m)
    <2>1. PICK st : /\ f = [e EXCEPT !.state = st] /\ st # "new"
                    /\ e.state \in {"transit", "bounce"}
      BY <1>1, <1>2, <1>6 DEF Bounce, HandOver, IInv
    <2>2. /\ f.state = st /\ f.origin = e.origin /\ f.sender = e.sender
          /\ f.trail = e.trail /\ f.laps = e.laps
      BY <1>3, <2>1 DEF Fields
    <2> QED BY <1>2, <1>3, <2>1, <2>2, StateIssued
  <1>7. ASSUME NEW r \in Relays, Forward(m, r) PROVE Issued(f)
    <2>1. PICK call \in ForwardCalls(r, e.sender) :
           LET ok == call.ans.ret = "SRS_SUCCESS"
           IN  /\ e.state = "transit"
               /\ f.state = IF ok THEN "transit" ELSE "unsent"
               /\ f.origin = e.origin
               /\ f.laps = e.laps
               /\ f.sender = IF ok THEN call.ans.out ELSE e.sender
               /\ f.trail = IF ok /\ call.ans.out # e.sender
                            THEN Append(e.trail, Entry(r)) ELSE e.trail
      BY <1>1, <1>2, <1>7, ForwardEffect
    <2>2. PICK len : call.ans = srs_forward(srs[r], len, e.sender, Alias(r), clock)
      BY DEF ForwardCalls, srs_forward_alloc
    <2>3. PICK ans, handle, now, i :
            /\ ans = call.ans /\ handle = srs[r] /\ now = clock /\ i = Entry(r)
      OBVIOUS
    <2>4. /\ i.key = handle.secrets[1] /\ i.len = handle.hashlength
          /\ i.time = now /\ now \in Times /\ Known(handle)
      BY <2>3, InvSetUp DEF Entry, IInv, SetUp
    <2>5. ans = srs_forward(handle, len, e.sender, Alias(r), now)
      BY <2>2, <2>3
    <2>6. CASE ans.ret = "SRS_SUCCESS"
      <3>1. /\ f.state = "transit" /\ f.origin = e.origin /\ f.laps = e.laps
            /\ f.sender = ans.out
            /\ f.trail = IF ans.out # e.sender THEN Append(e.trail, i) ELSE e.trail
        BY <2>1, <2>3, <2>6
      <3> QED BY <1>3, <2>1, <2>4, <2>5, <2>6, <3>1, ForwardIssued
    <2>7. CASE ans.ret # "SRS_SUCCESS"
      <3>1. /\ f.state = "unsent" /\ f.trail = e.trail
        BY <2>1, <2>3, <2>7
      <3> QED BY <1>3, <3>1 DEF Issued
    <2> QED BY <2>6, <2>7
  <1>8. ASSUME NEW r \in Relays, ReverseBounce(m, r) PROVE Issued(f)
    <2>1. PICK call \in ReverseCalls(r, e.sender) :
           LET ok == call.ans.ret = "SRS_SUCCESS"
           IN  /\ e.state = "bounce" /\ SenderHost(m) = <<Name(r)>>
               /\ f.state = IF ok THEN "bounce"
                            ELSE IF call.ans.ret = "SRS_ENOTSRSADDRESS"
                              THEN "returned"
                            ELSE "lost"
               /\ f.origin = e.origin
               /\ f.trail = e.trail
               /\ f.sender = IF ok THEN call.ans.out ELSE e.sender
               /\ f.laps = IF ok THEN e.laps + 1 ELSE e.laps
      BY <1>1, <1>2, <1>8, ReverseEffect
    <2>2. PICK len : call.ans = srs_reverse(srs[r], len, e.sender, clock)
      BY DEF ReverseCalls, srs_reverse_alloc
    <2>3. PICK ans, handle : ans = call.ans /\ handle = srs[r]
      OBVIOUS
    <2>4. SetUp(handle) /\ clock \in Nat
      BY <2>3, InvSetUp
    <2>5. ans = srs_reverse(handle, len, e.sender, clock)
      BY <2>2, <2>3
    <2>6. CASE ans.ret = "SRS_SUCCESS"
      <3>1. /\ f.state = "bounce" /\ f.origin = e.origin /\ f.laps = e.laps + 1
            /\ f.sender = ans.out /\ f.trail = e.trail
        BY <2>1, <2>3, <2>6
      <3>2. From(e.sender, StrChr(e.sender, 1, At) + 1) = <<Name(r)>>
        BY <1>1, <2>1 DEF SenderHost
      <3> QED BY <1>3, <2>1, <2>4, <2>5, <2>6, <3>1, <3>2, ReverseIssued
    <2>7. CASE ans.ret # "SRS_SUCCESS"
      <3>1. f.state \in {"returned", "lost"} /\ f.trail = e.trail
        BY <2>1, <2>3, <2>7
      <3> QED BY <1>3, <3>1 DEF Issued
    <2> QED BY <2>6, <2>7
  <1> QED BY <1>1, <1>2, <1>4, <1>5, <1>6, <1>7, <1>8, MailSteps

\* Laps are counted by a reversal that succeeds, and by nothing else.
LEMMA LapsRise ==
  ASSUME IInv, [Next]_vars, NEW m \in Mail, mail'[m].laps > mail[m].laps
  PROVE  \E q \in Relays : ReverseBounce(m, q)
PROOF
  <1>1. PICK e, f : e = mail[m] /\ f = mail'[m]
    OBVIOUS
  <1>2. DOMAIN e = Fields /\ e.laps \in 0..2 /\ f.laps > e.laps
    BY <1>1 DEF IInv, EnvelopeOK
  <1>3. f # e
    BY <1>2
  <1>4. ASSUME Submit(m) \/ Bounce(m) \/ HandOver(m) PROVE FALSE
    <2>1. \/ \E o : f = [e EXCEPT !.state = "transit", !.origin = o, !.sender = o]
          \/ \E st : f = [e EXCEPT !.state = st]
      BY <1>1, <1>4 DEF Submit, Bounce, HandOver, IInv
    <2>2. f.laps = e.laps
      BY <1>2, <2>1 DEF Fields
    <2> QED BY <1>2, <2>2
  <1>5. ASSUME NEW r \in Relays, Forward(m, r) PROVE FALSE
    <2>1. f.laps = e.laps
      BY <1>1, <1>5, ForwardEffect
    <2> QED BY <1>2, <2>1
  <1> QED BY <1>1, <1>3, <1>4, <1>5, MailSteps

\* A bounce is lost by a relay that refuses it, or for want of a host.
LEMMA LostBy ==
  ASSUME IInv, [Next]_vars, NEW m \in Mail,
         mail[m].state = "bounce", mail'[m].state = "lost"
  PROVE  \/ HandOver(m) /\ StrChr(mail[m].sender, 1, At) = 0
         \/ \E q \in Relays : ReverseBounce(m, q)
PROOF
  <1>1. PICK e, f : e = mail[m] /\ f = mail'[m]
    OBVIOUS
  <1>2. DOMAIN e = Fields /\ e.state = "bounce" /\ f.state = "lost" /\ f # e
    BY <1>1 DEF IInv, EnvelopeOK
  <1>3. ~Submit(m) /\ ~Bounce(m) /\ \A r \in Relays : ~Forward(m, r)
    BY <1>1, <1>2 DEF Submit, Bounce, Forward
  <1>4. ASSUME HandOver(m) PROVE StrChr(e.sender, 1, At) = 0
    <2>1. f = [e EXCEPT !.state = IF StrChr(e.sender, 1, At) = 0 THEN "lost"
                                  ELSE "returned"]
      BY <1>1, <1>4 DEF HandOver, IInv
    <2>2. f.state = IF StrChr(e.sender, 1, At) = 0 THEN "lost" ELSE "returned"
      BY <1>2, <2>1 DEF Fields
    <2> QED BY <1>2, <2>2
  <1> QED BY <1>1, <1>2, <1>3, <1>4, MailSteps

\* What a relay answers to a bounce, judged by the rewriting that wrote its
\* sender.
LEMMA BounceJudged ==
  ASSUME IInv, Issues, NEW m \in Mail, NEW q \in Relays, ReverseBounce(m, q)
  PROVE  \E call \in ReverseCalls(q, mail[m].sender) :
           LET ret == call.ans.ret
               o   == mail[m].origin
           IN  /\ mail'[m].code = ret
               /\ mail'[m].laps = IF ret = "SRS_SUCCESS" THEN mail[m].laps + 1
                                  ELSE mail[m].laps
               /\ mail'[m].state = "lost"
                    => ret \notin {"SRS_SUCCESS", "SRS_ENOTSRSADDRESS"}
               /\ \/ \E len : /\ len = call.room
                              /\ Judged(mail[m], srs[q], len, ret)
                  \/ /\ ret # "SRS_SUCCESS"
                     /\ o \in Origins /\ SRS_IS_SRS_ADDRESS(o)
                     /\ o[Len(o)] = Name(q)
PROOF
  <1>1. PICK e : e = mail[m]
    OBVIOUS
  <1>2. /\ Issued(e) /\ IsText(e.trail) /\ e.laps \in 0..2
        /\ e.state \in {"transit", "bounce"} => e.origin \in Origins
    BY <1>1 DEF Issues, IInv, EnvelopeOK
  <1>3. PICK call \in ReverseCalls(q, e.sender) :
           LET ok == call.ans.ret = "SRS_SUCCESS"
           IN  /\ e.state = "bounce" /\ SenderHost(m) = <<Name(q)>>
               /\ mail'[m].state = IF ok THEN "bounce"
                                   ELSE IF call.ans.ret = "SRS_ENOTSRSADDRESS"
                                     THEN "returned"
                                   ELSE "lost"
               /\ mail'[m].code = call.ans.ret
               /\ mail'[m].laps = IF ok THEN e.laps + 1 ELSE e.laps
    BY <1>1, ReverseEffect
  <1>4. PICK len : /\ len = call.room
                   /\ call.ans = srs_reverse(srs[q], len, e.sender, clock)
    BY DEF ReverseCalls, srs_reverse_alloc
  <1>5. PICK ans, handle : ans = call.ans /\ handle = srs[q]
    OBVIOUS
  <1>6. SetUp(handle) /\ clock \in Nat
    BY <1>5, InvSetUp
  <1>7. PICK u, h : /\ Shape(e.origin, u, h)
                    /\ Written(e.sender, e.origin, u, h, e.trail, e.laps)
    BY <1>2, <1>3 DEF Issued
  <1>8. \A k \in 1..Len(e.trail) : e.trail[k].len \in Nat /\ e.trail[k].time \in Nat
    BY <1>2, BoundsAssumption DEF Issued
  <1>9. From(e.sender, StrChr(e.sender, 1, At) + 1) = <<Name(q)>>
    BY <1>1, <1>3 DEF SenderHost
  <1>10. ans = srs_reverse(handle, len, e.sender, clock)
    BY <1>4, <1>5
  <1>11. \/ Judged(e, handle, len, ans.ret)
         \/ /\ ans.ret # "SRS_SUCCESS" /\ SRS_IS_SRS_ADDRESS(e.origin)
            /\ e.origin[Len(e.origin)] = Name(q)
    BY <1>2, <1>6, <1>7, <1>8, <1>9, <1>10, ReverseReads
  <1> QED BY <1>1, <1>2, <1>3, <1>4, <1>5, <1>11

\* A reversal that succeeds is in time.
LEMMA InTimeStep ==
  ASSUME IInv, Issues, [Next]_vars, NEW m \in Mail, NEW r \in Relays,
         mail'[m].laps > mail[m].laps, SenderHost(m) = <<Name(r)>>
  PROVE  /\ HasTag(mail[m].sender, "SRS0") =>
              Age(Issue(mail[m])) <= srs[r].maxage
         /\ Issue(mail[m]).key \in ToSet(srs[r].secrets)
         /\ Issue(mail[m]).len = srs[r].hashlength
PROOF
  <1>1. PICK q \in Relays : ReverseBounce(m, q)
    BY LapsRise
  <1>2. q = r
    <2>1. <<Name(q)>> = <<Name(r)>>
      BY <1>1 DEF ReverseBounce
    <2>2. <<Name(q)>>[1] = Name(q) /\ <<Name(r)>>[1] = Name(r)
      BY TextTuples
    <2> QED BY <2>1, <2>2, NamesEqual
  <1>3. PICK call \in ReverseCalls(q, mail[m].sender) :
           LET ret == call.ans.ret IN
           /\ mail'[m].laps = IF ret = "SRS_SUCCESS" THEN mail[m].laps + 1
                              ELSE mail[m].laps
           /\ \/ \E len : /\ len = call.room
                          /\ Judged(mail[m], srs[q], len, ret)
              \/ ret # "SRS_SUCCESS"
    BY <1>1, BounceJudged
  <1>4. mail[m].laps \in 0..2
    BY DEF IInv, EnvelopeOK
  <1>5. call.ans.ret = "SRS_SUCCESS"
    BY <1>3, <1>4
  <1>6. PICK len : Judged(mail[m], srs[r], len, "SRS_SUCCESS")
    BY <1>2, <1>3, <1>5
  <1> QED BY <1>6 DEF Judged

\* A refusal has a reason.
LEMMA RefusalStep ==
  ASSUME TaggedElsewhere, IInv, Issues, Lengths, [Next]_vars, NEW m \in Mail,
         mail[m].state = "bounce", mail'[m].state = "lost"
  PROVE  \/ Len(mail[m].sender) = 1 /\ SRS_IS_SRS_ADDRESS(mail[m].sender)
         \/ \E r \in Relays : /\ SenderHost(m) = <<Name(r)>>
                              /\ Explained(mail[m], srs[r], mail'[m].code)
PROOF
  <1>1. CASE HandOver(m) /\ StrChr(mail[m].sender, 1, At) = 0
    <2>1. PICK s, o : s = mail[m].sender /\ o = mail[m].origin
      OBVIOUS
    <2>2. PICK u, h, T, n : Shape(o, u, h) /\ Written(s, o, u, h, T, n)
      BY <2>1 DEF Issues, Issued
    <2>3. ~\E w, r : Local(w) /\ Addr(s, w, r)
      BY <1>1, <2>1, HostBehindAt
    <2>4. CutOff(s)
      BY <2>2, <2>3 DEF Written, Shape, OnceBy, TwiceBy, AroundBy, BrokenBy,
                        S0User, S1User, Broken
    <2>5. PICK t \in {"SRS0", "SRS1"} : s = <<Tag(t)>>
      BY <2>4 DEF CutOff
    <2>6. Len(s) = 1 /\ s[1] = Tag(t)
      BY <2>5, TextTuples
    <2>7. SRS_IS_SRS_ADDRESS(s)
      BY <2>5, <2>6 DEF SRS_IS_SRS_ADDRESS, Tagged, HasTag
    <2> QED BY <2>1, <2>6, <2>7
  <1>2. ASSUME NEW q \in Relays, ReverseBounce(m, q)
        PROVE  /\ SenderHost(m) = <<Name(q)>>
               /\ Explained(mail[m], srs[q], mail'[m].code)
    <2>1. PICK call \in ReverseCalls(q, mail[m].sender) :
           LET ret == call.ans.ret
               o   == mail[m].origin
           IN  /\ mail'[m].code = ret
               /\ ret \notin {"SRS_SUCCESS", "SRS_ENOTSRSADDRESS"}
               /\ \/ \E len : /\ len = call.room
                              /\ Judged(mail[m], srs[q], len, ret)
                  \/ /\ o \in Origins /\ SRS_IS_SRS_ADDRESS(o)
                     /\ o[Len(o)] = Name(q)
      BY <1>2, BounceJudged
    <2>2. PICK ret : ret = call.ans.ret /\ ret = mail'[m].code
      BY <2>1
    <2>3. Judged(mail[m], srs[q], call.room, ret)
      BY <2>1, <2>2 DEF TaggedElsewhere
    <2>4. CASE ret = "SRS_EBUFTOOSMALL" /\ StrLen(mail[m].sender) >= call.room
      <3>1. StrLen(mail[m].sender) \in Nat
        BY StrLenType DEF Lengths
      <3>2. \E len \in BufLens : call.room = len
        BY <2>4, <3>1 DEF ReverseCalls
      <3> QED BY <1>2, <2>2, <2>4, <3>2, Reasons DEF ReverseBounce
    <2>5. CASE Explained(mail[m], srs[q], ret)
      BY <1>2, <2>2, <2>5 DEF ReverseBounce
    <2> QED BY <2>1, <2>2, <2>3, <2>4, <2>5 DEF Judged
  <1> QED BY <1>1, <1>2, LostBy

\* Whatever the relays, their settings and the clock: a relay reverses an address
\* only under a secret and a hash length that it still has, and one with a stamp
\* only within maxage days of its rewriting, counted round the 1024 slots of a
\* stamp (srs_hash_check(), srs_timestamp_check()).
THEOREM InTime == Spec => AcceptedInTime
PROOF
  <1>1. IInv /\ Issues /\ [Next]_vars =>
          [\A m \in Mail, r \in Relays :
             (/\ mail'[m].laps > mail[m].laps
              /\ SenderHost(m) = <<Name(r)>>)
                => /\ HasTag(mail[m].sender, "SRS0") =>
                        Age(Issue(mail[m])) <= srs[r].maxage
                   /\ Issue(mail[m]).key \in ToSet(srs[r].secrets)
                   /\ Issue(mail[m]).len = srs[r].hashlength]_vars
    BY InTimeStep
  <1> QED BY <1>1, IssuesInit, IssuesStep, Invariant, PTL DEF Spec, AcceptedInTime

\* Where no mail starts at a relay with an SRS tag of its own, a relay refuses a
\* bounce to an address of its own only for a reason its operator can name: a
\* stamp that outlived maxage, a secret that is gone, a hash length that was
\* changed or is too short, a short buffer, or three rewritings before this one.
THEOREM Refusals == ASSUME TaggedElsewhere PROVE Spec => RefusalsExplained
PROOF
  <1>1. IInv /\ Issues /\ Lengths /\ [Next]_vars =>
          [\A m \in Mail :
             (mail[m].state = "bounce" /\ mail'[m].state = "lost") =>
                \/ Len(mail[m].sender) = 1 /\ SRS_IS_SRS_ADDRESS(mail[m].sender)
                \/ \E r \in Relays :
                      /\ SenderHost(m) = <<Name(r)>>
                      /\ Explained(mail[m], srs[r], mail'[m].code)]_vars
    BY RefusalStep
  <1> QED BY <1>1, IssuesInit, IssuesStep, LengthsInit, LengthsStep, Invariant, PTL
          DEF Spec, RefusalsExplained
=============================================================================
