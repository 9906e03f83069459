---------------------------- MODULE LibsrsRelay ----------------------------
(***************************************************************************)
(* Mail passed on by relays that use the library before srs2.c, and its    *)
(* bounces: module Relay for module Libsrs.  The mail server around the    *)
(* library is external, as it is there; a call that ends its process loses *)
(* the mail.                                                               *)
(***************************************************************************)
EXTENDS Libsrs

CONSTANTS
    Mail, Relays, Origins,
    Arguments,          \* of SRS_new(); a secret is a record [name, len]
    Days,               \* what time() / PRECISION is
    ZeroBytes,          \* where the first zero byte of a digest may be
    MaxHops,            \* bound: rewritings of one sender
    MaxSettings         \* bound: changes of the handles

\* Secrets fit into their block and hashes are at most the 22 characters there
\* are; longer ones are read and written out of bounds.
ASSUME SettingsAssumption ==
    /\ \A a \in Arguments :
         /\ a.secret = [name |-> a.secret.name, len |-> a.secret.len]
         /\ a.secret.len \in 1..MAX_SECRET
         /\ a.hash_len \in 1..22 /\ {a.age, a.hash_min} \subseteq Int
    /\ ZeroBytes \subseteq 0..20 /\ Days \subseteq Nat
    /\ {MaxHops, MaxSettings} \subseteq Nat

\* An origin has a host, a name behind its one at sign, or is a bare local part.
\* Nobody forges a hash.  No local part holds a tag but at its beginning, where
\* it is SRS0 and has what other SRS software writes behind it.
OriginOK(o) ==
    /\ o \in Seq(Range(o))
    /\ \A i \in 1..Len(o) :
         /\ o[i].kind # "hash"
         /\ o[i].kind = "base32" => o[i].digit \in 0..31
         /\ o[i] = At => i = Len(o) - 1 /\ Last(o) = Name(Last(o).name)
    /\ ~Has(o, SRS_WRAP)
    /\ Has(o, SRS_TAG) =>
         /\ HasTag(o, "SRS0") /\ Len(o) >= 2 /\ o[2] \in srs_separators
         /\ \A r \in Relays : Last(o) # Name(r)

ASSUME OriginsAssumption == \A o \in Origins : OriginOK(o)

VARIABLES day, srs, settings, mail

vars == <<day, srs, settings, mail>>

Blank == [state |-> "new", origin |-> <<>>, sender |-> <<>>, code |-> "none",
          over |-> FALSE, trail |-> <<>>]

Secrets == {a.secret : a \in Arguments}

NewHandles == {SRS_new(a.secret, a.age, a.hash_len, a.hash_min) : a \in Arguments}

Alias(r) == <<Name("alias"), At, Name(r)>>

SenderHost(m) == LET s == mail[m].sender IN From(s, StrChr(s, 1, At) + 1)

Init == /\ day \in Days
        /\ srs \in [Relays -> NewHandles]
        /\ settings = 0
        /\ mail = [m \in Mail |-> Blank]

Submit(m) ==
    /\ mail[m].state = "new"
    /\ \E o \in Origins :
         mail' = [mail EXCEPT ![m] = [@ EXCEPT !.state = "transit",
                                               !.origin = o, !.sender = o]]
    /\ UNCHANGED <<day, srs, settings>>

\* What may come of a call: UTIL_malloc() may end the process for want of memory,
\* and a process that wrote behind a block may go on or die.  The other calls of
\* malloc() and strdup(), whose NULL is read or printed as "(null)", succeed.
Outcomes(ans) ==
    {ans} \cup (IF ans.ret = "ok" THEN {NoMemory} ELSE {})
          \cup (IF ans.over THEN {[Crash EXCEPT !.over = TRUE]} ELSE {})

Entry(r) == [relay |-> r, key |-> Key(srs[r]), hash_len |-> srs[r].hash_len,
             day |-> day]

Forward(m, r) ==
    /\ mail[m].state = "transit"
    /\ Len(mail[m].trail) < MaxHops
    /\ \E zero \in ZeroBytes :
       \E ans \in Outcomes(SRS_forward(srs[r], mail[m].sender, Alias(r), day, zero)) :
         mail' = [mail EXCEPT ![m] =
           IF ans.ret = "ok"
             THEN [@ EXCEPT !.sender = ans.out, !.code = "ok", !.over = ans.over,
                            !.trail = Append(mail[m].trail, Entry(r))]
           ELSE [@ EXCEPT !.state = "unsent", !.code = ans.ret, !.over = ans.over]]
    /\ UNCHANGED <<day, srs, settings>>

Bounce(m) ==
    /\ mail[m].state = "transit"
    /\ mail' = [mail EXCEPT ![m].state = "bounce"]
    /\ UNCHANGED <<day, srs, settings>>

\* A bounce arrives at a relay; what is not rewritten there is local.
ReverseBounce(m, r) ==
    /\ mail[m].state = "bounce" /\ SenderHost(m) = <<Name(r)>>
    /\ \E zero \in ZeroBytes :
       \E ans \in Outcomes(SRS_reverse(srs[r], mail[m].sender, day, zero)) :
         mail' = [mail EXCEPT ![m] =
           CASE ans.ret = "ok"   -> [@ EXCEPT !.sender = ans.out, !.code = "ok",
                                              !.over = ans.over]
             [] ans.ret = "NULL" -> [@ EXCEPT !.state = "returned"]
             [] OTHER            -> [@ EXCEPT !.state = "lost", !.code = ans.ret,
                                              !.over = ans.over]]
    /\ UNCHANGED <<day, srs, settings>>

\* A bounce arrives elsewhere, or has no host to go to.
HandOver(m) ==
    /\ mail[m].state = "bounce"
    /\ \A r \in Relays : SenderHost(m) # <<Name(r)>>
    /\ mail' = [mail EXCEPT ![m].state = IF Has(mail[m].sender, At)
                                         THEN "returned" ELSE "lost"]
    /\ UNCHANGED <<day, srs, settings>>

Set(r, handle) ==
    /\ settings < MaxSettings /\ handle # srs[r]
    /\ settings' = settings + 1
    /\ srs' = [srs EXCEPT ![r] = handle]
    /\ UNCHANGED <<day, mail>>

SetSecret(r) == \E s \in Secrets : Set(r, SRS_set_secret(srs[r], s))

\* SRS_del() and SRS_new().
Renew(r) == \E handle \in NewHandles : Set(r, handle)

Tick == /\ \E d \in Days : d > day /\ day' = d
        /\ UNCHANGED <<srs, settings, mail>>

Next == \/ \E m \in Mail :
             \/ Submit(m) \/ Bounce(m) \/ HandOver(m)
             \/ \E r \in Relays : Forward(m, r) \/ ReverseBounce(m, r)
        \/ \E r \in Relays : SetSecret(r) \/ Renew(r)
        \/ Tick

Spec == Init /\ [][Next]_vars

-----------------------------------------------------------------------------
(* The promise is that of srs2.c: a route of at most two relays *)

Route(m) ==
    LET s == mail[m].sender
    IN  IF HasTag(s, "SRS0") THEN << Last(s).name >>
        ELSE IF HasTag(s, "SRS1") THEN << s[3].name, Last(s).name >>
        ELSE <<>>

Promised(m) == ~Has(mail[m].origin, SRS_TAG)

Promise == INSTANCE ReturnPath
             WITH state <- [m \in Mail |->
                              IF Promised(m) THEN mail[m].state ELSE "new"],
                  route <- [m \in Mail |->
                              IF Promised(m) THEN Route(m) ELSE <<>>]

\* SRS1 leads every bounce to the first relay and from there to the sender,
\* although nothing in an SRS1 address is checked (SRS_parse()).
KeepsPromise == Promise!Spec

-----------------------------------------------------------------------------
(* Properties *)

\* The types of the handles and envelopes; every digit of a stamp is one of the
\* 32 of BASE_32.
TypeOK ==
    /\ day \in Days /\ settings \in 0..MaxSettings
    /\ \A r \in Relays : /\ srs[r].secret \in Secrets
                         /\ srs[r].s_len \in 1..MAX_SECRET
    /\ \A m \in Mail :
         /\ mail[m].state \in {"new", "transit", "unsent", "bounce", "returned",
                               "lost"}
         /\ Len(mail[m].trail) \in 0..MaxHops
         /\ \A i \in 1..Len(mail[m].sender) :
              mail[m].sender[i].kind = "base32" =>
                mail[m].sender[i].digit \in 0..31

\* Equal, but for the separator behind a tag, which an SRS1 address forgets.
SameAddress(s, o) == IF HasTag(o, "SRS0")
                       THEN HasTag(s, "SRS0") /\ From(s, 3) = From(o, 3)
                     ELSE s = o

\* A bounce that is handed over has the address the mail was sent from, whatever
\* the handles were told in between (SRS_compile() and SRS_parse() are inverse to
\* each other, with separators in the local part too).
NoMisdelivery ==
    \A m \in Mail :
      mail[m].state = "returned" => SameAddress(mail[m].sender, mail[m].origin)

\* The blocks that are measured before snprintf() are as long as what is put
\* into them, and the block for a hash is long enough when no zero byte of the
\* digest is among its first sixteen (UTIL_varlen(), BASE_10_64_s()).
InBounds ==
    \A m \in Mail, r \in Relays, zero \in ZeroBytes \ 1..16 :
      LET sender == mail[m].sender IN
      /\ mail[m].state = "transit" =>
            ~SRS_forward(srs[r], sender, Alias(r), day, zero).over
      /\ mail[m].state = "bounce" => ~SRS_reverse(srs[r], sender, day, zero).over

\* Nothing that this library wrote makes it read through a NULL pointer
\* (UTIL_get_rtype_sep() and the strstr() calls of SRS_parse()).
NeverCrashes == \A m \in Mail : mail[m].code = "SIGSEGV" => mail[m].over

\* The SRS0 address that bounce m came for is reversed at relay r.
Reversed(m, r) ==
    /\ mail[m].state = "bounce" /\ SenderHost(m) = <<Name(r)>>
    /\ ~Has(mail[m].sender, SRS_WRAP)
    /\ mail'[m].sender # mail[m].sender

\* The process that should reverse a bounce ends only when memory runs out, or
\* the stamp of its first rewriting is refused, or the first relay has another
\* secret, fewer bytes of it in use, another hash_len or a hash_min above it or
\* below 0 by now, or a block was overrun, or it has no host to go to
\* (SRS_parse()).
RefusalsExplained ==
    [][\A m \in Mail :
         (mail[m].state = "bounce" /\ mail'[m].state = "lost") =>
           \/ mail'[m].code = "nomem" \/ mail'[m].over
           \/ ~Has(mail[m].sender, At)
           \/ LET issue == Head(mail[m].trail)
                  now   == srs[issue.relay]
              IN  \/ ~SRS_timestamp_check(now, SRS_timestamp_create(issue.day), day)
                  \/ issue.key # Key(now)
                  \/ issue.hash_len # now.hash_len
                  \/ now.hash_min \notin 0..issue.hash_len]_vars

\* An SRS0 address is reversed by the relay that wrote it, under the bytes of
\* the secret and the hash length it was written with (SRS_hash_verify()).
AcceptedUnderKey ==
    [][\A m \in Mail, r \in Relays : Reversed(m, r) =>
         LET issue == Head(mail[m].trail)
         IN  /\ issue.relay = r /\ issue.key = Key(srs[r])
             /\ issue.hash_len = srs[r].hash_len]_vars
=============================================================================
