-------------------------------- MODULE Relay --------------------------------
(***************************************************************************)
(* Mail passed on by relays that each hold a libsrs2 handle, and the       *)
(* bounces that come back to them.                                         *)
(*                                                                         *)
(* What a relay does with an address is srs2.c (module Srs2).  What lies   *)
(* around the library is external and taken from how it is used: a mail    *)
(* server hands every envelope sender to srs_forward() with its own domain *)
(* as the alias, carries a bounce to the host behind the at sign of the    *)
(* sender, hands what arrives there to srs_reverse(), takes the answer     *)
(* SRS_ENOTSRSADDRESS for a local address and refuses a bounce on any      *)
(* other error (tools/srs.c, perl/t/06reverse.t).                          *)
(*                                                                         *)
(* Between forwarding and bounce anything may happen that an operator can  *)
(* do to a relay: new secrets, new lengths, a restart, a corrected clock.  *)
(***************************************************************************)
EXTENDS Srs2

CONSTANTS
    Mail,           \* envelopes
    Relays,         \* the domains of the relays
    Origins,        \* the addresses mail starts from
    SecretFiles,    \* what -f may name: sequences of secrets
    Times,          \* the instants, in seconds, that the clock shows
    BufLens,        \* the buffer sizes of the callers
    HashLengths, HashMins, MaxAges, SeparatorArgs,  \* arguments of the setters
    MaxHops,        \* bound: rewritings of one sender
    MaxSettings,    \* bound: changes of the handles
    MaxSlips        \* bound: corrections of the clock backwards

Secrets == UNION {Range(file) : file \in SecretFiles}

\* An origin is a local part, an at sign and a host.  Nobody forges a hash.  An
\* origin that other SRS software wrote has something behind its tag, and an
\* SRS1 address has a hash and a host there (srs_compile_guarded() of other
\* implementations writes them).
OriginOK(o) ==
    LET n == Len(o) IN
    /\ o \in Seq(Range(o)) /\ n >= 3
    /\ o[n - 1] = At /\ o[n] = Name(o[n].name)
    /\ \A i \in 1..(n - 2) : o[i] \notin {At, Nul} /\ o[i].kind # "hash"
    /\ HasTag(o, "SRS0") => n >= 4
    /\ HasTag(o, "SRS1") =>
          /\ n >= 4
          /\ o[2] \in srs_separators =>
                n >= 7 /\ o[3] # Eq /\ o[4] = Eq /\ o[5] # Eq

ASSUME OriginsAssumption == \A o \in Origins : OriginOK(o)

\* srs_new() is followed by at least one srs_add_secret() (tools/srs.c).
ASSUME SecretsAssumption ==
    \A file \in SecretFiles : file \in Seq(Secrets) /\ Len(file) > 0

\* With a hash length of 0 every hash is the right one, a negative one makes
\* srs_hash_create_v() write before its buffer, and one above 28 makes it read
\* behind the digest (module SrsHash), so that hashes are not ideal any more.
ASSUME LengthsAssumption == HashLengths \subseteq 1..28

\* A negative buflen is more than any length where strlen() is compared with it.
ASSUME NumbersAssumption == BufLens \subseteq Nat /\ HashMins \cup MaxAges \subseteq Int

ASSUME BoundsAssumption ==
    Times \subseteq Nat /\ {MaxHops, MaxSettings, MaxSlips} \subseteq Nat

VARIABLES
    clock,          \* what time(2) answers, the same on every host
    slips,          \* how often it was set back
    srs,            \* the handle of each relay
    settings,       \* how many changes the handles went through
    mail            \* the envelopes, and what became of them

vars == <<clock, slips, srs, settings, mail>>

States == {"new", "transit", "unsent", "bounce", "returned", "lost"}

Blank == [state |-> "new", origin |-> <<>>, sender |-> <<>>, code |-> "none",
          trail |-> <<>>, laps |-> 0]

\* The address at the relay that the mail is forwarded from.
Alias(r) == <<Name("alias"), At, Name(r)>>

SenderHost(m) == LET s == mail[m].sender IN From(s, StrChr(s, 1, At) + 1)

\* What the setters can make of a handle.
Handles ==
    [ secrets : Seq(Secrets), separator : srs_separators \cup {Nul},
      maxage : {21} \cup MaxAges, hashlength : {4} \cup HashLengths,
      hashmin : {4} \cup HashMins, alwaysrewrite : BOOLEAN ]

\* Mutant: srs_add_secret() is forgotten.
NewHandle_NoSecret(file) == srs_init

NewHandle(file) == [srs_init EXCEPT !.secrets = file]

-----------------------------------------------------------------------------
Init == /\ clock \in Times
        /\ slips = 0
        /\ srs \in [Relays -> {NewHandle(file) : file \in SecretFiles}]
        /\ settings = 0
        /\ mail = [m \in Mail |-> Blank]

Submit(m) ==
    /\ mail[m].state = "new"
    /\ \E o \in Origins :
         mail' = [mail EXCEPT ![m] = [@ EXCEPT !.state = "transit",
                                               !.origin = o, !.sender = o]]
    /\ UNCHANGED <<clock, slips, srs, settings>>

\* The two ways into srs_forward(), with the size of the buffer used.
ForwardCalls(r, sender) ==
    { [room |-> len,
       ans  |-> srs_forward(srs[r], len, sender, Alias(r), clock)]
        : len \in BufLens }
    \cup
    { [room |-> AllocLen(srs[r], sender, Alias(r)),
       ans  |-> srs_forward_alloc(srs[r], sender, Alias(r), clock)] }

\* What is remembered of a rewriting, for the properties only.
Entry(r) == [relay |-> r, key |-> srs[r].secrets[1],
             len |-> srs[r].hashlength, time |-> clock]

Forward(m, r) ==
    /\ mail[m].state = "transit"
    /\ Len(mail[m].trail) < MaxHops
    /\ \E call \in ForwardCalls(r, mail[m].sender) :
         LET ok == call.ans.ret = "SRS_SUCCESS"
             e  == mail[m]
         IN  mail' = [mail EXCEPT ![m] =
               [e EXCEPT
                 !.state  = IF ok THEN "transit" ELSE "unsent",
                 !.sender = IF ok THEN call.ans.out ELSE @,
                 !.trail  = IF ok /\ call.ans.out # e.sender
                            THEN Append(@, Entry(r)) ELSE @,
                 !.code   = call.ans.ret]]
    /\ UNCHANGED <<clock, slips, srs, settings>>

\* Delivery fails somewhere behind the last relay.
Bounce(m) ==
    /\ mail[m].state = "transit"
    /\ mail' = [mail EXCEPT ![m].state = "bounce"]
    /\ UNCHANGED <<clock, slips, srs, settings>>

ReverseCalls(r, sender) ==
    { [room |-> len, ans |-> srs_reverse(srs[r], len, sender, clock)]
        : len \in BufLens }
    \cup
    { [room |-> StrLen(sender) + 1,
       ans  |-> srs_reverse_alloc(srs[r], sender, clock)] }

\* A bounce arrives at a relay.
ReverseBounce(m, r) ==
    /\ mail[m].state = "bounce"
    /\ SenderHost(m) = <<Name(r)>>
    /\ \E call \in ReverseCalls(r, mail[m].sender) :
         LET ok == call.ans.ret = "SRS_SUCCESS"
             e  == mail[m]
         IN  mail' = [mail EXCEPT ![m] =
               [e EXCEPT
                 !.state  = IF ok THEN "bounce"
                            ELSE IF call.ans.ret = "SRS_ENOTSRSADDRESS"
                              THEN "returned"
                            ELSE "lost",
                 !.sender = IF ok THEN call.ans.out ELSE @,
                 !.laps   = IF ok THEN @ + 1 ELSE @,
                 !.code   = call.ans.ret]]
    /\ UNCHANGED <<clock, slips, srs, settings>>

\* A bounce arrives at a host that runs no libsrs2, or has no host to go to.
HandOver(m) ==
    /\ mail[m].state = "bounce"
    /\ \A r \in Relays : SenderHost(m) # <<Name(r)>>
    /\ mail' = [mail EXCEPT ![m].state =
                  IF StrChr(mail[m].sender, 1, At) = 0 THEN "lost"
                  ELSE "returned"]
    /\ UNCHANGED <<clock, slips, srs, settings>>

-----------------------------------------------------------------------------
(* What an operator does to a relay *)

Set(r, handle) ==
    /\ settings < MaxSettings
    /\ handle # srs[r]
    /\ settings' = settings + 1
    /\ srs' = [srs EXCEPT ![r] = handle]
    /\ UNCHANGED <<clock, slips, mail>>

AddSecret(r) == \E file \in SecretFiles :
                   Set(r, srs_add_secret(srs[r], file[1]))

Restart(r) == \E file \in SecretFiles : Set(r, NewHandle(file))

SetSeparator(r) == \E c \in SeparatorArgs :
                      Set(r, srs_set_separator(srs[r], c))

SetMaxage(r) == \E v \in MaxAges : Set(r, [srs[r] EXCEPT !.maxage = v])

SetHashlength(r) == \E v \in HashLengths :
                       Set(r, [srs[r] EXCEPT !.hashlength = v])

SetHashmin(r) == \E v \in HashMins : Set(r, [srs[r] EXCEPT !.hashmin = v])

SetAlwaysrewrite(r) == \E v \in BOOLEAN :
                          Set(r, [srs[r] EXCEPT !.alwaysrewrite = v])

Operate(r) == \/ AddSecret(r) \/ Restart(r)
              \/ SetSeparator(r) \/ SetMaxage(r) \/ SetAlwaysrewrite(r)
              \/ SetHashlength(r) \/ SetHashmin(r)

Tick == /\ \E t \in Times : t > clock /\ clock' = t
        /\ UNCHANGED <<slips, srs, settings, mail>>

SlipBack == /\ slips < MaxSlips
            /\ \E t \in Times : t < clock /\ clock' = t
            /\ slips' = slips + 1
            /\ UNCHANGED <<srs, settings, mail>>

Carry(m) == \/ HandOver(m)
            \/ \E r \in Relays : ReverseBounce(m, r)

Next == \/ \E m \in Mail : \/ Submit(m) \/ Bounce(m) \/ Carry(m)
                           \/ \E r \in Relays : Forward(m, r)
        \/ \E r \in Relays : Operate(r)
        \/ Tick
        \/ SlipBack

Spec == Init /\ [][Next]_vars

-----------------------------------------------------------------------------
(* The promise that the relays keep, for mail from plain addresses *)

\* The first name behind the tag: in an SRS1 address, the first relay.
FirstName(s) == s[SelectInSeq(s, LAMBDA t : t.kind = "name")].name

Route(m) ==
    LET s == mail[m].sender
    IN  IF Tagged(s, "SRS0") THEN << Last(s).name >>
        ELSE IF Tagged(s, "SRS1") THEN << FirstName(s), Last(s).name >>
        ELSE <<>>

\* Mail whose origin other SRS software wrote is no part of the promise.
Promised(m) == mail[m].origin = <<>> \/ ~SRS_IS_SRS_ADDRESS(mail[m].origin)

Promise == INSTANCE ReturnPath
             WITH state <- [m \in Mail |->
                              IF Promised(m) THEN mail[m].state ELSE "new"],
                  route <- [m \in Mail |->
                              IF Promised(m) THEN Route(m) ELSE <<>>]

\* Behind every address that srs2.c writes is a route of at most two relays,
\* and every reversal walks one step of it backwards.
KeepsPromise == Promise!Spec

-----------------------------------------------------------------------------
(* Properties *)

\* The types of the clock, the counters, the handles and the envelopes; no
\* handle ever loses its last secret.
TypeOK ==
    /\ clock \in Times
    /\ slips \in 0..MaxSlips
    /\ settings \in 0..MaxSettings
    /\ srs \in [Relays -> Handles]
    /\ \A r \in Relays : HaveSecret(srs[r])
    /\ DOMAIN mail = Mail
    /\ \A m \in Mail : /\ mail[m].state \in States
                       /\ mail[m].origin \in Origins \cup {<<>>}
                       /\ Len(mail[m].trail) \in 0..MaxHops

\* A bounce that is handed over comes to the very address the mail was sent
\* from, whatever the relays on its way were told in between
\* (srs_compile_guarded() and srs_parse_guarded() are inverse to each other).
NoMisdelivery ==
    \A m \in Mail : mail[m].state = "returned" => mail[m].sender = mail[m].origin

\* Nothing a relay of this library wrote makes the parser of another one read
\* through a NULL pointer (STRINGP() in srs_parse_shortcut()).
NeverCrashes == \A m \in Mail : mail[m].code # "SIGSEGV"

\* However often a sender was rewritten, its bounce is reversed at most twice:
\* SRS1 leads to the first relay, never back along the path.
TwoLaps == \A m \in Mail : mail[m].laps <= 2

\* What srs_forward() and srs_reverse() write, with its terminator, fits into
\* the buffer they were given, also where only the bare minimum is allocated.
BufferRespected ==
    \A m \in Mail, r \in Relays :
      mail[m].state \in {"transit", "bounce"} =>
        \A call \in ForwardCalls(r, mail[m].sender)
                        \cup ReverseCalls(r, mail[m].sender) :
          call.ans.ret = "SRS_SUCCESS" => StrLen(call.ans.out) < call.room

\* The room that srs_forward_alloc() takes is enough for every sender that is
\* not an SRS1 address already, whatever the hash length (the comment about
\* strlen(SRSxTAG) there).
AllocRoomy ==
    \A m \in Mail, r \in Relays :
      mail[m].state = "transit" /\ ~Tagged(mail[m].sender, "SRS1") =>
        srs_forward_alloc(srs[r], mail[m].sender, Alias(r), clock).ret
          # "SRS_EBUFTOOSMALL"

\* How many rewritings by other software a sender has behind it at its origin.
Foreign(o) == IF Tagged(o, "SRS0") THEN 1 ELSE IF Tagged(o, "SRS1") THEN 2 ELSE 0

\* The rewriting that wrote the sender a bounce now carries.
Issue(e) == IF e.laps = 0 THEN Last(e.trail) ELSE Head(e.trail)

Age(issue) == (Day(clock) - Day(issue.time)) % SRS_TIME_SLOTS

Explained(e, handle, code) ==
    CASE code = "SRS_ETIMESTAMPOUTOFDATE" -> Age(Issue(e)) > handle.maxage
      [] code = "SRS_EHASHTOOSHORT" -> Issue(e).len < handle.hashmin
      [] code = "SRS_EHASHINVALID" ->
             \/ Issue(e).key \notin ToSet(handle.secrets)
             \/ Issue(e).len # handle.hashlength
             \/ e.laps = 0 /\ Foreign(e.origin) + Len(e.trail) >= 3
      [] code = "SRS_EBUFTOOSMALL" ->
             \E len \in BufLens : StrLen(e.sender) >= len
      [] OTHER -> FALSE

\* A relay refuses a bounce to an address of its own only for a reason its
\* operator can name: the stamp outlived maxage, the secret is gone, the hash
\* length was changed, the hash was made shorter than hashmin, the buffer is
\* short, or the sender had been through two relays before this one.  A bounce
\* that has nowhere to go is what the separator '\0' leaves of an address.
RefusalsExplained ==
    [][\A m \in Mail :
         (mail[m].state = "bounce" /\ mail'[m].state = "lost") =>
            \/ Len(mail[m].sender) = 1 /\ SRS_IS_SRS_ADDRESS(mail[m].sender)
            \/ \E r \in Relays :
                  /\ SenderHost(m) = <<Name(r)>>
                  /\ Explained(mail[m], srs[r], mail'[m].code)]_vars

\* A relay reverses an address only under a secret and a hash length that it
\* still has, and one with a stamp only within maxage days of the rewriting,
\* counted round the 1024 slots of a stamp (srs_hash_check(),
\* srs_timestamp_check()).
AcceptedInTime ==
    [][\A m \in Mail, r \in Relays :
         (/\ mail'[m].laps > mail[m].laps
          /\ SenderHost(m) = <<Name(r)>>)
            => /\ HasTag(mail[m].sender, "SRS0") =>
                    Age(Issue(mail[m])) <= srs[r].maxage
               /\ Issue(mail[m]).key \in ToSet(srs[r].secrets)
               /\ Issue(mail[m]).len = srs[r].hashlength]_vars

\* A bounce finds its way back when nothing changes on its path
\* (perl/t/06reverse.t: "Reversal works").
ReversalWorks ==
    (settings = 0 /\ clock = 0) => \A m \in Mail : mail[m].state # "lost"
=============================================================================
