-------------------------------- MODULE Srs2 --------------------------------
(***************************************************************************)
(* libsrs2/srs2.c: the rewriting of a sender address by a forwarder and    *)
(* the reversal of a rewritten address, as functions of the handle, the    *)
(* arguments and the clock.  An answer is a record: the code returned and  *)
(* the string left in the caller's buffer (empty unless SRS_SUCCESS).      *)
(*                                                                         *)
(* The answer "SIGSEGV" stands for the death of the process: STRINGP()     *)
(* reads its argument exactly when the argument is NULL.                   *)
(***************************************************************************)
EXTENDS SrsString

SRS_TIME_PRECISION == 60 * 60 * 24             \* seconds in a day
SRS_TIME_BASE      == 32                       \* 1 << SRS_TIME_BASEBITS
SRS_TIME_SIZE      == 2
SRS_TIME_SLOTS     == 1024

Fail(code) == [ret |-> code, out |-> <<>>]
Done(s)    == [ret |-> "SRS_SUCCESS", out |-> CString(s)]

-----------------------------------------------------------------------------
(* The handle, srs_t *)

srs_init ==
    [secrets |-> <<>>, separator |-> Eq, maxage |-> 21, hashlength |-> 4,
     hashmin |-> 4, alwaysrewrite |-> FALSE]

srs_add_secret(srs, secret) == [srs EXCEPT !.secrets = Append(@, secret)]

\* strchr() finds the terminator of srs_separators too.
SeparatorAccepted(c) == c \in srs_separators \cup {Nul}

srs_set_separator(srs, c) ==
    IF SeparatorAccepted(c) THEN [srs EXCEPT !.separator = c] ELSE srs

-----------------------------------------------------------------------------
(* Timestamps *)

Day(now) == now \div SRS_TIME_PRECISION

srs_timestamp_create(now) ==
    << Base32((Day(now) \div SRS_TIME_BASE) % SRS_TIME_BASE),
       Base32(Day(now) % SRS_TIME_BASE) >>

\* The loop over the digits of a stamp: its value after the first n.
StampValue(stamp) ==
    LET then[n \in 0..Len(stamp)] ==
            IF n = 0 THEN 0
            ELSE then[n - 1] * SRS_TIME_BASE + stamp[n].digit
    IN  then[Len(stamp)]

\* Mutants: "while (now <= then)"; no loop at all.
Unwrap_TooFar(slot, then) ==
    IF slot > then THEN slot
    ELSE slot + ((then - slot) \div SRS_TIME_SLOTS + 1) * SRS_TIME_SLOTS
Unwrap_Never(slot, then) == slot

\* The slot of today, moved up by whole turns until it is not before then:
\* the loop leaves the first such number.
Unwrap(slot, then) ==
    IF slot >= then THEN slot
    ELSE slot + ((then - slot + SRS_TIME_SLOTS - 1) \div SRS_TIME_SLOTS)
                  * SRS_TIME_SLOTS

srs_timestamp_check(srs, stamp, now) ==
    LET then  == StampValue(stamp)
        today == Unwrap(Day(now) % SRS_TIME_SLOTS, then)
    IN  IF \E n \in 1..Len(stamp) : stamp[n].kind # "base32"
          THEN "SRS_EBADTIMESTAMPCHAR"
        ELSE IF today <= then + srs.maxage
          THEN "SRS_SUCCESS"
        ELSE "SRS_ETIMESTAMPOUTOFDATE"

-----------------------------------------------------------------------------
(* Hashes *)

\* The first hashlength characters of the HMAC of data under secret idx, for a
\* hashlength of at most 28; what a longer one reads is in module SrsHash.
srs_hash_create_v(srs, idx, data) ==
    IF srs.hashlength = 0 THEN <<>>
    ELSE << Hash(srs.secrets[idx], data, srs.hashlength) >>

HaveSecret(srs) == Len(srs.secrets) > 0

srs_hash_create(srs, data) == srs_hash_create_v(srs, 1, data)

\* Mutants: a short hash is compared as far as it goes; only the secret that
\* new hashes are made with is tried.
srs_hash_check_Prefix(srs, hash, data) ==
    IF StrLen(hash) < srs.hashmin THEN "SRS_EHASHTOOSHORT"
    ELSE IF \E i \in 1..Len(srs.secrets), n \in 1..srs.hashlength :
              hash = << Hash(srs.secrets[i], data, n) >>
      THEN "SRS_SUCCESS"
    ELSE "SRS_EHASHINVALID"
srs_hash_check_First(srs, hash, data) ==
    IF StrLen(hash) < srs.hashmin THEN "SRS_EHASHTOOSHORT"
    ELSE IF hash = srs_hash_create(srs, data) THEN "SRS_SUCCESS"
    ELSE "SRS_EHASHINVALID"

\* A short hash is padded with terminators and a long one compared in full,
\* so what is accepted is exactly what some secret makes today.
srs_hash_check(srs, hash, data) ==
    IF StrLen(hash) < srs.hashmin
      THEN "SRS_EHASHTOOSHORT"
    ELSE IF \E i \in 1..Len(srs.secrets) :
                hash = srs_hash_create_v(srs, i, data)
      THEN "SRS_SUCCESS"
    ELSE "SRS_EHASHINVALID"

-----------------------------------------------------------------------------
(* Compiling *)

\* The tag, then a separator or the end of the local part: strchr() on
\* srs_separators answers for '\0' too.
Tagged(user, t) ==
    HasTag(user, t) /\ (Len(user) = 1 \/ user[2] \in srs_separators)

\* senduser + 5: when the local part is the bare tag, this is the host behind
\* the terminator that srs_forward() wrote over the at sign.
PastTag(user, host) == IF Len(user) = 1 THEN host ELSE From(user, 3)

\* Mutant: no SRSSEP between the host and the user.
Shortcut_NoSep(srs, buflen, host, user, alias, now) ==
    LET stamp == srs_timestamp_create(now)
    IN  Done(<<Tag("SRS0"), srs.separator>>
               \o srs_hash_create(srs, stamp \o host \o user)
               \o <<Eq>> \o stamp \o <<Eq>> \o host \o user
               \o <<At>> \o alias)

Shortcut(srs, buflen, host, user, alias, now) ==
    LET stamp == srs_timestamp_create(now)
        len   == 4 + 1 + srs.hashlength + 1 + SRS_TIME_SIZE + 1
                   + StrLen(host) + 1 + StrLen(user) + 1 + StrLen(alias)
    IN  IF len >= buflen THEN Fail("SRS_EBUFTOOSMALL")
        ELSE IF ~HaveSecret(srs) THEN Fail("SRS_ENOSECRETS")
        ELSE Done(<<Tag("SRS0"), srs.separator>>
                    \o srs_hash_create(srs, stamp \o host \o user)
                    \o <<Eq>> \o stamp \o <<Eq>> \o host \o <<Eq>> \o user
                    \o <<At>> \o alias)

srs_compile_shortcut(srs, buflen, host, user, alias, now) ==
    LET newhost == PastTag(user, host)
        sep     == StrChr(newhost, 1, Eq)
    IN  IF ~Tagged(user, "SRS0")
          THEN Shortcut(srs, buflen, host, user, alias, now)
        ELSE IF newhost = <<>> THEN Fail("SRS_ENOSRS0HOST")
        ELSE IF sep = 0 THEN Fail("SRS_ENOSRS0USER")
        ELSE Shortcut(srs, buflen, newhost, From(newhost, sep), alias, now)

\* Mutant: "len > buflen".
Guarded_TooLong(srs, buflen, host, user, alias) ==
    LET out == <<Tag("SRS1"), srs.separator>> \o srs_hash_create(srs, host \o user)
                 \o <<Eq>> \o host \o <<Eq>> \o user \o <<At>> \o alias
    IN  IF StrLen(out) > buflen THEN Fail("SRS_EBUFTOOSMALL") ELSE Done(out)

Guarded(srs, buflen, host, user, alias) ==
    LET len == 4 + 1 + srs.hashlength + 1 + StrLen(host) + 1 + StrLen(user)
                 + 1 + StrLen(alias)
    IN  IF ~HaveSecret(srs) THEN Fail("SRS_ENOSECRETS")
        ELSE IF len >= buflen THEN Fail("SRS_EBUFTOOSMALL")
        ELSE Done(<<Tag("SRS1"), srs.separator>>
                    \o srs_hash_create(srs, host \o user)
                    \o <<Eq>> \o host \o <<Eq>> \o user \o <<At>> \o alias)

\* Mutant: an SRS1 address is an address like any other.
srs_compile_guarded_NoSrs1(srs, buflen, host, user, alias, now) ==
    IF Tagged(user, "SRS0") THEN Guarded(srs, buflen, host, From(user, 2), alias)
    ELSE srs_compile_shortcut(srs, buflen, host, user, alias, now)

\* An SRS1 address keeps its old hash as part of the host, and the host is
\* not ended where the user begins: both run to the end of the local part.
srs_compile_guarded(srs, buflen, host, user, alias, now) ==
    LET oldhost == PastTag(user, host)
        sep     == StrChr(oldhost, 1, Eq)
    IN  IF Tagged(user, "SRS1")
          THEN IF oldhost = <<>> THEN Fail("SRS_ENOSRS1HOST")
               ELSE IF sep = 0 THEN Fail("SRS_ENOSRS1USER")
               ELSE Guarded(srs, buflen, oldhost, From(oldhost, sep), alias)
        ELSE IF Tagged(user, "SRS0")
          THEN Guarded(srs, buflen, host, From(user, 2), alias)
        ELSE srs_compile_shortcut(srs, buflen, host, user, alias, now)

-----------------------------------------------------------------------------
(* Parsing *)

srs_parse_shortcut(srs, senduser, now) ==
    LET i     == StrChr(senduser, 3, Eq)
        j     == StrChr(senduser, i + 1, Eq)
        k     == StrChr(senduser, j + 1, Eq)
        hash  == SubSeq(senduser, 3, i - 1)
        stamp == SubSeq(senduser, i + 1, j - 1)
        host  == SubSeq(senduser, j + 1, k - 1)
        user  == From(senduser, k + 1)
        fresh == srs_timestamp_check(srs, stamp, now)
        valid == srs_hash_check(srs, hash, stamp \o host \o user)
    IN  IF ~HasTag(senduser, "SRS0") THEN Fail("SRS_ENOTSRSADDRESS")
        ELSE IF i = 0 \/ j = 0 \/ k = 0 THEN Fail("SIGSEGV")
        ELSE IF fresh # "SRS_SUCCESS" THEN Fail(fresh)
        ELSE IF valid # "SRS_SUCCESS" THEN Fail(valid)
        ELSE Done(user \o <<At>> \o host)

srs_parse_guarded(srs, senduser, now) ==
    LET i     == StrChr(senduser, 3, Eq)
        j     == StrChr(senduser, i + 1, Eq)
        hash  == SubSeq(senduser, 3, i - 1)
        host  == SubSeq(senduser, i + 1, j - 1)
        user  == From(senduser, j + 1)
        valid == srs_hash_check(srs, hash, host \o user)
    IN  IF ~HasTag(senduser, "SRS1")
          THEN srs_parse_shortcut(srs, senduser, now)
        ELSE IF i = 0 \/ j = 0 THEN Fail("SIGSEGV")
        ELSE IF valid # "SRS_SUCCESS" THEN Fail(valid)
        ELSE Done(<<Tag("SRS0")>> \o user \o <<At>> \o host)

-----------------------------------------------------------------------------
(* The entry points *)

\* What is left of an alias behind its last at sign.
Domain(alias) == From(alias, SelectLastInSeq(alias, LAMBDA t : t = At) + 1)

srs_forward(srs, buflen, sender, alias, now) ==
    LET at   == StrChr(sender, 1, At)
        user == Before(sender, at)
        host == From(sender, at + 1)
    IN  IF at = 0 THEN Fail("SRS_ENOSENDERATSIGN")
        ELSE IF ~srs.alwaysrewrite /\ host = Domain(alias)
          THEN IF StrLen(sender) >= buflen THEN Fail("SRS_EBUFTOOSMALL")
               ELSE Done(sender)
        ELSE srs_compile_guarded(srs, buflen, host, user, Domain(alias), now)

\* Mutant: room for the addresses only.
AllocLen_NoSlack(srs, sender, alias) == StrLen(sender) + StrLen(alias)

AllocLen(srs, sender, alias) ==
    StrLen(sender) + StrLen(alias) + srs.hashlength + SRS_TIME_SIZE + 64

srs_forward_alloc(srs, sender, alias, now) ==
    srs_forward(srs, AllocLen(srs, sender, alias), sender, alias, now)

\* Mutant: "0" for "01".
SRS_IS_SRS_ADDRESS_Only0(x) == Tagged(x, "SRS0")

SRS_IS_SRS_ADDRESS(x) == Tagged(x, "SRS0") \/ Tagged(x, "SRS1")

\* The bare tag, without a host, is left out by every caller modelled here:
\* the parser would read past the end of the copy.
srs_reverse(srs, buflen, sender, now) ==
    LET at == StrChr(sender, 1, At)
    IN  IF ~SRS_IS_SRS_ADDRESS(sender) THEN Fail("SRS_ENOTSRSADDRESS")
        ELSE IF StrLen(sender) >= buflen THEN Fail("SRS_EBUFTOOSMALL")
        ELSE srs_parse_guarded(
                 srs, IF at = 0 THEN sender ELSE Before(sender, at), now)

srs_reverse_alloc(srs, sender, now) ==
    srs_reverse(srs, StrLen(sender) + 1, sender, now)
=============================================================================
