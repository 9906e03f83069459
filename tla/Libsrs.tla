------------------------------- MODULE Libsrs -------------------------------
(***************************************************************************)
(* The library before srs2.c: main.c, util.c, base.c, crypto.c and error.c *)
(* of libsrs2/, as functions of the handle, the arguments, the day and the *)
(* digest.  An answer is a record: what came of the call, the string       *)
(* returned, and whether something was written behind a block.             *)
(*                                                                         *)
(* Strings are those of module SrsString.  A name, a tag or a hash that a  *)
(* limit would cut in two is left out as a whole.                          *)
(***************************************************************************)
EXTENDS SrsString

SRS_TAG    == Tag("SRS0")
SRS_WRAP   == Tag("SRS1")
TICKSLOTS  == 1024
MAX_SECRET == 32
MAX_DIGEST == 33
MAX_RWA    == 1024

\* ERROR() and a NULL pointer end the process, the first with status 0.
Exit   == [ret |-> "exit", out |-> <<>>, over |-> FALSE]
Crash  == [ret |-> "SIGSEGV", out |-> <<>>, over |-> FALSE]
\* SRS_parse() of an address without a tag.
NoRwa  == [ret |-> "NULL", out |-> <<>>, over |-> FALSE]
\* UTIL_malloc() without memory: the third way to end the process.
NoMemory == [Exit EXCEPT !.ret = "nomem"]

\* snprintf(, n, ): the pieces of s that end before n.
Cut(s, n) ==
    IF StrLen(s) < n THEN s
    ELSE Before(s, CHOOSE i \in 1..Len(s) : /\ StrLen(Before(s, i)) < n
                                           /\ StrLen(Before(s, i + 1)) >= n)

Answer(s, over) == [ret |-> "ok", out |-> s, over |-> over]

\* snprintf() of s, at most MAX_RWA bytes, into a block of n.
Snprintf(n, s) == LET put == Cut(s, MAX_RWA) IN Answer(put, StrLen(put) + 1 > n)

Has(s, t) == StrChr(s, 1, t) # 0

-----------------------------------------------------------------------------
(* The handle *)

\* A block of MAX_SECRET bytes: a longer secret is cut, without terminator.
UTIL_strndup(secret) == [secret EXCEPT !.len = IF @ > MAX_SECRET
                                                 THEN MAX_SECRET ELSE @]

SRS_new(secret, age, hash_len, hash_min) ==
    [secret |-> UTIL_strndup(secret), s_len |-> secret.len,
     hash_len |-> hash_len, hash_min |-> hash_min, age |-> age]

\* s_len stays as it is.
SRS_set_secret(srs, secret) == [srs EXCEPT !.secret = UTIL_strndup(secret)]

\* What HMAC_Init() is keyed with: s_len bytes of the block.  The zeros behind
\* a shorter secret make no difference to HMAC.
Key(srs) == [srs.secret EXCEPT !.len = IF @ > srs.s_len THEN srs.s_len ELSE @]

-----------------------------------------------------------------------------
(* Hashes *)

\* Mutant: the block is as long as the digest.
HashBlock_Short(zero) == IF zero = 0 THEN 20 ELSE zero - 1

UTIL_create_hashdata(stamp, host, user) ==
    Cut(stamp \o host \o user, MAX_DIGEST)

\* The block of BASE_10_64_s(): seven more than strlen() finds in the digest,
\* whose first zero byte is number zero, 0 for none.
HashBlock(zero) == (IF zero = 0 THEN 20 ELSE zero - 1) + 7

\* 22 characters and a terminator go into it; then a terminator at hash_len.
HashOverruns(srs, zero) == HashBlock(zero) < 23 \/ srs.hash_len >= HashBlock(zero)

\* The beginning of the 22 characters, as long as the callers leave it.
CRYPTO_hmac_sha1(srs, data, len) == Hash(Key(srs), data, IF len > 22 THEN 22 ELSE len)

SRS_hash_create(srs, data) == << CRYPTO_hmac_sha1(srs, data, srs.hash_len) >>

\* Mutants: "len <= hash_min"; strncmp() up to the shorter of the two.
SRS_hash_verify_Longer(srs, data, digest) ==
    /\ srs.hash_min \in 0..(StrLen(digest) - 1)
    /\ digest = SRS_hash_create(srs, data)
SRS_hash_verify_Prefix(srs, data, digest) ==
    /\ srs.hash_min \in 0..StrLen(digest)
    /\ \E n \in 1..22 : digest = << CRYPTO_hmac_sha1(srs, data, n) >>

\* "len < hash_min" is a comparison without sign: below 0, hash_min is more than
\* any length.
SRS_hash_verify(srs, data, digest) ==
    /\ srs.hash_min \in 0..StrLen(digest)
    /\ digest = SRS_hash_create(srs, data)

-----------------------------------------------------------------------------
(* Timestamps *)

\* Mutant: no "& 31".
SRS_timestamp_create_NoMask(day) == << Base32(day \div 32), Base32(day % 32) >>

SRS_timestamp_create(day) == << Base32((day \div 32) % 32), Base32(day % 32) >>

\* '2' to '7' stand for 26 to 31, and are read as 24 to 29.
BASE_32_10_c(t) == IF t \in {Base32(d) : d \in 0..25} THEN t.digit
                   ELSE IF t \in {Base32(d) : d \in 26..31} THEN t.digit - 2
                   ELSE 32

\* Both characters read are the first: "*timestamp++" moves on too late.
SRS_timestamp_check(srs, stamp, day) ==
    LET digit  == BASE_32_10_c((stamp \o <<Nul>>)[1])
        c_time == digit * 64 + digit
        turns  == CHOOSE k \in 1..3 :
                    /\ k = 3 \/ day + k * TICKSLOTS >= c_time
                    /\ \A j \in 1..(k - 1) : day + j * TICKSLOTS < c_time
    IN  day + turns * TICKSLOTS <= c_time + srs.age

-----------------------------------------------------------------------------
(* Addresses *)

\* Mutant: '=' only.
UTIL_get_rtype_sep_EqOnly(s) ==
    IF \E i \in 1..Len(s) : s[i] = Eq /\ StrLen(Before(s, i)) = 4
      THEN CHOOSE i \in 1..Len(s) : StrLen(Before(s, i)) = 4
    ELSE 0

\* The separator at offset 4 of a string, 0 for NULL.
UTIL_get_rtype_sep(s) ==
    IF \E i \in 1..Len(s) : s[i] \in srs_separators /\ StrLen(Before(s, i)) = 4
      THEN CHOOSE i \in 1..Len(s) :
             s[i] \in srs_separators /\ StrLen(Before(s, i)) = 4
    ELSE 0

Wrap(user, host) ==
    LET rwa == From(user, UTIL_get_rtype_sep(user) + 1)
    IN  Snprintf(4 + StrLen(host) + StrLen(rwa) + 3,
              <<SRS_WRAP, Eq>> \o host \o <<Eq>> \o rwa)

\* The local part of an SRS0 address.
Compiled(srs, user, host, day, zero) ==
    LET stamp == SRS_timestamp_create(day)
        hash  == SRS_hash_create(srs, UTIL_create_hashdata(stamp, host, user))
        ans   == Snprintf(4 + StrLen(hash \o stamp \o host \o user) + 5,
                          <<SRS_TAG, Eq>> \o hash \o <<Eq>> \o stamp
                             \o <<Eq>> \o host \o <<Eq>> \o user)
    IN  [ans EXCEPT !.over = @ \/ HashOverruns(srs, zero)]

\* Mutant: a tag is not looked for.
SRS_compile_NoTag(srs, user, host, day, zero) ==
    Compiled(srs, user, host, day, zero)

SRS_compile(srs, user, host, day, zero) ==
    IF Has(user, SRS_TAG)
      THEN IF UTIL_get_rtype_sep(user) = 0 THEN Crash ELSE Wrap(user, host)
    ELSE Compiled(srs, user, host, day, zero)

\* Mutant: SRS1 addresses are compiled like any other.
Local_NoSrs1(srs, user, host, day, zero) == SRS_compile(srs, user, host, day, zero)

\* The local part of a rewritten address.
Local(srs, user, host, day, zero) ==
    IF HasTag(user, "SRS1") THEN Answer(user, FALSE)
    ELSE SRS_compile(srs, user, host, day, zero)

\* At the first '@' that there is.
UTIL_split_addr(sender) == [user |-> Before(sender, StrChr(sender, 1, At)),
                            host |-> From(sender, StrChr(sender, 1, At) + 1)]

SRS_forward(srs, sender, alias, day, zero) ==
    LET addr  == UTIL_split_addr(sender)
        local == Local(srs, addr.user, addr.host, day, zero)
        null  == ~Has(alias, At)
        host  == IF null THEN <<Name("(null)")>>
                 ELSE From(alias, StrChr(alias, 1, At) + 1)
        ans   == Snprintf(IF null THEN 2 ELSE StrLen(local.out) + StrLen(host) + 2,
                       local.out \o <<At>> \o host)
    IN  IF ~Has(sender, At) THEN Exit
        ELSE IF local.ret # "ok" THEN local
        ELSE [ans EXCEPT !.over = @ \/ local.over]

\* What stands before the next '=', and what behind it.
Field(s) == Before(s, StrChr(s, 1, Eq))
Rest(s)  == From(s, StrChr(s, 1, Eq) + 1)

\* The branch for SRS1: the relay in it gets the rest, unchecked.  The string
\* of the caller stays cut at the '@', here his to throw away.
Unwrap(addr) ==
    LET sep == UTIL_get_rtype_sep(addr)
        s   == From(addr, sep + 1)
        c   == Before(s, StrChr(s, 1, At))
    IN  IF sep = 0 \/ ~Has(s, At) \/ ~Has(c, Eq) THEN Crash
        ELSE Snprintf(4 + StrLen(Rest(c)) + StrLen(Field(c)) + 3,
                   <<SRS_TAG, Eq>> \o Rest(c) \o <<At>> \o Field(c))

\* The branch for SRS0.
Decompile(srs, addr, day, zero) ==
    LET sep    == UTIL_get_rtype_sep(addr)
        hash   == From(addr, sep + 1)
        stamp  == Rest(hash)
        host   == Rest(stamp)
        local  == Rest(host)
        user   == Before(local, StrChr(local, 1, At))
        data   == UTIL_create_hashdata(Field(stamp), Field(host), user)
        ans    == Snprintf(StrLen(user) + StrLen(Field(host)) + 2,
                        user \o <<At>> \o Field(host))
    IN  IF sep = 0 \/ ~Has(hash, Eq) \/ ~Has(stamp, Eq) \/ ~Has(host, Eq)
                   \/ ~Has(local, At)
          THEN Crash
        ELSE IF ~SRS_timestamp_check(srs, Field(stamp), day) THEN Exit
        ELSE IF ~SRS_hash_verify(srs, data, Field(hash)) THEN Exit
        ELSE [ans EXCEPT !.over = @ \/ HashOverruns(srs, zero)]

SRS_parse(srs, addr, day, zero) ==
    IF Has(addr, SRS_WRAP) THEN Unwrap(addr)
    ELSE IF Has(addr, SRS_TAG) THEN Decompile(srs, addr, day, zero)
    ELSE NoRwa

SRS_reverse(srs, addr, day, zero) ==
    IF ~Has(addr, At) THEN Exit ELSE SRS_parse(srs, addr, day, zero)
=============================================================================
