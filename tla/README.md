# libsrs2: models, checks and proofs

A TLA+ project for libsrs2, the C library that rewrites the sender addresses of
forwarded mail (SRS) and takes bounces back, with its command `srs` and its
rewriting daemon.  Paths are relative to the repository.

## 1. The system

| Part | Source | State it keeps | Operations |
|---|---|---|---|
| Handle | `libsrs2/srs2.c`, `srs2.h` | `srs_t`: secrets, separator, maxage, hashlength, hashmin, alwaysrewrite | `srs_new`, `srs_init`, `srs_add_secret`, `srs_set_*`, `srs_free` |
| Rewriting | `srs2.c` | none: handle, arguments, `time()` | `srs_forward`, `srs_forward_alloc` over `srs_compile_guarded`, `srs_compile_shortcut` |
| Reversal | `srs2.c` | none | `srs_reverse`, `srs_reverse_alloc` over `srs_parse_guarded`, `srs_parse_shortcut`, `srs_timestamp_check`, `srs_hash_check` |
| SHA-1, HMAC | `sha1.c` | `SHA_INFO`, `srs_hmac_ctx_t` | `srs_hmac_init/update/fini` over `sha_init/update/final` |
| Command | `tools/srs.c`, `main` | options, secrets, addresses | one call |
| Daemon | `tools/srs.c`, `rundaemon` | `fd_set`s, `maxfd`, the loop variable, one line buffer | `select`, `accept`, `read`, a command, `FINISH` |
| Heap | `srs2.c` | `srs_f_malloc`, `srs_f_realloc`, `srs_f_free`; the blocks of handles and addresses | `srs_set_malloc`, and what every other call takes and gives back |
| Bindings | `perl/SRS_XS.xs`, `python/libsrs2.c` | a handle | the library's calls with a buffer of `BUFSIZ` |
| Older library | `libsrs2/main.c`, `base.c`, `crypto.c`, `util.c`, `error.c` | `srs_t`: one secret, lengths, age | `SRS_new`, `SRS_set_secret`, `SRS_forward`, `SRS_reverse`, `SRS_del`; kept in the tree and not built (`libsrs2/Makefile.am` names `srs2.c` and `sha1.c`) |

A mail server calls `srs_forward()` on the envelope sender of what it passes on
and `srs_reverse()` on the recipient of what comes back.  Between two calls
nothing is stored: what the forward knew is in the address, signed with the
first secret and, for SRS0, stamped with the day.  The hard part of the library
is therefore spread over time and over hosts: other relays rewrite the address
again, secrets and lengths change, the clock moves on or back, and the address
still has to lead to exactly one place or be refused for a reason.  The hard
part of the daemon is its loop: all clients share one process, one line buffer
and a loop variable that `accept()` overwrites.  The hard part of SHA-1 is to
place data and padding alike however the text is cut.  The hard part of the heap
is that no result is checked and that one of its four sources, `strdup()`, is not
among the three functions a program may replace.

What makes each part correct:

* rewriting and reversal are inverse along every path; reversal ends; an address
  is good as long as its secret, its hash length and its day are, and not
  longer; what is written fits into the buffer;
* the daemon answers each client its own question, serves every one that asks,
  waits for none, and stays up;
* the HMAC is that of the text, however it comes in pieces, and a hash is the
  beginning of its base64;
* no block is lost, shared or used after it went back, also when a call fails
  half-way, and no secret stays behind in freed memory;
* a call of the command means the same whatever the order of its options, and
  its exit status tells what its output is.

`PROJECT.json` lists the hazards one by one with their lines and the properties
that cover them.

## 2. Modules

| Module | Models | Uses |
|---|---|---|
| `SrsString` | C strings as sequences of tokens; `strchr`, `strlen`, `sprintf` by what they do | |
| `Srs2` | `srs2.c`: every function as an operator on handle, arguments and clock | `SrsString` |
| `Relay` | relays with a handle each, mail forwarded and bounced between them, operators, the clock | `Srs2` |
| `ReturnPath` | abstract: a bounce walks a route of at most two relays backwards | |
| `SrsDaemon` | `rundaemon()`, with clients and kernel as environment | `Srs2` |
| `RewriteService` | abstract: a client comes, asks, and goes with its own answer | |
| `Sha1` | `sha_init`, `sha_update`, `sha_final` and the padding they have to give | |
| `Hmac` | `srs_hmac_*` as `srs_hash_create_v()` calls them | `Sha1` |
| `SrsHash` | `srs_hash_create_v()`: an HMAC, then its digest in base64 | `Hmac` |
| `SrsHandles` | the heap under `srs_new()`, `srs_add_secret()`, `srs_free()`, `srs_set_malloc()` and the `_alloc` calls, from C and from Perl | |
| `SrsTool` | `main()` | `Srs2` |
| `Libsrs` | the library before `srs2.c`: `main.c`, `util.c`, `base.c`, `crypto.c`, `error.c` as operators | `SrsString` |
| `LibsrsRelay` | relays that use it, as `Relay` does `Srs2`; implements `ReturnPath` too | `Libsrs` |
| `MCRelay`, `MCSrsDaemon`, `MCHmac`, `MCSrsHandles`, `MCSrsTool`, `MCLibsrs` | values for the constants | |
| `SrsString_proofs`, `Srs2_proofs`, `Relay_proofs`, `SrsDaemon_proofs`, `SrsHash_proofs`, `SrsHandles_proofs`, `SrsTool_proofs`, `LibsrsRelay_proofs` | theorems | |

### How the models abstract

* **Addresses** are sequences of tokens: separators, the at sign, SRS tags,
  base32 digits, names, hashes.  Case is folded, as every comparison of `srs2.c`
  folds it.  All names are `NameLen` characters long.
* **Hashes are ideal** where addresses are concerned: equal exactly when key, data and length are,
  for lengths from 1 to 28; what a longer one reads is in `SrsHash`.  Everything
  before that (what is hashed, in which order, compared at which length) is
  modelled.  The fields of the data are joined without separators, as
  `srs_hmac_update()` joins them.
* **A NULL pointer that is read** is the answer `"SIGSEGV"`.  `STRINGP()` reads
  its argument exactly when it is NULL.
* **Time** is in seconds; days and slots are computed as the code does.
* **SHA-1's compression** is ideal: the five words are represented by the bytes
  that went into them.  The bit counter is kept in bytes with its wrap.
* **The daemon's steps** are those between which a client can act: `select()`,
  each `accept()`, each `read()`, and a command with its answer.  `FINISH` is
  what it expands to: its `continue` leaves the `do`-`while` of the macro only,
  so the model goes on behind it with the descriptor closed.  `addrlen` is
  uninitialised in the code and is chosen in `Init`.
* **The base64 loop** (`SrsHash`) is followed bit by bit: a bit is named by its
  byte and its place, so that a character shows where it is from: the digest, the
  zero that the code puts behind it, or whatever is on the stack behind that.
* **The heap** is a set of blocks, each with its allocator and the kind of what is
  in it.  `malloc()` may fail at every call when memory is scarce, and `realloc()`
  may move the block or leave it.  Calls of `srs_forward()` and `srs_reverse()` are
  reduced to how many secrets they read and whether they write an answer.
* **The older library** is modelled on the same strings.  `snprintf()` cuts at the
  limit it is given, and a block that is too short for what is written is an
  answer of its own (`over`), behind which the process may go on or die.
* **Allocations that fail** are in `SrsHandles`, for all of `srs2.c`.  Of the older
  library only the end of the process in `UTIL_malloc()` is modelled (`NoMemory`); the
  results of `malloc()` and `strdup()` that nothing checks (`main.c:168`, `:368`,
  `:398`, `:405`, `:412`, `:419`, `util.c:308` to `:321`, `:365`) are taken to be there,
  where the code would read NULL or print `(null)` into an address.
* Left out: wording of messages, `usage()`, the errors of `listen_socket()`, with which
  the daemon ends before it begins, and the bare tag `SRS0` handed to `srs_reverse()`,
  with which the parser reads behind its copy.

`Relay`'s environment (`Submit`, `Forward`, `Bounce`, `HandOver`) is taken from
how the library is used (`tools/srs.c`, `perl/t/06reverse.t`): the relay's domain
is the alias, `SRS_ENOTSRSADDRESS` means a local address, any other error refuses
the bounce.  The variables `origin`, `trail`, `laps` and `code` of an envelope
are history, read by properties only.

## 3. Runs

Mail is independent of mail (an envelope touches no other), so one envelope
shows what there is; the bounds below are about paths and times.

| Run | Shows | Bounds, and why they are enough |
|---|---|---|
| `relay_paths` | `TypeOK`, `NoMisdelivery`, `NeverCrashes`, `TwoLaps`, `RefusalsExplained`, `AcceptedInTime`, `KeepsPromise` | `Relay` implements `ReturnPath`: three relays, three rewritings: the form of an address is settled with the second, and the third is the first that loses the way; origins plain, with separators in the user (VERP), at a relay, already SRS0 or SRS1, and one that only begins like SRS0; one change of settings (separator, maxage 20 for 21); three instants around the turn of the 1024 slots, the last of them 21 days and some seconds behind the second; the clock set back once |
| `relay_settings` | `BufferRespected`, `AllocRoomy`, `AcceptedInTime`, `RefusalsExplained` | two relays, two rewritings, two changes: secrets rotated in two steps, hash lengths 3 to 5, hashmin 3, the separator `'\0'`; buffers with room for an original, an SRS0 and an SRS1 address without and with the terminator (25, 51, 70 characters with the names and lengths of the run), and one that is always enough |
| `daemon_service` | `TypeOK`, `FdTablesAgree`, `NeverWaitsForOne`, `ProvidesService` | `SrsDaemon` implements `RewriteService`: three clients for three descriptors and a backlog of one, two requests with different answers and one without |
| `daemon_faults` | `FdTablesAgree`, `AnswersMatch` | three clients for two descriptors and a backlog of one; clients that go before they ask or before the answer, lines in pieces (one of which lacks the alias), garbage in `addrlen` |
| `hmac_chunks` | `TypeOK`, `NothingLost`, `HmacIsStandard`, `EncodesDigest`, `HashIsDigest` | blocks of 8, length of 2, a counter that wraps at 16: pieces of every length from 0 to 17, so every border of block, padding and counter is met from every side; digests of long secrets with and without a zero byte; 5 bytes of digest, which leave the same two bytes over as 20 when taken by threes, and hashes of 10 characters, which end behind them |
| `handle_life` | `TypeOK`, `PointersSound`, `NothingLeaks`, `SecretsWiped`, `MixupsExplained`, `DiesOfNull` | two handles of up to two secrets and six blocks, one more than a handle, its vector, its secrets and an address need, so that a full heap, a moved vector and a block that is given out again all happen; two allocators; blocks are symmetric (no property tells one from another) |
| `tool_calls` | `HandleAsGiven`, `PrintedInOrder` | every call with three of fifteen options and two of four operands |
| `older_relays` | `TypeOK`, `NoMisdelivery`, `InBounds`, `NeverCrashes`, `RefusalsExplained`, `AcceptedUnderKey`, `KeepsPromise` | two relays, three rewritings, one change of a handle; ages of 21 and 12840 days, since none below decades accepts anything; two days in 2005, on the first of which the stamp is good and on the second not; secrets of 8 and 16 characters, where `SRS_set_secret()` shows; a minimum above the length of the hashes, and a negative one; names of 15 characters, so that the cut of the hashed text at 32 falls between two of them; no zero byte in the digest, one at the third place (the block for the hash is too short) and one at the seventeenth (it is just long enough) |

Four runs are expected to be violated; each checks one statement of the
repository against the code:

| Run | Property | Statement | What the code does |
|---|---|---|---|
| `relay_thirdhop` | `ReversalWorks` | `perl/t/06reverse.t:18`, `README:7` | the third relay takes the hash of the second for part of a host, and refuses the address it wrote itself when the bounce comes to it, the last that rewrote the sender |
| `relay_malformed` | `NeverCrashes` | `srs2.c:118` | the check for a missing timestamp reads NULL |
| `daemon_no_alias` | `StaysUp` | `tools/srs.c:118`, `:230` | a forward without an alias ends the daemon behind `FINISH` |
| `hmac_longkey` | `SameAsOpenssl` | `srs2.c:302` | the key made from a long secret ends at a zero byte |

Other places where code and text disagree follow from a line or two and have no
run; the models do there what the code does:

* `maxage` is declared "in seconds" (`srs2.h:92`) and compared with days
  (`srs2.c:269`); `Age` counts days.
* A stamp has 1024 slots: an address is good again 1024 days later, for `maxage`
  days (`srs2.c:265`); `AcceptedInTime` therefore counts round the slots.
* `srs_set_separator(srs, '\0')` succeeds, as `strchr()` finds the terminator
  (`srs2.c:204`).
* The slack of `srs_forward_alloc()` is meant to hold two tags and some separators
  (`srs2.c:645`), but a sender that is SRS1 already is written with its user
  twice, and may be refused with `SRS_EBUFTOOSMALL`; `AllocRoomy` has the others.
* `srs_forward_alloc()` leaves the caller's pointer alone when it fails
  (`srs2.c:650`), `srs_reverse_alloc()` sets it.
* A program that calls `srs_set_malloc()` before anything else still has its secrets
  made by `strdup()` and given to its own free function (`srs2.c:180`, `:168`):
  `MixupsExplained` says that secrets are all of it.
* A secret that could not be copied counts all the same (`srs2.c:180`); the next
  `srs_free()`, or reversal that comes to it, ends the process.  A forward asks for
  the first secret before (`srs2.c:373`).
* Perl's `new()` without the argument `Secret` reads through NULL where it means
  to print its usage (`SRS_XS.xs:80`).
* In the older library: a stamp is accepted "within the range of days specified (age)"
  (`main.c:532`), but today is counted from 1970 and moved on by 1024 days, and a stamp
  counts at most 65 times 32, so that no age below decades accepts any stamp, not even
  on the day it was made (`main.c:548`; hence the ages of `older_relays`); a negative
  `hash_min` refuses every hash (`main.c:613`); the block for a hash is too short when
  one of the first sixteen bytes of the digest is zero, about one time in sixteen
  (`base.c:83`, hence the exception in `InBounds`); an alias without `@`, "not
  required" by the comment, is printed as NULL into two bytes (`main.c:160`,
  `:177`); `SRS_set_secret()` keeps the length of the old secret (`main.c:653`);
  a tag is found anywhere in a local part (`main.c:253`); the hash covers 32
  characters of day, host and user (`util.c:365`); refusals end the process with
  status 0 (`error.c:69`); `SRS_parse()` leaves the caller's address cut at its
  `@` (`main.c:363`).
* `-l` of the command is documented for forwards only (`tools/srs.c:116`) and
  governs reversal too (`srs2.c:395`); with `-l 3` the command refuses what it
  wrote, since hashmin stays 4.
* A daemon without a free descriptor scans from the socket again and never comes
  to the clients it has (`tools/srs.c:204`); a line in two pieces is taken for two
  lines (`:213`); an end of file runs into the code behind `FINISH` (`:219`); a
  client that went early ends the daemon by `SIGPIPE` (`:247`).  `daemon_faults`
  has all of them and checks what still holds.
* The rest of a comment longer than `BUFSIZ` is a secret (`tools/srs.c:335`); where
  `char` is unsigned no call gets past its options (`tools/srs.c:301`).

The relay, handle and tool runs, `daemon_faults` and `daemon_no_alias` do not check
for deadlock: mail that is returned or lost, a process or a daemon that died, and a
command that exited stop there.  `daemon_service` and the HMAC runs do check it.

**Fairness.**  `SrsDaemon!FairSpec` assumes that the kernel runs the process
(`Daemon` is one process, so one weak fairness condition); nothing is assumed of
clients.  The service in turn promises every client that asks an answer or an end
(`WF` of `Tell`).  Nothing is assumed of mail servers: that a bounce ends is the
bound `TwoLaps`.

## 4. Proofs

`Relay_proofs` proves of `Relay!Spec`, for any number of envelopes, relays,
secrets, rewritings, changes and instants:

| Theorem | States |
|---|---|
| `Invariant` | `[]IInv` |
| `TypeCorrect` | `[]TypeOK` |
| `Returns` | `[]NoMisdelivery` |
| `FewLaps` | `[]TwoLaps` |
| `CrashFree` | `[]NeverCrashes`, if no origin with an SRS tag is at a relay (`TaggedElsewhere`) |
| `PromiseKept` | `KeepsPromise`: `Relay` implements `ReturnPath`, if no relay has the separator `'\0'` |
| `Fits` | `[]BufferRespected` |
| `Roomy` | `[]AllocRoomy` |
| `InTime` | `AcceptedInTime` |
| `Refusals` | `RefusalsExplained`, if `TaggedElsewhere` |

**The argument.**  `NoMisdelivery` speaks of the end of a journey; it is not
inductive.  `IInv` says where a sender stands at every moment (`Reach`): it *is*
the origin; or an SRS0 address of a relay around it (`Once`); or an SRS1 address
of a relay around that, with a relay or the origin's host as first relay
(`Twice`); or it is one that nobody reverses (`Dead`): an SRS1 address made from
an SRS1 address, or, under the separator `'\0'`, a tag with nothing behind it.
It also says that a bounce reversed n times has at most 2 - n reversals before
it, which gives `TwoLaps`.  `ForwardStep` shows that forwarding leads from one of
these forms to another, `ReverseStep` that a reversal comes one step nearer.
They rest on `Srs2_proofs`, which computes token by token what the compilers
write (`ShortcutShape`, `GuardedShape`) and that the parsers undo it (`ReverseS0`,
`ReverseS1`), or refuse it (`ReverseBroken`, `ReverseForeign`), for any local
part, any separator, any secrets, lengths and clock.  `SrsString_proofs` has the
facts about sequences and `strchr()`.

`PromiseKept` needs the route too.  `OnPath` adds to `IInv`, for mail from plain
addresses, which relays are in a sender (`Path`): none at the origin, the relay of an
SRS0 address, the first name and the host of an SRS1 address.  `PathForward` shows
that a rewriting puts a relay behind the first, `PathReverse` that a reversal takes
the last one off.  An SRS1 address made from an SRS1 address has lost its way, but not
the first relay: the old hash that now stands in the place of the host is no name,
and all that stood behind the tag is still there (`Inside`, `InsideLeads`).  An
address cut at the separator `'\0'` has no host that a route could name, hence the
condition.  `ReturnPath` has no fairness: a bounce may be refused at every relay.

`Fits` and `Roomy` need that every sender is made of tokens with a length (`Lengths`):
what the compilers and parsers write into a buffer is then counted against the
comparison they make before, for every separator and hash length.  That `StrLen`, a
recursive function, adds up over `\o` is proved with `Induction` in `SrsString_proofs`,
which states induction with a set of numbers for the property.

`InTime` and `Refusals` need to know which rewriting a refusal is about.  `Issues`
follows the trail into the sender (`Written`): the stamp and the hash of an SRS0
address are those of the only rewriting behind it, the outer hash of an SRS1 address
that of the second, and once a bounce was reversed what is left is the first one's; an
origin that was SRS0 or SRS1 already shifts this by one or two (`Foreign`).
TLC checked `Issues` on the relay runs before it was proved.

**Assumptions**, all named and evaluated by TLC in the runs of `MCRelay`: an
origin has a local part without at sign, terminator or hash of this library, and
one host, and an SRS-tagged one has something behind its tag
(`OriginsAssumption`); a relay starts with a secret (`SecretsAssumption`); no
hash length is 0, for which every hash is right, or negative, with which
`srs_hash_create_v()` writes before its buffer, or above 28, with which it reads behind
the digest (`LengthsAssumption`); a name has at least one character
(`NameLenAssumption`); no buffer has a negative length, which `srs2.c:614` would take
for a large one, and `hashmin` and `maxage` are integers (`NumbersAssumption`), times
and bounds naturals (`BoundsAssumption`).
`CrashFree` and `Refusals` need `TaggedElsewhere`
because `srs_forward()` passes a local sender on unchanged, whatever it looks
like: `relay_malformed` shows it.  (A relay that then gets the bounce refuses an
address that no relay wrote.)

`SrsDaemon_proofs` proves of `SrsDaemon!Spec`, for any clients, requests, number
of descriptors, backlog and faults:

| Theorem | States |
|---|---|
| `TablesInvariant` | `[]IInv` |
| `TypeCorrect` | `[]TypeOK` |
| `TablesAgree` | `[]FdTablesAgree` |

`FdTablesAgree` is not inductive: a `FINISH` of the listening socket would take it
out of the set, and a client that is in the backlog twice, or in it and at a
descriptor, would be accepted twice.  `IInv` adds that a command is run for a
client's descriptor only (`Working`) and that whoever is in the backlog is there
once and not connected (`Waiting`).  `FinishTables` is the lemma about `FINISH`,
whether somebody is at the descriptor or it was closed before.  The assumptions
are that there is a descriptor for the socket (`LimitsAssumption`), that no client is
the mark of a free descriptor (`ClientsAssumption`), and that the daemon's hashes are
of 1 to 28 characters (`HandleAssumption`).

It goes on from there to what clients get:

| Theorem | States |
|---|---|
| `Answered` | `[]AnswersMatch` |
| `NeverWaits` | `[]NeverWaitsForOne`, if `addrlen` holds what fits |
| `ServesClients` | `Serves`: the initial state and every step are those of `RewriteService`, or a stutter |

`Answered` needs `Talk`: what a client has pending is what it sent, and the line a
command is run for is the one of the client at whose descriptor it is run (`Heard`),
although there is one buffer for all and the code behind a `FINISH` runs with the
descriptor closed.  `NeverWaits` needs `Steady`: of what `select()` reported, the part
not yet visited is still readable, because only the loop takes from a descriptor and
it visits each once; the socket comes first, so `accept()` waits for nobody either.
`ServesClients` is for clients that send a whole line and wait (`Faults = {}`) and
requests that do not end the daemon (`Harmless`); its invariant (`Polite`) says that
such a client is always at one of the four places of `RewriteService`.  The fairness
in `ProvidesService` stays with TLC.

`SrsHash_proofs` proves of `SrsHash!HashSpec`, for blocks, digests, lengths and
counters of any size, any secrets and pieces, and hashes of any length:

| Theorem | States |
|---|---|
| `Encodes` | `[]EncodesDigest` |
| `Determined` | `[]HashIsDigest` |
| `HmacTyped` | `[]TypeOK` of `Hmac` |
| `NothingIsLost` | `[]NothingLost` |
| `StandardHmac` | `[]HmacIsStandard` |
| `DigestIsPadded` | `sha_digest(data) = Padded(data)` for every text |

For the encoding, the invariant (`Encoded`) adds to `EncodesDigest` where the pointer stands: at byte
`(6 * i) \div 8` before character i.  `Places` is the arithmetic of six-bit groups
in bytes for the four cases of the switch, `TwoBytes` joins the two parts of a
character that lies in two bytes.  `Determined` follows: a character up to
`8 * (SHA_DIGESTSIZE + 1) \div 6` has no bit behind the terminator.  It rests on
`HashLengthsAssumption` (lengths are naturals) and the assumptions of `Sha1`.

For the HMAC, `Holds` says that an `SHA_INFO` holds a text: what was compressed and the
first `local` bytes of the buffer are the text, `local` is its length in a block, and
the two halves of the counter are its length.  `InitHolds`, `UpdateHolds` and
`FinalPadded` say what `sha_init()`, `sha_update()` and `sha_final()` do to it, for a
buffer that is empty, begun, filled or overrun, a counter that carries (`Carry`), and a
padding of one block or two.  `sha_final()` takes the place in the block from the
counter and not from `local`: they agree because a counter wraps at whole blocks
(`SizesAssumption`, `RemainderTwice`).  `HashInv` then says that between
`srs_hmac_init()` and `srs_hmac_fini()` the context holds the inner pad and the text,
and that the pads are those of the key HMAC defines unless a zero byte cut it short; in
the other states the buffer may hold anything, which is why the invariant only says
that there are bytes it consists of.

`SrsHandles_proofs` proves of `SrsHandles!Spec`, for any handles, blocks, allocators
and numbers of secrets, with and without failing allocations, in C and in Perl:

| Theorem | States |
|---|---|
| `HeapInvariant` | `[]IInv` |
| `TypeCorrect` | `[]TypeOK` |
| `Pointers` | `[]PointersSound` |
| `LeakFree` | `[]NothingLeaks` |
| `Wipes` | `[]SecretsWiped` |
| `Mixups` | `[]MixupsExplained` |
| `Survives` | `[]DiesOfNull` |

The six invariants are inductive only together: a block is not freed twice because two
handles share none and because its content tells which pointer of a handle leads
to it.  `IInv` adds that every block in use but a secret is from the present
allocator unless allocators were switched (`Provided`, for `Mixups`), and that a
secret is never NULL when memory suffices (`Copied`, for `Survives`).  `Frame` is
the lemma all steps share: a step that touches one handle, its own blocks and free
ones leaves the other handles sound.  The assumptions are that NULL is no block
and no handle (`BlocksAssumption`) and that the C library is among the allocators
(`AllocatorsAssumption`).

`LibsrsRelay_proofs` proves of `LibsrsRelay!Spec`, for any relays, envelopes, origins,
days, arguments of `SRS_new()` and places of a zero byte:

| Theorem | States |
|---|---|
| `TypeCorrect` | `[]TypeOK` |
| `BlocksSuffice` | `[]InBounds` |
| `HomeInTheEnd` | `[]NoMisdelivery`, if `Short` |
| `NoNullIsRead` | `[]NeverCrashes`, if `Short` |
| `Refusals` | `RefusalsExplained`, if `Short` |
| `UnderKey` | `AcceptedUnderKey`, if `Short` |
| `PromiseKept` | `KeepsPromise`: `LibsrsRelay` implements `ReturnPath`, if `Short` |

The first two rest on `Sane`: every sender is made of pieces that have a length and
of digits below 32, and every handle can be hashed with.  `BlocksSuffice` counts what
is measured against what is printed, for the hash too.

The other five rest on `Followed`, which says of every envelope where its sender comes
from (`Entrusted`, `Held`): it is the origin, or SRS0 (`Once`) or SRS1 (`Twice`) around
what the *first* entry of its trail wrote, or what other SRS software had written
before the mail came (`Base`).  `ForwardWrites` shows that `SRS_forward()` leads from
one of these forms to another and puts its relay behind the first of the route,
`ReverseReads` that `SRS_reverse()` takes one form apart into the one inside, refuses
with a reason, or leaves the address alone.  Since this library keeps separators in a
local part where they are and searches its tags by `strstr()`, both follow an address
piece by piece between the separators at which `SRS_parse()` takes it apart.

**Assumptions** of these proofs, evaluated by TLC in `older_relays`: a secret fits into
its block and a hash has 1 to 22 characters, as longer ones are read and written out
of bounds, and ages and minima are integers (`SettingsAssumption`); an origin has one
at sign in front of a host's name, or none, holds no hash of this library, and has a
tag only as SRS0 at its beginning, with a separator behind it and a host that is no
relay (`OriginsAssumption`).  `Short` is that origins are so short that the limit of
1024 characters (`MAX_RWA`) cuts nothing off them or off what is made of them; SMTP
limits a path to 256 characters, and the origins of the run are far shorter.
Without it an address that is cut is reversed to what is left of it.

`SrsTool_proofs` proves of `SrsTool!Spec`, for any options, operands, secret files and
bounds, and for either kind of `char`:

| Theorem | States |
|---|---|
| `AsGiven` | `[]HandleAsGiven`, if `ShortComments` |
| `InOrder` | `[]PrintedInOrder` |

`HandleAsGiven` compares the handle that `main()` built one option after the other with
what all options together say.  `Handled` says the same of the first k options, and
`OneTaken` that an option changes both sides alike: `FlattenMore` and `SecretsAdded` are
inductions over the parts of a file and the secrets of an option.  `Printed` says that
the lines so far are the answers so far, which are no more than the library gave
(`Answers`: every way through `srs_forward()` and `srs_reverse()` ends in a code or a
result).  `OptionsAssumption` says that `getopt()` hands out the options it knows, that
a hash length is from 1 to 28, and that a comment has its `#`.  `ShortComments` is that no comment is longer than `BUFSIZ`;
the rest of one that is becomes a secret (section 3).

**Model-checked only**: `ProvidesService` of the daemon, because liveness is out of the
prover's reach (its safety part is `ServesClients`).

## 5. Plan

1. Done: rewriting and reversal; relays over time; the daemon; HMAC and the encoding
   of its digest; the heap; the command; the older library; proofs of every property
   of the passing runs but liveness.
2. Next to model: the copy of an address as an array, for the bare tag; a tag in
   the middle of a local part in the older library; daemon and command composed.
3. Next to prove: where the violated statements do hold, `ReversalWorks` for at most
   two relays and `SameAsOpenssl` for secrets of at most one block.

## 6. Not modelled

The Python binding (it calls `PyAry_ParseTuple()`, which exists nowhere, so that it
cannot be loaded, and does nothing behind it), the accessors and the generated glue
of the Perl binding, `srs_strerror()` (wording), the debugging output of the older
library and the functions in it that nobody calls, build and packaging.  Components
with their reasons are in `PROJECT.json`.
