----------------------------- MODULE SrsHandles -----------------------------
(***************************************************************************)
(* The memory behind libsrs2 handles: what srs_new(), srs_add_secret(),    *)
(* srs_free() and the _alloc calls take from and give back to the heap,    *)
(* called by a C program, or by Perl through perl/SRS_XS.xs.               *)
(*                                                                         *)
(* The library allocates through three pointers that srs_set_malloc()      *)
(* changes, except for strdup(), which is the C library's.  No result is   *)
(* checked: a NULL that is written or read through ends the process.  What *)
(* a handle says and what an address holds is in module Srs2; here a call  *)
(* succeeds or fails as it may there, after it read some of the secrets.   *)
(***************************************************************************)
EXTENDS Naturals, SequencesExt

CONSTANTS
    Handles,        \* what a program calls its handles
    Blocks,         \* the blocks of the heap
    Null,           \* the NULL pointer
    Allocators,     \* what srs_set_malloc() may be given, and the C library
    MaxSecrets      \* bound: secrets of one handle

ASSUME BlocksAssumption == Null \notin Blocks \cup Handles
ASSUME AllocatorsAssumption ==
    "libc" \in Allocators /\ "nobody" \notin Allocators

VARIABLES
    caller,         \* the language of the program: "c" or "perl"
    scarce,         \* whether memory may run out
    up,             \* whether the process lives
    alloc,          \* srs_f_malloc, srs_f_realloc and srs_f_free
    by,             \* of each block: who gave it out, or "nobody"
    holds,          \* what is in it; of a free one only whether it is a secret
    at, secrets,    \* of each handle: its own block and that of srs->secrets
    secret,         \* of each handle: srs->secrets[0..numsecrets - 1]
    addresses,      \* the blocks that _alloc calls gave to the program
    making,         \* the handle that Perl's new() is about, or Null
    switched,       \* history: srs_set_malloc() was called with blocks in use
    wrong           \* history: what went back to another allocator

host    == <<caller, scarce>>
handles == <<at, secrets, secret>>
vars == <<host, up, alloc, by, holds, handles, addresses, making,
          switched, wrong>>

Contents == {"srs_t", "secrets", "secret", "address", "zeros"}

used == {b \in Blocks : by[b] # "nobody"}

Held == {h \in Handles : at[h] # Null}

Init ==
    /\ caller \in {"c", "perl"} /\ scarce \in BOOLEAN /\ up = TRUE
    /\ alloc = "libc"
    /\ by = [b \in Blocks |-> "nobody"] /\ holds = [b \in Blocks |-> "zeros"]
    /\ at = [h \in Handles |-> Null] /\ secrets = [h \in Handles |-> Null]
    /\ secret = [h \in Handles |-> <<>>]
    /\ addresses = {}
    /\ making = Null
    /\ switched = FALSE /\ wrong = {}

\* A NULL pointer is read or written through.
Die == /\ up' = FALSE
       /\ UNCHANGED <<host, alloc, by, holds, handles, addresses,
                      switched, wrong>>

\* malloc() with the blocks of S in use: another one or, when memory is
\* scarce, NULL.
Malloc(S) == (Blocks \ S) \cup (IF scarce THEN {Null} ELSE {})

\* What by and holds become when the blocks of S are free again.
Released(S) == [b \in Blocks |-> IF b \in S THEN "nobody" ELSE by[b]]
Left(S) == [b \in Blocks |-> IF b \in S /\ holds[b] # "secret" THEN "zeros"
                              ELSE holds[b]]

\* One block, or none for Null, gets a value.
Put(f, place, v) == [b \in Blocks |-> IF b = place THEN v ELSE f[b]]

\* What is given to srs_f_free() or srs_f_realloc() and is not theirs.
Misplaced(S) == {holds[b] : b \in {c \in S \ {Null} : by[c] # alloc}}

-----------------------------------------------------------------------------
(* srs2.c *)

srs_set_malloc(a) ==
    /\ alloc' = a
    /\ switched' = (switched \/ used # {})
    /\ UNCHANGED <<host, up, by, holds, handles, addresses, wrong>>

\* Mutant: the block of a handle is taken with malloc().
NewBy_Libc == "libc"

\* Whose block a handle is.
NewBy == alloc

\* srs_init() fills the block without asking whether there is one.
srs_new(h) ==
    \E b \in Malloc(used) :
      IF b = Null THEN Die
      ELSE /\ by' = Put(by, b, NewBy) /\ holds' = Put(holds, b, "srs_t")
           /\ at' = [at EXCEPT ![h] = b]
           /\ UNCHANGED <<host, up, alloc, secrets, secret, addresses,
                          switched, wrong>>

\* Mutants: numsecrets is counted up twice; malloc() and memcpy() in place of
\* realloc().
Counted_Twice(list, copy) == list \o <<copy, Null>>
Outgrown_Kept(h, new) == {}

Counted(list, copy) == Append(list, copy)

\* What realloc() gives back: the old vector, unless it stays in place.
Outgrown(h, new) == {secrets[h]} \ {Null, new}

\* What strdup() fails to copy is counted as a secret all the same.
srs_add_secret(h) ==
    \E new \in Malloc(used) \cup ({secrets[h]} \ {Null}) :
      IF new = Null THEN Die
      ELSE \E copy \in Malloc((used \ Outgrown(h, new)) \cup {new}) :
        /\ by' = Put(Put(Released(Outgrown(h, new)), new, alloc), copy, "libc")
        /\ holds' = Put(Put(Left(Outgrown(h, new)), new, "secrets"),
                        copy, "secret")
        /\ secrets' = [secrets EXCEPT ![h] = new]
        /\ secret' = [secret EXCEPT ![h] = Counted(@, copy)]
        /\ wrong' = wrong \cup Misplaced({secrets[h]})
        /\ UNCHANGED <<host, up, alloc, at, addresses, switched>>

\* srs_hash_create_v() and srs_free() take the length of a secret.
Readable(h, n) == \A i \in 1..n : secret[h][i] # Null

\* The blocks of a handle.
Own(h) == ({at[h], secrets[h]} \cup ToSet(secret[h])) \ {Null}

\* Mutant: the loop begins with the second secret.
Wiped_NotFirst(h) == {secret[h][i] : i \in 2..Len(secret[h])}

\* What memset() clears.
Wiped(h) == ToSet(secret[h])

srs_free(h) ==
    IF ~Readable(h, Len(secret[h])) THEN Die
    ELSE /\ by' = Released(Own(h))
         /\ holds' = [b \in Blocks |-> IF b \in Wiped(h) THEN "zeros"
                                       ELSE Left(Own(h))[b]]
         /\ wrong' = wrong \cup Misplaced(Own(h))
         /\ at' = [at EXCEPT ![h] = Null]
         /\ secrets' = [secrets EXCEPT ![h] = Null]
         /\ secret' = [secret EXCEPT ![h] = <<>>]
         /\ UNCHANGED <<host, up, alloc, addresses, switched>>

\* srs_hash_create() has a secret to sign with.
Signs(h) == secret[h] # <<>> /\ secret[h][1] # Null

\* How many secrets a call reads and whether it writes an answer: forwarding
\* takes the first, unless it leaves or refuses the sender; reversing goes
\* through them until one fits.
ForwardCalls(h) == ({0} \X BOOLEAN) \cup ({n \in {1} : Signs(h)} \X {TRUE})
ReverseCalls(h) == ({0} \X {FALSE}) \cup ((1..Len(secret[h])) \X BOOLEAN)

Calls(h) == ForwardCalls(h) \cup ReverseCalls(h)

\* Mutant: the answer to no buffer is taken for an address.
Fatal_NoBuffer(h, buf, call) == ~Readable(h, call[1])

\* srs_forward() or srs_reverse() ends the process.
Fatal(h, buf, call) == \/ ~Readable(h, call[1])
                       \/ call[2] /\ buf = Null

\* With a buffer of the program's own nothing is left but the answer.
srs_call(h) == /\ \E call \in Calls(h) : ~Readable(h, call[1])
               /\ Die

\* What srs_forward_alloc() and srs_reverse_alloc() do not give back.
Kept(buf, call) == IF call[2] THEN buf ELSE Null

srs_call_alloc(h) ==
    \E call \in Calls(h), buf \in Malloc(used) :
      IF Fatal(h, buf, call) THEN Die
      ELSE /\ by' = Put(by, Kept(buf, call), alloc)
           /\ holds' = Put(holds, Kept(buf, call), "address")
           /\ addresses' = IF call[2] THEN addresses \cup {buf} ELSE addresses
           /\ UNCHANGED <<host, up, alloc, handles, switched, wrong>>

\* The program gives an address back the way the library is told to.
FreeAddress(b) ==
    /\ by' = Released({b}) /\ holds' = Left({b})
    /\ addresses' = addresses \ {b}
    /\ wrong' = wrong \cup Misplaced({b})
    /\ UNCHANGED <<host, up, alloc, handles, switched>>

-----------------------------------------------------------------------------
C == /\ caller = "c"
     /\ UNCHANGED making
     /\ \/ \E a \in Allocators : srs_set_malloc(a)
        \/ \E h \in Handles \ Held : srs_new(h)
        \/ \E h \in Held : \/ Len(secret[h]) < MaxSecrets /\ srs_add_secret(h)
                           \/ srs_free(h)
                           \/ srs_call(h)
                           \/ srs_call_alloc(h)
        \/ \E b \in addresses : FreeAddress(b)

(* SRS_XS.xs: new() is srs_new(), srs_add_secret() and the setters. *)

\* hv_fetch() answers NULL when there is no argument Secret.
PerlNew(h) == /\ making = Null
              /\ \/ srs_new(h) /\ making' = h
                 \/ Die /\ UNCHANGED making

PerlSecret(h) == /\ making = h /\ secret[h] = <<>>
                 /\ srs_add_secret(h)
                 /\ UNCHANGED making

Settle == UNCHANGED <<host, up, alloc, by, holds, handles, addresses,
                      switched, wrong>>

\* Mutant: a setter that refuses frees the handle and new() goes on with it.
Croak_GoesOn(h) ==
    /\ by' = Released(Own(h)) /\ holds' = Left(Own(h))
    /\ UNCHANGED <<host, up, alloc, handles, addresses, switched, wrong>>

\* SRS_SET: a setter that refuses its value frees the handle.
Croak(h) == srs_free(h)

PerlSet(h) == /\ making = h /\ secret[h] # <<>>
              /\ making' = Null
              /\ Settle \/ Croak(h)

Perl == /\ caller = "perl"
        /\ \/ \E h \in Handles \ Held : PerlNew(h)
           \/ \E h \in Held : PerlSecret(h) \/ PerlSet(h)
           \/ \E h \in Held : /\ making = Null /\ UNCHANGED making
                              /\ srs_call(h) \/ srs_free(h)

Next == up /\ (C \/ Perl)

Spec == Init /\ [][Next]_vars

-----------------------------------------------------------------------------
(* Properties *)

\* The types of the heap, the handles and the histories.
TypeOK ==
    /\ caller \in {"c", "perl"} /\ scarce \in BOOLEAN /\ up \in BOOLEAN
    /\ alloc \in Allocators
    /\ by \in [Blocks -> Allocators \cup {"nobody"}]
    /\ holds \in [Blocks -> Contents]
    /\ at \in [Handles -> Blocks \cup {Null}]
    /\ secrets \in [Handles -> Blocks \cup {Null}]
    /\ secret \in [Handles -> Seq(Blocks \cup {Null})]
    /\ addresses \subseteq Blocks
    /\ making \in Handles \cup {Null}
    /\ switched \in BOOLEAN /\ wrong \subseteq Contents

\* Every pointer of a handle leads to a block in use that holds what the
\* pointer says, and no two of its secrets to the same.
Sound(h) ==
    /\ at[h] # Null => at[h] \in used /\ holds[at[h]] = "srs_t"
    /\ secrets[h] # Null =>
         at[h] # Null /\ secrets[h] \in used /\ holds[secrets[h]] = "secrets"
    /\ secret[h] # <<>> => secrets[h] # Null
    /\ \A i \in 1..Len(secret[h]) : secret[h][i] # Null =>
         /\ secret[h][i] \in used /\ holds[secret[h][i]] = "secret"
         /\ \A j \in 1..Len(secret[h]) : secret[h][i] = secret[h][j] => i = j

\* No pointer dangles and no block has two owners: nothing is read or freed
\* behind srs_free() or realloc(), and nothing twice.
PointersSound ==
    /\ \A h \in Handles : Sound(h)
    /\ \A h, g \in Handles : h # g => Own(h) \cap Own(g) = {}
    /\ \A b \in addresses : b \in used /\ holds[b] = "address"

\* What is in use belongs to a handle or was given to the program, also when
\* a call failed half-way or Perl's new() croaked.
NothingLeaks == \A b \in used \ addresses : \E h \in Handles : b \in Own(h)

\* No secret is left behind in memory that went back (the memset() of
\* srs_free()).
SecretsWiped == \A b \in Blocks \ used : holds[b] # "secret"

\* What goes back to another allocator than it came from is a secret, unless
\* the program changed allocators with blocks in use (strdup() in
\* srs_add_secret() takes no notice of srs_set_malloc()).
MixupsExplained == ~switched => wrong \subseteq {"secret"}

\* The library reads and writes no NULL pointer unless memory ran out, at that
\* time or when a secret was to be copied; in Perl also without the argument
\* Secret.
DiesOfNull == ~scarce => up \/ caller = "perl"
=============================================================================
