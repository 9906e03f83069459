-------------------------- MODULE SrsHandles_proofs --------------------------
(***************************************************************************)
(* The heap behind the handles keeps its invariant.                        *)
(*                                                                         *)
(* A block has one owner because two handles share none (PointersSound)    *)
(* and because what a block holds says which of a handle's pointers leads  *)
(* to it (OwnUsed).  Frame is the argument that all steps share: a step    *)
(* that touches one handle, its own blocks and free ones leaves the others *)
(* sound.                                                                  *)
(***************************************************************************)
EXTENDS SrsHandles, TLAPS

\* Without srs_set_malloc() in between, all blocks but the copies of strdup()
\* are from the allocator that the library uses.
Provided == ~switched =>
              \A b \in Blocks : by[b] \in {alloc, "nobody"} \/ holds[b] = "secret"

\* Every secret that is counted is there, if memory suffices.
Copied == ~scarce => \A h \in Handles : Readable(h, Len(secret[h]))

IInv == /\ TypeOK /\ PointersSound /\ NothingLeaks /\ SecretsWiped
        /\ MixupsExplained /\ DiesOfNull
        /\ Provided /\ Copied

-----------------------------------------------------------------------------
\* The blocks of a handle, one pointer at a time (srs_t and its secrets).
LEMMA OwnIs ==
  ASSUME TypeOK, NEW h \in Handles
  PROVE  Own(h) = {b \in Blocks : \/ b = at[h] \/ b = secrets[h]
                                  \/ \E i \in 1..Len(secret[h]) : b = secret[h][i]}
<1>1. /\ secret[h] \in Seq(Blocks \cup {Null})
      /\ at[h] \in Blocks \cup {Null} /\ secrets[h] \in Blocks \cup {Null}
  BY DEF TypeOK
<1>2. ToSet(secret[h]) = {secret[h][i] : i \in 1..Len(secret[h])}
  BY <1>1 DEF ToSet
<1>3. \A i \in 1..Len(secret[h]) : secret[h][i] \in Blocks \cup {Null}
  BY <1>1
<1> QED
  BY <1>1, <1>2, <1>3, BlocksAssumption DEF Own

\* The same of the next state.
LEMMA OwnIsNext ==
  ASSUME TypeOK', NEW h \in Handles
  PROVE  Own(h)' = {b \in Blocks : \/ b = at'[h] \/ b = secrets'[h]
                                   \/ \E i \in 1..Len(secret'[h]) : b = secret'[h][i]}
<1>1. /\ secret'[h] \in Seq(Blocks \cup {Null})
      /\ at'[h] \in Blocks \cup {Null} /\ secrets'[h] \in Blocks \cup {Null}
  BY DEF TypeOK
<1>2. ToSet(secret'[h]) = {secret'[h][i] : i \in 1..Len(secret'[h])}
  BY <1>1 DEF ToSet
<1>3. \A i \in 1..Len(secret'[h]) : secret'[h][i] \in Blocks \cup {Null}
  BY <1>1
<1> QED
  BY <1>1, <1>2, <1>3, BlocksAssumption DEF Own

\* A block of a handle is in use, is no address, and tells by what it holds
\* which pointer of the handle leads to it.
LEMMA OwnUsed ==
  ASSUME TypeOK, PointersSound, NEW h \in Handles, NEW b \in Own(h)
  PROVE  /\ b \in used /\ b \notin addresses
         /\ holds[b] \in {"srs_t", "secrets", "secret"}
         /\ holds[b] = "srs_t" => b = at[h]
         /\ holds[b] = "secrets" => b = secrets[h]
         /\ holds[b] = "secret" => \E i \in 1..Len(secret[h]) : b = secret[h][i]
<1>1. Sound(h) /\ (b \in addresses => holds[b] = "address")
  BY DEF PointersSound
<1> QED
  BY <1>1, OwnIs, BlocksAssumption DEF Sound

\* A handle that a step leaves alone, with its blocks, stays as it is.
LEMMA Untouched ==
  ASSUME TypeOK, TypeOK', NEW g \in Handles, Sound(g),
         at'[g] = at[g], secrets'[g] = secrets[g], secret'[g] = secret[g]
  PROVE  /\ Own(g)' = Own(g)
         /\ (\A b \in Own(g) : by'[b] = by[b] /\ holds'[b] = holds[b]) => Sound(g)'
<1>1. Own(g)' = Own(g)
  BY DEF Own
<1>2. ASSUME \A b \in Own(g) : by'[b] = by[b] /\ holds'[b] = holds[b]
      PROVE  Sound(g)'
  <2>1. at[g] # Null => at[g] \in Own(g)
    BY OwnIs DEF TypeOK
  <2>2. secrets[g] # Null => secrets[g] \in Own(g)
    BY OwnIs DEF TypeOK
  <2>3. \A i \in 1..Len(secret[g]) : secret[g][i] # Null => secret[g][i] \in Own(g)
    BY OwnIs DEF TypeOK
  <2>4. \A b \in Own(g) : b \in used <=> b \in used'
    BY <1>2 DEF used
  <2> QED
    BY <1>2, <2>1, <2>2, <2>3, <2>4 DEF Sound
<1> QED
  BY <1>1, <1>2

\* A step that touches one handle, its blocks, blocks that were free, and
\* addresses.
LEMMA Frame ==
  ASSUME TypeOK, TypeOK', PointersSound, NothingLeaks, NEW h \in Handles,
         \A g \in Handles \ {h} : /\ at'[g] = at[g] /\ secrets'[g] = secrets[g]
                                  /\ secret'[g] = secret[g],
         \A g \in Handles \ {h} : \A b \in Own(g) :
            by'[b] = by[b] /\ holds'[b] = holds[b],
         Sound(h)',
         \A b \in Own(h)' : b \in Own(h) \/ b \notin used,
         \A b \in addresses' : b \in used' /\ holds'[b] = "address",
         \A b \in used' : \/ b \in Own(h)' \/ b \in addresses'
                          \/ b \in used \ (Own(h) \cup addresses)
  PROVE  PointersSound' /\ NothingLeaks'
<1>1. \A g \in Handles \ {h} : Own(g)' = Own(g) /\ Sound(g)'
  BY Untouched DEF PointersSound
<1>2. \A g \in Handles \ {h} : Own(h)' \cap Own(g)' = {}
  BY <1>1, OwnUsed DEF PointersSound
<1>3. \A g, f \in Handles : g # f => Own(g)' \cap Own(f)' = {}
  BY <1>1, <1>2 DEF PointersSound
<1>4. NothingLeaks'
  <2> SUFFICES ASSUME NEW b \in used', b \in used, b \notin Own(h), b \notin addresses
               PROVE  \E g \in Handles : b \in Own(g)'
    BY DEF NothingLeaks
  <2>1. PICK g \in Handles : b \in Own(g)
    BY DEF NothingLeaks
  <2> QED
    BY <1>1, <2>1
<1> QED
  BY <1>1, <1>3, <1>4 DEF PointersSound

-----------------------------------------------------------------------------
\* The invariant holds before the first call.
LEMMA Initially == Init => IInv
<1> SUFFICES ASSUME Init PROVE IInv
  OBVIOUS
<1> USE BlocksAssumption, AllocatorsAssumption DEF Init
<1>1. TypeOK
  <2>1. secret \in [Handles -> Seq(Blocks \cup {Null})]
    OBVIOUS
  <2>2. switched \in BOOLEAN /\ up \in BOOLEAN /\ scarce \in BOOLEAN
    OBVIOUS
  <2>3. wrong \subseteq Contents /\ addresses \subseteq Blocks
    OBVIOUS
  <2>4. holds \in [Blocks -> Contents] /\ by \in [Blocks -> Allocators \cup {"nobody"}]
    BY DEF Contents
  <2>5. at \in [Handles -> Blocks \cup {Null}] /\ secrets \in [Handles -> Blocks \cup {Null}]
    OBVIOUS
  <2> QED
    BY <2>1, <2>2, <2>3, <2>4, <2>5 DEF TypeOK
<1>2. \A h \in Handles : Own(h) = {}
  BY <1>1, OwnIs
<1>3. PointersSound
  BY <1>2 DEF PointersSound, Sound
<1>4. NothingLeaks
  BY DEF NothingLeaks, used
<1>5. SecretsWiped /\ MixupsExplained /\ DiesOfNull
  BY DEF SecretsWiped, MixupsExplained, DiesOfNull
<1>6. Provided /\ Copied
  BY DEF Provided, Copied, Readable
<1> QED
  BY <1>1, <1>3, <1>4, <1>5, <1>6 DEF IInv

\* A NULL pointer changes nothing but that the process is gone.
LEMMA DieStep == IInv /\ Die /\ making' \in Handles \cup {Null}
                 /\ (scarce \/ caller = "perl") => IInv'
<1> SUFFICES ASSUME IInv, Die, making' \in Handles \cup {Null},
                    scarce \/ caller = "perl"
             PROVE  IInv'
  OBVIOUS
<1>1. UNCHANGED <<caller, scarce, alloc, by, holds, at, secrets, secret,
                  addresses, switched, wrong>> /\ up' = FALSE
  BY DEF Die, host, handles
<1>2. TypeOK'
  BY <1>1 DEF IInv, TypeOK
<1>3. PointersSound' /\ NothingLeaks'
  <2>1. used' = used /\ \A h \in Handles : Own(h)' = Own(h)
    BY <1>1 DEF Own, used
  <2>2. \A h \in Handles : Sound(h)'
    BY <1>1, <2>1 DEF IInv, PointersSound, Sound
  <2>3. PointersSound'
    BY <1>1, <2>1, <2>2 DEF IInv, PointersSound
  <2> QED
    BY <1>1, <2>1, <2>3 DEF IInv, NothingLeaks
<1>4. SecretsWiped' /\ MixupsExplained' /\ DiesOfNull'
  BY <1>1 DEF IInv, SecretsWiped, MixupsExplained, DiesOfNull, used
<1>5. Provided' /\ Copied'
  BY <1>1 DEF IInv, Provided, Copied, Readable
<1> QED
  BY <1>2, <1>3, <1>4, <1>5 DEF IInv

\* srs_new() keeps the invariant: its block was free.
LEMMA NewStep ==
  ASSUME IInv, NEW h \in Handles \ Held, srs_new(h), making' \in Handles \cup {Null}
  PROVE  IInv'
<1> USE BlocksAssumption, AllocatorsAssumption
<1>1. PICK b \in Malloc(used) :
        IF b = Null THEN Die
        ELSE /\ by' = Put(by, b, NewBy) /\ holds' = Put(holds, b, "srs_t")
             /\ at' = [at EXCEPT ![h] = b]
             /\ UNCHANGED <<host, up, alloc, secrets, secret, addresses,
                            switched, wrong>>
  BY DEF srs_new
<1>2. CASE b = Null
  BY <1>1, <1>2, DieStep DEF Malloc
<1>3. CASE b # Null
  <2>1. /\ b \in Blocks /\ b \notin used
        /\ by' = Put(by, b, alloc) /\ holds' = Put(holds, b, "srs_t")
        /\ at' = [at EXCEPT ![h] = b]
        /\ UNCHANGED <<caller, scarce, up, alloc, secrets, secret, addresses,
                       switched, wrong>>
    BY <1>1, <1>3 DEF Malloc, NewBy, host
  <2>2. at[h] = Null /\ secrets[h] = Null /\ secret[h] = <<>>
    BY DEF Held, IInv, PointersSound, Sound
  <2>3. \A c \in Blocks : c # b => by'[c] = by[c] /\ holds'[c] = holds[c]
    BY <2>1 DEF Put
  <2>4. by'[b] = alloc /\ holds'[b] = "srs_t" /\ used' = used \cup {b}
    BY <2>1 DEF Put, used, IInv, TypeOK
  <2>5. TypeOK'
    <3>1. by' \in [Blocks -> Allocators \cup {"nobody"}] /\ holds' \in [Blocks -> Contents]
      BY <2>1 DEF IInv, TypeOK, Put, Contents
    <3> QED
      BY <2>1, <3>1 DEF IInv, TypeOK
  <2>6. Sound(h)' /\ Own(h)' = {b}
    <3>1. at'[h] = b /\ secrets'[h] = Null /\ secret'[h] = <<>>
      BY <2>1, <2>2 DEF IInv, TypeOK
    <3> QED
      BY <2>4, <2>1, <3>1, OwnIsNext, <2>5 DEF Sound
  <2>7. PointersSound' /\ NothingLeaks'
    <3>1. \A g \in Handles \ {h} : \A c \in Own(g) : c \in Blocks /\ c # b
      BY <2>1, OwnUsed DEF IInv, used
    <3>2. \A c \in addresses' : c \in used' /\ holds'[c] = "address"
      BY <2>1, <2>3, <2>4 DEF IInv, PointersSound, used
    <3>3. Own(h) = {}
      BY <2>2, OwnIs DEF IInv
    <3>4. \A g \in Handles \ {h} : at'[g] = at[g] /\ secrets'[g] = secrets[g]
                                   /\ secret'[g] = secret[g]
      BY <2>1 DEF IInv, TypeOK
    <3> QED
      BY <2>1, <2>3, <2>4, <2>5, <2>6, <3>1, <3>2, <3>3, <3>4, Frame DEF IInv
  <2>8. SecretsWiped' /\ MixupsExplained' /\ DiesOfNull'
    BY <2>1, <2>3, <2>4 DEF IInv, SecretsWiped, MixupsExplained, DiesOfNull
  <2>9. Provided' /\ Copied'
    BY <2>1, <2>3, <2>4 DEF IInv, Provided, Copied, Readable
  <2> QED
    BY <2>5, <2>7, <2>8, <2>9 DEF IInv
<1> QED
  BY <1>2, <1>3

\* The process dies of a secret only when memory is scarce.
LEMMA Unreadable ==
  ASSUME IInv, NEW h \in Handles, NEW n \in 0..Len(secret[h]), ~Readable(h, n)
  PROVE  scarce
<1>1. Len(secret[h]) \in Nat
  BY DEF IInv, TypeOK
<1>2. ~Readable(h, Len(secret[h]))
  BY <1>1 DEF Readable
<1> QED
  BY <1>2 DEF IInv, Copied

\* srs_add_secret() keeps the invariant, whether realloc() moves the vector
\* or not and whether strdup() copies the secret or not.
LEMMA AddStep ==
  ASSUME IInv, NEW h \in Held, srs_add_secret(h), making' \in Handles \cup {Null}
  PROVE  IInv'
<1> USE BlocksAssumption, AllocatorsAssumption
<1> DEFINE old == secrets[h]
<1>0. h \in Handles /\ at[h] # Null
  BY DEF Held
<1>1. PICK new \in Malloc(used) \cup ({secrets[h]} \ {Null}) :
      IF new = Null THEN Die
      ELSE \E copy \in Malloc((used \ Outgrown(h, new)) \cup {new}) :
        /\ by' = Put(Put(Released(Outgrown(h, new)), new, alloc), copy, "libc")
        /\ holds' = Put(Put(Left(Outgrown(h, new)), new, "secrets"),
                        copy, "secret")
        /\ secrets' = [secrets EXCEPT ![h] = new]
        /\ secret' = [secret EXCEPT ![h] = Counted(@, copy)]
        /\ wrong' = wrong \cup Misplaced({secrets[h]})
        /\ UNCHANGED <<host, up, alloc, at, addresses, switched>>
  BY DEF srs_add_secret
<1>2. CASE new = Null
  BY <1>1, <1>2, DieStep DEF Malloc
<1>3. CASE new # Null
  <2>1. PICK copy \in Malloc((used \ Outgrown(h, new)) \cup {new}) :
        /\ by' = Put(Put(Released(Outgrown(h, new)), new, alloc), copy, "libc")
        /\ holds' = Put(Put(Left(Outgrown(h, new)), new, "secrets"),
                        copy, "secret")
        /\ secrets' = [secrets EXCEPT ![h] = new]
        /\ secret' = [secret EXCEPT ![h] = Append(secret[h], copy)]
        /\ wrong' = wrong \cup Misplaced({secrets[h]})
        /\ UNCHANGED <<caller, scarce, up, alloc, at, addresses, switched>>
    BY <1>1, <1>3 DEF Counted, host
  <2>2. /\ new \in Blocks /\ (new \notin used \/ new = old)
        /\ copy \in Blocks \cup {Null} /\ copy # new
        /\ \A c \in used : c # old => c # copy
        /\ ~scarce => copy # Null
        /\ old \in Blocks \cup {Null}
    BY <1>0, <1>3 DEF Malloc, Outgrown, IInv, TypeOK, used
  <2>3. \A c \in Blocks : c \notin {old, new, copy} => by'[c] = by[c] /\ holds'[c] = holds[c]
    BY <2>1 DEF Put, Released, Left, Outgrown
  <2>4. /\ by'[new] = alloc /\ holds'[new] = "secrets"
        /\ copy # Null => by'[copy] = "libc" /\ holds'[copy] = "secret"
        /\ old \in Blocks \ {new, copy} =>
              /\ by'[old] = "nobody"
              /\ holds'[old] = IF holds[old] # "secret" THEN "zeros" ELSE holds[old]
    BY <2>1, <2>2 DEF Put, Released, Left, Outgrown
  <2>5. TypeOK'
    <3>1. by' \in [Blocks -> Allocators \cup {"nobody"}]
      BY <2>1 DEF IInv, TypeOK, Put, Released
    <3>2. holds' \in [Blocks -> Contents]
      BY <2>1 DEF IInv, TypeOK, Put, Left, Contents
    <3>3. wrong' \subseteq Contents
      BY <2>1, <2>2 DEF IInv, TypeOK, Misplaced
    <3>4. secret' \in [Handles -> Seq(Blocks \cup {Null})]
      BY <1>0, <2>1, <2>2 DEF IInv, TypeOK
    <3>5. secrets' \in [Handles -> Blocks \cup {Null}]
      BY <1>0, <2>1, <2>2 DEF IInv, TypeOK
    <3> QED
      BY <2>1, <3>1, <3>2, <3>3, <3>4, <3>5 DEF IInv, TypeOK
  <2>6. Sound(h) /\ (old # Null => old \in Own(h) /\ old \in used /\ holds[old] = "secrets")
    BY <1>0, OwnIs DEF IInv, PointersSound, Sound, used
  <2>7. /\ \A c \in used \ {old} : /\ c \in Blocks /\ c \in used'
                                   /\ by'[c] = by[c] /\ holds'[c] = holds[c]
        /\ used' = (used \ {old}) \cup {new} \cup ({copy} \ {Null})
    <3>1. \A c \in used \ {old} : c \in Blocks \ {old, new, copy} /\ by[c] # "nobody"
      BY <2>2 DEF used
    <3>2. \A c \in Blocks \ {old, new, copy} : c \in used' <=> c \in used
      BY <2>3 DEF used
    <3>3. new \in used' /\ (copy # Null => copy \in used')
      BY <2>2, <2>4 DEF IInv, TypeOK, used
    <3>4. old \in Blocks \ {new, copy} => old \notin used'
      BY <2>4 DEF used
    <3> QED
      BY <2>2, <2>3, <3>1, <3>2, <3>3, <3>4 DEF used
  <2>8. /\ at'[h] = at[h] /\ secrets'[h] = new
        /\ secret[h] \in Seq(Blocks \cup {Null})
        /\ secret'[h] = Append(secret[h], copy)
        /\ \A g \in Handles \ {h} : at'[g] = at[g] /\ secrets'[g] = secrets[g]
                                    /\ secret'[g] = secret[g]
    BY <1>0, <2>1 DEF IInv, TypeOK
  <2>9. /\ Len(secret'[h]) = Len(secret[h]) + 1 /\ Len(secret[h]) \in Nat
        /\ \A i \in 1..Len(secret[h]) : secret'[h][i] = secret[h][i]
        /\ secret'[h][Len(secret[h]) + 1] = copy
        /\ secret'[h] # <<>>
    BY <2>8, <2>2
  <2>10. \A i \in 1..Len(secret[h]) : secret[h][i] # Null =>
            secret[h][i] \in used \ {old} /\ secret[h][i] # copy
    BY <2>2, <2>6 DEF Sound
  <2>11. Sound(h)'
    <3>1. at'[h] \in used' /\ holds'[at'[h]] = "srs_t" /\ at'[h] # Null
      BY <1>0, <2>6, <2>7, <2>8 DEF Sound
    <3>2. secrets'[h] \in used' /\ holds'[secrets'[h]] = "secrets"
      BY <2>4, <2>7, <2>8
    <3>3. ASSUME NEW i \in 1..Len(secret'[h]), secret'[h][i] # Null
          PROVE  /\ secret'[h][i] \in used' /\ holds'[secret'[h][i]] = "secret"
                 /\ \A j \in 1..Len(secret'[h]) : secret'[h][i] = secret'[h][j] => i = j
      <4>1. CASE i = Len(secret[h]) + 1
        BY <4>1, <3>3, <2>4, <2>7, <2>9, <2>10
      <4>2. CASE i \in 1..Len(secret[h])
        <5>1. /\ secret'[h][i] = secret[h][i] /\ secret[h][i] \in used \ {old}
              /\ secret[h][i] # copy /\ holds[secret[h][i]] = "secret"
          BY <4>2, <3>3, <2>6, <2>9, <2>10 DEF Sound
        <5>2. secret'[h][i] \in used' /\ holds'[secret'[h][i]] = "secret"
          BY <5>1, <2>7
        <5>3. \A j \in 1..Len(secret[h]) : secret[h][i] = secret[h][j] => i = j
          BY <4>2, <5>1, <3>3, <2>6 DEF Sound
        <5>4. \A j \in 1..Len(secret'[h]) : j = Len(secret[h]) + 1 \/ j \in 1..Len(secret[h])
          BY <2>9
        <5> QED
          BY <5>1, <5>2, <5>3, <5>4, <2>9
      <4> QED
        BY <4>1, <4>2, <2>9
    <3> QED
      BY <3>1, <3>2, <3>3, <2>9, <2>8, <1>3 DEF Sound
  <2>12. Own(h)' = (Own(h) \ {old}) \cup {new} \cup ({copy} \ {Null})
    <3>1. Own(h) = {b \in Blocks : \/ b = at[h] \/ b = secrets[h]
                                   \/ \E i \in 1..Len(secret[h]) : b = secret[h][i]}
      BY <1>0, OwnIs DEF IInv
    <3>2. Own(h)' = {b \in Blocks : \/ b = at'[h] \/ b = secrets'[h]
                                    \/ \E i \in 1..Len(secret'[h]) : b = secret'[h][i]}
      BY <1>0, <2>5, OwnIsNext
    <3>3. old # Null => at[h] # old /\ \A i \in 1..Len(secret[h]) : secret[h][i] # old
      BY <1>0, <2>6 DEF Sound
    <3>4. \A b \in Blocks : (\E i \in 1..Len(secret'[h]) : b = secret'[h][i])
                  <=> (b = copy \/ \E i \in 1..Len(secret[h]) : b = secret[h][i])
      BY <2>9
    <3> QED
      BY <3>1, <3>2, <3>3, <3>4, <2>2, <2>8
  <2>13. PointersSound' /\ NothingLeaks'
    <3>1. \A g \in Handles \ {h} : \A c \in Own(g) :
            by'[c] = by[c] /\ holds'[c] = holds[c]
      <4>1. \A g \in Handles : \A c \in Own(g) : c \in used
        BY OwnUsed DEF IInv
      <4>2. \A g \in Handles \ {h} : Own(g) \cap Own(h) = {}
        BY <1>0 DEF IInv, PointersSound
      <4>3. Null \notin used
        BY DEF used
      <4>4. \A g \in Handles \ {h} : \A c \in Own(g) : c \in used \ {old}
        BY <2>6, <4>1, <4>2, <4>3
      <4> QED
        BY <4>4, <2>7
    <3>2. \A b \in addresses' : b \in used' /\ holds'[b] = "address"
      <4>1. \A b \in addresses : b \in used \ {old} /\ holds[b] = "address"
        BY <2>2, <2>6 DEF IInv, PointersSound, used
      <4> QED
        BY <4>1, <2>1, <2>7
    <3>3. \A b \in Own(h)' : b \in Own(h) \/ b \notin used
      BY <2>12, <2>2, <2>6
    <3>4. \A b \in used' : \/ b \in Own(h)' \/ b \in addresses'
                           \/ b \in used \ (Own(h) \cup addresses)
      BY <2>12, <2>7, <2>1
    <3> HIDE DEF old
    <3> QED
      BY <1>0, <2>5, <2>8, <2>11, <3>1, <3>2, <3>3, <3>4, Frame DEF IInv
  <2>14. SecretsWiped' /\ MixupsExplained' /\ DiesOfNull'
    <3>1. SecretsWiped'
      <4> SUFFICES ASSUME NEW b \in Blocks, b \notin used' PROVE holds'[b] # "secret"
        BY DEF SecretsWiped
      <4>1. CASE b = old
        BY <4>1, <2>4, <2>6, <2>7
      <4>2. CASE b # old
        BY <4>2, <2>3, <2>7 DEF IInv, SecretsWiped
      <4> QED
        BY <4>1, <4>2
    <3>2. ~switched => Misplaced({old}) = {}
      BY <2>2, <2>6 DEF IInv, Provided, Misplaced, used
    <3> QED
      BY <2>1, <3>1, <3>2 DEF IInv, MixupsExplained, DiesOfNull
  <2>15. Provided'
    <3> SUFFICES ASSUME ~switched', NEW b \in Blocks
                 PROVE  by'[b] \in {alloc, "nobody"} \/ holds'[b] = "secret"
      BY <2>1 DEF Provided
    <3>1. CASE b = old /\ b \notin {new, copy}
      BY <3>1, <2>4
    <3>2. CASE b \in {new, copy}
      BY <3>2, <2>2, <2>4
    <3>3. CASE b \notin {old, new, copy}
      BY <3>3, <2>3, <2>1 DEF IInv, Provided
    <3> QED
      BY <3>1, <3>2, <3>3
  <2>16. Copied'
    <3> SUFFICES ASSUME ~scarce', NEW g \in Handles PROVE Readable(g, Len(secret[g]))'
      BY DEF Copied
    <3>1. ~scarce /\ copy # Null /\ Readable(g, Len(secret[g]))
      BY <2>1, <2>2 DEF IInv, Copied
    <3>2. CASE g = h
      BY <3>1, <3>2, <2>9 DEF Readable
    <3>3. CASE g # h
      BY <3>1, <3>3, <2>8 DEF Readable
    <3> QED
      BY <3>2, <3>3
  <2> QED
    BY <2>5, <2>13, <2>14, <2>15, <2>16 DEF IInv
<1> QED
  BY <1>2, <1>3

\* srs_free() keeps the invariant: it gives back what the handle owns, once.
LEMMA FreeStep ==
  ASSUME IInv, NEW h \in Held, srs_free(h), making' \in Handles \cup {Null}
  PROVE  IInv'
<1> USE BlocksAssumption, AllocatorsAssumption
<1>0. h \in Handles /\ at[h] # Null /\ Len(secret[h]) \in 0..Len(secret[h])
  BY DEF Held, IInv, TypeOK
<1>1. CASE ~Readable(h, Len(secret[h]))
  BY <1>0, <1>1, Unreadable, DieStep DEF srs_free
<1>2. CASE Readable(h, Len(secret[h]))
  <2>1. /\ by' = Released(Own(h))
        /\ holds' = [b \in Blocks |-> IF b \in Wiped(h) THEN "zeros"
                                      ELSE Left(Own(h))[b]]
        /\ wrong' = wrong \cup Misplaced(Own(h))
        /\ at' = [at EXCEPT ![h] = Null]
        /\ secrets' = [secrets EXCEPT ![h] = Null]
        /\ secret' = [secret EXCEPT ![h] = <<>>]
        /\ UNCHANGED <<caller, scarce, up, alloc, addresses, switched>>
    BY <1>2 DEF srs_free, host
  <2>2. /\ at'[h] = Null /\ secrets'[h] = Null /\ secret'[h] = <<>>
        /\ \A g \in Handles \ {h} : at'[g] = at[g] /\ secrets'[g] = secrets[g]
                                    /\ secret'[g] = secret[g]
    BY <1>0, <2>1 DEF IInv, TypeOK
  <2>3. /\ Wiped(h) \subseteq Own(h)
        /\ \A b \in Own(h) : /\ b \in used /\ b \notin addresses
                             /\ holds[b] \in {"srs_t", "secrets", "secret"}
                             /\ holds[b] = "secret" => b \in Wiped(h)
    <3>1. secret[h] \in Seq(Blocks \cup {Null})
      BY <1>0 DEF IInv, TypeOK
    <3>2. Wiped(h) = {secret[h][i] : i \in 1..Len(secret[h])}
      BY <3>1 DEF Wiped, ToSet
    <3>3. Wiped(h) \subseteq Own(h)
      BY <1>2 DEF Wiped, Own, Readable, ToSet
    <3>4. \A b \in Own(h) : /\ b \in used /\ b \notin addresses
                            /\ holds[b] \in {"srs_t", "secrets", "secret"}
                            /\ holds[b] = "secret" =>
                                 \E i \in 1..Len(secret[h]) : b = secret[h][i]
      BY <1>0, OwnUsed DEF IInv
    <3> QED
      BY <3>2, <3>3, <3>4
  <2>4. /\ \A b \in Own(h) : by'[b] = "nobody" /\ holds'[b] = "zeros"
        /\ \A b \in Blocks \ Own(h) : by'[b] = by[b] /\ holds'[b] = holds[b]
    BY <2>1, <2>3 DEF Released, Left, used
  <2>5. used' = used \ Own(h)
    BY <2>3, <2>4 DEF used
  <2>6. TypeOK'
    <3>1. by' \in [Blocks -> Allocators \cup {"nobody"}]
      BY <2>1 DEF IInv, TypeOK, Released
    <3>2. holds' \in [Blocks -> Contents]
      BY <2>1 DEF IInv, TypeOK, Left, Contents
    <3>3. wrong' \subseteq Contents
      BY <2>1, <2>3 DEF IInv, TypeOK, Misplaced, used
    <3>4. secret' \in [Handles -> Seq(Blocks \cup {Null})]
      BY <1>0, <2>1 DEF IInv, TypeOK
    <3> QED
      BY <1>0, <2>1, <3>1, <3>2, <3>3, <3>4 DEF IInv, TypeOK
  <2>7. PointersSound' /\ NothingLeaks'
    <3>1. Own(h)' = {} /\ Sound(h)'
      BY <1>0, <2>2, <2>6, OwnIsNext DEF Sound
    <3>2. \A g \in Handles \ {h} : \A b \in Own(g) : b \in Blocks \ Own(h)
      <4>1. \A g \in Handles : \A b \in Own(g) : b \in Blocks
        BY OwnUsed DEF IInv, used
      <4> QED
        BY <1>0, <4>1 DEF IInv, PointersSound
    <3>3. \A b \in addresses' : b \in used' /\ holds'[b] = "address"
      <4>1. \A b \in addresses : b \in used /\ b \in Blocks \ Own(h) /\ holds[b] = "address"
        BY <2>3 DEF IInv, PointersSound, used
      <4> QED
        BY <4>1, <2>1, <2>4, <2>5
    <3>4. \A b \in used' : \/ b \in Own(h)' \/ b \in addresses'
                           \/ b \in used \ (Own(h) \cup addresses)
      BY <2>1, <2>5
    <3>5. \A g \in Handles \ {h} : \A b \in Own(g) :
            by'[b] = by[b] /\ holds'[b] = holds[b]
      BY <3>2, <2>4
    <3> QED
      BY <1>0, <2>2, <2>6, <3>1, <3>3, <3>4, <3>5, Frame DEF IInv
  <2>8. SecretsWiped' /\ MixupsExplained' /\ DiesOfNull'
    <3>1. SecretsWiped'
      BY <2>4, <2>5 DEF IInv, SecretsWiped
    <3>2. ~switched => Misplaced(Own(h)) \subseteq {"secret"}
      BY <2>3 DEF IInv, Provided, Misplaced, used
    <3> QED
      BY <2>1, <3>1, <3>2 DEF IInv, MixupsExplained, DiesOfNull
  <2>9. Provided'
    BY <2>1, <2>4 DEF IInv, Provided
  <2>10. Copied'
    <3> SUFFICES ASSUME ~scarce', NEW g \in Handles PROVE Readable(g, Len(secret[g]))'
      BY DEF Copied
    <3>1. CASE g = h
      BY <3>1, <2>2 DEF Readable
    <3>2. CASE g # h
      BY <3>2, <2>1, <2>2 DEF Readable, IInv, Copied
    <3> QED
      BY <3>1, <3>2
  <2> QED
    BY <2>6, <2>7, <2>8, <2>9, <2>10 DEF IInv
<1> QED
  BY <1>1, <1>2

\* What a call reads of a handle is there to be counted.
LEMMA CallsRead ==
  ASSUME TypeOK, NEW h \in Handles, NEW call \in Calls(h)
  PROVE  call[1] \in 0..Len(secret[h]) /\ call[2] \in BOOLEAN
<1>1. Len(secret[h]) \in Nat
  BY DEF TypeOK
<1>2. call[1] \in 0..Len(secret[h])
  <2>1. call \in {0} \X BOOLEAN => call[1] = 0
    OBVIOUS
  <2>2. call \in {n \in {1} : Signs(h)} \X {TRUE} => call[1] \in 1..Len(secret[h])
    <3>1. Signs(h) => 1 \in 1..Len(secret[h])
      BY <1>1 DEF Signs, TypeOK
    <3> QED
      BY <3>1
  <2>3. call \in {0} \X {FALSE} => call[1] = 0
    OBVIOUS
  <2>4. call \in (1..Len(secret[h])) \X BOOLEAN => call[1] \in 1..Len(secret[h])
    OBVIOUS
  <2>5. \/ call \in {0} \X BOOLEAN
        \/ call \in {n \in {1} : Signs(h)} \X {TRUE}
        \/ call \in {0} \X {FALSE} \/ call \in (1..Len(secret[h])) \X BOOLEAN
    BY DEF Calls, ForwardCalls, ReverseCalls
  <2>6. call[1] = 0 \/ call[1] \in 1..Len(secret[h])
    BY ONLY <2>1, <2>2, <2>3, <2>4, <2>5
  <2> QED
    BY ONLY <1>1, <2>6
<1>3. call[2] \in BOOLEAN
  BY <1>1 DEF Calls, ForwardCalls, ReverseCalls
<1> QED
  BY <1>2, <1>3

\* srs_forward() and srs_reverse() with a buffer of the program.
LEMMA CallStep ==
  ASSUME IInv, NEW h \in Held, srs_call(h), making' \in Handles \cup {Null}
  PROVE  IInv'
<1>1. PICK call \in Calls(h) : ~Readable(h, call[1])
  BY DEF srs_call
<1>2. h \in Handles /\ call[1] \in 0..Len(secret[h])
  BY CallsRead DEF Held, IInv
<1> QED
  BY <1>1, <1>2, Unreadable, DieStep DEF srs_call

\* Two of the steps change nothing but the addresses of the program and the
\* block of one.
LEMMA AddressStep ==
  ASSUME IInv, NEW b \in Blocks, TypeOK',
         UNCHANGED <<caller, scarce, up, alloc, at, secrets, secret, switched>>,
         \A c \in Blocks : c # b => by'[c] = by[c] /\ holds'[c] = holds[c],
         \/ /\ b \notin used /\ addresses' = addresses \cup {b}
            /\ by'[b] = alloc /\ holds'[b] = "address" /\ wrong' = wrong
         \/ /\ b \in addresses /\ addresses' = addresses \ {b}
            /\ by'[b] = "nobody" /\ holds'[b] = "zeros"
            /\ wrong' = wrong \cup Misplaced({b})
  PROVE  IInv'
<1> USE BlocksAssumption, AllocatorsAssumption
<1>1. \A c \in addresses : c \in used /\ holds[c] = "address"
  BY DEF IInv, PointersSound
<1>2. \A g \in Handles : \A c \in Own(g) : c \in used /\ c \in Blocks /\ c # b
  BY <1>1, OwnUsed DEF IInv, used
<1>3. used' \ {b} = used \ {b} /\ (b \in used' <=> b \in addresses')
  BY <1>1 DEF used, IInv, TypeOK
<1>4. \A g \in Handles : Own(g)' = Own(g) /\ Sound(g)'
  BY <1>2, Untouched DEF IInv, PointersSound
<1>5. PointersSound'
  <2>1. \A c \in addresses' : c \in used' /\ holds'[c] = "address"
    BY <1>1, <1>3 DEF used
  <2>2. \A g, f \in Handles : g # f => Own(g)' \cap Own(f)' = {}
    BY <1>4 DEF IInv, PointersSound
  <2> QED
    BY <1>4, <2>1, <2>2 DEF PointersSound
<1>6. NothingLeaks'
  <2> SUFFICES ASSUME NEW c \in used', c \notin addresses'
               PROVE  \E g \in Handles : c \in Own(g)'
    BY DEF NothingLeaks
  <2>1. c \in used /\ c \notin addresses
    BY <1>3
  <2> QED
    BY <1>4, <2>1 DEF IInv, NothingLeaks
<1>7. SecretsWiped' /\ MixupsExplained' /\ DiesOfNull'
  <2>1. SecretsWiped'
    BY <1>3 DEF IInv, SecretsWiped
  <2>2. ~switched /\ b \in addresses => Misplaced({b}) = {}
    BY <1>1 DEF IInv, Provided, Misplaced, used
  <2> QED
    BY <2>1, <2>2 DEF IInv, MixupsExplained, DiesOfNull
<1>8. Provided'
  BY DEF IInv, Provided
<1>9. Copied'
  BY DEF IInv, Copied, Readable
<1> QED
  BY <1>5, <1>6, <1>7, <1>8, <1>9 DEF IInv

\* srs_forward_alloc() and srs_reverse_alloc(), also where they fail.
LEMMA CallAllocStep ==
  ASSUME IInv, NEW h \in Held, srs_call_alloc(h), making' \in Handles \cup {Null}
  PROVE  IInv'
<1> USE BlocksAssumption, AllocatorsAssumption
<1>1. PICK call \in Calls(h), buf \in Malloc(used) :
      IF Fatal(h, buf, call) THEN Die
      ELSE /\ by' = Put(by, Kept(buf, call), alloc)
           /\ holds' = Put(holds, Kept(buf, call), "address")
           /\ addresses' = IF call[2] THEN addresses \cup {buf} ELSE addresses
           /\ UNCHANGED <<host, up, alloc, handles, switched, wrong>>
  BY DEF srs_call_alloc
<1>2. h \in Handles /\ call[1] \in 0..Len(secret[h]) /\ call[2] \in BOOLEAN
  BY CallsRead DEF Held, IInv
<1>3. CASE Fatal(h, buf, call)
  <2>1. Die
    BY <1>1, <1>3
  <2>2. CASE ~Readable(h, call[1])
    BY <1>2, <2>1, <2>2, Unreadable, DieStep
  <2>3. CASE buf = Null
    BY <2>1, <2>3, DieStep DEF Malloc
  <2> QED
    BY <1>3, <2>2, <2>3 DEF Fatal
<1>4. CASE ~Fatal(h, buf, call)
  <2>1. /\ by' = Put(by, Kept(buf, call), alloc)
        /\ holds' = Put(holds, Kept(buf, call), "address")
        /\ addresses' = IF call[2] THEN addresses \cup {buf} ELSE addresses
        /\ UNCHANGED <<caller, scarce, up, alloc, at, secrets, secret,
                       switched, wrong>>
    BY <1>1, <1>4 DEF host, handles
  <2>2. call[2] => buf \in Blocks /\ buf \notin used
    BY <1>4 DEF Fatal, Malloc
  <2>3. TypeOK'
    <3>1. by' \in [Blocks -> Allocators \cup {"nobody"}]
      BY <2>1 DEF IInv, TypeOK, Put
    <3>2. holds' \in [Blocks -> Contents]
      BY <2>1 DEF IInv, TypeOK, Put, Contents
    <3>3. addresses' \subseteq Blocks
      BY <1>2, <2>1, <2>2 DEF IInv, TypeOK
    <3> QED
      BY <2>1, <3>1, <3>2, <3>3 DEF IInv, TypeOK
  <2>4. CASE call[2]
    <3>1. /\ by'[buf] = alloc /\ holds'[buf] = "address"
          /\ \A c \in Blocks : c # buf => by'[c] = by[c] /\ holds'[c] = holds[c]
          /\ addresses' = addresses \cup {buf}
      BY <2>1, <2>2, <2>4 DEF Put, Kept
    <3> QED
      BY <2>1, <2>2, <2>3, <2>4, <3>1, AddressStep
  <2>5. CASE ~call[2]
    <3>1. by' = by /\ holds' = holds /\ addresses' = addresses
      <4>1. \A b \in Blocks : b # Kept(buf, call)
        BY <2>5 DEF Kept
      <4> QED
        BY <2>1, <2>5, <4>1 DEF Put, IInv, TypeOK
    <3>2. used' = used /\ \A g \in Handles : Own(g)' = Own(g)
      BY <2>1, <3>1 DEF Own, used
    <3>3. \A g \in Handles : Sound(g)'
      BY <2>1, <3>1, <3>2 DEF IInv, PointersSound, Sound
    <3>4. PointersSound' /\ NothingLeaks'
      BY <2>1, <3>1, <3>2, <3>3 DEF IInv, PointersSound, NothingLeaks
    <3>5. SecretsWiped' /\ MixupsExplained' /\ DiesOfNull'
      BY <2>1, <3>1, <3>2 DEF IInv, SecretsWiped, MixupsExplained, DiesOfNull
    <3>6. Provided' /\ Copied'
      BY <2>1, <3>1 DEF IInv, Provided, Copied, Readable
    <3> QED
      BY <2>3, <3>4, <3>5, <3>6 DEF IInv
  <2> QED
    BY <1>2, <2>4, <2>5
<1> QED
  BY <1>3, <1>4

\* The program gives an address back.
LEMMA FreeAddressStep ==
  ASSUME IInv, NEW b \in addresses, FreeAddress(b), making' \in Handles \cup {Null}
  PROVE  IInv'
<1> USE BlocksAssumption, AllocatorsAssumption
<1>1. /\ by' = Released({b}) /\ holds' = Left({b})
      /\ addresses' = addresses \ {b}
      /\ wrong' = wrong \cup Misplaced({b})
      /\ UNCHANGED <<caller, scarce, up, alloc, at, secrets, secret, switched>>
  BY DEF FreeAddress, host, handles
<1>2. b \in Blocks /\ holds[b] = "address"
  BY DEF IInv, TypeOK, PointersSound
<1>3. /\ by'[b] = "nobody" /\ holds'[b] = "zeros"
      /\ \A c \in Blocks : c # b => by'[c] = by[c] /\ holds'[c] = holds[c]
  BY <1>1, <1>2 DEF Released, Left
<1>4. TypeOK'
  <2>1. by' \in [Blocks -> Allocators \cup {"nobody"}]
    BY <1>1 DEF IInv, TypeOK, Released
  <2>2. holds' \in [Blocks -> Contents]
    BY <1>1 DEF IInv, TypeOK, Left, Contents
  <2>3. wrong' \subseteq Contents
    BY <1>1, <1>2 DEF IInv, TypeOK, Misplaced
  <2> QED
    BY <1>1, <2>1, <2>2, <2>3 DEF IInv, TypeOK
<1> QED
  BY <1>1, <1>2, <1>3, <1>4, AddressStep

\* A step that changes no pointer, no block and none of the histories but
\* that the allocator was changed.
LEMMA QuietStep ==
  ASSUME IInv, making' \in Handles \cup {Null}, alloc' \in Allocators,
         switched' \in BOOLEAN, switched => switched',
         UNCHANGED <<caller, scarce, up, by, holds, at, secrets, secret,
                     addresses, wrong>>,
         alloc' = alloc \/ switched' \/ used = {}
  PROVE  IInv'
<1>1. used' = used /\ \A h \in Handles : Own(h)' = Own(h)
  BY DEF Own, used
<1>2. \A h \in Handles : Sound(h)'
  BY <1>1 DEF IInv, PointersSound, Sound
<1>3. PointersSound' /\ NothingLeaks'
  BY <1>1, <1>2 DEF IInv, PointersSound, NothingLeaks
<1>4. SecretsWiped' /\ MixupsExplained' /\ DiesOfNull'
  BY <1>1 DEF IInv, SecretsWiped, MixupsExplained, DiesOfNull
<1>5. Provided' /\ Copied'
  BY DEF IInv, Provided, Copied, Readable, used
<1>6. TypeOK'
  BY DEF IInv, TypeOK
<1> QED
  BY <1>3, <1>4, <1>5, <1>6 DEF IInv

\* srs_set_malloc() moves no block.
LEMMA SetMallocStep ==
  ASSUME IInv, NEW a \in Allocators, srs_set_malloc(a), UNCHANGED making
  PROVE  IInv'
<1>1. switched' \in BOOLEAN /\ (switched => switched') /\ (switched' \/ used = {})
  BY DEF srs_set_malloc, IInv, TypeOK
<1>2. making' \in Handles \cup {Null}
  BY DEF IInv, TypeOK
<1> QED
  BY <1>1, <1>2, QuietStep DEF srs_set_malloc, host, handles

\* Every call that SRS_XS.xs makes keeps the invariant.
LEMMA PerlStep == IInv /\ Perl => IInv'
<1> SUFFICES ASSUME IInv, Perl PROVE IInv'
  OBVIOUS
<1>1. caller = "perl" /\ making \in Handles \cup {Null}
  BY DEF Perl, IInv, TypeOK
<1>2. ASSUME NEW h \in Handles \ Held, PerlNew(h) PROVE IInv'
  BY <1>1, <1>2, NewStep, DieStep DEF PerlNew
<1>3. ASSUME NEW h \in Held, PerlSecret(h) PROVE IInv'
  BY <1>1, <1>3, AddStep DEF PerlSecret
<1>4. ASSUME NEW h \in Held, PerlSet(h) PROVE IInv'
  <2>1. making' = Null
    BY <1>4 DEF PerlSet
  <2>2. CASE srs_free(h)
    BY <2>1, <2>2, FreeStep
  <2>3. CASE Settle
    BY <2>1, <2>3, QuietStep DEF Settle, host, handles, IInv, TypeOK
  <2> QED
    BY <1>4, <2>2, <2>3 DEF PerlSet, Croak
<1>5. ASSUME NEW h \in Held, UNCHANGED making, srs_call(h) \/ srs_free(h)
      PROVE  IInv'
  BY <1>1, <1>5, CallStep, FreeStep
<1> QED
  BY <1>2, <1>3, <1>4, <1>5 DEF Perl

\* Every call of a C program keeps the invariant.
LEMMA CStep == IInv /\ C => IInv'
<1> SUFFICES ASSUME IInv, C PROVE IInv'
  OBVIOUS
<1>1. UNCHANGED making /\ making' \in Handles \cup {Null}
  BY DEF C, IInv, TypeOK
<1>2. ASSUME NEW a \in Allocators, srs_set_malloc(a) PROVE IInv'
  BY <1>1, <1>2, SetMallocStep
<1>3. ASSUME NEW h \in Handles \ Held, srs_new(h) PROVE IInv'
  BY <1>1, <1>3, NewStep
<1>4. ASSUME NEW h \in Held, srs_add_secret(h) PROVE IInv'
  BY <1>1, <1>4, AddStep
<1>5. ASSUME NEW h \in Held, srs_free(h) PROVE IInv'
  BY <1>1, <1>5, FreeStep
<1>6. ASSUME NEW h \in Held, srs_call(h) PROVE IInv'
  BY <1>1, <1>6, CallStep
<1>7. ASSUME NEW h \in Held, srs_call_alloc(h) PROVE IInv'
  BY <1>1, <1>7, CallAllocStep
<1>8. ASSUME NEW b \in addresses, FreeAddress(b) PROVE IInv'
  BY <1>1, <1>8, FreeAddressStep
<1> QED
  BY <1>2, <1>3, <1>4, <1>5, <1>6, <1>7, <1>8 DEF C

\* The inductive invariant of the heap, for any handles, blocks, allocators
\* and numbers of secrets (srs_new(), srs_add_secret(), srs_free(), the _alloc
\* calls and Perl's new()).
THEOREM HeapInvariant == Spec => []IInv
<1>1. Init => IInv
  BY Initially
<1>2. IInv /\ [Next]_vars => IInv'
  <2> SUFFICES ASSUME IInv, [Next]_vars PROVE IInv'
    OBVIOUS
  <2>1. CASE Next
    BY <2>1, PerlStep, CStep DEF Next
  <2>2. CASE UNCHANGED vars
    BY <2>2, QuietStep DEF vars, host, handles, IInv, TypeOK
  <2> QED
    BY <2>1, <2>2
<1> QED
  BY <1>1, <1>2, PTL DEF Spec

\* No pointer of a handle dangles and no block has two owners, whatever order
\* the calls come in and whichever of them fail.
THEOREM Pointers == Spec => []PointersSound
<1>1. IInv => PointersSound
  BY DEF IInv
<1> QED
  BY <1>1, HeapInvariant, PTL

\* Every variable keeps its type, through allocations that fail, moves of the
\* secrets by realloc() and croaks of Perl's new().
THEOREM TypeCorrect == Spec => []TypeOK
<1>1. IInv => TypeOK
  BY DEF IInv
<1> QED
  BY <1>1, HeapInvariant, PTL

\* Nothing is lost, also where a call fails half-way or Perl's new() croaks.
THEOREM LeakFree == Spec => []NothingLeaks
<1>1. IInv => NothingLeaks
  BY DEF IInv
<1> QED
  BY <1>1, HeapInvariant, PTL

\* Free memory holds no secret (the memset() of srs_free()).
THEOREM Wipes == Spec => []SecretsWiped
<1>1. IInv => SecretsWiped
  BY DEF IInv
<1> QED
  BY <1>1, HeapInvariant, PTL

\* A process dies of a NULL pointer only when memory runs out, or in Perl's
\* new() without the argument Secret.
THEOREM Survives == Spec => []DiesOfNull
<1>1. IInv => DiesOfNull
  BY DEF IInv
<1> QED
  BY <1>1, HeapInvariant, PTL

\* Only copies of secrets go to an allocator that they did not come from, if
\* srs_set_malloc() is called before everything else.
THEOREM Mixups == Spec => []MixupsExplained
<1>1. IInv => MixupsExplained
  BY DEF IInv
<1> QED
  BY <1>1, HeapInvariant, PTL
=============================================================================
