------------------------------ MODULE SrsString ------------------------------
(***************************************************************************)
(* The C strings that libsrs2 takes apart and puts together, as sequences  *)
(* of tokens.  A token is the smallest piece of an address that srs2.c     *)
(* tells apart: a separator, an at sign, a base32 digit of a timestamp, an *)
(* SRS tag, a hash, and everything else (a name).  A token is a record     *)
(* whose field "kind" says which it is.                                    *)
(*                                                                         *)
(* Abstractions:                                                           *)
(*   - case: every comparison of srs2.c folds case, so two tokens that     *)
(*     differ only in case are one token;                                  *)
(*   - a name holds no separator and at least one character outside the    *)
(*     base32 alphabet; names all have the length NameLen;                 *)
(*   - a hash is ideal: it determines the key, the data and the length it  *)
(*     was made from.                                                      *)
(***************************************************************************)
EXTENDS Integers, SequencesExt

CONSTANT NameLen        \* strlen() of every name

\* A name has a character outside the base32 alphabet.
ASSUME NameLenAssumption == NameLen \in Nat \ {0}

Eq      == [kind |-> "sep", char |-> "="]      \* SRSSEP
Minus   == [kind |-> "sep", char |-> "-"]
Plus    == [kind |-> "sep", char |-> "+"]
At      == [kind |-> "at"]
Nul     == [kind |-> "nul"]                    \* the terminator
Tag(t)  == [kind |-> "tag", tag |-> t]         \* SRS0TAG, SRS1TAG
Name(n) == [kind |-> "name", name |-> n]
Base32(d) == [kind |-> "base32", digit |-> d]  \* SRS_TIME_BASECHARS[d]
Hash(key, data, len) ==
    [kind |-> "hash", key |-> key, data |-> data, len |-> len]

srs_separators == {Eq, Minus, Plus}

-----------------------------------------------------------------------------
(* string.h, by what it does *)

\* strchr(s + i, c): the place of the first c at i or behind it, 0 for NULL.
StrChr(s, i, c) ==
    LET First(j) == s[j] = c /\ \A k \in i..(j - 1) : s[k] # c
    IN  IF \E j \in i..Len(s) : First(j)
          THEN CHOOSE j \in i..Len(s) : First(j)
        ELSE 0

\* What *p = '\0' leaves before p, and what a pointer to i points at.
Before(s, i) == SubSeq(s, 1, i - 1)
From(s, i)   == SubSeq(s, i, Len(s))

TokenLen(t) == CASE t.kind = "name" -> NameLen
                 [] t.kind = "tag"  -> 4
                 [] t.kind = "hash" -> t.len
                 [] OTHER           -> 1

StrLen(s) == LET len[i \in 0..Len(s)] ==
                     IF i = 0 THEN 0 ELSE len[i - 1] + TokenLen(s[i])
             IN  len[Len(s)]

\* What a buffer reads as after sprintf() put s into it: a '%c' of '\0' ends
\* the string there.
CString(s) == IF StrChr(s, 1, Nul) = 0 THEN s
              ELSE Before(s, StrChr(s, 1, Nul))

\* strncasecmp(s, TAG, 4) == 0
HasTag(s, t) == Len(s) >= 1 /\ s[1] = Tag(t)
=============================================================================
