------------------------------ MODULE MCLibsrs ------------------------------
(* Values for the constants of LibsrsRelay. *)
EXTENDS LibsrsRelay

Verp  == <<Name("list"), Plus, Name("user"), Eq, Name("origin"), At, Name("lists")>>
Local_ == <<Name("user"), At, Name("a")>>
Bare  == <<Name("user")>>
Srs0  == <<Tag("SRS0"), Plus, Name("hash"), Eq, Base32(1), Base32(2), Eq,
           Name("origin"), Eq, Name("user"), At, Name("perl")>>

MCOrigins == {Verp, Local_, Bare, Srs0}

\* 1 and 17 January 2005: with an age of 12840 the stamp of the first is good on
\* the first and refused on the second.
MCDays == {12784, 12800}

\* With a second secret that does not fit into the place of the first, a short
\* age, a longer hash, and minima that are too long or negative.
MCArguments ==
    LET old == [secret |-> [name |-> "old", len |-> 8], age |-> 12840,
                hash_len |-> 4, hash_min |-> 4]
    IN  { old, [old EXCEPT !.secret = [name |-> "new", len |-> 16]],
          [old EXCEPT !.age = 21], [old EXCEPT !.hash_len = 22],
          [old EXCEPT !.hash_min = 5], [old EXCEPT !.hash_min = -1] }
=============================================================================
