------------------------------- MODULE MCRelay -------------------------------
(* Values for the constants of Relay. *)
EXTENDS Relay

Day0(d) == d * SRS_TIME_PRECISION

\* The last slots before the turn of the 1024, and the last second of the day
\* 21 days later, behind the turn: with maxage 21 and 20 the stamps of the first
\* instant and of the second are at both sides of the limit in the third.
MCTimes == { 0, Day0(1010), Day0(1032) - 1 }

Plain == <<Name("user"), At, Name("origin")>>
Verp == <<Name("list"), Plus, Name("user"), Eq, Name("origin"), At, Name("lists")>>
Local == <<Name("user"), At, Name("a")>>
Srs0 == <<Tag("SRS0"), Plus, Name("hash"), Eq, Base32(1), Base32(2), Eq,
          Name("origin"), Eq, Name("user"), At, Name("perl")>>
Srs1 == <<Tag("SRS1"), Eq, Name("hash"), Eq, Name("perl"), Eq, Minus,
          Name("hash"), Eq, Base32(1), Base32(2), Eq,
          Name("origin"), Eq, Name("user"), At, Name("perl2")>>

\* A plain address that begins like an SRS address.
Srs0Like == <<Tag("SRS0"), Name("user"), At, Name("origin")>>

PlainOrigins == {Plain, Verp, Local}
AllOrigins == {Plain, Verp, Local, Srs0, Srs1, Srs0Like}
OneOrigin == {Plain}

\* The sender of a mail that never went through a relay, with a tag in front.
MalformedOrigin == { <<Tag("SRS0"), Eq, Name("x"), At, Name("a")>> }

\* One secret each, then a new one before the old, then the old one dropped.
Files == { <<"old">>, <<"new", "old">>, <<"new">> }
OneFile == { <<"old">> }

AllSeparators == {Eq, Minus, Plus}
OneSeparator == {Plus}
NulSeparator == {Nul}
=============================================================================
