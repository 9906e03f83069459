------------------------------ MODULE MCSrsTool ------------------------------
(* Values for the constants of SrsTool. *)
EXTENDS SrsTool

Opt(o) == [opt |-> o]
With(o, arg) == [opt |-> o, arg |-> arg]

Plain == <<Name("user"), At, Name("origin")>>
Relay == <<Name("relay")>>
Answered ==
    srs_forward(srs_add_secret(srs_init, "k1"), BUFSIZ, Plain, Relay, Now).out

\* A secret, a blank line, a comment, and another secret.
File == [readable |-> TRUE,
         lines |-> << [comment |-> FALSE, pieces |-> <<"f1">>],
                      [comment |-> FALSE, pieces |-> <<>>],
                      [comment |-> TRUE, pieces |-> <<"c1">>],
                      [comment |-> FALSE, pieces |-> <<"f2">>] >>]
NoFile == [readable |-> FALSE, lines |-> <<>>]

MCOptions ==
    { With("k", "k1"), With("k", "k2"), With("f", File),
      With("f", NoFile), With("i", Relay), With("e", Plus),
      With("e", Name("x")), With("l", 3), With("a", Plain), Opt("d"),
      Opt("v"), Opt("o"), Opt("h"), Opt("x"), With("s", "/run/srsd") }

Malformed == <<Tag("SRS0"), Eq, Name("x"), At, Name("relay")>>

MCOperands == { Plain, Answered, Malformed, <<Name("user")>> }
=============================================================================
