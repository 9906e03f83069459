----------------------------- MODULE MCSrsDaemon -----------------------------
(* Values for the constants of SrsDaemon. *)
EXTENDS SrsDaemon

MCHandle == srs_add_secret(srs_init, "secret")

Plain(n) == <<Name(n), At, Name("origin")>>
Forward(n) == [verb |-> "forward", args |-> << Plain(n), <<Name("relay")>> >>]
Missing == [verb |-> "forward", args |-> << Plain("x") >>]
Foreign == [verb |-> "reverse", args |-> << Plain("x") >>]
Reverse_ == [verb |-> "reverse",
             args |-> << srs_forward(MCHandle, BUFSIZ, Plain("y"),
                                     <<Name("relay")>>, Now).out >>]
OnlyForward == {Forward("x")}
GoodRequests == {Forward("x"), Reverse_, Foreign}
MissingAlias == {Missing}
=============================================================================
