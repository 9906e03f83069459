--------------------------- MODULE RewriteService ---------------------------
(***************************************************************************)
(* What a rewriting daemon is for: a client comes, asks once, and goes     *)
(* with the answer to its own question; it goes without one only when      *)
(* there is none or when it never asked.  No word of sockets or loops.     *)
(***************************************************************************)
CONSTANTS Clients, Requests, Replies   \* Replies: Requests -> [ret, out]

VARIABLES place, asked, got

Init == /\ place = [c \in Clients |-> "away"]
        /\ asked = [c \in Clients |-> <<>>]
        /\ got   = [c \in Clients |-> <<>>]

Move(c, from, to) == place[c] = from /\ place' = [place EXCEPT ![c] = to]

Come(c) == Move(c, "away", "here") /\ UNCHANGED <<asked, got>>

Ask(c, q) == /\ place[c] = "here" /\ asked[c] = <<>>
             /\ asked' = [asked EXCEPT ![c] = <<q>>]
             /\ UNCHANGED <<place, got>>

Tell(c) == /\ asked[c] # <<>>
           /\ Move(c, "here", "gone")
           /\ got' = [got EXCEPT ![c] =
                        IF Replies[asked[c][1]].ret = "SRS_SUCCESS"
                        THEN << Replies[asked[c][1]].out >> ELSE <<>>]
           /\ UNCHANGED asked

Again(c) == /\ Move(c, "gone", "away")
            /\ asked' = [asked EXCEPT ![c] = <<>>]
            /\ got' = [got EXCEPT ![c] = <<>>]

Next == \E c \in Clients :
          Come(c) \/ Tell(c) \/ Again(c) \/ \E q \in Requests : Ask(c, q)

Spec == /\ Init /\ [][Next]_<<place, asked, got>>
        /\ \A c \in Clients : WF_<<place, asked, got>>(Tell(c))
=============================================================================
