------------------------------ MODULE ReturnPath ------------------------------
(***************************************************************************)
(* What rewriting promises, without an address, a hash or a clock: every   *)
(* envelope carries the route of its bounce.  The first relay puts itself  *)
(* on it, every later one puts itself behind the first in the place of the *)
(* one before.  A bounce walks the route backwards; it may be lost on the  *)
(* way, but it is given back at the end of the route and nowhere else.     *)
(***************************************************************************)
EXTENDS Integers, Sequences

CONSTANTS Mail, Relays

VARIABLES state, route

vars == <<state, route>>

States == {"new", "transit", "unsent", "bounce", "returned", "lost"}

TypeOK == /\ state \in [Mail -> States]
          /\ route \in [Mail -> {<<>>} \cup Relays \X Relays
                                   \cup {<<r>> : r \in Relays}]

Init == /\ state = [m \in Mail |-> "new"]
        /\ route = [m \in Mail |-> <<>>]

Move(m, from, to) == state[m] = from /\ state' = [state EXCEPT ![m] = to]

Submit(m) == Move(m, "new", "transit") /\ UNCHANGED route

Rewrite(m, r) ==
    /\ state[m] = "transit" /\ UNCHANGED state
    /\ route' = [route EXCEPT ![m] = IF @ = <<>> THEN <<r>> ELSE <<@[1], r>>]

GiveUp(m) == Move(m, "transit", "unsent") /\ UNCHANGED route

Bounce(m) == Move(m, "transit", "bounce") /\ UNCHANGED route

Unwind(m) ==
    /\ state[m] = "bounce" /\ route[m] # <<>> /\ UNCHANGED state
    /\ route' = [route EXCEPT ![m] = SubSeq(@, 1, Len(@) - 1)]

Lose(m) == Move(m, "bounce", "lost") /\ UNCHANGED route

GiveBack(m) ==
    route[m] = <<>> /\ Move(m, "bounce", "returned") /\ UNCHANGED route

Next == \E m \in Mail :
          \/ Submit(m) \/ GiveUp(m) \/ Bounce(m)
          \/ Unwind(m) \/ Lose(m) \/ GiveBack(m)
          \/ \E r \in Relays : Rewrite(m, r)

Spec == Init /\ [][Next]_vars
=============================================================================
