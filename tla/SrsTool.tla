------------------------------- MODULE SrsTool -------------------------------
(***************************************************************************)
(* main() of tools/srs.c: the options are taken one by one, the call is    *)
(* checked, and the addresses are rewritten in turn until one fails.  What *)
(* becomes a daemon instead goes on in module SrsDaemon.                   *)
(*                                                                         *)
(* getopt() is external: it hands out the options in their order, with     *)
(* their arguments, and moves the operands behind them.  A secret file is  *)
(* a sequence of lines, and a line the pieces that fgets() makes of it:    *)
(* one, none for a blank line, or more when BUFSIZ is too small for it.    *)
(***************************************************************************)
EXTENDS Srs2

CONSTANTS
    Options,      \* what argv may hold: records [opt, arg]
    Operands,     \* addresses behind the options
    MaxOptions, MaxOperands,   \* bounds
    Now,          \* the time of the call
    CharSigned    \* whether char is signed, which is up to the platform

ASSUME ToolAssumption ==
    Now \in Nat /\ MaxOptions \in Nat /\ MaxOperands \in Nat
      /\ CharSigned \in BOOLEAN

\* Nobody gives an option that getopt() does not know; it answers '?' for one.
\* A comment has its '#' at least.  A hash length is one for which Srs2 holds
\* (LengthsAssumption of module Relay).
OptionOK(o) ==
    /\ o.opt \in {"d", "x", "s", "e", "a", "k", "f", "o", "v", "i", "l", "h", "?"}
    /\ o.opt = "l" => o.arg \in 1..28
    /\ o.opt = "f" =>
         /\ o.arg.readable \in BOOLEAN
         /\ o.arg.lines \in Seq(ToSet(o.arg.lines))
         /\ \A line \in ToSet(o.arg.lines) :
              /\ line.pieces \in Seq(ToSet(line.pieces))
              /\ line.comment => Len(line.pieces) >= 1

ASSUME OptionsAssumption == \A o \in Options : OptionOK(o)

BUFSIZ == 8192

VARIABLES
    pc,           \* "options", "check", "rewrite", "daemon", "exit"
    options,      \* the options still to come
    main,         \* the local variables of main()
    printed,      \* the lines on the standard output
    code,         \* the exit status, or the signal
    given         \* the call, for the properties only

vars == <<pc, options, main, printed, code, given>>

Init ==
    /\ given \in [options : BoundedSeq(Options, MaxOptions),
                  operands : BoundedSeq(Operands, MaxOperands)]
    /\ pc = "options" /\ options = given.options
    /\ main = [srs |-> srs_init, direction |-> "SRS_DIR_FORWARD",
               daemonflags |-> {}, secrets |-> 0, socketpath |-> "/tmp/srsd",
               alias |-> <<>>, addrs |-> <<>>]
    /\ printed = <<>> /\ code = "none"

-----------------------------------------------------------------------------
(* The options *)

\* Mutant: '#' is not looked for.
SecretPieces_All(file) ==
    FlattenSeq([n \in 1..Len(file.lines) |-> file.lines[n].pieces])

\* The pieces of a file that are neither empty nor begin with '#'.
SecretPieces(file) ==
    FlattenSeq([n \in 1..Len(file.lines) |->
                  IF file.lines[n].comment THEN Tail(file.lines[n].pieces)
                  ELSE file.lines[n].pieces])

AddSecrets(m, secrets) ==
    LET srs[n \in 0..Len(secrets)] ==
            IF n = 0 THEN m.srs ELSE srs_add_secret(srs[n - 1], secrets[n])
    IN  [m EXCEPT !.srs = srs[Len(secrets)], !.secrets = @ + Len(secrets)]

\* The cases of the switch that end the program.
Unusable(o) == \/ o.opt = "e" /\ ~SeparatorAccepted(o.arg)
               \/ o.opt = "f" /\ ~o.arg.readable
               \/ o.opt \in {"h", "?"}

\* The others.
Taken(m, o) ==
    CASE o.opt = "d" -> [m EXCEPT !.daemonflags = @ \cup {"DF_DAEMON"}]
      [] o.opt = "x" -> [m EXCEPT !.daemonflags = @ \cup {"DF_NOFORK"}]
      [] o.opt = "s" -> [m EXCEPT !.socketpath = o.arg]
      [] o.opt = "e" -> [m EXCEPT !.srs = srs_set_separator(@, o.arg)]
      [] o.opt = "a" -> [m EXCEPT !.addrs = Append(@, o.arg)]
      [] o.opt = "k" -> AddSecrets(m, <<o.arg>>)
      [] o.opt = "f" -> AddSecrets(m, SecretPieces(o.arg))
      [] o.opt = "o" -> [m EXCEPT !.direction = "SRS_DIR_FORWARD"]
      [] o.opt = "v" -> [m EXCEPT !.direction = "SRS_DIR_REVERSE"]
      [] o.opt = "i" -> [m EXCEPT !.alias = <<o.arg>>]
      [] o.opt = "l" -> [m EXCEPT !.srs.hashlength = o.arg]

\* Mutant: exit(0) whatever happened.
Exit_Zero(status) == pc' = "exit" /\ code' = "0"

Exit(status) == pc' = "exit" /\ code' = status

Option ==
    /\ pc = "options" /\ options # <<>>
    /\ ~Unusable(Head(options))
    /\ main' = Taken(main, Head(options))
    /\ options' = Tail(options)
    /\ UNCHANGED <<pc, printed, code, given>>

BadOption ==
    /\ pc = "options" /\ options # <<>>
    /\ Unusable(Head(options))
    /\ Exit("255")
    /\ UNCHANGED <<options, main, printed, given>>

\* The -1 of getopt() goes through a char: where that is unsigned it is 255,
\* an option nobody knows.
EndOfOptions ==
    /\ pc = "options" /\ options = <<>>
    /\ IF CharSigned THEN pc' = "check" /\ UNCHANGED code ELSE Exit("255")
    /\ UNCHANGED <<options, main, printed, given>>

-----------------------------------------------------------------------------
(* The checks, and the work *)

Check ==
    /\ pc = "check"
    /\ LET addrs == main.addrs \o given.operands
           daemon == "DF_DAEMON" \in main.daemonflags
       IN  /\ IF main.secrets = 0 THEN Exit("255")
              ELSE IF daemon THEN pc' = "daemon" /\ UNCHANGED code
              ELSE IF \/ main.direction = "SRS_DIR_FORWARD" /\ main.alias = <<>>
                      \/ addrs = <<>>
                THEN Exit("255")
              ELSE pc' = "rewrite" /\ UNCHANGED code
           /\ main' = IF main.secrets = 0 \/ daemon THEN main
                      ELSE [main EXCEPT !.addrs = addrs]
    /\ UNCHANGED <<options, printed, given>>

Answer(m, addr) ==
    IF m.direction = "SRS_DIR_FORWARD"
    THEN srs_forward(m.srs, BUFSIZ, addr, m.alias[1], Now)
    ELSE srs_reverse(m.srs, BUFSIZ, addr, Now)

Rewrite ==
    /\ pc = "rewrite" /\ Len(printed) < Len(main.addrs)
    /\ LET ans == Answer(main, main.addrs[Len(printed) + 1])
       IN  CASE ans.ret = "SRS_SUCCESS" ->
                  printed' = Append(printed, ans.out) /\ UNCHANGED <<pc, code>>
             [] ans.ret = "SIGSEGV" -> Exit("SIGSEGV") /\ UNCHANGED printed
             [] OTHER -> Exit("255") /\ UNCHANGED printed
    /\ UNCHANGED <<options, main, given>>

Finish ==
    /\ pc = "rewrite" /\ Len(printed) = Len(main.addrs)
    /\ Exit("0")
    /\ UNCHANGED <<options, main, printed, given>>

Next == Option \/ BadOption \/ EndOfOptions \/ Check \/ Rewrite \/ Finish

Spec == Init /\ [][Next]_vars

-----------------------------------------------------------------------------
(* What a call means, whatever the order of its options *)

ArgOf(o, opt) == IF o.opt = opt THEN << o.arg >> ELSE <<>>

Args(opt) == FlattenSeq([n \in 1..Len(given.options) |->
                           ArgOf(given.options[n], opt)])

LastOr(seq, default) == IF seq = <<>> THEN default ELSE Last(seq)

Wanted == Args("a") \o given.operands

\* The secrets of an option: a file has one on every line but the comments.
KeysOf(o) ==
    CASE o.opt = "k" -> << o.arg >>
      [] o.opt = "f" -> FlattenSeq([n \in 1..Len(o.arg.lines) |->
                                      IF o.arg.lines[n].comment THEN <<>>
                                      ELSE o.arg.lines[n].pieces])
      [] OTHER       -> <<>>

\* All of them, in the order they were given.
Keys == FlattenSeq([n \in 1..Len(given.options) |-> KeysOf(given.options[n])])

Used(option) == \E n \in 1..Len(given.options) : given.options[n].opt = option

-----------------------------------------------------------------------------
(* Properties *)

\* The library is put to work with the handle the call describes: a secret at
\* least, the secrets in their order with the first one used for new hashes,
\* the last valid separator and the last hash length (main(), rundaemon()).
HandleAsGiven ==
    pc \in {"daemon", "rewrite"} =>
      /\ main.srs.secrets = Keys /\ Keys # <<>>
      /\ main.srs.separator = LastOr(Args("e"), Eq)
      /\ main.srs.hashlength = LastOr(Args("l"), 4)
      /\ pc = "daemon" <=> Used("d")

\* What is printed is the answers to the addresses in the order they were
\* given; status 0 says that all of them are there, and any other that the
\* next one has none or that the work never began.
PrintedInOrder ==
    /\ Len(printed) <= Len(Wanted)
    /\ \A n \in 1..Len(printed) : Answer(main, Wanted[n]) = [ret |-> "SRS_SUCCESS", out |-> printed[n]]
    /\ pc = "exit" =>
         IF code = "0" THEN Len(printed) = Len(Wanted)
         ELSE printed # <<>> =>
                Answer(main, Wanted[Len(printed) + 1]).ret # "SRS_SUCCESS"
=============================================================================
