------------------------------ MODULE SrsDaemon ------------------------------
(***************************************************************************)
(* The rewriting daemon of tools/srs.c: one process, one select() loop,    *)
(* one line buffer, and clients on a UNIX stream socket that connect, send *)
(* a command, read an answer and go.                                       *)
(*                                                                         *)
(* Descriptors are counted from the listening socket, which is the lowest  *)
(* the loop ever sees.  The steps of the process are the ones between      *)
(* which a client can do something: select(), each accept(), each read(),  *)
(* and the command with its answer.  FINISH is close(), FD_CLR() and a     *)
(* "continue" that only leaves the do-while of the macro: what stands      *)
(* behind a FINISH is run with the descriptor closed.                      *)
(*                                                                         *)
(* The kernel's sockets and the clients are external.                      *)
(***************************************************************************)
EXTENDS Srs2

CONSTANTS
    Clients,
    Requests,     \* lines a client may send: [verb, args]
    Handle, Now,  \* the srs_t of the daemon, and the time of day
    FdLimit,      \* descriptors the process may have, the socket included
    Backlog,      \* the second argument of listen()
    AddrlenChoices, \* what the uninitialised addrlen may be: "fits", "negative"
    Faults        \* what clients may do beyond a request and a wait: a subset
                  \* of {"idle_close", "early_close", "fragment"}

ASSUME LimitsAssumption == FdLimit \in Nat \ {0} /\ Backlog \in Nat

\* A hash length for which Srs2 holds (LengthsAssumption of module Relay).
ASSUME HandleAssumption == Handle.hashlength \in 1..28

ASSUME FaultsAssumption ==
    Faults \subseteq {"idle_close", "early_close", "fragment"}

BUFSIZ == 8192
Sock == 0
Fds  == 0..(FdLimit - 1)
Free == "free"

ASSUME ClientsAssumption == Free \notin Clients

VARIABLES
    pc,           \* "select", "scan", "command" or "dead"
    readfds_sv, readfds, fd, maxfd, line, addrlen,   \* the process's own
    conn,         \* who is at the other end of each descriptor
    backlog,      \* connections not yet accepted
    client        \* the clients' view

process == <<pc, readfds_sv, readfds, fd, maxfd, line, addrlen>>
vars == <<process, conn, backlog, client>>

\* link: "none", "queued" in the backlog, "open", "closed" by the daemon.
\* whole: what was sent comes out of one read().
Away == [link |-> "none", sent |-> <<>>, pending |-> <<>>, whole |-> TRUE,
         hung |-> FALSE, got |-> <<>>]

\* Never read before a request is: line starts as stack bytes that are none.
Garbage == [verb |-> "garbage", args |-> <<>>]

Init == /\ pc = "select"
        /\ readfds_sv = {Sock} /\ readfds = {} /\ fd = 0 /\ maxfd = Sock + 1
        /\ line = Garbage
        /\ addrlen \in AddrlenChoices
        /\ conn = [f \in Fds |-> Free]
        /\ backlog = <<>>
        /\ client = [c \in Clients |-> Away]

-----------------------------------------------------------------------------
(* The clients *)

Connect(c) ==
    /\ pc # "dead" /\ client[c].link = "none"
    /\ Len(backlog) < Backlog
    /\ backlog' = Append(backlog, c)
    /\ client' = [client EXCEPT ![c].link = "queued"]
    /\ UNCHANGED <<process, conn>>

Linked(c) == client[c].link \in {"queued", "open"} /\ ~client[c].hung

\* What the line buffer may hold after the first part of a request was read
\* into it: less than the verb, the verb and the address, or these and an
\* alias that is the end of an older request.
Fragments(q) ==
    { Garbage }
    \cup (IF q.args = <<>> THEN {}
          ELSE { [q EXCEPT !.args = << SubSeq(q.args[1], 1, n) >>]
                   : n \in 2..Len(q.args[1]) })
    \cup (IF q.verb = "forward"
          THEN { [q EXCEPT !.args = << @[1], <<Name("stale")>> >>] } ELSE {})

Send(c) ==
    /\ Linked(c) /\ client[c].sent = <<>>
    /\ \E q \in Requests :
         \/ client' = [client EXCEPT ![c].sent = <<q>>, ![c].pending = <<q>>]
         \/ /\ "fragment" \in Faults
            /\ \E text \in Fragments(q) \ {q} :
                 client' = [client EXCEPT ![c].sent = <<q>>,
                              ![c].pending = <<text>>, ![c].whole = FALSE]
    /\ UNCHANGED <<process, conn, backlog>>

HangUp(c) ==
    /\ Linked(c)
    /\ \/ "idle_close" \in Faults /\ client[c].sent = <<>>
       \/ "early_close" \in Faults /\ client[c].sent # <<>>
    /\ client' = [client EXCEPT ![c].hung = TRUE]
    /\ UNCHANGED <<process, conn, backlog>>

\* The daemon closed the connection: the client goes, and may come back.
Leave(c) ==
    /\ client[c].link = "closed"
    /\ client' = [client EXCEPT ![c] = Away]
    /\ UNCHANGED <<process, conn, backlog>>

-----------------------------------------------------------------------------
(* The daemon *)

Readable(f) ==
    IF f = Sock THEN backlog # <<>>
    ELSE /\ conn[f] # Free
         /\ client[conn[f]].pending # <<>> \/ client[conn[f]].hung

\* Mutant: select() is left out, and every descriptor tried.
Ready_All == readfds_sv

Ready == {f \in readfds_sv : f < maxfd /\ Readable(f)}

Select ==
    /\ pc = "select" /\ Ready # {}
    /\ readfds' = Ready
    /\ fd' = 0 /\ pc' = "scan"
    /\ UNCHANGED <<readfds_sv, maxfd, line, addrlen, conn, backlog, client>>

\* The descriptors that the for loop still comes to in this pass.
Ahead == {f \in readfds : fd <= f /\ f < maxfd}

\* The next one it stops at.
At_(f) == pc = "scan" /\ f \in Ahead /\ \A g \in Ahead : f <= g

EndOfPass ==
    /\ pc = "scan" /\ Ahead = {}
    /\ pc' = "select"
    /\ UNCHANGED <<readfds_sv, readfds, fd, maxfd, line, addrlen,
                   conn, backlog, client>>

FreeFds == {f \in Fds \ {Sock} : conn[f] = Free}

\* Mutants: "fd > maxfd"; one too many.
Raised_TooLate(new) == IF new > maxfd THEN new + 1 ELSE maxfd
Raised_TooHigh(new) == IF new >= maxfd THEN new + 2 ELSE maxfd

Raised(new) == IF new >= maxfd THEN new + 1 ELSE maxfd

\* The new descriptor takes the place of the loop's variable: the loop goes
\* on behind it and leaves out whatever was ready before it.
Accept ==
    /\ At_(Sock)
    /\ addrlen = "fits" /\ backlog # <<>>
    /\ \E new \in FreeFds :
         /\ \A f \in FreeFds : new <= f
         /\ conn' = [conn EXCEPT ![new] = Head(backlog)]
         /\ readfds_sv' = readfds_sv \cup {new}
         /\ maxfd' = Raised(new)
         /\ fd' = new + 1
    /\ client' = [client EXCEPT ![Head(backlog)].link = "open"]
    /\ backlog' = Tail(backlog)
    /\ UNCHANGED <<pc, readfds, line, addrlen>>

\* The loop's variable becomes -1, and the loop begins again at 0.
AcceptNoFd ==
    /\ At_(Sock) /\ FreeFds = {}
    /\ fd' = 0
    /\ UNCHANGED <<pc, readfds_sv, readfds, maxfd, line, addrlen,
                   conn, backlog, client>>

\* The kernel cannot report the address: it drops the connection.
AcceptEinval ==
    /\ At_(Sock) /\ FreeFds # {} /\ addrlen = "negative" /\ backlog # <<>>
    /\ backlog' = Tail(backlog)
    /\ client' = [client EXCEPT ![Head(backlog)].link = "closed"]
    /\ fd' = 0
    /\ UNCHANGED <<pc, readfds_sv, readfds, maxfd, line, addrlen, conn>>

\* Mutant: FD_CLR() is forgotten.
Finish_NoClr(f) == conn' = [conn EXCEPT ![f] = Free] /\ UNCHANGED readfds_sv

Finish(f) == /\ conn' = [conn EXCEPT ![f] = Free]
             /\ readfds_sv' = readfds_sv \ {f}

Closed(c) == [client EXCEPT ![c].link = "closed"]

\* Mutant: a line that is not ended keeps the end of an older one.
ReadLine_Unended(f) ==
    /\ At_(f) /\ f # Sock /\ conn[f] # Free
    /\ client[conn[f]].pending # <<>>
    /\ LET q == client[conn[f]].pending[1]
       IN  line' = IF line # Garbage /\ q.verb = "forward" /\ Len(q.args) = 2
                   THEN [q EXCEPT !.args = << @[1], <<Name("stale")>> >>] ELSE q
    /\ client' = [client EXCEPT ![conn[f]].pending = <<>>]
    /\ fd' = f /\ pc' = "command"
    /\ UNCHANGED <<readfds_sv, readfds, maxfd, addrlen, conn, backlog>>

ReadLine(f) ==
    /\ At_(f) /\ f # Sock /\ conn[f] # Free
    /\ client[conn[f]].pending # <<>>
    /\ line' = client[conn[f]].pending[1]
    /\ client' = [client EXCEPT ![conn[f]].pending = <<>>]
    /\ fd' = f /\ pc' = "command"
    /\ UNCHANGED <<readfds_sv, readfds, maxfd, addrlen, conn, backlog>>

\* End of file, and on with the line that was there before.
ReadEof(f) ==
    /\ At_(f) /\ f # Sock /\ conn[f] # Free
    /\ client[conn[f]].pending = <<>> /\ client[conn[f]].hung
    /\ Finish(f)
    /\ client' = Closed(conn[f])
    /\ fd' = f /\ pc' = "command"
    /\ UNCHANGED <<readfds, maxfd, line, addrlen, backlog>>

NoAlias(q) == q.verb = "forward" /\ Len(q.args) = 1

\* What a command leaves in the line buffer: the space behind the address of a
\* forward has become the end of the line.
Rest(q) == IF q.verb = "forward" THEN [q EXCEPT !.args = SubSeq(@, 1, 1)]
           ELSE q

\* Everything that can be in the line buffer, and what the library says to it.
Lines == {Garbage} \cup Requests \cup {Rest(q) : q \in Requests}
           \cup UNION {Fragments(q) : q \in Requests}

Answers ==
    [q \in Lines |->
       CASE q.verb = "forward" /\ Len(q.args) = 2 ->
              srs_forward(Handle, BUFSIZ, q.args[1], q.args[2], Now)
         [] q.verb = "reverse" -> srs_reverse(Handle, BUFSIZ, q.args[1], Now)
         [] OTHER -> Fail("unknown")]

Answer(q) == Answers[q]

\* The signals that end the process: a NULL pointer behind the FINISH of a
\* forward without alias, one in the library, and SIGPIPE.
Fatal(q) ==
    \/ NoAlias(q)
    \/ Answer(q).ret = "SIGSEGV"
    \/ /\ Answer(q).ret = "SRS_SUCCESS"
       /\ conn[fd] # Free /\ client[conn[fd]].hung

Die ==
    /\ pc = "command" /\ Fatal(line)
    /\ pc' = "dead"
    /\ conn' = [f \in Fds |-> Free]
    /\ backlog' = <<>>
    /\ client' = [c \in Clients |->
                    IF client[c].link \in {"queued", "open"}
                    THEN [client[c] EXCEPT !.link = "closed"] ELSE client[c]]
    /\ UNCHANGED <<readfds_sv, readfds, fd, maxfd, line, addrlen>>

\* An answer, when there is one and the descriptor still is.
Command ==
    /\ pc = "command" /\ ~Fatal(line)
    /\ Finish(fd)
    /\ client' = IF conn[fd] = Free THEN client
                 ELSE IF Answer(line).ret = "SRS_SUCCESS"
                   THEN [Closed(conn[fd]) EXCEPT
                           ![conn[fd]].got = <<Answer(line).out>>]
                 ELSE Closed(conn[fd])
    /\ line' = Rest(line)
    /\ fd' = fd + 1 /\ pc' = "scan"
    /\ UNCHANGED <<readfds, maxfd, addrlen, backlog>>

Daemon == \/ Select \/ EndOfPass
          \/ Accept \/ AcceptNoFd \/ AcceptEinval
          \/ \E f \in Fds : ReadLine(f) \/ ReadEof(f)
          \/ Command \/ Die

Next == \/ Daemon
        \/ \E c \in Clients : Connect(c) \/ Send(c) \/ HangUp(c) \/ Leave(c)

Spec == Init /\ [][Next]_vars

\* The kernel runs the process; nobody has to make a client do anything.
FairSpec == Spec /\ WF_vars(Daemon)

-----------------------------------------------------------------------------
(* The service that the loop provides to well-behaved clients *)

Place(c) == CASE client[c].link = "none"   -> "away"
              [] client[c].link = "closed" -> "gone"
              [] OTHER                     -> "here"

Service == INSTANCE RewriteService
             WITH Replies <- [q \in Requests |-> Answer(q)],
                  place <- [c \in Clients |-> Place(c)],
                  asked <- [c \in Clients |-> client[c].sent],
                  got   <- [c \in Clients |-> client[c].got]

\* Clients that send a whole line and wait get from the loop exactly what the
\* service promises, each of them in the end.
ProvidesService == Service!Spec

-----------------------------------------------------------------------------
(* Properties *)

\* The types of the descriptor tables and of the clients.
TypeOK ==
    /\ pc \in {"select", "scan", "command", "dead"}
    /\ readfds_sv \subseteq Fds /\ readfds \subseteq Fds
    /\ fd \in 0..FdLimit /\ maxfd \in 1..FdLimit
    /\ conn \in [Fds -> Clients \cup {Free}]
    /\ backlog \in Seq(Clients) /\ Len(backlog) <= Backlog
    /\ \A c \in Clients : client[c].link \in {"none", "queued", "open", "closed"}

\* The set handed to select() is the socket and the open connections, all of
\* them below maxfd, and every open connection is at one descriptor, whatever
\* FINISH was run twice or ran into what stands behind it.
FdTablesAgree ==
    pc # "dead" =>
      /\ readfds_sv = {Sock} \cup {f \in Fds : conn[f] # Free}
      /\ \A f \in readfds_sv : f < maxfd
      /\ \A c \in Clients :
           client[c].link = "open" <=> \E f \in Fds : conn[f] = c
      /\ \A f, g \in Fds : conn[f] # Free /\ conn[f] = conn[g] => f = g

\* A client whose line comes in one piece is never given the answer to another
\* client's line, or to one that is mixed with what others left in the buffers,
\* whatever these others do.
AnswersMatch ==
    \A c \in Clients :
      client[c].got # <<>> /\ client[c].whole =>
        /\ client[c].sent # <<>>
        /\ Answer(client[c].sent[1]).ret = "SRS_SUCCESS"
        /\ client[c].got[1] = Answer(client[c].sent[1]).out

\* The daemon never waits for a single client: what select() reported is
\* still readable when the loop comes to it.
NeverWaitsForOne == \A f \in Fds : At_(f) => Readable(f)

\* The daemon stays up, whatever one client asks for (tools/srs.c: "Become a
\* rewriting daemon.").
StaysUp == pc # "dead"
=============================================================================
