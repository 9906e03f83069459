--------------------------- MODULE SrsDaemon_proofs ---------------------------
(***************************************************************************)
(* The tables of the daemon, and what clients get from it, for any         *)
(* clients, requests, descriptors, backlog and faults. FdTablesAgree is    *)
(* not inductive as it stands: what FINISH closes has to be a descriptor   *)
(* of a client (Working), and whom accept() takes from the backlog must    *)
(* not be at a descriptor already (Waiting). Likewise AnswersMatch rests   *)
(* on Talk and NeverWaitsForOne on Steady.                                 *)
(***************************************************************************)
EXTENDS SrsDaemon, TLAPS

Links == {"none", "queued", "open", "closed"}

Types ==
    /\ pc \in {"select", "scan", "command", "dead"}
    /\ readfds_sv \subseteq Fds /\ readfds \subseteq Fds
    /\ fd \in 0..FdLimit /\ maxfd \in 1..FdLimit
    /\ conn \in [Fds -> Clients \cup {Free}]
    /\ backlog \in Seq(Clients) /\ Len(backlog) <= Backlog
    /\ DOMAIN client = Clients
    /\ \A c \in Clients : /\ "link" \in DOMAIN client[c]
                          /\ client[c].link \in Links

\* A command is run for a descriptor that is not the socket, which nobody is
\* at the other end of.
Working == /\ pc = "command" => fd \in Fds \ {Sock}
           /\ conn[Sock] = Free

\* Who is in the backlog is there once, and nowhere else.
Waiting ==
    /\ \A i \in 1..Len(backlog) : client[backlog[i]].link = "queued"
    /\ \A i, j \in 1..Len(backlog) : backlog[i] = backlog[j] => i = j

IInv == Types /\ (pc # "dead" => FdTablesAgree /\ Working /\ Waiting)

-----------------------------------------------------------------------------

\* The process begins with its socket and without clients (rundaemon()).
LEMMA Beginning == Init => IInv
PROOF
  <1> SUFFICES ASSUME Init PROVE IInv
    OBVIOUS
  <1>1. Sock \in Fds /\ FdLimit \in Nat /\ FdLimit >= 1 /\ Backlog \in Nat
    BY LimitsAssumption DEF Sock, Fds
  <1>2. Types
    BY <1>1 DEF Init, Types, Links, Away, Fds, Sock
  <1>3. FdTablesAgree /\ Working /\ Waiting
    BY <1>1, ClientsAssumption
       DEF Init, FdTablesAgree, Working, Waiting, Away, Sock
  <1> QED BY <1>2, <1>3 DEF IInv

\* What clients do but connect and leave changes no link (Send(), HangUp()).
LEMMA ClientSteps ==
  ASSUME IInv, NEW c \in Clients, Send(c) \/ HangUp(c)
  PROVE  IInv'
PROOF
  <1>1. /\ UNCHANGED <<process, conn, backlog>>
        /\ DOMAIN client' = DOMAIN client
        /\ \A d \in Clients : /\ "link" \in DOMAIN client'[d]
                              /\ client'[d].link = client[d].link
    <2>1. CASE HangUp(c)
      BY <2>1 DEF IInv, Types, HangUp
    <2>2. CASE Send(c)
      <3>1. CASE \E q \in Requests :
                   client' = [client EXCEPT ![c].sent = <<q>>,
                                            ![c].pending = <<q>>]
        <4>1. PICK v : client' = [client EXCEPT ![c].sent = v,
                                                ![c].pending = v]
          BY <3>1
        <4> QED BY <2>2, <4>1 DEF IInv, Types, Send
      <3>2. CASE \E q \in Requests : \E text \in Fragments(q) \ {q} :
                   client' = [client EXCEPT ![c].sent = <<q>>,
                                ![c].pending = <<text>>, ![c].whole = FALSE]
        <4>1. PICK v, w : client' = [client EXCEPT ![c].sent = v,
                                       ![c].pending = w, ![c].whole = FALSE]
          BY <3>2
        <4> QED BY <2>2, <4>1 DEF IInv, Types, Send
      <3> QED BY <2>2, <3>1, <3>2 DEF Send
    <2> QED BY <2>1, <2>2
  <1>2. Types'
    BY <1>1 DEF IInv, Types, process
  <1>3. ASSUME pc' # "dead" PROVE (FdTablesAgree /\ Working /\ Waiting)'
    <2>1. \A i \in 1..Len(backlog) : backlog[i] \in Clients
      BY DEF IInv, Types
    <2> QED BY <1>1, <1>3, <2>1
            DEF IInv, Types, process, FdTablesAgree, Working, Waiting
  <1> QED BY <1>2, <1>3 DEF IInv

\* A client joins the end of the backlog.
LEMMA ConnectStep ==
  ASSUME IInv, NEW c \in Clients, Connect(c)
  PROVE  IInv'
PROOF
  <1>1. /\ UNCHANGED <<process, conn>> /\ pc # "dead"
        /\ DOMAIN client' = DOMAIN client
        /\ \A d \in Clients : "link" \in DOMAIN client'[d]
        /\ client'[c].link = "queued" /\ client[c].link = "none"
        /\ \A d \in Clients \ {c} : client'[d].link = client[d].link
    BY DEF IInv, Types, Connect
  <1>2. /\ backlog' \in Seq(Clients) /\ Len(backlog') = Len(backlog) + 1
        /\ Len(backlog) \in Nat /\ Len(backlog') <= Backlog
        /\ \A i \in 1..Len(backlog) : /\ backlog'[i] = backlog[i]
                                      /\ backlog[i] \in Clients \ {c}
        /\ backlog'[Len(backlog) + 1] = c
    BY <1>1, LimitsAssumption DEF IInv, Types, Waiting, Connect
  <1>3. Types'
    BY <1>1, <1>2 DEF IInv, Types, process, Links
  <1>4. FdTablesAgree' /\ Working'
    BY <1>1 DEF IInv, Types, process, FdTablesAgree, Working
  <1>5. Waiting'
    BY <1>1, <1>2 DEF IInv, Waiting
  <1> QED BY <1>3, <1>4, <1>5 DEF IInv

\* A client whose connection is closed goes.
LEMMA LeaveStep ==
  ASSUME IInv, NEW c \in Clients, Leave(c)
  PROVE  IInv'
PROOF
  <1>1. /\ UNCHANGED <<process, conn, backlog>>
        /\ DOMAIN client' = DOMAIN client
        /\ \A d \in Clients : "link" \in DOMAIN client'[d]
        /\ client'[c].link = "none" /\ client[c].link = "closed"
        /\ \A d \in Clients \ {c} : client'[d].link = client[d].link
    BY DEF IInv, Types, Leave, Away
  <1>2. Types'
    BY <1>1 DEF IInv, Types, process, Links
  <1>3. ASSUME pc' # "dead" PROVE (FdTablesAgree /\ Working /\ Waiting)'
    <2>1. \A i \in 1..Len(backlog) : backlog[i] \in Clients \ {c}
      BY <1>1, <1>3 DEF IInv, Types, Waiting, process
    <2> QED BY <1>1, <1>3, <2>1
            DEF IInv, Types, process, FdTablesAgree, Working, Waiting
  <1> QED BY <1>2, <1>3 DEF IInv

\* select() and the head of the for loop touch no table.
LEMMA LoopSteps ==
  ASSUME IInv, Select \/ EndOfPass \/ AcceptNoFd
  PROVE  IInv'
PROOF
  <1>1. /\ UNCHANGED <<readfds_sv, maxfd, conn, backlog, client>>
        /\ pc # "dead" /\ pc' \in {"select", "scan"}
        /\ readfds' \subseteq Fds /\ fd' \in 0..FdLimit
    BY LimitsAssumption
       DEF IInv, Types, Select, EndOfPass, AcceptNoFd, At_, Ready
  <1> QED BY <1>1 DEF IInv, Types, FdTablesAgree, Working, Waiting

\* What accept() takes from the backlog, and what stays there.
LEMMA Head_ ==
  ASSUME IInv, pc # "dead", backlog # <<>>
  PROVE  /\ Head(backlog) \in Clients /\ client[Head(backlog)].link = "queued"
         /\ Tail(backlog) \in Seq(Clients)
         /\ Len(Tail(backlog)) = Len(backlog) - 1 /\ Len(backlog) \in Nat \ {0}
         /\ \A i \in 1..Len(Tail(backlog)) :
              /\ Tail(backlog)[i] = backlog[i + 1] /\ i + 1 \in 1..Len(backlog)
              /\ Tail(backlog)[i] \in Clients \ {Head(backlog)}
PROOF
  <1>1. backlog \in Seq(Clients) /\ Len(backlog) \in Nat \ {0}
    BY DEF IInv, Types
  <1>2. Head(backlog) = backlog[1] /\ 1 \in 1..Len(backlog)
    BY <1>1
  <1>3. /\ Tail(backlog) \in Seq(Clients) /\ Len(Tail(backlog)) = Len(backlog) - 1
        /\ \A i \in 1..Len(Tail(backlog)) :
             Tail(backlog)[i] = backlog[i + 1] /\ i + 1 \in 1..Len(backlog)
    BY <1>1
  <1>4. \A i \in 1..Len(Tail(backlog)) : backlog[i + 1] # backlog[1]
    BY <1>1, <1>2, <1>3 DEF IInv, Waiting
  <1> QED BY <1>1, <1>2, <1>3, <1>4 DEF IInv, Waiting

\* The lowest free descriptor goes into the set and under maxfd, and the client
\* from the backlog behind it.
LEMMA AcceptStep == ASSUME IInv, Accept PROVE IInv'
PROOF
  <1> DEFINE c == Head(backlog)
  <1>1. pc = "scan" /\ pc' = pc /\ backlog # <<>> /\ backlog' = Tail(backlog)
        /\ UNCHANGED readfds
    BY DEF Accept, At_
  <1>2. /\ c \in Clients /\ client[c].link = "queued"
        /\ backlog' \in Seq(Clients) /\ Len(backlog') = Len(backlog) - 1
        /\ Len(backlog) \in Nat \ {0}
        /\ \A i \in 1..Len(backlog') :
             /\ backlog'[i] = backlog[i + 1] /\ i + 1 \in 1..Len(backlog)
             /\ backlog'[i] \in Clients \ {c}
    BY <1>1, Head_
  <1>3. /\ DOMAIN client' = DOMAIN client
        /\ \A d \in Clients : "link" \in DOMAIN client'[d]
        /\ client'[c].link = "open"
        /\ \A d \in Clients \ {c} : client'[d].link = client[d].link
    BY <1>2 DEF Accept, IInv, Types
  <1>4. PICK new \in FreeFds : /\ conn' = [conn EXCEPT ![new] = c]
                               /\ readfds_sv' = readfds_sv \cup {new}
                               /\ maxfd' = Raised(new)
                               /\ fd' = new + 1
    BY DEF Accept
  <1>5. /\ new \in Fds \ {Sock} /\ conn[new] = Free
        /\ new \in 0..(FdLimit - 1) /\ FdLimit \in Nat
    BY <1>4, LimitsAssumption DEF FreeFds, Fds
  <1>6. maxfd' \in 1..FdLimit /\ maxfd <= maxfd' /\ new < maxfd'
    BY <1>4, <1>5 DEF Raised, IInv, Types
  <1> HIDE DEF c
  <1>7. Types'
    <2>1. conn' \in [Fds -> Clients \cup {Free}]
      BY <1>2, <1>4, <1>5 DEF IInv, Types
    <2>2. readfds_sv' \subseteq Fds /\ fd' \in 0..FdLimit
      BY <1>4, <1>5 DEF IInv, Types
    <2>3. Len(backlog') <= Backlog
      BY <1>2, LimitsAssumption DEF IInv, Types
    <2> QED BY <1>1, <1>2, <1>3, <1>6, <2>1, <2>2, <2>3
            DEF IInv, Types, Links
  <1>8. FdTablesAgree'
    <2>1. /\ conn'[new] = c /\ c # Free
          /\ \A f \in Fds \ {new} : conn'[f] = conn[f] /\ conn[f] # c
      BY <1>1, <1>2, <1>4, <1>5, ClientsAssumption
         DEF IInv, Types, FdTablesAgree
    <2>2. readfds_sv' = {Sock} \cup {f \in Fds : conn'[f] # Free}
      BY <1>1, <1>4, <1>5, <2>1 DEF IInv, FdTablesAgree
    <2>3. \A f \in readfds_sv' : f < maxfd'
      BY <1>1, <1>4, <1>5, <1>6 DEF IInv, Types, FdTablesAgree, Fds
    <2>4. \A d \in Clients :
            client'[d].link = "open" <=> \E f \in Fds : conn'[f] = d
      <3>1. client'[c].link = "open" /\ \E f \in Fds : conn'[f] = c
        BY <1>3, <1>5, <2>1
      <3>2. ASSUME NEW d \in Clients \ {c}
            PROVE  client'[d].link = "open" <=> \E f \in Fds : conn'[f] = d
        <4>1. client'[d].link = "open" <=> \E f \in Fds : conn[f] = d
          BY <1>1, <1>3, <3>2 DEF IInv, FdTablesAgree
        <4>2. \A f \in Fds : conn'[f] = d <=> conn[f] = d
          BY <1>5, <2>1, <3>2, ClientsAssumption
        <4> QED BY <4>1, <4>2
      <3> QED BY <3>1, <3>2
    <2>5. \A f, g \in Fds : conn'[f] # Free /\ conn'[f] = conn'[g] => f = g
      BY <1>1, <1>5, <2>1 DEF IInv, FdTablesAgree
    <2> QED BY <2>2, <2>3, <2>4, <2>5 DEF FdTablesAgree
  <1>9. Working' /\ Waiting'
    <2>1. Working'
      BY <1>1, <1>4, <1>5 DEF IInv, Types, Working
    <2>2. Waiting'
      BY <1>1, <1>2, <1>3 DEF IInv, Waiting
    <2> QED BY <2>1, <2>2
  <1> QED BY <1>7, <1>8, <1>9 DEF IInv

\* The client of a connection that accept() dropped is at no descriptor.
LEMMA AcceptEinvalStep == ASSUME IInv, AcceptEinval PROVE IInv'
PROOF
  <1> DEFINE c == Head(backlog)
  <1>1. /\ pc = "scan" /\ backlog # <<>> /\ backlog' = Tail(backlog)
        /\ fd' = 0 /\ UNCHANGED <<pc, readfds_sv, readfds, maxfd, conn>>
    BY DEF AcceptEinval, At_
  <1>2. /\ c \in Clients /\ client[c].link = "queued"
        /\ backlog' \in Seq(Clients) /\ Len(backlog') = Len(backlog) - 1
        /\ Len(backlog) \in Nat \ {0}
        /\ \A i \in 1..Len(backlog') :
             /\ backlog'[i] = backlog[i + 1] /\ i + 1 \in 1..Len(backlog)
             /\ backlog'[i] \in Clients \ {c}
    BY <1>1, Head_
  <1>3. /\ DOMAIN client' = DOMAIN client
        /\ \A d \in Clients : "link" \in DOMAIN client'[d]
        /\ client'[c].link = "closed"
        /\ \A d \in Clients \ {c} : client'[d].link = client[d].link
    BY <1>2 DEF AcceptEinval, IInv, Types
  <1> HIDE DEF c
  <1>4. Types'
    BY <1>1, <1>2, <1>3, LimitsAssumption DEF IInv, Types, Links
  <1>5. FdTablesAgree' /\ Working'
    BY <1>1, <1>2, <1>3 DEF IInv, Types, FdTablesAgree, Working
  <1>6. Waiting'
    BY <1>1, <1>2, <1>3 DEF IInv, Waiting
  <1> QED BY <1>4, <1>5, <1>6 DEF IInv

\* read() changes what is pending, and the loop stops at a client's descriptor.
LEMMA ReadLineStep ==
  ASSUME IInv, NEW f \in Fds, ReadLine(f)
  PROVE  IInv'
PROOF
  <1>1. /\ pc = "scan" /\ pc' = "command" /\ fd' = f /\ f \in Fds \ {Sock}
        /\ UNCHANGED <<readfds_sv, readfds, maxfd, conn, backlog>>
        /\ client' = [client EXCEPT ![conn[f]].pending = <<>>]
    BY DEF ReadLine, At_
  <1>2. /\ DOMAIN client' = DOMAIN client
        /\ \A d \in Clients : /\ "link" \in DOMAIN client'[d]
                              /\ client'[d].link = client[d].link
    BY <1>1 DEF IInv, Types
  <1>3. fd' \in 0..FdLimit
    BY <1>1, LimitsAssumption DEF Fds
  <1>4. Types'
    BY <1>1, <1>2, <1>3 DEF IInv, Types
  <1>5. \A i \in 1..Len(backlog) : backlog[i] \in Clients
    BY DEF IInv, Types
  <1>6. FdTablesAgree' /\ Working' /\ Waiting'
    BY <1>1, <1>2, <1>5 DEF IInv, FdTablesAgree, Working, Waiting
  <1> QED BY <1>4, <1>6 DEF IInv

\* FINISH takes a descriptor out of the tables, and whoever was at it; a second
\* FINISH of the same descriptor changes nothing.
LEMMA FinishTables ==
  ASSUME IInv, pc # "dead", NEW f \in Fds \ {Sock}, Finish(f),
         UNCHANGED <<maxfd, backlog>>,
         \A d \in Clients : client'[d].link =
                              IF d = conn[f] THEN "closed" ELSE client[d].link
  PROVE  /\ conn' \in [Fds -> Clients \cup {Free}] /\ conn'[Sock] = Free
         /\ readfds_sv' \subseteq Fds
         /\ FdTablesAgree' /\ Waiting'
PROOF
  <1>1. /\ conn \in [Fds -> Clients \cup {Free}] /\ Sock \in Fds
        /\ conn'[f] = Free /\ \A g \in Fds \ {f} : conn'[g] = conn[g]
        /\ readfds_sv' = readfds_sv \ {f}
    BY LimitsAssumption DEF IInv, Types, Finish, Sock, Fds
  <1>2. conn' \in [Fds -> Clients \cup {Free}] /\ conn'[Sock] = Free
    BY <1>1 DEF IInv, Types, Working, Finish
  <1>3. readfds_sv' = {Sock} \cup {g \in Fds : conn'[g] # Free}
    BY <1>1 DEF IInv, FdTablesAgree
  <1>4. \A g \in readfds_sv' : g < maxfd'
    BY <1>1 DEF IInv, FdTablesAgree
  <1>5. \A d \in Clients :
          client'[d].link = "open" <=> \E g \in Fds : conn'[g] = d
    <2>1. ASSUME NEW d \in Clients, d = conn[f]
          PROVE  client'[d].link = "closed" /\ \A g \in Fds : conn'[g] # d
      BY <1>1, <2>1, ClientsAssumption DEF IInv, FdTablesAgree
    <2>2. ASSUME NEW d \in Clients, d # conn[f]
          PROVE  client'[d].link = "open" <=> \E g \in Fds : conn'[g] = d
      <3>1. client'[d].link = "open" <=> \E g \in Fds : conn[g] = d
        BY <2>2 DEF IInv, FdTablesAgree
      <3>2. \A g \in Fds : conn'[g] = d <=> conn[g] = d
        BY <1>1, <2>2, ClientsAssumption
      <3> QED BY <3>1, <3>2
    <2> QED BY <2>1, <2>2
  <1>6. \A g, h \in Fds : conn'[g] # Free /\ conn'[g] = conn'[h] => g = h
    BY <1>1 DEF IInv, FdTablesAgree
  <1>7. Waiting'
    <2>1. \A i \in 1..Len(backlog) : backlog[i] \in Clients
      BY DEF IInv, Types
    <2>2. ASSUME NEW i \in 1..Len(backlog) PROVE backlog[i] # conn[f]
      <3>1. client[backlog[i]].link = "queued"
        BY DEF IInv, Waiting
      <3> QED BY <2>1, <3>1 DEF IInv, FdTablesAgree
    <2> QED BY <2>1, <2>2 DEF IInv, Waiting
  <1> QED BY <1>1, <1>2, <1>3, <1>4, <1>5, <1>6, <1>7
          DEF IInv, Types, FdTablesAgree

\* An end of file closes the connection, and the command behind it is run.
LEMMA ReadEofStep ==
  ASSUME IInv, NEW f \in Fds, ReadEof(f)
  PROVE  IInv'
PROOF
  <1>1. /\ pc = "scan" /\ pc' = "command" /\ fd' = f /\ f \in Fds \ {Sock}
        /\ Finish(f) /\ client' = Closed(conn[f])
        /\ UNCHANGED <<readfds, maxfd, backlog>>
    BY DEF ReadEof, At_
  <1>2. /\ DOMAIN client' = DOMAIN client
        /\ \A d \in Clients :
             /\ "link" \in DOMAIN client'[d]
             /\ client'[d].link =
                  IF d = conn[f] THEN "closed" ELSE client[d].link
    BY <1>1 DEF Closed, IInv, Types
  <1>3. /\ conn' \in [Fds -> Clients \cup {Free}] /\ conn'[Sock] = Free
        /\ readfds_sv' \subseteq Fds /\ FdTablesAgree' /\ Waiting'
    BY <1>1, <1>2, FinishTables
  <1>4. fd' \in 0..FdLimit
    BY <1>1, LimitsAssumption DEF Fds
  <1>5. Types'
    BY <1>1, <1>2, <1>3, <1>4 DEF IInv, Types, Links
  <1>6. Working'
    BY <1>1, <1>3 DEF Working
  <1> QED BY <1>3, <1>5, <1>6 DEF IInv

\* Every command ends with a FINISH, also one that is run after another.
LEMMA CommandStep == ASSUME IInv, Command PROVE IInv'
PROOF
  <1>1. /\ pc = "command" /\ pc' = "scan" /\ fd' = fd + 1
        /\ Finish(fd) /\ UNCHANGED <<readfds, maxfd, backlog>>
    BY DEF Command
  <1>2. fd \in Fds \ {Sock} /\ fd' \in 0..FdLimit
    BY <1>1, LimitsAssumption DEF IInv, Working, Fds
  <1>3. /\ DOMAIN client' = DOMAIN client
        /\ \A d \in Clients :
             /\ "link" \in DOMAIN client'[d]
             /\ client'[d].link =
                  IF d = conn[fd] THEN "closed" ELSE client[d].link
    <2>1. \/ client' = client /\ conn[fd] = Free
          \/ client' = Closed(conn[fd])
          \/ \E v : client' = [Closed(conn[fd]) EXCEPT ![conn[fd]].got = v]
      BY DEF Command
    <2>2. CASE client' = client /\ conn[fd] = Free
      BY <2>2, ClientsAssumption DEF IInv, Types
    <2>3. CASE client' = Closed(conn[fd])
      BY <2>3 DEF Closed, IInv, Types
    <2>4. CASE \E v : client' = [Closed(conn[fd]) EXCEPT ![conn[fd]].got = v]
      <3>1. PICK v : client' = [Closed(conn[fd]) EXCEPT ![conn[fd]].got = v]
        BY <2>4
      <3> QED BY <3>1 DEF Closed, IInv, Types
    <2> QED BY <2>1, <2>2, <2>3, <2>4
  <1>4. /\ conn' \in [Fds -> Clients \cup {Free}] /\ conn'[Sock] = Free
        /\ readfds_sv' \subseteq Fds /\ FdTablesAgree' /\ Waiting'
    BY <1>1, <1>2, <1>3, FinishTables
  <1>5. Types'
    BY <1>1, <1>2, <1>3, <1>4 DEF IInv, Types, Links
  <1>6. Working'
    BY <1>1, <1>4 DEF Working
  <1> QED BY <1>4, <1>5, <1>6 DEF IInv

\* A signal leaves nobody connected, and no table to keep.
LEMMA DieStep == ASSUME IInv, Die PROVE IInv'
PROOF
  <1>1. /\ pc' = "dead" /\ backlog' = <<>> /\ conn' = [f \in Fds |-> Free]
        /\ UNCHANGED <<readfds_sv, readfds, fd, maxfd>>
    BY DEF Die
  <1>2. /\ DOMAIN client' = Clients
        /\ \A d \in Clients : "link" \in DOMAIN client'[d]
                              /\ client'[d].link \in Links
    BY DEF Die, IInv, Types, Links
  <1>3. backlog' \in Seq(Clients) /\ Len(backlog') <= Backlog
    BY <1>1, LimitsAssumption
  <1> QED BY <1>1, <1>2, <1>3 DEF IInv, Types

-----------------------------------------------------------------------------

\* Whatever clients and kernel do, the process keeps its tables (rundaemon()).
THEOREM TablesInvariant == Spec => []IInv
PROOF
  <1>1. IInv /\ [Next]_vars => IInv'
    <2> SUFFICES ASSUME IInv, [Next]_vars PROVE IInv'
      OBVIOUS
    <2>1. CASE Daemon
      BY <2>1, LoopSteps, AcceptStep, AcceptEinvalStep, ReadLineStep,
         ReadEofStep, CommandStep, DieStep DEF Daemon
    <2>2. ASSUME NEW c \in Clients, Connect(c) \/ Send(c) \/ HangUp(c) \/ Leave(c)
          PROVE  IInv'
      BY <2>2, ConnectStep, ClientSteps, LeaveStep
    <2>3. CASE UNCHANGED vars
      BY <2>3 DEF vars, process, IInv, Types, FdTablesAgree, Working, Waiting
    <2> QED BY <2>1, <2>2, <2>3 DEF Next
  <1> QED BY <1>1, Beginning, PTL DEF Spec

\* The tables, the loop's variable and the clients keep their types.
THEOREM TypeCorrect == Spec => []TypeOK
PROOF
  <1>1. IInv => TypeOK
    BY DEF IInv, Types, TypeOK, Links
  <1> QED BY <1>1, TablesInvariant, PTL

\* The set handed to select() is the socket and the open connections, each
\* client at one descriptor below maxfd, although FINISH runs into the code
\* behind it.
THEOREM TablesAgree == Spec => []FdTablesAgree
PROOF
  <1>1. IInv => FdTablesAgree
    BY DEF IInv, FdTablesAgree
  <1> QED BY <1>1, TablesInvariant, PTL
-----------------------------------------------------------------------------
(* What clients get: Talk carries a line from the client that sent it through *)
(* the one buffer of the daemon to the answer; Steady says that the rest of a *)
(* pass of the loop is still what select() reported.                          *)

Keys == {"link", "sent", "pending", "whole", "hung", "got"}

\* What a client has at hand belongs to what it sent.
Told(r) ==
    /\ DOMAIN r = Keys
    /\ r.pending # <<>> =>
         r.sent # <<>> /\ (r.whole => r.pending[1] = r.sent[1])
    /\ r.got # <<>> =>
         /\ r.link = "closed" /\ r.sent # <<>>
         /\ r.whole => /\ Answer(r.sent[1]).ret = "SRS_SUCCESS"
                       /\ r.got[1] = Answer(r.sent[1]).out

\* The line that a command is run for is the one of the client it is run for.
Heard == pc = "command" /\ conn[fd] # Free =>
           /\ client[conn[fd]].sent # <<>>
           /\ client[conn[fd]].whole => line = client[conn[fd]].sent[1]

Talk == (\A c \in Clients : Told(client[c])) /\ Heard

-----------------------------------------------------------------------------
(* Answers *)

\* A connection may begin and end without a word.
LEMMA Relinked ==
  ASSUME NEW r, Told(r), NEW x, x = "closed" \/ r.link # "closed"
  PROVE  Told([r EXCEPT !.link = x])
PROOF
  <1> DEFINE s == [r EXCEPT !.link = x]
  <1>1. /\ DOMAIN s = Keys /\ s.link = x /\ s.sent = r.sent /\ s.got = r.got
        /\ s.pending = r.pending /\ s.whole = r.whole
    BY DEF Told, Keys
  <1> HIDE DEF s
  <1>2. Told(s)
    BY <1>1 DEF Told
  <1> QED BY <1>2 DEF s

\* What else clients do: send, hang up (Send(), HangUp()) and go (Leave()).
LEMMA ClientTalk ==
  ASSUME IInv, Talk, NEW c \in Clients,
         Connect(c) \/ Send(c) \/ HangUp(c) \/ Leave(c)
  PROVE  Talk'
PROOF
  <1>1. /\ UNCHANGED <<pc, fd, line, conn>>
        /\ \A d \in Clients \ {c} : client'[d] = client[d]
    BY DEF Connect, Send, HangUp, Leave, process, IInv, Types
  <1>2. pc = "command" => conn[fd] \in Clients \cup {Free}
    BY DEF IInv, Types, Working
  <1>3. DOMAIN client = Clients /\ Told(client[c])
    BY DEF IInv, Types, Talk
  <1>4. CASE Connect(c)
    <2>1. client'[c] = [client[c] EXCEPT !.link = "queued"]
          /\ client[c].link = "none"
      BY <1>3, <1>4 DEF Connect
    <2>2. Told(client'[c])
      BY <1>3, <2>1, Relinked
    <2>3. client'[c].sent = client[c].sent /\ client'[c].whole = client[c].whole
      BY <1>3, <2>1 DEF Told, Keys
    <2> QED BY <1>1, <1>2, <2>2, <2>3 DEF Talk, Heard
  <1>5. CASE HangUp(c)
    <2>1. client'[c] = [client[c] EXCEPT !.hung = TRUE]
      BY <1>3, <1>5 DEF HangUp
    <2>2. /\ DOMAIN client'[c] = Keys /\ client'[c].link = client[c].link
          /\ client'[c].sent = client[c].sent /\ client'[c].got = client[c].got
          /\ client'[c].pending = client[c].pending
          /\ client'[c].whole = client[c].whole
      BY <1>3, <2>1 DEF Told, Keys
    <2>3. Told(client'[c])
      BY <1>3, <2>2 DEF Told
    <2> QED BY <1>1, <1>2, <2>2, <2>3 DEF Talk, Heard
  <1>6. CASE Leave(c)
    <2>1. client'[c] = Away
      BY <1>3, <1>6 DEF Leave
    <2>2. Told(client'[c])
      BY <2>1 DEF Told, Away, Keys
    <2>3. pc = "command" => conn[fd] # c
      BY <1>6 DEF Leave, IInv, Working, FdTablesAgree
    <2> QED BY <1>1, <1>2, <2>2, <2>3 DEF Talk, Heard
  <1>7. CASE Send(c)
    <2>1. client[c].sent = <<>> /\ client[c].link # "closed"
      BY <1>7 DEF Send, Linked
    <2>2. pc = "command" => conn[fd] # c
      BY <1>2, <2>1, ClientsAssumption DEF Talk, Heard
    <2>3. CASE \E q \in Requests :
                 client' = [client EXCEPT ![c].sent = <<q>>, ![c].pending = <<q>>]
      <3>1. PICK q : client' = [client EXCEPT ![c].sent = <<q>>,
                                              ![c].pending = <<q>>]
        BY <2>3
      <3>2. /\ DOMAIN client'[c] = Keys /\ client'[c].sent = <<q>>
            /\ client'[c].pending = <<q>> /\ client'[c].got = client[c].got
        BY <1>3, <3>1 DEF Told, Keys
      <3>3. Told(client'[c])
        BY <1>3, <2>1, <3>2 DEF Told
      <3> QED BY <1>1, <1>2, <2>2, <3>3 DEF Talk, Heard
    <2>4. CASE \E q \in Requests : \E text \in Fragments(q) \ {q} :
                 client' = [client EXCEPT ![c].sent = <<q>>,
                              ![c].pending = <<text>>, ![c].whole = FALSE]
      <3>1. PICK q, v : client' = [client EXCEPT ![c].sent = <<q>>,
                                     ![c].pending = v, ![c].whole = FALSE]
        BY <2>4
      <3>2. /\ DOMAIN client'[c] = Keys /\ client'[c].sent = <<q>>
            /\ client'[c].whole = FALSE /\ client'[c].got = client[c].got
        BY <1>3, <3>1 DEF Told, Keys
      <3>3. Told(client'[c])
        BY <1>3, <2>1, <3>2 DEF Told
      <3> QED BY <1>1, <1>2, <2>2, <3>3 DEF Talk, Heard
    <2> QED BY <1>7, <2>3, <2>4 DEF Send
  <1> QED BY <1>4, <1>5, <1>6, <1>7

\* accept() and end of file change the link of one client.
LEMMA LinkTalk ==
  ASSUME IInv, Talk, pc # "dead", NEW c \in Clients, NEW x \in Links,
         client' = [client EXCEPT ![c].link = x],
         x = "closed" \/ client[c].link # "closed",
         pc' = "command" => conn'[fd'] = Free
  PROVE  Talk'
PROOF
  <1>1. /\ \A d \in Clients \ {c} : client'[d] = client[d]
        /\ client'[c] = [client[c] EXCEPT !.link = x] /\ Told(client[c])
    BY DEF IInv, Types, Talk
  <1>2. Told(client'[c])
    BY <1>1, Relinked
  <1> QED BY <1>1, <1>2 DEF Talk, Heard

\* A line goes from its client into the buffer.
LEMMA ReadLineTalk ==
  ASSUME IInv, Talk, NEW f \in Fds, ReadLine(f)
  PROVE  Talk'
PROOF
  <1> DEFINE c == conn[f]
  <1>1. /\ c \in Clients /\ conn' = conn /\ fd' = f
        /\ client[c].pending # <<>> /\ line' = client[c].pending[1]
        /\ client' = [client EXCEPT ![c].pending = <<>>]
    BY DEF ReadLine, IInv, Types
  <1> HIDE DEF c
  <1>2. /\ \A d \in Clients \ {c} : client'[d] = client[d]
        /\ client'[c] = [client[c] EXCEPT !.pending = <<>>] /\ Told(client[c])
    BY <1>1 DEF IInv, Types, Talk
  <1>3. /\ DOMAIN client'[c] = Keys /\ client'[c].link = client[c].link
        /\ client'[c].sent = client[c].sent /\ client'[c].got = client[c].got
        /\ client'[c].pending = <<>> /\ client'[c].whole = client[c].whole
    BY <1>2 DEF Told, Keys
  <1>4. Told(client'[c])
    BY <1>2, <1>3 DEF Told
  <1>5. Heard'
    BY <1>1, <1>2, <1>3 DEF Heard, Told, c
  <1> QED BY <1>2, <1>4, <1>5 DEF Talk

\* The answer goes to the client whose line it is for.
LEMMA CommandTalk == ASSUME IInv, Talk, Command PROVE Talk'
PROOF
  <1> DEFINE c == conn[fd]
  <1>1. pc = "command" /\ pc' = "scan" /\ c \in Clients \cup {Free}
    BY DEF Command, IInv, Types, Working
  <1>2. CASE c = Free
    BY <1>1, <1>2 DEF Command, Talk, Heard
  <1>3. CASE c # Free /\ Answer(line).ret # "SRS_SUCCESS"
    BY <1>1, <1>3, LinkTalk DEF Command, Closed, Links
  <1>4. CASE c # Free /\ Answer(line).ret = "SRS_SUCCESS"
    <2> DEFINE out == Answer(line).out
    <2>1. client' = [Closed(c) EXCEPT ![c].got = <<out>>]
      BY <1>4 DEF Command
    <2>2. c \in Clients /\ Told(client[c]) /\ client[c].sent # <<>>
          /\ (client[c].whole => line = client[c].sent[1])
      BY <1>1, <1>4 DEF Talk, Heard
    <2> HIDE DEF c, out
    <2>3. \A d \in Clients \ {c} : client'[d] = client[d]
      BY <2>1, <2>2 DEF Closed, IInv, Types
    <2>4. client'[c] = [[client[c] EXCEPT !.link = "closed"] EXCEPT !.got = <<out>>]
      BY <2>1, <2>2 DEF Closed, IInv, Types
    <2>5. /\ DOMAIN client'[c] = Keys /\ client'[c].link = "closed"
          /\ client'[c].sent = client[c].sent /\ client'[c].got = <<out>>
          /\ client'[c].pending = client[c].pending
          /\ client'[c].whole = client[c].whole
      BY <2>2, <2>4 DEF Told, Keys
    <2>6. client[c].whole =>
            /\ Answer(client[c].sent[1]).ret = "SRS_SUCCESS"
            /\ Answer(client[c].sent[1]).out = out
      BY <1>4, <2>2 DEF out
    <2>7. Told(client'[c])
      BY <2>2, <2>5, <2>6 DEF Told
    <2> QED BY <1>1, <2>3, <2>7 DEF Talk, Heard
  <1> QED BY <1>2, <1>3, <1>4

\* A signal closes every connection.
LEMMA DieTalk == ASSUME IInv, Talk, Die PROVE Talk'
PROOF
  <1>1. ASSUME NEW d \in Clients PROVE Told(client'[d])
    <2>1. \/ client'[d] = [client[d] EXCEPT !.link = "closed"]
          \/ client'[d] = client[d]
      BY DEF Die
    <2>2. Told(client[d])
      BY DEF Talk
    <2> QED BY <2>1, <2>2, Relinked
  <1> QED BY <1>1 DEF Die, Talk, Heard

\* A line stays with its client until its answer, on every path through the
\* loop.
LEMMA Conversation == Spec => []Talk
PROOF
  <1>1. Init => Talk
    BY DEF Init, Talk, Heard, Told, Away, Keys
  <1>2. IInv /\ Talk /\ [Next]_vars => Talk'
    <2> SUFFICES ASSUME IInv, Talk, [Next]_vars PROVE Talk'
      OBVIOUS
    <2>1. CASE Select \/ EndOfPass \/ AcceptNoFd
      BY <2>1 DEF Select, EndOfPass, AcceptNoFd, At_, Talk, Heard
    <2>2. CASE Accept
      <3>1. pc = "scan" /\ pc' = pc /\ backlog # <<>>
        BY <2>2 DEF Accept, At_
      <3>2. Head(backlog) \in Clients /\ client[Head(backlog)].link = "queued"
        BY <3>1, Head_
      <3> QED BY <2>2, <3>1, <3>2, LinkTalk DEF Accept, Links
    <2>3. CASE AcceptEinval
      <3>1. pc = "scan" /\ pc' = pc /\ backlog # <<>>
        BY <2>3 DEF AcceptEinval, At_
      <3>2. Head(backlog) \in Clients
        BY <3>1, Head_
      <3> QED BY <2>3, <3>1, <3>2, LinkTalk DEF AcceptEinval, Links
    <2>4. ASSUME NEW f \in Fds, ReadLine(f) PROVE Talk'
      BY <2>4, ReadLineTalk
    <2>5. ASSUME NEW f \in Fds, ReadEof(f) PROVE Talk'
      <3>1. /\ pc = "scan" /\ conn[f] \in Clients /\ fd' = f
            /\ client' = [client EXCEPT ![conn[f]].link = "closed"]
            /\ conn' = [conn EXCEPT ![f] = Free]
        BY <2>5 DEF ReadEof, At_, Finish, Closed, IInv, Types
      <3>2. conn'[fd'] = Free
        BY <3>1 DEF IInv, Types
      <3> QED BY <3>1, <3>2, LinkTalk DEF Links
    <2>6. CASE Command
      BY <2>6, CommandTalk
    <2>7. CASE Die
      BY <2>7, DieTalk
    <2>8. ASSUME NEW c \in Clients, Connect(c) \/ Send(c) \/ HangUp(c) \/ Leave(c)
          PROVE  Talk'
      BY <2>8, ClientTalk
    <2>9. CASE UNCHANGED vars
      BY <2>9 DEF vars, process, Talk, Heard
    <2> QED BY <2>1, <2>2, <2>3, <2>4, <2>5, <2>6, <2>7, <2>8, <2>9
            DEF Next, Daemon
  <1> QED BY <1>1, <1>2, TablesInvariant, PTL DEF Spec

\* A client whose line comes in one piece gets the answer to that line or none,
\* for any number of clients, whatever they do (the one buffer of rundaemon()).
THEOREM Answered == Spec => []AnswersMatch
PROOF
  <1>1. Talk => AnswersMatch
    BY DEF Talk, Told, AnswersMatch
  <1> QED BY <1>1, Conversation, PTL

-----------------------------------------------------------------------------
(* The loop never waits *)

\* What select() reported and the pass has not come to can still be read.
Steady ==
    /\ addrlen = "fits"
    /\ pc = "scan" => \A f \in readfds : fd <= f => Readable(f)
    /\ pc = "command" => \A f \in readfds : fd < f => Readable(f)

\* A descriptor stays readable as long as its connection is there and nobody
\* reads from it.
LEMMA StaysReadable ==
  ASSUME IInv, Talk, pc # "dead", NEW f \in Fds, Readable(f),
         f = Sock => backlog' # <<>>,
         f # Sock => /\ conn'[f] = conn[f]
                     /\ client'[conn[f]].pending = client[conn[f]].pending
                     /\ client'[conn[f]].hung = client[conn[f]].hung
  PROVE  Readable(f)'
BY DEF Readable

\* Nothing that clients do takes away what there is to read.
LEMMA ClientSteady ==
  ASSUME IInv, Talk, Steady, NEW c \in Clients,
         Connect(c) \/ Send(c) \/ HangUp(c) \/ Leave(c)
  PROVE  Steady'
PROOF
  <1>1. /\ UNCHANGED <<process, conn>> /\ DOMAIN client = Clients
        /\ \A d \in Clients \ {c} : client'[d] = client[d]
        /\ DOMAIN client[c] = Keys /\ backlog \in Seq(Clients)
    BY DEF Connect, Send, HangUp, Leave, process, IInv, Types, Talk, Told
  <1>2. backlog # <<>> => backlog' # <<>>
    <2>1. CASE Connect(c)
      <3>1. backlog' = Append(backlog, c) /\ Len(backlog) \in Nat
        BY <1>1, <2>1 DEF Connect
      <3>2. Len(backlog') = Len(backlog) + 1
        BY <1>1, <3>1
      <3> QED BY <3>1, <3>2
    <2>2. CASE ~Connect(c)
      BY <2>2 DEF Send, HangUp, Leave
    <2> QED BY <2>1, <2>2
  <1>3. CASE Leave(c)
    <2>1. \A f \in Fds : pc \in {"scan", "command"} => conn[f] # c
      BY <1>3 DEF Leave, IInv, FdTablesAgree
    <2> QED BY <1>1, <1>2, <2>1 DEF Steady, Readable, process, IInv, Types
  <1>4. CASE ~Leave(c)
    <2>1. client[c].pending # <<>> \/ client[c].hung
            => client'[c].pending # <<>> \/ client'[c].hung
      <3>1. CASE Connect(c)
        BY <1>1, <3>1 DEF Connect, Keys
      <3>2. CASE HangUp(c)
        BY <1>1, <3>2 DEF HangUp, Keys
      <3>3. CASE Send(c)
        <4>1. CASE \E q \in Requests :
                 client' = [client EXCEPT ![c].sent = <<q>>, ![c].pending = <<q>>]
          <5>1. PICK q : client' = [client EXCEPT ![c].sent = <<q>>,
                                                  ![c].pending = <<q>>]
            BY <4>1
          <5>2. client'[c].pending = <<q>>
            BY <1>1, <5>1 DEF Keys
          <5> QED BY <5>2
        <4>2. CASE \E q \in Requests : \E text \in Fragments(q) \ {q} :
                 client' = [client EXCEPT ![c].sent = <<q>>,
                              ![c].pending = <<text>>, ![c].whole = FALSE]
          <5>1. PICK v, q : client' = [client EXCEPT ![c].sent = v,
                              ![c].pending = <<q>>, ![c].whole = FALSE]
            BY <4>2
          <5>2. client'[c].pending = <<q>>
            BY <1>1, <5>1 DEF Keys
          <5> QED BY <5>2
        <4> QED BY <3>3, <4>1, <4>2 DEF Send
      <3> QED BY <1>4, <3>1, <3>2, <3>3
    <2> QED BY <1>1, <1>2, <2>1 DEF Steady, Readable, process, IInv, Types
  <1> QED BY <1>3, <1>4

\* A pass goes up from the socket; only at its beginning does accept() send it
\* back there.
LEMMA DaemonSteady ==
  ASSUME IInv, Talk, Steady, Daemon
  PROVE  Steady'
PROOF
  <1> USE LimitsAssumption
  <1>1. readfds \subseteq Fds /\ fd \in Nat /\ Fds \subseteq Nat
    BY DEF IInv, Types, Fds
  <1>2. CASE Select
    BY <1>2 DEF Select, Ready, Readable, Steady
  <1>3. CASE EndOfPass
    BY <1>3 DEF EndOfPass, Steady
  <1>4. CASE Accept
    <2>1. PICK new \in FreeFds : /\ conn' = [conn EXCEPT ![new] = Head(backlog)]
                                 /\ fd' = new + 1
      BY <1>4 DEF Accept
    <2>2. /\ pc = "scan" /\ pc' = pc /\ backlog # <<>> /\ UNCHANGED readfds
          /\ client' = [client EXCEPT ![Head(backlog)].link = "open"]
          /\ new \in Fds \ {Sock} /\ new \in Nat /\ fd = 0 /\ addrlen' = addrlen
      BY <1>1, <1>4, <2>1 DEF Accept, At_, Ahead, FreeFds, Sock
    <2>3. ASSUME NEW f \in readfds, fd' <= f
          PROVE  Readable(f)'
      <3>1. f \in Fds \ {Sock, new} /\ Readable(f)
        BY <1>1, <2>1, <2>2, <2>3 DEF Steady, Sock
      <3>2. conn[f] \in Clients /\ conn'[f] = conn[f]
        BY <2>1, <3>1 DEF Readable, IInv, Types
      <3>3. DOMAIN client = Clients /\ DOMAIN client[conn[f]] = Keys
        BY <3>2 DEF IInv, Types, Talk, Told
      <3>4. /\ client'[conn[f]].pending = client[conn[f]].pending
            /\ client'[conn[f]].hung = client[conn[f]].hung
        BY <2>2, <3>2, <3>3 DEF Keys
      <3> QED BY <2>2, <3>1, <3>2, <3>4, StaysReadable
    <2> QED BY <2>2, <2>3 DEF Steady
  <1>5. CASE AcceptNoFd
    BY <1>1, <1>5 DEF AcceptNoFd, At_, Ahead, Sock, Steady, Readable
  <1>6. CASE AcceptEinval
    BY <1>6 DEF AcceptEinval, Steady
  <1>7. ASSUME NEW f \in Fds, ReadLine(f) \/ ReadEof(f) PROVE Steady'
    <2>1. /\ pc = "scan" /\ pc' = "command" /\ fd' = f /\ fd <= f /\ f # Sock
          /\ UNCHANGED <<readfds, addrlen, backlog>> /\ conn[f] \in Clients
          /\ conn' = conn \/ conn' = [conn EXCEPT ![f] = Free]
          /\ \A d \in Clients \ {conn[f]} : client'[d] = client[d]
      BY <1>7 DEF ReadLine, ReadEof, At_, Ahead, Finish, Closed, IInv, Types
    <2>2. ASSUME NEW g \in readfds, fd' < g
          PROVE  Readable(g)'
      <3>1. g \in Fds \ {Sock, f} /\ Readable(g)
        BY <1>1, <2>1, <2>2 DEF Steady, Sock
      <3>2. conn[g] \in Clients /\ conn'[g] = conn[g] /\ conn[g] # conn[f]
        BY <2>1, <3>1 DEF Readable, IInv, Types, FdTablesAgree
      <3> QED BY <2>1, <3>1, <3>2, StaysReadable
    <2> QED BY <2>1, <2>2 DEF Steady
  <1>8. CASE Command
    <2>1. /\ pc = "command" /\ pc' = "scan" /\ fd' = fd + 1 /\ fd \in Fds \ {Sock}
          /\ UNCHANGED <<readfds, addrlen, backlog>>
          /\ conn' = [conn EXCEPT ![fd] = Free]
      BY <1>8 DEF Command, Finish, IInv, Working
    <2>2. \A d \in Clients \ {conn[fd]} : client'[d] = client[d]
      <3>1. conn[fd] \in Clients \cup {Free}
        BY <2>1 DEF IInv, Types
      <3>2. \/ client' = client /\ conn[fd] = Free
            \/ client' = Closed(conn[fd])
            \/ \E v : client' = [Closed(conn[fd]) EXCEPT ![conn[fd]].got = v]
        BY <1>8 DEF Command
      <3>3. CASE \E v : client' = [Closed(conn[fd]) EXCEPT ![conn[fd]].got = v]
        <4>1. PICK v : client' = [Closed(conn[fd]) EXCEPT ![conn[fd]].got = v]
          BY <3>3
        <4> QED BY <3>1, <4>1 DEF Closed, IInv, Types
      <3> QED BY <3>1, <3>2, <3>3 DEF Closed, IInv, Types
    <2>3. ASSUME NEW g \in readfds, fd' <= g
          PROVE  Readable(g)'
      <3>1. g \in Fds \ {Sock, fd} /\ Readable(g)
        BY <1>1, <2>1, <2>3 DEF Steady, Sock
      <3>2. conn[g] \in Clients /\ conn'[g] = conn[g] /\ conn[g] # conn[fd]
        BY <2>1, <3>1 DEF Readable, IInv, Types, FdTablesAgree
      <3> QED BY <2>1, <2>2, <3>1, <3>2, StaysReadable
    <2> QED BY <2>1, <2>3 DEF Steady
  <1>9. CASE Die
    BY <1>9 DEF Die, Steady
  <1> QED BY <1>2, <1>3, <1>4, <1>5, <1>6, <1>7, <1>8, <1>9 DEF Daemon

\* With an addrlen that fits, the loop never enters a read() or accept() that
\* would wait for one client (the select() of rundaemon()), whatever clients do.
THEOREM NeverWaits ==
  ASSUME AddrlenChoices = {"fits"}
  PROVE  Spec => []NeverWaitsForOne
PROOF
  <1>1. Init => Steady
    BY DEF Init, Steady
  <1>2. IInv /\ Talk /\ Steady /\ [Next]_vars => Steady'
    BY DaemonSteady, ClientSteady DEF Next, vars, process, Steady, Readable
  <1>3. Steady => NeverWaitsForOne
    BY DEF Steady, NeverWaitsForOne, At_, Ahead
  <1> QED BY <1>1, <1>2, <1>3, TablesInvariant, Conversation, PTL DEF Spec

-----------------------------------------------------------------------------
(* The loop implements the service *)

\* Every request has an answer or none, and none ends the process.
Harmless == \A q \in Requests : ~NoAlias(q) /\ Answer(q).ret # "SIGSEGV"

\* Clients send a whole request and wait.
Polite ==
    /\ pc # "dead"
    /\ \A c \in Clients : /\ client[c].whole = TRUE /\ client[c].hung = FALSE
                          /\ \/ client[c].sent = <<>>
                             \/ \E q \in Requests : client[c].sent = <<q>>
    /\ pc = "command" => conn[fd] # Free

place_ == [c \in Clients |-> Place(c)]
asked_ == [c \in Clients |-> client[c].sent]
got_   == [c \in Clients |-> client[c].got]

\* The initial state and the steps of module RewriteService.
Serves == Service!Init /\ [][Service!Next]_<<place_, asked_, got_>>

\* The line of a polite client does not end the daemon.
LEMMA Survives_ ==
  ASSUME IInv, Talk, Polite, Harmless, pc = "command"
  PROVE  /\ ~Fatal(line) /\ conn[fd] \in Clients
         /\ client[conn[fd]].sent = <<line>> /\ line \in Requests
PROOF
  <1>1. conn[fd] \in Clients
    BY DEF IInv, Types, Working, Polite
  <1>2. PICK q \in Requests : client[conn[fd]].sent = <<q>>
    BY <1>1 DEF Talk, Heard, Polite
  <1>3. line = q
    BY <1>1, <1>2 DEF Talk, Heard, Polite
  <1> QED BY <1>1, <1>2, <1>3 DEF Fatal, Harmless, Polite

\* Without faults clients stay polite, and the daemon up.
LEMMA PoliteStep ==
  ASSUME IInv, Talk, Polite, Harmless, Faults = {}, [Next]_vars
  PROVE  Polite'
PROOF
  <1>1. /\ DOMAIN client = Clients /\ \A c \in Clients : DOMAIN client[c] = Keys
        /\ conn \in [Fds -> Clients \cup {Free}]
    BY DEF IInv, Types, Talk, Told
  <1>2. CASE Select \/ EndOfPass \/ AcceptNoFd
    BY <1>2 DEF Select, EndOfPass, AcceptNoFd, At_, Polite
  <1>3. CASE Accept \/ AcceptEinval
    <2>1. pc = "scan" /\ pc' = pc /\ backlog # <<>>
      BY <1>3 DEF Accept, AcceptEinval, At_
    <2>2. Head(backlog) \in Clients
      BY <2>1, Head_
    <2>3. \E x : client' = [client EXCEPT ![Head(backlog)].link = x]
      BY <1>3 DEF Accept, AcceptEinval
    <2> QED BY <1>1, <2>1, <2>2, <2>3 DEF Polite, Keys
  <1>4. ASSUME NEW f \in Fds, ReadLine(f) PROVE Polite'
    BY <1>1, <1>4 DEF ReadLine, Polite, Keys
  <1>5. ASSUME NEW f \in Fds, ReadEof(f) PROVE FALSE
    BY <1>1, <1>5 DEF ReadEof, Polite
  <1>6. CASE Command
    <2>1. pc = "command" /\ pc' = "scan"
      BY <1>6 DEF Command
    <2> DEFINE c == conn[fd]
    <2>2. c \in Clients
      BY <2>1, Survives_
    <2>3. \/ client' = [client EXCEPT ![c].link = "closed"]
          \/ \E v : client' = [[client EXCEPT ![c].link = "closed"]
                                 EXCEPT ![c].got = v]
      BY <1>6, <2>2, ClientsAssumption DEF Command, Closed
    <2> HIDE DEF c
    <2>4. \A d \in Clients : /\ client'[d].whole = client[d].whole
                             /\ client'[d].hung = client[d].hung
                             /\ client'[d].sent = client[d].sent
      <3>1. CASE client' = [client EXCEPT ![c].link = "closed"]
        BY <1>1, <2>2, <3>1 DEF Keys
      <3>2. ASSUME NEW v, client' = [[client EXCEPT ![c].link = "closed"]
                                       EXCEPT ![c].got = v]
            PROVE  \A d \in Clients : /\ client'[d].whole = client[d].whole
                                     /\ client'[d].hung = client[d].hung
                                     /\ client'[d].sent = client[d].sent
        BY <1>1, <2>2, <3>2 DEF Keys
      <3> QED BY <2>3, <3>1, <3>2
    <2> QED BY <2>1, <2>4 DEF Polite
  <1>7. CASE Die
    BY <1>7, Survives_ DEF Die
  <1>8. ASSUME NEW c \in Clients, Connect(c) \/ HangUp(c) \/ Leave(c)
        PROVE  Polite'
    BY <1>1, <1>8 DEF Connect, HangUp, Leave, Polite, Away, Keys, process
  <1>9. ASSUME NEW c \in Clients, Send(c) PROVE Polite'
    <2>1. PICK q \in Requests : client' = [client EXCEPT ![c].sent = <<q>>,
                                                         ![c].pending = <<q>>]
      BY <1>9 DEF Send
    <2>2. /\ client'[c].sent = <<q>> /\ client'[c].whole = client[c].whole
          /\ client'[c].hung = client[c].hung
          /\ \A d \in Clients \ {c} : client'[d] = client[d]
      BY <1>1, <2>1 DEF Keys
    <2> QED BY <1>9, <2>2 DEF Send, Polite, process
  <1>10. CASE UNCHANGED vars
    BY <1>10 DEF vars, process, Polite
  <1> QED BY <1>2, <1>3, <1>4, <1>5, <1>6, <1>7, <1>8, <1>9, <1>10
          DEF Next, Daemon

\* Where a client is, as the service sees it, now and after a step.
LEMMA PlaceIs ==
  ASSUME NEW c \in Clients
  PROVE  /\ client[c].link = "none" => Place(c) = "away"
         /\ client[c].link = "closed" => Place(c) = "gone"
         /\ client[c].link \in {"queued", "open"} => Place(c) = "here"
PROOF
  <1>1. "none" # "closed" /\ "none" # "queued" /\ "none" # "open"
        /\ "closed" # "queued" /\ "closed" # "open"
    OBVIOUS
  <1> QED BY <1>1 DEF Place

LEMMA PlaceIsNext ==
  ASSUME NEW c \in Clients
  PROVE  /\ client'[c].link = "none" => Place(c)' = "away"
         /\ client'[c].link = "closed" => Place(c)' = "gone"
         /\ client'[c].link \in {"queued", "open"} => Place(c)' = "here"
PROOF
  <1>1. "none" # "closed" /\ "none" # "queued" /\ "none" # "open"
        /\ "closed" # "queued" /\ "closed" # "open"
    OBVIOUS
  <1> QED BY <1>1 DEF Place

\* A step that is about one client moves only that one.
LEMMA Seen ==
  ASSUME NEW c \in Clients, \A d \in Clients \ {c} : client'[d] = client[d]
  PROVE  /\ place_' = [place_ EXCEPT ![c] = Place(c)']
         /\ asked_' = [asked_ EXCEPT ![c] = client'[c].sent]
         /\ got_' = [got_ EXCEPT ![c] = client'[c].got]
PROOF
  <1>1. \A d \in Clients \ {c} : Place(d)' = Place(d)
    BY DEF Place
  <1>2. place_' = [place_ EXCEPT ![c] = Place(c)']
    BY <1>1 DEF place_
  <1> QED BY <1>2 DEF asked_, got_

\* Nobody moves when only the daemon's own state changes.
LEMMA Unseen ==
  ASSUME \A d \in Clients : client'[d] = client[d]
  PROVE  UNCHANGED <<place_, asked_, got_>>
PROOF
  <1>1. \A d \in Clients : Place(d)' = Place(d)
    BY DEF Place
  <1> QED BY <1>1 DEF place_, asked_, got_

\* Nor does a client whose place, question and answer stay.
LEMMA Unmoved ==
  ASSUME NEW c \in Clients, \A d \in Clients \ {c} : client'[d] = client[d],
         Place(c)' = Place(c), client'[c].sent = client[c].sent,
         client'[c].got = client[c].got
  PROVE  UNCHANGED <<place_, asked_, got_>>
PROOF
  <1>1. \A d \in Clients \ {c} : Place(d)' = Place(d)
    BY DEF Place
  <1>2. \A d \in Clients : Place(d)' = Place(d)
    BY <1>1
  <1>3. UNCHANGED place_
    BY <1>2 DEF place_
  <1>4. UNCHANGED <<asked_, got_>>
    BY DEF asked_, got_
  <1> QED BY <1>3, <1>4

\* A client comes, asks or goes, and the service sees it.
LEMMA ClientServes ==
  ASSUME IInv, Talk, Polite, Faults = {}, NEW c \in Clients,
         Connect(c) \/ Send(c) \/ HangUp(c) \/ Leave(c)
  PROVE  Service!Next
PROOF
  <1>1. /\ DOMAIN client = Clients /\ DOMAIN client[c] = Keys
        /\ \A d \in Clients \ {c} : client'[d] = client[d]
    BY DEF IInv, Types, Talk, Told, Connect, Send, HangUp, Leave
  <1>2. /\ place_' = [place_ EXCEPT ![c] = Place(c)']
        /\ asked_' = [asked_ EXCEPT ![c] = client'[c].sent]
        /\ got_' = [got_ EXCEPT ![c] = client'[c].got]
    BY <1>1, Seen
  <1>3. /\ place_[c] = Place(c) /\ asked_[c] = client[c].sent
        /\ got_[c] = client[c].got
        /\ asked_ = [asked_ EXCEPT ![c] = client[c].sent]
        /\ got_ = [got_ EXCEPT ![c] = client[c].got]
        /\ place_ = [place_ EXCEPT ![c] = Place(c)]
    BY DEF place_, asked_, got_
  <1>4. CASE Connect(c)
    <2>1. /\ client[c].link = "none" /\ client'[c].link = "queued"
          /\ client'[c].sent = client[c].sent /\ client'[c].got = client[c].got
      BY <1>1, <1>4 DEF Connect, Keys
    <2>2. /\ place_[c] = "away" /\ place_' = [place_ EXCEPT ![c] = "here"]
          /\ UNCHANGED <<asked_, got_>>
      BY <1>2, <1>3, <2>1, PlaceIs, PlaceIsNext
    <2>3. Service!Come(c)
      BY <2>2 DEF Service!Come, Service!Move, place_, asked_, got_
    <2> QED BY <2>3 DEF Service!Next
  <1>5. CASE Leave(c)
    <2>1. /\ client[c].link = "closed" /\ client'[c].link = "none"
          /\ client'[c].sent = <<>> /\ client'[c].got = <<>>
      BY <1>1, <1>5 DEF Leave, Away
    <2>2. /\ place_[c] = "gone" /\ place_' = [place_ EXCEPT ![c] = "away"]
          /\ asked_' = [asked_ EXCEPT ![c] = <<>>]
          /\ got_' = [got_ EXCEPT ![c] = <<>>]
      BY <1>2, <1>3, <2>1, PlaceIs, PlaceIsNext
    <2>3. Service!Again(c)
      BY <2>2 DEF Service!Again, Service!Move, place_, asked_, got_
    <2> QED BY <2>3 DEF Service!Next
  <1>6. CASE Send(c)
    <2>1. PICK q \in Requests : client' = [client EXCEPT ![c].sent = <<q>>,
                                                         ![c].pending = <<q>>]
      BY <1>6 DEF Send
    <2>2. /\ client[c].link \in {"queued", "open"} /\ client[c].sent = <<>>
          /\ client'[c].link = client[c].link /\ client'[c].sent = <<q>>
          /\ client'[c].got = client[c].got
      BY <1>1, <1>6, <2>1 DEF Send, Linked, Keys
    <2>3. Place(c) = "here" /\ Place(c)' = "here"
      BY <2>2, PlaceIs, PlaceIsNext
    <2>4. /\ place_[c] = "here" /\ asked_[c] = <<>>
          /\ asked_' = [asked_ EXCEPT ![c] = <<q>>] /\ UNCHANGED <<place_, got_>>
      BY <1>2, <1>3, <2>2, <2>3
    <2>5. Service!Ask(c, q)
      BY <2>4 DEF Service!Ask, place_, asked_, got_
    <2> QED BY <2>5 DEF Service!Next
  <1> QED BY <1>4, <1>5, <1>6 DEF HangUp

\* A command tells its client; accept() and the loop are unseen.
LEMMA DaemonServes ==
  ASSUME IInv, Talk, Polite, Steady, Harmless, Daemon
  PROVE  Service!Next \/ UNCHANGED <<place_, asked_, got_>>
PROOF
  <1>1. /\ DOMAIN client = Clients /\ \A d \in Clients : DOMAIN client[d] = Keys
        /\ conn \in [Fds -> Clients \cup {Free}]
    BY DEF IInv, Types, Talk, Told
  <1>2. CASE Select \/ EndOfPass \/ AcceptNoFd
    BY <1>2, Unseen DEF Select, EndOfPass, AcceptNoFd
  <1>3. CASE Accept
    <2>1. pc = "scan" /\ backlog # <<>>
      BY <1>3 DEF Accept, At_
    <2>2. PICK c \in Clients : c = Head(backlog) /\ client[c].link = "queued"
      BY <2>1, Head_
    <2>3. client' = [client EXCEPT ![c].link = "open"]
      BY <1>3, <2>2 DEF Accept
    <2>4. /\ \A d \in Clients \ {c} : client'[d] = client[d]
          /\ client'[c].link = "open" /\ client'[c].sent = client[c].sent
          /\ client'[c].got = client[c].got
      BY <1>1, <2>2, <2>3 DEF Keys
    <2>5. Place(c) = "here" /\ Place(c)' = "here"
      BY <2>2, <2>4, PlaceIs, PlaceIsNext
    <2> QED BY <2>2, <2>4, <2>5, Unmoved
  <1>4. CASE AcceptEinval
    BY <1>4 DEF AcceptEinval, Steady
  <1>5. ASSUME NEW f \in Fds, ReadLine(f)
        PROVE  UNCHANGED <<place_, asked_, got_>>
    <2>1. PICK c \in Clients : client' = [client EXCEPT ![c].pending = <<>>]
      BY <1>1, <1>5 DEF ReadLine
    <2>2. /\ \A d \in Clients \ {c} : client'[d] = client[d]
          /\ client'[c].link = client[c].link /\ client'[c].sent = client[c].sent
          /\ client'[c].got = client[c].got
      BY <1>1, <2>1 DEF Keys
    <2>3. Place(c)' = Place(c)
      BY <2>2 DEF Place
    <2> QED BY <2>1, <2>2, <2>3, Unmoved
  <1>6. ASSUME NEW f \in Fds, ReadEof(f) PROVE FALSE
    BY <1>1, <1>6 DEF ReadEof, Polite
  <1>7. CASE Command
    <2>1. pc = "command" /\ fd \in Fds
      BY <1>7 DEF Command, IInv, Working
    <2>2. PICK c \in Clients : /\ c = conn[fd] /\ client[c].sent = <<line>>
                               /\ line \in Requests
      BY <2>1, Survives_
    <2>3. client[c].link = "open" /\ client[c].got = <<>>
      BY <2>1, <2>2 DEF IInv, FdTablesAgree, Talk, Told
    <2>4. PICK q \in Requests : q = line
      BY <2>2
    <2>5. PICK told : told = IF Answer(q).ret = "SRS_SUCCESS"
                             THEN << Answer(q).out >> ELSE <<>>
      OBVIOUS
    <2>6. /\ \A d \in Clients \ {c} : client'[d] = client[d]
          /\ client'[c].link = "closed" /\ client'[c].sent = client[c].sent
          /\ client'[c].got = told
      <3>1. CASE Answer(q).ret = "SRS_SUCCESS"
        <4>1. client' = [[client EXCEPT ![c].link = "closed"]
                            EXCEPT ![c].got = told]
          BY <1>7, <2>2, <2>4, <2>5, <3>1, ClientsAssumption DEF Command, Closed
        <4> QED BY <1>1, <2>2, <4>1 DEF Keys
      <3>2. CASE Answer(q).ret # "SRS_SUCCESS"
        <4>1. client' = [client EXCEPT ![c].link = "closed"]
          BY <1>7, <2>2, <2>4, <3>2, ClientsAssumption DEF Command, Closed
        <4> QED BY <1>1, <2>2, <2>3, <2>5, <3>2, <4>1 DEF Keys
      <3> QED BY <3>1, <3>2
    <2>7. Place(c) = "here" /\ Place(c)' = "gone"
      BY <2>2, <2>3, <2>6, PlaceIs, PlaceIsNext
    <2>8. /\ place_[c] = "here" /\ place_' = [place_ EXCEPT ![c] = "gone"]
          /\ asked_[c] = <<q>> /\ asked_' = asked_
          /\ got_' = [got_ EXCEPT ![c] = told]
      BY <2>2, <2>4, <2>6, <2>7, Seen DEF place_, asked_, got_
    <2>9. told = IF [x \in Requests |-> Answer(x)][asked_[c][1]].ret = "SRS_SUCCESS"
                 THEN << [x \in Requests |-> Answer(x)][asked_[c][1]].out >>
                 ELSE <<>>
      BY <2>4, <2>5, <2>8
    <2>10. Service!Tell(c)
      BY <2>8, <2>9 DEF Service!Tell, Service!Move, place_, asked_, got_
    <2> QED BY <2>10 DEF Service!Next
  <1>8. CASE Die
    BY <1>8, Survives_ DEF Die
  <1> QED BY <1>2, <1>3, <1>4, <1>5, <1>6, <1>7, <1>8 DEF Daemon

\* To clients that send a whole request and wait, the loop of rundaemon() is
\* the service of module RewriteService, for any number of clients, requests,
\* descriptors and connections waiting.
THEOREM ServesClients ==
  ASSUME AddrlenChoices = {"fits"}, Faults = {}, Harmless
  PROVE  Spec => Serves
PROOF
  <1>1. Init => Steady /\ Polite /\ Service!Init
    BY DEF Init, Steady, Polite, Away, Service!Init, Place
  <1>2. IInv /\ Talk /\ Steady /\ Polite /\ [Next]_vars => Steady' /\ Polite'
    BY PoliteStep, DaemonSteady, ClientSteady
       DEF Next, vars, process, Steady, Readable
  <1>3. IInv /\ Talk /\ Steady /\ Polite /\ [Next]_vars
          => [Service!Next]_<<place_, asked_, got_>>
    BY DaemonServes, ClientServes, Unseen DEF Next, vars
  <1> QED BY <1>1, <1>2, <1>3, TablesInvariant, Conversation, PTL
          DEF Spec, Serves
=============================================================================
