------------------------------ MODULE AcceptLoops ------------------------------
(***************************************************************************)
(* Four servers whose main accepts clients in a loop and hands each one to *)
(* a worker of its own:                                                    *)
(*   ps    socket/more_tcp/ps.c     a child that echoes; the parent waits  *)
(*                                  for it                                 *)
(*   s     socket/tcptest/s.c       a child that lets its user answer      *)
(*   s1    socket/tcptest/s1.c      the same in a thread, which gets the   *)
(*                                  address of main's client_sock          *)
(*   t1s   socket/more_tcp/t1s.c    a chat room whose threads get the      *)
(*                                  address of main's clifd                *)
(* The clients are tcptest/c.c for s and s1, which waits for an answer to  *)
(* each line, more_tcp/t1c.c for t1s, and for ps any program that sends    *)
(* lines and reads their echoes.  A worker is named after the client that  *)
(* main was serving when it made it.                                       *)
(***************************************************************************)
EXTENDS Tcp, FiniteSets, FiniteSetsExt

CONSTANTS
  Programs,     \* the servers, of which one runs
  MaxTexts,     \* bound: lines each client sends before its quit
  Rooms         \* numbers of elements clifd_p may have; it has 50

ASSUME LoopAssumption ==
  /\ IsFiniteSet(Clients)
  /\ Programs \subseteq {"ps", "s", "s1", "t1s"}
  /\ MaxTexts \in Nat /\ Rooms \subseteq Nat

FDs == 1..Cardinality(Clients)

VARIABLES
  program,
  client,      \* where each client is
  typed,       \* lines it has sent
  rude,        \* clients that left with something unanswered, or broke
  backlog,     \* connections main has not accepted
  main,        \* where main is; "dead": a signal has ended the process
  fd,          \* the descriptor of each accepted connection, 0 when closed
  sock,        \* newsock, client_sock, clifd
  serving,     \* the client main accepted last
  at,          \* where each worker is
  fdOf,        \* the descriptor it uses: newsock, client_sock, index
  clifd_p,     \* of t1s only
  overtaken    \* workers that had not read their argument when main accepted again

clientVars == <<client, typed, rude>>
mainVars == <<backlog, main, sock, serving, overtaken>>
workerVars == <<fd, at, fdOf, clifd_p>>
vars == <<program, tcpVars, clientVars, mainVars, workerVars>>

Slots == DOMAIN clifd_p

Working == {"read", "ask", "write", "send", "free"}

TypeOK ==
  /\ program \in Programs
  /\ TcpTypeOK({"text", "quit"})
  /\ client \in [Clients -> {"new", "typing", "waiting", "closing", "gone"}]
  /\ typed \in [Clients -> 0..MaxTexts] /\ rude \subseteq Clients
  /\ backlog \in Seq(Clients)
  /\ main \in {"accept", "start", "wait", "dead"}
  /\ fd \in [Clients -> FDs \cup {0}] /\ sock \in FDs \cup {0}
  /\ serving \subseteq Clients /\ Cardinality(serving) <= 1
  /\ at \in [Clients -> {"none", "start", "done"} \cup Working]
  /\ fdOf \in [Clients -> FDs \cup {0}]
  /\ \E r \in Rooms \cup {0} : clifd_p \in [1..r -> FDs \cup {0}]
  /\ overtaken \subseteq Clients

Init ==
  /\ program \in Programs
  /\ TcpInit
  /\ client = [c \in Clients |-> "new"]
  /\ typed = [c \in Clients |-> 0] /\ rude = {}
  /\ backlog = <<>> /\ main = "accept"
  /\ fd = [c \in Clients |-> 0] /\ sock = 0 /\ serving = {}
  /\ at = [c \in Clients |-> "none"] /\ fdOf = [c \in Clients |-> 0]
  /\ \E r \in IF program = "t1s" THEN Rooms ELSE {0} : clifd_p = [i \in 1..r |-> 0]
  /\ overtaken = {}

Goto(w, from, to) == at[w] = from /\ at' = [at EXCEPT ![w] = to]

Move(c, from, to) == client[c] \in from /\ client' = [client EXCEPT ![c] = to]

-----------------------------------------------------------------------------
(* The clients.                                                             *)

Connect(c) ==
  /\ main # "dead" /\ Move(c, {"new"}, "typing")
  /\ backlog' = Append(backlog, c)
  /\ UNCHANGED <<tcpVars, typed, rude, main, sock, serving, overtaken, workerVars>>

Asks == program \in {"s", "s1"}

\* fgets or scanf, and write; on a dead connection it ends the client.
TypeLine(c) ==
  /\ \/ /\ typed[c] < MaxTexts /\ Sent("client", c, "text")
        /\ Move(c, {"typing"}, IF Asks THEN "waiting" ELSE "typing")
        /\ typed' = [typed EXCEPT ![c] = @ + 1]
     \/ /\ Sent("client", c, "quit") /\ Move(c, {"typing"}, "closing")
        /\ UNCHANGED typed
     \/ /\ line["client"][c] = "dead" /\ Move(c, {"typing"}, "gone")
        /\ UNCHANGED <<tcpVars, typed>>
  /\ UNCHANGED <<rude, mainVars, workerVars>>

\* read; c.c and t1c.c look at neither 0 nor -1.
ReadReply(c) ==
  /\ Move(c, IF Asks THEN {"waiting"} ELSE {"typing"}, "typing")
  /\ \/ \E k \in 1..Len(inbox["client"][c]) : Got("client", c, k)
     \/ Ends("client", c) /\ Told("client", c)
  /\ UNCHANGED <<typed, rude, mainVars, workerVars>>

Unanswered(c) == inbox["server"][c] # <<>> \/ at[c] = "write" \/ inbox["client"][c] # <<>>

\* close after a quit; or the user ends the client, or it breaks, at any time.
Leave(c, broken) ==
  /\ Move(c, {"typing", "waiting", "closing"}, "gone")
  /\ Closed("client", {c}, IF broken THEN {c} ELSE {})
  /\ rude' = IF broken \/ Unanswered(c) THEN rude \cup {c} ELSE rude
  /\ UNCHANGED <<inbox, typed, mainVars, workerVars>>

-----------------------------------------------------------------------------
(* main.                                                                    *)

FreeFDs == {f \in FDs : \A c \in Clients : fd[c] # f}

Accept ==
  /\ main = "accept" /\ main' = "start"
  /\ backlog # <<>> /\ backlog' = Tail(backlog)
  /\ \E f \in FreeFDs :
       /\ \A g \in FreeFDs : f <= g
       /\ fd' = [fd EXCEPT ![Head(backlog)] = f]
       /\ sock' = f
  /\ serving' = {Head(backlog)}
  /\ overtaken' = overtaken \cup {w \in Clients : at[w] = "start"}
  /\ UNCHANGED <<tcpVars, clientVars, at, fdOf, clifd_p>>

FreeSlots == {i \in Slots : clifd_p[i] = 0}

\* ps.c, s.c: the child has a descriptor of its own from the start.
Fork ==
  /\ program \in {"ps", "s"}
  /\ main = "start" /\ main' = IF program = "ps" THEN "wait" ELSE "accept"
  /\ \E w \in serving : Goto(w, "none", "read") /\ fdOf' = [fdOf EXCEPT ![w] = sock]
  /\ UNCHANGED clifd_p

(* s1.c, t1s.c; when no element of clifd_p is free, nothing is done at all, for
   `50 == i' is only tested inside the loop.  The search is one step: threads only
   clear elements meanwhile, and which of those free is taken matters to nobody. *)
CreateThread ==
  /\ program \in {"s1", "t1s"}
  /\ main = "start" /\ main' = "accept"
  /\ IF program = "t1s" /\ FreeSlots = {} THEN UNCHANGED <<at, clifd_p>>
     ELSE /\ \E w \in serving : Goto(w, "none", "start")
          /\ clifd_p' = IF program = "t1s" THEN [clifd_p EXCEPT ![Min(FreeSlots)] = sock]
                        ELSE clifd_p
  /\ UNCHANGED fdOf

\* waitpid.
Reap ==
  /\ main = "wait" /\ main' = "accept"
  /\ \A w \in serving : at[w] = "done"
  /\ UNCHANGED <<at, fdOf, clifd_p>>

MainStep ==
  \/ Accept
  \/ /\ Fork \/ CreateThread \/ Reap
     /\ UNCHANGED <<tcpVars, clientVars, fd, backlog, sock, serving, overtaken>>

-----------------------------------------------------------------------------
(* The workers.                                                             *)

Conn(w) == {c \in Clients : fd[c] # 0 /\ fd[c] = fdOf[w]}

LoadArg(w) ==
  /\ Goto(w, "start", IF program = "t1s" THEN "send" ELSE "read")
  /\ fdOf' = [fdOf EXCEPT ![w] = sock]
  /\ UNCHANGED <<tcpVars, fd, clifd_p, mainVars>>

\* s.c and s1.c do not look at what read returns.
ReadLine(w) ==
  /\ Asks /\ Goto(w, "read", "ask")
  /\ \/ Conn(w) = {} /\ UNCHANGED tcpVars
     \/ \E c \in Conn(w) : Got("server", c, 1) \/ (Ends("server", c) /\ Told("server", c))
  /\ UNCHANGED <<fd, fdOf, clifd_p, mainVars>>

\* Seeded fault: the loop goes on after the close.
HangUpGoesOn(w) ==
  /\ Asks /\ Goto(w, "ask", IF program = "s1" THEN "read" ELSE "done")
  /\ IF program = "s1"
     THEN /\ Closed("server", Conn(w), {})
          /\ fd' = [c \in Clients |-> IF c \in Conn(w) THEN 0 ELSE fd[c]]
     ELSE UNCHANGED <<line, fd>>
  /\ UNCHANGED <<inbox, fdOf, clifd_p, mainVars>>

\* Seeded fault: the thread ends without close.
HangUpOpen(w) == Asks /\ Goto(w, "ask", "done") /\ UNCHANGED <<tcpVars, fd, fdOf, clifd_p, mainVars>>

\* In s.c the child takes 0, its own `fd', for the descriptor to close, and then
\* fails to accept; the parent has the connection open as well.
HangUp(w) ==
  /\ Asks /\ Goto(w, "ask", "done")
  /\ IF program = "s1"
     THEN /\ Closed("server", Conn(w), {})
          /\ fd' = [c \in Clients |-> IF c \in Conn(w) THEN 0 ELSE fd[c]]
     ELSE UNCHANGED <<line, fd>>
  /\ UNCHANGED <<inbox, fdOf, clifd_p, mainVars>>

\* SIGPIPE ends the whole process: a child, or a server of threads.
Die(w) ==
  IF program \in {"ps", "s"}
  THEN /\ at' = [at EXCEPT ![w] = "done"]
       /\ fd' = IF program = "ps" THEN [fd EXCEPT ![w] = 0] ELSE fd
       /\ UNCHANGED <<tcpVars, mainVars>>
  ELSE LET waiting == {backlog[i] : i \in 1..Len(backlog)} IN
       /\ at' = [v \in Clients |-> "done"]
       /\ Closed("server", waiting \cup {c \in Clients : fd[c] # 0}, waiting)
       /\ fd' = [c \in Clients |-> 0]
       /\ main' = "dead" /\ backlog' = <<>>
       /\ UNCHANGED <<inbox, sock, serving, overtaken>>

\* fgets on the standard input all workers share, and write.
Answer(w) ==
  /\ at[w] = "ask" /\ Asks
  /\ \/ /\ Goto(w, "ask", "read")
        /\ \/ Conn(w) = {} /\ UNCHANGED tcpVars
           \/ \E c \in Conn(w) : Sent("server", c, "text")
        /\ UNCHANGED <<fd, mainVars>>
     \/ (\E c \in Conn(w) : line["server"][c] = "dead") /\ Die(w)
  /\ UNCHANGED <<fdOf, clifd_p>>

\* Seeded fault: 0 ends the child as well.
ReadEchoAll(w) ==
  /\ program = "ps" /\ at[w] = "read"
  /\ \E c \in Conn(w) :
       \/ /\ \E k \in 1..Len(inbox["server"][c]) : Got("server", c, k)
          /\ Goto(w, "read", "write") /\ UNCHANGED fd
       \/ /\ Ends("server", c) /\ Told("server", c)
          /\ Goto(w, "read", "done") /\ fd' = [fd EXCEPT ![c] = 0]
  /\ UNCHANGED <<fdOf, clifd_p, mainVars>>

\* ps.c: 0 is reported for ever, -1 ends the child.
ReadEcho(w) ==
  /\ program = "ps" /\ at[w] = "read"
  /\ \E c \in Conn(w) :
       \/ /\ \E k \in 1..Len(inbox["server"][c]) : Got("server", c, k)
          /\ Goto(w, "read", "write") /\ UNCHANGED fd
       \/ /\ Ends("server", c) /\ line["server"][c] = "reset" /\ Told("server", c)
          /\ Goto(w, "read", "done") /\ fd' = [fd EXCEPT ![c] = 0]
  /\ UNCHANGED <<fdOf, clifd_p, mainVars>>

Echo(w) ==
  /\ program = "ps" /\ at[w] = "write"
  /\ \E c \in Conn(w) :
       \/ Sent("server", c, "text") /\ Goto(w, "write", "read") /\ UNCHANGED <<fd, mainVars>>
       \/ line["server"][c] = "dead" /\ Die(w)
  /\ UNCHANGED <<fdOf, clifd_p>>

(* t1s.c: buf1 was emptied just before, so that what is sent to every element
   of clifd_p is no bytes; that still takes the error of a reset away from the
   thread that would read it, and raises SIGPIPE after that.  What one element
   does is no matter to another, so the round is one step. *)
SendRound(w) ==
  /\ program = "t1s" /\ at[w] = "send"
  /\ LET all == {c \in Clients : \E i \in Slots : fd[c] # 0 /\ clifd_p[i] = fd[c]} IN
     IF \E c \in all : line["server"][c] = "dead" THEN Die(w)
     ELSE /\ Goto(w, "send", "read")
          /\ line' = [line EXCEPT !["server"] = [c \in Clients |->
               IF c \in all /\ @[c] = "reset" THEN "dead" ELSE @[c]]]
          /\ UNCHANGED <<inbox, fd, mainVars>>
  /\ UNCHANGED <<fdOf, clifd_p>>

\* Only -1 ends the thread.
Recv(w) ==
  /\ program = "t1s"
  /\ \E c \in Conn(w) :
       \/ (\E k \in 1..Len(inbox["server"][c]) : Got("server", c, k)) /\ Goto(w, "read", "send")
       \/ /\ Ends("server", c) /\ Told("server", c)
          /\ Goto(w, "read", IF line["server"][c] = "reset" THEN "free" ELSE "send")
  /\ UNCHANGED <<fd, fdOf, clifd_p, mainVars>>

\* The element is given up; the descriptor stays open.
Free(w) ==
  /\ program = "t1s" /\ Goto(w, "free", "done")
  /\ clifd_p' = LET own == {i \in Slots : clifd_p[i] = fdOf[w]} IN
                IF own = {} THEN clifd_p ELSE [clifd_p EXCEPT ![Min(own)] = 0]
  /\ UNCHANGED <<tcpVars, fd, fdOf, mainVars>>

\* What a worker does without its user.
Runs(w) ==
  /\ \/ LoadArg(w) \/ ReadLine(w) \/ ReadEcho(w) \/ Echo(w)
     \/ SendRound(w) \/ Recv(w) \/ Free(w)
  /\ UNCHANGED clientVars

Attended(w) == (HangUp(w) \/ Answer(w)) /\ UNCHANGED clientVars

-----------------------------------------------------------------------------
Next ==
  \/ /\ \/ MainStep
        \/ \E c \in Clients : Connect(c) \/ TypeLine(c) \/ ReadReply(c) \/ Runs(c) \/ Attended(c)
        \/ \E c \in Clients, broken \in BOOLEAN : Leave(c, broken)
     /\ UNCHANGED program
  \/ UNCHANGED vars     \* users need not type

(* The server's main and workers run, and a client reads what has come; no
   user has to connect, type, answer or leave. *)
Spec ==
  /\ Init /\ [][Next]_vars
  /\ WF_vars(MainStep /\ UNCHANGED program)
  /\ \A c \in Clients : /\ WF_vars(Runs(c) /\ UNCHANGED program)
                        /\ WF_vars(ReadReply(c) /\ UNCHANGED program)

-----------------------------------------------------------------------------
(* As long as main has never accepted another client before a thread had read
   its argument, every worker serves the client it was made for. *)
OwnClient ==
  overtaken = {} => \A w \in Clients : at[w] \in Working => fdOf[w] = fd[w]

Served(c) == \E w \in Clients : at[w] \in Working /\ fdOf[w] = fd[c]

Forgotten(c) ==
  /\ fd[c] # 0 /\ ~Served(c)
  /\ at[c] # "start" /\ ~(main = "start" /\ c \in serving)

(* A connection that nobody serves stays open only in s, whose child has ended
   without closing it; with threads when the thread made for it was overtaken;
   and in t1s when that thread has ended, or the room had been full. *)
ForgottenExplained ==
  \A c \in Clients : Forgotten(c) =>
    CASE program = "ps"  -> FALSE
      [] program = "s"   -> at[c] = "done"
      [] program = "s1"  -> c \in overtaken
      [] program = "t1s" ->
           \/ c \in overtaken \/ at[c] = "done"
           \/ at[c] = "none" /\ Cardinality({w \in Clients : at[w] # "none"}) >= Cardinality(Slots)

(* In ps and t1s a client that has left with everything answered is never
   noticed: a worker comes to its end only after a client that broke or left
   something unanswered. *)
EndsByFailure ==
  program \in {"ps", "t1s"} /\ (\E w \in Clients : at[w] = "done") => rude # {}

\* c waits for an answer, and its worker has ended.
Deserted(c) == client[c] = "waiting" /\ at[c] = "done"

(* When the user of s1 hangs up, or a signal ends ps, t1s or s1, the clients that
   wait for an answer get to know.  Nothing is said of s, where main keeps the
   connection open, nor once a thread was overtaken. *)
DesertedNoticed ==
  (\E c \in Clients : Deserted(c)) ~>
    (\A c \in Clients : ~Deserted(c)) \/ program = "s" \/ overtaken # {}

(* What ps.c says of its parent process: it only listens (ps.c:110), while
   others serve (ps.c:54).  It does not hold: the parent waits in waitpid for as
   long as the child of one client lives. *)
ParentListens == program = "ps" /\ backlog # <<>> ~> backlog = <<>>
=============================================================================
