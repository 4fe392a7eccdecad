------------------------------- MODULE Procon1 -------------------------------
(***************************************************************************)
(* tidpid/procon1.c and tidpid/admin1.c: the request and reply variant of  *)
(* procon.c.  The admin waits for an answer after each command, but not    *)
(* every command has exactly one: a list has as many as there are threads. *)
(* Commands are numbered, and an answer is the number of the command it    *)
(* answers.                                                                *)
(***************************************************************************)
EXTENDS Workers, Sequences

CONSTANT MaxAsked   \* bound: commands the user types

ASSUME Procon1Assumption ==
  IsFiniteSet(Producers) /\ IsFiniteSet(Consumers) /\ MaxAsked \in Nat

Creates == {"create producer", "create consumer"}
Lists == {"list producer", "list consumer"}
(* "exiting" is a line that begins with exit and goes on, which admin1 takes for
   exit and procon1 does not; "other" is delete, or none of these. *)
Commands == Creates \cup Lists \cup {"exit", "exiting", "other"}

VARIABLES
  procon,      \* where main of procon1 is
  admin,       \* where main of admin1 is
  fifo1,       \* commands not read yet
  fifo2,       \* answers not read yet
  asked,       \* the last command of the admin, and its number
  now,         \* the number of the command procon1 is answering
  owed         \* answers to it not written yet

mainVars == <<procon, admin, fifo1, fifo2, asked, now, owed>>
vars == <<workerVars, mainVars>>

Opens == {"open fifo1", "open fifo2"}
Request == [n : 0..MaxAsked, k : Commands]

Procon1TypeOK ==
  /\ WorkersTypeOK
  /\ procon \in Opens \cup {"read", "write", "join", "dead"}
  /\ admin \in Opens \cup {"type", "wait", "gone"}
  /\ procon = "join" => joined # NULL
  /\ fifo1 \in Seq(Request) /\ fifo2 \in Seq(1..MaxAsked)
  /\ asked \in Request /\ now \in 0..MaxAsked
  /\ owed \in Nat /\ (procon = "write" => owed > 0)

Init ==
  /\ WorkersInit
  /\ procon = "open fifo1" /\ admin = "open fifo1"
  /\ fifo1 = <<>> /\ fifo2 = <<>>
  /\ asked = [n |-> 0, k |-> "other"]
  /\ now = 0 /\ owed = 0

\* Each open waits for the other process to open the same FIFO.
Open ==
  /\ procon \in Opens /\ admin = procon
  /\ procon' = IF procon = "open fifo1" THEN "open fifo2" ELSE "read"
  /\ admin' = IF admin = "open fifo1" THEN "open fifo2" ELSE "type"
  /\ UNCHANGED <<workerVars, fifo1, fifo2, asked, now, owed>>

-----------------------------------------------------------------------------
(* admin1.                                                                  *)

Kind(k) == IF k = "create producer" THEN Producers ELSE Consumers

\* Bound: a thread is left for every create command.
CanCreate(k) ==
  Cardinality({i \in 1..Len(fifo1) : fifo1[i].k = k})
    < Cardinality({t \in Kind(k) : pc[t] = "unborn"})

\* fgets and write: with no reader on fifo1 the write kills the admin.
Type(k) ==
  /\ admin = "type" /\ asked.n < MaxAsked
  /\ k \in Creates => CanCreate(k)
  /\ asked' = [n |-> asked.n + 1, k |-> k]
  /\ IF procon = "dead" THEN admin' = "gone" /\ UNCHANGED fifo1
                        ELSE admin' = "wait" /\ fifo1' = Append(fifo1, asked')
  /\ UNCHANGED <<workerVars, procon, fifo2, now, owed>>

\* What admin1 leaves on: it compares four characters.
Leaves == {"exit", "exiting"}

\* read blocks until there is an answer or procon1 is gone, and takes all there is.
AdminRead ==
  /\ admin = "wait"
  /\ fifo2 # <<>> \/ procon = "dead"
  /\ admin' = IF asked.k \in Leaves THEN "gone" ELSE "type"
  /\ fifo2' = <<>>
  /\ UNCHANGED <<workerVars, procon, fifo1, asked, now, owed>>

-----------------------------------------------------------------------------
(* main of procon1.                                                         *)

\* Seeded fault: `i <= P' in the loops of list.
AnswersOneMore(k) ==
  CASE k = "list producer" -> P + 1 [] k = "list consumer" -> C + 1 [] OTHER -> 1

\* Seeded fault: an unknown command is ignored.
AnswersKnown(k) ==
  CASE k = "list producer" -> P [] k = "list consumer" -> C [] k = "other" -> 0 [] OTHER -> 1

\* How many messages answer a command.
Answers(k) ==
  CASE k = "list producer" -> P [] k = "list consumer" -> C [] OTHER -> 1

\* Seeded fault: the newline is left out of "exit\n".
ReceivedNotExit ==
  IF Len(fifo1) = 1 /\ fifo1[1].k # "exit" THEN fifo1[1].k ELSE "other"

\* All that is in fifo1 is one string: two commands in it equal none.
Received == IF Len(fifo1) = 1 THEN fifo1[1].k ELSE "other"

Take1 ==
  /\ procon = "read" /\ fifo1 # <<>>
  /\ fifo1' = <<>>
  /\ now' = fifo1[Len(fifo1)].n
  /\ UNCHANGED <<admin, fifo2, asked>>

\* pthread_create comes first, then the answer, and then the join.
ReadCreate ==
  /\ Take1
  /\ Received \in Creates
  /\ \E t \in Kind(Received) : Start(t)
  /\ procon' = "write" /\ owed' = 1

ReadOther ==
  /\ Take1
  /\ Received \notin Creates \cup {"exit"}
  /\ owed' = Answers(Received)
  /\ procon' = IF owed' = 0 THEN "read" ELSE "write"
  /\ UNCHANGED workerVars

ReadExit ==
  /\ Take1
  /\ Received = "exit"
  /\ procon' = "dead"
  /\ UNCHANGED <<workerVars, owed>>

\* With no reader on fifo2 the write kills procon1.
Write ==
  /\ procon = "write"
  /\ IF admin = "gone" THEN procon' = "dead" /\ UNCHANGED <<fifo2, owed>>
     ELSE /\ fifo2' = Append(fifo2, now)
          /\ owed' = owed - 1
          /\ procon' = IF owed' > 0 THEN "write" ELSE IF joined = NULL THEN "read" ELSE "join"
  /\ UNCHANGED <<workerVars, admin, fifo1, asked, now>>

JoinThread ==
  /\ procon = "join" /\ procon' = "read"
  /\ Join
  /\ UNCHANGED <<admin, fifo1, fifo2, asked, now, owed>>

ProconMain == ReadCreate \/ ReadOther \/ ReadExit \/ Write \/ JoinThread

ThreadsRun == procon # "dead" /\ Working /\ UNCHANGED mainVars
ThreadsWake == procon # "dead" /\ Spurious /\ UNCHANGED mainVars

Hung == admin = "wait" /\ procon = "read" /\ fifo1 = <<>> /\ fifo2 = <<>>

\* The user waits; both processes wait in read; or the admin has gone, and the
\* read of procon1 returns 0 for ever.
Idle == (admin \in {"type", "gone"} \/ Hung) /\ UNCHANGED vars

Procon1Next ==
  \/ Open
  \/ (\E k \in Commands : Type(k)) \/ AdminRead
  \/ ProconMain
  \/ ThreadsRun \/ ThreadsWake
  \/ Idle

(* As in Procon: processes and threads run, the user is free. *)
Procon1Spec ==
  /\ Init /\ [][Procon1Next]_vars
  /\ WF_vars(Open) /\ WF_vars(AdminRead) /\ WF_vars(ProconMain) /\ WF_vars(ThreadsRun)

-----------------------------------------------------------------------------
\* No list has had two threads to name.
OneEach == P <= 1 /\ C <= 1

(* Until two producers or two consumers have finished, the admin and procon1
   stay in phase: what it is about to read is the answer to its last command,
   and nothing is left over when it has read. *)
InPhase ==
  OneEach =>
    /\ \A i \in 1..Len(fifo2) : fifo2[i] = asked.n
    /\ admin = "type" => fifo1 = <<>> /\ fifo2 = <<>>

(* Each process waits in read for the other.  In phase, this is always a list
   of threads of which none has finished, so that it has no answer. *)
HungExplained ==
  Hung /\ OneEach =>
    \/ asked.k = "list producer" /\ P = 0
    \/ asked.k = "list consumer" /\ C = 0

(* It is a deadlock: nothing ever happens again. *)
HungForever == [][Hung => Hung']_vars

(* In every other case the admin gets an answer, unless procon1 waits for a
   consumer that has nothing to consume. *)
AnswerComes == admin = "wait" ~> admin # "wait" \/ Hung \/ Starved

(* exit ends both; out of phase, it may be read together with another command,
   not be recognised and leave procon1 reading an empty fifo for ever.  A line
   that only begins with exit ends the admin alone: in phase, procon1 is sure to
   be left so. *)
ExitEnds ==
  /\ asked.k = "exit" ~> (admin = "gone" /\ (procon = "dead" \/ ~OneEach)) \/ Starved
  /\ asked.k = "exiting" ~>
       (admin = "gone" /\ []((procon = "read" /\ fifo1 = <<>>) \/ ~OneEach)) \/ Starved
=============================================================================
