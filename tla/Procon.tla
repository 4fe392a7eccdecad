-------------------------------- MODULE Procon --------------------------------
(***************************************************************************)
(* tidpid/procon.c and tidpid/admin.c: two processes and two FIFOs.  The   *)
(* admin sends the lines its user types down fifo1; procon reads them,     *)
(* starts the thread functions on request and answers the rest on fifo2.   *)
(* A read takes up to 32 bytes, so it takes all the commands that are      *)
(* waiting; the user is bounded so that never more than two are.           *)
(***************************************************************************)
EXTENDS Workers, Sequences

CONSTANTS
  Quota        \* bound: how often the user types each command

\* "query" is delete, list producer, list consumer or no command at all: each is
\* answered with one message, and the admin looks at none.
Commands == {"create producer", "create consumer", "exit", "query"}
MaxPending == 2   \* bound: two commands fill the 32 bytes of str

ASSUME ProconAssumption ==
  /\ IsFiniteSet(Producers) /\ IsFiniteSet(Consumers)
  /\ Quota \in [Commands -> Nat]
  /\ Quota["create producer"] <= Cardinality(Producers)
  /\ Quota["create consumer"] <= Cardinality(Consumers)

VARIABLES
  procon,      \* where main of procon is
  admin,       \* where main of admin is
  fifo1,       \* commands not read yet
  replies,     \* answers on fifo2 not read yet
  typed        \* how often each command was typed

mainVars == <<procon, admin, fifo1, replies, typed>>
proconVars == <<workerVars, mainVars>>

Opens == {"open fifo1", "open fifo2"}
ProconPC == Opens \cup {"select", "reply", "reply, exit", "join", "dead"}
AdminPC == Opens \cup {"loop", "exiting", "rfd closed", "gone"}

ProconTypeOK ==
  /\ WorkersTypeOK
  /\ procon \in ProconPC /\ admin \in AdminPC
  /\ procon = "join" <=> joined # NULL
  /\ fifo1 \in Seq(Commands) /\ Len(fifo1) <= MaxPending
  /\ replies \in Nat
  /\ typed \in [Commands -> Nat]

ProconInit ==
  /\ WorkersInit
  /\ procon = "open fifo1" /\ admin = "open fifo1"
  /\ fifo1 = <<>> /\ replies = 0
  /\ typed = [k \in Commands |-> 0]

AdminReads == admin \in {"loop", "exiting"}                  \* fifo2 has a reader
AdminWrites == admin \in {"loop", "exiting", "rfd closed"}   \* fifo1 has a writer

-----------------------------------------------------------------------------
(* Opening a FIFO blocks until the other end is opened as well.             *)

AfterOpen(at, loop) == IF at = "open fifo1" THEN "open fifo2" ELSE loop

Open ==
  /\ procon \in Opens /\ admin = procon
  /\ procon' = AfterOpen(procon, "select")
  /\ admin' = AfterOpen(admin, "loop")
  /\ UNCHANGED <<workerVars, fifo1, replies, typed>>

-----------------------------------------------------------------------------
(* admin.                                                                   *)

\* fgets, write: with no reader on fifo1 the write kills the admin.
Type(k) ==
  /\ admin = "loop"
  /\ typed[k] < Quota[k]
  /\ typed' = [typed EXCEPT ![k] = @ + 1]
  /\ \/ /\ procon # "dead"
        /\ Len(fifo1) < MaxPending
        /\ fifo1' = Append(fifo1, k)
        /\ admin' = IF k = "exit" THEN "exiting" ELSE "loop"
     \/ /\ procon = "dead"
        /\ admin' = "gone"
        /\ UNCHANGED fifo1
  /\ UNCHANGED <<workerVars, procon, replies>>

\* One read takes two answers, or more when they are short.
AdminRead ==
  /\ admin = "loop"
  /\ \E left \in 0..(replies - 1) :
       /\ replies <= 2 => left = 0
       /\ replies' = left
  /\ UNCHANGED <<workerVars, procon, admin, fifo1, typed>>

AdminClose ==
  /\ \/ admin = "exiting" /\ admin' = "rfd closed"
     \/ admin = "rfd closed" /\ admin' = "gone"
  /\ UNCHANGED <<workerVars, procon, fifo1, replies, typed>>

-----------------------------------------------------------------------------
(* main of procon.                                                          *)

FifoReadable == fifo1 # <<>> \/ ~AdminWrites

(* A command that is to start a thread: strcmp compares all of str. *)
ReadCreate ==
  /\ procon = "select"
  /\ \E k \in {"create producer", "create consumer"} :
     \E t \in IF k = "create producer" THEN Producers ELSE Consumers :
       /\ fifo1 = <<k>>
       /\ Start(t)
  /\ procon' = "join"
  /\ fifo1' = <<>>
  /\ UNCHANGED <<admin, replies, typed>>

(* Everything else is answered: delete with `failed', list with a number, and
   whatever equals no command with `Unknown Command'.  Two commands read
   together equal none, nor does the empty str read at the end of the file. *)
ReadOther ==
  /\ procon = "select"
  /\ FifoReadable
  /\ fifo1 \notin {<<"create producer">>, <<"create consumer">>}
  /\ procon' = IF fifo1 # <<>> /\ fifo1[1] = "exit" THEN "reply, exit" ELSE "reply"
  /\ fifo1' = <<>>
  /\ UNCHANGED <<workerVars, admin, replies, typed>>

\* Seeded fault: SIGPIPE is ignored.
ReplyNoSigpipe ==
  /\ procon \in {"reply", "reply, exit"}
  /\ procon' = IF procon = "reply, exit" THEN "dead" ELSE "select"
  /\ replies' = IF AdminReads THEN replies + 1 ELSE replies
  /\ UNCHANGED <<workerVars, admin, fifo1, typed>>

\* With no reader on fifo2 the write kills procon.
Reply ==
  /\ procon \in {"reply", "reply, exit"}
  /\ procon' = IF procon = "reply, exit" \/ ~AdminReads THEN "dead" ELSE "select"
  /\ replies' = IF AdminReads THEN replies + 1 ELSE replies
  /\ UNCHANGED <<workerVars, admin, fifo1, typed>>

ProconJoin ==
  /\ procon = "join" /\ procon' = "select"
  /\ Join
  /\ UNCHANGED <<admin, fifo1, replies, typed>>

ProconMain == ReadCreate \/ ReadOther \/ Reply \/ ProconJoin

\* The threads run as long as the process does.
ThreadsRun == procon # "dead" /\ Working /\ UNCHANGED mainVars
ThreadsWake == procon # "dead" /\ Spurious /\ UNCHANGED mainVars

\* select times out after five seconds, or finds only what is not read.
Idle ==
  /\ procon \in {"select", "dead"} \/ admin = "loop"
  /\ UNCHANGED proconVars

ProconNext ==
  \/ Open
  \/ (\E k \in Commands : Type(k)) \/ AdminRead \/ AdminClose
  \/ ProconMain
  \/ ThreadsRun \/ ThreadsWake
  \/ Idle

(* Both processes and the threads are scheduled fairly.  The user need not
   type anything, and nothing is assumed of spurious wakeups. *)
ProconSpec ==
  /\ ProconInit /\ [][ProconNext]_proconVars
  /\ WF_proconVars(Open) /\ WF_proconVars(AdminRead) /\ WF_proconVars(AdminClose)
  /\ WF_proconVars(ProconMain) /\ WF_proconVars(ThreadsRun)

-----------------------------------------------------------------------------
(* After exit both processes end, even when exit was read together with
   another command and so not recognised; only a starved procon remains. *)
ExitEnds == admin = "exiting" ~> admin = "gone" /\ (procon = "dead" \/ Starved)
=============================================================================
