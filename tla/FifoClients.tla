------------------------------ MODULE FifoClients ------------------------------
(***************************************************************************)
(* The three chat programs of pid/pipemsg over the same two FIFOs.  pls.c  *)
(* and pzs.c have fixed ends: each opens fifo1 first, one to read it and   *)
(* the other to write it.  123.c finds out with a non-blocking open of     *)
(* fifo1 whether another is there to read it; if not, it becomes the       *)
(* reader of fifo1 itself.                                                 *)
(***************************************************************************)
EXTENDS FifoChat

VARIABLES
  role,      \* "first" reads fifo1, "second" writes it, "none" before the test
  raced      \* whether a client made the test before one that was to read
             \* fifo1 had opened it

vars == <<chatVars, role, raced>>

TypeOK ==
  /\ ChatTypeOK
  /\ role \in [Procs -> {"none", "first", "second"}]
  /\ raced \in BOOLEAN

\* Seeded fault: the second reads its fifo2 before it writes fifo1.
OpensSwapped(r, mode) ==
  LET calls == <<[fifo |-> "fifo1", mode |-> IF r = "first" THEN mode ELSE "write"],
                 [fifo |-> "fifo2", mode |-> IF r = "first" THEN "write" ELSE "read"]>>
  IN IF r = "second" THEN <<calls[2], calls[1]>> ELSE calls

\* The open calls of the two ends; `mode' is that in which the first opens fifo1.
Opens(r, mode) ==
  <<[fifo |-> "fifo1", mode |-> IF r = "first" THEN mode ELSE "write"],
    [fifo |-> "fifo2", mode |-> IF r = "first" THEN "write" ELSE "read"]>>

RoleOf(program) == CASE program = "pls" -> "first"
                     [] program = "pzs" -> "second"
                     [] OTHER -> "none"

Init ==
  /\ ChatInit
  /\ role = [p \in Procs |-> RoleOf(cast.program[p])]
  /\ at = [p \in Procs |-> CASE cast.program[p] = "none" -> "none"
                             [] cast.program[p] = "123" -> "new"
                             [] OTHER -> "open"]
  /\ todo = [p \in Procs |-> IF role[p] = "none" THEN <<>> ELSE Opens(role[p], "read")]
  /\ rfd = [p \in Procs |-> IF role[p] = "second" THEN "fifo2" ELSE "fifo1"]
  /\ wfd = [p \in Procs |-> IF role[p] = "second" THEN "fifo1" ELSE "fifo2"]
  /\ raced = FALSE

\* Seeded fault: the test is for a writer.
SomeoneWrites == writers["fifo1"] # {}

\* Seeded fault: `ret==0' for `ret==-1', which is never true.
TestIgnored == TRUE

\* open(FIFO1, O_WRONLY | O_NONBLOCK) succeeds.
SomeoneReads == readers["fifo1"] # {}

(* The descriptor ret of a successful test stays open: the client is a writer
   of fifo1 from then on, and a pls that waits for one goes on. *)
Test(p) ==
  /\ at[p] = "new"
  /\ LET r == IF SomeoneReads THEN "second" ELSE "first"
         through == {q \in Procs : r = "second" /\ Waits(q, "fifo1", TRUE)}
     IN /\ role' = [role EXCEPT ![p] = r]
        /\ at' = [q \in Procs |-> IF q = p THEN "open"
                                  ELSE IF q \in through THEN AfterOpen(q) ELSE at[q]]
        /\ todo' = [q \in Procs |-> IF q = p THEN Opens(r, "read nonblock")
                                    ELSE IF q \in through THEN Tail(todo[q]) ELSE todo[q]]
        /\ rfd' = [rfd EXCEPT ![p] = IF r = "first" THEN "fifo1" ELSE "fifo2"]
        /\ wfd' = [wfd EXCEPT ![p] = IF r = "first" THEN "fifo2" ELSE "fifo1"]
        /\ writers' = IF r = "second" THEN [writers EXCEPT !["fifo1"] = @ \cup {p}] ELSE writers
  /\ raced' = (raced \/ \E q \in Procs : role[q] = "first" /\ at[q] = "open" /\ Len(todo[q]) = 2)
  /\ UNCHANGED <<pipe, readers, user>>

Step(p) ==
  /\ OpenNext(p) \/ Read(p) \/ Typed(p) \/ Write(p) \/ CloseRfd(p) \/ CloseWfd(p)
  /\ UNCHANGED <<role, raced>>

Wait == Quiet /\ UNCHANGED vars

Next == (\E p \in Procs : Test(p) \/ Step(p)) \/ Wait

(* The processes run; nobody has to type, nor to start a 123. *)
Spec ==
  /\ Init /\ [][Next]_vars
  /\ \A p \in Procs : WF_vars(Runs(p) /\ UNCHANGED <<role, raced>>)

\* What goes on between two processes and no third.
Pair(p, q) == p # q /\ Cast = {p, q}

-----------------------------------------------------------------------------
(* When one has taken the first end and another the second, both get to chat,
   unless somebody leaves: their open calls never wait for each other. *)
BothChat ==
  \A p, q \in Procs :
    role[p] = "first" /\ role[q] = "second" ~>
      (Chatting(p) /\ Chatting(q)) \/ \E r \in Procs : at[r] \in Outside

(* When one of two has left, so will the other, except when it read the exit
   behind another line or in the same round as a line of its own user: then it
   stays, and reads the end of the file for ever. *)
BothLeave ==
  \A p, q \in Procs :
    Pair(p, q) /\ at[p] \in Outside ~> at[q] \in Outside \/ q \in missed

(* Unless a client made the test too early, never more than one is reading
   fifo1. *)
OneFirst == ~raced => Cardinality(readers["fifo1"]) <= 1

(* A second 123 is left waiting for fifo1 to be opened only when a client that
   was there at its test has gone before it got to the open. *)
StrandedByDeparture ==
  \A p \in Procs :
    cast.program[p] = "123" /\ role[p] = "second" /\ at[p] = "blocked" /\ Len(todo[p]) = 2 =>
      \E q \in Procs \ {p} : role[q] = "first" /\ at[q] \in {"close wfd"} \cup Outside
=============================================================================
