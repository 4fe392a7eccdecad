------------------------------- MODULE FifoChat -------------------------------
(***************************************************************************)
(* What the chat programs of pid/pipemsg (pls.c, pzs.c, 123.c) have in     *)
(* common: named pipes that are opened, read and written, and the loop     *)
(* around select.  FifoClients says who opens what.                        *)
(***************************************************************************)
EXTENDS Naturals, Sequences, FiniteSets

CONSTANTS
  Procs,       \* the processes
  Casts        \* who runs which program ("none" stays away), and how many
               \* lines (a bound) each user types

Programs == {"pls", "pzs", "123", "none"}

ASSUME FifoAssumption ==
  IsFiniteSet(Procs) /\ Casts \subseteq [program : [Procs -> Programs], lines : Nat]

Fifos == {"fifo1", "fifo2"}
Lines == {"text", "exit"}
Pieces == Lines \cup {"rest"}      \* "rest": a line of which the beginning was read

\* An open call.
OpenCall == [fifo : Fifos, mode : {"read", "read nonblock", "write"}]

VARIABLES
  cast,              \* the cast of this behaviour
  at,                \* where each process is
  todo,              \* its open calls, the one it is in first
  rfd, wfd,          \* the fifos it reads and writes
  pipe,              \* what was written to each fifo and not read
  readers, writers,  \* the processes that have each fifo open
  lines,             \* lines typed in each process
  left,              \* processes whose own user typed exit
  missed             \* processes that read an exit and did not leave for it

fds == <<todo, rfd, wfd>>
user == <<cast, lines, left, missed>>
chatVars == <<at, fds, pipe, readers, writers, user>>

Outside == {"gone", "killed"}

Cast == {p \in Procs : cast.program[p] # "none"}

ChatTypeOK ==
  /\ cast \in Casts
  /\ at \in [Procs -> {"none", "new", "tested", "open", "blocked", "loop", "write", "close rfd",
                       "close wfd"} \cup Outside]
  /\ todo \in [Procs -> Seq(OpenCall)]
  /\ rfd \in [Procs -> Fifos] /\ wfd \in [Procs -> Fifos]
  /\ pipe \in [Fifos -> Seq(Pieces)]
  /\ readers \in [Fifos -> SUBSET Procs] /\ writers \in [Fifos -> SUBSET Procs]
  /\ lines \in [Procs -> 0..cast.lines]
  /\ left \subseteq Procs /\ missed \subseteq Procs
  /\ \A p \in Procs :
       /\ at[p] = "blocked" => todo[p] # <<>>
       /\ at[p] \in {"loop", "write", "close rfd"} <=> p \in readers[rfd[p]] /\ todo[p] = <<>>
       /\ at[p] \in {"loop", "write", "close rfd", "close wfd"} => p \in writers[wfd[p]]

ChatInit ==
  /\ cast \in Casts
  /\ pipe = [f \in Fifos |-> <<>>]
  /\ readers = [f \in Fifos |-> {}] /\ writers = [f \in Fifos |-> {}]
  /\ lines = [p \in Procs |-> 0]
  /\ left = {} /\ missed = {}

-----------------------------------------------------------------------------
(* open.  A process that opens one end waits for the other to be opened,
   unless somebody has it open already or the call is not to wait; by opening
   its end it lets those go on that wait for it.                            *)

Waits(q, f, reading) ==
  /\ at[q] = "blocked" /\ todo[q][1].fifo = f
  /\ (todo[q][1].mode = "write") # reading

AfterOpen(p) == IF Len(todo[p]) = 1 THEN "loop" ELSE "open"

OpenNext(p) ==
  /\ at[p] = "open"
  /\ LET f == todo[p][1].fifo
         reading == todo[p][1].mode # "write"
         partner == IF reading THEN writers[f] ELSE readers[f]
         through == {q \in Procs : Waits(q, f, ~reading)}
                      \cup IF partner # {} \/ todo[p][1].mode = "read nonblock" THEN {p} ELSE {}
     IN /\ readers' = IF reading THEN [readers EXCEPT ![f] = @ \cup {p}] ELSE readers
        /\ writers' = IF reading THEN writers ELSE [writers EXCEPT ![f] = @ \cup {p}]
        /\ at' = [q \in Procs |-> IF q \in through THEN AfterOpen(q)
                                  ELSE IF q = p THEN "blocked" ELSE at[q]]
        /\ todo' = [q \in Procs |-> IF q \in through THEN Tail(todo[q]) ELSE todo[q]]
  /\ UNCHANGED <<rfd, wfd, pipe, user>>

-----------------------------------------------------------------------------
(* The loop.                                                                *)

(* select, and read when the fifo is readable.  The 32 bytes of str hold one
   piece or several, the last of which may be cut; str begins with the first.
   A user who has typed something when select returns is served next, and what
   was read is forgotten. *)
ReadTo(p, end) ==
  /\ at[p] = "loop" /\ pipe[rfd[p]] # <<>>
  /\ LET s == pipe[rfd[p]] IN
     \E k \in 1..Len(s), cut, typed \in BOOLEAN :
       LET rest == SubSeq(s, k + 1, Len(s)) IN
       /\ cut => k > 1
       /\ typed => lines[p] < cast.lines
       /\ pipe' = [pipe EXCEPT ![rfd[p]] = IF cut THEN <<"rest">> \o rest ELSE rest]
       /\ at' = [at EXCEPT ![p] = IF typed THEN "write" ELSE IF s[1] = "exit" THEN end ELSE "loop"]
       /\ missed' = IF (typed \/ s[1] # "exit") /\ \E j \in 1..k : s[j] = "exit"
                    THEN missed \cup {p} ELSE missed
  /\ UNCHANGED <<fds, readers, writers, cast, lines, left>>

\* Seeded fault: only what is typed is compared with "exit".
ReadNoExit(p) == ReadTo(p, "loop")

Read(p) == ReadTo(p, "close rfd")

\* The user has typed something and the fifo is empty, or at its end.
Typed(p) ==
  /\ at[p] = "loop" /\ pipe[rfd[p]] = <<>> /\ lines[p] < cast.lines
  /\ at' = [at EXCEPT ![p] = "write"]
  /\ UNCHANGED <<fds, pipe, readers, writers, user>>

Without(ends, p) == [f \in Fifos |-> ends[f] \ {p}]

\* What is in a fifo nobody has open is lost.
Emptied(r, w) == [f \in Fifos |-> IF r[f] \cup w[f] = {} THEN <<>> ELSE pipe[f]]

\* fgets, write, and the comparison with "exit"; SIGPIPE when nobody reads.
WriteTo(p, ends) ==
  /\ at[p] = "write"
  /\ lines' = [lines EXCEPT ![p] = @ + 1]
  /\ \E line \in Lines :
       \/ /\ readers[wfd[p]] # {}
          /\ pipe' = [pipe EXCEPT ![wfd[p]] = Append(@, line)]
          /\ at' = [at EXCEPT ![p] = IF line \in ends THEN "close rfd" ELSE "loop"]
          /\ left' = IF line = "exit" THEN left \cup {p} ELSE left
          /\ UNCHANGED <<readers, writers>>
       \/ /\ readers[wfd[p]] = {}
          /\ at' = [at EXCEPT ![p] = "killed"]
          /\ readers' = Without(readers, p) /\ writers' = Without(writers, p)
          /\ pipe' = Emptied(readers', writers')
          /\ UNCHANGED left
  /\ UNCHANGED <<fds, cast, missed>>

Write(p) == WriteTo(p, {"exit"})

CloseRfd(p) ==
  /\ at[p] = "close rfd" /\ at' = [at EXCEPT ![p] = "close wfd"]
  /\ readers' = Without(readers, p)
  /\ pipe' = Emptied(readers', writers)
  /\ UNCHANGED <<fds, writers, user>>

\* close(wfd), and the end of the process.
CloseWfd(p) ==
  /\ at[p] = "close wfd" /\ at' = [at EXCEPT ![p] = "gone"]
  /\ writers' = Without(writers, p)
  /\ pipe' = Emptied(readers, writers')
  /\ UNCHANGED <<fds, readers, user>>

\* What a process does without its user.
Runs(p) == OpenNext(p) \/ Read(p) \/ Write(p) \/ CloseRfd(p) \/ CloseWfd(p)

\* Users need not type, nor start 123; at the end of its fifo, a process reads
\* nothing for ever.
Quiet == \A p \in Cast : at[p] \in {"new", "loop", "blocked"} \cup Outside

Chatting(p) == at[p] \in {"loop", "write", "close rfd", "close wfd"} \cup Outside
=============================================================================
