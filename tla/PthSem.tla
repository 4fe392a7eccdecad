-------------------------------- MODULE PthSem --------------------------------
(***************************************************************************)
(* tid/pth_sem.c: a producer pushes Size products on the array buf and     *)
(* posts a semaphore for each; a consumer waits on it and pops.  The       *)
(* last product is the mark 0xab that ends the consumer.  Nothing protects *)
(* idx: an increment is a load and a store, and buf[idx] uses the value    *)
(* idx has at that moment.                                                 *)
(***************************************************************************)
EXTENDS Integers

CONSTANT Size   \* products, and elements of buf: 10

ASSUME SemAssumption == Size \in Nat \ {0}

VARIABLES
  i, idx, buf,
  mysem,
  pp, cp,      \* where the producer and the consumer are
  preg, creg,  \* the value of idx each has loaded
  shown,       \* the products printed, in the elements printed
  popped,      \* times the consumer has gone round
  raced        \* whether a push and a pop ever overlapped

semVars == <<i, idx, buf, mysem, pp, cp, preg, creg, shown, popped, raced>>

(* A product is the i it was made with, Size - 1 being 0xab; an element nothing
   was stored in holds -1.  Elements 0 and Size are used as well: element Size is
   the first past the end, where the program may overwrite anything and the
   model goes on as if it had not. *)
Product == 0..(Size - 1)
Mark == Size - 1
Elements == (-Size)..Size

SemTypeOK ==
  /\ i \in 0..Size /\ idx \in Elements
  /\ buf \in [Elements -> Product \cup {-1}]
  /\ mysem \in 0..Size
  /\ pp \in {"load", "store", "fill", "post", "done"}
  /\ cp \in {"wait", "show", "test", "load", "store", "done"}
  /\ preg \in Elements /\ creg \in Elements
  /\ shown \subseteq Product \cup {-1}
  /\ popped \in 0..Size /\ raced \in BOOLEAN

SemInit ==
  /\ i = 0 /\ idx = 0 /\ buf = [e \in Elements |-> -1]
  /\ mysem = 0
  /\ pp = "load" /\ cp = "wait"
  /\ preg = 0 /\ creg = 0
  /\ shown = {} /\ popped = 0 /\ raced = FALSE

Pushing == pp \in {"store", "fill"}
Popping == cp \in {"show", "test", "load", "store"}
Watch == raced' = (raced \/ (Pushing /\ Popping)')

-----------------------------------------------------------------------------
(* produucer.                                                               *)

Load ==
  /\ pp = "load" /\ pp' = "store"
  /\ preg' = idx
  /\ UNCHANGED <<i, idx, buf, mysem, cp, creg, shown, popped>>

Increment ==
  /\ pp = "store" /\ pp' = "fill"
  /\ idx' = preg + 1
  /\ UNCHANGED <<i, buf, mysem, cp, preg, creg, shown, popped>>

Fill ==
  /\ pp = "fill" /\ pp' = "post"
  /\ buf' = [buf EXCEPT ![idx] = i]
  /\ UNCHANGED <<i, idx, mysem, cp, preg, creg, shown, popped>>

Post ==
  /\ pp = "post"
  /\ mysem' = mysem + 1
  /\ i' = i + 1
  /\ pp' = IF i' < Size THEN "load" ELSE "done"
  /\ UNCHANGED <<idx, buf, cp, preg, creg, shown, popped>>

-----------------------------------------------------------------------------
(* consumer.                                                                *)

SemWait ==
  /\ cp = "wait" /\ mysem > 0 /\ cp' = "show"
  /\ mysem' = mysem - 1
  /\ UNCHANGED <<i, idx, buf, pp, preg, creg, shown, popped>>

\* Seeded fault: the element under the top is printed.
ShowBelow ==
  /\ cp = "show" /\ cp' = "test"
  /\ shown' = shown \cup {buf[idx - 1]}
  /\ UNCHANGED <<i, idx, buf, mysem, pp, preg, creg, popped>>

Show ==
  /\ cp = "show" /\ cp' = "test"
  /\ shown' = shown \cup {buf[idx]}
  /\ UNCHANGED <<i, idx, buf, mysem, pp, preg, creg, popped>>

\* Seeded fault: idx is taken down before the test.
TestNext ==
  /\ cp = "test"
  /\ cp' = IF buf[idx - 1] = Mark THEN "done" ELSE "load"
  /\ UNCHANGED <<i, idx, buf, mysem, pp, preg, creg, shown, popped>>

Test ==
  /\ cp = "test"
  /\ cp' = IF buf[idx] = Mark THEN "done" ELSE "load"
  /\ UNCHANGED <<i, idx, buf, mysem, pp, preg, creg, shown, popped>>

LoadAgain ==
  /\ cp = "load" /\ cp' = "store"
  /\ creg' = idx
  /\ UNCHANGED <<i, idx, buf, mysem, pp, preg, shown, popped>>

\* Seeded fault: idx is not taken down.
DecrementNot ==
  /\ cp = "store" /\ cp' = "wait"
  /\ popped' = popped + 1
  /\ UNCHANGED <<i, idx, buf, mysem, pp, preg, creg, shown>>

Decrement ==
  /\ cp = "store" /\ cp' = "wait"
  /\ idx' = creg - 1
  /\ popped' = popped + 1
  /\ UNCHANGED <<i, buf, mysem, pp, preg, creg, shown>>

-----------------------------------------------------------------------------
SemProducer == (Load \/ Increment \/ Fill \/ Post) /\ Watch
SemConsumer == (SemWait \/ Show \/ Test \/ LoadAgain \/ Decrement) /\ Watch

\* main joins both; the consumer may wait for ever.
Returned == pp = "done" /\ cp = "done"
Hung == pp = "done" /\ cp = "wait" /\ mysem = 0
Stop == (Returned \/ Hung) /\ UNCHANGED semVars

SemNext == SemProducer \/ SemConsumer \/ Stop

SemSpec == SemInit /\ [][SemNext]_semVars /\ WF_semVars(SemProducer) /\ WF_semVars(SemConsumer)

-----------------------------------------------------------------------------
(* As long as no push has overlapped a pop, the stack is sound whenever nobody
   is working on it: its height is the number of products made and not popped,
   and each product not popped is in it once.  A store past the end of buf only
   happens for the last product, when the consumer has popped none. *)
StackExact ==
  ~raced =>
    /\ ~Pushing /\ ~Popping /\ cp # "done" =>
         /\ idx = (IF pp = "post" THEN i + 1 ELSE i) - popped
         /\ -1 \notin {buf[e] : e \in 1..idx}
         /\ \A e, f \in 1..idx : buf[e] = buf[f] => e = f
    /\ pp = "fill" /\ idx > Size - 1 => popped = 0 /\ i = Mark

(* Both threads come to their ends, except that such an overlap may take idx
   down from under the mark and leave the consumer waiting for ever. *)
Ends == <>(Returned \/ (Hung /\ raced))

(* When the program returns without an overlap, what was not printed is what
   still lies below the mark. *)
LeftOver ==
  Returned /\ ~raced => {buf[e] : e \in 1..(idx - 1)} \cup shown = Product /\ -1 \notin shown
=============================================================================
