------------------------------ MODULE ProdCons ------------------------------
(***************************************************************************)
(* The program tid/prod_cons.c: main starts one producer and one consumer, *)
(* joins the producer, then the consumer, and returns.                     *)
(***************************************************************************)
EXTENDS MsgStack

CONSTANTS
  pt, ct    \* the two threads, named as in main

ASSUME MainAssumption == Producers = {pt} /\ Consumers = {ct}

VARIABLE main   \* where main is

vars == <<stackVars, main>>

MainPC == {"create_pt", "create_ct", "join_pt", "join_ct", "returned"}

Init == StackInit /\ main = "create_pt"

MainGoto(from, to) == main = from /\ main' = to

CreateThread(t, from, to) == MainGoto(from, to) /\ Create(t)

\* Seeded fault: the consumer is not joined before main returns.
JoinNobody(t, from, to) == MainGoto(from, to) /\ UNCHANGED stackVars

\* pthread_join returns once the thread function has returned.
JoinThread(t, from, to) ==
  /\ MainGoto(from, to)
  /\ pc[t] = "done"
  /\ UNCHANGED stackVars

MainStep ==
  \/ CreateThread(pt, "create_pt", "create_ct")
  \/ CreateThread(ct, "create_ct", "join_pt")
  \/ JoinThread(pt, "join_pt", "join_ct")
  \/ JoinThread(ct, "join_ct", "returned")

Running == main # "returned"

\* The process ends when main returns, and its threads with it.
ProdConsNext ==
  \/ MainStep
  \/ Running /\ ThreadStep /\ UNCHANGED main
  \/ ~Running /\ UNCHANGED vars

ProducerRuns == Running /\ ProducerStep(pt) /\ UNCHANGED main
ConsumerRuns == Running /\ ConsumerStep(ct) /\ UNCHANGED main
ProducerLocks == Running /\ Acquire(pt) /\ UNCHANGED main

(* The scheduler runs every runnable thread: weak fairness.  The consumer can
   wake spuriously, lock, test and wait again for ever, so that the mutex is
   free only now and then; the mutex then does not for ever refuse the
   producer: strong fairness of that one step.  Nothing is assumed of
   spurious wakeups themselves. *)
ProdConsSpec ==
  /\ Init /\ [][ProdConsNext]_vars
  /\ WF_vars(MainStep) /\ WF_vars(ProducerRuns) /\ WF_vars(ConsumerRuns)
  /\ SF_vars(ProducerLocks)

-----------------------------------------------------------------------------
(* When main returns nothing is left over: every product made was consumed,
   every node was freed and the mutex is free. *)
NothingLeftOver ==
  ~Running => /\ consumed = Products
              /\ allocated = {}
              /\ head = NULL /\ lock = NULL

(* main always gets there: neither thread sleeps for ever on the condition
   variable or the mutex. *)
Termination == <>(main = "returned")

-----------------------------------------------------------------------------
(* What makes NothingLeftOver inductive, together with IInv: main joins only
   threads that are done, and the consumer has reported as many different
   products as it has completed rounds. *)
ConsumedNow == IF pc[ct] \in {"free", "sleep"} THEN round[ct] + 1 ELSE round[ct]

MainInv ==
  /\ main \in MainPC
  /\ main \in {"join_ct", "returned"} => pc[pt] = "done"
  /\ main = "returned" => pc[ct] = "done"
  /\ pc[ct] = "done" => round[ct] = N
  /\ IsFiniteSet(consumed) /\ Cardinality(consumed) = ConsumedNow
=============================================================================
