------------------------------- MODULE Workers -------------------------------
(***************************************************************************)
(* The thread functions under a main that starts one thread at a time and  *)
(* joins it at once, as those of tidpid/procon.c and tidpid/procon1.c do   *)
(* when they are told to; and the counters the threads increment at their  *)
(* end.                                                                    *)
(***************************************************************************)
EXTENDS MsgStack

VARIABLES
  P, C,        \* producers and consumers that have finished
  joined       \* the thread main waits for in pthread_join, or NULL

workerVars == <<stackVars, P, C, joined>>

WorkersTypeOK ==
  /\ TypeOK
  /\ P \in 0..Cardinality(Producers) /\ C \in 0..Cardinality(Consumers)
  /\ joined \in Threads \cup {NULL}

WorkersInit == StackInit /\ P = 0 /\ C = 0 /\ joined = NULL

\* pthread_create.
Start(t) ==
  /\ Create(t)
  /\ joined' = t
  /\ UNCHANGED <<P, C>>

\* Seeded fault: main does not wait for the thread.
NoJoin ==
  /\ joined # NULL
  /\ joined' = NULL
  /\ UNCHANGED <<stackVars, P, C>>

\* pthread_join returns.
Join ==
  /\ joined # NULL /\ pc[joined] = "done"
  /\ joined' = NULL
  /\ UNCHANGED <<stackVars, P, C>>

\* P++ and C++ are the last thing the threads do.
Finished(T) == Cardinality({t \in T : pc'[t] = "done" /\ pc[t] # "done"})

Thread(step) ==
  /\ step
  /\ P' = P + Finished(Producers)
  /\ C' = C + Finished(Consumers)
  /\ UNCHANGED joined

Working == Thread(\/ \E p \in Producers : ProducerStep(p)
                  \/ \E c \in Consumers : ConsumerStep(c))
Spurious == Thread(\E c \in Consumers : SpuriousWakeup(c))

-----------------------------------------------------------------------------
(* A thread runs only while main waits for it in pthread_join: the stack that
   is written for many producers and consumers never has two users, which is
   what makes the unprotected tid_p[P], P++, tid_c[C] and C++ safe. *)
SerialWorkers ==
  \A t \in Threads : pc[t] \notin {"unborn", "done"} => joined = t

\* main waits for a consumer that waits for a product nobody will make.
Starved ==
  /\ joined \in Consumers
  /\ pc[joined] \in {"lock", "test", "wait", "relock"}
  /\ head = NULL

(* `create consumer' with too few products blocks main for good: whatever
   command comes then, even exit, is never read. *)
StarvedForever == [][Starved => Starved']_workerVars

(* Between threads the stack holds exactly the products of the producers that
   no consumer has answered for, N each; and main is starved only when every
   product that was ever made has been consumed. *)
Balance ==
  /\ joined = NULL => Cardinality(InStack) = N * (P - C)
  /\ Starved => N * C + round[joined] = N * P

(* With a finished producer for it, a consumer comes to an end and main is
   back at its commands; so does a producer. *)
ServedIfStocked ==
  joined # NULL /\ (joined \in Consumers => C < P) ~> joined = NULL
=============================================================================
