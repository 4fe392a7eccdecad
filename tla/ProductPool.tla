---------------------------- MODULE ProductPool ----------------------------
(***************************************************************************)
(* What the producer/consumer programs of tid/ and tidpid/ promise, with   *)
(* no threads, pointers, locks or memory: every product is put in the pool *)
(* at most once, leaves it at most once, and is consumed at most once, by  *)
(* the one consumer that took it.                                          *)
(***************************************************************************)
CONSTANT Products

VARIABLES
  pool,      \* products that were produced and that nobody has taken
  held,      \* products a consumer has taken and not yet reported
  consumed   \* products reported as consumed

poolVars == <<pool, held, consumed>>

Fresh(x) == x \notin pool \cup held \cup consumed

Init == pool = {} /\ held = {} /\ consumed = {}

Put(x) ==
  /\ Fresh(x)
  /\ pool' = pool \cup {x}
  /\ UNCHANGED <<held, consumed>>

Get(x) ==
  /\ x \in pool
  /\ pool' = pool \ {x}
  /\ held' = held \cup {x}
  /\ UNCHANGED consumed

Consume(x) ==
  /\ x \in held
  /\ held' = held \ {x}
  /\ consumed' = consumed \cup {x}
  /\ UNCHANGED pool

Next == \E x \in Products : Put(x) \/ Get(x) \/ Consume(x)

Spec == Init /\ [][Next]_poolVars
=============================================================================
