------------------------------ MODULE MsgStack ------------------------------
(***************************************************************************)
(* The thread functions producer() and consumer() and the stack of malloc'd *)
(* messages they share.  The same code stands in tid/prod_cons.c, in        *)
(* tidpid/procon.c and in tidpid/procon1.c; the lines mapped are those of   *)
(* tid/prod_cons.c.  Which threads exist, and when, is decided by the main  *)
(* function of each program: ProdCons and Procon restrict Create.           *)
(*                                                                          *)
(* A step is one access to shared state: a mutex or condition variable      *)
(* call, a read or write of head, next or num, malloc or free.  The random  *)
(* number in num stands for the identity of the product, so that consuming  *)
(* one twice, or losing one, can be told.                                   *)
(***************************************************************************)
EXTENDS Naturals, FiniteSets

CONSTANTS
  Producers,   \* threads that run producer()
  Consumers,   \* threads that run consumer()
  Nodes,       \* addresses malloc may return
  N,           \* rounds of each loop; the code has 5
  NULL         \* the null pointer, and the owner of a free mutex

Threads == Producers \cup Consumers
Products == Producers \X (1..N)
Pointers == Nodes \cup {NULL}

ASSUME StackAssumption ==
  /\ Producers \cap Consumers = {}
  /\ IsFiniteSet(Nodes)
  /\ N \in Nat \ {0}
  /\ NULL \notin Nodes \cup Threads

VARIABLES
  pc,          \* where each thread is
  round,       \* the loop counter i of each thread, from 0
  mp,          \* the local pointer mp of each thread
  head,        \* top of the stack
  next, num,   \* the two fields of struct msg, per address
  allocated,   \* addresses malloc returned and free has not taken back
  lock,        \* owner of the mutex, NULL when it is free
  consumed     \* products printed by a consumer

stackVars == <<pc, round, mp, head, next, num, allocated, lock, consumed>>

ProducerPC == {"unborn", "malloc", "lock", "link", "push", "unlock",
               "signal", "sleep", "done"}
ConsumerPC == {"unborn", "lock", "test", "wait", "relock", "take", "pop",
               "unlock", "print", "free", "sleep", "done"}

TypeOK ==
  /\ pc \in [Threads -> ProducerPC \cup ConsumerPC]
  /\ \A p \in Producers : pc[p] \in ProducerPC
  /\ \A c \in Consumers : pc[c] \in ConsumerPC
  /\ round \in [Threads -> 0..N]
  /\ mp \in [Threads -> Pointers]
  /\ head \in Pointers
  /\ next \in [Nodes -> Pointers]
  /\ num \in [Nodes -> Products \cup {NULL}]
  /\ allocated \in SUBSET Nodes
  /\ lock \in Threads \cup {NULL}
  /\ consumed \in SUBSET Products

StackInit ==
  /\ pc = [t \in Threads |-> "unborn"]
  /\ round = [t \in Threads |-> 0]
  /\ mp = [t \in Threads |-> NULL]
  /\ head = NULL
  /\ next = [n \in Nodes |-> NULL]
  /\ num = [n \in Nodes |-> NULL]
  /\ allocated = {}
  /\ lock = NULL
  /\ consumed = {}

Goto(t, from, to) ==
  /\ pc[t] = from
  /\ pc' = [pc EXCEPT ![t] = to]

LoopStart(t) == IF t \in Producers THEN "malloc" ELSE "lock"

-----------------------------------------------------------------------------
(* Steps of both thread functions.                                          *)

Create(t) ==
  /\ Goto(t, "unborn", LoopStart(t))
  /\ UNCHANGED <<round, mp, head, next, num, allocated, lock, consumed>>

Acquire(t) ==
  /\ Goto(t, "lock", IF t \in Producers THEN "link" ELSE "test")
  /\ lock = NULL
  /\ lock' = t
  /\ UNCHANGED <<round, mp, head, next, num, allocated, consumed>>

\* Seeded fault: the mutex is never given back.
ForgetUnlock(t) ==
  /\ Goto(t, "unlock", IF t \in Producers THEN "signal" ELSE "print")
  /\ UNCHANGED <<round, mp, head, next, num, allocated, lock, consumed>>

Unlock(t) ==
  /\ Goto(t, "unlock", IF t \in Producers THEN "signal" ELSE "print")
  /\ lock' = NULL
  /\ UNCHANGED <<round, mp, head, next, num, allocated, consumed>>

NextRound(t) ==
  /\ Goto(t, "sleep", IF round[t] + 1 = N THEN "done" ELSE LoopStart(t))
  /\ round' = [round EXCEPT ![t] = @ + 1]
  /\ UNCHANGED <<mp, head, next, num, allocated, lock, consumed>>

-----------------------------------------------------------------------------
(* Steps of producer().                                                     *)

Malloc(p) ==
  /\ Goto(p, "malloc", "lock")
  /\ \E n \in Nodes \ allocated :
       /\ mp' = [mp EXCEPT ![p] = n]
       /\ num' = [num EXCEPT ![n] = <<p, round[p] + 1>>]
       /\ allocated' = allocated \cup {n}
  /\ UNCHANGED <<round, head, next, lock, consumed>>

Link(p) ==
  /\ Goto(p, "link", "push")
  /\ next' = [next EXCEPT ![mp[p]] = head]
  /\ UNCHANGED <<round, mp, head, num, allocated, lock, consumed>>

Push(p) ==
  /\ Goto(p, "push", "unlock")
  /\ head' = mp[p]
  /\ UNCHANGED <<round, mp, next, num, allocated, lock, consumed>>

Waiting == {c \in Consumers : pc[c] = "wait"}

\* Seeded fault: the consumer is not told of the product.
NoSignal(p) ==
  /\ Goto(p, "signal", "sleep")
  /\ UNCHANGED <<round, mp, head, next, num, allocated, lock, consumed>>

Signal(p) ==
  /\ pc[p] = "signal"
  /\ \/ /\ Waiting = {}
        /\ pc' = [pc EXCEPT ![p] = "sleep"]
     \/ \E c \in Waiting : pc' = [pc EXCEPT ![p] = "sleep", ![c] = "relock"]
  /\ UNCHANGED <<round, mp, head, next, num, allocated, lock, consumed>>

-----------------------------------------------------------------------------
(* Steps of consumer().                                                     *)

TestNonEmpty(c) ==
  /\ Goto(c, "test", "take")
  /\ head # NULL
  /\ UNCHANGED <<round, mp, head, next, num, allocated, lock, consumed>>

\* pthread_cond_wait: enter the wait and release the mutex in one step.
Wait(c) ==
  /\ Goto(c, "test", "wait")
  /\ head = NULL
  /\ lock' = NULL
  /\ UNCHANGED <<round, mp, head, next, num, allocated, consumed>>

\* POSIX lets pthread_cond_wait return without a signal.
SpuriousWakeup(c) ==
  /\ Goto(c, "wait", "relock")
  /\ UNCHANGED <<round, mp, head, next, num, allocated, lock, consumed>>

\* Seeded fault: `if` for `while', the predicate is not tested again.
ReacquireNoTest(c) ==
  /\ Goto(c, "relock", "take")
  /\ lock = NULL
  /\ lock' = c
  /\ UNCHANGED <<round, mp, head, next, num, allocated, consumed>>

\* pthread_cond_wait returns with the mutex held; the loop tests again.
Reacquire(c) ==
  /\ Goto(c, "relock", "test")
  /\ lock = NULL
  /\ lock' = c
  /\ UNCHANGED <<round, mp, head, next, num, allocated, consumed>>

Take(c) ==
  /\ Goto(c, "take", "pop")
  /\ mp' = [mp EXCEPT ![c] = head]
  /\ UNCHANGED <<round, head, next, num, allocated, lock, consumed>>

\* Seeded fault: the rest of the stack is forgotten.
PopAll(c) ==
  /\ Goto(c, "pop", "unlock")
  /\ head' = NULL
  /\ UNCHANGED <<round, mp, next, num, allocated, lock, consumed>>

\* Seeded fault: the node stays on the stack.
PopNot(c) ==
  /\ Goto(c, "pop", "unlock")
  /\ UNCHANGED <<round, mp, head, next, num, allocated, lock, consumed>>

Pop(c) ==
  /\ Goto(c, "pop", "unlock")
  /\ head' = next[mp[c]]
  /\ UNCHANGED <<round, mp, next, num, allocated, lock, consumed>>

Report(c) ==
  /\ Goto(c, "print", "free")
  /\ consumed' = consumed \cup {num[mp[c]]}
  /\ UNCHANGED <<round, mp, head, next, num, allocated, lock>>

Free(c) ==
  /\ Goto(c, "free", "sleep")
  /\ allocated' = allocated \ {mp[c]}
  /\ UNCHANGED <<round, mp, head, next, num, lock, consumed>>

-----------------------------------------------------------------------------
ProducerStep(p) ==
  \/ Malloc(p) \/ Acquire(p) \/ Link(p) \/ Push(p) \/ Unlock(p)
  \/ Signal(p) \/ NextRound(p)

ConsumerStep(c) ==
  \/ Acquire(c) \/ TestNonEmpty(c) \/ Wait(c) \/ Reacquire(c) \/ Take(c)
  \/ Pop(c) \/ Unlock(c) \/ Report(c) \/ Free(c) \/ NextRound(c)

ThreadStep ==
  \/ \E p \in Producers : ProducerStep(p)
  \/ \E c \in Consumers : ConsumerStep(c) \/ SpuriousWakeup(c)

AllDone == \A t \in Threads : pc[t] = "done"

Next ==
  \/ \E t \in Threads : Create(t)
  \/ ThreadStep
  \/ AllDone /\ UNCHANGED stackVars

Spec == StackInit /\ [][Next]_stackVars
-----------------------------------------------------------------------------
(* Who may touch what.                                                      *)

InCritical(t) ==
  IF t \in Producers THEN pc[t] \in {"link", "push", "unlock"}
                     ELSE pc[t] \in {"test", "take", "pop", "unlock"}

\* The thread alone knows the node at mp: not yet pushed, or popped.
Owns(t) ==
  IF t \in Producers THEN pc[t] \in {"lock", "link", "push"}
                     ELSE pc[t] \in {"unlock", "print", "free"}

Owned == {mp[t] : t \in {u \in Threads : Owns(u)}}

\* The nodes that must be on the list that starts at head.
InStack == allocated \ Owned

\* s enumerates, from head to the last node, a list of k distinct nodes.
IsList(s, k) ==
  /\ \A a, b \in 1..k : s[a] = s[b] => a = b
  /\ head = IF k = 0 THEN NULL ELSE s[1]
  /\ \A a \in 1..k : next[s[a]] = IF a = k THEN NULL ELSE s[a + 1]

(* Exactly the thread between pthread_mutex_lock (or the return of
   pthread_cond_wait) and pthread_mutex_unlock (or the wait) owns the mutex,
   so at most one thread is between them. *)
MutexInv == \A t \in Threads : InCritical(t) <=> lock = t

OwnershipInv ==
  \A t \in Threads : Owns(t) =>
    /\ mp[t] \in allocated
    /\ \A u \in Threads \ {t} : Owns(u) => mp[u] # mp[t]

(* mp->next, mp->num and free(mp) only ever touch memory that is allocated
   and that no other thread believes to be its own: no use after free, no
   double free, no NULL dereference after a spurious or stolen wakeup. *)
SafeDereference ==
  /\ OwnershipInv
  /\ \A c \in Consumers : /\ pc[c] = "take" => head \in InStack
                          /\ pc[c] = "pop" => mp[c] \in InStack

(* Following next from head visits, once each, all the nodes that are
   allocated and in nobody's hands: no product is lost and none leaks. *)
NoProductLost ==
  \E k \in 0..Cardinality(Nodes) : \E s \in [1..k -> InStack] :
    IsList(s, k) /\ InStack = {s[a] : a \in 1..k}

Signalling == {p \in Producers : pc[p] \in {"unlock", "signal"}}
Woken == {c \in Consumers : pc[c] \in {"relock", "test", "take", "pop"}}

(* While products are on the stack and consumers sleep in
   pthread_cond_wait, at least as many threads as there are products are on
   their way to hand one over: producers that have yet to signal, or
   consumers that have been woken.  No wakeup is lost. *)
NoLostWakeup ==
  Waiting # {} =>
    Cardinality(InStack) <= Cardinality(Signalling) + Cardinality(Woken)

PooledProducts == {num[n] : n \in InStack}
HeldProducts == {num[mp[c]] : c \in {d \in Consumers : pc[d] \in {"unlock", "print"}}}

Pool == INSTANCE ProductPool WITH pool <- PooledProducts, held <- HeldProducts

(* The promise of ProductPool is kept, whatever the order of the steps: each
   product enters the stack once, leaves it once, into the hands of one
   consumer, and is reported by that consumer once. *)
PoolSpec == Pool!Spec
-----------------------------------------------------------------------------
(* What makes the above inductive.                                          *)

RoundInv == \A t \in Threads : pc[t] # "done" => round[t] < N

(* What a thread has read inside the critical section is still so. *)
LocalInv ==
  /\ \A p \in Producers : pc[p] = "push" => next[mp[p]] = head
  /\ \A c \in Consumers : /\ pc[c] = "take" => head # NULL
                          /\ pc[c] = "pop" => head # NULL /\ mp[c] = head

(* The last product each producer has made. *)
Made == [p \in Producers |->
  IF pc[p] \in {"unborn", "malloc", "done"} THEN round[p] ELSE round[p] + 1]

(* The products in memory are distinct, were all made, and none was reported
   but by a consumer that is about to free it. *)
ProductInv ==
  /\ \A n \in allocated : num[n] \in Products /\ num[n][2] <= Made[num[n][1]]
  /\ \A m, n \in allocated : num[m] = num[n] => m = n
  /\ \A x \in consumed : x[2] <= Made[x[1]]
  /\ \A n \in allocated : num[n] \in consumed =>
       \E c \in Consumers : pc[c] = "free" /\ mp[c] = n
  /\ \A c \in Consumers : pc[c] = "free" => num[mp[c]] \in consumed

IInv ==
  /\ TypeOK /\ RoundInv /\ MutexInv
  /\ OwnershipInv /\ LocalInv /\ NoProductLost /\ ProductInv
=============================================================================
