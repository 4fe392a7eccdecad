------------------------------ MODULE TidProofs ------------------------------
(***************************************************************************)
(* Three programs with threads.  prod_cons.c and procon.c run the thread   *)
(* functions of MsgStack under a main of their own, so what MsgStackProofs *)
(* proves of them holds of the programs.  In pth_sem.c, the stack is sound *)
(* and everything is printed or left below the mark unless a push and a    *)
(* pop have overlapped: its invariant says what either thread may rely on  *)
(* as long as none has, that what it has loaded is still idx and that the  *)
(* semaphore counts the products made and not asked for.                   *)
(***************************************************************************)
EXTENDS ProdCons, Procon, PthSem, MsgStackProofs

(* main only decides when the two threads are created: each step of the
   program is a step of the thread functions or leaves them alone. *)
THEOREM RunsTheThreads == ProdConsSpec => Spec
<1>1. Init => StackInit
  BY DEF Init
<1>2. [ProdConsNext]_vars => [Next]_stackVars
  <2> SUFFICES ASSUME [ProdConsNext]_vars PROVE [Next]_stackVars
    OBVIOUS
  <2>1. ASSUME MainStep PROVE [Next]_stackVars
    BY <2>1, MainAssumption DEF MainStep, CreateThread, JoinThread, Next, Threads
  <2>2. ASSUME ThreadStep PROVE [Next]_stackVars
    BY <2>2 DEF Next
  <2>3. ASSUME UNCHANGED vars PROVE [Next]_stackVars
    BY <2>3 DEF vars
  <2>. QED  BY <2>1, <2>2, <2>3 DEF ProdConsNext
<1>. QED  BY <1>1, <1>2, PTL DEF ProdConsSpec, Spec

(* prod_cons.c never touches memory it does not own and consumes no product
   twice. *)
THEOREM ProdConsCorrect == ProdConsSpec => []SafeDereference /\ PoolSpec
BY RunsTheThreads, MemorySafety, PoolRefinement, PTL

-----------------------------------------------------------------------------
(* Steps of the threads keep the consumer's count; those of main wait. *)
LEMMA MainStepInv ==
  ASSUME IInv, MainInv, [ProdConsNext]_vars
  PROVE  MainInv'
<1> USE MainAssumption, StackAssumption DEF TypeOK, RoundInv, MainInv, MainPC,
        ConsumedNow, Goto, LoopStart, Threads
<1> TypeOK /\ RoundInv
  BY DEF IInv
<1>1. CASE MainStep
  BY <1>1 DEF MainStep, MainGoto, CreateThread, JoinThread, Create, stackVars
<1>2. ASSUME ProducerStep(pt), UNCHANGED main, Running PROVE MainInv'
  BY <1>2 DEF ProducerStep, Malloc, Acquire, Link, Push, Unlock, Signal, NextRound,
              Waiting, Running
<1>3. ASSUME ConsumerStep(ct) \/ SpuriousWakeup(ct), UNCHANGED main, Running
      PROVE  MainInv'
  <2>1. CASE Report(ct)
    <3>1. num[mp[ct]] \notin consumed
      BY <2>1 DEF IInv, ProductInv, OwnershipInv, Owns, Report
    <3>2. IsFiniteSet(consumed') /\ Cardinality(consumed') = Cardinality(consumed) + 1
      BY <2>1, <3>1, FS_AddElement DEF Report
    <3>. QED  BY <1>3, <2>1, <3>2 DEF Report, Running
  <2>2. CASE NextRound(ct)
    BY <1>3, <2>2 DEF NextRound, Running
  <2>3. CASE Acquire(ct) \/ TestNonEmpty(ct) \/ Wait(ct) \/ Reacquire(ct)
             \/ SpuriousWakeup(ct)
    BY <1>3, <2>3 DEF Acquire, TestNonEmpty, Wait, Reacquire, SpuriousWakeup, Running
  <2>4. CASE Take(ct) \/ Pop(ct) \/ Unlock(ct) \/ Free(ct)
    BY <1>3, <2>4 DEF Take, Pop, Unlock, Free, Running
  <2>. QED  BY <1>3, <2>1, <2>2, <2>3, <2>4 DEF ConsumerStep
<1>4. CASE UNCHANGED vars
  BY <1>4 DEF vars, stackVars
<1>. QED  BY <1>1, <1>2, <1>3, <1>4 DEF ProdConsNext, ThreadStep

(* N different products reported are all the products there are; a node left
   in memory would hold one of them, and its owner would not be done. *)
LEMMA ReturnedClean ==
  ASSUME IInv, MainInv
  PROVE  NothingLeftOver
<1> SUFFICES ASSUME ~Running PROVE NothingLeftOver
  BY DEF NothingLeftOver
<1> USE MainAssumption, StackAssumption
<1>1. pc[pt] = "done" /\ pc[ct] = "done" /\ Cardinality(consumed) = N
  BY DEF MainInv, ConsumedNow, Running
<1>2. \A t \in Threads : pc[t] = "done"
  BY <1>1 DEF Threads
<1>3. consumed = Products
  <2>1. IsFiniteSet(Products) /\ Cardinality(Products) = N
    <3> DEFINE T == {pt}
               R == 1..N
    <3>1. IsFiniteSet(T) /\ Cardinality(T) = 1
      BY FS_Singleton
    <3>2. IsFiniteSet(R) /\ Cardinality(R) = N
      BY FS_Interval
    <3>3. Products = T \X R
      BY DEF Products
    <3> HIDE DEF T, R
    <3>4. IsFiniteSet(T \X R) /\ Cardinality(T \X R) = Cardinality(T) * Cardinality(R)
      BY <3>1, <3>2, FS_Product
    <3>. QED  BY <3>1, <3>2, <3>3, <3>4
  <2>2. consumed \subseteq Products
    BY DEF IInv, TypeOK
  <2>. QED  BY <1>1, <2>1, <2>2, FS_Subset
<1>4. allocated = {}
  BY <1>2, <1>3 DEF IInv, ProductInv, Threads
<1>5. head = NULL
  BY <1>4, StackHead DEF IInv, InStack
<1>6. lock = NULL
  BY <1>2 DEF IInv, TypeOK, MutexInv, InCritical
<1>. QED  BY <1>3, <1>4, <1>5, <1>6 DEF NothingLeftOver

(* When main returns, every product of every round was consumed and every
   node freed, whatever the number of rounds and the size of the heap. *)
THEOREM CleanExit == ProdConsSpec => []NothingLeftOver
<1>1. Init => MainInv
  BY MainAssumption, FS_EmptySet
     DEF Init, StackInit, MainInv, MainPC, ConsumedNow, Threads
<1>2. IInv /\ MainInv /\ [ProdConsNext]_vars => MainInv'
  BY MainStepInv
<1>3. IInv /\ MainInv => NothingLeftOver
  BY ReturnedClean
<1>4. ProdConsSpec => []IInv
  BY RunsTheThreads, Invariance, PTL
<1>. QED  BY <1>1, <1>2, <1>3, <1>4, PTL DEF ProdConsSpec

-----------------------------------------------------------------------------
(* tidpid/procon.c: its threads are those of MsgStack, run one at a time.   *)

(* The steps of Procon, as far as the threads see them. *)
LEMMA ProconSteps ==
  ASSUME [ProconNext]_proconVars
  PROVE  \/ procon = "select" /\ procon' = "join" /\ \E t \in Threads : Start(t)
         \/ procon = "join" /\ procon' = "select" /\ Join
         \/ procon' = procon /\ Counted
         \/ (procon = "join" <=> procon' = "join") /\ UNCHANGED workerVars
<1> USE DEF mainVars, workerVars
<1>1. CASE ReadCreate
  BY <1>1 DEF ReadCreate, Threads
<1>2. CASE ProconJoin
  BY <1>2 DEF ProconJoin
<1>3. CASE ThreadsRun \/ ThreadsWake
  BY <1>3, WorkersCount DEF ThreadsRun, ThreadsWake
<1>4. CASE Open
  BY <1>4 DEF Open, AfterOpen, Opens
<1>5. CASE (\E k \in Commands : Type(k)) \/ AdminRead \/ AdminClose
  BY <1>5 DEF Type, AdminRead, AdminClose
<1>6. CASE ReadOther \/ Reply
  BY <1>6 DEF ReadOther, Reply
<1>7. CASE Idle \/ UNCHANGED proconVars
  BY <1>7 DEF Idle, proconVars
<1>. QED  BY <1>1, <1>2, <1>3, <1>4, <1>5, <1>6, <1>7 DEF ProconNext, ProconMain

(* procon only decides when the threads are created, so all that MsgStackProofs
   proves of the threads holds of procon. *)
THEOREM ProconRunsTheThreads == ProconSpec => Spec
<1>1. ProconInit => StackInit
  BY DEF ProconInit, WorkersInit
<1>2. [ProconNext]_proconVars => [Next]_stackVars
  BY ProconSteps DEF Next, Start, Join, Counted, workerVars
<1>. QED  BY <1>1, <1>2, PTL DEF ProconSpec, Spec

(* No node is freed twice or used after it was freed, and no product is
   consumed twice, whatever the admin's user types and when. *)
THEOREM ProconMemorySafe == ProconSpec => []SafeDereference /\ PoolSpec
BY ProconRunsTheThreads, MemorySafety, PoolRefinement, PTL

\* Main is in pthread_join when a thread is joined, and only then.
ProconInv == JoinedInv /\ (procon # "join" => joined = NULL)

LEMMA ProconInvariant == ProconSpec => [](TypeOK /\ ProconInv)
<1>1. ProconInit => ProconInv
  BY DEF ProconInit, WorkersInit, StackInit, ProconInv, JoinedInv, SerialWorkers
<1>2. TypeOK /\ ProconInv /\ [ProconNext]_proconVars => ProconInv'
  <2> SUFFICES ASSUME TypeOK, ProconInv, [ProconNext]_proconVars PROVE ProconInv'
    OBVIOUS
  <2>1. ASSUME NEW t \in Threads, Start(t), procon = "select", procon' = "join"
        PROVE  ProconInv'
    BY <2>1, StartSerial DEF ProconInv
  <2>2. ASSUME Join, procon' = "select" PROVE ProconInv'
    BY <2>2, JoinSerial DEF ProconInv
  <2>3. ASSUME Counted, procon' = procon PROVE ProconInv'
    BY <2>3, ThreadSerial DEF ProconInv, Counted
  <2>4. ASSUME UNCHANGED workerVars, procon = "join" <=> procon' = "join" PROVE ProconInv'
    BY <2>4 DEF ProconInv, JoinedInv, SerialWorkers, workerVars, stackVars
  <2>. QED  BY <2>1, <2>2, <2>3, <2>4, ProconSteps
<1>3. ProconSpec => []TypeOK
  BY ProconRunsTheThreads, TypeCorrect, PTL
<1>. QED  BY <1>1, <1>2, <1>3, PTL DEF ProconSpec

(* The unprotected tid_p[P], P++, tid_c[C] and C++ are safe: between creation
   and end there is only the thread main waits for. *)
THEOREM ProconSerial == ProconSpec => []SerialWorkers
<1>1. ProconInv => SerialWorkers
  BY DEF ProconInv, JoinedInv
<1>. QED  BY <1>1, ProconInvariant, PTL

(* Once procon waits for a consumer and the stack is empty, it does so for
   ever: no command, and no number of spurious wakeups, ends the wait. *)
THEOREM ProconStarves == ProconSpec => StarvedForever
<1>1. TypeOK /\ ProconInv /\ [ProconNext]_proconVars => [Starved => Starved']_workerVars
  <2> SUFFICES ASSUME TypeOK, ProconInv, [ProconNext]_proconVars, Starved PROVE Starved'
    BY DEF workerVars
  <2>1. joined # NULL /\ pc[joined] # "done"
    BY StackAssumption DEF Starved, Threads
  <2>2. ASSUME Counted PROVE Starved'
    BY <2>2, StarvedStays DEF ProconInv, Counted
  <2>3. ASSUME UNCHANGED workerVars PROVE Starved'
    BY <2>3 DEF Starved, workerVars, stackVars
  <2>. QED  BY <2>1, <2>2, <2>3, ProconSteps DEF ProconInv, Join
<1>. QED  BY <1>1, ProconInvariant, PTL DEF ProconSpec, StarvedForever

(* The stack balances the finished threads, whatever was typed, for any number
   of threads and rounds: a consumer starves only when every product ever made
   has been consumed. *)
THEOREM ProconBalance == ProconSpec => []Balance
<1> USE ProconAssumption
<1>1. ProconInit => StockInv
  BY StockInit DEF ProconInit
<1>2. IInv /\ ProconInv /\ StockInv /\ [ProconNext]_proconVars => StockInv'
  <2> SUFFICES ASSUME IInv, ProconInv, StockInv, [ProconNext]_proconVars PROVE StockInv'
    OBVIOUS
  <2>1. ASSUME UNCHANGED workerVars PROVE StockInv'
    BY <2>1 DEF workerVars, stackVars, StockInv, Pushed, Popped, Moved, InStack, Owned, Owns
  <2>. QED  BY <2>1, ProconSteps, StockStartJoin, StockThread DEF ProconInv
<1>3. ProconSpec => []IInv
  BY ProconRunsTheThreads, Invariance, PTL
<1>4. IInv /\ StockInv => Balance
  BY StockBalances
<1>. QED  BY <1>1, <1>2, <1>3, <1>4, ProconInvariant, PTL DEF ProconSpec

-----------------------------------------------------------------------------
(* pth_sem.c.                                                               *)
USE SemAssumption

MadeNow == IF pp = "post" THEN i + 1 ELSE i

Top == IF pp = "fill" THEN idx - 1 ELSE idx

(* What holds whether a push and a pop have overlapped or not. *)
CountInv ==
  /\ i \in Nat /\ mysem \in Nat /\ popped \in Nat /\ raced \in BOOLEAN
  /\ pp \in {"load", "store", "fill", "post", "done"}
  /\ cp \in {"wait", "show", "test", "load", "store", "done"}
  /\ IF pp = "done" THEN i = Size ELSE i < Size
  /\ i = mysem + popped + (IF cp = "wait" THEN 0 ELSE 1)
  /\ buf \in [Elements -> Product \cup {-1}]

RegInv ==
  /\ idx \in Int /\ ~(Pushing /\ Popping)
  /\ Top = MadeNow - popped
  /\ pp = "store" => preg = idx
  /\ cp = "store" => creg = idx

OnceInv ==
  /\ \A e \in 1..Top : buf[e] \in 0..(MadeNow - 1)
  /\ \A e, f \in 1..Top : buf[e] = buf[f] => e = f

ShownInv ==
  /\ shown \subseteq 0..(MadeNow - 1)
  /\ \A n \in 0..(MadeNow - 1) : n \in shown \/ \E e \in 1..Top : buf[e] = n
  /\ cp \in {"test", "load", "store", "done"} => buf[idx] \in shown
  /\ cp = "done" => buf[idx] = Mark

SemInv == CountInv /\ (~raced => RegInv /\ OnceInv /\ ShownInv)

LEMMA SemStarts == SemInit => SemInv
<1>1. SUFFICES ASSUME SemInit PROVE SemInv
  OBVIOUS
<1>2. CountInv
  <2>1. buf \in [Elements -> Product \cup {-1}]
    BY <1>1, Zenon DEF SemInit
  <2>2. raced \in BOOLEAN
    BY <1>1, Zenon DEF SemInit
  <2>3. i = 0 /\ mysem = 0 /\ popped = 0 /\ pp = "load" /\ cp = "wait"
    BY <1>1 DEF SemInit
  <2>4. QED BY <2>1, <2>2, <2>3 DEF CountInv
<1>3. RegInv /\ MadeNow = 0 /\ Top = 0
  BY <1>1 DEF SemInit, RegInv, MadeNow, Top, Popping
<1>4. OnceInv /\ ShownInv
  BY <1>1, <1>3 DEF SemInit, OnceInv, ShownInv
<1>5. QED BY <1>2, <1>3, <1>4 DEF SemInv

(* An unfinished pop has an element to pop, and idx stays within buf. *)
LEMMA Within ==
  ASSUME CountInv, RegInv
  PROVE  /\ Top \in Int /\ MadeNow \in Nat /\ Top <= Size /\ Top >= 0
         /\ Popping \/ cp = "done" => Top >= 1 /\ (Popping => Top = idx)
         /\ MadeNow <= Size
         /\ pp = "fill" => idx \in 1..Size
  BY DEF CountInv, RegInv, MadeNow, Top, Pushing, Popping

LEMMA LoadKeeps ==
  ASSUME SemInv, Load, Watch
  PROVE  SemInv'
<1>1. CountInv'
  BY DEF SemInv, CountInv, Load, Watch
<1>2. CASE raced'
  BY <1>1, <1>2 DEF SemInv
<1>3. CASE ~raced'
  <2>1. ~raced /\ ~(Pushing /\ Popping)'
    BY <1>3 DEF Watch, SemInv, CountInv
  <2>2. RegInv' /\ MadeNow' = MadeNow /\ Top' = Top
    BY <2>1 DEF SemInv, CountInv, RegInv, Load, MadeNow, Top
  <2>3. OnceInv' /\ ShownInv'
    BY <2>1, <2>2 DEF SemInv, OnceInv, ShownInv, Load
  <2>4. QED BY <1>1, <2>2, <2>3 DEF SemInv
<1>4. QED BY <1>1, <1>2, <1>3 DEF CountInv

LEMMA IncrementKeeps ==
  ASSUME SemInv, Increment, Watch
  PROVE  SemInv'
<1>1. CountInv'
  BY DEF SemInv, CountInv, Increment, Watch
<1>2. CASE raced'
  BY <1>1, <1>2 DEF SemInv
<1>3. CASE ~raced'
  <2>1. ~raced /\ ~(Pushing /\ Popping)'
    BY <1>3 DEF Watch, SemInv, CountInv
  <2>2. RegInv' /\ MadeNow' = MadeNow /\ Top' = Top
    BY <2>1 DEF SemInv, CountInv, RegInv, Increment, MadeNow, Top, Pushing, Popping
  <2>3. OnceInv'
    BY <2>1, <2>2 DEF SemInv, OnceInv, Increment
  \* the consumer is not at its end: it would hold the last product
  <2>4. cp = "wait"
    <3>1. cp # "done"
      <4>1. SUFFICES ASSUME cp = "done" PROVE FALSE
        OBVIOUS
      <4>2. CountInv /\ RegInv /\ OnceInv /\ pp = "store"
        BY <2>1 DEF SemInv, Increment
      <4>3. Top = idx /\ MadeNow = i /\ i < Size
        BY <4>2 DEF Top, MadeNow, CountInv
      <4>4. idx \in 1..Top
        BY <4>1, <4>2, <4>3, Within DEF RegInv
      <4>5. buf[idx] = Mark
        BY <4>1, <2>1 DEF SemInv, ShownInv
      <4>6. QED BY <4>2, <4>3, <4>4, <4>5 DEF OnceInv, Mark, CountInv
    <3>2. QED BY <3>1, <2>1 DEF Pushing, Popping, Increment, SemInv, CountInv
  <2>5. ShownInv'
    BY <2>1, <2>2, <2>4 DEF SemInv, ShownInv, Increment
  <2>6. QED BY <1>1, <2>2, <2>3, <2>5 DEF SemInv
<1>4. QED BY <1>1, <1>2, <1>3 DEF CountInv

LEMMA FillKeeps ==
  ASSUME SemInv, Fill, Watch
  PROVE  SemInv'
<1>1. CountInv'
  <2>1. CountInv /\ i \in Product
    BY DEF SemInv, CountInv, Fill, Product
  <2>2. buf' \in [Elements -> Product \cup {-1}]
    BY <2>1 DEF CountInv, Fill
  <2>3. raced' \in BOOLEAN
    BY <2>1 DEF CountInv, Watch
  <2>4. QED BY <2>1, <2>2, <2>3 DEF CountInv, Fill
<1>2. CASE raced'
  BY <1>1, <1>2 DEF SemInv
<1>3. CASE ~raced'
  <2>1. ~raced /\ CountInv /\ RegInv /\ OnceInv /\ ShownInv
    BY <1>3 DEF Watch, SemInv, CountInv
  <2>2. /\ Top' = Top + 1 /\ Top' = idx /\ idx' = idx
        /\ MadeNow' = MadeNow + 1 /\ MadeNow = i /\ Top \in Nat /\ i \in Nat
        /\ idx \in Elements
    BY <2>1, Within DEF Fill, Top, MadeNow, CountInv, RegInv, Elements
  <2>3. /\ buf'[idx] = i
        /\ \A e \in 1..Top : buf'[e] = buf[e]
    BY <2>1, <2>2, Within DEF Fill, CountInv, Elements
  <2>4. RegInv'
    BY <2>1, <2>2 DEF RegInv, Fill, Pushing, CountInv
  <2>5. OnceInv'
    <3>1. \A e \in 1..Top' : e = idx \/ e \in 1..Top
      BY <2>2
    <3>2. QED BY <2>1, <2>2, <2>3, <3>1 DEF OnceInv
  <2>6. cp = "wait"
    <3>1. cp # "done"
      <4>1. SUFFICES ASSUME cp = "done" PROVE FALSE
        OBVIOUS
      <4>2. Mark \in shown /\ i < Size
        BY <4>1, <2>1 DEF ShownInv, CountInv, Fill
      <4>3. QED BY <4>2, <2>1, <2>2 DEF ShownInv, Mark
    <3>2. QED BY <3>1, <2>1 DEF Pushing, Popping, Fill, RegInv, CountInv
  <2>7. ShownInv'
    <3>1. shown' = shown /\ cp' = "wait"
      BY <2>6 DEF Fill
    <3>2. ASSUME NEW n \in 0..(MadeNow' - 1)
          PROVE  n \in shown \/ \E e \in 1..Top' : buf'[e] = n
      <4>1. CASE n = i
        BY <4>1, <2>2, <2>3
      <4>2. CASE n # i
        BY <4>2, <2>1, <2>2, <2>3 DEF ShownInv
      <4>3. QED BY <4>1, <4>2
    <3>3. shown' \subseteq 0..(MadeNow' - 1)
      BY <3>1, <2>1, <2>2 DEF ShownInv
    <3>4. QED BY <3>1, <3>2, <3>3 DEF ShownInv
  <2>8. QED BY <1>1, <2>4, <2>5, <2>7 DEF SemInv
<1>4. QED BY <1>1, <1>2, <1>3 DEF CountInv

LEMMA PostKeeps ==
  ASSUME SemInv, Post, Watch
  PROVE  SemInv'
<1>1. CountInv'
  BY DEF SemInv, CountInv, Post, Watch
<1>2. CASE raced'
  BY <1>1, <1>2 DEF SemInv
<1>3. CASE ~raced'
  <2>1. ~raced /\ ~(Pushing /\ Popping)'
    BY <1>3 DEF Watch, SemInv, CountInv
  <2>2. RegInv' /\ MadeNow' = MadeNow /\ Top' = Top
    BY <2>1 DEF SemInv, CountInv, RegInv, Post, MadeNow, Top
  <2>3. OnceInv' /\ ShownInv'
    BY <2>1, <2>2 DEF SemInv, OnceInv, ShownInv, Post
  <2>4. QED BY <1>1, <2>2, <2>3 DEF SemInv
<1>4. QED BY <1>1, <1>2, <1>3 DEF CountInv

LEMMA WaitKeeps ==
  ASSUME SemInv, SemWait, Watch
  PROVE  SemInv'
<1>1. CountInv'
  BY DEF SemInv, CountInv, SemWait, Watch
<1>2. CASE raced'
  BY <1>1, <1>2 DEF SemInv
<1>3. CASE ~raced'
  <2>1. ~raced /\ ~(Pushing /\ Popping)'
    BY <1>3 DEF Watch, SemInv, CountInv
  <2>2. RegInv' /\ MadeNow' = MadeNow /\ Top' = Top
    BY <2>1 DEF SemInv, RegInv, SemWait, MadeNow, Top
  <2>3. OnceInv' /\ ShownInv'
    BY <2>1, <2>2 DEF SemInv, OnceInv, ShownInv, SemWait
  <2>4. QED BY <1>1, <2>2, <2>3 DEF SemInv
<1>4. QED BY <1>1, <1>2, <1>3 DEF CountInv

LEMMA ShowKeeps ==
  ASSUME SemInv, Show, Watch
  PROVE  SemInv'
<1>1. CountInv'
  BY DEF SemInv, CountInv, Show, Watch
<1>2. CASE raced'
  BY <1>1, <1>2 DEF SemInv
<1>3. CASE ~raced'
  <2>1. ~raced /\ ~(Pushing /\ Popping)' /\ CountInv /\ RegInv /\ OnceInv /\ ShownInv
    BY <1>3 DEF Watch, SemInv, CountInv
  <2>2. RegInv' /\ MadeNow' = MadeNow /\ Top' = Top
    BY <2>1 DEF RegInv, Show, MadeNow, Top
  <2>3. buf[idx] \in 0..(MadeNow - 1)
    BY <2>1, Within DEF OnceInv, Show, Popping, RegInv
  <2>4. OnceInv'
    BY <2>1, <2>2 DEF OnceInv, Show
  <2>5. ShownInv'
    BY <2>1, <2>2, <2>3 DEF ShownInv, Show
  <2>6. QED BY <1>1, <2>2, <2>4, <2>5 DEF SemInv
<1>4. QED BY <1>1, <1>2, <1>3 DEF CountInv

LEMMA TestKeeps ==
  ASSUME SemInv, Test, Watch
  PROVE  SemInv'
<1>1. CountInv'
  BY DEF SemInv, CountInv, Test, Watch
<1>2. CASE raced'
  BY <1>1, <1>2 DEF SemInv
<1>3. CASE ~raced'
  <2>1. ~raced /\ ~(Pushing /\ Popping)'
    BY <1>3 DEF Watch, SemInv, CountInv
  <2>2. RegInv' /\ MadeNow' = MadeNow /\ Top' = Top
    BY <2>1 DEF SemInv, RegInv, Test, MadeNow, Top
  <2>3. OnceInv' /\ ShownInv'
    BY <2>1, <2>2 DEF SemInv, OnceInv, ShownInv, Test
  <2>4. QED BY <1>1, <2>2, <2>3 DEF SemInv
<1>4. QED BY <1>1, <1>2, <1>3 DEF CountInv

LEMMA LoadAgainKeeps ==
  ASSUME SemInv, LoadAgain, Watch
  PROVE  SemInv'
<1>1. CountInv'
  BY DEF SemInv, CountInv, LoadAgain, Watch
<1>2. CASE raced'
  BY <1>1, <1>2 DEF SemInv
<1>3. CASE ~raced'
  <2>1. ~raced /\ ~(Pushing /\ Popping)'
    BY <1>3 DEF Watch, SemInv, CountInv
  <2>2. RegInv' /\ MadeNow' = MadeNow /\ Top' = Top
    BY <2>1 DEF SemInv, RegInv, LoadAgain, MadeNow, Top
  <2>3. OnceInv' /\ ShownInv'
    BY <2>1, <2>2 DEF SemInv, OnceInv, ShownInv, LoadAgain
  <2>4. QED BY <1>1, <2>2, <2>3 DEF SemInv
<1>4. QED BY <1>1, <1>2, <1>3 DEF CountInv

LEMMA DecrementKeeps ==
  ASSUME SemInv, Decrement, Watch
  PROVE  SemInv'
<1>1. CountInv'
  BY DEF SemInv, CountInv, Decrement, Watch
<1>2. CASE raced'
  BY <1>1, <1>2 DEF SemInv
<1>3. CASE ~raced'
  <2>1. ~raced /\ CountInv /\ RegInv /\ OnceInv /\ ShownInv
    BY <1>3 DEF Watch, SemInv, CountInv
  <2>2. ~Pushing /\ Top = idx /\ Top >= 1 /\ Top \in Int
    BY <2>1, Within DEF RegInv, Decrement, Popping
  <2>3. MadeNow' = MadeNow /\ Top' = Top - 1 /\ idx' = idx - 1
    BY <2>1, <2>2 DEF RegInv, Decrement, MadeNow, Top, Pushing
  <2>4. RegInv'
    BY <2>1, <2>2, <2>3, Within DEF RegInv, Decrement, Pushing, Popping, CountInv
  <2>5. OnceInv'
    BY <2>1, <2>2, <2>3 DEF OnceInv, Decrement
  <2>6. ShownInv'
    <3>1. shown' = shown /\ buf' = buf /\ cp' = "wait" /\ buf[idx] \in shown
      BY <2>1 DEF ShownInv, Decrement
    <3>2. ASSUME NEW n \in 0..(MadeNow - 1), n \notin shown
          PROVE  \E e \in 1..(Top - 1) : buf[e] = n
      <4>1. PICK e \in 1..Top : buf[e] = n
        BY <2>1, <3>2 DEF ShownInv
      <4>2. e # Top
        BY <4>1, <3>1, <3>2, <2>2
      <4>3. QED BY <4>1, <4>2, <2>2
    <3>3. QED BY <2>1, <2>3, <3>1, <3>2 DEF ShownInv
  <2>7. QED BY <1>1, <2>4, <2>5, <2>6 DEF SemInv
<1>4. QED BY <1>1, <1>2, <1>3 DEF CountInv

LEMMA SemNextKeeps == SemInv /\ [SemNext]_semVars => SemInv'
<1>1. SUFFICES ASSUME SemInv, [SemNext]_semVars PROVE SemInv'
  OBVIOUS
<1>2. CASE SemProducer
  BY <1>1, <1>2, LoadKeeps, IncrementKeeps, FillKeeps, PostKeeps DEF SemProducer
<1>3. CASE SemConsumer
  BY <1>1, <1>3, WaitKeeps, ShowKeeps, TestKeeps, LoadAgainKeeps, DecrementKeeps
     DEF SemConsumer
<1>4. CASE UNCHANGED semVars
  BY <1>1, <1>4 DEF semVars, SemInv, CountInv, RegInv, OnceInv, ShownInv, MadeNow, Top,
     Pushing, Popping
<1>5. QED BY <1>1, <1>2, <1>3, <1>4 DEF SemNext, Stop

(* The invariant holds in every execution of the program. *)
THEOREM SemInvariance == SemSpec => []SemInv
<1>1. QED BY SemStarts, SemNextKeeps, PTL DEF SemSpec

(* As long as no push has overlapped a pop, the height of the stack is the
   number of products made and not popped, each is in it once, and the element
   past the end is used only for the last product of a consumer that has popped
   nothing. *)
THEOREM StackIsExact == SemSpec => []StackExact
<1>1. SemInv => StackExact
  <2>1. SUFFICES ASSUME CountInv, RegInv, OnceInv PROVE
          /\ ~Pushing /\ ~Popping /\ cp # "done" =>
               /\ idx = (IF pp = "post" THEN i + 1 ELSE i) - popped
               /\ -1 \notin {buf[e] : e \in 1..idx}
               /\ \A e, f \in 1..idx : buf[e] = buf[f] => e = f
          /\ pp = "fill" /\ idx > Size - 1 => popped = 0 /\ i = Mark
    BY DEF SemInv, StackExact
  <2>2. ~Pushing => Top = idx
    BY DEF Pushing, Top
  <2>3. ~Pushing => idx = (IF pp = "post" THEN i + 1 ELSE i) - popped
    BY <2>1, <2>2 DEF RegInv, MadeNow
  <2>4. ~Pushing => -1 \notin {buf[e] : e \in 1..idx}
    BY <2>1, <2>2, Within DEF OnceInv
  <2>5. pp = "fill" /\ idx > Size - 1 => popped = 0 /\ i = Mark
    BY <2>1 DEF CountInv, RegInv, Top, MadeNow, Mark
  <2>6. QED BY <2>1, <2>2, <2>3, <2>4, <2>5 DEF OnceInv
<1>2. QED BY SemInvariance, <1>1, PTL

(* A program that returns without an overlap has printed every product but
   those left below the mark, and nothing else. *)
THEOREM NothingLost == SemSpec => []LeftOver
<1>1. SemInv => LeftOver
  <2>1. SUFFICES ASSUME CountInv, RegInv, OnceInv, ShownInv, Returned
                 PROVE {buf[e] : e \in 1..(idx - 1)} \cup shown = Product /\ -1 \notin shown
    BY DEF SemInv, LeftOver
  <2>2. Top = idx /\ MadeNow = Size /\ idx \in Int /\ idx >= 1
    BY <2>1, Within DEF Top, MadeNow, CountInv, Returned
  <2>3. buf[idx] \in shown /\ shown \subseteq Product /\ -1 \notin shown
    BY <2>1, <2>2 DEF ShownInv, Returned, Product
  <2>4. \A e \in 1..(idx - 1) : buf[e] \in Product
    BY <2>1, <2>2 DEF OnceInv, Product
  <2>5. \A n \in Product : n \in shown \/ \E e \in 1..(idx - 1) : buf[e] = n
    <3>1. SUFFICES ASSUME NEW n \in Product, n \notin shown
                   PROVE \E e \in 1..(idx - 1) : buf[e] = n
      OBVIOUS
    <3>2. PICK e \in 1..idx : buf[e] = n
      BY <2>1, <2>2, <3>1 DEF ShownInv, Product
    <3>3. e # idx
      BY <2>3, <3>1, <3>2
    <3>4. QED BY <2>2, <3>2, <3>3
  <2>6. QED BY <2>3, <2>4, <2>5
<1>2. QED BY SemInvariance, <1>1, PTL
=============================================================================
