---------------------------- MODULE Procon1Proofs ----------------------------
(***************************************************************************)
(* tidpid/procon1.c: its threads too are those of MsgStack, run one at a   *)
(* time; and the wait of its two processes for each other has no end.      *)
(***************************************************************************)
EXTENDS Procon1, MsgStackProofs

\* A thread is created only when procon1 reads a command, and joined only after that.
Procon1Inv == JoinedInv /\ (procon \in Opens \cup {"read"} => joined = NULL)

(* The steps of Procon1, as far as the threads see them. *)
LEMMA Procon1Steps ==
  ASSUME [Procon1Next]_vars
  PROVE  \/ procon = "read" /\ procon' = "write" /\ \E t \in Threads : Start(t)
         \/ Join
         \/ procon' = procon /\ Counted
         \/ /\ UNCHANGED workerVars
            /\ procon' \in Opens \cup {"read"} => procon \in Opens \cup {"read"} \/ joined = NULL
<1> USE DEF mainVars, workerVars
<1>1. CASE ReadCreate
  BY <1>1 DEF ReadCreate, Take1, Kind, Threads
<1>2. CASE JoinThread
  BY <1>2 DEF JoinThread
<1>3. CASE ThreadsRun \/ ThreadsWake
  BY <1>3, WorkersCount DEF ThreadsRun, ThreadsWake
<1>4. CASE Open
  BY <1>4 DEF Open, Opens
<1>5. CASE (\E k \in Commands : Type(k)) \/ AdminRead
  BY <1>5 DEF Type, AdminRead
<1>6. CASE ReadOther \/ ReadExit
  BY <1>6 DEF ReadOther, ReadExit, Take1, Opens
<1>7. CASE Write
  BY <1>7 DEF Write, Opens
<1>8. CASE Idle \/ UNCHANGED vars
  BY <1>8 DEF Idle, vars
<1>. QED
  BY <1>1, <1>2, <1>3, <1>4, <1>5, <1>6, <1>7, <1>8 DEF Procon1Next, ProconMain

(* procon1 too only decides when the threads are created: all that
   MsgStackProofs proves of the threads holds of it. *)
THEOREM RunsTheThreads == Procon1Spec => Spec
<1>1. Init => StackInit
  BY DEF Init, WorkersInit
<1>2. [Procon1Next]_vars => [Next]_stackVars
  BY Procon1Steps DEF Next, Start, Join, Counted, workerVars
<1>. QED  BY <1>1, <1>2, PTL DEF Procon1Spec, Spec

(* No node is freed twice or used after it was freed, and no product is
   consumed twice, whatever the user of admin1 types and when. *)
THEOREM Procon1MemorySafe == Procon1Spec => []SafeDereference /\ PoolSpec
BY RunsTheThreads, MemorySafety, PoolRefinement, PTL

LEMMA Procon1Invariant == Procon1Spec => [](IInv /\ Procon1Inv)
<1>1. Init => Procon1Inv
  BY DEF Init, WorkersInit, StackInit, Procon1Inv, JoinedInv, SerialWorkers
<1>2. TypeOK /\ Procon1Inv /\ [Procon1Next]_vars => Procon1Inv'
  <2> SUFFICES ASSUME TypeOK, Procon1Inv, [Procon1Next]_vars PROVE Procon1Inv'
    OBVIOUS
  <2>1. ASSUME NEW t \in Threads, Start(t), procon = "read", procon' = "write"
        PROVE  Procon1Inv'
    BY <2>1, StartSerial DEF Procon1Inv, Opens
  <2>2. ASSUME Join PROVE Procon1Inv'
    BY <2>2, JoinSerial DEF Procon1Inv
  <2>3. ASSUME Counted, procon' = procon PROVE Procon1Inv'
    BY <2>3, ThreadSerial DEF Procon1Inv, Counted
  <2>4. ASSUME UNCHANGED workerVars,
               procon' \in Opens \cup {"read"} => procon \in Opens \cup {"read"} \/ joined = NULL
        PROVE  Procon1Inv'
    BY <2>4 DEF Procon1Inv, JoinedInv, SerialWorkers, workerVars, stackVars
  <2>. QED  BY <2>1, <2>2, <2>3, <2>4, Procon1Steps
<1>3. Procon1Spec => []IInv
  BY RunsTheThreads, Invariance, PTL
<1>4. IInv => TypeOK
  BY DEF IInv
<1>. QED  BY <1>1, <1>2, <1>3, <1>4, PTL DEF Procon1Spec

(* As in procon.c the unprotected tid_p[P], P++, tid_c[C] and C++ have one
   user: between creation and end there is only the thread main waits for. *)
THEOREM Procon1Serial == Procon1Spec => []SerialWorkers
<1>1. Procon1Inv => SerialWorkers
  BY DEF Procon1Inv, JoinedInv
<1>. QED  BY <1>1, Procon1Invariant, PTL

LEMMA Procon1Stock == Procon1Spec => []StockInv
<1> USE Procon1Assumption
<1>1. Init => StockInv
  BY StockInit DEF Init
<1>2. IInv /\ Procon1Inv /\ StockInv /\ [Procon1Next]_vars => StockInv'
  <2> SUFFICES ASSUME IInv, Procon1Inv, StockInv, [Procon1Next]_vars PROVE StockInv'
    OBVIOUS
  <2>1. ASSUME UNCHANGED workerVars PROVE StockInv'
    BY <2>1 DEF workerVars, stackVars, StockInv, Pushed, Popped, Moved, InStack, Owned, Owns
  <2>. QED  BY <2>1, Procon1Steps, StockStartJoin, StockThread DEF Procon1Inv
<1>. QED  BY <1>1, <1>2, Procon1Invariant, PTL DEF Procon1Spec

(* In procon1.c too a consumer starves only when every product ever made has
   been consumed. *)
THEOREM Procon1Balance == Procon1Spec => []Balance
<1>1. IInv /\ StockInv => Balance
  BY StockBalances, Procon1Assumption
<1>. QED  BY <1>1, Procon1Invariant, Procon1Stock, PTL

-----------------------------------------------------------------------------
(* Request and reply.  Until two threads of a kind have finished, there is one
   thing under way: the command, the answer procon1 is about to write, or the
   answer on fifo2; or there is none, and then none comes. *)
EmptyList == \/ asked.k = "list producer" /\ P = 0
             \/ asked.k = "list consumer" /\ C = 0

Asked == fifo1 = <<asked>> /\ fifo2 = <<>> /\ procon \in {"read", "join"}
Answering == /\ fifo1 = <<>> /\ fifo2 = <<>>
             /\ procon = "write" /\ owed = 1 /\ now = asked.n
Answered == fifo1 = <<>> /\ fifo2 = <<asked.n>> /\ procon \in {"read", "join"}
Silent == /\ fifo1 = <<>> /\ fifo2 = <<>>
          /\ procon = "dead" \/ (procon = "read" /\ EmptyList)

PhaseInv ==
  /\ admin \in Opens => admin = procon /\ fifo1 = <<>> /\ fifo2 = <<>>
  /\ admin = "type" => fifo1 = <<>> /\ fifo2 = <<>> /\ procon \in {"read", "join", "dead"}
  /\ admin = "wait" => Asked \/ Answering \/ Answered \/ Silent
  /\ admin = "gone" => fifo2 = <<>>
  /\ admin \in Opens \cup {"type", "wait", "gone"}

\* P and C never fall, and no thread runs while main reads.
LEMMA CountsGrow ==
  ASSUME IInv, Procon1Inv, StockInv, [Procon1Next]_vars
  PROVE  /\ P' \in Nat /\ C' \in Nat /\ P <= P' /\ C <= C'
         /\ Counted => procon # "read"
<1> USE Procon1Assumption, StackAssumption DEF Threads
<1>1. ASSUME Counted
      PROVE  P' \in Nat /\ C' \in Nat /\ P <= P' /\ C <= C' /\ procon # "read"
  <2>1. PICK t \in Threads :
          IF t \in Producers THEN ProducerStep(t) ELSE ConsumerStep(t) \/ SpuriousWakeup(t)
    BY <1>1 DEF Counted, ThreadStep
  <2>2. joined = t /\ pc[t] # "done"
    BY <2>1, OnlyJoined, StepOfOne DEF IInv, Procon1Inv
  <2>3. Finished(Producers) \in 0..1 /\ Finished(Consumers) \in 0..1
    BY <1>1, <2>2, OneFinishes DEF IInv, Procon1Inv, Counted
  <2>. QED  BY <1>1, <2>2, <2>3 DEF Counted, StockInv, Procon1Inv
<1>. QED  BY <1>1, Procon1Steps DEF StockInv, Start, Join, workerVars

\* A sequence of one element, as the FIFOs hold while the two are in phase.
LEMMA OneElement ==
  ASSUME NEW x
  PROVE  /\ <<x>> # <<>> /\ Len(<<x>>) = 1 /\ <<x>>[1] = x /\ Append(<<>>, x) = <<x>>
         /\ Len(<<>>) = 0
OBVIOUS

\* Only a list has another number of answers than one.
LEMMA AnswersOf ==
  ASSUME NEW k
  PROVE  \/ k = "list producer" /\ Answers(k) = P
         \/ k = "list consumer" /\ Answers(k) = C
         \/ Answers(k) = 1
BY DEF Answers

\* While nobody has counted to two, no step puts the two out of phase.
LEMMA PhaseStep ==
  ASSUME IInv, Procon1Inv, StockInv, OneEach => PhaseInv, [Procon1Next]_vars, OneEach'
  PROVE  PhaseInv'
<1> USE DEF Opens, Asked, Answering, Answered, Silent, EmptyList, mainVars
<1>1. /\ P' \in Nat /\ C' \in Nat /\ P \in Nat /\ C \in Nat /\ P <= P' /\ C <= C'
      /\ Counted => procon # "read"
  BY CountsGrow DEF StockInv
<1>2. PhaseInv /\ P \in {0, 1} /\ C \in {0, 1}
  BY <1>1 DEF OneEach
<1>3. CASE Open
  BY <1>2, <1>3 DEF PhaseInv, Open
<1>4. ASSUME NEW k \in Commands, Type(k) PROVE PhaseInv'
  BY <1>2, <1>4, OneElement DEF PhaseInv, Type, workerVars
<1>5. CASE AdminRead
  BY <1>2, <1>5, OneElement DEF PhaseInv, AdminRead
<1>6. CASE ReadCreate \/ ReadOther \/ ReadExit
  <2>1. Take1
    BY <1>6 DEF ReadCreate, ReadOther, ReadExit
  <2>2. CASE admin # "wait"
    BY <1>2, <2>1, <2>2 DEF PhaseInv, Take1
  <2>3. CASE admin = "wait"
    <3>1. fifo1 = <<asked>> /\ fifo2 = <<>>
      BY <1>2, <2>1, <2>3 DEF PhaseInv, Take1
    <3>2. Received = asked.k /\ now' = asked.n
      BY <2>1, <3>1, OneElement DEF Received, Take1
    <3>3. fifo1' = <<>> /\ fifo2' = <<>> /\ asked' = asked /\ admin' = "wait"
      BY <2>1, <2>3, <3>1 DEF Take1
    <3>4. CASE ReadCreate
      BY <3>2, <3>3, <3>4 DEF PhaseInv, ReadCreate
    <3>5. CASE ReadExit
      BY <3>3, <3>5 DEF PhaseInv, ReadExit
    <3>6. CASE ReadOther
      <4>1. UNCHANGED <<P, C>> /\ owed' = Answers(asked.k)
            /\ procon' = IF owed' = 0 THEN "read" ELSE "write"
        BY <3>2, <3>6 DEF ReadOther, workerVars
      <4>2. \/ asked.k = "list producer" /\ owed' = P
            \/ asked.k = "list consumer" /\ owed' = C
            \/ owed' = 1
        BY <4>1, AnswersOf
      <4>3. 0 # 1
        OBVIOUS
      <4>4. owed' = 0 => EmptyList'
        BY <3>3, <4>1, <4>2, <4>3
      <4>5. owed' # 0 => owed' = 1
        BY <1>2, <4>2
      <4>. QED  BY <3>2, <3>3, <4>1, <4>4, <4>5 DEF PhaseInv
    <3>. QED  BY <1>6, <3>4, <3>5, <3>6
  <2>. QED  BY <2>2, <2>3
<1>7. CASE Write
  <2>1. CASE admin = "gone"
    BY <2>1, <1>2, <1>7 DEF PhaseInv, Write
  <2>2. CASE admin # "gone"
    <3>1. admin = "wait" /\ Answering
      BY <1>2, <1>7, <2>2 DEF PhaseInv, Write
    <3>2. fifo2' = <<asked.n>> /\ procon' \in {"read", "join"}
      BY <1>7, <2>2, <3>1, OneElement DEF Write
    <3>. QED  BY <1>7, <3>1, <3>2 DEF PhaseInv, Write
  <2>. QED  BY <2>1, <2>2
<1>8. CASE JoinThread
  BY <1>2, <1>8 DEF PhaseInv, JoinThread, Join
<1>9. CASE ThreadsRun \/ ThreadsWake
  BY <1>1, <1>2, <1>9, WorkersCount DEF PhaseInv, ThreadsRun, ThreadsWake
<1>10. CASE Idle \/ UNCHANGED vars
  BY <1>2, <1>10 DEF PhaseInv, Idle, vars, workerVars
<1>. QED
  BY <1>3, <1>4, <1>5, <1>6, <1>7, <1>8, <1>9, <1>10 DEF Procon1Next, ProconMain

LEMMA PhaseInvariant == Procon1Spec => [](OneEach => PhaseInv)
<1>1. Init => PhaseInv
  BY DEF Init, PhaseInv, Opens
<1>2. IInv /\ Procon1Inv /\ StockInv /\ (OneEach => PhaseInv) /\ [Procon1Next]_vars
        => (OneEach => PhaseInv)'
  BY PhaseStep
<1>. QED  BY <1>1, <1>2, Procon1Invariant, Procon1Stock, PTL DEF Procon1Spec

(* Until a list has two threads to name, what admin1 reads is the answer to its
   last command, however many commands are typed. *)
THEOREM StaysInPhase == Procon1Spec => []InPhase
<1>1. (OneEach => PhaseInv) => InPhase
  <2> SUFFICES ASSUME PhaseInv
               PROVE  /\ \A i \in 1..Len(fifo2) : fifo2[i] = asked.n
                      /\ admin = "type" => fifo1 = <<>> /\ fifo2 = <<>>
    BY DEF InPhase
  <2>1. fifo2 = <<>> \/ fifo2 = <<asked.n>>
    BY DEF PhaseInv, Asked, Answering, Answered, Silent, Opens
  <2>2. \A i \in 1..Len(fifo2) : fifo2[i] = asked.n
    BY <2>1, OneElement
  <2>. QED  BY <2>2 DEF PhaseInv
<1>. QED  BY <1>1, PhaseInvariant, PTL

(* And then the two processes wait for each other only over an empty list. *)
THEOREM HungIsExplained == Procon1Spec => []HungExplained
<1>1. (OneEach => PhaseInv) => HungExplained
  BY OneElement DEF HungExplained, Hung, PhaseInv, Asked, Answering, Answered, Silent, EmptyList
<1>. QED  BY <1>1, PhaseInvariant, PTL

(* Once admin1 waits for the answer and procon1 for a command with nothing
   under way, no step of either process changes that. *)
THEOREM HungIsForever == Procon1Spec => HungForever
<1>1. [Procon1Next]_vars => [Hung => Hung']_vars
  <2> SUFFICES ASSUME Procon1Next, Hung PROVE Hung'
    BY DEF vars
  <2> USE DEF Hung
  <2>1. ~Open /\ ~(\E k \in Commands : Type(k)) /\ ~AdminRead
    BY DEF Open, Opens, Type, AdminRead
  <2>2. ~ProconMain
    BY DEF ProconMain, ReadCreate, ReadOther, ReadExit, Take1, Write, JoinThread
  <2>3. CASE ThreadsRun \/ ThreadsWake
    BY <2>3 DEF ThreadsRun, ThreadsWake, mainVars
  <2>4. CASE Idle
    BY <2>4 DEF Idle, vars, mainVars
  <2>. QED  BY <2>1, <2>2, <2>3, <2>4 DEF Procon1Next
<1>. QED  BY <1>1, PTL DEF Procon1Spec, HungForever
=============================================================================
