--------------------------- MODULE MsgStackProofs ---------------------------
(***************************************************************************)
(* Proofs about the thread functions, for any number of producers and      *)
(* consumers, any number of rounds and any finite heap.  IInv is the       *)
(* inductive invariant; there is one lemma for each of its parts, with one *)
(* step for each action.  The last section is about a main that starts and *)
(* joins one thread at a time.                                             *)
(***************************************************************************)
EXTENDS Workers, FunctionTheorems, FiniteSetTheorems, TLAPS

(* The first node is on the stack and so is its successor, if there is one. *)
LEMMA StackHead ==
  ASSUME TypeOK, NoProductLost
  PROVE  /\ head \in InStack \cup {NULL}
         /\ head # NULL => next[head] \in InStack \cup {NULL}
<1>1. Cardinality(Nodes) \in Nat
  BY StackAssumption, FS_CardinalityType
<1>2. PICK k \in 0..Cardinality(Nodes) : \E s \in [1..k -> InStack] : IsList(s, k)
  BY DEF NoProductLost
<1>3. PICK s \in [1..k -> InStack] : IsList(s, k)
  BY <1>2
<1>4. CASE k = 0
  BY <1>1, <1>3, <1>4 DEF IsList
<1>5. CASE k # 0
  <2>1. k \in Nat /\ 1 \in 1..k /\ head = s[1]
    BY <1>1, <1>3, <1>5 DEF IsList
  <2>2. next[s[1]] = IF 1 = k THEN NULL ELSE s[2]
    BY <1>3, <2>1 DEF IsList
  <2>3. k # 1 => 2 \in 1..k
    BY <2>1
  <2>. QED  BY <2>1, <2>2, <2>3
<1>. QED  BY <1>4, <1>5

\* A consumer that finds head NULL has an empty stack before it.
LEMMA EmptyStack ==
  ASSUME TypeOK, NoProductLost, head = NULL
  PROVE  InStack = {}
<1>1. Cardinality(Nodes) \in Nat
  BY StackAssumption, FS_CardinalityType
<1>2. PICK k \in 0..Cardinality(Nodes) : \E s \in [1..k -> InStack] :
             IsList(s, k) /\ InStack = {s[a] : a \in 1..k}
  BY DEF NoProductLost
<1>3. PICK s \in [1..k -> InStack] : IsList(s, k) /\ InStack = {s[a] : a \in 1..k}
  BY <1>2
<1>4. NULL \notin InStack
  BY StackAssumption DEF TypeOK, InStack
<1>5. k = 0
  BY <1>1, <1>3, <1>4 DEF IsList
<1>. QED  BY <1>3, <1>5

(* Types and loop bounds.  Pop and Report need to know that the pointer they
   follow is not NULL, which is what the other parts of IInv say. *)
LEMMA TypeStep ==
  ASSUME IInv, [Next]_stackVars
  PROVE  TypeOK' /\ RoundInv'
<1> USE StackAssumption DEF IInv, TypeOK, RoundInv, Goto, LoopStart, ProducerPC,
        ConsumerPC, Threads, Pointers
<1>1. ASSUME NEW t \in Threads, Create(t) PROVE TypeOK' /\ RoundInv'
  BY <1>1 DEF Create
<1>2. ASSUME NEW t \in Threads, Acquire(t) PROVE TypeOK' /\ RoundInv'
  BY <1>2 DEF Acquire
<1>3. ASSUME NEW t \in Threads, Unlock(t) PROVE TypeOK' /\ RoundInv'
  BY <1>3 DEF Unlock
<1>4. ASSUME NEW t \in Threads, NextRound(t) PROVE TypeOK' /\ RoundInv'
  BY <1>4 DEF NextRound
<1>5. ASSUME NEW p \in Producers, Malloc(p) PROVE TypeOK' /\ RoundInv'
  <2>1. <<p, round[p] + 1>> \in Products
    BY <1>5 DEF Malloc, Products
  <2>. QED  BY <1>5, <2>1 DEF Malloc
<1>6. ASSUME NEW p \in Producers, Link(p) PROVE TypeOK' /\ RoundInv'
  BY <1>6 DEF Link
<1>7. ASSUME NEW p \in Producers, Push(p) PROVE TypeOK' /\ RoundInv'
  BY <1>7 DEF Push
<1>8. ASSUME NEW p \in Producers, Signal(p) PROVE TypeOK' /\ RoundInv'
  BY <1>8 DEF Signal, Waiting
<1>9. ASSUME NEW c \in Consumers, TestNonEmpty(c) PROVE TypeOK' /\ RoundInv'
  BY <1>9 DEF TestNonEmpty
<1>10. ASSUME NEW c \in Consumers, Wait(c) PROVE TypeOK' /\ RoundInv'
  BY <1>10 DEF Wait
<1>11. ASSUME NEW c \in Consumers, Reacquire(c) PROVE TypeOK' /\ RoundInv'
  BY <1>11 DEF Reacquire
<1>12. ASSUME NEW c \in Consumers, Take(c) PROVE TypeOK' /\ RoundInv'
  BY <1>12 DEF Take
<1>13. ASSUME NEW c \in Consumers, Pop(c) PROVE TypeOK' /\ RoundInv'
  <2>1. next[mp[c]] \in Pointers
    BY <1>13, StackHead DEF Pop, LocalInv, InStack
  <2>. QED  BY <1>13, <2>1 DEF Pop
<1>14. ASSUME NEW c \in Consumers, Report(c) PROVE TypeOK' /\ RoundInv'
  <2>1. num[mp[c]] \in Products
    BY <1>14 DEF Report, OwnershipInv, Owns, ProductInv
  <2>. QED  BY <1>14, <2>1 DEF Report
<1>15. ASSUME NEW c \in Consumers, Free(c) PROVE TypeOK' /\ RoundInv'
  BY <1>15 DEF Free
<1>16. ASSUME NEW c \in Consumers, SpuriousWakeup(c) PROVE TypeOK' /\ RoundInv'
  BY <1>16 DEF SpuriousWakeup
<1>17. CASE UNCHANGED stackVars
  BY <1>17 DEF stackVars
<1>. QED
  BY <1>1, <1>2, <1>3, <1>4, <1>5, <1>6, <1>7, <1>8, <1>9,
     <1>10, <1>11, <1>12, <1>13, <1>14, <1>15, <1>16, <1>17
     DEF Next, ThreadStep, ProducerStep, ConsumerStep, Threads

(* A thread enters its critical section only through a free mutex and frees
   the mutex when it leaves. *)
LEMMA MutexStep ==
  ASSUME TypeOK, MutexInv, [Next]_stackVars
  PROVE  MutexInv'
<1> USE StackAssumption DEF TypeOK, MutexInv, InCritical, Goto, LoopStart,
        ProducerPC, ConsumerPC, Threads
<1>1. ASSUME NEW t \in Threads, Create(t) PROVE MutexInv'
  BY <1>1 DEF Create
<1>2. ASSUME NEW t \in Threads, Acquire(t) PROVE MutexInv'
  BY <1>2 DEF Acquire
<1>3. ASSUME NEW t \in Threads, Unlock(t) PROVE MutexInv'
  BY <1>3 DEF Unlock
<1>4. ASSUME NEW t \in Threads, NextRound(t) PROVE MutexInv'
  BY <1>4 DEF NextRound
<1>5. ASSUME NEW p \in Producers, Malloc(p) PROVE MutexInv'
  BY <1>5 DEF Malloc
<1>6. ASSUME NEW p \in Producers, Link(p) PROVE MutexInv'
  BY <1>6 DEF Link
<1>7. ASSUME NEW p \in Producers, Push(p) PROVE MutexInv'
  BY <1>7 DEF Push
<1>8. ASSUME NEW p \in Producers, Signal(p) PROVE MutexInv'
  BY <1>8 DEF Signal, Waiting
<1>9. ASSUME NEW c \in Consumers, TestNonEmpty(c) PROVE MutexInv'
  BY <1>9 DEF TestNonEmpty
<1>10. ASSUME NEW c \in Consumers, Wait(c) PROVE MutexInv'
  BY <1>10 DEF Wait
<1>11. ASSUME NEW c \in Consumers, Reacquire(c) PROVE MutexInv'
  BY <1>11 DEF Reacquire
<1>12. ASSUME NEW c \in Consumers, Take(c) PROVE MutexInv'
  BY <1>12 DEF Take
<1>13. ASSUME NEW c \in Consumers, Pop(c) PROVE MutexInv'
  BY <1>13 DEF Pop
<1>14. ASSUME NEW c \in Consumers, Report(c) PROVE MutexInv'
  BY <1>14 DEF Report
<1>15. ASSUME NEW c \in Consumers, Free(c) PROVE MutexInv'
  BY <1>15 DEF Free
<1>16. ASSUME NEW c \in Consumers, SpuriousWakeup(c) PROVE MutexInv'
  BY <1>16 DEF SpuriousWakeup
<1>17. CASE UNCHANGED stackVars
  BY <1>17 DEF stackVars
<1>. QED
  BY <1>1, <1>2, <1>3, <1>4, <1>5, <1>6, <1>7, <1>8, <1>9,
     <1>10, <1>11, <1>12, <1>13, <1>14, <1>15, <1>16, <1>17
     DEF Next, ThreadStep, ProducerStep, ConsumerStep, Threads

(* malloc returns a node nobody knows, and the node a consumer pops was on the
   stack, so a thread that becomes an owner is the only one. *)
LEMMA OwnershipStep ==
  ASSUME IInv, [Next]_stackVars
  PROVE  OwnershipInv'
<1> USE StackAssumption DEF IInv, TypeOK, OwnershipInv, Owns, Goto, LoopStart,
        ProducerPC, ConsumerPC, Threads
<1>1. ASSUME NEW t \in Threads, Create(t) PROVE OwnershipInv'
  BY <1>1 DEF Create
<1>2. ASSUME NEW t \in Threads, Acquire(t) PROVE OwnershipInv'
  BY <1>2 DEF Acquire
<1>3. ASSUME NEW t \in Threads, Unlock(t) PROVE OwnershipInv'
  BY <1>3 DEF Unlock
<1>4. ASSUME NEW t \in Threads, NextRound(t) PROVE OwnershipInv'
  BY <1>4 DEF NextRound
<1>5. ASSUME NEW p \in Producers, Malloc(p) PROVE OwnershipInv'
  BY <1>5 DEF Malloc
<1>6. ASSUME NEW p \in Producers, Link(p) PROVE OwnershipInv'
  BY <1>6 DEF Link
<1>7. ASSUME NEW p \in Producers, Push(p) PROVE OwnershipInv'
  BY <1>7 DEF Push
<1>8. ASSUME NEW p \in Producers, Signal(p) PROVE OwnershipInv'
  BY <1>8 DEF Signal, Waiting
<1>9. ASSUME NEW c \in Consumers, TestNonEmpty(c) PROVE OwnershipInv'
  BY <1>9 DEF TestNonEmpty
<1>10. ASSUME NEW c \in Consumers, Wait(c) PROVE OwnershipInv'
  BY <1>10 DEF Wait
<1>11. ASSUME NEW c \in Consumers, Reacquire(c) PROVE OwnershipInv'
  BY <1>11 DEF Reacquire
<1>12. ASSUME NEW c \in Consumers, Take(c) PROVE OwnershipInv'
  BY <1>12 DEF Take
<1>13. ASSUME NEW c \in Consumers, Pop(c) PROVE OwnershipInv'
  <2>1. mp[c] \in InStack
    BY <1>13, StackHead DEF Pop, LocalInv
  <2>. QED  BY <1>13, <2>1 DEF Pop, InStack, Owned
<1>14. ASSUME NEW c \in Consumers, Report(c) PROVE OwnershipInv'
  BY <1>14 DEF Report
<1>15. ASSUME NEW c \in Consumers, Free(c) PROVE OwnershipInv'
  BY <1>15 DEF Free
<1>16. ASSUME NEW c \in Consumers, SpuriousWakeup(c) PROVE OwnershipInv'
  BY <1>16 DEF SpuriousWakeup
<1>17. CASE UNCHANGED stackVars
  BY <1>17 DEF stackVars
<1>. QED
  BY <1>1, <1>2, <1>3, <1>4, <1>5, <1>6, <1>7, <1>8, <1>9,
     <1>10, <1>11, <1>12, <1>13, <1>14, <1>15, <1>16, <1>17
     DEF Next, ThreadStep, ProducerStep, ConsumerStep, Threads

(* Only the owner of the mutex writes head, or next of a node it is pushing. *)
LEMMA LocalStep ==
  ASSUME IInv, [Next]_stackVars
  PROVE  LocalInv'
<1> USE StackAssumption DEF IInv, TypeOK, OwnershipInv, Owns, LocalInv, MutexInv,
        InCritical, Goto, LoopStart,
        ProducerPC, ConsumerPC, Threads
<1>1. ASSUME NEW t \in Threads, Create(t) PROVE LocalInv'
  BY <1>1 DEF Create
<1>2. ASSUME NEW t \in Threads, Acquire(t) PROVE LocalInv'
  BY <1>2 DEF Acquire
<1>3. ASSUME NEW t \in Threads, Unlock(t) PROVE LocalInv'
  BY <1>3 DEF Unlock
<1>4. ASSUME NEW t \in Threads, NextRound(t) PROVE LocalInv'
  BY <1>4 DEF NextRound
<1>5. ASSUME NEW p \in Producers, Malloc(p) PROVE LocalInv'
  BY <1>5 DEF Malloc
<1>6. ASSUME NEW p \in Producers, Link(p) PROVE LocalInv'
  BY <1>6 DEF Link
<1>7. ASSUME NEW p \in Producers, Push(p) PROVE LocalInv'
  BY <1>7 DEF Push
<1>8. ASSUME NEW p \in Producers, Signal(p) PROVE LocalInv'
  BY <1>8 DEF Signal, Waiting
<1>9. ASSUME NEW c \in Consumers, TestNonEmpty(c) PROVE LocalInv'
  BY <1>9 DEF TestNonEmpty
<1>10. ASSUME NEW c \in Consumers, Wait(c) PROVE LocalInv'
  BY <1>10 DEF Wait
<1>11. ASSUME NEW c \in Consumers, Reacquire(c) PROVE LocalInv'
  BY <1>11 DEF Reacquire
<1>12. ASSUME NEW c \in Consumers, Take(c) PROVE LocalInv'
  BY <1>12 DEF Take
<1>13. ASSUME NEW c \in Consumers, Pop(c) PROVE LocalInv'
  BY <1>13 DEF Pop
<1>14. ASSUME NEW c \in Consumers, Report(c) PROVE LocalInv'
  BY <1>14 DEF Report
<1>15. ASSUME NEW c \in Consumers, Free(c) PROVE LocalInv'
  BY <1>15 DEF Free
<1>16. ASSUME NEW c \in Consumers, SpuriousWakeup(c) PROVE LocalInv'
  BY <1>16 DEF SpuriousWakeup
<1>17. CASE UNCHANGED stackVars
  BY <1>17 DEF stackVars
<1>. QED
  BY <1>1, <1>2, <1>3, <1>4, <1>5, <1>6, <1>7, <1>8, <1>9,
     <1>10, <1>11, <1>12, <1>13, <1>14, <1>15, <1>16, <1>17
     DEF Next, ThreadStep, ProducerStep, ConsumerStep, Threads

(* Steps that neither move a node nor change a link keep the list. *)
LEMMA SameList ==
  ASSUME NoProductLost, InStack' = InStack, head' = head,
         \A n \in InStack : next'[n] = next[n]
  PROVE  NoProductLost'
<1>1. PICK k \in 0..Cardinality(Nodes) : \E s \in [1..k -> InStack] :
             IsList(s, k) /\ InStack = {s[a] : a \in 1..k}
  BY DEF NoProductLost
<1>2. PICK s \in [1..k -> InStack] : IsList(s, k) /\ InStack = {s[a] : a \in 1..k}
  BY <1>1
<1>3. IsList(s, k)'
  BY <1>2 DEF IsList
<1>. QED  BY <1>2, <1>3 DEF NoProductLost

(* InStack depends on the memory and on who owns which node. *)
LEMMA SameOwners ==
  ASSUME allocated' = allocated,
         \A t \in Threads : Owns(t)' <=> Owns(t),
         \A t \in Threads : Owns(t) => mp'[t] = mp[t]
  PROVE  InStack' = InStack
<1>1. Owned' = Owned
  BY DEF Owned
<1>. QED  BY <1>1 DEF InStack

(* A node put in front of a list makes a list. *)
LEMMA PushList ==
  ASSUME TypeOK, NoProductLost, NEW n \in Nodes, n \notin InStack, next[n] = head,
         InStack' = InStack \cup {n}, head' = n, next' = next
  PROVE  NoProductLost'
<1>1. Cardinality(Nodes) \in Nat
  BY StackAssumption, FS_CardinalityType
<1>2. PICK k \in 0..Cardinality(Nodes) : \E s \in [1..k -> InStack] :
             IsList(s, k) /\ InStack = {s[a] : a \in 1..k}
  BY DEF NoProductLost
<1>3. PICK s \in [1..k -> InStack] : IsList(s, k) /\ InStack = {s[a] : a \in 1..k}
  BY <1>2
<1> DEFINE r == [a \in 1..(k + 1) |-> IF a = 1 THEN n ELSE s[a - 1]]
<1>4. k \in Nat /\ r \in [1..(k + 1) -> InStack'] /\ InStack' \subseteq Nodes
  BY <1>1, <1>3 DEF TypeOK, InStack
<1>5. \A a, b \in 1..(k + 1) : r[a] = r[b] => a = b
  BY <1>3, <1>4 DEF IsList
<1>6. \A a \in 1..(k + 1) : next[r[a]] = IF a = k + 1 THEN NULL ELSE r[a + 1]
  <2> SUFFICES ASSUME NEW a \in 1..(k + 1)
               PROVE  next[r[a]] = IF a = k + 1 THEN NULL ELSE r[a + 1]
    OBVIOUS
  <2>1. CASE a = 1
    BY <1>3, <1>4, <2>1 DEF IsList
  <2>2. CASE a # 1
    <3>1. a - 1 \in 1..k /\ r[a] = s[a - 1]
      BY <1>4, <2>2
    <3>2. next[s[a - 1]] = IF a - 1 = k THEN NULL ELSE s[(a - 1) + 1]
      BY <1>3, <3>1 DEF IsList
    <3>3. a # k + 1 => r[a + 1] = s[(a - 1) + 1]
      BY <1>4, <3>1
    <3>. QED  BY <1>4, <3>1, <3>2, <3>3
  <2>. QED  BY <2>1, <2>2
<1>7. IsList(r, k + 1)'
  BY <1>4, <1>5, <1>6 DEF IsList
<1>8. InStack' = {r[a] : a \in 1..(k + 1)}
  <2>1. ASSUME NEW m \in InStack PROVE \E a \in 1..(k + 1) : m = r[a]
    <3>1. PICK b \in 1..k : m = s[b]
      BY <1>3
    <3>2. b + 1 \in 1..(k + 1) /\ r[b + 1] = s[b]
      BY <1>4
    <3>. QED  BY <3>1, <3>2
  <2>2. 1 \in 1..(k + 1) /\ r[1] = n
    BY <1>4
  <2>. QED  BY <1>4, <2>1, <2>2
<1>9. k + 1 \in 0..Cardinality(Nodes)
  <2>1. r \in Injection(1..(k + 1), Nodes)
    BY <1>4, <1>5 DEF Injection, IsInjective
  <2>2. Cardinality(1..(k + 1)) <= Cardinality(Nodes)
    BY <2>1, StackAssumption, FS_Injection
  <2>3. Cardinality(1..(k + 1)) = k + 1
    BY <1>4, FS_Interval
  <2>. QED  BY <1>1, <1>4, <2>2, <2>3
<1>. QED  BY <1>4, <1>7, <1>8, <1>9 DEF NoProductLost

(* The rest of a list is a list. *)
LEMMA PopList ==
  ASSUME TypeOK, NoProductLost, head # NULL,
         InStack' = InStack \ {head}, head' = next[head], next' = next
  PROVE  NoProductLost'
<1>1. Cardinality(Nodes) \in Nat
  BY StackAssumption, FS_CardinalityType
<1>2. PICK k \in 0..Cardinality(Nodes) : \E s \in [1..k -> InStack] :
             IsList(s, k) /\ InStack = {s[a] : a \in 1..k}
  BY DEF NoProductLost
<1>3. PICK s \in [1..k -> InStack] : IsList(s, k) /\ InStack = {s[a] : a \in 1..k}
  BY <1>2
<1>4. k \in Nat /\ k # 0 /\ 1 \in 1..k /\ head = s[1]
  BY <1>1, <1>3 DEF IsList
<1> DEFINE r == [a \in 1..(k - 1) |-> s[a + 1]]
<1>5. \A a \in 1..(k - 1) : a + 1 \in 1..k /\ r[a] = s[a + 1]
  BY <1>4
<1>6. \A a \in 1..(k - 1) : s[a + 1] # s[1]
  BY <1>3, <1>4, <1>5 DEF IsList
<1>7. r \in [1..(k - 1) -> InStack']
  BY <1>3, <1>4, <1>5, <1>6
<1>8. IsList(r, k - 1)'
  <2>1. \A a, b \in 1..(k - 1) : r[a] = r[b] => a = b
    BY <1>3, <1>4, <1>5 DEF IsList
  <2>2. next[s[1]] = IF k = 1 THEN NULL ELSE s[2]
    BY <1>3, <1>4 DEF IsList
  <2>3. head' = IF k - 1 = 0 THEN NULL ELSE r[1]
    BY <1>4, <1>5, <2>2
  <2>4. \A a \in 1..(k - 1) : next[r[a]] = IF a = k - 1 THEN NULL ELSE r[a + 1]
    <3> SUFFICES ASSUME NEW a \in 1..(k - 1)
                 PROVE  next[r[a]] = IF a = k - 1 THEN NULL ELSE r[a + 1]
      OBVIOUS
    <3>1. next[s[a + 1]] = IF a + 1 = k THEN NULL ELSE s[(a + 1) + 1]
      BY <1>3, <1>5 DEF IsList
    <3>2. a # k - 1 => a + 1 \in 1..(k - 1) /\ r[a + 1] = s[(a + 1) + 1]
      BY <1>4
    <3>. QED  BY <1>4, <1>5, <3>1, <3>2
  <2>. QED  BY <2>1, <2>3, <2>4 DEF IsList
<1>9. InStack' = {r[a] : a \in 1..(k - 1)}
  <2>1. ASSUME NEW m \in InStack' PROVE \E a \in 1..(k - 1) : m = r[a]
    <3>1. PICK b \in 1..k : m = s[b]
      BY <1>3
    <3>2. b # 1
      BY <1>4, <3>1
    <3>3. b - 1 \in 1..(k - 1) /\ r[b - 1] = s[b]
      BY <1>4, <3>2
    <3>. QED  BY <3>1, <3>3
  <2>. QED  BY <1>7, <2>1
<1>10. k - 1 \in 0..Cardinality(Nodes)
  BY <1>1, <1>4
<1> HIDE DEF r
<1>. QED  BY <1>7, <1>8, <1>9, <1>10 DEF NoProductLost

(* Push adds the producer's node in front of the list, Pop removes the first
   node, and nothing else changes the list. *)
LEMMA ListStep ==
  ASSUME IInv, [Next]_stackVars
  PROVE  NoProductLost'
<1> USE StackAssumption DEF IInv, TypeOK, OwnershipInv, Owns, Goto, LoopStart,
        ProducerPC, ConsumerPC, Threads
<1>1. ASSUME NEW t \in Threads, Create(t) PROVE NoProductLost'
  <2>1. InStack' = InStack
    BY <1>1, SameOwners DEF Create
  <2>. QED  BY <1>1, <2>1, SameList DEF Create
<1>2. ASSUME NEW t \in Threads, Acquire(t) PROVE NoProductLost'
  <2>1. InStack' = InStack
    BY <1>2, SameOwners DEF Acquire
  <2>. QED  BY <1>2, <2>1, SameList DEF Acquire
<1>3. ASSUME NEW t \in Threads, Unlock(t) PROVE NoProductLost'
  <2>1. InStack' = InStack
    BY <1>3, SameOwners DEF Unlock
  <2>. QED  BY <1>3, <2>1, SameList DEF Unlock
<1>4. ASSUME NEW t \in Threads, NextRound(t) PROVE NoProductLost'
  <2>1. InStack' = InStack
    BY <1>4, SameOwners DEF NextRound
  <2>. QED  BY <1>4, <2>1, SameList DEF NextRound
<1>5. ASSUME NEW p \in Producers, Malloc(p) PROVE NoProductLost'
  <2>1. PICK n \in Nodes \ allocated : mp' = [mp EXCEPT ![p] = n] /\ allocated' = allocated \cup {n}
    BY <1>5 DEF Malloc
  <2>2. Owned' = Owned \cup {n}
    BY <1>5, <2>1 DEF Malloc, Owned
  <2>3. InStack' = InStack
    BY <2>1, <2>2 DEF InStack, Owned
  <2>. QED  BY <1>5, <2>3, SameList DEF Malloc
<1>6. ASSUME NEW p \in Producers, Link(p) PROVE NoProductLost'
  <2>1. InStack' = InStack
    BY <1>6, SameOwners DEF Link
  <2>2. mp[p] \notin InStack
    BY <1>6 DEF Link, InStack, Owned
  <2>. QED  BY <1>6, <2>1, <2>2, SameList DEF Link
<1>7. ASSUME NEW p \in Producers, Push(p) PROVE NoProductLost'
  <2> DEFINE n == mp[p]
  <2>1. n \in allocated /\ n \in Nodes /\ n \notin InStack /\ next[n] = head
    BY <1>7 DEF Push, LocalInv, InStack, Owned
  <2>2. Owned' = Owned \ {n} /\ InStack' = InStack \cup {n}
    BY <1>7, <2>1 DEF Push, InStack, Owned
  <2>. QED  BY <1>7, <2>1, <2>2, PushList DEF Push
<1>8. ASSUME NEW p \in Producers, Signal(p) PROVE NoProductLost'
  <2>1. InStack' = InStack
    BY <1>8, SameOwners DEF Signal, Waiting
  <2>. QED  BY <1>8, <2>1, SameList DEF Signal, Waiting
<1>9. ASSUME NEW c \in Consumers, TestNonEmpty(c) PROVE NoProductLost'
  <2>1. InStack' = InStack
    BY <1>9, SameOwners DEF TestNonEmpty
  <2>. QED  BY <1>9, <2>1, SameList DEF TestNonEmpty
<1>10. ASSUME NEW c \in Consumers, Wait(c) PROVE NoProductLost'
  <2>1. InStack' = InStack
    BY <1>10, SameOwners DEF Wait
  <2>. QED  BY <1>10, <2>1, SameList DEF Wait
<1>11. ASSUME NEW c \in Consumers, Reacquire(c) PROVE NoProductLost'
  <2>1. InStack' = InStack
    BY <1>11, SameOwners DEF Reacquire
  <2>. QED  BY <1>11, <2>1, SameList DEF Reacquire
<1>12. ASSUME NEW c \in Consumers, Take(c) PROVE NoProductLost'
  <2>1. InStack' = InStack
    BY <1>12, SameOwners DEF Take
  <2>. QED  BY <1>12, <2>1, SameList DEF Take
<1>13. ASSUME NEW c \in Consumers, Pop(c) PROVE NoProductLost'
  <2>1. mp[c] = head /\ head # NULL /\ head \in InStack
    BY <1>13, StackHead DEF Pop, LocalInv
  <2>2. Owned' = Owned \cup {head} /\ InStack' = InStack \ {head}
    BY <1>13, <2>1 DEF Pop, InStack, Owned
  <2>. QED  BY <1>13, <2>1, <2>2, PopList DEF Pop
<1>14. ASSUME NEW c \in Consumers, Report(c) PROVE NoProductLost'
  <2>1. InStack' = InStack
    BY <1>14, SameOwners DEF Report
  <2>. QED  BY <1>14, <2>1, SameList DEF Report
<1>15. ASSUME NEW c \in Consumers, Free(c) PROVE NoProductLost'
  <2>1. Owned' = Owned \ {mp[c]} /\ mp[c] \in Owned
    BY <1>15 DEF Free, Owned
  <2>2. InStack' = InStack
    BY <1>15, <2>1 DEF Free, InStack
  <2>. QED  BY <1>15, <2>2, SameList DEF Free
<1>16. ASSUME NEW c \in Consumers, SpuriousWakeup(c) PROVE NoProductLost'
  <2>1. InStack' = InStack
    BY <1>16, SameOwners DEF SpuriousWakeup
  <2>. QED  BY <1>16, <2>1, SameList DEF SpuriousWakeup
<1>17. CASE UNCHANGED stackVars
  <2>1. InStack' = InStack
    BY <1>17, SameOwners DEF stackVars
  <2>. QED  BY <1>17, <2>1, SameList DEF stackVars
<1>. QED
  BY <1>1, <1>2, <1>3, <1>4, <1>5, <1>6, <1>7, <1>8, <1>9,
     <1>10, <1>11, <1>12, <1>13, <1>14, <1>15, <1>16, <1>17
     DEF Next, ThreadStep, ProducerStep, ConsumerStep, Threads

(* A step that changes neither the memory nor the report, takes back no
   product and neither reaches nor leaves free keeps the product facts. *)
LEMMA SameProducts ==
  ASSUME ProductInv, TypeOK,
         num' = num, allocated' = allocated, consumed' = consumed,
         \A p \in Producers : Made'[p] = Made[p],
         \A c \in Consumers : /\ pc'[c] = "free" <=> pc[c] = "free"
                              /\ pc[c] = "free" => mp'[c] = mp[c]
  PROVE  ProductInv'
<1>1. \A x \in Products : x[1] \in Producers /\ Made'[x[1]] = Made[x[1]]
  BY DEF Products
<1>2. \A x \in consumed : x[2] <= Made'[x[1]]
  BY <1>1 DEF ProductInv, TypeOK
<1>3. \A n \in allocated : num[n][2] <= Made'[num[n][1]]
  BY <1>1 DEF ProductInv
<1>4. ASSUME NEW n \in allocated, num[n] \in consumed
      PROVE  \E c \in Consumers : pc'[c] = "free" /\ mp'[c] = n
  BY <1>4 DEF ProductInv
<1>5. ASSUME NEW c \in Consumers, pc'[c] = "free"
      PROVE  num[mp'[c]] \in consumed
  <2>1. pc[c] = "free" /\ mp'[c] = mp[c]
    BY <1>5
  <2>. QED  BY <2>1 DEF ProductInv
<1>6. \A m, n \in allocated : num[m] = num[n] => m = n
  BY DEF ProductInv
<1>7. \A n \in allocated : num[n] \in Products
  BY DEF ProductInv
<1>. QED  BY <1>2, <1>3, <1>4, <1>5, <1>6, <1>7 DEF ProductInv

(* A product gets its number from its maker's loop counter, so the one malloc
   has just been made for is new; it leaves memory when it was reported. *)
LEMMA ProductStep ==
  ASSUME IInv, [Next]_stackVars
  PROVE  ProductInv'
<1> USE StackAssumption DEF IInv, TypeOK, Goto, LoopStart, ProducerPC, ConsumerPC,
        Threads, Made
<1>1. ASSUME NEW t \in Threads, Create(t) PROVE ProductInv'
  BY <1>1, SameProducts DEF Create
<1>2. ASSUME NEW t \in Threads, Acquire(t) PROVE ProductInv'
  BY <1>2, SameProducts DEF Acquire
<1>3. ASSUME NEW t \in Threads, Unlock(t) PROVE ProductInv'
  BY <1>3, SameProducts DEF Unlock
<1>4. ASSUME NEW t \in Threads, NextRound(t) PROVE ProductInv'
  BY <1>4, SameProducts DEF NextRound
<1>5. ASSUME NEW p \in Producers, Malloc(p) PROVE ProductInv'
  <2>1. PICK n \in Nodes \ allocated :
               /\ mp' = [mp EXCEPT ![p] = n]
               /\ num' = [num EXCEPT ![n] = <<p, round[p] + 1>>]
               /\ allocated' = allocated \cup {n}
    BY <1>5 DEF Malloc
  <2> DEFINE new == <<p, round[p] + 1>>
  <2>2. new \in Products /\ new[1] = p /\ new[2] = round[p] + 1 /\ num'[n] = new
    BY <1>5, <2>1 DEF Malloc, Products, RoundInv
  <2>3. /\ pc[p] = "malloc" /\ pc' = [pc EXCEPT ![p] = "lock"]
        /\ round' = round /\ consumed' = consumed
    BY <1>5 DEF Malloc
  <2>4. Made[p] = round[p] /\ Made'[p] = round[p] + 1
    BY <2>3
  <2>5. \A q \in Producers : Made[q] <= Made'[q] /\ Made[q] \in Nat /\ Made'[q] \in Nat
    BY <2>3
  <2>6. \A x \in Products : x[1] \in Producers /\ x[2] \in Nat
    BY DEF Products
  <2> HIDE DEF new, Made
  <2>7. \A m \in allocated : num'[m] = num[m] /\ num[m] # new
    <3>1. \A m \in allocated : num'[m] = num[m]
      BY <2>1
    <3>2. ASSUME NEW m \in allocated, num[m] = new PROVE FALSE
      BY <2>2, <2>4, <3>2 DEF ProductInv
    <3>. QED  BY <3>1, <3>2
  <2>8. new \notin consumed
    BY <2>2, <2>4 DEF ProductInv
  <2>9. \A m \in allocated' : num'[m] \in Products /\ num'[m][2] <= Made'[num'[m][1]]
    <3>1. num'[n][2] <= Made'[num'[n][1]]
      BY <2>2, <2>4, <2>5
    <3>2. ASSUME NEW m \in allocated PROVE num[m][2] <= Made'[num[m][1]]
      <4>1. num[m] \in Products /\ num[m][2] <= Made[num[m][1]]
        BY DEF ProductInv
      <4>. QED  BY <4>1, <2>5, <2>6
    <3>. QED  BY <2>1, <2>2, <2>7, <3>1, <3>2 DEF ProductInv
  <2>10. \A x \in consumed' : x[2] <= Made'[x[1]]
    <3> SUFFICES ASSUME NEW x \in consumed PROVE x[2] <= Made'[x[1]]
      BY <2>3
    <3>1. x \in Products /\ x[2] <= Made[x[1]]
      BY DEF ProductInv
    <3>. QED  BY <3>1, <2>5, <2>6
  <2>11. \A a, b \in allocated' : num'[a] = num'[b] => a = b
    BY <2>1, <2>2, <2>7 DEF ProductInv
  <2>12. \A c \in Consumers : /\ pc'[c] = "free" <=> pc[c] = "free"
                              /\ mp'[c] = mp[c]
    BY <2>1, <2>3
  <2>13. \A m \in allocated' : num'[m] \in consumed' =>
           \E c \in Consumers : pc'[c] = "free" /\ mp'[c] = m
    BY <2>1, <2>2, <2>3, <2>7, <2>8, <2>12 DEF ProductInv
  <2>14. \A c \in Consumers : pc'[c] = "free" => num'[mp'[c]] \in consumed'
    BY <2>3, <2>7, <2>12 DEF ProductInv, OwnershipInv, Owns
  <2>. QED  BY <2>9, <2>10, <2>11, <2>13, <2>14 DEF ProductInv
<1>6. ASSUME NEW p \in Producers, Link(p) PROVE ProductInv'
  BY <1>6, SameProducts DEF Link
<1>7. ASSUME NEW p \in Producers, Push(p) PROVE ProductInv'
  BY <1>7, SameProducts DEF Push
<1>8. ASSUME NEW p \in Producers, Signal(p) PROVE ProductInv'
  BY <1>8, SameProducts DEF Signal, Waiting
<1>9. ASSUME NEW c \in Consumers, TestNonEmpty(c) PROVE ProductInv'
  BY <1>9, SameProducts DEF TestNonEmpty
<1>10. ASSUME NEW c \in Consumers, Wait(c) PROVE ProductInv'
  BY <1>10, SameProducts DEF Wait
<1>11. ASSUME NEW c \in Consumers, Reacquire(c) PROVE ProductInv'
  BY <1>11, SameProducts DEF Reacquire
<1>12. ASSUME NEW c \in Consumers, Take(c) PROVE ProductInv'
  BY <1>12, SameProducts DEF Take
<1>13. ASSUME NEW c \in Consumers, Pop(c) PROVE ProductInv'
  BY <1>13, SameProducts DEF Pop
<1>14. ASSUME NEW c \in Consumers, Report(c) PROVE ProductInv'
  <2> DEFINE x == num[mp[c]]
  <2>1. mp[c] \in allocated /\ x \in Products /\ x[2] <= Made[x[1]]
    BY <1>14 DEF Report, OwnershipInv, Owns, ProductInv
  <2>2. /\ consumed' = consumed \cup {x} /\ pc' = [pc EXCEPT ![c] = "free"]
        /\ num' = num /\ allocated' = allocated /\ mp' = mp
    BY <1>14 DEF Report
  <2>3. \A p \in Producers : Made'[p] = Made[p]
    BY <1>14 DEF Report
  <2>4. \A y \in Products : Made'[y[1]] = Made[y[1]]
    BY <2>3 DEF Products
  <2> HIDE DEF Made, x
  <2>5. \A y \in consumed' : y[2] <= Made'[y[1]]
    BY <2>1, <2>2, <2>4 DEF ProductInv
  <2>6. \A n \in allocated' : num'[n] \in Products /\ num'[n][2] <= Made'[num'[n][1]]
    BY <2>2, <2>4 DEF ProductInv
  <2>7. \A n \in allocated : num[n] = x => n = mp[c]
    BY <2>1 DEF ProductInv, x
  <2>8. \A n \in allocated' : num'[n] \in consumed' =>
          \E d \in Consumers : pc'[d] = "free" /\ mp'[d] = n
    BY <2>2, <2>7 DEF ProductInv
  <2>9. \A d \in Consumers : pc'[d] = "free" => num'[mp'[d]] \in consumed'
    BY <2>2 DEF ProductInv, x
  <2>. QED  BY <2>2, <2>5, <2>6, <2>8, <2>9 DEF ProductInv
<1>15. ASSUME NEW c \in Consumers, Free(c) PROVE ProductInv'
  <2>1. /\ pc[c] = "free" /\ pc' = [pc EXCEPT ![c] = "sleep"]
        /\ allocated' = allocated \ {mp[c]}
        /\ num' = num /\ consumed' = consumed /\ mp' = mp
    BY <1>15 DEF Free
  <2>2. \A p \in Producers : Made'[p] = Made[p]
    BY <1>15 DEF Free
  <2>3. \A x \in Products : Made'[x[1]] = Made[x[1]]
    BY <2>2 DEF Products
  <2> HIDE DEF Made
  <2>4. \A x \in consumed' : x[2] <= Made'[x[1]]
    BY <2>1, <2>3 DEF ProductInv
  <2>5. \A n \in allocated' : num'[n] \in Products /\ num'[n][2] <= Made'[num'[n][1]]
    BY <2>1, <2>3 DEF ProductInv
  <2>6. \A n \in allocated' : num'[n] \in consumed' =>
          \E d \in Consumers : pc'[d] = "free" /\ mp'[d] = n
    BY <2>1 DEF ProductInv
  <2>. QED  BY <2>1, <2>4, <2>5, <2>6 DEF ProductInv
<1>16. ASSUME NEW c \in Consumers, SpuriousWakeup(c) PROVE ProductInv'
  BY <1>16, SameProducts DEF SpuriousWakeup
<1>17. CASE UNCHANGED stackVars
  BY <1>17, SameProducts DEF stackVars
<1>. QED
  BY <1>1, <1>2, <1>3, <1>4, <1>5, <1>6, <1>7, <1>8, <1>9,
     <1>10, <1>11, <1>12, <1>13, <1>14, <1>15, <1>16, <1>17
     DEF Next, ThreadStep, ProducerStep, ConsumerStep

-----------------------------------------------------------------------------
(* Before any thread is created the list is empty. *)
LEMMA InitIInv == StackInit => IInv
<1> SUFFICES ASSUME StackInit PROVE IInv
  OBVIOUS
<1> USE StackAssumption DEF StackInit, Threads
<1>1. TypeOK /\ RoundInv /\ MutexInv /\ OwnershipInv /\ LocalInv /\ ProductInv
  BY DEF TypeOK, RoundInv, MutexInv, InCritical, OwnershipInv, Owns, LocalInv,
         ProductInv, ProducerPC, ConsumerPC, Pointers
<1>2. NoProductLost
  <2>1. 0 \in 0..Cardinality(Nodes) /\ 1..0 = {}
    BY FS_CardinalityType
  <2> DEFINE s == [a \in 1..0 |-> NULL]
  <2>2. InStack = {}
    BY DEF InStack
  <2>3. s \in [1..0 -> InStack] /\ IsList(s, 0) /\ InStack = {s[a] : a \in 1..0}
    BY <2>1, <2>2 DEF IsList
  <2> HIDE DEF s
  <2>. QED  BY <2>1, <2>3 DEF NoProductLost
<1>. QED  BY <1>1, <1>2 DEF IInv

(* IInv holds in every reachable state. *)
THEOREM Invariance == Spec => []IInv
<1>1. IInv /\ [Next]_stackVars => IInv'
  BY TypeStep, MutexStep, OwnershipStep, LocalStep, ListStep, ProductStep DEF IInv
<1>. QED  BY <1>1, InitIInv, PTL DEF Spec

(* Every variable keeps its type: no thread ever stores NULL or garbage where
   the code expects a node or a product. *)
THEOREM TypeCorrect == Spec => []TypeOK
<1>1. IInv => TypeOK
  BY DEF IInv
<1>. QED  BY <1>1, Invariance, PTL

(* The mutex protects the critical sections of producer() and consumer(). *)
THEOREM MutualExclusion == Spec => []MutexInv
<1>1. IInv => MutexInv
  BY DEF IInv
<1>. QED  BY <1>1, Invariance, PTL

(* No use after free, double free or NULL dereference, for any number of
   threads, although every consumer may wake without a signal. *)
THEOREM MemorySafety == Spec => []SafeDereference
<1>1. IInv => SafeDereference
  BY StackHead DEF IInv, SafeDereference, LocalInv
<1>. QED  BY <1>1, Invariance, PTL

(* No product is lost: the list and the set of unowned nodes always agree. *)
THEOREM ListIntegrity == Spec => []NoProductLost
<1>1. IInv => NoProductLost
  BY DEF IInv
<1>. QED  BY <1>1, Invariance, PTL

-----------------------------------------------------------------------------
(* Steps that move no product between stack, hands and report are stutters. *)
LEMMA PoolStutter ==
  ASSUME InStack' = InStack, consumed' = consumed,
         \A n \in InStack : num'[n] = num[n],
         \A c \in Consumers : pc'[c] \in {"unlock", "print"}
                               <=> pc[c] \in {"unlock", "print"},
         \A c \in Consumers : pc[c] \in {"unlock", "print"}
                               => num'[mp'[c]] = num[mp[c]]
  PROVE  UNCHANGED <<PooledProducts, HeldProducts, consumed>>
<1>1. PooledProducts' = PooledProducts
  BY DEF PooledProducts
<1>2. HeldProducts' = HeldProducts
  BY DEF HeldProducts
<1>. QED  BY <1>1, <1>2

(* Each step of a thread is a step of the pool or leaves it as it is. *)
LEMMA PoolStep ==
  ASSUME IInv, [Next]_stackVars
  PROVE  [Pool!Next]_Pool!poolVars
<1> USE StackAssumption DEF IInv, TypeOK, OwnershipInv, Owns, Goto, LoopStart,
        ProducerPC, ConsumerPC, Threads
<1> DEFINE Same == UNCHANGED <<PooledProducts, HeldProducts, consumed>>
<1>1. ASSUME NEW t \in Threads, Create(t) PROVE Same
  <2>1. InStack' = InStack
    BY <1>1, SameOwners DEF Create
  <2>. QED  BY <1>1, <2>1, PoolStutter DEF Create
<1>2. ASSUME NEW t \in Threads, Acquire(t) PROVE Same
  <2>1. InStack' = InStack
    BY <1>2, SameOwners DEF Acquire
  <2>. QED  BY <1>2, <2>1, PoolStutter DEF Acquire
<1>3. ASSUME NEW t \in Threads, Unlock(t) PROVE Same
  <2>1. InStack' = InStack
    BY <1>3, SameOwners DEF Unlock
  <2>. QED  BY <1>3, <2>1, PoolStutter DEF Unlock
<1>4. ASSUME NEW t \in Threads, NextRound(t) PROVE Same
  <2>1. InStack' = InStack
    BY <1>4, SameOwners DEF NextRound
  <2>. QED  BY <1>4, <2>1, PoolStutter DEF NextRound
<1>5. ASSUME NEW p \in Producers, Malloc(p) PROVE Same
  <2>1. PICK n \in Nodes \ allocated :
               /\ mp' = [mp EXCEPT ![p] = n]
               /\ num' = [num EXCEPT ![n] = <<p, round[p] + 1>>]
               /\ allocated' = allocated \cup {n}
    BY <1>5 DEF Malloc
  <2>2. Owned' = Owned \cup {n}
    BY <1>5, <2>1 DEF Malloc, Owned
  <2>3. InStack' = InStack /\ n \notin InStack
    BY <2>1, <2>2 DEF InStack, Owned
  <2>. QED  BY <1>5, <2>1, <2>3, PoolStutter DEF Malloc, InStack
<1>6. ASSUME NEW p \in Producers, Link(p) PROVE Same
  <2>1. InStack' = InStack
    BY <1>6, SameOwners DEF Link
  <2>. QED  BY <1>6, <2>1, PoolStutter DEF Link
<1>7. ASSUME NEW p \in Producers, Push(p) PROVE \E x \in Products : Pool!Put(x)
  <2> DEFINE n == mp[p]
             x == num[n]
  <2>1. n \in allocated /\ n \notin InStack /\ x \in Products
    BY <1>7 DEF Push, InStack, Owned, ProductInv
  <2>2. Owned' = Owned \ {n} /\ InStack' = InStack \cup {n}
    BY <1>7, <2>1 DEF Push, InStack, Owned
  <2>3. PooledProducts' = PooledProducts \cup {x}
    BY <1>7, <2>2 DEF Push, PooledProducts
  <2>4. HeldProducts' = HeldProducts
    BY <1>7 DEF Push, HeldProducts
  <2>5. x \notin PooledProducts
    BY <2>1 DEF PooledProducts, InStack, ProductInv
  <2>6. x \notin HeldProducts
    BY <1>7, <2>1 DEF Push, HeldProducts, ProductInv
  <2>7. x \notin consumed
    BY <1>7, <2>1 DEF Push, ProductInv
  <2>8. consumed' = consumed
    BY <1>7 DEF Push
  <2>. QED  BY <2>1, <2>3, <2>4, <2>5, <2>6, <2>7, <2>8 DEF Pool!Put, Pool!Fresh
<1>8. ASSUME NEW p \in Producers, Signal(p) PROVE Same
  <2>1. InStack' = InStack
    BY <1>8, SameOwners DEF Signal, Waiting
  <2>. QED  BY <1>8, <2>1, PoolStutter DEF Signal, Waiting
<1>9. ASSUME NEW c \in Consumers, TestNonEmpty(c) PROVE Same
  <2>1. InStack' = InStack
    BY <1>9, SameOwners DEF TestNonEmpty
  <2>. QED  BY <1>9, <2>1, PoolStutter DEF TestNonEmpty
<1>10. ASSUME NEW c \in Consumers, Wait(c) PROVE Same
  <2>1. InStack' = InStack
    BY <1>10, SameOwners DEF Wait
  <2>. QED  BY <1>10, <2>1, PoolStutter DEF Wait
<1>11. ASSUME NEW c \in Consumers, Reacquire(c) PROVE Same
  <2>1. InStack' = InStack
    BY <1>11, SameOwners DEF Reacquire
  <2>. QED  BY <1>11, <2>1, PoolStutter DEF Reacquire
<1>12. ASSUME NEW c \in Consumers, Take(c) PROVE Same
  <2>1. InStack' = InStack
    BY <1>12, SameOwners DEF Take
  <2>. QED  BY <1>12, <2>1, PoolStutter DEF Take
<1>13. ASSUME NEW c \in Consumers, Pop(c) PROVE \E x \in Products : Pool!Get(x)
  <2> DEFINE x == num[head]
  <2>1. mp[c] = head /\ head \in InStack /\ head \in allocated
    BY <1>13, StackHead DEF Pop, LocalInv, InStack
  <2>2. Owned' = Owned \cup {head} /\ InStack' = InStack \ {head}
    BY <1>13, <2>1 DEF Pop, InStack, Owned
  <2>3. x \in Products /\ x \in PooledProducts
    BY <2>1 DEF PooledProducts, ProductInv
  <2>4. \A n \in InStack : num[n] = x => n = head
    BY <2>1 DEF InStack, ProductInv
  <2>5. num' = num /\ mp' = mp /\ consumed' = consumed /\ pc' = [pc EXCEPT ![c] = "unlock"]
    BY <1>13 DEF Pop
  <2>6. PooledProducts' = PooledProducts \ {x}
    BY <2>2, <2>4, <2>5 DEF PooledProducts
  <2>7. HeldProducts' = HeldProducts \cup {x}
    BY <1>13, <2>1, <2>5 DEF Pop, HeldProducts
  <2>. QED  BY <2>3, <2>5, <2>6, <2>7 DEF Pool!Get
<1>14. ASSUME NEW c \in Consumers, Report(c) PROVE \E x \in Products : Pool!Consume(x)
  <2> DEFINE x == num[mp[c]]
  <2>1. x \in Products /\ x \in HeldProducts
    BY <1>14 DEF Report, HeldProducts, ProductInv
  <2>2. /\ pc[c] = "print" /\ pc' = [pc EXCEPT ![c] = "free"]
        /\ num' = num /\ mp' = mp /\ consumed' = consumed \cup {x}
    BY <1>14 DEF Report
  <2>3. InStack' = InStack /\ allocated' = allocated
    BY <1>14, SameOwners DEF Report
  <2>4. PooledProducts' = PooledProducts
    BY <2>2, <2>3 DEF PooledProducts
  <2>5. \A d \in Consumers \ {c} : pc[d] \in {"unlock", "print"} => num[mp[d]] # x
    BY <2>2 DEF ProductInv
  <2>6. HeldProducts' = HeldProducts \ {x}
    BY <2>2, <2>5 DEF HeldProducts
  <2>. QED  BY <2>1, <2>2, <2>4, <2>6 DEF Pool!Consume
<1>15. ASSUME NEW c \in Consumers, Free(c) PROVE Same
  <2>1. Owned' = Owned \ {mp[c]} /\ mp[c] \in Owned
    BY <1>15 DEF Free, Owned
  <2>2. InStack' = InStack
    BY <1>15, <2>1 DEF Free, InStack
  <2>. QED  BY <1>15, <2>2, PoolStutter DEF Free
<1>16. ASSUME NEW c \in Consumers, SpuriousWakeup(c) PROVE Same
  <2>1. InStack' = InStack
    BY <1>16, SameOwners DEF SpuriousWakeup
  <2>. QED  BY <1>16, <2>1, PoolStutter DEF SpuriousWakeup
<1>17. ASSUME UNCHANGED stackVars PROVE Same
  <2>1. InStack' = InStack
    BY <1>17, SameOwners DEF stackVars
  <2>. QED  BY <1>17, <2>1, PoolStutter DEF stackVars
<1> HIDE DEF IInv
<1>18. Same \/ \E x \in Products : Pool!Put(x) \/ Pool!Get(x) \/ Pool!Consume(x)
  BY <1>1, <1>2, <1>3, <1>4, <1>5, <1>6, <1>7, <1>8, <1>9,
     <1>10, <1>11, <1>12, <1>13, <1>14, <1>15, <1>16, <1>17
     DEF Next, ThreadStep, ProducerStep, ConsumerStep
<1>. QED  BY <1>18 DEF Pool!Next, Pool!poolVars

(* The threads implement the pool: whatever the schedule, each product is
   taken by one consumer and consumed once. *)
THEOREM PoolRefinement == Spec => PoolSpec
<1>1. StackInit => Pool!Init
  BY StackAssumption DEF StackInit, Pool!Init, PooledProducts, HeldProducts, InStack, Threads
<1>2. IInv /\ [Next]_stackVars => [Pool!Next]_Pool!poolVars
  BY PoolStep
<1>. QED  BY <1>1, <1>2, Invariance, PTL DEF Spec, PoolSpec, Pool!Spec

-----------------------------------------------------------------------------
LEMMA Countable ==
  ASSUME IsFiniteSet(Producers), IsFiniteSet(Consumers), TypeOK
  PROVE  /\ IsFiniteSet(InStack) /\ Cardinality(InStack) \in Nat
         /\ IsFiniteSet(Signalling) /\ Cardinality(Signalling) \in Nat
         /\ IsFiniteSet(Woken) /\ Cardinality(Woken) \in Nat
<1>1. InStack \in SUBSET Nodes /\ Signalling \in SUBSET Producers /\ Woken \in SUBSET Consumers
  BY DEF TypeOK, InStack, Signalling, Woken
<1>. QED  BY <1>1, StackAssumption, FS_Subset, FS_CardinalityType

\* Nobody starts to wait, nothing is pushed, and nobody on the way stops.
LEMMA SteadyWakeups ==
  ASSUME IsFiniteSet(Producers), IsFiniteSet(Consumers), TypeOK, TypeOK', NoLostWakeup,
         InStack' = InStack, Signalling' = Signalling, Woken \subseteq Woken',
         Waiting' \subseteq Waiting
  PROVE  NoLostWakeup'
<1>1. IsFiniteSet(Woken')
  BY FS_Subset DEF Woken
<1>2. Cardinality(Woken) <= Cardinality(Woken') /\ Cardinality(Woken') \in Nat
  BY <1>1, FS_Subset, FS_CardinalityType
<1>. QED  BY <1>2, Countable DEF NoLostWakeup

(* Only Push and Pop change the stack, by one node. *)
LEMMA StackMoves ==
  ASSUME IInv, [Next]_stackVars
  PROVE  /\ \A p \in Producers : Push(p) =>
              mp[p] \notin InStack /\ InStack' = InStack \cup {mp[p]}
         /\ \A c \in Consumers : Pop(c) => head \in InStack /\ InStack' = InStack \ {head}
         /\ \/ \E p \in Producers : Push(p)
            \/ \E c \in Consumers : Pop(c)
            \/ InStack' = InStack
<1> USE StackAssumption DEF IInv, TypeOK, OwnershipInv, Owns, Goto, LoopStart,
        ProducerPC, ConsumerPC, Threads
<1>1. ASSUME NEW t \in Threads, Create(t) PROVE InStack' = InStack
  BY <1>1, SameOwners DEF Create
<1>2. ASSUME NEW t \in Threads, Acquire(t) PROVE InStack' = InStack
  BY <1>2, SameOwners DEF Acquire
<1>3. ASSUME NEW t \in Threads, Unlock(t) PROVE InStack' = InStack
  BY <1>3, SameOwners DEF Unlock
<1>4. ASSUME NEW t \in Threads, NextRound(t) PROVE InStack' = InStack
  BY <1>4, SameOwners DEF NextRound
<1>5. ASSUME NEW p \in Producers, Malloc(p) PROVE InStack' = InStack
  <2>1. PICK n \in Nodes \ allocated :
               mp' = [mp EXCEPT ![p] = n] /\ allocated' = allocated \cup {n}
    BY <1>5 DEF Malloc
  <2>2. Owned' = Owned \cup {n}
    BY <1>5, <2>1 DEF Malloc, Owned
  <2>. QED  BY <2>1, <2>2 DEF InStack, Owned
<1>6. ASSUME NEW p \in Producers, Link(p) PROVE InStack' = InStack
  BY <1>6, SameOwners DEF Link
<1>7. ASSUME NEW p \in Producers, Push(p)
      PROVE  mp[p] \notin InStack /\ InStack' = InStack \cup {mp[p]}
  <2>1. mp[p] \in allocated /\ mp[p] \notin InStack
    BY <1>7 DEF Push, InStack, Owned
  <2>2. Owned' = Owned \ {mp[p]}
    BY <1>7, <2>1 DEF Push, InStack, Owned
  <2>. QED  BY <1>7, <2>1, <2>2 DEF Push, InStack, Owned
<1>8. ASSUME NEW p \in Producers, Signal(p) PROVE InStack' = InStack
  BY <1>8, SameOwners DEF Signal, Waiting
<1>9. ASSUME NEW c \in Consumers, TestNonEmpty(c) PROVE InStack' = InStack
  BY <1>9, SameOwners DEF TestNonEmpty
<1>10. ASSUME NEW c \in Consumers, Wait(c) PROVE InStack' = InStack
  BY <1>10, SameOwners DEF Wait
<1>11. ASSUME NEW c \in Consumers, Reacquire(c) PROVE InStack' = InStack
  BY <1>11, SameOwners DEF Reacquire
<1>12. ASSUME NEW c \in Consumers, Take(c) PROVE InStack' = InStack
  BY <1>12, SameOwners DEF Take
<1>13. ASSUME NEW c \in Consumers, Pop(c)
       PROVE  head \in InStack /\ InStack' = InStack \ {head}
  <2>1. mp[c] = head /\ head \in InStack /\ head \in allocated
    BY <1>13, StackHead DEF Pop, LocalInv, InStack
  <2>2. Owned' = Owned \cup {head}
    BY <1>13, <2>1 DEF Pop, InStack, Owned
  <2>. QED  BY <1>13, <2>1, <2>2 DEF Pop, InStack, Owned
<1>14. ASSUME NEW c \in Consumers, Report(c) PROVE InStack' = InStack
  BY <1>14, SameOwners DEF Report
<1>15. ASSUME NEW c \in Consumers, Free(c) PROVE InStack' = InStack
  <2>1. Owned' = Owned \ {mp[c]} /\ mp[c] \in Owned
    BY <1>15 DEF Free, Owned
  <2>. QED  BY <1>15, <2>1 DEF Free, InStack
<1>16. ASSUME NEW c \in Consumers, SpuriousWakeup(c) PROVE InStack' = InStack
  BY <1>16, SameOwners DEF SpuriousWakeup
<1>17. ASSUME UNCHANGED stackVars PROVE InStack' = InStack
  BY <1>17, SameOwners DEF stackVars
<1> HIDE DEF IInv
<1>. QED
  BY <1>1, <1>2, <1>3, <1>4, <1>5, <1>6, <1>7, <1>8, <1>9,
     <1>10, <1>11, <1>12, <1>13, <1>14, <1>15, <1>16, <1>17
     DEF Next, ThreadStep, ProducerStep, ConsumerStep

LEMMA WakeupStep ==
  ASSUME IsFiniteSet(Producers), IsFiniteSet(Consumers), IInv, TypeOK', NoLostWakeup,
         [Next]_stackVars
  PROVE  NoLostWakeup'
<1>1. TypeOK
  BY DEF IInv
<1>2. ASSUME NEW p \in Producers, Push(p) PROVE NoLostWakeup'
  <2>1. mp[p] \notin InStack /\ InStack' = InStack \cup {mp[p]}
    BY <1>2, StackMoves
  <2>2. Signalling' = Signalling \cup {p} /\ p \notin Signalling
        /\ Woken' = Woken /\ Waiting' = Waiting
    BY <1>1, <1>2, StackAssumption
       DEF TypeOK, Push, Goto, Signalling, Woken, Waiting, Threads
  <2>3. /\ Cardinality(InStack') = Cardinality(InStack) + 1
        /\ Cardinality(Signalling') = Cardinality(Signalling) + 1
    BY <1>1, <2>1, <2>2, Countable, FS_AddElement
  <2>. QED  BY <1>1, <2>2, <2>3, Countable DEF NoLostWakeup
<1>3. ASSUME NEW c \in Consumers, Pop(c) PROVE NoLostWakeup'
  <2>1. head \in InStack /\ InStack' = InStack \ {head}
    BY <1>3, StackMoves
  <2>2. Woken' = Woken \ {c} /\ c \in Woken /\ Signalling' = Signalling /\ Waiting' = Waiting
    BY <1>1, <1>3, StackAssumption
       DEF TypeOK, Pop, Goto, Signalling, Woken, Waiting, Threads
  <2>3. /\ Cardinality(InStack') = Cardinality(InStack) - 1
        /\ Cardinality(Woken') = Cardinality(Woken) - 1
    BY <1>1, <2>1, <2>2, Countable, FS_RemoveElement
  <2>. QED  BY <1>1, <2>2, <2>3, Countable DEF NoLostWakeup
<1>4. CASE InStack' = InStack
  <2> DEFINE Steady == /\ Signalling' = Signalling /\ Woken \subseteq Woken'
                       /\ Waiting' \subseteq Waiting
  <2>1. ASSUME NEW t \in Threads,
               Create(t) \/ Acquire(t) \/ Unlock(t) \/ NextRound(t)
        PROVE  Steady
    BY <1>1, <2>1, StackAssumption DEF TypeOK, Create, Acquire, Unlock, NextRound, Goto,
       LoopStart, ProducerPC, ConsumerPC, Threads, Signalling, Woken, Waiting
  <2>2. ASSUME NEW p \in Producers, Malloc(p) \/ Link(p) PROVE Steady
    BY <1>1, <2>2, StackAssumption DEF TypeOK, Malloc, Link, Goto, Threads,
       Signalling, Woken, Waiting
  <2>3. ASSUME NEW c \in Consumers,
               \/ TestNonEmpty(c) \/ Reacquire(c) \/ Take(c) \/ Report(c)
               \/ Free(c) \/ SpuriousWakeup(c)
        PROVE  Steady
    BY <1>1, <2>3, StackAssumption DEF TypeOK, TestNonEmpty, Reacquire, Take, Report, Free,
       SpuriousWakeup, Goto, Threads, Signalling, Woken, Waiting
  <2>4. ASSUME UNCHANGED stackVars PROVE Steady
    BY <2>4 DEF stackVars, Signalling, Woken, Waiting
  <2>5. ASSUME NEW p \in Producers, Signal(p) PROVE NoLostWakeup'
    <3>1. CASE Waiting = {}
      <4>1. Waiting' = {}
        BY <1>1, <2>5, <3>1, StackAssumption DEF TypeOK, Signal, Waiting, Threads
      <4>. QED  BY <4>1 DEF NoLostWakeup
    <3>2. CASE Waiting # {}
      <4>1. PICK c \in Waiting : pc' = [pc EXCEPT ![p] = "sleep", ![c] = "relock"]
        BY <2>5, <3>2 DEF Signal
      <4>2. /\ Signalling' = Signalling \ {p} /\ p \in Signalling
            /\ Woken' = Woken \cup {c} /\ c \notin Woken
        BY <1>1, <2>5, <4>1, StackAssumption
           DEF TypeOK, Signal, Signalling, Woken, Waiting, Threads
      <4>3. /\ Cardinality(Signalling') = Cardinality(Signalling) - 1
            /\ Cardinality(Woken') = Cardinality(Woken) + 1
        BY <1>1, <4>2, Countable, FS_AddElement, FS_RemoveElement
      <4>. QED  BY <1>1, <1>4, <3>2, <4>3, Countable DEF NoLostWakeup
    <3>. QED  BY <3>1, <3>2
  <2>6. ASSUME NEW c \in Consumers, Wait(c) PROVE NoLostWakeup'
    <3>1. InStack' = {}
      BY <1>1, <1>4, <2>6, EmptyStack DEF Wait, IInv
    <3>2. Cardinality(InStack') = 0
      BY <3>1, FS_EmptySet
    <3>3. Signalling' \in SUBSET Producers /\ Woken' \in SUBSET Consumers
      BY DEF Signalling, Woken
    <3>4. Cardinality(Signalling') \in Nat /\ Cardinality(Woken') \in Nat
      BY <3>3, FS_Subset, FS_CardinalityType
    <3>. QED  BY <3>2, <3>4 DEF NoLostWakeup
  <2>7. Steady => NoLostWakeup'
    BY <1>1, <1>4, SteadyWakeups
  <2> HIDE DEF Steady
  <2>. QED
    BY <1>2, <1>3, <2>1, <2>2, <2>3, <2>4, <2>5, <2>6, <2>7
       DEF Next, ThreadStep, ProducerStep, ConsumerStep, Threads
<1>. QED  BY <1>2, <1>3, <1>4, StackMoves

(* With finitely many threads no wakeup is lost: as long as a consumer sleeps,
   there is a thread on its way for every product on the stack. *)
THEOREM NoWakeupIsLost ==
  ASSUME IsFiniteSet(Producers), IsFiniteSet(Consumers)
  PROVE  Spec => []NoLostWakeup
<1>1. StackInit => NoLostWakeup
  BY DEF StackInit, NoLostWakeup, Waiting, Threads
<1>2. IInv /\ IInv' /\ NoLostWakeup /\ [Next]_stackVars => NoLostWakeup'
  BY WakeupStep DEF IInv
<1>. QED  BY <1>1, <1>2, Invariance, PTL DEF Spec

-----------------------------------------------------------------------------
(* What the steps of the threads do to a program that starts one thread at a
   time, for procon.c and procon1.c alike. *)


(* What main keeps besides SerialWorkers. *)
JoinedInv == joined \in Threads \cup {NULL} /\ SerialWorkers

\* Nobody but the thread main waits for takes a step.
LEMMA OnlyJoined ==
  ASSUME TypeOK, JoinedInv, NEW t \in Threads,
         IF t \in Producers THEN ProducerStep(t) ELSE ConsumerStep(t) \/ SpuriousWakeup(t)
  PROVE  t = joined
<1>1. CASE t \in Producers
  <2>1. pc[t] \notin {"unborn", "done"}
    BY <1>1 DEF ProducerStep, Malloc, Acquire, Link, Push, Unlock, Signal, NextRound, Goto
  <2>. QED  BY <2>1 DEF JoinedInv, SerialWorkers
<1>2. CASE t \notin Producers
  <2>1. pc[t] \notin {"unborn", "done"}
    BY <1>2 DEF ConsumerStep, Acquire, TestNonEmpty, Wait, Reacquire, Take, Pop, Unlock,
                Report, Free, NextRound, SpuriousWakeup, Goto
  <2>. QED  BY <2>1 DEF JoinedInv, SerialWorkers
<1>. QED  BY <1>1, <1>2

\* A step of a thread leaves the threads not created, and those at their end, alone.
LEMMA ThreadsStay ==
  ASSUME TypeOK, ThreadStep, NEW u \in Threads, pc[u] \in {"unborn", "done"}
  PROVE  pc'[u] = pc[u]
<1> USE StackAssumption DEF TypeOK, Threads, Goto
<1>1. ASSUME NEW p \in Producers, ProducerStep(p) PROVE pc'[u] = pc[u]
  BY <1>1 DEF ProducerStep, Malloc, Acquire, Link, Push, Unlock, Signal, NextRound, Waiting
<1>2. ASSUME NEW c \in Consumers, ConsumerStep(c) \/ SpuriousWakeup(c) PROVE pc'[u] = pc[u]
  BY <1>2 DEF ConsumerStep, Acquire, TestNonEmpty, Wait, Reacquire, Take, Pop, Unlock,
              Report, Free, NextRound, SpuriousWakeup
<1>. QED  BY <1>1, <1>2 DEF ThreadStep

\* pthread_create in a main that waits for nobody.
LEMMA StartSerial ==
  ASSUME TypeOK, JoinedInv, joined = NULL, NEW t \in Threads, Start(t)
  PROVE  JoinedInv'
<1>1. joined' = t /\ pc' = [pc EXCEPT ![t] = LoopStart(t)]
  BY DEF Start, Create, Goto
<1>2. \A u \in Threads : pc[u] \in {"unborn", "done"}
  BY StackAssumption DEF JoinedInv, SerialWorkers
<1>3. ASSUME NEW u \in Threads, u # t PROVE pc'[u] = pc[u]
  BY <1>1, <1>3 DEF TypeOK
<1>. QED  BY <1>1, <1>2, <1>3 DEF JoinedInv, SerialWorkers

\* The threads' own steps.
LEMMA ThreadSerial ==
  ASSUME TypeOK, JoinedInv, ThreadStep, UNCHANGED joined
  PROVE  JoinedInv'
BY ThreadsStay DEF JoinedInv, SerialWorkers

\* pthread_join.
LEMMA JoinSerial ==
  ASSUME TypeOK, JoinedInv, Join
  PROVE  JoinedInv' /\ joined' = NULL
BY DEF JoinedInv, SerialWorkers, Join, stackVars

(* The only thread that could end a starved wait is the one that waits: it
   finds head NULL whenever it looks. *)
LEMMA StarvedStays ==
  ASSUME TypeOK, JoinedInv, Starved, ThreadStep, UNCHANGED joined
  PROVE  Starved'
<1> USE StackAssumption DEF TypeOK, Threads, Goto, Starved
<1>1. ASSUME NEW p \in Producers, ProducerStep(p) PROVE FALSE
  BY <1>1, OnlyJoined
<1>2. ASSUME NEW c \in Consumers, ConsumerStep(c) \/ SpuriousWakeup(c) PROVE Starved'
  <2>1. c = joined /\ c \notin Producers
    BY <1>2, OnlyJoined
  <2>. QED
    BY <1>2, <2>1 DEF ConsumerStep, Acquire, TestNonEmpty, Wait, Reacquire, Take, Pop,
       Unlock, Report, Free, NextRound, SpuriousWakeup
<1>. QED  BY <1>1, <1>2 DEF ThreadStep
-----------------------------------------------------------------------------
(* The balance of the stack.  A thread has moved a product when it is past the
   mutex in its round; P and C count its N products when it is done. *)
PastStack == {"unlock", "signal", "print", "free", "sleep"}

Moved(t) ==
  IF pc[t] = "done" THEN 0 ELSE round[t] + IF pc[t] \in PastStack THEN 1 ELSE 0

Pushed == IF joined \in Producers THEN Moved(joined) ELSE 0
Popped == IF joined \in Consumers THEN Moved(joined) ELSE 0

StockInv ==
  /\ P \in Nat /\ C \in Nat
  /\ \A t \in Threads : pc[t] = "unborn" => round[t] = 0
  /\ Cardinality(InStack) + N * C + Popped = N * P + Pushed

\* A step of the threads, as P and C see it.
Counted ==
  /\ ThreadStep /\ UNCHANGED joined
  /\ P' = P + Finished(Producers) /\ C' = C + Finished(Consumers)

\* Working and Spurious are such steps.
LEMMA WorkersCount ==
  ASSUME Working \/ Spurious
  PROVE  Counted
BY DEF Working, Spurious, Thread, ThreadStep, Counted

\* No thread but the one main waits for takes a step, so that no other finishes.
LEMMA OneFinishes ==
  ASSUME TypeOK, JoinedInv, ThreadStep, joined \in Threads, pc[joined] # "done",
         NEW T \in SUBSET Threads
  PROVE  Finished(T) = IF joined \in T /\ pc'[joined] = "done" THEN 1 ELSE 0
<1> DEFINE F == {t \in T : pc'[t] = "done" /\ pc[t] # "done"}
<1>1. \A u \in T \ {joined} : u \notin F
  BY ThreadsStay DEF JoinedInv, SerialWorkers
<1>2. F = IF joined \in T /\ pc'[joined] = "done" THEN {joined} ELSE {}
  BY <1>1
<1>. QED  BY <1>2, FS_EmptySet, FS_Singleton DEF Finished

\* What a step of one thread does to the stack and to its own count.
LEMMA StepOfOne ==
  ASSUME IInv, IsFiniteSet(Producers), IsFiniteSet(Consumers), NEW t \in Threads,
         IF t \in Producers THEN ProducerStep(t) ELSE ConsumerStep(t) \/ SpuriousWakeup(t)
  PROVE  /\ pc[t] \notin {"unborn", "done"} /\ pc'[t] # "unborn"
         /\ \A u \in Threads \ {t} : round'[u] = round[u]
         /\ \/ pc'[t] # "done" /\ InStack' = InStack /\ Moved(t)' = Moved(t)
            \/ /\ t \in Producers /\ pc'[t] # "done" /\ Moved(t)' = Moved(t) + 1
               /\ Cardinality(InStack') = Cardinality(InStack) + 1
            \/ /\ t \notin Producers /\ pc'[t] # "done" /\ Moved(t)' = Moved(t) + 1
               /\ Cardinality(InStack') = Cardinality(InStack) - 1
            \/ pc'[t] = "done" /\ InStack' = InStack /\ Moved(t) = N
<1> USE StackAssumption DEF IInv, TypeOK, Threads, Goto, PastStack
<1>1. [Next]_stackVars
  BY DEF Next, ThreadStep
<1>2. CASE \E p \in Producers : Push(p)
  <2>1. PICK p \in Producers : Push(p)
    BY <1>2
  <2>2. p = t
    BY <2>1 DEF Push, ProducerStep, Malloc, Acquire, Link, Unlock, Signal, NextRound, LoopStart,
       ConsumerStep, TestNonEmpty, Wait, Reacquire, Take, Pop, Report, Free, SpuriousWakeup
  <2>3. mp[p] \notin InStack /\ InStack' = InStack \cup {mp[p]}
    BY <1>1, <2>1, StackMoves
  <2>4. Cardinality(InStack') = Cardinality(InStack) + 1
    BY <2>3, Countable, FS_AddElement
  <2>. QED  BY <2>1, <2>2, <2>4 DEF Push, Moved
<1>3. CASE \E c \in Consumers : Pop(c)
  <2>1. PICK c \in Consumers : Pop(c)
    BY <1>3
  <2>2. c = t
    BY <2>1 DEF Push, ProducerStep, Malloc, Acquire, Link, Unlock, Signal, NextRound, LoopStart,
       ConsumerStep, TestNonEmpty, Wait, Reacquire, Take, Pop, Report, Free, SpuriousWakeup
  <2>3. head \in InStack /\ InStack' = InStack \ {head}
    BY <1>1, <2>1, StackMoves
  <2>4. Cardinality(InStack') = Cardinality(InStack) - 1
    BY <2>3, Countable, FS_RemoveElement
  <2>. QED  BY <2>1, <2>2, <2>4 DEF Pop, Moved
<1>4. CASE InStack' = InStack
  <2>1. ~(t \in Producers /\ Push(t)) /\ ~(t \in Consumers /\ Pop(t))
    BY <1>1, <1>4, StackMoves
  <2>2. CASE NextRound(t)
    BY <1>4, <2>2 DEF NextRound, LoopStart, Moved, RoundInv
  <2>3. CASE t \in Producers /\ ~NextRound(t)
    BY <1>4, <2>1, <2>3 DEF ProducerStep, Malloc, Acquire, Link, Unlock, Signal, Waiting, Moved
  <2>4. CASE t \notin Producers /\ ~NextRound(t)
    BY <1>4, <2>1, <2>4 DEF ConsumerStep, Acquire, TestNonEmpty, Wait, Reacquire, Take,
       Unlock, Report, Free, SpuriousWakeup, Moved
  <2>. QED  BY <2>2, <2>3, <2>4
<1>. QED  BY <1>1, <1>2, <1>3, <1>4, StackMoves

\* In the beginning there is nothing to balance.
LEMMA StockInit ==
  ASSUME WorkersInit
  PROVE  StockInv
<1>1. InStack = {} /\ joined \notin Threads /\ P = 0 /\ C = 0
  BY StackAssumption DEF WorkersInit, StackInit, InStack
<1>2. Cardinality(InStack) = 0
  BY <1>1, FS_EmptySet
<1>. QED  BY <1>1, <1>2, StackAssumption
          DEF WorkersInit, StackInit, StockInv, Pushed, Popped, Threads

\* pthread_create and pthread_join move nothing.
LEMMA StockStartJoin ==
  ASSUME IInv, JoinedInv, StockInv, \/ joined = NULL /\ \E t \in Threads : Start(t)
                                   \/ Join
  PROVE  StockInv'
<1> USE StackAssumption DEF IInv, TypeOK, Threads, StockInv, Pushed, Popped, PastStack
<1>1. CASE Join
  <2>1. joined \in Threads /\ joined' = NULL /\ Moved(joined) = 0
    BY <1>1 DEF Join, JoinedInv, Moved
  <2>2. UNCHANGED <<pc, round, InStack, P, C>>
    BY <1>1 DEF Join, stackVars, InStack, Owned, Owns
  <2>3. Pushed = 0 /\ Popped = 0 /\ Pushed' = 0 /\ Popped' = 0
    BY <2>1
  <2>. QED  BY <2>2, <2>3
<1>2. ASSUME NEW t \in Threads, Start(t), joined = NULL PROVE StockInv'
  <2>1. /\ joined' = t /\ UNCHANGED <<round, P, C>>
        /\ pc[t] = "unborn" /\ pc' = [pc EXCEPT ![t] = LoopStart(t)]
    BY <1>2 DEF Start, Create, Goto
  <2>2. InStack' = InStack
    BY <1>2, SameOwners DEF Start, Create, Goto, LoopStart, OwnershipInv, Owns
  <2>3. Moved(t)' = 0
    BY <2>1 DEF Moved, LoopStart
  <2>4. Pushed = 0 /\ Popped = 0 /\ Pushed' = 0 /\ Popped' = 0
    BY <1>2, <2>1, <2>3
  <2>5. \A u \in Threads : pc'[u] = "unborn" => round'[u] = 0
    BY <2>1 DEF LoopStart
  <2>. QED  BY <2>1, <2>2, <2>4, <2>5
<1>. QED  BY <1>1, <1>2

\* A step of the thread main waits for: it moves one product, or has its N counted.
LEMMA StockThread ==
  ASSUME IInv, JoinedInv, StockInv, IsFiniteSet(Producers), IsFiniteSet(Consumers), Counted
  PROVE  StockInv'
<1> USE StackAssumption DEF Threads
<1>1. TypeOK /\ ThreadStep /\ joined' = joined
  BY DEF IInv, Counted
<1>2. PICK t \in Threads :
        IF t \in Producers THEN ProducerStep(t) ELSE ConsumerStep(t) \/ SpuriousWakeup(t)
  BY <1>1 DEF ThreadStep
<1>3. t = joined
  BY <1>1, <1>2, OnlyJoined
<1>4. /\ pc[t] \notin {"unborn", "done"} /\ pc'[t] # "unborn"
      /\ \A u \in Threads \ {t} : round'[u] = round[u]
  BY <1>2, StepOfOne
<1>5. \A u \in Threads : pc'[u] = "unborn" => round'[u] = 0
  BY <1>1, <1>3, <1>4, ThreadsStay DEF JoinedInv, SerialWorkers, StockInv
<1>6. /\ Finished(Producers) = IF t \in Producers /\ pc'[t] = "done" THEN 1 ELSE 0
      /\ Finished(Consumers) = IF t \in Consumers /\ pc'[t] = "done" THEN 1 ELSE 0
  BY <1>1, <1>3, <1>4, OneFinishes
<1>7. P' \in Nat /\ C' \in Nat
  BY <1>6 DEF Counted, StockInv
<1>8. /\ Pushed = IF t \in Producers THEN Moved(t) ELSE 0
      /\ Popped = IF t \in Consumers THEN Moved(t) ELSE 0
      /\ Pushed' = IF t \in Producers THEN Moved(t)' ELSE 0
      /\ Popped' = IF t \in Consumers THEN Moved(t)' ELSE 0
  BY <1>1, <1>3 DEF Pushed, Popped, Moved
<1>9. Cardinality(InStack) \in Nat /\ Moved(t) \in Nat
  BY <1>1, Countable DEF TypeOK, Moved
<1>10. Cardinality(InStack') + N * C' + Popped' = N * P' + Pushed'
  <2>1. CASE pc'[t] # "done"
    <3>1. P' = P /\ C' = C
      BY <1>6, <2>1 DEF Counted, StockInv
    <3>2. N * P' = N * P /\ N * C' = N * C /\ N * P \in Nat /\ N * C \in Nat
      BY <3>1 DEF StockInv
    <3>. QED  BY <1>2, <1>8, <1>9, <2>1, <3>2, StepOfOne DEF StockInv
  <2>2. CASE pc'[t] = "done"
    <3>1. InStack' = InStack /\ Moved(t) = N /\ Moved(t)' = 0
      BY <1>2, <2>2, StepOfOne DEF Moved
    <3>2. CASE t \in Producers
      <4>1. P' = P + 1 /\ C' = C
        BY <1>6, <2>2, <3>2 DEF Counted, StockInv
      <4>2. N * P' = N * P + N /\ N * C' = N * C /\ N * P \in Nat /\ N * C \in Nat
        BY <4>1 DEF StockInv
      <4>. QED  BY <1>8, <1>9, <3>1, <3>2, <4>2 DEF StockInv
    <3>3. CASE t \in Consumers
      <4>1. C' = C + 1 /\ P' = P
        BY <1>6, <2>2, <3>3 DEF Counted, StockInv
      <4>2. N * C' = N * C + N /\ N * P' = N * P /\ N * P \in Nat /\ N * C \in Nat
        BY <4>1 DEF StockInv
      <4>. QED  BY <1>8, <1>9, <3>1, <3>3, <4>2 DEF StockInv
    <3>. QED  BY <3>2, <3>3
  <2>. QED  BY <2>1, <2>2
<1>. QED  BY <1>5, <1>7, <1>10 DEF StockInv

\* What the account says when main is at its commands, and when it is starved.
LEMMA StockBalances ==
  ASSUME IInv, StockInv, IsFiniteSet(Producers), IsFiniteSet(Consumers)
  PROVE  Balance
<1> USE StackAssumption DEF Threads
<1>1. N * P \in Nat /\ N * C \in Nat /\ N * (P - C) = N * P - N * C
  BY DEF StockInv
<1>2. ASSUME joined = NULL PROVE Cardinality(InStack) = N * (P - C)
  <2>1. Pushed = 0 /\ Popped = 0
    BY <1>2 DEF Pushed, Popped
  <2>2. Cardinality(InStack) \in Nat
    BY Countable DEF IInv
  <2>. QED  BY <1>1, <2>1, <2>2 DEF StockInv
<1>3. ASSUME Starved PROVE N * C + round[joined] = N * P
  <2>1. Cardinality(InStack) = 0
    BY <1>3, EmptyStack, FS_EmptySet DEF IInv, Starved
  <2>2. Pushed = 0 /\ Popped = round[joined] /\ round[joined] \in Nat
    BY <1>3 DEF Starved, Pushed, Popped, Moved, PastStack, IInv, TypeOK
  <2>. QED  BY <1>1, <2>1, <2>2 DEF StockInv
<1>. QED  BY <1>2, <1>3 DEF Balance
=============================================================================
