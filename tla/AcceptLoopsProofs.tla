-------------------------- MODULE AcceptLoopsProofs --------------------------
(***************************************************************************)
(* The servers with a worker for each client, for any clients and rooms:   *)
(* who serves whom, which connections are forgotten, and what ends a       *)
(* worker.  The steps are proved by what they do to descriptors, workers   *)
(* and main; what they do on the sockets matters only to the last theorem. *)
(***************************************************************************)
EXTENDS AcceptLoops, FiniteSetTheorems, SequenceTheorems, TLAPS

(* What holds of a worker that is not overtaken: its descriptor is that of the
   client it was made for, unless an overtaken one has closed it. *)
Owns(w, f) == f = fd[w] \/ (fd[w] = 0 /\ overtaken # {})

ShapeInv ==
  /\ program \in {"ps", "s", "s1", "t1s"}
  /\ fd \in [Clients -> Nat] /\ fdOf \in [Clients -> Nat] /\ sock \in Nat
  /\ at \in [Clients -> {"none", "start", "done"} \cup Working]
  /\ client \in [Clients -> {"new", "typing", "waiting", "closing", "gone"}]
  /\ backlog \in Seq(Clients) /\ overtaken \subseteq Clients
  /\ \E r \in Rooms \cup {0} : clifd_p \in [1..r -> Nat]

DistinctInv == \A c, d \in Clients : fd[c] = fd[d] /\ fd[c] # 0 => c = d

(* A client waits once to be accepted, and nobody serves it before. *)
QueueInv ==
  main # "dead" =>
    /\ \A c \in Clients : client[c] = "new" => at[c] = "none" /\ fd[c] = 0
    /\ \A i \in 1..Len(backlog) :
         client[backlog[i]] # "new" /\ at[backlog[i]] = "none" /\ fd[backlog[i]] = 0
    /\ \A i, j \in 1..Len(backlog) : backlog[i] = backlog[j] => i = j

StartInv ==
  main = "start" =>
    /\ \E w \in Clients : serving = {w} /\ at[w] = "none"
    /\ \A w \in serving : client[w] # "new" /\ Owns(w, sock)
    /\ \A i \in 1..Len(backlog) : backlog[i] \notin serving

OwnInv ==
  /\ \A w \in Clients \ overtaken :
       /\ at[w] = "start" => Owns(w, sock)
       /\ at[w] \in Working => Owns(w, fdOf[w])
  /\ program \in {"ps", "s"} => overtaken = {} /\ \A w \in Clients : at[w] # "start"

ClosedInv ==
  /\ program = "ps" => \A c \in Clients : at[c] = "done" => fd[c] = 0
  /\ program = "s1" => \A c \in Clients \ overtaken : at[c] = "done" => fd[c] = 0

Made == {w \in Clients : at[w] # "none"}

Taken == Slots \ FreeSlots

(* A thread is made for every element taken, and for every connection unless
   no element is left. *)
SlotInv ==
  /\ Cardinality(Taken) <= Cardinality(Made)
  /\ \A c \in Clients : at[c] = "none" /\ fd[c] # 0 /\ ~(main = "start" /\ c \in serving) =>
       program = "t1s" /\ Cardinality(Slots) <= Cardinality(Made)

IInv == ShapeInv /\ DistinctInv /\ QueueInv /\ StartInv /\ OwnInv /\ ClosedInv /\ SlotInv

-----------------------------------------------------------------------------
LEMMA Finite ==
  ASSUME ShapeInv
  PROVE  /\ IsFiniteSet(Made) /\ Cardinality(Made) \in Nat
         /\ IsFiniteSet(Slots) /\ Cardinality(Slots) \in Nat
         /\ IsFiniteSet(Taken) /\ Cardinality(Taken) \in Nat
<1>1. IsFiniteSet(Made)
  BY LoopAssumption, FS_Subset DEF Made
<1>2. IsFiniteSet(Slots)
  <2>1. PICK r \in Rooms \cup {0} : clifd_p \in [1..r -> Nat]
    BY DEF ShapeInv
  <2>2. Slots = 1..r /\ r \in Nat
    BY <2>1, LoopAssumption DEF Slots
  <2>. QED  BY <2>2, FS_Interval
<1>3. IsFiniteSet(Taken)
  BY <1>2, FS_Subset DEF Taken
<1>. QED  BY <1>1, <1>2, <1>3, FS_CardinalityType

LEMMA Queued ==
  ASSUME ShapeInv
  PROVE  \A i \in 1..Len(backlog) : backlog[i] \in Clients
BY ElementOfSeq DEF ShapeInv

LEMMA Initially == Init => IInv
<1> SUFFICES ASSUME Init PROVE IInv
  OBVIOUS
<1>1. ShapeInv
  <2>1. PICK r \in IF program = "t1s" THEN Rooms ELSE {0} : clifd_p = [i \in 1..r |-> 0]
    BY DEF Init
  <2>2. clifd_p \in [1..r -> Nat] /\ r \in Rooms \cup {0}
    BY <2>1
  <2>. QED  BY <2>2, LoopAssumption DEF Init, ShapeInv
<1>2. DistinctInv /\ StartInv /\ OwnInv /\ ClosedInv
  BY DEF Init, DistinctInv, StartInv, OwnInv, ClosedInv, Working
<1>3. QueueInv
  BY DEF Init, QueueInv
<1>4. SlotInv
  <2>1. Taken = {} /\ Made = {}
    BY DEF Init, Taken, Made, FreeSlots, Slots
  <2>2. \A c \in Clients : fd[c] = 0
    BY DEF Init
  <2>. QED  BY <2>1, <2>2, FS_EmptySet DEF SlotInv
<1>. QED  BY <1>1, <1>2, <1>3, <1>4 DEF IInv

(* A step of a client, once connected. *)
LEMMA ClientKeeps ==
  ASSUME IInv, NEW c \in Clients, client[c] # "new",
         NEW x \in {"typing", "waiting", "closing", "gone"},
         client' = [client EXCEPT ![c] = x],
         UNCHANGED <<program, mainVars, workerVars>>
  PROVE  IInv'
<1> USE DEF mainVars, workerVars
<1>1. /\ client' \in [Clients -> {"new", "typing", "waiting", "closing", "gone"}]
      /\ \A d \in Clients : client'[d] = "new" <=> client[d] = "new"
  BY DEF IInv, ShapeInv
<1>2. ShapeInv'
  BY <1>1 DEF IInv, ShapeInv
<1>3. DistinctInv' /\ OwnInv' /\ ClosedInv'
  BY DEF IInv, DistinctInv, OwnInv, ClosedInv, Owns
<1>4. QueueInv'
  BY <1>1, Queued DEF IInv, QueueInv
<1>5. StartInv'
  BY <1>1 DEF IInv, StartInv, Owns
<1>6. SlotInv'
  <2>1. Taken' = Taken /\ Made' = Made /\ Slots' = Slots
    BY DEF Taken, Made, FreeSlots, Slots
  <2>. QED  BY <2>1 DEF IInv, SlotInv
<1>. QED  BY <1>2, <1>3, <1>4, <1>5, <1>6 DEF IInv

LEMMA ConnectKeeps ==
  ASSUME IInv, NEW c \in Clients, Connect(c), UNCHANGED program
  PROVE  IInv'
<1> USE DEF workerVars
<1>1. /\ main # "dead" /\ client[c] = "new" /\ client' = [client EXCEPT ![c] = "typing"]
      /\ backlog' = Append(backlog, c)
      /\ UNCHANGED <<program, main, sock, serving, overtaken, fd, at, fdOf, clifd_p>>
  BY DEF Connect, Move
<1>2. ShapeInv'
  BY <1>1 DEF IInv, ShapeInv
<1>3. DistinctInv' /\ OwnInv' /\ ClosedInv'
  BY <1>1 DEF IInv, DistinctInv, OwnInv, ClosedInv, Owns
<1>4. /\ Len(backlog') = Len(backlog) + 1 /\ Len(backlog) \in Nat
      /\ \A i \in 1..Len(backlog) : backlog'[i] = backlog[i] /\ backlog[i] \in Clients
      /\ backlog'[Len(backlog) + 1] = c
  BY <1>1, Queued, AppendProperties DEF IInv, ShapeInv
<1>5. \A d \in Clients : client'[d] = IF d = c THEN "typing" ELSE client[d]
  BY <1>1 DEF IInv, ShapeInv
<1>6. \A i \in 1..Len(backlog') : i \in 1..Len(backlog) \/ i = Len(backlog) + 1
  BY <1>4
<1>7. QueueInv'
  <2>1. \A i \in 1..Len(backlog) : backlog[i] # c
    BY <1>1, <1>4 DEF IInv, QueueInv
  <2>2. at[c] = "none" /\ fd[c] = 0
    BY <1>1 DEF IInv, QueueInv
  <2>3. \A d \in Clients : client'[d] = "new" => at'[d] = "none" /\ fd'[d] = 0
    BY <1>1, <1>5 DEF IInv, QueueInv
  <2>4. \A i \in 1..Len(backlog') :
          client'[backlog'[i]] # "new" /\ at'[backlog'[i]] = "none" /\ fd'[backlog'[i]] = 0
    BY <1>1, <1>4, <1>5, <1>6, <2>1, <2>2 DEF IInv, QueueInv
  <2>5. \A i, j \in 1..Len(backlog') : backlog'[i] = backlog'[j] => i = j
    BY <1>1, <1>4, <1>6, <2>1 DEF IInv, QueueInv
  <2>. QED  BY <2>3, <2>4, <2>5 DEF QueueInv
<1>8. StartInv'
  <2>1. CASE main = "start"
    <3>1. PICK w \in Clients : serving = {w} /\ at[w] = "none"
      BY <2>1 DEF IInv, StartInv
    <3>2. client[w] # "new" /\ Owns(w, sock) /\ \A i \in 1..Len(backlog) : backlog[i] # w
      BY <2>1, <3>1 DEF IInv, StartInv
    <3>3. c # w
      BY <1>1, <3>2
    <3>4. \A i \in 1..Len(backlog') : backlog'[i] # w
      BY <1>4, <1>6, <3>2, <3>3
    <3>. QED  BY <1>1, <1>5, <3>1, <3>2, <3>3, <3>4 DEF StartInv, Owns
  <2>. QED  BY <1>1, <2>1 DEF StartInv
<1>9. SlotInv'
  <2>1. Taken' = Taken /\ Made' = Made /\ Slots' = Slots
    BY <1>1 DEF Taken, Made, FreeSlots, Slots
  <2>. QED  BY <1>1, <2>1 DEF IInv, SlotInv
<1>. QED  BY <1>2, <1>3, <1>7, <1>8, <1>9 DEF IInv

LEMMA AcceptKeeps ==
  ASSUME IInv, Accept, UNCHANGED program
  PROVE  IInv'
<1> DEFINE h == Head(backlog)
<1>1. /\ main = "accept" /\ main' = "start" /\ backlog # <<>> /\ backlog' = Tail(backlog)
      /\ sock' \in FDs /\ (\A c \in Clients : fd[c] # sock')
      /\ fd' = [fd EXCEPT ![h] = sock'] /\ serving' = {h}
      /\ overtaken' = overtaken \cup {w \in Clients : at[w] = "start"}
      /\ UNCHANGED <<program, client, at, fdOf, clifd_p>>
  BY DEF Accept, FreeFDs, clientVars
<1>2. sock' \in Nat /\ sock' # 0
  BY <1>1 DEF FDs
<1>3. /\ h \in Clients /\ h = backlog[1] /\ Len(backlog) \in Nat /\ 1 \in 1..Len(backlog)
      /\ Len(backlog') = Len(backlog) - 1 /\ backlog' \in Seq(Clients)
      /\ \A i \in 1..Len(backlog') : backlog'[i] = backlog[i + 1] /\ i + 1 \in 1..Len(backlog)
  BY <1>1, HeadTailProperties DEF IInv, ShapeInv
<1>4. at[h] = "none" /\ fd[h] = 0 /\ client[h] # "new"
  BY <1>1, <1>3 DEF IInv, QueueInv
<1>5. \A i \in 1..Len(backlog') : backlog'[i] # h /\ backlog'[i] \in Clients
  BY <1>1, <1>3, Queued DEF IInv, QueueInv
<1>6. \A c \in Clients : fd'[c] = IF c = h THEN sock' ELSE fd[c]
  BY <1>1 DEF IInv, ShapeInv
<1>7. ShapeInv'
  BY <1>1, <1>2, <1>3 DEF IInv, ShapeInv
<1>8. DistinctInv'
  BY <1>1, <1>2, <1>6 DEF IInv, DistinctInv
<1>9. QueueInv'
  <2>1. \A c \in Clients : client[c] = "new" => at[c] = "none" /\ fd'[c] = 0
    BY <1>1, <1>4, <1>6 DEF IInv, QueueInv
  <2>2. \A i \in 1..Len(backlog') :
          client[backlog'[i]] # "new" /\ at[backlog'[i]] = "none" /\ fd'[backlog'[i]] = 0
    BY <1>1, <1>3, <1>5, <1>6 DEF IInv, QueueInv
  <2>3. \A i, j \in 1..Len(backlog') : backlog'[i] = backlog'[j] => i = j
    BY <1>1, <1>3 DEF IInv, QueueInv
  <2>. QED  BY <1>1, <2>1, <2>2, <2>3 DEF QueueInv
<1>10. StartInv'
  BY <1>1, <1>3, <1>4, <1>5, <1>6 DEF StartInv, Owns
<1>11. OwnInv'
  <2>1. ASSUME NEW w \in Clients \ overtaken'
        PROVE  at'[w] # "start" /\ (at'[w] \in Working => Owns(w, fdOf[w])')
    <3>1. at[w] # "start" /\ w \notin overtaken
      BY <1>1, <2>1
    <3>2. CASE w = h
      BY <1>1, <1>4, <3>1, <3>2 DEF Working
    <3>3. CASE w # h
      BY <1>1, <1>6, <3>1, <3>3 DEF IInv, OwnInv, Owns
    <3>. QED  BY <3>2, <3>3
  <2>2. program \in {"ps", "s"} => overtaken' = {} /\ \A w \in Clients : at[w] # "start"
    BY <1>1 DEF IInv, OwnInv
  <2>. QED  BY <1>1, <2>1, <2>2 DEF OwnInv
<1>12. ClosedInv'
  BY <1>1, <1>4, <1>6 DEF IInv, ClosedInv
<1>13. SlotInv'
  <2>1. Taken' = Taken /\ Made' = Made /\ Slots' = Slots
    BY <1>1 DEF Taken, Made, FreeSlots, Slots
  <2>. QED  BY <1>1, <1>6, <2>1 DEF IInv, SlotInv
<1>. QED  BY <1>7, <1>8, <1>9, <1>10, <1>11, <1>12, <1>13 DEF IInv

LEMMA ForkKeeps ==
  ASSUME IInv, Fork,
         UNCHANGED <<program, client, fd, backlog, sock, serving, overtaken>>
  PROVE  IInv'
<1>1. program \in {"ps", "s"} /\ main = "start" /\ main' \in {"accept", "wait"}
  BY DEF Fork
<1>2. PICK w \in serving : /\ at[w] = "none" /\ at' = [at EXCEPT ![w] = "read"]
                           /\ fdOf' = [fdOf EXCEPT ![w] = sock]
  BY DEF Fork, Goto
<1>3. clifd_p' = clifd_p
  BY DEF Fork
<1>4. w \in Clients /\ serving = {w} /\ client[w] # "new" /\ Owns(w, sock)
      /\ \A i \in 1..Len(backlog) : backlog[i] # w /\ backlog[i] \in Clients
  BY <1>1, <1>2, Queued DEF IInv, StartInv
<1>5. /\ \A v \in Clients : at'[v] = IF v = w THEN "read" ELSE at[v]
      /\ \A v \in Clients : fdOf'[v] = IF v = w THEN sock ELSE fdOf[v]
  BY <1>2, <1>4 DEF IInv, ShapeInv
<1>6. ShapeInv'
  BY <1>2, <1>3, <1>4 DEF IInv, ShapeInv, Working
<1>7. DistinctInv' /\ StartInv'
  BY <1>1 DEF IInv, DistinctInv, StartInv
<1>8. QueueInv'
  BY <1>1, <1>4, <1>5 DEF IInv, QueueInv
<1>9. OwnInv'
  BY <1>4, <1>5 DEF IInv, OwnInv, Owns, Working
<1>10. ClosedInv'
  BY <1>5 DEF IInv, ClosedInv
<1>11. SlotInv'
  <2>1. Slots' = Slots /\ Taken' = Taken
    BY <1>3 DEF Slots, Taken, FreeSlots
  <2>2. Made' = Made \cup {w} /\ w \notin Made
    BY <1>2, <1>4, <1>5 DEF Made
  <2>3. Cardinality(Made') = Cardinality(Made) + 1
    BY <2>2, Finite, FS_AddElement DEF IInv
  <2>4. Cardinality(Taken) <= Cardinality(Made) /\ Cardinality(Taken) \in Nat
        /\ Cardinality(Made) \in Nat
    BY Finite DEF IInv, SlotInv
  <2>5. ASSUME NEW c \in Clients, at'[c] = "none", fd'[c] # 0 PROVE program = "t1s"
    BY <1>4, <1>5, <2>5 DEF IInv, SlotInv
  <2>6. \A c \in Clients : ~(at'[c] = "none" /\ fd'[c] # 0)
    BY <1>1, <2>5
  <2>7. Cardinality(Taken') <= Cardinality(Made')
    BY <2>1, <2>3, <2>4
  <2>. QED  BY <2>6, <2>7 DEF SlotInv
<1>. QED  BY <1>6, <1>7, <1>8, <1>9, <1>10, <1>11 DEF IInv

LEMMA ThreadKeeps ==
  ASSUME IInv, CreateThread,
         UNCHANGED <<program, client, fd, backlog, sock, serving, overtaken>>
  PROVE  IInv'
<1>1. program \in {"s1", "t1s"} /\ main = "start" /\ main' = "accept" /\ fdOf' = fdOf
  BY DEF CreateThread
<1>2. PICK w \in Clients : serving = {w} /\ at[w] = "none"
  BY <1>1 DEF IInv, StartInv
<1>3. client[w] # "new" /\ Owns(w, sock)
      /\ \A i \in 1..Len(backlog) : backlog[i] # w /\ backlog[i] \in Clients
  BY <1>1, <1>2, Queued DEF IInv, StartInv
<1>4. DistinctInv' /\ StartInv'
  BY <1>1 DEF IInv, DistinctInv, StartInv
<1>5. CASE program = "t1s" /\ FreeSlots = {}
  <2>1. UNCHANGED <<at, clifd_p>>
    BY <1>5 DEF CreateThread
  <2>2. ShapeInv' /\ QueueInv' /\ OwnInv' /\ ClosedInv'
    BY <1>1, <2>1 DEF IInv, ShapeInv, QueueInv, OwnInv, ClosedInv, Owns
  <2>3. Slots' = Slots /\ Taken' = Taken /\ Made' = Made /\ Taken = Slots
    BY <1>5, <2>1 DEF Slots, Taken, FreeSlots, Made
  <2>4. SlotInv'
    BY <1>5, <2>3 DEF IInv, SlotInv
  <2>. QED  BY <1>4, <2>2, <2>4 DEF IInv
<1>6. CASE ~(program = "t1s" /\ FreeSlots = {})
  <2>1. at' = [at EXCEPT ![w] = "start"]
    BY <1>2, <1>6 DEF CreateThread, Goto
  <2>2. \A v \in Clients : at'[v] = IF v = w THEN "start" ELSE at[v]
    BY <2>1 DEF IInv, ShapeInv
  <2>3. PICK r \in Rooms \cup {0} : clifd_p \in [1..r -> Nat]
    BY DEF IInv, ShapeInv
  <2>4. clifd_p' = clifd_p \/ \E k : clifd_p' = [clifd_p EXCEPT ![k] = sock]
    BY <1>6 DEF CreateThread
  <2>5. clifd_p' \in [1..r -> Nat]
    BY <2>3, <2>4 DEF IInv, ShapeInv
  <2>6. ShapeInv'
    BY <1>1, <2>1, <2>5 DEF IInv, ShapeInv
  <2>7. QueueInv'
    BY <1>1, <1>3, <2>2 DEF IInv, QueueInv
  <2>8. OwnInv'
    BY <1>1, <1>3, <2>2 DEF IInv, OwnInv, Owns, Working
  <2>9. ClosedInv'
    BY <2>2 DEF IInv, ClosedInv
  <2>10. SlotInv'
    <3>1. Slots' = Slots
      BY <2>3, <2>5 DEF Slots
    <3>2. \E k : Taken' \subseteq Taken \cup {k}
      <4>1. Slots = 1..r /\ Slots' = 1..r
        BY <2>3, <3>1 DEF Slots
      <4>2. CASE clifd_p' = clifd_p
        BY <4>2 DEF Taken, FreeSlots, Slots
      <4>3. CASE \E k : clifd_p' = [clifd_p EXCEPT ![k] = sock]
        <5>1. PICK k : clifd_p' = [clifd_p EXCEPT ![k] = sock]
          BY <4>3
        <5>2. \A i \in 1..r : i # k => clifd_p'[i] = clifd_p[i]
          BY <2>3, <5>1
        <5>3. Taken' \subseteq Taken \cup {k}
          BY <4>1, <5>2 DEF Taken, FreeSlots
        <5>. QED  BY <5>3
      <4>. QED  BY <2>4, <4>2, <4>3
    <3>2a. PICK k : Taken' \subseteq Taken \cup {k}
      BY <3>2
    <3>3. Made' = Made \cup {w} /\ w \notin Made
      BY <1>2, <2>2 DEF Made
    <3>4. Cardinality(Made') = Cardinality(Made) + 1
      BY <3>3, Finite, FS_AddElement DEF IInv
    <3>5. /\ IsFiniteSet(Taken) /\ Cardinality(Taken) \in Nat /\ Cardinality(Made) \in Nat
          /\ Cardinality(Slots) \in Nat /\ Cardinality(Taken) <= Cardinality(Made)
      BY Finite DEF IInv, SlotInv
    <3>6. IsFiniteSet(Taken \cup {k}) /\ Cardinality(Taken \cup {k}) <= Cardinality(Taken) + 1
      BY <3>5, FS_AddElement
    <3>7. Cardinality(Taken') <= Cardinality(Taken \cup {k}) /\ IsFiniteSet(Taken')
      BY <3>6, <3>2a, FS_Subset
    <3>8. Cardinality(Taken') \in Nat /\ Cardinality(Taken \cup {k}) \in Nat
      BY <3>6, <3>7, FS_CardinalityType
    <3>9. Cardinality(Taken') <= Cardinality(Made')
      BY <3>4, <3>5, <3>6, <3>7, <3>8
    <3>10. ASSUME NEW c \in Clients, at'[c] = "none", fd'[c] # 0
           PROVE  program = "t1s" /\ Cardinality(Slots) <= Cardinality(Made)
      BY <1>2, <2>2, <3>10 DEF IInv, SlotInv
    <3>11. ASSUME NEW c \in Clients, at'[c] = "none", fd'[c] # 0
           PROVE  program' = "t1s" /\ Cardinality(Slots') <= Cardinality(Made')
      BY <3>1, <3>4, <3>5, <3>10, <3>11
    <3>. QED  BY <3>9, <3>11 DEF SlotInv
  <2>. QED  BY <1>4, <2>6, <2>7, <2>8, <2>9, <2>10 DEF IInv
<1>. QED  BY <1>5, <1>6

LEMMA ReapKeeps ==
  ASSUME IInv, Reap,
         UNCHANGED <<program, client, fd, backlog, sock, serving, overtaken>>
  PROVE  IInv'
<1>1. main = "wait" /\ main' = "accept" /\ UNCHANGED <<at, fdOf, clifd_p>>
  BY DEF Reap
<1>2. ShapeInv' /\ DistinctInv' /\ QueueInv' /\ StartInv' /\ OwnInv' /\ ClosedInv'
  BY <1>1 DEF IInv, ShapeInv, DistinctInv, QueueInv, StartInv, OwnInv, ClosedInv, Owns
<1>3. Taken' = Taken /\ Made' = Made /\ Slots' = Slots
  BY <1>1 DEF Taken, Made, FreeSlots, Slots
<1>4. SlotInv'
  BY <1>1, <1>3 DEF IInv, SlotInv
<1>. QED  BY <1>2, <1>4 DEF IInv

-----------------------------------------------------------------------------
LEMMA LoadKeeps ==
  ASSUME IInv, NEW w \in Clients, LoadArg(w), UNCHANGED <<program, client>>
  PROVE  IInv'
<1>1. /\ at[w] = "start" /\ fdOf' = [fdOf EXCEPT ![w] = sock]
      /\ UNCHANGED <<backlog, main, sock, serving, overtaken, fd, clifd_p>>
  BY DEF LoadArg, Goto, mainVars
<1>2. PICK x \in Working : at' = [at EXCEPT ![w] = x]
  BY DEF LoadArg, Goto, Working
<1>3. /\ \A v \in Clients : at'[v] = IF v = w THEN x ELSE at[v]
      /\ \A v \in Clients : fdOf'[v] = IF v = w THEN sock ELSE fdOf[v]
      /\ x \notin {"none", "start", "done"}
  BY <1>1, <1>2 DEF IInv, ShapeInv, Working
<1>4. ShapeInv'
  BY <1>1, <1>2 DEF IInv, ShapeInv
<1>5. DistinctInv' /\ ClosedInv'
  BY <1>1, <1>3 DEF IInv, DistinctInv, ClosedInv
<1>6. QueueInv'
  BY <1>1, <1>3, Queued DEF IInv, QueueInv
<1>7. StartInv'
  BY <1>1, <1>3 DEF IInv, StartInv, Owns
<1>8. OwnInv'
  BY <1>1, <1>3 DEF IInv, OwnInv, Owns
<1>9. Taken' = Taken /\ Made' = Made /\ Slots' = Slots
  BY <1>1, <1>3 DEF Taken, Made, FreeSlots, Slots
<1>10. SlotInv'
  BY <1>1, <1>3, <1>9 DEF IInv, SlotInv
<1>. QED  BY <1>4, <1>5, <1>6, <1>7, <1>8, <1>10 DEF IInv

(* A worker goes on, and nothing happens to descriptors. *)
LEMMA GoesOnKeeps ==
  ASSUME IInv, NEW w \in Clients, at[w] \in Working, NEW x \in Working,
         at' = [at EXCEPT ![w] = x],
         UNCHANGED <<program, client, mainVars, fd, fdOf, clifd_p>>
  PROVE  IInv'
<1> USE DEF mainVars
<1>1. /\ \A v \in Clients : at'[v] = IF v = w THEN x ELSE at[v]
      /\ x \notin {"none", "start", "done"} /\ at[w] \notin {"none", "start", "done"}
  BY DEF IInv, ShapeInv, Working
<1>2. ShapeInv'
  BY DEF IInv, ShapeInv
<1>3. DistinctInv' /\ ClosedInv'
  BY <1>1 DEF IInv, DistinctInv, ClosedInv
<1>4. QueueInv'
  BY <1>1, Queued DEF IInv, QueueInv
<1>5. StartInv'
  BY <1>1 DEF IInv, StartInv, Owns
<1>6. OwnInv'
  BY <1>1 DEF IInv, OwnInv, Owns
<1>7. Taken' = Taken /\ Made' = Made /\ Slots' = Slots
  BY <1>1 DEF Taken, Made, FreeSlots, Slots
<1>8. SlotInv'
  BY <1>1, <1>7 DEF IInv, SlotInv
<1>. QED  BY <1>2, <1>3, <1>4, <1>5, <1>6, <1>8 DEF IInv

(* A worker ends and closes what it knows the connection of its client by. *)
LEMMA EndKeeps ==
  ASSUME IInv, NEW w \in Clients, at[w] \in Working,
         at' = [at EXCEPT ![w] = "done"],
         NEW C \in SUBSET (Conn(w) \cup {w}),
         fd' = [c \in Clients |-> IF c \in C THEN 0 ELSE fd[c]],
         program = "ps" => w \in C,
         program = "s1" => Conn(w) \subseteq C,
         UNCHANGED <<program, client, mainVars, fdOf, clifd_p>>
  PROVE  IInv'
<1> USE DEF mainVars
<1>1. /\ \A v \in Clients : at'[v] = IF v = w THEN "done" ELSE at[v]
      /\ at[w] \notin {"none", "start", "done"}
      /\ \A v \in Clients : fd'[v] = 0 \/ (fd'[v] = fd[v] /\ v \notin C)
  BY DEF IInv, ShapeInv, Working
<1>2. ASSUME NEW v \in C, v # w PROVE overtaken # {}
  <2>1. v \in Clients /\ fd[v] # 0 /\ fd[v] = fdOf[w]
    BY <1>2 DEF Conn
  <2>2. CASE w \in overtaken
    BY <2>2
  <2>3. CASE w \notin overtaken
    BY <1>2, <2>1, <2>3 DEF IInv, OwnInv, Owns, DistinctInv
  <2>. QED  BY <2>2, <2>3
<1>3. ASSUME NEW v \in Clients, v # w, NEW f, Owns(v, f) PROVE Owns(v, f)'
  BY <1>1, <1>2, <1>3 DEF Owns
<1>4. ShapeInv'
  BY DEF IInv, ShapeInv
<1>5. DistinctInv'
  BY <1>1 DEF IInv, DistinctInv
<1>6. QueueInv'
  BY <1>1, Queued DEF IInv, QueueInv
<1>7. StartInv'
  <2>1. SUFFICES ASSUME main = "start" PROVE StartInv'
    BY DEF StartInv
  <2>2. PICK v \in Clients : serving = {v} /\ at[v] = "none"
    BY <2>1 DEF IInv, StartInv
  <2>3. v # w /\ client[v] # "new" /\ Owns(v, sock)
    BY <1>1, <2>1, <2>2 DEF IInv, StartInv
  <2>4. (Owns(v, sock))'
    BY <1>3, <2>3 DEF Owns
  <2>. QED  BY <1>1, <2>1, <2>2, <2>3, <2>4 DEF IInv, StartInv
<1>8. OwnInv'
  <2>1. ASSUME NEW v \in Clients \ overtaken
        PROVE  /\ at'[v] = "start" => Owns(v, sock)'
               /\ at'[v] \in Working => Owns(v, fdOf[v])'
    <3>1. CASE v = w
      BY <1>1, <3>1 DEF Working
    <3>2. CASE v # w
      <4>1. at'[v] = at[v]
        BY <1>1, <3>2
      <4>2. at[v] = "start" => Owns(v, sock)
        BY <2>1 DEF IInv, OwnInv
      <4>3. at[v] \in Working => Owns(v, fdOf[v])
        BY <2>1 DEF IInv, OwnInv
      <4>. QED  BY <1>3, <3>2, <4>1, <4>2, <4>3 DEF Owns
    <3>. QED  BY <3>1, <3>2
  <2>2. program \in {"ps", "s"} => overtaken = {} /\ \A v \in Clients : at'[v] # "start"
    BY <1>1 DEF IInv, OwnInv
  <2>. QED  BY <2>1, <2>2 DEF OwnInv
<1>9. ClosedInv'
  <2>1. program = "s1" /\ w \notin overtaken => fd'[w] = 0
    <3>1. SUFFICES ASSUME program = "s1", w \notin overtaken, fd[w] # 0 PROVE w \in C
      OBVIOUS
    <3>2. fdOf[w] = fd[w]
      BY <3>1 DEF IInv, OwnInv, Owns
    <3>. QED  BY <3>1, <3>2 DEF Conn
  <2>2. program = "ps" => fd'[w] = 0
    OBVIOUS
  <2>. QED  BY <1>1, <2>1, <2>2 DEF IInv, ClosedInv
<1>10. SlotInv'
  <2>1. Taken' = Taken /\ Made' = Made /\ Slots' = Slots
    BY <1>1 DEF Taken, Made, FreeSlots, Slots
  <2>. QED  BY <1>1, <2>1 DEF IInv, SlotInv
<1>. QED  BY <1>4, <1>5, <1>6, <1>7, <1>8, <1>9, <1>10 DEF IInv

(* A signal ends all threads, and with them every connection. *)
LEMMA AllEndKeeps ==
  ASSUME IInv, main' = "dead", backlog' = <<>>,
         at' = [v \in Clients |-> "done"], fd' = [c \in Clients |-> 0],
         program \in {"s1", "t1s"},
         UNCHANGED <<program, client, sock, serving, overtaken, fdOf, clifd_p>>
  PROVE  IInv'
<1>1. ShapeInv'
  BY DEF IInv, ShapeInv
<1>2. DistinctInv' /\ QueueInv' /\ StartInv' /\ OwnInv' /\ ClosedInv'
  BY DEF DistinctInv, QueueInv, StartInv, OwnInv, ClosedInv, Working
<1>3. SlotInv'
  <2>1. Taken' = Taken
    BY DEF Taken, FreeSlots, Slots
  <2>2. Made' = Clients /\ Made \subseteq Clients
    BY DEF Made
  <2>3. Cardinality(Made) <= Cardinality(Clients) /\ Cardinality(Clients) \in Nat
    BY <2>2, LoopAssumption, FS_Subset, FS_CardinalityType
  <2>4. Cardinality(Taken) <= Cardinality(Made) /\ Cardinality(Taken) \in Nat
        /\ Cardinality(Made) \in Nat
    BY Finite DEF IInv, SlotInv
  <2>5. Cardinality(Taken') <= Cardinality(Made')
    BY <2>1, <2>2, <2>3, <2>4
  <2>. QED  BY <2>5 DEF SlotInv
<1>. QED  BY <1>1, <1>2, <1>3 DEF IInv

LEMMA FreeKeeps ==
  ASSUME IInv, NEW w \in Clients, Free(w), UNCHANGED <<program, client>>
  PROVE  IInv'
<1>1. /\ program = "t1s" /\ at[w] = "free" /\ at' = [at EXCEPT ![w] = "done"]
      /\ UNCHANGED <<backlog, main, sock, serving, overtaken, fd, fdOf>>
  BY DEF Free, Goto, mainVars
<1>2. \A v \in Clients : at'[v] = IF v = w THEN "done" ELSE at[v]
  BY <1>1 DEF IInv, ShapeInv
<1>3. PICK r \in Rooms \cup {0} : clifd_p \in [1..r -> Nat]
  BY DEF IInv, ShapeInv
<1>4. clifd_p' = clifd_p \/ \E k : clifd_p' = [clifd_p EXCEPT ![k] = 0]
  BY DEF Free
<1>5. clifd_p' \in [1..r -> Nat]
  BY <1>3, <1>4
<1>6. ShapeInv'
  BY <1>1, <1>5 DEF IInv, ShapeInv
<1>7. DistinctInv' /\ ClosedInv'
  BY <1>1, <1>2 DEF IInv, DistinctInv, ClosedInv
<1>8. QueueInv'
  BY <1>1, <1>2, Queued DEF IInv, QueueInv
<1>9. StartInv'
  BY <1>1, <1>2 DEF IInv, StartInv, Owns
<1>10. OwnInv'
  BY <1>1, <1>2 DEF IInv, OwnInv, Owns, Working
<1>11. SlotInv'
  <2>1. Slots' = Slots /\ Made' = Made
    BY <1>1, <1>2, <1>3, <1>5 DEF Slots, Made
  <2>2. Taken' \subseteq Taken
    BY <1>3, <1>4 DEF Taken, FreeSlots, Slots
  <2>3. /\ IsFiniteSet(Taken) /\ Cardinality(Taken) \in Nat /\ Cardinality(Made) \in Nat
        /\ Cardinality(Taken) <= Cardinality(Made)
    BY Finite DEF IInv, SlotInv
  <2>4. Cardinality(Taken') <= Cardinality(Taken) /\ Cardinality(Taken') \in Nat
    BY <2>2, <2>3, FS_Subset, FS_CardinalityType
  <2>5. Cardinality(Taken') <= Cardinality(Made')
    BY <2>1, <2>3, <2>4
  <2>. QED  BY <1>1, <1>2, <2>1, <2>5 DEF IInv, SlotInv
<1>. QED  BY <1>6, <1>7, <1>8, <1>9, <1>10, <1>11 DEF IInv

LEMMA DieKeeps ==
  ASSUME IInv, NEW w \in Clients, at[w] \in Working, Die(w),
         UNCHANGED <<program, client, fdOf, clifd_p>>
  PROVE  IInv'
<1>1. CASE program \in {"ps", "s"}
  <2>1. at' = [at EXCEPT ![w] = "done"] /\ UNCHANGED mainVars
        /\ fd' = IF program = "ps" THEN [fd EXCEPT ![w] = 0] ELSE fd
    BY <1>1 DEF Die
  <2>2. CASE program = "ps"
    <3>1. fd' = [c \in Clients |-> IF c \in {w} THEN 0 ELSE fd[c]]
      BY <2>1, <2>2 DEF IInv, ShapeInv
    <3>2. {w} \in SUBSET (Conn(w) \cup {w})
      OBVIOUS
    <3>. QED  BY <2>1, <2>2, <3>1, <3>2, EndKeeps
  <2>3. CASE program = "s"
    <3>1. fd' = [c \in Clients |-> IF c \in {} THEN 0 ELSE fd[c]]
      BY <2>1, <2>3 DEF IInv, ShapeInv
    <3>2. {} \in SUBSET (Conn(w) \cup {w})
      OBVIOUS
    <3>. QED  BY <2>1, <2>3, <3>1, <3>2, EndKeeps
  <2>. QED  BY <1>1, <2>2, <2>3
<1>2. CASE program \in {"s1", "t1s"}
  <2>1. /\ main' = "dead" /\ backlog' = <<>> /\ UNCHANGED <<sock, serving, overtaken>>
        /\ at' = [v \in Clients |-> "done"] /\ fd' = [c \in Clients |-> 0]
    BY <1>2 DEF Die
  <2>. QED  BY <1>2, <2>1, AllEndKeeps
<1>. QED  BY <1>1, <1>2 DEF IInv, ShapeInv

LEMMA HangUpKeeps ==
  ASSUME IInv, NEW w \in Clients, HangUp(w), UNCHANGED <<program, client>>
  PROVE  IInv'
<1>1. /\ Asks /\ at[w] = "ask" /\ at' = [at EXCEPT ![w] = "done"]
      /\ UNCHANGED <<fdOf, clifd_p, mainVars>>
      /\ program = "s1" => fd' = [c \in Clients |-> IF c \in Conn(w) THEN 0 ELSE fd[c]]
      /\ program # "s1" => fd' = fd
  BY DEF HangUp, Goto
<1>2. at[w] \in Working
  BY <1>1 DEF Working
<1>3. CASE program = "s1"
  <2>1. Conn(w) \in SUBSET (Conn(w) \cup {w})
    OBVIOUS
  <2>. QED  BY <1>1, <1>2, <1>3, <2>1, EndKeeps
<1>4. CASE program = "s"
  <2>1. fd' = [c \in Clients |-> IF c \in {} THEN 0 ELSE fd[c]]
    BY <1>1, <1>4 DEF IInv, ShapeInv
  <2>2. {} \in SUBSET (Conn(w) \cup {w})
    OBVIOUS
  <2>. QED  BY <1>1, <1>2, <1>4, <2>1, <2>2, EndKeeps
<1>. QED  BY <1>1, <1>3, <1>4 DEF Asks

(* A child of ps reads: it serves the client it was made for. *)
LEMMA ReadEchoKeeps ==
  ASSUME IInv, NEW w \in Clients, ReadEcho(w), UNCHANGED <<program, client>>
  PROVE  IInv'
<1>1. program = "ps" /\ at[w] = "read" /\ at[w] \in Working
      /\ UNCHANGED <<fdOf, clifd_p, mainVars>>
  BY DEF ReadEcho, Working
<1>2. PICK c \in Conn(w) :
        \/ at' = [at EXCEPT ![w] = "write"] /\ fd' = fd
        \/ at' = [at EXCEPT ![w] = "done"] /\ fd' = [fd EXCEPT ![c] = 0]
  BY DEF ReadEcho, Goto
<1>3. c = w
  BY <1>1, <1>2 DEF IInv, OwnInv, Owns, Conn, DistinctInv
<1>4. CASE at' = [at EXCEPT ![w] = "write"] /\ fd' = fd
  BY <1>1, <1>4, GoesOnKeeps DEF Working
<1>5. CASE at' = [at EXCEPT ![w] = "done"] /\ fd' = [fd EXCEPT ![c] = 0]
  <2>1. fd' = [d \in Clients |-> IF d \in {w} THEN 0 ELSE fd[d]]
    BY <1>3, <1>5 DEF IInv, ShapeInv
  <2>2. {w} \in SUBSET (Conn(w) \cup {w})
    OBVIOUS
  <2>. QED  BY <1>1, <1>5, <2>1, <2>2, EndKeeps
<1>. QED  BY <1>2, <1>4, <1>5

LEMMA WorkerKeeps ==
  ASSUME IInv, NEW w \in Clients, Runs(w) \/ Attended(w), UNCHANGED program
  PROVE  IInv'
<1>0. UNCHANGED client
  BY DEF Runs, Attended, clientVars
<1>1. CASE LoadArg(w)
  BY <1>0, <1>1, LoadKeeps
<1>2. CASE ReadEcho(w)
  BY <1>0, <1>2, ReadEchoKeeps
<1>3. CASE Free(w)
  BY <1>0, <1>3, FreeKeeps
<1>4. CASE HangUp(w)
  BY <1>0, <1>4, HangUpKeeps
<1>5. CASE ReadLine(w)
  BY <1>0, <1>5, GoesOnKeeps DEF ReadLine, Goto, Working
<1>6. CASE Recv(w)
  BY <1>0, <1>6, GoesOnKeeps DEF Recv, Goto, Working
<1>7. CASE Echo(w)
  <2>1. at[w] = "write" /\ UNCHANGED <<fdOf, clifd_p>>
        /\ \/ Goto(w, "write", "read") /\ UNCHANGED <<fd, mainVars>>
           \/ Die(w)
    BY <1>7 DEF Echo
  <2>. QED  BY <1>0, <2>1, GoesOnKeeps, DieKeeps DEF Goto, Working
<1>8. CASE Answer(w)
  <2>1. at[w] = "ask" /\ UNCHANGED <<fdOf, clifd_p>>
        /\ \/ Goto(w, "ask", "read") /\ UNCHANGED <<fd, mainVars>>
           \/ Die(w)
    BY <1>8 DEF Answer
  <2>. QED  BY <1>0, <2>1, GoesOnKeeps, DieKeeps DEF Goto, Working
<1>9. CASE SendRound(w)
  <2>1. at[w] = "send" /\ UNCHANGED <<fdOf, clifd_p>>
        /\ \/ Goto(w, "send", "read") /\ UNCHANGED <<fd, mainVars>>
           \/ Die(w)
    BY <1>9 DEF SendRound
  <2>. QED  BY <1>0, <2>1, GoesOnKeeps, DieKeeps DEF Goto, Working
<1>. QED  BY <1>1, <1>2, <1>3, <1>4, <1>5, <1>6, <1>7, <1>8, <1>9 DEF Runs, Attended

LEMMA NextKeeps == IInv /\ [Next]_vars => IInv'
<1> SUFFICES ASSUME IInv, [Next]_vars PROVE IInv'
  OBVIOUS
<1>1. CASE MainStep /\ UNCHANGED program
  <2>1. CASE Accept
    BY <1>1, <2>1, AcceptKeeps
  <2>2. CASE (Fork \/ CreateThread \/ Reap)
             /\ UNCHANGED <<tcpVars, clientVars, fd, backlog, sock, serving, overtaken>>
    BY <1>1, <2>2, ForkKeeps, ThreadKeeps, ReapKeeps DEF clientVars
  <2>. QED  BY <1>1, <2>1, <2>2 DEF MainStep
<1>2. ASSUME NEW c \in Clients, Connect(c), UNCHANGED program PROVE IInv'
  BY <1>2, ConnectKeeps
<1>3. ASSUME NEW c \in Clients, TypeLine(c), UNCHANGED program PROVE IInv'
  <2>1. UNCHANGED <<mainVars, workerVars>>
    BY <1>3 DEF TypeLine
  <2>2. \E x \in {"typing", "waiting", "closing", "gone"} :
          client[c] # "new" /\ client' = [client EXCEPT ![c] = x]
    BY <1>3 DEF TypeLine, Move
  <2>. QED  BY <1>3, <2>1, <2>2, ClientKeeps
<1>4. ASSUME NEW c \in Clients, ReadReply(c), UNCHANGED program PROVE IInv'
  <2>1. UNCHANGED <<mainVars, workerVars>>
    BY <1>4 DEF ReadReply
  <2>2. \E x \in {"typing", "waiting", "closing", "gone"} :
          client[c] # "new" /\ client' = [client EXCEPT ![c] = x]
    BY <1>4 DEF ReadReply, Move
  <2>. QED  BY <1>4, <2>1, <2>2, ClientKeeps
<1>5. ASSUME NEW c \in Clients, NEW broken \in BOOLEAN, Leave(c, broken), UNCHANGED program
      PROVE  IInv'
  <2>1. UNCHANGED <<mainVars, workerVars>>
    BY <1>5 DEF Leave
  <2>2. \E x \in {"typing", "waiting", "closing", "gone"} :
          client[c] # "new" /\ client' = [client EXCEPT ![c] = x]
    BY <1>5 DEF Leave, Move
  <2>. QED  BY <1>5, <2>1, <2>2, ClientKeeps
<1>6. ASSUME NEW w \in Clients, Runs(w) \/ Attended(w), UNCHANGED program PROVE IInv'
  BY <1>6, WorkerKeeps
<1>7. CASE UNCHANGED vars
  <2>1. ShapeInv' /\ DistinctInv' /\ QueueInv' /\ StartInv' /\ OwnInv' /\ ClosedInv'
    BY <1>7 DEF vars, mainVars, workerVars, clientVars, IInv, ShapeInv, DistinctInv, QueueInv,
                StartInv, OwnInv, ClosedInv, Owns
  <2>2. Taken' = Taken /\ Made' = Made /\ Slots' = Slots
    BY <1>7 DEF vars, workerVars, Taken, Made, FreeSlots, Slots
  <2>3. SlotInv'
    BY <1>7, <2>2 DEF vars, mainVars, workerVars, IInv, SlotInv
  <2>. QED  BY <2>1, <2>3 DEF IInv
<1>. QED  BY <1>1, <1>2, <1>3, <1>4, <1>5, <1>6, <1>7 DEF Next

-----------------------------------------------------------------------------
(* The invariant holds in every execution of each server. *)
THEOREM Invariance == Spec => []IInv
BY Initially, NextKeeps, PTL DEF Spec

(* Unless main has accepted a client before a thread had read its argument,
   every worker uses the descriptor of the client it was made for. *)
THEOREM EachServesItsOwn == Spec => []OwnClient
<1>1. IInv => OwnClient
  BY DEF IInv, OwnInv, Owns, OwnClient
<1>. QED  BY <1>1, Invariance, PTL

(* A connection nobody serves is forgotten for one of the reasons
   ForgottenExplained gives: there is none in ps, none but of hung-up clients in
   s, none but of overtaken threads in s1, and in t1s those of ended threads and
   of a room that had been full. *)
THEOREM ForgottenIsExplained == Spec => []ForgottenExplained
<1>1. IInv => ForgottenExplained
  <2>1. SUFFICES ASSUME IInv, NEW c \in Clients, Forgotten(c)
                 PROVE  /\ program = "ps" => FALSE
                        /\ program = "s" => at[c] = "done"
                        /\ program = "s1" => c \in overtaken
                        /\ program = "t1s" =>
                             \/ c \in overtaken \/ at[c] = "done"
                             \/ at[c] = "none" /\ Cardinality(Made) >= Cardinality(Slots)
    BY DEF ForgottenExplained, Made, IInv, ShapeInv
  <2>2. fd[c] # 0 /\ at[c] # "start" /\ at[c] \in {"none", "start", "done"} \cup Working
    BY <2>1 DEF Forgotten, IInv, ShapeInv
  <2>3. CASE at[c] = "none"
    <3>1. program = "t1s" /\ Cardinality(Slots) <= Cardinality(Made)
      BY <2>1, <2>3 DEF Forgotten, IInv, SlotInv
    <3>2. Cardinality(Slots) \in Nat /\ Cardinality(Made) \in Nat
      BY <2>1, Finite DEF IInv
    <3>. QED  BY <2>3, <3>1, <3>2
  <2>4. CASE at[c] \in Working
    <3>1. fdOf[c] # fd[c]
      BY <2>1, <2>4 DEF Forgotten, Served
    <3>2. c \in overtaken
      BY <2>1, <2>2, <2>4, <3>1 DEF IInv, OwnInv, Owns
    <3>3. program \notin {"ps", "s"}
      BY <2>1, <3>2 DEF IInv, OwnInv
    <3>. QED  BY <3>2, <3>3
  <2>5. CASE at[c] = "done"
    BY <2>1, <2>2, <2>5 DEF IInv, ClosedInv
  <2>. QED  BY <2>2, <2>3, <2>4, <2>5
<1>. QED  BY <1>1, Invariance, PTL

-----------------------------------------------------------------------------
(* While nobody has been rude, a server finds of a client that has gone only
   its farewell, and has answered everything before it. *)
QuietInv ==
  program \in {"ps", "t1s"} /\ rude = {} => \A c \in Clients :
    /\ at[c] \notin {"free", "done"}
    /\ line["server"][c] \in {"open", "eof"}
    /\ line["server"][c] = "eof" =>
         client[c] = "gone" /\ inbox["server"][c] = <<>> /\ at[c] # "write"

SocketInv == TcpTypeOK({"text", "quit"})

LEMMA ReadType ==
  ASSUME SocketInv, NEW s \in Sides, NEW c \in Clients, NEW k \in 1..Len(inbox[s][c])
  PROVE  SubSeq(inbox[s][c], k + 1, Len(inbox[s][c])) \in Seq({"text", "quit"})
<1>1. inbox[s][c] \in Seq({"text", "quit"})
  BY DEF SocketInv, TcpTypeOK
<1>. QED  BY <1>1, SubSeqProperties, LenProperties

(* The socket operations change nothing at other ends and other connections. *)
LEMMA SentOnly ==
  ASSUME SocketInv, NEW s \in Sides, NEW c \in Clients, NEW m \in {"text", "quit"},
         Sent(s, c, m)
  PROVE  /\ SocketInv'
         /\ \A t \in Sides, d \in Clients :
              /\ t # Other(s) \/ d # c => inbox'[t][d] = inbox[t][d]
              /\ t # s \/ d # c \/ line[s][c] = "open" => line'[t][d] = line[t][d]
<1> USE DEF SocketInv, TcpTypeOK
<1>1. Other(s) \in Sides
  BY DEF Sides, Other
<1>2. CASE line[s][c] = "open"
  <2>1. Append(inbox[Other(s)][c], m) \in Seq({"text", "quit"})
    BY <1>1
  <2>2. line' = line /\ inbox' = [inbox EXCEPT ![Other(s)][c] = Append(@, m)]
    BY <1>2 DEF Sent
  <2>. QED  BY <1>1, <2>1, <2>2
<1>3. CASE line[s][c] # "open"
  <2>1. inbox' = inbox /\ line' = [line EXCEPT ![s][c] = "dead"]
    BY <1>3 DEF Sent
  <2>. QED  BY <1>3, <2>1
<1>. QED  BY <1>2, <1>3

LEMMA GotOnly ==
  ASSUME SocketInv, NEW s \in Sides, NEW c \in Clients, NEW k, Got(s, c, k)
  PROVE  /\ SocketInv' /\ line' = line /\ inbox[s][c] # <<>>
         /\ \A t \in Sides, d \in Clients : t # s \/ d # c => inbox'[t][d] = inbox[t][d]
<1>1. k \in 1..Len(inbox[s][c]) /\ line' = line
      /\ inbox' = [inbox EXCEPT ![s][c] = SubSeq(@, k + 1, Len(@))]
  BY DEF Got
<1>2. SubSeq(inbox[s][c], k + 1, Len(inbox[s][c])) \in Seq({"text", "quit"})
  BY <1>1, ReadType
<1>3. inbox[s][c] # <<>>
  BY <1>1, EmptySeq
<1>. QED  BY <1>1, <1>2, <1>3 DEF SocketInv, TcpTypeOK

LEMMA ToldOnly ==
  ASSUME SocketInv, NEW s \in Sides, NEW c \in Clients, Told(s, c)
  PROVE  /\ SocketInv' /\ inbox' = inbox
         /\ \A t \in Sides, d \in Clients :
              t # s \/ d # c \/ line[s][c] # "reset" => line'[t][d] = line[t][d]
BY DEF Told, SocketInv, TcpTypeOK

LEMMA ClosedOnly ==
  ASSUME SocketInv, NEW s \in Sides, NEW C, NEW B, Closed(s, C, B), UNCHANGED inbox
  PROVE  /\ SocketInv'
         /\ \A d \in Clients : line'[s][d] = line[s][d]
         /\ \A d \in Clients : line'[Other(s)][d] =
              IF d \notin C \/ line[Other(s)][d] # "open" THEN line[Other(s)][d]
              ELSE IF d \in B \/ inbox[s][d] # <<>> THEN "reset" ELSE "eof"
<1>1. Other(s) \in Sides /\ Other(s) # s
  BY DEF Sides, Other
<1>. QED  BY <1>1 DEF Closed, SocketInv, TcpTypeOK

LEMMA SocketKeeps == SocketInv /\ [Next]_vars => SocketInv'
<1> SUFFICES ASSUME SocketInv, [Next]_vars PROVE SocketInv'
  OBVIOUS
<1> USE DEF Sides
<1>1. ASSUME UNCHANGED tcpVars PROVE SocketInv'
  BY <1>1 DEF tcpVars, SocketInv, TcpTypeOK
<1>2. CASE MainStep
  BY <1>1, <1>2 DEF MainStep, Accept
<1>3. ASSUME NEW c \in Clients, Connect(c) \/ TypeLine(c) \/ ReadReply(c) PROVE SocketInv'
  BY <1>1, <1>3, SentOnly, GotOnly, ToldOnly DEF Connect, TypeLine, ReadReply
<1>4. ASSUME NEW c \in Clients, NEW broken \in BOOLEAN, Leave(c, broken) PROVE SocketInv'
  BY <1>4, ClosedOnly DEF Leave
<1>5. ASSUME NEW w \in Clients, Die(w) PROVE SocketInv'
  BY <1>1, <1>5, ClosedOnly DEF Die
<1>6. ASSUME NEW w \in Clients, LoadArg(w) \/ ReadLine(w) \/ ReadEcho(w) \/ Recv(w) \/ Free(w)
      PROVE  SocketInv'
  BY <1>1, <1>6, GotOnly, ToldOnly DEF LoadArg, ReadLine, ReadEcho, Recv, Free, Conn
<1>7. ASSUME NEW w \in Clients, Echo(w) \/ Answer(w) PROVE SocketInv'
  BY <1>1, <1>5, <1>7, SentOnly DEF Echo, Answer, Conn
<1>8. ASSUME NEW w \in Clients, SendRound(w) PROVE SocketInv'
  <2>1. SUFFICES ASSUME NEW all, inbox' = inbox,
                        line' = [line EXCEPT !["server"] = [c \in Clients |->
                          IF c \in all /\ @[c] = "reset" THEN "dead" ELSE @[c]]]
                 PROVE  SocketInv'
    BY <1>5, <1>8 DEF SendRound
  <2>2. [c \in Clients |-> IF c \in all /\ line["server"][c] = "reset" THEN "dead"
                           ELSE line["server"][c]] \in [Clients -> {"open", "eof", "reset", "dead"}]
    BY DEF SocketInv, TcpTypeOK
  <2>. QED  BY <2>1, <2>2 DEF SocketInv, TcpTypeOK
<1>9. ASSUME NEW w \in Clients, HangUp(w) PROVE SocketInv'
  BY <1>1, <1>9, ClosedOnly DEF HangUp, tcpVars
<1>10. CASE UNCHANGED vars
  BY <1>1, <1>10 DEF vars
<1>. QED  BY <1>2, <1>3, <1>4, <1>6, <1>7, <1>8, <1>9, <1>10 DEF Next, Runs, Attended

LEMMA QuietKeeps == IInv /\ SocketInv /\ QuietInv /\ [Next]_vars => QuietInv'
<1> SUFFICES ASSUME IInv, SocketInv, QuietInv, [Next]_vars,
                    program' \in {"ps", "t1s"}, rude' = {}
             PROVE  QuietInv'
  BY DEF QuietInv
<1> USE DEF Sides
<1>0. /\ program' = program /\ rude = {} /\ program \in {"ps", "t1s"}
      /\ \A w \in Clients : at[w] \notin {"free", "done"}
      /\ \A c \in Clients : line["server"][c] \in {"open", "eof"}
      /\ \A c \in Clients : line["server"][c] = "eof" =>
           client[c] = "gone" /\ inbox["server"][c] = <<>> /\ at[c] # "write"
      /\ Other("client") = "server" /\ Other("server") = "client"
  <2>1. program' = program /\ rude \subseteq rude'
    BY DEF Next, vars, MainStep, Accept, clientVars, Connect, TypeLine, ReadReply, Leave,
           Runs, Attended
  <2>. QED  BY <2>1 DEF QuietInv, Other
<1>1. ASSUME UNCHANGED <<inbox, line, at>>,
             \A c \in Clients : client[c] = "gone" => client'[c] = "gone"
      PROVE  QuietInv'
  BY <1>0, <1>1 DEF QuietInv
<1>2. CASE MainStep
  <2>1. UNCHANGED <<inbox, line, client>>
    BY <1>2 DEF MainStep, Accept, tcpVars, clientVars
  <2>2. \A w \in Clients : at'[w] = at[w] \/ at'[w] \in {"read", "start"}
    BY <1>2 DEF MainStep, Accept, Fork, CreateThread, Reap, Goto, IInv, ShapeInv
  <2>. QED  BY <1>0, <2>1, <2>2 DEF QuietInv
<1>3. ASSUME NEW c \in Clients, Connect(c) PROVE QuietInv'
  BY <1>1, <1>3 DEF Connect, Move, tcpVars, workerVars, IInv, ShapeInv
<1>4. ASSUME NEW c \in Clients, TypeLine(c) PROVE QuietInv'
  <2>1. client[c] = "typing" /\ at' = at
    BY <1>4 DEF TypeLine, Move, workerVars
  <2>2. \A d \in Clients : client[d] = "gone" => client'[d] = "gone"
    BY <1>4, <2>1 DEF TypeLine, Move, IInv, ShapeInv
  <2>3. UNCHANGED tcpVars \/ \E m \in {"text", "quit"} : Sent("client", c, m)
    BY <1>4 DEF TypeLine
  <2>4. \A d \in Clients : line'["server"][d] = line["server"][d]
                           /\ (d # c => inbox'["server"][d] = inbox["server"][d])
    BY <1>0, <2>3, SentOnly DEF tcpVars
  <2>. QED  BY <1>0, <2>1, <2>2, <2>4 DEF QuietInv
<1>5. ASSUME NEW c \in Clients, ReadReply(c) PROVE QuietInv'
  <2>1. client[c] # "gone" /\ at' = at
    BY <1>5 DEF ReadReply, Move, workerVars
  <2>2. \A d \in Clients : client[d] = "gone" => client'[d] = "gone"
    BY <1>5, <2>1 DEF ReadReply, Move, IInv, ShapeInv
  <2>3. (\E k : Got("client", c, k)) \/ Told("client", c)
    BY <1>5 DEF ReadReply
  <2>4. \A d \in Clients : line'["server"][d] = line["server"][d]
                           /\ inbox'["server"][d] = inbox["server"][d]
    BY <2>3, GotOnly, ToldOnly
  <2>. QED  BY <1>0, <2>1, <2>2, <2>4 DEF QuietInv
<1>6. ASSUME NEW c \in Clients, NEW broken \in BOOLEAN, Leave(c, broken) PROVE QuietInv'
  <2>1. ~broken /\ ~Unanswered(c)
    BY <1>0, <1>6 DEF Leave
  <2>2. inbox["server"][c] = <<>> /\ inbox["client"][c] = <<>> /\ at[c] # "write"
    BY <2>1 DEF Unanswered
  <2>3. UNCHANGED <<inbox, at>> /\ client' = [client EXCEPT ![c] = "gone"]
        /\ Closed("client", {c}, {})
    BY <1>6, <2>1 DEF Leave, Move, workerVars
  <2>4. \A d \in Clients : line'["server"][d] = line["server"][d]
                           \/ (d = c /\ line'["server"][d] = "eof")
    BY <1>0, <2>2, <2>3, ClosedOnly
  <2>5. \A d \in Clients : client'[d] = IF d = c THEN "gone" ELSE client[d]
    BY <2>3 DEF IInv, ShapeInv
  <2>. QED  BY <1>0, <2>2, <2>3, <2>4, <2>5 DEF QuietInv
<1>7. ASSUME NEW w \in Clients, Runs(w) \/ Attended(w) PROVE QuietInv'
  <2>0. client' = client
    BY <1>7 DEF Runs, Attended, clientVars
  <2>1. ASSUME NEW x \in {"read", "write", "send"}, at' = [at EXCEPT ![w] = x],
               x = "write" => line'["server"][w] # "eof",
               \A d \in Clients : line'["server"][d] = line["server"][d]
                 /\ (inbox'["server"][d] = inbox["server"][d] \/ line["server"][d] # "eof")
        PROVE  QuietInv'
    <3>1. \A v \in Clients : at'[v] = IF v = w THEN x ELSE at[v]
      BY <2>1 DEF IInv, ShapeInv
    <3>. QED  BY <1>0, <2>0, <2>1, <3>1 DEF QuietInv
  <2>2. CASE LoadArg(w)
    BY <2>1, <2>2 DEF LoadArg, Goto, tcpVars
  <2>3. CASE ReadEcho(w)
    <3>1. PICK c \in Conn(w) :
            \/ (\E k : Got("server", c, k)) /\ at' = [at EXCEPT ![w] = "write"]
            \/ line["server"][c] = "reset"
      BY <2>3 DEF ReadEcho, Goto
    <3>2. c = w
      BY <2>3, <3>1 DEF ReadEcho, IInv, OwnInv, Owns, Conn, DistinctInv, Working
    <3>3. (\E k : Got("server", w, k)) /\ at' = [at EXCEPT ![w] = "write"]
      BY <1>0, <3>1, <3>2
    <3>4. line' = line /\ inbox["server"][w] # <<>>
          /\ \A d \in Clients : d # w => inbox'["server"][d] = inbox["server"][d]
      BY <3>3, GotOnly
    <3>5. line["server"][w] # "eof"
      BY <1>0, <3>4
    <3>. QED  BY <2>1, <3>3, <3>4, <3>5
  <2>4. CASE Echo(w)
    <3>1. program = "ps" /\ at[w] = "write"
      BY <2>4 DEF Echo
    <3>2. PICK c \in Conn(w) :
            \/ Sent("server", c, "text") /\ at' = [at EXCEPT ![w] = "read"]
            \/ line["server"][c] = "dead"
      BY <2>4 DEF Echo, Goto
    <3>3. c = w
      BY <3>1, <3>2 DEF IInv, OwnInv, Owns, Conn, DistinctInv, Working
    <3>4. line["server"][w] = "open"
      BY <1>0, <3>1
    <3>5. Sent("server", w, "text") /\ at' = [at EXCEPT ![w] = "read"]
      BY <3>2, <3>3, <3>4
    <3>6. \A d \in Clients : line'["server"][d] = line["server"][d]
                             /\ inbox'["server"][d] = inbox["server"][d]
      BY <1>0, <3>4, <3>5, SentOnly
    <3>. QED  BY <2>1, <3>5, <3>6
  <2>5. CASE SendRound(w)
    <3>1. /\ at' = [at EXCEPT ![w] = "read"] /\ inbox' = inbox
          /\ \E all : line' = [line EXCEPT !["server"] = [c \in Clients |->
               IF c \in all /\ @[c] = "reset" THEN "dead" ELSE @[c]]]
      BY <1>0, <2>5 DEF SendRound, Goto
    <3>2. \A d \in Clients : line'["server"][d] = line["server"][d]
      BY <1>0, <3>1 DEF SocketInv, TcpTypeOK
    <3>. QED  BY <2>1, <3>1, <3>2
  <2>6. CASE Recv(w)
    <3>1. PICK c \in Conn(w) :
            \/ (\E k : Got("server", c, k)) /\ at' = [at EXCEPT ![w] = "send"]
            \/ Told("server", c)
               /\ at' = [at EXCEPT ![w] = IF line["server"][c] = "reset" THEN "free" ELSE "send"]
      BY <2>6 DEF Recv, Goto
    <3>2. c \in Clients
      BY <3>1 DEF Conn
    <3>3. CASE (\E k : Got("server", c, k)) /\ at' = [at EXCEPT ![w] = "send"]
      <4>1. line' = line /\ inbox["server"][c] # <<>>
            /\ \A d \in Clients : d # c => inbox'["server"][d] = inbox["server"][d]
        BY <3>2, <3>3, GotOnly
      <4>. QED  BY <1>0, <2>1, <3>2, <3>3, <4>1
    <3>4. CASE Told("server", c)
               /\ at' = [at EXCEPT ![w] = IF line["server"][c] = "reset" THEN "free" ELSE "send"]
      <4>1. line["server"][c] # "reset"
        BY <1>0, <3>2
      <4>2. inbox' = inbox /\ \A d \in Clients : line'["server"][d] = line["server"][d]
        BY <3>2, <3>4, <4>1, ToldOnly
      <4>. QED  BY <2>1, <3>4, <4>1, <4>2
    <3>. QED  BY <3>1, <3>3, <3>4
  <2>7. ~Free(w) /\ ~ReadLine(w) /\ ~HangUp(w) /\ ~Answer(w)
    BY <1>0 DEF Free, Goto, ReadLine, HangUp, Answer, Asks
  <2>. QED  BY <1>7, <2>2, <2>3, <2>4, <2>5, <2>6, <2>7 DEF Runs, Attended
<1>8. CASE UNCHANGED vars
  BY <1>1, <1>8 DEF vars, tcpVars, clientVars, workerVars
<1>. QED  BY <1>2, <1>3, <1>4, <1>5, <1>6, <1>7, <1>8 DEF Next

(* In ps and t1s no worker ends unless some client has broken, or has left with
   something unanswered: a client that leaves in good order is never noticed. *)
THEOREM NobodyNoticed == Spec => []EndsByFailure
<1>1. Init => SocketInv /\ QuietInv
  BY EmptySeq DEF Init, TcpInit, SocketInv, TcpTypeOK, QuietInv, Sides
<1>2. QuietInv => EndsByFailure
  BY DEF QuietInv, EndsByFailure
<1>. QED  BY <1>1, <1>2, Initially, NextKeeps, SocketKeeps, QuietKeeps, PTL DEF Spec
=============================================================================
