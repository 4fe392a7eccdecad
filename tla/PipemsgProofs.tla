---------------------------- MODULE PipemsgProofs ----------------------------
(***************************************************************************)
(* The chats of pid/pipemsg.                                               *)
(*                                                                         *)
(* pro2.c, for any users, groups, names and size of the queue: a message   *)
(* is at one place and is printed in its turn.  The invariant follows the  *)
(* messages through the places they can be at, the queue, the hands of a   *)
(* child and the terminals, as three sets without repetition that share    *)
(* nothing and hold what was sent and not lost; and, for a sender none of  *)
(* whose messages was put back, it orders what is printed before what is   *)
(* queued.                                                                 *)
(*                                                                         *)
(* pls.c, pzs.c and 123.c, for any processes: where each is on its way     *)
(* through its two open calls says what it still has to open and what it   *)
(* holds, so that a process that reads fifo1 is first in its chat, and one *)
(* that waits for fifo1 alone met a first one.                             *)
(***************************************************************************)
EXTENDS ChatQueue, FifoClients, FiniteSetTheorems, SequenceTheorems, TLAPS

(* The messages at each of the places, and those that must be somewhere. *)
Queued == {queue[i] : i \in 1..Len(queue)}
InHands == {held[u] : u \in Users} \ {None}
PrintedBy(u) == {shown[u][i] : i \in 1..Len(shown[u])}
Printed == UNION {PrintedBy(u) : u \in Users}
Sent == {m \in Msg : m.n <= sent[m.from]}

(* No place has a message twice. *)
PrintedOnce ==
  \A u, v \in Users : \A i \in 1..Len(shown[u]), j \in 1..Len(shown[v]) :
    shown[u][i] = shown[v][j] => u = v /\ i = j

OnceInv ==
  /\ \A i, j \in 1..Len(queue) : queue[i] = queue[j] => i = j
  /\ \A u, v \in Users : held[u] = held[v] /\ held[u] # None => u = v
  /\ PrintedOnce

(* No message is at two places, and each one sent is somewhere. *)
PlaceInv ==
  /\ Queued \cap InHands = {} /\ Queued \cap Printed = {} /\ InHands \cap Printed = {}
  /\ lost \subseteq Sent
  /\ Queued \cup InHands \cup Printed = Sent \ lost

(* The messages of a sender nobody put one back of are queued in the order
   they were sent, and what is printed of them was sent before. *)
TurnInv ==
  /\ \A i, j \in 1..Len(queue) :
       i < j /\ queue[i].from = queue[j].from /\ queue[i].from \notin recycled =>
         queue[i].n < queue[j].n
  /\ \A u \in Users : \A i \in 1..Len(shown[u]), j \in 1..Len(queue) :
       shown[u][i].from = queue[j].from /\ queue[j].from \notin recycled =>
         shown[u][i].n < queue[j].n

(* A user who has not started has no child, and one who sends has typed. *)
StartInv ==
  \A u \in Users :
    /\ parent[u] = "new" => child[u] = "none" /\ asking[u] = {}
    /\ parent[u] = "send" => sent[u] < MaxMsgs[u]

QueueInv == QueueTypeOK /\ StartInv /\ OnceInv /\ PlaceInv /\ TurnInv /\ OrderKept

-----------------------------------------------------------------------------
(* Messages and sequences of them.                                          *)
LEMMA MsgShape ==
  /\ \A m \in Msg : m.from \in Users /\ m.n \in 1..MaxMsgs[m.from] /\ m.n \in Nat /\ m # None
  /\ \A u \in Users : \A n \in 1..MaxMsgs[u] : [from |-> u, n |-> n] \in Msg
  /\ \A m \in Msg : m = [from |-> m.from, n |-> m.n]
<1>1. ASSUME NEW m \in Msg
      PROVE  /\ m.from \in Users /\ m.n \in 1..MaxMsgs[m.from] /\ m.n \in Nat /\ m # None
             /\ m = [from |-> m.from, n |-> m.n]
  <2>1. PICK u \in Users : m \in [from : {u}, n : 1..MaxMsgs[u]]
    BY DEF Msg
  <2>2. m.from = u /\ m.n \in 1..MaxMsgs[u] /\ m = [from |-> m.from, n |-> m.n]
    BY <2>1
  <2>3. m # None
    BY <2>2, QueueAssumption DEF None
  <2>. QED  BY <2>2, <2>3, QueueAssumption
<1>2. ASSUME NEW u \in Users, NEW n \in 1..MaxMsgs[u]
      PROVE  [from |-> u, n |-> n] \in Msg
  BY DEF Msg
<1>. QED  BY <1>1, <1>2

(* Append puts an element at the end, and RemoveAt takes one out. *)
LEMMA AppendedSeq ==
  ASSUME NEW S, NEW s \in Seq(S), NEW m \in S
  PROVE  /\ Append(s, m) \in Seq(S) /\ Len(Append(s, m)) = Len(s) + 1
         /\ Append(s, m)[Len(s) + 1] = m
         /\ \A i \in 1..Len(s) : Append(s, m)[i] = s[i]
OBVIOUS

LEMMA AppendedSet ==
  ASSUME NEW S, NEW s \in Seq(S), NEW m \in S
  PROVE  {Append(s, m)[i] : i \in 1..Len(Append(s, m))} = {s[i] : i \in 1..Len(s)} \cup {m}
<1> DEFINE t == Append(s, m)
<1>1. Len(t) = Len(s) + 1 /\ t[Len(s) + 1] = m /\ \A i \in 1..Len(s) : t[i] = s[i]
  BY AppendedSeq
<1>2. Len(s) \in Nat
  OBVIOUS
<1> HIDE DEF t
<1>3. \A i \in 1..Len(t) : i = Len(s) + 1 \/ i \in 1..Len(s)
  BY <1>1, <1>2
<1>4. Len(s) + 1 \in 1..Len(t) /\ \A i \in 1..Len(s) : i \in 1..Len(t)
  BY <1>1, <1>2
<1>5. {t[i] : i \in 1..Len(t)} = {s[i] : i \in 1..Len(s)} \cup {m}
  BY <1>1, <1>3, <1>4
<1>. QED  BY <1>5 DEF t

LEMMA RemovedSeq ==
  ASSUME NEW S, NEW s \in Seq(S), NEW i \in 1..Len(s)
  PROVE  /\ RemoveAt(s, i) \in Seq(S) /\ Len(RemoveAt(s, i)) = Len(s) - 1
         /\ \A j \in 1..(Len(s) - 1) :
              RemoveAt(s, i)[j] = s[IF j < i THEN j ELSE j + 1]
<1> DEFINE before == SubSeq(s, 1, i - 1)
           after == SubSeq(s, i + 1, Len(s))
<1>1. Len(s) \in Nat /\ i \in Nat /\ 1 <= i /\ i <= Len(s)
  OBVIOUS
<1>2. /\ before \in Seq(S) /\ Len(before) = i - 1
      /\ \A j \in 1..(i - 1) : before[j] = s[j]
  BY <1>1
<1>3. /\ after \in Seq(S) /\ Len(after) = Len(s) - i
      /\ \A j \in 1..(Len(s) - i) : after[j] = s[j + i]
  BY <1>1
<1>4. RemoveAt(s, i) = before \o after
  BY DEF RemoveAt
<1> HIDE DEF before, after
<1>5. /\ before \o after \in Seq(S) /\ Len(before \o after) = Len(s) - 1
      /\ \A j \in 1..(Len(s) - 1) :
           (before \o after)[j] = IF j <= i - 1 THEN before[j] ELSE after[j - (i - 1)]
  <2>1. Len(before) + Len(after) = Len(s) - 1
    BY <1>1, <1>2, <1>3
  <2>2. /\ before \o after \in Seq(S) /\ Len(before \o after) = Len(before) + Len(after)
        /\ \A j \in 1..(Len(before) + Len(after)) :
             (before \o after)[j] =
                IF j <= Len(before) THEN before[j] ELSE after[j - Len(before)]
    <3>1. before \in Seq(S) /\ after \in Seq(S)
      BY <1>2, <1>3
    <3>. QED  BY <3>1, ConcatProperties, Zenon
  <2>. QED  BY <1>2, <2>1, <2>2, Zenon
<1>6. ASSUME NEW j \in 1..(Len(s) - 1)
      PROVE  (before \o after)[j] = s[IF j < i THEN j ELSE j + 1]
  <2>1. CASE j < i
    BY <2>1, <1>1, <1>2, <1>5
  <2>2. CASE ~(j < i)
    <3>1. j - (i - 1) \in 1..(Len(s) - i) /\ j - (i - 1) + i = j + 1
      BY <2>2, <1>1
    <3>2. after[j - (i - 1)] = s[j + 1]
      BY <3>1, <1>3
    <3>. QED  BY <2>2, <3>2, <1>1, <1>5
  <2>. QED  BY <2>1, <2>2
<1>. QED  BY <1>4, <1>5, <1>6

LEMMA RemovedSet ==
  ASSUME NEW S, NEW s \in Seq(S), NEW i \in 1..Len(s),
         \A j, k \in 1..Len(s) : s[j] = s[k] => j = k
  PROVE  {RemoveAt(s, i)[j] : j \in 1..Len(RemoveAt(s, i))} = {s[j] : j \in 1..Len(s)} \ {s[i]}
<1> DEFINE t == RemoveAt(s, i)
<1>1. Len(t) = Len(s) - 1 /\ \A j \in 1..(Len(s) - 1) : t[j] = s[IF j < i THEN j ELSE j + 1]
  BY RemovedSeq
<1>2. Len(s) \in Nat /\ i \in Nat /\ 1 <= i /\ i <= Len(s)
  OBVIOUS
<1> HIDE DEF t
<1>3. ASSUME NEW j \in 1..Len(t)
      PROVE  t[j] \in {s[k] : k \in 1..Len(s)} \ {s[i]}
  <2> DEFINE k == IF j < i THEN j ELSE j + 1
  <2>1. k \in 1..Len(s) /\ k # i
    BY <1>1, <1>2
  <2>2. t[j] = s[k]
    BY <1>1
  <2> HIDE DEF k
  <2>. QED  BY <2>1, <2>2
<1>4. ASSUME NEW k \in 1..Len(s), k # i
      PROVE  \E j \in 1..Len(t) : t[j] = s[k]
  <2> DEFINE j == IF k < i THEN k ELSE k - 1
  <2>1. j \in 1..Len(t) /\ (IF j < i THEN j ELSE j + 1) = k
    BY <1>1, <1>2, <1>4
  <2>2. t[j] = s[k]
    BY <1>1, <2>1
  <2>. QED  BY <2>1, <2>2
<1>5. {t[j] : j \in 1..Len(t)} = {s[j] : j \in 1..Len(s)} \ {s[i]}
  <2>1. {t[j] : j \in 1..Len(t)} \subseteq {s[j] : j \in 1..Len(s)} \ {s[i]}
    BY <1>3
  <2>2. ASSUME NEW x \in {s[j] : j \in 1..Len(s)} \ {s[i]}
        PROVE  x \in {t[j] : j \in 1..Len(t)}
    <3>1. PICK k \in 1..Len(s) : x = s[k] /\ k # i
      BY <2>2
    <3>. QED  BY <3>1, <1>4
  <2>. QED  BY <2>1, <2>2
<1>. QED  BY <1>5 DEF t

-----------------------------------------------------------------------------
(* What a step does to the places.                                          *)
LEMMA QueueGrows ==
  ASSUME QueueTypeOK, NEW m \in Msg, queue' = Append(queue, m)
  PROVE  Queued' = Queued \cup {m}
<1>1. queue \in Seq(Msg)
  BY DEF QueueTypeOK
<1>2. {Append(queue, m)[i] : i \in 1..Len(Append(queue, m))}
        = {queue[i] : i \in 1..Len(queue)} \cup {m}
  BY <1>1, AppendedSet
<1>. QED  BY <1>2, Zenon DEF Queued

LEMMA QueueShrinks ==
  ASSUME QueueTypeOK, OnceInv, NEW i \in 1..Len(queue), queue' = RemoveAt(queue, i)
  PROVE  Queued' = Queued \ {queue[i]}
<1>1. queue \in Seq(Msg) /\ \A j, k \in 1..Len(queue) : queue[j] = queue[k] => j = k
  BY DEF QueueTypeOK, OnceInv
<1>2. {RemoveAt(queue, i)[j] : j \in 1..Len(RemoveAt(queue, i))}
        = {queue[j] : j \in 1..Len(queue)} \ {queue[i]}
  BY <1>1, RemovedSet, Zenon
<1>. QED  BY <1>2, Zenon DEF Queued

LEMMA HandTakes ==
  ASSUME QueueTypeOK, NEW u \in Users, held[u] = None,
         NEW m \in Msg, held' = [held EXCEPT ![u] = m]
  PROVE  InHands' = InHands \cup {m}
<1>1. held'[u] = m /\ \A v \in Users \ {u} : held'[v] = held[v]
  BY DEF QueueTypeOK
<1>2. m # None
  BY MsgShape
<1>. QED  BY <1>1, <1>2 DEF InHands

LEMMA HandEmptied ==
  ASSUME QueueTypeOK, OnceInv, NEW u \in Users, held' = [held EXCEPT ![u] = None]
  PROVE  InHands' = InHands \ HeldBy(u)
<1>1. held'[u] = None /\ \A v \in Users \ {u} : held'[v] = held[v]
  BY DEF QueueTypeOK
<1>2. CASE held[u] = None
  BY <1>1, <1>2 DEF InHands, HeldBy
<1>3. CASE held[u] # None
  <2>1. HeldBy(u) = {held[u]} /\ \A v \in Users \ {u} : held[v] # held[u]
    BY <1>3 DEF HeldBy, OnceInv
  <2>. QED  BY <1>1, <1>3, <2>1 DEF InHands
<1>. QED  BY <1>2, <1>3

LEMMA MorePrinted ==
  ASSUME QueueTypeOK, NEW u \in Users, NEW m \in Msg,
         shown' = [shown EXCEPT ![u] = Append(@, m)]
  PROVE  Printed' = Printed \cup {m}
<1>1. shown[u] \in Seq(Msg) /\ shown'[u] = Append(shown[u], m)
      /\ \A v \in Users \ {u} : shown'[v] = shown[v]
  BY DEF QueueTypeOK
<1>2. PrintedBy(u)' = PrintedBy(u) \cup {m}
  BY <1>1, AppendedSet DEF PrintedBy
<1>3. \A v \in Users \ {u} : PrintedBy(v)' = PrintedBy(v)
  BY <1>1 DEF PrintedBy
<1> HIDE DEF PrintedBy
<1>. QED  BY <1>2, <1>3 DEF Printed

LEMMA SamePrinted ==
  ASSUME shown' = shown
  PROVE  Printed' = Printed /\ (PrintedOnce => PrintedOnce')
<1>1. Printed' = Printed
  BY DEF Printed, PrintedBy
<1>2. PrintedOnce => PrintedOnce'
  BY DEF PrintedOnce
<1>. QED  BY <1>1, <1>2

(* A step that moves no message and tells no one anything. *)
LEMMA UnmovedInv ==
  ASSUME QueueInv, UNCHANGED <<queue, sent, held, shown, lost, recycled>>
  PROVE  OnceInv' /\ PlaceInv' /\ TurnInv' /\ OrderKept'
<1>1. OnceInv'
  BY DEF QueueInv, OnceInv, PrintedOnce
<1>2. PlaceInv'
  <2>1. UNCHANGED <<Queued, InHands, Printed, Sent>>
    BY DEF Queued, InHands, Printed, PrintedBy, Sent
  <2>. QED  BY <2>1 DEF QueueInv, PlaceInv
<1>3. TurnInv'
  BY DEF QueueInv, TurnInv
<1>4. OrderKept'
  BY DEF QueueInv, OrderKept
<1>. QED  BY <1>1, <1>2, <1>3, <1>4

(* A message in the queue, in hand or printed has been sent. *)
LEMMA WasSent ==
  ASSUME PlaceInv
  PROVE  /\ \A i \in 1..Len(queue) : queue[i] \in Sent
         /\ \A u \in Users : held[u] = None \/ held[u] \in Sent
         /\ \A u \in Users : \A i \in 1..Len(shown[u]) : shown[u][i] \in Sent
BY DEF PlaceInv, Queued, InHands, Printed, PrintedBy

-----------------------------------------------------------------------------
(* The user and the signal: nothing moves.                                  *)
LEMMA StartKeeps ==
  ASSUME QueueInv, NEW u \in Users, Start(u)
  PROVE  QueueInv'
<1>1. OnceInv' /\ PlaceInv' /\ TurnInv' /\ OrderKept'
  BY UnmovedInv DEF Start
<1>2. QueueTypeOK'
  BY DEF QueueInv, QueueTypeOK, StartInv, Start
<1>3. StartInv'
  BY DEF QueueInv, QueueTypeOK, StartInv, Start
<1>. QED  BY <1>1, <1>2, <1>3 DEF QueueInv

LEMMA TypeKeeps ==
  ASSUME QueueInv, NEW u \in Users, Type(u)
  PROVE  QueueInv'
<1>1. OnceInv' /\ PlaceInv' /\ TurnInv' /\ OrderKept'
  BY UnmovedInv DEF Type
<1>2. QueueTypeOK' /\ StartInv'
  BY DEF QueueInv, QueueTypeOK, StartInv, Type
<1>. QED  BY <1>1, <1>2 DEF QueueInv

LEMMA InterruptKeeps ==
  ASSUME QueueInv, NEW u \in Users, Interrupt(u)
  PROVE  QueueInv'
<1>1. OnceInv' /\ PlaceInv' /\ TurnInv' /\ OrderKept'
  BY UnmovedInv DEF Interrupt
<1>2. QueueTypeOK'
  BY DEF QueueInv, QueueTypeOK, Interrupt
<1>3. StartInv'
  BY DEF QueueInv, QueueTypeOK, StartInv, Interrupt
<1>. QED  BY <1>1, <1>2, <1>3 DEF QueueInv

LEMMA AnswerParentKeeps ==
  ASSUME QueueInv, NEW u \in Users, AnswerParent(u)
  PROVE  QueueInv'
<1>1. OnceInv' /\ PlaceInv' /\ TurnInv' /\ OrderKept'
  BY UnmovedInv DEF AnswerParent
<1>2. PICK s \in {parent[u], "type", "gone"} : parent' = [parent EXCEPT ![u] = s]
  BY DEF AnswerParent
<1>3. asking' = [asking EXCEPT ![u] = @ \ {"parent"}] /\ asking[u] # {}
      /\ UNCHANGED <<queue, child, sent, held, shown, lost, recycled, interrupted>>
  BY DEF AnswerParent
<1>4. QueueTypeOK'
  BY <1>2, <1>3 DEF QueueInv, QueueTypeOK
<1>5. StartInv'
  BY <1>2, <1>3 DEF QueueInv, QueueTypeOK, StartInv
<1>. QED  BY <1>1, <1>4, <1>5 DEF QueueInv

(* A child that ends or whose call fails loses what it had in hand. *)
LEMMA AnswerChildKeeps ==
  ASSUME QueueInv, NEW u \in Users, AnswerChild(u)
  PROVE  QueueInv'
<1>1. QueueTypeOK /\ StartInv /\ OnceInv /\ PlaceInv /\ TurnInv /\ OrderKept
  BY DEF QueueInv
<1>2. asking' = [asking EXCEPT ![u] = @ \ {"child"}] /\ asking[u] # {}
      /\ UNCHANGED <<queue, parent, sent, shown, recycled, interrupted>>
  BY DEF AnswerChild
<1>3. CASE UNCHANGED <<child, held, lost>>
  <2>1. OnceInv' /\ PlaceInv' /\ TurnInv' /\ OrderKept'
    BY <1>2, <1>3, UnmovedInv
  <2>2. QueueTypeOK' /\ StartInv'
    BY <1>1, <1>2, <1>3 DEF QueueTypeOK, StartInv
  <2>. QED  BY <2>1, <2>2 DEF QueueInv
<1>4. ASSUME NEW s \in {"dead", "receive"}, ChildEnds(u, s)
      PROVE  QueueInv'
  <2>1. child' = [child EXCEPT ![u] = s] /\ held' = [held EXCEPT ![u] = None]
        /\ lost' = lost \cup HeldBy(u)
    BY <1>4 DEF ChildEnds
  <2>2. HeldBy(u) \subseteq InHands
    BY DEF HeldBy, InHands
  <2>3. InHands' = InHands \ HeldBy(u)
    BY <1>1, <2>1, HandEmptied
  <2>4. InHands \subseteq Sent /\ Sent \subseteq Msg
    BY <1>1 DEF PlaceInv, Sent
  <2>5. QueueTypeOK'
    BY <1>1, <1>2, <2>1, <2>2, <2>4 DEF QueueTypeOK
  <2>6. StartInv'
    BY <1>1, <1>2, <2>1 DEF QueueTypeOK, StartInv
  <2>7. OnceInv'
    <3>1. \A v \in Users : held'[v] = IF v = u THEN None ELSE held[v]
      BY <1>1, <2>1 DEF QueueTypeOK
    <3>2. \A v, w \in Users : held'[v] = held'[w] /\ held'[v] # None => v = w
      BY <1>1, <3>1 DEF OnceInv
    <3>3. shown' = shown /\ PrintedOnce
      BY <1>1, <1>2 DEF OnceInv
    <3>4. \A i, j \in 1..Len(queue') : queue'[i] = queue'[j] => i = j
      BY <1>1, <1>2 DEF OnceInv
    <3>. QED  BY <3>2, <3>3, <3>4, SamePrinted DEF OnceInv
  <2>8. PlaceInv'
    <3>1. Queued' = Queued /\ Printed' = Printed /\ Sent' = Sent
      BY <1>2 DEF Queued, Printed, PrintedBy, Sent
    <3>. QED  BY <1>1, <2>1, <2>2, <2>3, <2>4, <3>1 DEF PlaceInv
  <2>9. TurnInv' /\ OrderKept'
    BY <1>1, <1>2 DEF TurnInv, OrderKept
  <2>. QED  BY <2>5, <2>6, <2>7, <2>8, <2>9 DEF QueueInv
<1>. QED  BY <1>3, <1>4 DEF AnswerChild

-----------------------------------------------------------------------------
(* msgsnd, msgrcv and the second msgsnd.                                    *)
LEMMA SendKeeps ==
  ASSUME QueueInv, NEW u \in Users, Send(u)
  PROVE  QueueInv'
<1> DEFINE m == [from |-> u, n |-> sent[u] + 1]
<1>1. QueueTypeOK /\ StartInv /\ OnceInv /\ PlaceInv /\ TurnInv /\ OrderKept
  BY DEF QueueInv
<1>2. /\ sent' = [sent EXCEPT ![u] = @ + 1]
      /\ parent[u] = "send" /\ parent' = [parent EXCEPT ![u] = "type"]
      /\ asking' = asking \/ asking' = [asking EXCEPT ![u] = @ \cup {"parent"}]
      /\ UNCHANGED <<child, held, shown, lost, recycled, interrupted>>
      /\ queue' = Append(queue, [from |-> u, n |-> sent'[u]])
      /\ ~(Len(queue) >= Capacity)
  BY DEF Send, Full
<1>3. sent'[u] = sent[u] + 1 /\ queue' = Append(queue, m)
  BY <1>1, <1>2 DEF QueueTypeOK
<1>4. /\ sent[u] \in Nat /\ MaxMsgs[u] \in Nat /\ sent[u] + 1 <= MaxMsgs[u]
      /\ Len(queue) \in Nat /\ Len(queue) + 1 <= Capacity
  <2>1. sent[u] \in Nat /\ MaxMsgs[u] \in Nat /\ sent[u] < MaxMsgs[u]
    BY <1>1, <1>2, QueueAssumption DEF StartInv, QueueTypeOK
  <2>2. queue \in Seq(Msg)
    BY <1>1 DEF QueueTypeOK
  <2>3. Len(queue) \in Nat
    BY <2>2, LenProperties
  <2>. QED  BY <1>2, <2>1, <2>3, QueueAssumption
<1>5. m \in Msg /\ m.from = u /\ m.n = sent[u] + 1
  BY <1>4, MsgShape
<1> HIDE DEF m
<1>6. m \notin Sent /\ Sent' = Sent \cup {m}
  <2>1. m \notin Sent
    BY <1>4, <1>5 DEF Sent
  <2>2. ASSUME NEW x \in Msg PROVE x \in Sent' <=> x \in Sent \/ x = m
    <3>1. x.from \in Users /\ x.n \in Nat /\ (x.from = u /\ x.n = sent[u] + 1 => x = m)
      BY <1>5, MsgShape
    <3>2. sent'[x.from] = IF x.from = u THEN sent[u] + 1 ELSE sent[x.from]
      BY <1>1, <1>2, <3>1 DEF QueueTypeOK
    <3>3. x \in Sent' <=> x.n <= sent'[x.from]
      BY DEF Sent
    <3>4. x \in Sent <=> x.n <= sent[x.from]
      BY DEF Sent
    <3>. QED  BY <1>4, <1>5, <3>1, <3>2, <3>3, <3>4
  <2>. QED  BY <1>5, <2>1, <2>2 DEF Sent
<1>7. /\ Len(queue') = Len(queue) + 1 /\ queue' \in Seq(Msg)
      /\ queue'[Len(queue) + 1] = m /\ \A i \in 1..Len(queue) : queue'[i] = queue[i]
  <2>1. queue \in Seq(Msg)
    BY <1>1 DEF QueueTypeOK
  <2>. QED  BY <1>3, <1>5, <2>1, AppendedSeq
<1>8. \A x \in Sent : x.from = u => x.n < m.n
  BY <1>1, <1>4, <1>5, MsgShape DEF Sent
<1>9. QueueTypeOK'
  <2>1. queue' \in Seq(Msg) /\ Len(queue') <= Capacity
    BY <1>4, <1>7
  <2>2. sent \in [Users -> Nat] /\ \A v \in Users : sent[v] <= MaxMsgs[v]
    BY <1>1 DEF QueueTypeOK
  <2>3. \A v \in Users : sent'[v] = IF v = u THEN sent[u] + 1 ELSE sent[v]
    BY <1>2, <2>2
  <2>4. sent' \in [Users -> Nat] /\ \A v \in Users : sent'[v] <= MaxMsgs[v]
    BY <1>2, <1>4, <2>2, <2>3
  <2>5. parent' \in [Users -> {"new", "type", "send", "gone"}]
    BY <1>1, <1>2 DEF QueueTypeOK
  <2>6. asking' \in [Users -> SUBSET {"parent", "child"}]
    <3>1. asking \in [Users -> SUBSET {"parent", "child"}]
      BY <1>1 DEF QueueTypeOK
    <3>2. asking[u] \cup {"parent"} \in SUBSET {"parent", "child"}
      BY <3>1
    <3>. QED  BY <1>2, <3>1, <3>2
  <2>7. /\ child' \in [Users -> {"none", "receive", "put back", "dead"}]
        /\ held' \in [Users -> Msg \cup {None}]
        /\ \A v \in Users : held'[v] # None <=> child'[v] = "put back"
        /\ shown' \in [Users -> Seq(Msg)]
        /\ lost' \subseteq Msg /\ recycled' \subseteq Users
        /\ interrupted' \subseteq Interrupters
    BY <1>1, <1>2 DEF QueueTypeOK
  <2>. QED  BY <2>1, <2>4, <2>5, <2>6, <2>7 DEF QueueTypeOK
<1>10. StartInv'
  BY <1>1, <1>2 DEF QueueTypeOK, StartInv
<1>11. \A i \in 1..Len(queue') : i = Len(queue) + 1 \/ i \in 1..Len(queue)
  BY <1>4, <1>7
<1>12. OnceInv'
  <2>1. \A i \in 1..Len(queue) : queue[i] # m
    BY <1>1, <1>6, WasSent
  <2>2. \A i, j \in 1..Len(queue') : queue'[i] = queue'[j] => i = j
    BY <1>1, <1>7, <1>11, <2>1 DEF OnceInv
  <2>3. \A v, w \in Users : held'[v] = held'[w] /\ held'[v] # None => v = w
    BY <1>1, <1>2 DEF OnceInv
  <2>4. shown' = shown /\ PrintedOnce
    BY <1>1, <1>2 DEF OnceInv
  <2>. QED  BY <2>2, <2>3, <2>4, SamePrinted DEF OnceInv
<1>13. PlaceInv'
  <2>1. Queued' = Queued \cup {m}
    BY <1>1, <1>3, <1>5, QueueGrows
  <2>2. InHands' = InHands /\ Printed' = Printed
    BY <1>2 DEF InHands, Printed, PrintedBy
  <2>. QED  BY <1>1, <1>2, <1>6, <2>1, <2>2 DEF PlaceInv
<1>14. TurnInv'
  <2>1. ASSUME NEW i \in 1..Len(queue'), NEW j \in 1..Len(queue'), i < j,
               queue'[i].from = queue'[j].from, queue'[i].from \notin recycled
        PROVE  queue'[i].n < queue'[j].n
    <3>1. i \in 1..Len(queue) /\ queue[i] \in Sent
      BY <1>1, <1>4, <1>7, <2>1, WasSent
    <3>2. CASE j = Len(queue) + 1
      <4>1. queue'[j] = m /\ queue'[i] = queue[i]
        BY <1>7, <3>1, <3>2
      <4>. QED  BY <1>5, <1>8, <2>1, <3>1, <4>1
    <3>3. CASE j \in 1..Len(queue)
      BY <1>1, <1>7, <2>1, <3>1, <3>3 DEF TurnInv
    <3>. QED  BY <1>11, <3>2, <3>3
  <2>2. ASSUME NEW v \in Users, NEW i \in 1..Len(shown[v]), NEW j \in 1..Len(queue'),
               shown[v][i].from = queue'[j].from, queue'[j].from \notin recycled
        PROVE  shown[v][i].n < queue'[j].n
    <3>1. shown[v][i] \in Sent
      BY <1>1, WasSent
    <3>2. CASE j = Len(queue) + 1
      <4>1. queue'[j] = m
        BY <1>7, <3>2
      <4>2. shown[v][i].from = u
        BY <1>5, <2>2, <4>1
      <4>. QED  BY <1>8, <3>1, <4>1, <4>2
    <3>3. CASE j \in 1..Len(queue)
      BY <1>1, <1>7, <2>2, <3>3 DEF TurnInv
    <3>. QED  BY <1>11, <3>2, <3>3
  <2>3. shown' = shown /\ recycled' = recycled
    BY <1>2
  <2>. QED  BY <2>1, <2>2, <2>3 DEF TurnInv
<1>15. OrderKept'
  BY <1>1, <1>2 DEF OrderKept
<1>. QED  BY <1>9, <1>10, <1>12, <1>13, <1>14, <1>15 DEF QueueInv

(* A message that leaves the queue is in hand or printed; it is the first of
   its group, so whatever is queued of its sender was sent after it. *)
LEMMA ReceiveKeeps ==
  ASSUME QueueInv, NEW u \in Users, Receive(u)
  PROVE  QueueInv'
<1>1. QueueTypeOK /\ StartInv /\ OnceInv /\ PlaceInv /\ TurnInv /\ OrderKept
  BY DEF QueueInv
<1>2. PICK i \in First(u) :
        /\ queue' = RemoveAt(queue, i)
        /\ IF Own(u, queue[i])
           THEN /\ child' = [child EXCEPT ![u] = "put back"]
                /\ held' = [held EXCEPT ![u] = queue[i]]
                /\ UNCHANGED shown
           ELSE /\ shown' = [shown EXCEPT ![u] = Append(@, queue[i])]
                /\ UNCHANGED <<child, held>>
  BY DEF Receive
<1>3. child[u] = "receive" /\ UNCHANGED <<parent, asking, sent, lost, recycled, interrupted>>
  BY DEF Receive
<1>4. held[u] = None
  BY <1>1, <1>3 DEF QueueTypeOK
<1>5. queue \in Seq(Msg)
  BY <1>1 DEF QueueTypeOK
<1>6. Len(queue) \in Nat
  BY <1>5, LenProperties
<1>7. i \in 1..Len(queue) /\ \A j \in 1..Len(queue) : queue[j].from = queue[i].from => i <= j
  BY <1>2 DEF First, ForGroup
<1> DEFINE m == queue[i]
           old(j) == IF j < i THEN j ELSE j + 1
<1>8. m \in Msg /\ m \in Queued /\ m \in Sent
  BY <1>1, <1>5, <1>7, WasSent DEF Queued
<1>9. /\ queue' \in Seq(Msg) /\ Len(queue') = Len(queue) - 1
      /\ \A j \in 1..(Len(queue) - 1) : queue'[j] = queue[old(j)]
  BY <1>2, <1>5, <1>7, RemovedSeq
<1>10. /\ \A j \in 1..(Len(queue) - 1) : old(j) \in 1..Len(queue) /\ old(j) # i
       /\ \A j, k \in 1..(Len(queue) - 1) :
            (j < k => old(j) < old(k)) /\ (old(j) = old(k) => j = k)
  BY <1>6, <1>7
<1>11. Queued' = Queued \ {m}
  BY <1>1, <1>2, <1>7, QueueShrinks
<1>12. Sent' = Sent
  BY <1>3 DEF Sent
<1> HIDE DEF m, old
<1>13. StartInv'
  BY <1>1, <1>2, <1>3 DEF QueueTypeOK, StartInv
\* what is left in the queue
<1>14. \A j, k \in 1..Len(queue') : queue'[j] = queue'[k] => j = k
  <2>1. SUFFICES ASSUME NEW j \in 1..Len(queue'), NEW k \in 1..Len(queue'),
                        queue'[j] = queue'[k]
                 PROVE  j = k
    OBVIOUS
  <2>2. j \in 1..(Len(queue) - 1) /\ k \in 1..(Len(queue) - 1)
        /\ old(j) \in 1..Len(queue) /\ old(k) \in 1..Len(queue)
        /\ queue[old(j)] = queue[old(k)]
    BY <1>9, <1>10, <2>1
  <2>3. old(j) = old(k)
    BY <1>1, <2>2 DEF OnceInv
  <2>. QED  BY <1>10, <2>2, <2>3
<1>15. \A j, k \in 1..Len(queue') :
         j < k /\ queue'[j].from = queue'[k].from /\ queue'[j].from \notin recycled =>
           queue'[j].n < queue'[k].n
  <2>1. SUFFICES ASSUME NEW j \in 1..Len(queue'), NEW k \in 1..Len(queue'), j < k,
                        queue'[j].from = queue'[k].from, queue'[j].from \notin recycled
                 PROVE  queue'[j].n < queue'[k].n
    OBVIOUS
  <2>2. old(j) < old(k) /\ old(j) \in 1..Len(queue) /\ old(k) \in 1..Len(queue)
        /\ queue'[j] = queue[old(j)] /\ queue'[k] = queue[old(k)]
    BY <1>9, <1>10, <2>1
  <2>. QED  BY <1>1, <2>1, <2>2 DEF TurnInv
<1>16. ASSUME NEW v \in Users, NEW k \in 1..Len(shown[v]), NEW j \in 1..Len(queue'),
              shown[v][k].from = queue'[j].from, queue'[j].from \notin recycled
       PROVE  shown[v][k].n < queue'[j].n
  <2>1. old(j) \in 1..Len(queue) /\ queue'[j] = queue[old(j)]
    BY <1>9, <1>10
  <2>. QED  BY <1>1, <1>16, <2>1 DEF TurnInv
<1>17. ASSUME NEW j \in 1..Len(queue'), m.from = queue'[j].from, m.from \notin recycled
       PROVE  m.n < queue'[j].n
  <2>1. old(j) \in 1..Len(queue) /\ queue'[j] = queue[old(j)] /\ old(j) # i
    BY <1>9, <1>10
  <2>2. i < old(j)
    BY <1>6, <1>7, <1>17, <2>1 DEF m
  <2>. QED  BY <1>1, <1>7, <1>17, <2>1, <2>2 DEF TurnInv, m
<1>18. Len(queue') <= Capacity
  <2>1. Len(queue) <= Capacity
    BY <1>1 DEF QueueTypeOK
  <2>. QED  BY <1>6, <1>9, <2>1, QueueAssumption
<1>19. CASE Own(u, queue[i])
  <2>1. child' = [child EXCEPT ![u] = "put back"] /\ held' = [held EXCEPT ![u] = m]
        /\ shown' = shown
    BY <1>2, <1>19 DEF m
  <2>2. QueueTypeOK'
    <3>1. m # None
      BY <1>8, MsgShape
    <3>2. held' \in [Users -> Msg \cup {None}]
          /\ child' \in [Users -> {"none", "receive", "put back", "dead"}]
      BY <1>1, <1>8, <2>1 DEF QueueTypeOK
    <3>3. \A v \in Users : held'[v] # None <=> child'[v] = "put back"
      BY <1>1, <2>1, <3>1 DEF QueueTypeOK
    <3>. QED  BY <1>1, <1>3, <1>9, <1>18, <2>1, <3>2, <3>3 DEF QueueTypeOK
  <2>3. InHands' = InHands \cup {m} /\ Printed' = Printed
    <3>1. InHands' = InHands \cup {m}
      BY <1>1, <1>4, <1>8, <2>1, HandTakes
    <3>2. shown' = shown
      BY <2>1
    <3>. QED  BY <3>1, <3>2, SamePrinted
  <2>4. OnceInv'
    <3>1. \A v \in Users : held'[v] = IF v = u THEN m ELSE held[v]
      BY <1>1, <2>1 DEF QueueTypeOK
    <3>2. \A v \in Users : held[v] # m
      BY <1>1, <1>8, MsgShape DEF PlaceInv, InHands
    <3>3. \A v, w \in Users : held'[v] = held'[w] /\ held'[v] # None => v = w
      BY <1>1, <3>1, <3>2 DEF OnceInv
    <3>4. shown' = shown /\ PrintedOnce
      BY <1>1, <2>1 DEF OnceInv
    <3>. QED  BY <1>14, <3>3, <3>4, SamePrinted DEF OnceInv
  <2>5. PlaceInv'
    BY <1>1, <1>3, <1>8, <1>11, <1>12, <2>3 DEF PlaceInv
  <2>6. TurnInv' /\ OrderKept'
    BY <1>1, <1>3, <1>15, <1>16, <2>1 DEF TurnInv, OrderKept
  <2>. QED  BY <1>13, <2>2, <2>4, <2>5, <2>6 DEF QueueInv
<1>20. CASE ~Own(u, queue[i])
  <2>1. shown' = [shown EXCEPT ![u] = Append(@, m)] /\ UNCHANGED <<child, held>>
    BY <1>2, <1>20 DEF m
  <2>2. shown[u] \in Seq(Msg) /\ Len(shown[u]) \in Nat
    <3>1. shown[u] \in Seq(Msg)
      BY <1>1 DEF QueueTypeOK
    <3>. QED  BY <3>1, LenProperties
  <2>3. shown'[u] = Append(shown[u], m) /\ \A v \in Users : v # u => shown'[v] = shown[v]
    BY <1>1, <2>1 DEF QueueTypeOK
  <2>4. /\ shown'[u] \in Seq(Msg) /\ Len(shown'[u]) = Len(shown[u]) + 1
        /\ shown'[u][Len(shown[u]) + 1] = m
        /\ \A k \in 1..Len(shown[u]) : shown'[u][k] = shown[u][k]
    BY <1>8, <2>2, <2>3, AppendedSeq
  <2>5. \A v \in Users : \A k \in 1..Len(shown'[v]) :
          \/ v = u /\ k = Len(shown[u]) + 1 /\ shown'[v][k] = m
          \/ k \in 1..Len(shown[v]) /\ shown'[v][k] = shown[v][k]
    <3>1. ASSUME NEW k \in 1..Len(shown'[u])
          PROVE  \/ k = Len(shown[u]) + 1 /\ shown'[u][k] = m
                 \/ k \in 1..Len(shown[u]) /\ shown'[u][k] = shown[u][k]
      <4>1. k = Len(shown[u]) + 1 \/ k \in 1..Len(shown[u])
        BY <2>2, <2>4
      <4>. QED  BY <2>4, <4>1
    <3>. QED  BY <2>3, <3>1
  <2>6. QueueTypeOK'
    <3>1. shown' \in [Users -> Seq(Msg)]
      BY <1>1, <2>1, <2>3, <2>4 DEF QueueTypeOK
    <3>. QED  BY <1>1, <1>3, <1>9, <1>18, <2>1, <3>1 DEF QueueTypeOK
  <2>7. Printed' = Printed \cup {m} /\ InHands' = InHands
    BY <1>1, <1>8, <2>1, MorePrinted DEF InHands
  <2>8. OnceInv'
    <3>1. \A v \in Users : \A k \in 1..Len(shown[v]) : shown[v][k] # m
      BY <1>1, <1>8 DEF PlaceInv, Printed, PrintedBy
    <3>2. PrintedOnce'
      <4>1. SUFFICES ASSUME NEW v \in Users, NEW w \in Users,
                            NEW k \in 1..Len(shown'[v]), NEW l \in 1..Len(shown'[w]),
                            shown'[v][k] = shown'[w][l]
                     PROVE  v = w /\ k = l
        BY DEF PrintedOnce
      <4>2. CASE shown'[v][k] = m
        <5>1. \A x \in Users : \A y \in 1..Len(shown'[x]) :
                shown'[x][y] = m => x = u /\ y = Len(shown[u]) + 1
          BY <2>5, <3>1
        <5>2. shown'[w][l] = m
          BY <4>1, <4>2
        <5>3. v = u /\ k = Len(shown[u]) + 1
          BY <4>1, <4>2, <5>1
        <5>4. w = u /\ l = Len(shown[u]) + 1
          BY <4>1, <5>1, <5>2
        <5>. QED  BY <5>3, <5>4
      <4>3. CASE shown'[v][k] # m
        <5>1. /\ k \in 1..Len(shown[v]) /\ shown'[v][k] = shown[v][k]
              /\ l \in 1..Len(shown[w]) /\ shown'[w][l] = shown[w][l]
          BY <2>5, <4>1, <4>3
        <5>2. PrintedOnce /\ shown[v][k] = shown[w][l]
          BY <1>1, <4>1, <5>1 DEF OnceInv
        <5>. QED  BY <5>1, <5>2 DEF PrintedOnce
      <4>. QED  BY <4>2, <4>3
    <3>. QED  BY <1>1, <1>14, <2>1, <3>2 DEF OnceInv
  <2>9. PlaceInv'
    BY <1>1, <1>3, <1>8, <1>11, <1>12, <2>7 DEF PlaceInv
  <2>10. TurnInv'
    <3>1. ASSUME NEW v \in Users, NEW k \in 1..Len(shown'[v]), NEW j \in 1..Len(queue'),
                 shown'[v][k].from = queue'[j].from, queue'[j].from \notin recycled
          PROVE  shown'[v][k].n < queue'[j].n
      BY <1>16, <1>17, <2>5, <3>1
    <3>. QED  BY <1>3, <1>15, <3>1 DEF TurnInv
  <2>11. OrderKept'
    <3>1. ASSUME NEW v \in Users, NEW k \in 1..Len(shown'[v]), NEW l \in 1..Len(shown'[v]),
                 k < l, shown'[v][k].from = shown'[v][l].from,
                 shown'[v][k].from \notin recycled
          PROVE  shown'[v][k].n < shown'[v][l].n
      <4>1. CASE l \in 1..Len(shown[v]) /\ shown'[v][l] = shown[v][l]
        <5>1. k \in 1..Len(shown[v]) /\ shown'[v][k] = shown[v][k]
          BY <2>2, <2>5, <3>1, <4>1
        <5>. QED  BY <1>1, <3>1, <4>1, <5>1 DEF OrderKept
      <4>2. CASE v = u /\ l = Len(shown[u]) + 1 /\ shown'[v][l] = m
        <5>1. k \in 1..Len(shown[v]) /\ shown'[v][k] = shown[v][k]
          BY <2>2, <2>5, <3>1, <4>2
        <5>. QED  BY <1>1, <1>7, <3>1, <4>2, <5>1 DEF TurnInv, m
      <4>. QED  BY <2>5, <4>1, <4>2
    <3>. QED  BY <1>3, <3>1 DEF OrderKept
  <2>. QED  BY <1>13, <2>6, <2>8, <2>9, <2>10, <2>11 DEF QueueInv
<1>. QED  BY <1>19, <1>20

(* What is put back is out of turn from then on, and its sender excepted. *)
LEMMA PutBackKeeps ==
  ASSUME QueueInv, NEW u \in Users, PutBack(u)
  PROVE  QueueInv'
<1> DEFINE m == held[u]
<1>1. QueueTypeOK /\ StartInv /\ OnceInv /\ PlaceInv /\ TurnInv /\ OrderKept
  BY DEF QueueInv
<1>2. /\ queue' = Append(queue, m) /\ ~(Len(queue) >= Capacity)
      /\ child[u] = "put back" /\ child' = [child EXCEPT ![u] = "receive"]
      /\ held' = [held EXCEPT ![u] = None]
      /\ recycled' = recycled \cup {m.from}
      /\ UNCHANGED <<parent, asking, sent, shown, lost, interrupted>>
  BY DEF PutBack, Full
<1>3. m # None /\ m \in Msg /\ HeldBy(u) = {m} /\ m \in InHands
  BY <1>1, <1>2 DEF QueueTypeOK, HeldBy, InHands
<1>4. queue \in Seq(Msg)
  BY <1>1 DEF QueueTypeOK
<1>5. Len(queue) \in Nat /\ Len(queue) + 1 <= Capacity
  <2>1. Len(queue) \in Nat
    BY <1>4, LenProperties
  <2>2. ~(Len(queue) >= Capacity)
    BY <1>2
  <2>. QED  BY <2>1, <2>2, QueueAssumption
<1>6. /\ queue' \in Seq(Msg) /\ Len(queue') = Len(queue) + 1
      /\ queue'[Len(queue) + 1] = m /\ \A i \in 1..Len(queue) : queue'[i] = queue[i]
  <2>1. queue' = Append(queue, m)
    BY <1>2
  <2>. QED  BY <1>3, <1>4, <2>1, AppendedSeq
<1>7. \A i \in 1..Len(queue') :
        \/ i = Len(queue) + 1 /\ queue'[i] = m
        \/ i \in 1..Len(queue) /\ queue'[i] = queue[i]
  BY <1>5, <1>6
<1>8. Queued' = Queued \cup {m}
  BY <1>1, <1>2, <1>3, QueueGrows
<1>9. InHands' = InHands \ {m}
  BY <1>1, <1>2, <1>3, HandEmptied
<1>10. Printed' = Printed /\ Sent' = Sent
  <2>1. shown' = shown /\ sent' = sent
    BY <1>2
  <2>. QED  BY <2>1, SamePrinted DEF Sent
<1>11. \A v \in Users : held'[v] = IF v = u THEN None ELSE held[v]
  BY <1>1, <1>2 DEF QueueTypeOK
<1> HIDE DEF m
<1>12. QueueTypeOK'
  <2>1. Len(queue') <= Capacity
    BY <1>5, <1>6
  <2>2. /\ child' \in [Users -> {"none", "receive", "put back", "dead"}]
        /\ held' \in [Users -> Msg \cup {None}]
        /\ \A v \in Users : held'[v] # None <=> child'[v] = "put back"
    BY <1>1, <1>2 DEF QueueTypeOK
  <2>3. recycled' \subseteq Users
    BY <1>1, <1>2, <1>3, MsgShape DEF QueueTypeOK
  <2>. QED  BY <1>1, <1>2, <1>6, <2>1, <2>2, <2>3 DEF QueueTypeOK
<1>13. StartInv'
  BY <1>1, <1>2 DEF QueueTypeOK, StartInv
<1>14. OnceInv'
  <2>1. \A i \in 1..Len(queue) : queue[i] # m
    BY <1>1, <1>3 DEF PlaceInv, Queued
  <2>2. \A i, j \in 1..Len(queue') : queue'[i] = queue'[j] => i = j
    BY <1>1, <1>7, <2>1 DEF OnceInv
  <2>3. \A v, w \in Users : held'[v] = held'[w] /\ held'[v] # None => v = w
    BY <1>1, <1>11 DEF OnceInv
  <2>4. shown' = shown /\ PrintedOnce
    BY <1>1, <1>2 DEF OnceInv
  <2>. QED  BY <2>2, <2>3, <2>4, SamePrinted DEF OnceInv
<1>15. PlaceInv'
  BY <1>1, <1>2, <1>3, <1>8, <1>9, <1>10 DEF PlaceInv
<1>16. TurnInv'
  <2>1. ASSUME NEW i \in 1..Len(queue'), queue'[i].from \notin recycled'
        PROVE  i \in 1..Len(queue) /\ queue'[i] = queue[i] /\ queue[i].from \notin recycled
    BY <1>2, <1>7, <2>1
  <2>2. ASSUME NEW i \in 1..Len(queue'), NEW j \in 1..Len(queue'), i < j,
               queue'[i].from = queue'[j].from, queue'[i].from \notin recycled'
        PROVE  queue'[i].n < queue'[j].n
    BY <1>1, <2>1, <2>2 DEF TurnInv
  <2>3. ASSUME NEW v \in Users, NEW i \in 1..Len(shown'[v]), NEW j \in 1..Len(queue'),
               shown'[v][i].from = queue'[j].from, queue'[j].from \notin recycled'
        PROVE  shown'[v][i].n < queue'[j].n
    BY <1>1, <1>2, <2>1, <2>3 DEF TurnInv
  <2>. QED  BY <2>2, <2>3 DEF TurnInv
<1>17. OrderKept'
  BY <1>1, <1>2 DEF OrderKept
<1>. QED  BY <1>12, <1>13, <1>14, <1>15, <1>16, <1>17 DEF QueueInv

LEMMA QueueStarts == QueueInit => QueueInv
<1>1. SUFFICES ASSUME QueueInit PROVE QueueInv
  OBVIOUS
<1>2. QueueTypeOK /\ StartInv
  BY <1>1, QueueAssumption DEF QueueInit, QueueTypeOK, StartInv
<1>3. OnceInv /\ TurnInv /\ OrderKept
  BY <1>1 DEF QueueInit, OnceInv, PrintedOnce, TurnInv, OrderKept
<1>4. Queued = {} /\ InHands = {} /\ Printed = {} /\ Sent = {} /\ lost = {}
  <2>1. Queued = {} /\ InHands = {} /\ Printed = {} /\ lost = {}
    BY <1>1 DEF QueueInit, Queued, InHands, Printed, PrintedBy
  <2>2. Sent = {}
    BY <1>1, MsgShape DEF QueueInit, Sent
  <2>. QED  BY <2>1, <2>2
<1>5. PlaceInv
  BY <1>4 DEF PlaceInv
<1>. QED  BY <1>2, <1>3, <1>5 DEF QueueInv

LEMMA QueueNextKeeps == QueueInv /\ [QueueNext]_queueVars => QueueInv'
<1>1. SUFFICES ASSUME QueueInv, [QueueNext]_queueVars PROVE QueueInv'
  OBVIOUS
<1>2. ASSUME NEW u \in Users,
             \/ Start(u) \/ Type(u) \/ Send(u) \/ Receive(u) \/ PutBack(u)
             \/ Interrupt(u) \/ AnswerParent(u) \/ AnswerChild(u)
      PROVE  QueueInv'
  BY <1>1, <1>2, StartKeeps, TypeKeeps, SendKeeps, ReceiveKeeps, PutBackKeeps,
     InterruptKeeps, AnswerParentKeeps, AnswerChildKeeps
<1>3. CASE UNCHANGED queueVars
  <2>1. OnceInv' /\ PlaceInv' /\ TurnInv' /\ OrderKept'
    BY <1>1, <1>3, UnmovedInv DEF queueVars
  <2>2. QueueTypeOK' /\ StartInv'
    BY <1>1, <1>3 DEF queueVars, QueueInv, QueueTypeOK, StartInv
  <2>. QED  BY <2>1, <2>2 DEF QueueInv
<1>. QED  BY <1>1, <1>2, <1>3 DEF QueueNext, AllWait

(* The invariant holds in every execution, with any number of users. *)
THEOREM QueueInvariance == QueueSpec => []QueueInv
BY QueueStarts, QueueNextKeeps, PTL DEF QueueSpec

(* Every variable keeps its type; the queue is never over its capacity. *)
THEOREM QueueTypeCorrect == QueueSpec => []QueueTypeOK
<1>1. QueueInv => QueueTypeOK
  BY DEF QueueInv
<1>. QED  BY <1>1, QueueInvariance, PTL

(* What is printed of a sender none of whose messages was put back is in the
   order it was sent. *)
THEOREM OrderIsKept == QueueSpec => []OrderKept
<1>1. QueueInv => OrderKept
  BY DEF QueueInv
<1>. QED  BY <1>1, QueueInvariance, PTL

LEMMA AtMostOne ==
  ASSUME NEW S, \A x, y \in S : x = y
  PROVE  Cardinality(S) = IF S = {} THEN 0 ELSE 1
<1>1. CASE S = {}
  BY <1>1, FS_EmptySet
<1>2. ASSUME NEW x \in S PROVE Cardinality(S) = 1
  <2>1. S = {x}
    BY <1>2
  <2>. QED  BY <2>1, FS_Singleton
<1>. QED  BY <1>1, <1>2

(* However often it is put back and whoever quits, a message sent and not lost
   with an interrupted child is at exactly one place. *)
THEOREM EachAtOnePlace == QueueSpec => []OnePlace
<1>1. ASSUME QueueInv, NEW m \in Msg
      PROVE  Cardinality(InQueue(m)) + Cardinality(InHand(m)) + Cardinality(ShownAt(m))
               = (IF m.n <= sent[m.from] /\ m \notin lost THEN 1 ELSE 0)
  <2>1. QueueTypeOK /\ OnceInv /\ PlaceInv
    BY <1>1 DEF QueueInv
  <2>2. /\ Cardinality(InQueue(m)) = IF InQueue(m) = {} THEN 0 ELSE 1
        /\ InQueue(m) = {} <=> m \notin Queued
    <3>1. \A i, j \in InQueue(m) : i = j
      BY <2>1 DEF OnceInv, InQueue
    <3>2. InQueue(m) = {} <=> m \notin Queued
      BY DEF InQueue, Queued
    <3>. QED  BY <3>1, <3>2, AtMostOne
  <2>3. /\ Cardinality(InHand(m)) = IF InHand(m) = {} THEN 0 ELSE 1
        /\ InHand(m) = {} <=> m \notin InHands
    <3>1. m # None
      BY MsgShape
    <3>2. \A u, v \in InHand(m) : u = v
      BY <2>1, <3>1 DEF OnceInv, InHand
    <3>3. InHand(m) = {} <=> m \notin InHands
      BY <3>1 DEF InHand, InHands
    <3>. QED  BY <3>2, <3>3, AtMostOne
  <2>4. /\ Cardinality(ShownAt(m)) = IF ShownAt(m) = {} THEN 0 ELSE 1
        /\ ShownAt(m) = {} <=> m \notin Printed
    <3>1. \A p \in ShownAt(m) :
            \E u \in Users : \E i \in 1..Len(shown[u]) : p = <<u, i>> /\ shown[u][i] = m
      BY DEF ShownAt
    <3>2. \A p, q \in ShownAt(m) : p = q
      BY <2>1, <3>1 DEF OnceInv, PrintedOnce
    <3>3. \A u \in Users : \A i \in 1..Len(shown[u]) :
            shown[u][i] = m => <<u, i>> \in ShownAt(m)
      BY DEF ShownAt
    <3>4. ShownAt(m) = {} <=> m \notin Printed
      <4>1. m \in Printed <=> \E u \in Users : \E i \in 1..Len(shown[u]) : shown[u][i] = m
        BY DEF Printed, PrintedBy
      <4>. QED  BY <3>1, <3>3, <4>1
    <3>. QED  BY <3>2, <3>4, AtMostOne
  <2>5. m \in Sent <=> m.n <= sent[m.from]
    BY DEF Sent
  <2>6. /\ m \in Queued \/ m \in InHands \/ m \in Printed <=> m \in Sent /\ m \notin lost
        /\ ~(m \in Queued /\ m \in InHands) /\ ~(m \in Queued /\ m \in Printed)
        /\ ~(m \in InHands /\ m \in Printed)
    BY <2>1 DEF PlaceInv
  <2>. QED  BY <2>2, <2>3, <2>4, <2>5, <2>6
<1>2. QueueInv => OnePlace
  BY <1>1 DEF OnePlace
<1>. QED  BY <1>2, QueueInvariance, PTL

-----------------------------------------------------------------------------
(* pls.c, pzs.c and 123.c.  A process is before its first open call, between
   the two, or has made both; a call it waits in has been made.             *)
Modes == {"read", "read nonblock"}
Chats(p) == at[p] \in {"loop", "write", "close rfd"}
Before(p) == at[p] = "open" /\ Len(todo[p]) = 2
InFifo1(p) == Chats(p) \/ at[p] = "blocked" \/ (at[p] = "open" /\ Len(todo[p]) = 1)
InFifo2(p) == Chats(p) \/ (at[p] = "blocked" /\ Len(todo[p]) = 1)
Left(p) == at[p] \in {"close wfd"} \cup Outside

(* A process reads and writes as its role says, and has both open calls of
   the role before it or the second only. *)
RoleInv ==
  \A p \in Procs :
    /\ role[p] = "none" <=> at[p] \in {"none", "new"}
    /\ role[p] = "first" => rfd[p] = "fifo1" /\ wfd[p] = "fifo2"
    /\ role[p] = "second" => rfd[p] = "fifo2" /\ wfd[p] = "fifo1"
    /\ rfd[p] = "fifo1" \/ role[p] = "second"
    /\ IF at[p] \in {"open", "blocked"}
       THEN \E m \in Modes : todo[p] \in {Opens(role[p], m), Tail(Opens(role[p], m))}
       ELSE todo[p] = <<>>
    /\ at[p] = "write" => lines[p] < cast.lines

(* Who has which end open; more may write fifo1, from the test of 123. *)
EndsInv ==
  \A p \in Procs :
    /\ p \in readers["fifo1"] <=> role[p] = "first" /\ InFifo1(p)
    /\ p \in readers["fifo2"] <=> role[p] = "second" /\ InFifo2(p)
    /\ role[p] = "second" /\ (InFifo1(p) \/ at[p] = "close wfd") => p \in writers["fifo1"]
    /\ role[p] = "first" /\ (InFifo2(p) \/ at[p] = "close wfd") => p \in writers["fifo2"]

(* Who waits to write fifo1 does so because nobody reads it. *)
WaitInv ==
  \A p \in Procs :
    role[p] = "second" /\ at[p] = "blocked" /\ Len(todo[p]) = 2 => readers["fifo1"] = {}

(* A 123 is the second because it found a first at the test. *)
FoundInv ==
  \A p \in Procs : cast.program[p] = "123" /\ role[p] = "second" =>
    \E q \in Procs \ {p} : role[q] = "first" /\ ~Before(q)

(* One process at most is on its way to reading fifo1. *)
FirstInv ==
  ~raced => \A p, q \in Procs :
    role[p] = "first" /\ role[q] = "first" /\ ~Left(p) /\ ~Left(q) => p = q

(* The types alone, without what EndsInv says again. *)
FifoTypes ==
  /\ cast \in Casts
  /\ at \in [Procs -> {"none", "new", "open", "blocked", "loop", "write", "close rfd",
                       "close wfd", "gone", "killed"}]
  /\ todo \in [Procs -> Seq(OpenCall)]
  /\ rfd \in [Procs -> Fifos] /\ wfd \in [Procs -> Fifos]
  /\ pipe \in [Fifos -> Seq(Pieces)]
  /\ readers \in [Fifos -> SUBSET Procs] /\ writers \in [Fifos -> SUBSET Procs]
  /\ lines \in [Procs -> 0..cast.lines]
  /\ left \subseteq Procs /\ missed \subseteq Procs
  /\ role \in [Procs -> {"none", "first", "second"}]
  /\ raced \in BOOLEAN

FifoInv == FifoTypes /\ RoleInv /\ EndsInv /\ WaitInv /\ FoundInv

(* The two open calls of each role. *)
LEMMA Calls ==
  ASSUME NEW r \in {"first", "second"}, NEW m \in Modes
  PROVE  /\ Opens(r, m) \in Seq(OpenCall) /\ Len(Opens(r, m)) = 2
         /\ Opens(r, m)[1].fifo = "fifo1" /\ (Opens(r, m)[1].mode = "write" <=> r = "second")
         /\ Opens(r, m)[2].fifo = "fifo2" /\ (Opens(r, m)[2].mode = "write" <=> r = "first")
         /\ Tail(Opens(r, m)) = <<Opens(r, m)[2]>>
         /\ Tail(Opens(r, m)) \in Seq(OpenCall) /\ Len(Tail(Opens(r, m))) = 1
<1> DEFINE x == [fifo |-> "fifo1", mode |-> IF r = "first" THEN m ELSE "write"]
           y == [fifo |-> "fifo2", mode |-> IF r = "first" THEN "write" ELSE "read"]
<1>1. Opens(r, m) = <<x, y>>
  BY DEF Opens
<1>2. x \in OpenCall /\ x.fifo = "fifo1" /\ (x.mode = "write" <=> r = "second")
  BY DEF OpenCall, Fifos, Modes
<1>3. y \in OpenCall /\ y.fifo = "fifo2" /\ (y.mode = "write" <=> r = "first")
  BY DEF OpenCall, Fifos, Modes
<1> HIDE DEF x, y
<1>4. Tail(<<x, y>>) = <<y>>
  OBVIOUS
<1>. QED  BY <1>1, <1>2, <1>3, <1>4

(* What a process at an open call has before it. *)
LEMMA Stage ==
  ASSUME FifoTypes, RoleInv, NEW p \in Procs, at[p] \in {"open", "blocked"}
  PROVE  /\ role[p] \in {"first", "second"}
         /\ \/ /\ Len(todo[p]) = 2 /\ todo[p][1].fifo = "fifo1"
               /\ todo[p][1].mode = "write" <=> role[p] = "second"
               /\ Len(Tail(todo[p])) = 1
               /\ \E m \in Modes : todo[p] = Opens(role[p], m)
            \/ /\ Len(todo[p]) = 1 /\ todo[p][1].fifo = "fifo2"
               /\ todo[p][1].mode = "write" <=> role[p] = "first"
               /\ Tail(todo[p]) = <<>>
<1>1. role[p] \in {"first", "second"}
  BY DEF FifoTypes, RoleInv
<1>2. PICK m \in Modes : todo[p] \in {Opens(role[p], m), Tail(Opens(role[p], m))}
  BY DEF RoleInv
<1>3. CASE todo[p] = Opens(role[p], m)
  BY <1>1, <1>3, Calls
<1>4. CASE todo[p] = Tail(Opens(role[p], m))
  <2>1. todo[p] = <<Opens(role[p], m)[2]>>
    BY <1>1, <1>4, Calls
  <2>2. Len(todo[p]) = 1 /\ todo[p][1] = Opens(role[p], m)[2] /\ Tail(todo[p]) = <<>>
    BY <2>1
  <2>. QED  BY <1>1, <2>2, Calls
<1>. QED  BY <1>1, <1>2, <1>3, <1>4

(* An open call makes the caller go on or wait, and those go on that were
   waiting for it, all with the same call of the other role. *)
Meets(q, p) ==
  at[q] = "blocked" /\ role[q] # role[p] /\ Len(todo[q]) = Len(todo[p])

GoesOn(q) ==
  /\ todo'[q] = Tail(todo[q])
  /\ at'[q] = IF Len(todo[q]) = 1 THEN "loop" ELSE "open"

LEMMA OpenEffect ==
  ASSUME FifoTypes, RoleInv, NEW p \in Procs, OpenNext(p)
  PROVE  /\ at[p] = "open"
         /\ GoesOn(p) \/ (at'[p] = "blocked" /\ todo'[p] = todo[p])
         /\ \A q \in Procs : q # p =>
              \/ Meets(q, p) /\ GoesOn(q)
              \/ ~Meets(q, p) /\ at'[q] = at[q] /\ todo'[q] = todo[q]
         /\ Len(todo[p]) = 2 /\ role[p] = "first" =>
              readers' = [readers EXCEPT !["fifo1"] = @ \cup {p}] /\ writers' = writers
         /\ Len(todo[p]) = 1 /\ role[p] = "second" =>
              readers' = [readers EXCEPT !["fifo2"] = @ \cup {p}] /\ writers' = writers
         /\ Len(todo[p]) = 2 /\ role[p] = "second" =>
              /\ writers' = [writers EXCEPT !["fifo1"] = @ \cup {p}] /\ readers' = readers
              /\ at'[p] = "blocked" => readers["fifo1"] = {}
         /\ Len(todo[p]) = 1 /\ role[p] = "first" =>
              writers' = [writers EXCEPT !["fifo2"] = @ \cup {p}] /\ readers' = readers
<1> DEFINE f == todo[p][1].fifo
           reading == todo[p][1].mode # "write"
           partner == IF reading THEN writers[f] ELSE readers[f]
           through == {q \in Procs : Waits(q, f, ~reading)}
                        \cup IF partner # {} \/ todo[p][1].mode = "read nonblock" THEN {p} ELSE {}
<1>1. /\ at[p] = "open"
      /\ readers' = IF reading THEN [readers EXCEPT ![f] = @ \cup {p}] ELSE readers
      /\ writers' = IF reading THEN writers ELSE [writers EXCEPT ![f] = @ \cup {p}]
      /\ at' = [q \in Procs |-> IF q \in through THEN AfterOpen(q)
                                ELSE IF q = p THEN "blocked" ELSE at[q]]
      /\ todo' = [q \in Procs |-> IF q \in through THEN Tail(todo[q]) ELSE todo[q]]
  BY DEF OpenNext
<1>6. ASSUME NEW q \in Procs, at[q] \in {"open", "blocked"}
      PROVE  /\ role[q] \in {"first", "second"} /\ Len(todo[q]) \in {1, 2}
             /\ Len(todo[q]) = 2 =>
                  todo[q][1].fifo = "fifo1" /\ (todo[q][1].mode = "write" <=> role[q] = "second")
             /\ Len(todo[q]) = 1 =>
                  todo[q][1].fifo = "fifo2" /\ (todo[q][1].mode = "write" <=> role[q] = "first")
  BY <1>6, Stage
<1>2. /\ role[p] \in {"first", "second"} /\ Len(todo[p]) \in {1, 2}
      /\ Len(todo[p]) = 2 => f = "fifo1" /\ (reading <=> role[p] = "first")
      /\ Len(todo[p]) = 1 => f = "fifo2" /\ (reading <=> role[p] = "second")
  <2>1. /\ role[p] \in {"first", "second"} /\ Len(todo[p]) \in {1, 2}
        /\ Len(todo[p]) = 2 => f = "fifo1" /\ (todo[p][1].mode = "write" <=> role[p] = "second")
        /\ Len(todo[p]) = 1 => f = "fifo2" /\ (todo[p][1].mode = "write" <=> role[p] = "first")
    <3>1. at[p] \in {"open", "blocked"}
      BY <1>1
    <3>. QED  BY <1>6, <3>1, Zenon
  <2>2. reading <=> ~(todo[p][1].mode = "write")
    OBVIOUS
  <2> HIDE DEF f, reading
  <2>3. role[p] = "first" <=> role[p] # "second"
    BY <2>1
  <2>. QED  BY <2>1, <2>2, <2>3
<1>20. \A q \in Procs : Waits(q, f, ~reading) <=> Meets(q, p)
  <2>1. SUFFICES ASSUME NEW q \in Procs, at[q] = "blocked"
                 PROVE  Waits(q, f, ~reading) <=> Meets(q, p)
    BY DEF Waits, Meets
  <2>2. Waits(q, f, ~reading) <=>
          todo[q][1].fifo = f /\ (todo[q][1].mode = "write" <=> reading)
    BY <2>1 DEF Waits
  <2> DEFINE g == todo[q][1].fifo
             writing == todo[q][1].mode = "write"
  <2>3. /\ role[q] \in {"first", "second"} /\ Len(todo[q]) \in {1, 2}
        /\ Len(todo[q]) = 2 => g = "fifo1" /\ (writing <=> role[q] = "second")
        /\ Len(todo[q]) = 1 => g = "fifo2" /\ (writing <=> role[q] = "first")
    <3>1. at[q] \in {"open", "blocked"}
      BY <2>1
    <3>. QED  BY <1>6, <3>1, Zenon
  <2>4. Waits(q, f, ~reading) <=> g = f /\ (writing <=> reading)
    BY <2>2
  <2>5. Meets(q, p) <=> role[q] # role[p] /\ Len(todo[q]) = Len(todo[p])
    BY <2>1 DEF Meets
  <2> HIDE DEF f, reading, g, writing
  <2>. QED  BY <1>2, <2>3, <2>4, <2>5
<1>3. \A q \in Procs : q # p => (q \in through <=> Meets(q, p))
  BY <1>20
<1>4. \A q \in Procs :
        IF q \in through THEN GoesOn(q)
        ELSE todo'[q] = todo[q] /\ at'[q] = IF q = p THEN "blocked" ELSE at[q]
  BY <1>1 DEF GoesOn, AfterOpen
<1>5. p \notin through => partner = {}
  OBVIOUS
<1>7. at'[p] = "blocked" => p \notin through
  BY <1>4 DEF GoesOn
<1> HIDE DEF through
<1>8. \A q \in Procs : q # p =>
        \/ Meets(q, p) /\ GoesOn(q)
        \/ ~Meets(q, p) /\ at'[q] = at[q] /\ todo'[q] = todo[q]
  BY <1>3, <1>4
<1>9. GoesOn(p) \/ (at'[p] = "blocked" /\ todo'[p] = todo[p])
  BY <1>4
<1>10. Len(todo[p]) = 2 /\ role[p] = "second" =>
         /\ writers' = [writers EXCEPT !["fifo1"] = @ \cup {p}] /\ readers' = readers
         /\ at'[p] = "blocked" => readers["fifo1"] = {}
  <2>1. SUFFICES ASSUME Len(todo[p]) = 2, role[p] = "second"
                 PROVE  /\ writers' = [writers EXCEPT !["fifo1"] = @ \cup {p}]
                        /\ readers' = readers
                        /\ at'[p] = "blocked" => readers["fifo1"] = {}
    OBVIOUS
  <2>2. f = "fifo1" /\ ~reading
    BY <1>2, <2>1
  <2>. QED  BY <1>1, <1>5, <1>7, <2>2
<1>11. Len(todo[p]) = 2 /\ role[p] = "first" =>
         readers' = [readers EXCEPT !["fifo1"] = @ \cup {p}] /\ writers' = writers
  <2>1. SUFFICES ASSUME Len(todo[p]) = 2, role[p] = "first"
                 PROVE  readers' = [readers EXCEPT !["fifo1"] = @ \cup {p}] /\ writers' = writers
    OBVIOUS
  <2>2. f = "fifo1" /\ (reading <=> TRUE)
    BY <1>2, <2>1
  <2>. QED  BY <1>1, <2>2
<1>12. Len(todo[p]) = 1 /\ role[p] = "second" =>
         readers' = [readers EXCEPT !["fifo2"] = @ \cup {p}] /\ writers' = writers
  <2>1. SUFFICES ASSUME Len(todo[p]) = 1, role[p] = "second"
                 PROVE  readers' = [readers EXCEPT !["fifo2"] = @ \cup {p}] /\ writers' = writers
    OBVIOUS
  <2>2. f = "fifo2" /\ (reading <=> TRUE)
    BY <1>2, <2>1
  <2>. QED  BY <1>1, <2>2
<1>13. Len(todo[p]) = 1 /\ role[p] = "first" =>
         writers' = [writers EXCEPT !["fifo2"] = @ \cup {p}] /\ readers' = readers
  <2>1. SUFFICES ASSUME Len(todo[p]) = 1, role[p] = "first"
                 PROVE  writers' = [writers EXCEPT !["fifo2"] = @ \cup {p}] /\ readers' = readers
    OBVIOUS
  <2>2. f = "fifo2" /\ (reading <=> FALSE)
    BY <1>2, <2>1
  <2>. QED  BY <1>1, <2>2
<1>. QED  BY <1>1, <1>8, <1>9, <1>10, <1>11, <1>12, <1>13

LEMMA TypesFollow ==
  ASSUME FifoTypes, RoleInv, EndsInv
  PROVE  TypeOK
<1>1. ASSUME NEW p \in Procs
      PROVE  /\ at[p] = "blocked" => todo[p] # <<>>
             /\ Chats(p) <=> p \in readers[rfd[p]] /\ todo[p] = <<>>
             /\ Chats(p) \/ at[p] = "close wfd" => p \in writers[wfd[p]]
  <2>1. at[p] \in {"open", "blocked"} => todo[p] # <<>>
    BY Stage
  <2>2. at[p] \notin {"open", "blocked"} => todo[p] = <<>>
    BY DEF RoleInv
  <2>3. CASE role[p] = "none"
    BY <2>2, <2>3 DEF RoleInv, EndsInv, Chats
  <2>4. CASE role[p] = "first"
    BY <2>1, <2>2, <2>4 DEF RoleInv, EndsInv, Chats, InFifo1, InFifo2
  <2>5. CASE role[p] = "second"
    BY <2>1, <2>2, <2>5 DEF RoleInv, EndsInv, Chats, InFifo1, InFifo2
  <2>. QED  BY <2>1, <2>3, <2>4, <2>5 DEF FifoTypes
<1>2. \A p \in Procs :
        /\ at[p] = "blocked" => todo[p] # <<>>
        /\ at[p] \in {"loop", "write", "close rfd"} <=> p \in readers[rfd[p]] /\ todo[p] = <<>>
        /\ at[p] \in {"loop", "write", "close rfd", "close wfd"} => p \in writers[wfd[p]]
  BY <1>1 DEF Chats
<1>. QED  BY <1>2 DEF FifoTypes, TypeOK, ChatTypeOK, Outside

(* The test of 123: who waits to read fifo1 goes on when it succeeds. *)
LEMMA TestEffect ==
  ASSUME FifoTypes, RoleInv, NEW p \in Procs, Test(p)
  PROVE  \E r \in {"first", "second"} :
           /\ at[p] = "new" /\ role[p] = "none"
           /\ IF r = "second" THEN readers["fifo1"] # {} ELSE readers["fifo1"] = {}
           /\ role' = [role EXCEPT ![p] = r]
           /\ at'[p] = "open" /\ todo'[p] = Opens(r, "read nonblock")
           /\ \A q \in Procs : q # p =>
                \/ /\ at[q] = "blocked" /\ role[q] = "first" /\ Len(todo[q]) = 2
                   /\ GoesOn(q)
                \/ at'[q] = at[q] /\ todo'[q] = todo[q]
           /\ rfd' = [rfd EXCEPT ![p] = IF r = "first" THEN "fifo1" ELSE "fifo2"]
           /\ wfd' = [wfd EXCEPT ![p] = IF r = "first" THEN "fifo2" ELSE "fifo1"]
           /\ writers' = IF r = "second" THEN [writers EXCEPT !["fifo1"] = @ \cup {p}] ELSE writers
           /\ readers' = readers
<1> DEFINE r == IF SomeoneReads THEN "second" ELSE "first"
           through == {q \in Procs : r = "second" /\ Waits(q, "fifo1", TRUE)}
<1>1. /\ at[p] = "new"
      /\ role' = [role EXCEPT ![p] = r]
      /\ at' = [q \in Procs |-> IF q = p THEN "open"
                                ELSE IF q \in through THEN AfterOpen(q) ELSE at[q]]
      /\ todo' = [q \in Procs |-> IF q = p THEN Opens(r, "read nonblock")
                                  ELSE IF q \in through THEN Tail(todo[q]) ELSE todo[q]]
      /\ rfd' = [rfd EXCEPT ![p] = IF r = "first" THEN "fifo1" ELSE "fifo2"]
      /\ wfd' = [wfd EXCEPT ![p] = IF r = "first" THEN "fifo2" ELSE "fifo1"]
      /\ writers' = IF r = "second" THEN [writers EXCEPT !["fifo1"] = @ \cup {p}] ELSE writers
      /\ readers' = readers
  BY DEF Test
<1>2. r \in {"first", "second"}
  OBVIOUS
<1>3. IF r = "second" THEN readers["fifo1"] # {} ELSE readers["fifo1"] = {}
  BY DEF SomeoneReads
<1>4. role[p] = "none"
  BY <1>1 DEF RoleInv
<1>5. ASSUME NEW q \in through
      PROVE  at[q] = "blocked" /\ role[q] = "first" /\ Len(todo[q]) = 2
  <2>1. q \in Procs /\ at[q] = "blocked" /\ todo[q][1].fifo = "fifo1"
        /\ ~(todo[q][1].mode = "write")
    BY DEF Waits
  <2>2. at[q] \in {"open", "blocked"}
    BY <2>1
  <2>. QED  BY <2>1, <2>2, Stage
<1>6. \A q \in Procs : q # p =>
        \/ q \in through /\ GoesOn(q)
        \/ at'[q] = at[q] /\ todo'[q] = todo[q]
  BY <1>1 DEF GoesOn, AfterOpen
<1>7. at'[p] = "open" /\ todo'[p] = Opens(r, "read nonblock")
  BY <1>1
<1> HIDE DEF r, through
<1>. QED  BY <1>1, <1>2, <1>3, <1>4, <1>5, <1>6, <1>7

-----------------------------------------------------------------------------
(* The loop and the end.                                                    *)
ChatStep(p) == Read(p) \/ Typed(p) \/ Write(p) \/ CloseRfd(p) \/ CloseWfd(p)

LEMMA ChatEffect ==
  ASSUME FifoTypes, NEW p \in Procs, ChatStep(p)
  PROVE  \E s \in {"loop", "write", "close rfd", "close wfd"} \cup Outside :
           /\ at' = [at EXCEPT ![p] = s] /\ UNCHANGED <<cast, todo, rfd, wfd>>
           /\ \A q \in Procs : q # p => lines'[q] = lines[q]
           /\ s = "write" => lines'[p] < cast.lines
           /\ \/ /\ at[p] \in {"loop", "write"} /\ s \in {"loop", "write", "close rfd"}
                 /\ UNCHANGED <<readers, writers>>
              \/ /\ at[p] = "write" /\ s = "killed"
                 /\ readers' = Without(readers, p) /\ writers' = Without(writers, p)
              \/ /\ at[p] = "close rfd" /\ s = "close wfd"
                 /\ readers' = Without(readers, p) /\ writers' = writers
              \/ /\ at[p] = "close wfd" /\ s = "gone"
                 /\ readers' = readers /\ writers' = Without(writers, p)
<1>1. CASE Read(p)
  <2>1. at[p] = "loop" /\ UNCHANGED <<cast, todo, rfd, wfd, readers, writers, lines>>
    BY <1>1 DEF Read, ReadTo, fds
  <2>2. PICK typed \in BOOLEAN :
          /\ typed => lines[p] < cast.lines
          /\ \E x \in {"loop", "close rfd"} :
               at' = [at EXCEPT ![p] = IF typed THEN "write" ELSE x]
    BY <1>1 DEF Read, ReadTo
  <2>3. CASE typed
    BY <2>1, <2>2, <2>3
  <2>4. CASE ~typed
    BY <2>1, <2>2, <2>4
  <2>. QED  BY <2>3, <2>4
<1>2. CASE Typed(p)
  BY <1>2 DEF Typed, fds, user
<1>3. CASE Write(p)
  <2>1. /\ at[p] = "write" /\ lines' = [lines EXCEPT ![p] = @ + 1]
        /\ UNCHANGED <<cast, todo, rfd, wfd>>
    BY <1>3 DEF Write, WriteTo, fds
  <2>2. \/ \E x \in {"loop", "close rfd"} :
             at' = [at EXCEPT ![p] = x] /\ UNCHANGED <<readers, writers>>
        \/ /\ at' = [at EXCEPT ![p] = "killed"]
           /\ readers' = Without(readers, p) /\ writers' = Without(writers, p)
    BY <1>3 DEF Write, WriteTo
  <2>3. \A q \in Procs : q # p => lines'[q] = lines[q]
    BY <2>1 DEF FifoTypes
  <2>. QED  BY <2>1, <2>2, <2>3 DEF Outside
<1>4. CASE CloseRfd(p)
  BY <1>4 DEF CloseRfd, fds, user
<1>5. CASE CloseWfd(p)
  BY <1>5 DEF CloseWfd, fds, user, Outside
<1>. QED  BY <1>1, <1>2, <1>3, <1>4, <1>5 DEF ChatStep

(* The first stays alone while nobody takes a role or comes back. *)
LEMMA FirstStays ==
  ASSUME FirstInv, raced' = raced, role' = role, \A q \in Procs : Left(q) => Left(q)'
  PROVE  FirstInv'
<1>1. ASSUME ~raced, NEW p \in Procs, NEW q \in Procs, role[p] = "first", role[q] = "first",
             ~Left(p), ~Left(q)
      PROVE  p = q
  BY <1>1 DEF FirstInv
<1> HIDE DEF Left
<1>2. ~raced' => \A p, q \in Procs :
        role'[p] = "first" /\ role'[q] = "first" /\ ~Left(p)' /\ ~Left(q)' => p = q
  BY <1>1, Zenon
<1>. QED  BY <1>2, Zenon DEF FirstInv

LEMMA ChatKeeps ==
  ASSUME FifoInv, NEW p \in Procs, ChatStep(p), UNCHANGED <<role, raced>>
  PROVE  RoleInv' /\ EndsInv' /\ WaitInv' /\ FoundInv' /\ (FirstInv => FirstInv')
<1>1. FifoTypes /\ RoleInv /\ EndsInv /\ WaitInv /\ FoundInv
  BY DEF FifoInv
<1>2. PICK s \in {"loop", "write", "close rfd", "close wfd"} \cup Outside :
           /\ at' = [at EXCEPT ![p] = s] /\ UNCHANGED <<cast, todo, rfd, wfd>>
           /\ \A q \in Procs : q # p => lines'[q] = lines[q]
           /\ s = "write" => lines'[p] < cast.lines
           /\ \/ /\ at[p] \in {"loop", "write"} /\ s \in {"loop", "write", "close rfd"}
                 /\ UNCHANGED <<readers, writers>>
              \/ /\ at[p] = "write" /\ s = "killed"
                 /\ readers' = Without(readers, p) /\ writers' = Without(writers, p)
              \/ /\ at[p] = "close rfd" /\ s = "close wfd"
                 /\ readers' = Without(readers, p) /\ writers' = writers
              \/ /\ at[p] = "close wfd" /\ s = "gone"
                 /\ readers' = readers /\ writers' = Without(writers, p)
  BY <1>1, ChatEffect
<1>3. /\ at[p] \notin {"none", "new", "open", "blocked"} /\ at'[p] = s
      /\ \A q \in Procs : q # p => at'[q] = at[q]
      /\ todo' = todo /\ rfd' = rfd /\ wfd' = wfd /\ role' = role /\ cast' = cast
      /\ raced' = raced
  BY <1>1, <1>2 DEF FifoTypes
<1>4. s \notin {"none", "new", "open", "blocked"}
  BY DEF Outside
<1>5. RoleInv'
  <2>1. SUFFICES ASSUME NEW q \in Procs
                 PROVE  /\ role'[q] = "none" <=> at'[q] \in {"none", "new"}
                        /\ role'[q] = "first" => rfd'[q] = "fifo1" /\ wfd'[q] = "fifo2"
                        /\ role'[q] = "second" => rfd'[q] = "fifo2" /\ wfd'[q] = "fifo1"
                        /\ rfd'[q] = "fifo1" \/ role'[q] = "second"
                        /\ IF at'[q] \in {"open", "blocked"}
                           THEN \E m \in Modes : todo'[q] \in {Opens(role'[q], m),
                                                               Tail(Opens(role'[q], m))}
                           ELSE todo'[q] = <<>>
                        /\ at'[q] = "write" => lines'[q] < cast'.lines
    BY DEF RoleInv, Opens
  <2>2. /\ role[q] = "none" <=> at[q] \in {"none", "new"}
        /\ role[q] = "first" => rfd[q] = "fifo1" /\ wfd[q] = "fifo2"
        /\ role[q] = "second" => rfd[q] = "fifo2" /\ wfd[q] = "fifo1"
        /\ rfd[q] = "fifo1" \/ role[q] = "second"
        /\ IF at[q] \in {"open", "blocked"}
           THEN \E m \in Modes : todo[q] \in {Opens(role[q], m), Tail(Opens(role[q], m))}
           ELSE todo[q] = <<>>
        /\ at[q] = "write" => lines[q] < cast.lines
    BY <1>1 DEF RoleInv
  <2>3. /\ role'[q] = role[q] /\ rfd'[q] = rfd[q] /\ wfd'[q] = wfd[q] /\ todo'[q] = todo[q]
        /\ cast' = cast
    BY <1>3
  <2>4. CASE q = p
    <3>1. /\ at'[q] \notin {"none", "new", "open", "blocked"} /\ todo[q] = <<>>
          /\ role[q] # "none"
      BY <1>3, <1>4, <2>2, <2>4
    <3>2. at'[q] = "write" => lines'[q] < cast'.lines
      BY <1>2, <1>3, <2>4
    <3>. QED  BY <2>2, <2>3, <3>1, <3>2
  <2>5. CASE q # p
    <3>1. at'[q] = at[q] /\ lines'[q] = lines[q]
      BY <1>2, <1>3, <2>5
    <3>. QED  BY <2>2, <2>3, <3>1
  <2>. QED  BY <2>4, <2>5
<1>6. EndsInv'
  <2>1. ASSUME NEW q \in Procs, q # p
        PROVE  /\ InFifo1(q)' <=> InFifo1(q)
               /\ InFifo2(q)' <=> InFifo2(q)
               /\ \A f \in Fifos : (q \in readers'[f] <=> q \in readers[f])
                                   /\ (q \in writers'[f] <=> q \in writers[f])
    <3>1. at'[q] = at[q] /\ todo'[q] = todo[q]
      BY <1>3, <2>1
    <3>2. (InFifo1(q)' <=> InFifo1(q)) /\ (InFifo2(q)' <=> InFifo2(q))
      BY <3>1 DEF InFifo1, InFifo2, Chats
    <3>3. /\ readers' = readers \/ readers' = Without(readers, p)
          /\ writers' = writers \/ writers' = Without(writers, p)
      BY <1>2
    <3>4. \A f \in Fifos : (q \in readers'[f] <=> q \in readers[f])
                           /\ (q \in writers'[f] <=> q \in writers[f])
      BY <2>1, <3>3 DEF Without
    <3>. QED  BY <3>2, <3>4
  <2>2. (InFifo1(p) <=> Chats(p)) /\ (InFifo2(p) <=> Chats(p))
    BY <1>3 DEF InFifo1, InFifo2
  <2>3. (InFifo1(p)' <=> s \in {"loop", "write", "close rfd"})
        /\ (InFifo2(p)' <=> s \in {"loop", "write", "close rfd"})
    BY <1>3, <1>4 DEF InFifo1, InFifo2, Chats
  <2>4. "fifo1" \in Fifos /\ "fifo2" \in Fifos
    BY DEF Fifos
  <2>5. ASSUME NEW q \in Procs, q # p
        PROVE  /\ q \in readers'["fifo1"] <=> role'[q] = "first" /\ InFifo1(q)'
               /\ q \in readers'["fifo2"] <=> role'[q] = "second" /\ InFifo2(q)'
               /\ role'[q] = "second" /\ (InFifo1(q)' \/ at'[q] = "close wfd") =>
                    q \in writers'["fifo1"]
               /\ role'[q] = "first" /\ (InFifo2(q)' \/ at'[q] = "close wfd") =>
                    q \in writers'["fifo2"]
    <3>1. /\ q \in readers["fifo1"] <=> role[q] = "first" /\ InFifo1(q)
          /\ q \in readers["fifo2"] <=> role[q] = "second" /\ InFifo2(q)
          /\ role[q] = "second" /\ (InFifo1(q) \/ at[q] = "close wfd") => q \in writers["fifo1"]
          /\ role[q] = "first" /\ (InFifo2(q) \/ at[q] = "close wfd") => q \in writers["fifo2"]
      BY <1>1 DEF EndsInv
    <3>2. at'[q] = at[q] /\ role'[q] = role[q]
      BY <1>3, <2>5
    <3>3. /\ (InFifo1(q)' <=> InFifo1(q)) /\ (InFifo2(q)' <=> InFifo2(q))
          /\ (q \in readers'["fifo1"] <=> q \in readers["fifo1"])
          /\ (q \in readers'["fifo2"] <=> q \in readers["fifo2"])
          /\ (q \in writers'["fifo1"] <=> q \in writers["fifo1"])
          /\ (q \in writers'["fifo2"] <=> q \in writers["fifo2"])
      BY <2>1, <2>4, <2>5
    <3>. QED  BY <3>1, <3>2, <3>3
  <2>6. /\ p \in readers'["fifo1"] <=> role'[p] = "first" /\ InFifo1(p)'
        /\ p \in readers'["fifo2"] <=> role'[p] = "second" /\ InFifo2(p)'
    <3>1. /\ p \in readers["fifo1"] <=> role[p] = "first" /\ Chats(p)
          /\ p \in readers["fifo2"] <=> role[p] = "second" /\ Chats(p)
      BY <1>1, <2>2 DEF EndsInv
    <3>2. \/ Chats(p) /\ s \in {"loop", "write", "close rfd"} /\ readers' = readers
          \/ s \notin {"loop", "write", "close rfd"} /\ readers' = Without(readers, p)
          \/ ~Chats(p) /\ s \notin {"loop", "write", "close rfd"} /\ readers' = readers
      BY <1>2 DEF Chats
    <3>3. p \notin Without(readers, p)["fifo1"] /\ p \notin Without(readers, p)["fifo2"]
      BY <2>4 DEF Without
    <3>. QED  BY <1>3, <2>3, <3>1, <3>2, <3>3
  <2>7. /\ role'[p] = "second" /\ (InFifo1(p)' \/ at'[p] = "close wfd") =>
             p \in writers'["fifo1"]
        /\ role'[p] = "first" /\ (InFifo2(p)' \/ at'[p] = "close wfd") =>
             p \in writers'["fifo2"]
    BY <1>1, <1>2, <1>3, <2>2, <2>3, <2>4 DEF EndsInv, Chats, Without
  <2>. QED  BY <2>5, <2>6, <2>7 DEF EndsInv
<1>7. WaitInv'
  <2>1. readers'["fifo1"] \subseteq readers["fifo1"]
    BY <1>2 DEF Without, Fifos
  <2>. QED  BY <1>1, <1>3, <1>4, <2>1 DEF WaitInv
<1>8. FoundInv'
  <2>1. \A q \in Procs : ~Before(q) => ~Before(q)'
    BY <1>3, <1>4 DEF Before
  <2>. QED  BY <1>1, <1>3, <2>1 DEF FoundInv
<1>9. FirstInv => FirstInv'
  <2>1. \A q \in Procs : Left(q) => Left(q)'
    BY <1>2, <1>3 DEF Left, Outside
  <2>. QED  BY <1>3, <2>1, FirstStays
<1>. QED  BY <1>5, <1>6, <1>7, <1>8, <1>9

-----------------------------------------------------------------------------
(* Open.                                                                    *)

(* A process that goes on has one call less, and both ends open after two. *)
LEMMA GoingOn ==
  ASSUME FifoTypes, RoleInv, NEW q \in Procs, role'[q] = role[q],
         at[q] \in {"open", "blocked"}, GoesOn(q)
  PROVE  /\ at'[q] \in {"open", "loop"}
         /\ InFifo1(q)' /\ ~Before(q)' /\ (InFifo2(q)' <=> Len(todo[q]) = 1)
         /\ IF at'[q] = "open" THEN \E m \in Modes : todo'[q] = Tail(Opens(role'[q], m))
                               ELSE todo'[q] = <<>>
<1>1. Len(todo[q]) = 2 \/ (Len(todo[q]) = 1 /\ Tail(todo[q]) = <<>>)
  BY Stage, Zenon
<1>2. CASE Len(todo[q]) = 2
  <2>1. at'[q] = "open" /\ todo'[q] = Tail(todo[q])
    BY <1>2 DEF GoesOn
  <2>2. Len(Tail(todo[q])) = 1 /\ \E m \in Modes : todo[q] = Opens(role[q], m)
    BY <1>2, Stage
  <2>3. Len(todo'[q]) = 1 /\ \E m \in Modes : todo'[q] = Tail(Opens(role'[q], m))
    BY <2>1, <2>2
  <2>4. at'[q] = "open" /\ Len(todo'[q]) = 1
    BY <2>1, <2>2
  <2>5. InFifo1(q)' /\ ~Before(q)' /\ ~InFifo2(q)'
    BY <2>4 DEF InFifo1, InFifo2, Chats, Before
  <2>6. /\ at'[q] \in {"open", "loop"}
        /\ InFifo1(q)' /\ ~Before(q)' /\ (InFifo2(q)' <=> Len(todo[q]) = 1)
    BY <1>2, <2>4, <2>5
  <2>. QED  BY <2>3, <2>4, <2>6, Zenon
<1>3. CASE Len(todo[q]) = 1
  <2>1. at'[q] = "loop" /\ todo'[q] = Tail(todo[q])
    BY <1>3 DEF GoesOn
  <2>2. Tail(todo[q]) = <<>>
    BY <1>3, <1>1
  <2>3. InFifo1(q)' /\ ~Before(q)' /\ InFifo2(q)'
    BY <2>1 DEF InFifo1, InFifo2, Chats, Before
  <2>4. todo'[q] = <<>> /\ at'[q] # "open" /\ at'[q] \in {"open", "loop"}
    BY <2>1, <2>2
  <2>. QED  BY <1>3, <2>3, <2>4, Zenon
<1>. QED  BY <1>2, <1>3, <1>1

(* The caller gets one end further; everybody else has the ends it had. *)
LEMMA OpenPlaces ==
  ASSUME FifoTypes, RoleInv, role' = role, NEW p \in Procs, OpenNext(p)
  PROVE  /\ Len(todo[p]) \in {1, 2} /\ role[p] \in {"first", "second"}
         /\ InFifo1(p)' /\ (InFifo1(p) <=> Len(todo[p]) = 1)
         /\ ~InFifo2(p) /\ (InFifo2(p)' <=> Len(todo[p]) = 1)
         /\ at[p] \notin {"close wfd", "write", "none", "new"}
         /\ at'[p] \in {"open", "loop", "blocked"} /\ ~Before(p)'
         /\ at'[p] = "blocked" => todo'[p] = todo[p]
         /\ \A q \in Procs : q # p =>
              /\ (InFifo1(q)' <=> InFifo1(q)) /\ (InFifo2(q)' <=> InFifo2(q))
              /\ \/ at'[q] = at[q] /\ todo'[q] = todo[q] /\ ~Meets(q, p)
                 \/ at[q] = "blocked" /\ at'[q] \in {"open", "loop"} /\ ~Before(q)'
         /\ \A q \in Procs :
              IF at'[q] \in {"open", "blocked"}
              THEN \E m \in Modes : todo'[q] \in {Opens(role'[q], m), Tail(Opens(role'[q], m))}
              ELSE todo'[q] = <<>>
<1>1. /\ at[p] = "open"
      /\ GoesOn(p) \/ (at'[p] = "blocked" /\ todo'[p] = todo[p])
      /\ \A q \in Procs : q # p =>
           \/ Meets(q, p) /\ GoesOn(q)
           \/ ~Meets(q, p) /\ at'[q] = at[q] /\ todo'[q] = todo[q]
  BY OpenEffect
<1>2. Len(todo[p]) \in {1, 2} /\ role[p] \in {"first", "second"}
  BY <1>1, Stage
<1>3. (InFifo1(p) <=> Len(todo[p]) = 1) /\ ~InFifo2(p)
  BY <1>1 DEF InFifo1, InFifo2, Chats
<1>4. ASSUME NEW q \in Procs, GoesOn(q), at[q] \in {"open", "blocked"}
      PROVE  /\ at'[q] \in {"open", "loop"}
             /\ InFifo1(q)' /\ ~Before(q)' /\ (InFifo2(q)' <=> Len(todo[q]) = 1)
             /\ IF at'[q] \in {"open", "blocked"}
                THEN \E m \in Modes : todo'[q] \in {Opens(role'[q], m), Tail(Opens(role'[q], m))}
                ELSE todo'[q] = <<>>
  BY <1>4, GoingOn
<1>6. ASSUME NEW q \in Procs, at'[q] = at[q] \/ (at[q] = "open" /\ at'[q] = "blocked"),
             todo'[q] = todo[q]
      PROVE  IF at'[q] \in {"open", "blocked"}
             THEN \E m \in Modes : todo'[q] \in {Opens(role'[q], m), Tail(Opens(role'[q], m))}
             ELSE todo'[q] = <<>>
  BY <1>6 DEF RoleInv
<1>7. ASSUME at'[p] = "blocked", todo'[p] = todo[p]
      PROVE  InFifo1(p)' /\ (InFifo2(p)' <=> Len(todo[p]) = 1) /\ ~Before(p)'
  BY <1>7 DEF InFifo1, InFifo2, Chats, Before
<1>8. /\ InFifo1(p)' /\ (InFifo2(p)' <=> Len(todo[p]) = 1) /\ ~Before(p)'
      /\ at'[p] \in {"open", "loop", "blocked"}
      /\ at'[p] = "blocked" => todo'[p] = todo[p]
  <2>1. CASE GoesOn(p)
    BY <1>1, <1>4, <2>1
  <2>. QED  BY <1>1, <1>7, <2>1
<1>9. ASSUME NEW q \in Procs, q # p
      PROVE  /\ (InFifo1(q)' <=> InFifo1(q)) /\ (InFifo2(q)' <=> InFifo2(q))
             /\ \/ at'[q] = at[q] /\ todo'[q] = todo[q] /\ ~Meets(q, p)
                \/ at[q] = "blocked" /\ at'[q] \in {"open", "loop"} /\ ~Before(q)'
             /\ IF at'[q] \in {"open", "blocked"}
                THEN \E m \in Modes : todo'[q] \in {Opens(role'[q], m), Tail(Opens(role'[q], m))}
                ELSE todo'[q] = <<>>
  <2>1. CASE Meets(q, p) /\ GoesOn(q)
    <3>1. at[q] = "blocked"
      BY <2>1 DEF Meets
    <3>2. InFifo1(q) /\ (InFifo2(q) <=> Len(todo[q]) = 1)
      BY <3>1 DEF InFifo1, InFifo2, Chats
    <3>. QED  BY <1>4, <2>1, <3>1, <3>2
  <2>2. CASE ~Meets(q, p) /\ at'[q] = at[q] /\ todo'[q] = todo[q]
    <3>1. (InFifo1(q)' <=> InFifo1(q)) /\ (InFifo2(q)' <=> InFifo2(q))
      BY <2>2 DEF InFifo1, InFifo2, Chats
    <3>. QED  BY <1>6, <2>2, <3>1
  <2>. QED  BY <1>1, <1>9, <2>1, <2>2
<1>10. IF at'[p] \in {"open", "blocked"}
       THEN \E m \in Modes : todo'[p] \in {Opens(role'[p], m), Tail(Opens(role'[p], m))}
       ELSE todo'[p] = <<>>
  <2>1. CASE GoesOn(p)
    BY <1>1, <1>4, <2>1
  <2>. QED  BY <1>1, <1>6, <2>1
<1>11. at[p] \notin {"close wfd", "write", "none", "new"}
  BY <1>1
<1>12. \A q \in Procs :
         IF at'[q] \in {"open", "blocked"}
         THEN \E m \in Modes : todo'[q] \in {Opens(role'[q], m), Tail(Opens(role'[q], m))}
         ELSE todo'[q] = <<>>
  BY <1>9, <1>10, Zenon
<1>13. \A q \in Procs : q # p =>
         /\ (InFifo1(q)' <=> InFifo1(q)) /\ (InFifo2(q)' <=> InFifo2(q))
         /\ \/ at'[q] = at[q] /\ todo'[q] = todo[q] /\ ~Meets(q, p)
            \/ at[q] = "blocked" /\ at'[q] \in {"open", "loop"} /\ ~Before(q)'
  BY <1>9, Zenon
<1>. QED  BY <1>2, <1>3, <1>8, <1>11, <1>12, <1>13, Zenon

LEMMA OpenKeeps ==
  ASSUME FifoInv, NEW p \in Procs, OpenNext(p), UNCHANGED <<role, raced>>
  PROVE  RoleInv' /\ EndsInv' /\ WaitInv' /\ FoundInv' /\ (FirstInv => FirstInv')
<1>1. FifoTypes /\ RoleInv /\ EndsInv /\ WaitInv /\ FoundInv
  BY DEF FifoInv
<1>2. /\ Len(todo[p]) \in {1, 2} /\ role[p] \in {"first", "second"}
      /\ InFifo1(p)' /\ (InFifo1(p) <=> Len(todo[p]) = 1)
      /\ ~InFifo2(p) /\ (InFifo2(p)' <=> Len(todo[p]) = 1)
      /\ at[p] \notin {"close wfd", "write", "none", "new"}
      /\ at'[p] \in {"open", "loop", "blocked"} /\ ~Before(p)'
      /\ at'[p] = "blocked" => todo'[p] = todo[p]
  BY <1>1, OpenPlaces
<1>3. /\ \A q \in Procs : q # p =>
           /\ (InFifo1(q)' <=> InFifo1(q)) /\ (InFifo2(q)' <=> InFifo2(q))
           /\ \/ at'[q] = at[q] /\ todo'[q] = todo[q] /\ ~Meets(q, p)
              \/ at[q] = "blocked" /\ at'[q] \in {"open", "loop"} /\ ~Before(q)'
      /\ \A q \in Procs :
           IF at'[q] \in {"open", "blocked"}
           THEN \E m \in Modes : todo'[q] \in {Opens(role'[q], m), Tail(Opens(role'[q], m))}
           ELSE todo'[q] = <<>>
  BY <1>1, OpenPlaces
<1>4. /\ Len(todo[p]) = 2 /\ role[p] = "first" =>
           readers' = [readers EXCEPT !["fifo1"] = @ \cup {p}] /\ writers' = writers
      /\ Len(todo[p]) = 1 /\ role[p] = "second" =>
           readers' = [readers EXCEPT !["fifo2"] = @ \cup {p}] /\ writers' = writers
      /\ Len(todo[p]) = 2 /\ role[p] = "second" =>
           /\ writers' = [writers EXCEPT !["fifo1"] = @ \cup {p}] /\ readers' = readers
           /\ at'[p] = "blocked" => readers["fifo1"] = {}
      /\ Len(todo[p]) = 1 /\ role[p] = "first" =>
           writers' = [writers EXCEPT !["fifo2"] = @ \cup {p}] /\ readers' = readers
  BY <1>1, OpenEffect
<1>5. UNCHANGED <<role, raced, rfd, wfd, cast, lines>>
  BY DEF OpenNext, user
<1>6. RoleInv'
  <2>1. SUFFICES ASSUME NEW q \in Procs
                 PROVE  /\ role'[q] = "none" <=> at'[q] \in {"none", "new"}
                        /\ role'[q] = "first" => rfd'[q] = "fifo1" /\ wfd'[q] = "fifo2"
                        /\ role'[q] = "second" => rfd'[q] = "fifo2" /\ wfd'[q] = "fifo1"
                        /\ rfd'[q] = "fifo1" \/ role'[q] = "second"
                        /\ IF at'[q] \in {"open", "blocked"}
                           THEN \E m \in Modes : todo'[q] \in {Opens(role'[q], m),
                                                               Tail(Opens(role'[q], m))}
                           ELSE todo'[q] = <<>>
                        /\ at'[q] = "write" => lines'[q] < cast'.lines
    BY DEF RoleInv, Opens
  <2>2. \/ at'[q] = at[q]
        \/ at[q] \in {"open", "blocked"} /\ at'[q] \in {"open", "loop", "blocked"}
    BY <1>2, <1>3, OpenEffect, <1>1
  <2>3. /\ role'[q] = "none" <=> at'[q] \in {"none", "new"}
        /\ at'[q] = "write" => at[q] = "write"
    BY <1>1, <1>5, <2>2 DEF RoleInv
  <2>. QED  BY <1>1, <1>3, <1>5, <2>3 DEF RoleInv
<1>7. EndsInv'
  <2>1. ASSUME NEW q \in Procs, q # p
        PROVE  \A f \in Fifos : (q \in readers'[f] <=> q \in readers[f])
                                /\ (q \in writers'[f] <=> q \in writers[f])
    <3>1. \/ readers' = readers /\ \E f \in Fifos : writers' = [writers EXCEPT ![f] = @ \cup {p}]
          \/ writers' = writers /\ \E f \in Fifos : readers' = [readers EXCEPT ![f] = @ \cup {p}]
      BY <1>2, <1>4 DEF Fifos
    <3>2. readers \in [Fifos -> SUBSET Procs] /\ writers \in [Fifos -> SUBSET Procs]
      BY <1>1 DEF FifoTypes
    <3>. QED  BY <2>1, <3>1, <3>2
  <2>2. ASSUME NEW q \in Procs, q # p
        PROVE  at'[q] = "close wfd" <=> at[q] = "close wfd"
    BY <1>3, <2>2
  <2>3. "fifo1" \in Fifos /\ "fifo2" \in Fifos
    BY DEF Fifos
  <2>4. ASSUME NEW q \in Procs, q # p
        PROVE  /\ q \in readers'["fifo1"] <=> role'[q] = "first" /\ InFifo1(q)'
               /\ q \in readers'["fifo2"] <=> role'[q] = "second" /\ InFifo2(q)'
               /\ role'[q] = "second" /\ (InFifo1(q)' \/ at'[q] = "close wfd") =>
                    q \in writers'["fifo1"]
               /\ role'[q] = "first" /\ (InFifo2(q)' \/ at'[q] = "close wfd") =>
                    q \in writers'["fifo2"]
    <3>1. /\ q \in readers'["fifo1"] <=> q \in readers["fifo1"]
          /\ q \in readers'["fifo2"] <=> q \in readers["fifo2"]
          /\ q \in writers'["fifo1"] <=> q \in writers["fifo1"]
          /\ q \in writers'["fifo2"] <=> q \in writers["fifo2"]
      BY <2>1, <2>3, <2>4
    <3>2. (InFifo1(q)' <=> InFifo1(q)) /\ (InFifo2(q)' <=> InFifo2(q))
      BY <1>3, <2>4
    <3>3. /\ q \in readers["fifo1"] <=> role[q] = "first" /\ InFifo1(q)
          /\ q \in readers["fifo2"] <=> role[q] = "second" /\ InFifo2(q)
          /\ role[q] = "second" /\ (InFifo1(q) \/ at[q] = "close wfd") => q \in writers["fifo1"]
          /\ role[q] = "first" /\ (InFifo2(q) \/ at[q] = "close wfd") => q \in writers["fifo2"]
      BY <1>1 DEF EndsInv
    <3>. QED  BY <1>5, <2>2, <2>4, <3>1, <3>2, <3>3
  <2>5. /\ p \in readers["fifo1"] <=> role[p] = "first" /\ InFifo1(p)
        /\ p \in readers["fifo2"] <=> role[p] = "second" /\ InFifo2(p)
        /\ role[p] = "second" /\ InFifo1(p) => p \in writers["fifo1"]
    BY <1>1 DEF EndsInv
  <2>6. /\ p \in readers'["fifo1"] <=> role[p] = "first"
        /\ p \in readers'["fifo2"] <=> role[p] = "second" /\ Len(todo[p]) = 1
        /\ role[p] = "second" => p \in writers'["fifo1"]
        /\ role[p] = "first" /\ Len(todo[p]) = 1 => p \in writers'["fifo2"]
    <3>1. readers \in [Fifos -> SUBSET Procs] /\ writers \in [Fifos -> SUBSET Procs]
      BY <1>1 DEF FifoTypes
    <3>2. CASE Len(todo[p]) = 2 /\ role[p] = "first"
      <4>1. p \notin readers["fifo2"] /\ readers' = [readers EXCEPT !["fifo1"] = @ \cup {p}]
        BY <1>4, <2>5, <3>2
      <4>. QED  BY <2>3, <3>1, <3>2, <4>1
    <3>3. CASE Len(todo[p]) = 2 /\ role[p] = "second"
      <4>1. /\ p \notin readers["fifo1"] /\ p \notin readers["fifo2"] /\ readers' = readers
            /\ writers' = [writers EXCEPT !["fifo1"] = @ \cup {p}]
        BY <1>2, <1>4, <2>5, <3>3
      <4>. QED  BY <2>3, <3>1, <3>3, <4>1
    <3>4. CASE Len(todo[p]) = 1 /\ role[p] = "first"
      <4>1. /\ p \in readers["fifo1"] /\ p \notin readers["fifo2"] /\ readers' = readers
            /\ writers' = [writers EXCEPT !["fifo2"] = @ \cup {p}]
        BY <1>2, <1>4, <2>5, <3>4
      <4>. QED  BY <2>3, <3>1, <3>4, <4>1
    <3>5. CASE Len(todo[p]) = 1 /\ role[p] = "second"
      <4>1. /\ p \notin readers["fifo1"] /\ p \in writers["fifo1"] /\ writers' = writers
            /\ readers' = [readers EXCEPT !["fifo2"] = @ \cup {p}]
        BY <1>2, <1>4, <2>5, <3>5
      <4>. QED  BY <2>3, <3>1, <3>5, <4>1
    <3>. QED  BY <1>2, <3>2, <3>3, <3>4, <3>5
  <2>7. /\ p \in readers'["fifo1"] <=> role'[p] = "first" /\ InFifo1(p)'
        /\ p \in readers'["fifo2"] <=> role'[p] = "second" /\ InFifo2(p)'
        /\ role'[p] = "second" /\ (InFifo1(p)' \/ at'[p] = "close wfd") =>
             p \in writers'["fifo1"]
        /\ role'[p] = "first" /\ (InFifo2(p)' \/ at'[p] = "close wfd") =>
             p \in writers'["fifo2"]
    BY <1>2, <1>5, <2>6
  <2>. QED  BY <2>4, <2>7 DEF EndsInv
<1>8. WaitInv'
  <2>1. SUFFICES ASSUME NEW q \in Procs, role'[q] = "second", at'[q] = "blocked",
                        Len(todo'[q]) = 2
                 PROVE  readers'["fifo1"] = {}
    BY DEF WaitInv
  <2>2. CASE q = p
    BY <1>2, <1>4, <1>5, <2>1, <2>2
  <2>3. CASE q # p
    <3>1. at[q] = "blocked" /\ Len(todo[q]) = 2 /\ ~Meets(q, p) /\ role[q] = "second"
      BY <1>3, <1>5, <2>1, <2>3
    <3>2. readers["fifo1"] = {}
      BY <1>1, <3>1 DEF WaitInv
    <3>3. ~(Len(todo[p]) = 2 /\ role[p] = "first")
      BY <3>1 DEF Meets
    <3>4. readers'["fifo1"] = readers["fifo1"]
      BY <1>1, <1>2, <1>4, <3>3 DEF FifoTypes, Fifos
    <3>. QED  BY <3>2, <3>4
  <2>. QED  BY <2>2, <2>3
<1>9. FoundInv'
  <2>1. \A q \in Procs : ~Before(q) => ~Before(q)'
    BY <1>2, <1>3 DEF Before
  <2>. QED  BY <1>1, <1>5, <2>1 DEF FoundInv
<1>10. FirstInv => FirstInv'
  <2>1. \A q \in Procs : Left(q) => Left(q)'
    <3>1. ~Left(p)
      BY <1>1, OpenEffect DEF Left, Outside
    <3>2. \A q \in Procs : q # p /\ Left(q) => at'[q] = at[q]
      BY <1>3 DEF Left, Outside
    <3>. QED  BY <3>1, <3>2 DEF Left
  <2>. QED  BY <1>5, <2>1, FirstStays
<1>. QED  BY <1>6, <1>7, <1>8, <1>9, <1>10

-----------------------------------------------------------------------------
(* The first end.                                                           *)

(* Past its first open call, and still there, the first reads fifo1. *)
LEMMA FirstReads ==
  ASSUME FifoTypes, RoleInv, NEW q \in Procs, role[q] = "first", ~Left(q), ~Before(q)
  PROVE  InFifo1(q)
<1>1. at[q] \notin {"none", "new"}
  BY DEF RoleInv
<1>2. at[q] \in {"open", "blocked", "loop", "write", "close rfd"}
  BY <1>1 DEF FifoTypes, Left, Outside
<1>3. at[q] = "open" => Len(todo[q]) = 1
  BY Stage DEF Before
<1>. QED  BY <1>2, <1>3 DEF InFifo1, Chats

LEMMA ReadersStay ==
  ASSUME NEW q \in Procs, InFifo1(q)
  PROVE  ~Left(q)
BY DEF InFifo1, Chats, Left, Outside

-----------------------------------------------------------------------------
(* The test of 123.                                                         *)
LEMMA TestPlaces ==
  ASSUME FifoTypes, RoleInv, NEW p \in Procs, Test(p)
  PROVE  /\ ~InFifo1(p) /\ ~InFifo1(p)' /\ ~InFifo2(p)' /\ ~Left(p)
         /\ at'[p] = "open" /\ Len(todo'[p]) = 2
         /\ \A q \in Procs : q # p =>
              /\ role'[q] = role[q]
              /\ (InFifo1(q)' <=> InFifo1(q)) /\ (InFifo2(q)' <=> InFifo2(q))
              /\ (Left(q)' <=> Left(q)) /\ (~Before(q) => ~Before(q)')
              /\ \/ at'[q] = at[q] /\ todo'[q] = todo[q]
                 \/ at[q] = "blocked" /\ at'[q] \in {"open", "loop"}
              /\ IF at'[q] \in {"open", "blocked"}
                 THEN \E m \in Modes : todo'[q] \in {Opens(role'[q], m), Tail(Opens(role'[q], m))}
                 ELSE todo'[q] = <<>>
<1>1. PICK r \in {"first", "second"} :
           /\ at[p] = "new" /\ role[p] = "none"
           /\ role' = [role EXCEPT ![p] = r]
           /\ at'[p] = "open" /\ todo'[p] = Opens(r, "read nonblock")
           /\ \A q \in Procs : q # p =>
                \/ /\ at[q] = "blocked" /\ role[q] = "first" /\ Len(todo[q]) = 2
                   /\ GoesOn(q)
                \/ at'[q] = at[q] /\ todo'[q] = todo[q]
  BY TestEffect
<1>2. Len(todo'[p]) = 2
  BY <1>1, Calls DEF Modes
<1>3. at[p] = "new" /\ at'[p] = "open"
  BY <1>1
<1>4. ~InFifo1(p) /\ ~InFifo1(p)' /\ ~InFifo2(p)' /\ ~Left(p)
  BY <1>2, <1>3 DEF InFifo1, InFifo2, Chats, Left, Outside
<1>5. ASSUME NEW q \in Procs, q # p
      PROVE  /\ role'[q] = role[q]
             /\ (InFifo1(q)' <=> InFifo1(q)) /\ (InFifo2(q)' <=> InFifo2(q))
             /\ (Left(q)' <=> Left(q)) /\ (~Before(q) => ~Before(q)')
             /\ \/ at'[q] = at[q] /\ todo'[q] = todo[q]
                \/ at[q] = "blocked" /\ at'[q] \in {"open", "loop"}
             /\ IF at'[q] \in {"open", "blocked"}
                THEN \E m \in Modes : todo'[q] \in {Opens(role'[q], m), Tail(Opens(role'[q], m))}
                ELSE todo'[q] = <<>>
  <2>1. role'[q] = role[q]
    BY <1>1, <1>5 DEF FifoTypes
  <2>2. CASE at[q] = "blocked" /\ Len(todo[q]) = 2 /\ GoesOn(q)
    <3>1. InFifo1(q) /\ ~InFifo2(q) /\ ~Left(q)
      BY <2>2 DEF InFifo1, InFifo2, Chats, Left, Outside
    <3>2. /\ at'[q] \in {"open", "loop"}
          /\ InFifo1(q)' /\ ~Before(q)' /\ (InFifo2(q)' <=> Len(todo[q]) = 1)
          /\ IF at'[q] = "open" THEN \E m \in Modes : todo'[q] = Tail(Opens(role'[q], m))
                                ELSE todo'[q] = <<>>
      BY <2>1, <2>2, GoingOn
    <3>3. ~InFifo2(q)' /\ ~Left(q)' /\ at'[q] # "blocked"
      <4>1. ~InFifo2(q)' /\ at'[q] \in {"open", "loop"}
        BY <2>2, <3>2
      <4>. QED  BY <4>1 DEF Left, Outside
    <3>4. IF at'[q] \in {"open", "blocked"}
          THEN \E m \in Modes : todo'[q] \in {Opens(role'[q], m), Tail(Opens(role'[q], m))}
          ELSE todo'[q] = <<>>
      BY <3>2, <3>3
    <3>. QED  BY <2>1, <2>2, <3>1, <3>2, <3>3, <3>4, Zenon
  <2>3. CASE at'[q] = at[q] /\ todo'[q] = todo[q]
    <3>1. /\ (InFifo1(q)' <=> InFifo1(q)) /\ (InFifo2(q)' <=> InFifo2(q))
          /\ (Left(q)' <=> Left(q)) /\ (~Before(q) => ~Before(q)')
      BY <2>3 DEF InFifo1, InFifo2, Chats, Left, Before
    <3>2. IF at'[q] \in {"open", "blocked"}
          THEN \E m \in Modes : todo'[q] \in {Opens(role'[q], m), Tail(Opens(role'[q], m))}
          ELSE todo'[q] = <<>>
      BY <2>1, <2>3 DEF RoleInv
    <3>. QED  BY <2>1, <2>3, <3>1, <3>2, Zenon
  <2>. QED  BY <1>1, <1>5, <2>2, <2>3
<1>. QED  BY <1>2, <1>4, <1>5, <1>3, Zenon

LEMMA TestKeeps ==
  ASSUME FifoInv, NEW p \in Procs, Test(p)
  PROVE  RoleInv' /\ EndsInv' /\ WaitInv' /\ FoundInv' /\ (FirstInv => FirstInv')
<1>1. FifoTypes /\ RoleInv /\ EndsInv /\ WaitInv /\ FoundInv
  BY DEF FifoInv
<1>2. /\ ~InFifo1(p) /\ ~InFifo1(p)' /\ ~InFifo2(p)' /\ ~Left(p)
      /\ at'[p] = "open" /\ Len(todo'[p]) = 2
      /\ \A q \in Procs : q # p =>
           /\ role'[q] = role[q]
           /\ (InFifo1(q)' <=> InFifo1(q)) /\ (InFifo2(q)' <=> InFifo2(q))
           /\ (Left(q)' <=> Left(q)) /\ (~Before(q) => ~Before(q)')
           /\ \/ at'[q] = at[q] /\ todo'[q] = todo[q]
              \/ at[q] = "blocked" /\ at'[q] \in {"open", "loop"}
           /\ IF at'[q] \in {"open", "blocked"}
              THEN \E m \in Modes : todo'[q] \in {Opens(role'[q], m), Tail(Opens(role'[q], m))}
              ELSE todo'[q] = <<>>
  BY <1>1, TestPlaces
<1>3. PICK r \in {"first", "second"} :
           /\ at[p] = "new" /\ role[p] = "none"
           /\ IF r = "second" THEN readers["fifo1"] # {} ELSE readers["fifo1"] = {}
           /\ role' = [role EXCEPT ![p] = r]
           /\ todo'[p] = Opens(r, "read nonblock")
           /\ rfd' = [rfd EXCEPT ![p] = IF r = "first" THEN "fifo1" ELSE "fifo2"]
           /\ wfd' = [wfd EXCEPT ![p] = IF r = "first" THEN "fifo2" ELSE "fifo1"]
           /\ writers' = IF r = "second" THEN [writers EXCEPT !["fifo1"] = @ \cup {p}] ELSE writers
           /\ readers' = readers
  BY <1>1, TestEffect
<1>4. UNCHANGED <<cast, lines>> /\ role'[p] = r
  BY <1>1, <1>3 DEF Test, user, FifoTypes
<1>5. RoleInv'
  <2>1. SUFFICES ASSUME NEW q \in Procs
                 PROVE  /\ role'[q] = "none" <=> at'[q] \in {"none", "new"}
                        /\ role'[q] = "first" => rfd'[q] = "fifo1" /\ wfd'[q] = "fifo2"
                        /\ role'[q] = "second" => rfd'[q] = "fifo2" /\ wfd'[q] = "fifo1"
                        /\ rfd'[q] = "fifo1" \/ role'[q] = "second"
                        /\ IF at'[q] \in {"open", "blocked"}
                           THEN \E m \in Modes : todo'[q] \in {Opens(role'[q], m),
                                                               Tail(Opens(role'[q], m))}
                           ELSE todo'[q] = <<>>
                        /\ at'[q] = "write" => lines'[q] < cast'.lines
    BY DEF RoleInv, Opens
  <2>2. CASE q = p
    <3>1. rfd'[p] = (IF r = "first" THEN "fifo1" ELSE "fifo2")
          /\ wfd'[p] = (IF r = "first" THEN "fifo2" ELSE "fifo1")
      BY <1>1, <1>3 DEF FifoTypes
    <3>2. \E m \in Modes : todo'[p] \in {Opens(role'[p], m), Tail(Opens(role'[p], m))}
      BY <1>3, <1>4 DEF Modes
    <3>. QED  BY <1>2, <1>4, <2>2, <3>1, <3>2
  <2>3. CASE q # p
    <3>1. /\ role'[q] = role[q] /\ rfd'[q] = rfd[q] /\ wfd'[q] = wfd[q]
          /\ lines'[q] = lines[q] /\ cast' = cast
      BY <1>1, <1>2, <1>3, <1>4, <2>3 DEF FifoTypes
    <3>2. at'[q] \in {"none", "new"} <=> at[q] \in {"none", "new"}
      BY <1>2, <2>3
    <3>3. at'[q] = "write" => at[q] = "write"
      BY <1>2, <2>3
    <3>. QED  BY <1>1, <1>2, <2>3, <3>1, <3>2, <3>3 DEF RoleInv
  <2>. QED  BY <2>2, <2>3
<1>6. EndsInv'
  <2>1. ASSUME NEW q \in Procs, q # p
        PROVE  /\ q \in readers'["fifo1"] <=> role'[q] = "first" /\ InFifo1(q)'
               /\ q \in readers'["fifo2"] <=> role'[q] = "second" /\ InFifo2(q)'
               /\ role'[q] = "second" /\ (InFifo1(q)' \/ at'[q] = "close wfd") =>
                    q \in writers'["fifo1"]
               /\ role'[q] = "first" /\ (InFifo2(q)' \/ at'[q] = "close wfd") =>
                    q \in writers'["fifo2"]
    <3>1. /\ q \in readers["fifo1"] <=> role[q] = "first" /\ InFifo1(q)
          /\ q \in readers["fifo2"] <=> role[q] = "second" /\ InFifo2(q)
          /\ role[q] = "second" /\ (InFifo1(q) \/ at[q] = "close wfd") => q \in writers["fifo1"]
          /\ role[q] = "first" /\ (InFifo2(q) \/ at[q] = "close wfd") => q \in writers["fifo2"]
      BY <1>1 DEF EndsInv
    <3>2. /\ q \in writers["fifo1"] => q \in writers'["fifo1"]
          /\ q \in writers["fifo2"] => q \in writers'["fifo2"]
      BY <1>1, <1>3 DEF FifoTypes, Fifos
    <3>3. at'[q] = "close wfd" => at[q] = "close wfd"
      BY <1>2, <2>1
    <3>4. /\ role'[q] = role[q] /\ readers' = readers
          /\ (InFifo1(q)' <=> InFifo1(q)) /\ (InFifo2(q)' <=> InFifo2(q))
      BY <1>2, <1>3, <2>1
    <3>. QED  BY <3>1, <3>2, <3>3, <3>4
  <2>2. p \notin readers["fifo1"] /\ p \notin readers["fifo2"]
    BY <1>1, <1>3 DEF EndsInv
  <2>3. at'[p] # "close wfd" /\ readers' = readers
    BY <1>2, <1>3
  <2>4. /\ p \in readers'["fifo1"] <=> role'[p] = "first" /\ InFifo1(p)'
        /\ p \in readers'["fifo2"] <=> role'[p] = "second" /\ InFifo2(p)'
        /\ role'[p] = "second" /\ (InFifo1(p)' \/ at'[p] = "close wfd") =>
             p \in writers'["fifo1"]
        /\ role'[p] = "first" /\ (InFifo2(p)' \/ at'[p] = "close wfd") =>
             p \in writers'["fifo2"]
    BY <1>2, <2>2, <2>3
  <2>. QED  BY <2>1, <2>4 DEF EndsInv
<1>7. WaitInv'
  <2>1. SUFFICES ASSUME NEW q \in Procs, role'[q] = "second", at'[q] = "blocked",
                        Len(todo'[q]) = 2
                 PROVE  readers'["fifo1"] = {}
    BY DEF WaitInv
  <2>2. q # p
    BY <1>2, <2>1
  <2>3. role[q] = "second" /\ at[q] = "blocked" /\ Len(todo[q]) = 2
    BY <1>2, <2>1, <2>2
  <2>. QED  BY <1>1, <1>3, <2>3 DEF WaitInv
<1>8. FoundInv'
  <2>1. SUFFICES ASSUME NEW q \in Procs, cast'.program[q] = "123", role'[q] = "second"
                 PROVE  \E x \in Procs \ {q} : role'[x] = "first" /\ ~Before(x)'
    BY DEF FoundInv
  <2>2. \E x \in Procs : x # q /\ x # p /\ role[x] = "first" /\ ~Before(x)
    <3>1. CASE q = p
      <4>1. PICK x \in Procs : x \in readers["fifo1"]
        BY <1>1, <1>3, <1>4, <2>1, <3>1 DEF FifoTypes, Fifos
      <4>2. role[x] = "first" /\ InFifo1(x)
        BY <1>1, <4>1 DEF EndsInv
      <4>3. x # p
        BY <1>2, <4>2
      <4>4. ~Before(x)
        <5>1. Chats(x) \/ at[x] = "blocked" \/ (at[x] = "open" /\ Len(todo[x]) = 1)
          BY <4>2 DEF InFifo1
        <5>2. Chats(x) => at[x] # "open"
          BY DEF Chats
        <5>. QED  BY <5>1, <5>2 DEF Before
      <4>. QED  BY <3>1, <4>2, <4>3, <4>4
    <3>2. CASE q # p
      <4>1. cast.program[q] = "123" /\ role[q] = "second"
        BY <1>2, <1>4, <2>1, <3>2
      <4>2. PICK x \in Procs \ {q} : role[x] = "first" /\ ~Before(x)
        BY <1>1, <4>1 DEF FoundInv
      <4>. QED  BY <1>3, <4>2
    <3>. QED  BY <3>1, <3>2
  <2>. QED  BY <1>2, <2>2
<1>9. FirstInv => FirstInv'
  <2>1. ~raced' => ~raced /\ \A q \in Procs : role[q] = "first" => ~Before(q)
    <3>1. raced' = (raced \/ \E q \in Procs : role[q] = "first" /\ Before(q))
      BY DEF Test, Before
    <3>. QED  BY <3>1, Zenon
  <2>2. ASSUME NEW q \in Procs, role[q] = "first", ~Left(q), ~Before(q)
        PROVE  q \in readers["fifo1"]
    BY <1>1, <2>2, FirstReads DEF EndsInv
  <2>3. ASSUME FirstInv, ~raced', NEW a \in Procs, NEW b \in Procs,
               role'[a] = "first", role'[b] = "first", ~Left(a)', ~Left(b)'
        PROVE  a = b
    <3>1. ASSUME NEW c \in Procs, role'[c] = "first", ~Left(c)', c # p
          PROVE  role[c] = "first" /\ ~Left(c) /\ c \in readers["fifo1"]
      <4>1. role[c] = "first" /\ ~Left(c)
        BY <1>2, <3>1
      <4>2. ~Before(c)
        BY <2>1, <2>3, <4>1, Zenon
      <4>. QED  BY <2>2, <4>1, <4>2
    <3>2. CASE r = "first"
      <4>1. readers["fifo1"] = {}
        BY <1>3, <3>2
      <4>. QED  BY <2>3, <3>1, <4>1
    <3>3. CASE r # "first"
      <4>1. a # p /\ b # p
        BY <1>4, <2>3, <3>3
      <4>2. /\ role[a] = "first" /\ ~Left(a)
            /\ role[b] = "first" /\ ~Left(b)
        BY <2>3, <3>1, <4>1
      <4>3. ~raced
        BY <2>1, <2>3, Zenon
      <4>4. \A x, y \in Procs :
              role[x] = "first" /\ role[y] = "first" /\ ~Left(x) /\ ~Left(y) => x = y
        BY <2>3, <4>3, Zenon DEF FirstInv
      <4>. QED  BY <4>2, <4>4, Zenon
    <3>. QED  BY <3>2, <3>3
  <2>4. FirstInv => (~raced' => \A a, b \in Procs :
          role'[a] = "first" /\ role'[b] = "first" /\ ~Left(a)' /\ ~Left(b)' => a = b)
    BY <2>3, Zenon
  <2>. QED  BY <2>4, Zenon DEF FirstInv
<1>. QED  BY <1>5, <1>6, <1>7, <1>8, <1>9

-----------------------------------------------------------------------------
(* The types.                                                               *)
LEMMA EndsType ==
  /\ \A E \in [Fifos -> SUBSET Procs] : \A p \in Procs :
       Without(E, p) \in [Fifos -> SUBSET Procs]
  /\ FifoTypes => \A R, W \in [Fifos -> SUBSET Procs] : Emptied(R, W) \in [Fifos -> Seq(Pieces)]
<1>1. <<>> \in Seq(Pieces)
  OBVIOUS
<1>. QED  BY <1>1 DEF Without, Emptied, FifoTypes

LEMMA ReadKeepsTypes ==
  ASSUME FifoTypes, NEW p \in Procs, Read(p), UNCHANGED <<role, raced>>
  PROVE  FifoTypes'
<1> DEFINE s == pipe[rfd[p]]
<1>1. /\ at[p] = "loop" /\ UNCHANGED <<todo, rfd, wfd, readers, writers, cast, lines, left>>
      /\ s # <<>>
  BY DEF Read, ReadTo, fds
<1>2. PICK k \in 1..Len(s), cut \in BOOLEAN, typed \in BOOLEAN :
        /\ pipe' = [pipe EXCEPT ![rfd[p]] = IF cut THEN <<"rest">> \o SubSeq(s, k + 1, Len(s))
                                            ELSE SubSeq(s, k + 1, Len(s))]
        /\ at' = [at EXCEPT ![p] = IF typed THEN "write"
                                   ELSE IF s[1] = "exit" THEN "close rfd" ELSE "loop"]
        /\ missed' \in {missed, missed \cup {p}}
  BY DEF Read, ReadTo
<1>3. s \in Seq(Pieces) /\ rfd[p] \in Fifos
  BY DEF FifoTypes
<1>4. SubSeq(s, k + 1, Len(s)) \in Seq(Pieces)
  <2>1. \A i \in (k + 1)..Len(s) : s[i] \in Pieces
    BY <1>3, ElementOfSeq
  <2>2. k + 1 \in Int /\ Len(s) \in Int
    BY <1>3
  <2>. QED  BY <2>1, <2>2, SubSeqProperties
<1>5. <<"rest">> \o SubSeq(s, k + 1, Len(s)) \in Seq(Pieces)
  <2>1. <<"rest">> \in Seq(Pieces)
    BY DEF Pieces
  <2>. QED  BY <1>4, <2>1, ConcatProperties
<1> HIDE DEF s
<1>6. pipe' \in [Fifos -> Seq(Pieces)]
  BY <1>2, <1>3, <1>4, <1>5 DEF FifoTypes
<1>7. at' \in [Procs -> {"none", "new", "open", "blocked", "loop", "write", "close rfd",
                         "close wfd", "gone", "killed"}]
  BY <1>2 DEF FifoTypes
<1>8. missed' \subseteq Procs
  BY <1>2 DEF FifoTypes
<1>. QED  BY <1>1, <1>6, <1>7, <1>8 DEF FifoTypes

LEMMA WriteKeepsTypes ==
  ASSUME FifoTypes, RoleInv, NEW p \in Procs, Write(p), UNCHANGED <<role, raced>>
  PROVE  FifoTypes'
<1>1. /\ at[p] = "write" /\ lines' = [lines EXCEPT ![p] = @ + 1]
      /\ UNCHANGED <<todo, rfd, wfd, cast, missed>>
  BY DEF Write, WriteTo, fds
<1>2. PICK line \in Lines :
        \/ /\ pipe' = [pipe EXCEPT ![wfd[p]] = Append(@, line)]
           /\ \E x \in {"close rfd", "loop"} : at' = [at EXCEPT ![p] = x]
           /\ left' \in {left, left \cup {p}}
           /\ UNCHANGED <<readers, writers>>
        \/ /\ at' = [at EXCEPT ![p] = "killed"]
           /\ readers' = Without(readers, p) /\ writers' = Without(writers, p)
           /\ pipe' = Emptied(readers', writers')
           /\ left' = left
  BY DEF Write, WriteTo
<1>3. lines' \in [Procs -> 0..cast'.lines]
  <2>1. cast.lines \in Nat /\ cast' = cast
    BY <1>1, FifoAssumption DEF FifoTypes
  <2>2. lines[p] + 1 \in 0..cast.lines
    <3>1. lines[p] < cast.lines
      BY <1>1 DEF RoleInv
    <3>2. lines[p] \in 0..cast.lines
      BY DEF FifoTypes
    <3>. QED  BY <2>1, <3>1, <3>2
  <2>3. lines \in [Procs -> 0..cast.lines]
    BY DEF FifoTypes
  <2>. QED  BY <1>1, <2>1, <2>2, <2>3
<1>4. readers' \in [Fifos -> SUBSET Procs] /\ writers' \in [Fifos -> SUBSET Procs]
  <2>1. readers \in [Fifos -> SUBSET Procs] /\ writers \in [Fifos -> SUBSET Procs]
    BY DEF FifoTypes
  <2>2. \/ readers' = readers /\ writers' = writers
        \/ readers' = Without(readers, p) /\ writers' = Without(writers, p)
    BY <1>2
  <2>3. \A E \in [Fifos -> SUBSET Procs] : Without(E, p) \in [Fifos -> SUBSET Procs]
    BY EndsType
  <2>. QED  BY <2>1, <2>2, <2>3
<1>5. pipe' \in [Fifos -> Seq(Pieces)]
  <2>1. CASE pipe' = [pipe EXCEPT ![wfd[p]] = Append(@, line)]
    <3>1. line \in Pieces /\ wfd[p] \in Fifos
      BY DEF Pieces, FifoTypes
    <3>2. pipe[wfd[p]] \in Seq(Pieces)
      BY <3>1 DEF FifoTypes
    <3>3. Append(pipe[wfd[p]], line) \in Seq(Pieces)
      BY <3>1, <3>2
    <3>. QED  BY <2>1, <3>3 DEF FifoTypes
  <2>2. CASE pipe' = Emptied(readers', writers')
    BY <1>4, <2>2, EndsType
  <2>. QED  BY <1>2, <2>1, <2>2
<1>6. at' \in [Procs -> {"none", "new", "open", "blocked", "loop", "write", "close rfd",
                         "close wfd", "gone", "killed"}]
  BY <1>2 DEF FifoTypes
<1>7. left' \subseteq Procs
  BY <1>2 DEF FifoTypes
<1>. QED  BY <1>1, <1>3, <1>4, <1>5, <1>6, <1>7 DEF FifoTypes

LEMMA ChatKeepsTypes ==
  ASSUME FifoTypes, RoleInv, NEW p \in Procs, ChatStep(p), UNCHANGED <<role, raced>>
  PROVE  FifoTypes'
<1>1. CASE Typed(p)
  BY <1>1 DEF Typed, fds, user, FifoTypes
<1>2. CASE CloseRfd(p)
  <2>1. /\ at' = [at EXCEPT ![p] = "close wfd"] /\ readers' = Without(readers, p)
        /\ pipe' = Emptied(readers', writers)
        /\ UNCHANGED <<todo, rfd, wfd, writers, cast, lines, left, missed>>
    BY <1>2 DEF CloseRfd, fds, user
  <2>2. readers' \in [Fifos -> SUBSET Procs]
    BY <2>1, EndsType DEF FifoTypes
  <2>3. pipe' \in [Fifos -> Seq(Pieces)]
    BY <2>1, <2>2, EndsType DEF FifoTypes
  <2>. QED  BY <2>1, <2>2, <2>3 DEF FifoTypes
<1>3. CASE CloseWfd(p)
  <2>1. /\ at' = [at EXCEPT ![p] = "gone"] /\ writers' = Without(writers, p)
        /\ pipe' = Emptied(readers, writers')
        /\ UNCHANGED <<todo, rfd, wfd, readers, cast, lines, left, missed>>
    BY <1>3 DEF CloseWfd, fds, user
  <2>2. writers' \in [Fifos -> SUBSET Procs]
    BY <2>1, EndsType DEF FifoTypes
  <2>3. pipe' \in [Fifos -> Seq(Pieces)]
    BY <2>1, <2>2, EndsType DEF FifoTypes
  <2>. QED  BY <2>1, <2>2, <2>3 DEF FifoTypes
<1>. QED  BY <1>1, <1>2, <1>3, ReadKeepsTypes, WriteKeepsTypes DEF ChatStep

(* The calls of a role are open calls. *)
LEMMA TodoType ==
  ASSUME RoleInv', role' \in [Procs -> {"none", "first", "second"}],
         todo' = [q \in Procs |-> todo'[q]]
  PROVE  todo' \in [Procs -> Seq(OpenCall)]
<1>1. ASSUME NEW q \in Procs
      PROVE  todo'[q] \in Seq(OpenCall)
  <2>1. CASE at'[q] \in {"open", "blocked"}
    <3>1. role'[q] \in {"first", "second"}
      BY <2>1 DEF RoleInv
    <3>2. PICK m \in Modes : todo'[q] \in {Opens(role'[q], m), Tail(Opens(role'[q], m))}
      BY <2>1 DEF RoleInv, Opens
    <3>3. Opens(role'[q], m) \in Seq(OpenCall) /\ Tail(Opens(role'[q], m)) \in Seq(OpenCall)
      BY <3>1, Calls
    <3>. QED  BY <3>2, <3>3
  <2>2. CASE at'[q] \notin {"open", "blocked"}
    <3>1. todo'[q] = <<>>
      BY <2>2 DEF RoleInv
    <3>. QED  BY <3>1
  <2>. QED  BY <2>1, <2>2
<1>. QED  BY <1>1

LEMMA OpenKeepsTypes ==
  ASSUME FifoTypes, RoleInv, RoleInv', NEW p \in Procs, OpenNext(p), UNCHANGED <<role, raced>>
  PROVE  FifoTypes'
<1>1. /\ UNCHANGED <<rfd, wfd, pipe, cast, lines, left, missed>>
      /\ todo' = [q \in Procs |-> todo'[q]] /\ at' = [q \in Procs |-> at'[q]]
  BY DEF OpenNext, user
<1>2. todo' \in [Procs -> Seq(OpenCall)]
  BY <1>1, TodoType DEF FifoTypes
<1>3. \A q \in Procs : at'[q] \in {at[q], "open", "loop", "blocked"}
  BY OpenPlaces
<1>4. at' \in [Procs -> {"none", "new", "open", "blocked", "loop", "write", "close rfd",
                         "close wfd", "gone", "killed"}]
  <2>1. \A q \in Procs : at'[q] \in {"none", "new", "open", "blocked", "loop", "write", "close rfd",
                                     "close wfd", "gone", "killed"}
    BY <1>3 DEF FifoTypes
  <2>. QED  BY <1>1, <2>1
<1>5. readers' \in [Fifos -> SUBSET Procs] /\ writers' \in [Fifos -> SUBSET Procs]
  BY DEF OpenNext, FifoTypes
<1>. QED  BY <1>1, <1>2, <1>4, <1>5 DEF FifoTypes

LEMMA TestKeepsTypes ==
  ASSUME FifoTypes, RoleInv, RoleInv', NEW p \in Procs, Test(p)
  PROVE  FifoTypes'
<1>1. /\ UNCHANGED <<pipe, readers, cast, lines, left, missed>>
      /\ todo' = [q \in Procs |-> todo'[q]] /\ at' = [q \in Procs |-> at'[q]]
  BY DEF Test, user
<1>2. PICK r \in {"first", "second"} :
           /\ role' = [role EXCEPT ![p] = r]
           /\ rfd' = [rfd EXCEPT ![p] = IF r = "first" THEN "fifo1" ELSE "fifo2"]
           /\ wfd' = [wfd EXCEPT ![p] = IF r = "first" THEN "fifo2" ELSE "fifo1"]
           /\ writers' = IF r = "second" THEN [writers EXCEPT !["fifo1"] = @ \cup {p}] ELSE writers
  BY TestEffect
<1>3. role' \in [Procs -> {"none", "first", "second"}]
  BY <1>2 DEF FifoTypes
<1>4. todo' \in [Procs -> Seq(OpenCall)]
  BY <1>1, <1>3, TodoType
<1>5. \A q \in Procs : at'[q] \in {at[q], "open", "loop"}
  BY TestPlaces
<1>6. at' \in [Procs -> {"none", "new", "open", "blocked", "loop", "write", "close rfd",
                         "close wfd", "gone", "killed"}]
  <2>1. \A q \in Procs : at'[q] \in {"none", "new", "open", "blocked", "loop", "write", "close rfd",
                                     "close wfd", "gone", "killed"}
    BY <1>5 DEF FifoTypes
  <2>. QED  BY <1>1, <2>1
<1>7. writers' \in [Fifos -> SUBSET Procs]
  BY <1>2 DEF FifoTypes
<1>8. rfd' \in [Procs -> Fifos] /\ wfd' \in [Procs -> Fifos]
  BY <1>2 DEF FifoTypes, Fifos
<1>9. raced' \in BOOLEAN
  <2>1. raced' = (raced \/ \E q \in Procs : role[q] = "first" /\ at[q] = "open" /\ Len(todo[q]) = 2)
    BY DEF Test
  <2>. QED  BY <2>1, Zenon
<1>. QED  BY <1>1, <1>3, <1>4, <1>6, <1>7, <1>8, <1>9 DEF FifoTypes

-----------------------------------------------------------------------------
(* The invariant holds in every reachable state.                            *)

(* pls.c is the program of one user: it and pzs.c are the two ends. *)
OnePls ==
  \A c \in Casts : \A p, q \in Procs :
    c.program[p] = "pls" /\ c.program[q] = "pls" => p = q

LEMMA FifoStarts ==
  ASSUME Init
  PROVE  FifoInv /\ (OnePls => FirstInv)
<1>1. /\ cast \in Casts /\ pipe = [f \in Fifos |-> <<>>]
      /\ readers = [f \in Fifos |-> {}] /\ writers = [f \in Fifos |-> {}]
      /\ lines = [p \in Procs |-> 0] /\ left = {} /\ missed = {} /\ raced = FALSE
      /\ role = [p \in Procs |-> RoleOf(cast.program[p])]
      /\ at = [p \in Procs |-> CASE cast.program[p] = "none" -> "none"
                                 [] cast.program[p] = "123" -> "new"
                                 [] OTHER -> "open"]
      /\ todo = [p \in Procs |-> IF role[p] = "none" THEN <<>> ELSE Opens(role[p], "read")]
      /\ rfd = [p \in Procs |-> IF role[p] = "second" THEN "fifo2" ELSE "fifo1"]
      /\ wfd = [p \in Procs |-> IF role[p] = "second" THEN "fifo1" ELSE "fifo2"]
  BY DEF Init, ChatInit
<1>2. cast.program \in [Procs -> Programs] /\ cast.lines \in Nat
  BY <1>1, FifoAssumption
<1>3. ASSUME NEW p \in Procs
      PROVE  \/ role[p] = "first" /\ at[p] = "open" /\ cast.program[p] = "pls"
             \/ role[p] = "second" /\ at[p] = "open" /\ cast.program[p] = "pzs"
             \/ role[p] = "none" /\ at[p] \in {"none", "new"}
  <2>1. CASE cast.program[p] = "pls"
    BY <1>1, <2>1 DEF RoleOf
  <2>2. CASE cast.program[p] = "pzs"
    BY <1>1, <2>2 DEF RoleOf
  <2>3. CASE cast.program[p] = "123"
    BY <1>1, <2>3 DEF RoleOf
  <2>4. CASE cast.program[p] = "none"
    BY <1>1, <2>4 DEF RoleOf
  <2>. QED  BY <1>2, <2>1, <2>2, <2>3, <2>4 DEF Programs
<1>4. ASSUME NEW p \in Procs
      PROVE  /\ todo[p] \in Seq(OpenCall)
             /\ IF at[p] \in {"open", "blocked"}
                THEN \E m \in Modes : todo[p] \in {Opens(role[p], m), Tail(Opens(role[p], m))}
                ELSE todo[p] = <<>>
             /\ at[p] = "open" => Len(todo[p]) = 2
  <2>1. CASE role[p] = "none"
    <3>1. todo[p] = <<>> /\ at[p] \notin {"open", "blocked"}
      BY <1>1, <1>3, <2>1
    <3>. QED  BY <3>1
  <2>2. CASE role[p] # "none"
    <3>1. at[p] = "open" /\ role[p] \in {"first", "second"} /\ todo[p] = Opens(role[p], "read")
      BY <1>1, <1>3, <2>2
    <3>2. "read" \in Modes
      BY DEF Modes
    <3>3. Opens(role[p], "read") \in Seq(OpenCall) /\ Len(Opens(role[p], "read")) = 2
      BY <3>1, <3>2, Calls
    <3>. QED  BY <3>1, <3>2, <3>3
  <2>. QED  BY <2>1, <2>2
<1>5. FifoTypes
  <2>1. todo \in [Procs -> Seq(OpenCall)]
    BY <1>1, <1>4
  <2>2. /\ at \in [Procs -> {"none", "new", "open", "blocked", "loop", "write", "close rfd",
                             "close wfd", "gone", "killed"}]
        /\ role \in [Procs -> {"none", "first", "second"}]
    <3>1. \A p \in Procs :
            at[p] \in {"none", "new", "open"} /\ role[p] \in {"none", "first", "second"}
      BY <1>3
    <3>. QED  BY <1>1, <3>1
  <2>3. rfd \in [Procs -> Fifos] /\ wfd \in [Procs -> Fifos]
    BY <1>1 DEF Fifos
  <2>4. /\ pipe \in [Fifos -> Seq(Pieces)] /\ readers \in [Fifos -> SUBSET Procs]
        /\ writers \in [Fifos -> SUBSET Procs] /\ lines \in [Procs -> 0..cast.lines]
    <3>1. <<>> \in Seq(Pieces) /\ 0 \in 0..cast.lines
      BY <1>2
    <3>. QED  BY <1>1, <3>1
  <2>5. left \subseteq Procs /\ missed \subseteq Procs /\ raced \in BOOLEAN /\ cast \in Casts
    BY <1>1
  <2>. QED  BY <2>1, <2>2, <2>3, <2>4, <2>5 DEF FifoTypes
<1>6. RoleInv
  <2>1. SUFFICES ASSUME NEW p \in Procs
                 PROVE  /\ role[p] = "none" <=> at[p] \in {"none", "new"}
                        /\ role[p] = "first" => rfd[p] = "fifo1" /\ wfd[p] = "fifo2"
                        /\ role[p] = "second" => rfd[p] = "fifo2" /\ wfd[p] = "fifo1"
                        /\ rfd[p] = "fifo1" \/ role[p] = "second"
                        /\ IF at[p] \in {"open", "blocked"}
                           THEN \E m \in Modes : todo[p] \in {Opens(role[p], m),
                                                              Tail(Opens(role[p], m))}
                           ELSE todo[p] = <<>>
                        /\ at[p] = "write" => lines[p] < cast.lines
    BY DEF RoleInv
  <2>2. (role[p] = "none" <=> at[p] \in {"none", "new"}) /\ at[p] # "write"
    BY <1>3
  <2>3. /\ role[p] = "first" => rfd[p] = "fifo1" /\ wfd[p] = "fifo2"
        /\ role[p] = "second" => rfd[p] = "fifo2" /\ wfd[p] = "fifo1"
        /\ rfd[p] = "fifo1" \/ role[p] = "second"
    BY <1>1
  <2>. QED  BY <1>4, <2>2, <2>3
<1>7. EndsInv
  <2>1. ASSUME NEW p \in Procs
        PROVE  /\ p \notin readers["fifo1"] /\ p \notin readers["fifo2"]
               /\ ~InFifo1(p) /\ ~InFifo2(p) /\ at[p] # "close wfd"
    <3>1. p \notin readers["fifo1"] /\ p \notin readers["fifo2"]
      BY <1>1 DEF Fifos
    <3>2. at[p] \in {"none", "new"} \/ (at[p] = "open" /\ Len(todo[p]) = 2)
      BY <1>3, <1>4
    <3>3. ~Chats(p)
      BY <1>3 DEF Chats
    <3>4. ~InFifo1(p) /\ ~InFifo2(p)
      BY <3>2, <3>3 DEF InFifo1, InFifo2
    <3>5. at[p] # "close wfd"
      BY <1>3
    <3>. QED  BY <3>1, <3>4, <3>5
  <2>. QED  BY <2>1 DEF EndsInv
<1>8. WaitInv
  BY <1>3 DEF WaitInv
<1>9. FoundInv
  BY <1>3 DEF FoundInv
<1>10. OnePls => FirstInv
  <2>1. ASSUME OnePls, NEW p \in Procs, NEW q \in Procs, role[p] = "first", role[q] = "first"
        PROVE  p = q
    <3>1. cast.program[p] = "pls" /\ cast.program[q] = "pls"
      BY <1>3, <2>1
    <3>. QED  BY <1>1, <2>1, <3>1 DEF OnePls
  <2>. QED  BY <2>1, Zenon DEF FirstInv
<1>. QED  BY <1>5, <1>6, <1>7, <1>8, <1>9, <1>10 DEF FifoInv

LEMMA FifoSteps ==
  ASSUME FifoInv, [Next]_vars
  PROVE  FifoInv' /\ (FirstInv => FirstInv')
<1>1. FifoTypes /\ RoleInv /\ EndsInv /\ WaitInv /\ FoundInv
  BY DEF FifoInv
<1>2. ASSUME NEW p \in Procs, Test(p)
      PROVE  FifoInv' /\ (FirstInv => FirstInv')
  <2>1. RoleInv' /\ EndsInv' /\ WaitInv' /\ FoundInv' /\ (FirstInv => FirstInv')
    BY <1>2, TestKeeps
  <2>2. FifoTypes'
    BY <1>1, <1>2, <2>1, TestKeepsTypes
  <2>. QED  BY <2>1, <2>2 DEF FifoInv
<1>3. ASSUME NEW p \in Procs, OpenNext(p), UNCHANGED <<role, raced>>
      PROVE  FifoInv' /\ (FirstInv => FirstInv')
  <2>1. RoleInv' /\ EndsInv' /\ WaitInv' /\ FoundInv' /\ (FirstInv => FirstInv')
    BY <1>3, OpenKeeps
  <2>2. FifoTypes'
    BY <1>1, <1>3, <2>1, OpenKeepsTypes
  <2>. QED  BY <2>1, <2>2 DEF FifoInv
<1>4. ASSUME NEW p \in Procs, ChatStep(p), UNCHANGED <<role, raced>>
      PROVE  FifoInv' /\ (FirstInv => FirstInv')
  <2>1. RoleInv' /\ EndsInv' /\ WaitInv' /\ FoundInv' /\ (FirstInv => FirstInv')
    BY <1>4, ChatKeeps
  <2>2. FifoTypes'
    BY <1>1, <1>4, ChatKeepsTypes
  <2>. QED  BY <2>1, <2>2 DEF FifoInv
<1>5. CASE UNCHANGED vars
  <2>1. UNCHANGED <<cast, at, todo, rfd, wfd, pipe, readers, writers, lines, left, missed,
                    role, raced>>
    BY <1>5 DEF vars, chatVars, fds, user
  <2>2. FifoTypes' /\ RoleInv' /\ EndsInv' /\ WaitInv'
    <3>1. FifoTypes'
      BY <1>1, <2>1 DEF FifoTypes
    <3>2. RoleInv'
      BY <1>1, <2>1 DEF RoleInv, Opens
    <3>3. EndsInv'
      BY <1>1, <2>1 DEF EndsInv, InFifo1, InFifo2, Chats
    <3>4. WaitInv'
      BY <1>1, <2>1 DEF WaitInv
    <3>. QED  BY <3>1, <3>2, <3>3, <3>4
  <2>3. FoundInv'
    BY <1>1, <2>1 DEF FoundInv, Before
  <2>4. FirstInv => FirstInv'
    <3>1. \A q \in Procs : Left(q) => Left(q)'
      BY <2>1 DEF Left
    <3>. QED  BY <2>1, <3>1, FirstStays
  <2>. QED  BY <2>2, <2>3, <2>4 DEF FifoInv
<1>6. ASSUME NEW p \in Procs, Step(p)
      PROVE  FifoInv' /\ (FirstInv => FirstInv')
  BY <1>3, <1>4, <1>6 DEF Step, ChatStep
<1>. QED  BY <1>2, <1>5, <1>6 DEF Next, Wait

(* The invariant that says who is at which of its two open calls and whom it
   found, for any processes and programs. *)
THEOREM FifoInvariance == Spec => []FifoInv
<1>1. Init => FifoInv
  BY FifoStarts
<1>2. FifoInv /\ [Next]_vars => FifoInv'
  BY FifoSteps
<1>. QED  BY <1>1, <1>2, PTL DEF Spec

(* Types, and that a process in the loop has its two ends open: select, read
   and write of pls.c, pzs.c and 123.c are called on open descriptors. *)
THEOREM FifoTypeCorrect == Spec => []TypeOK
<1>1. FifoInv => TypeOK
  BY TypesFollow DEF FifoInv
<1>. QED  BY <1>1, FifoInvariance, PTL

(* A second 123 that waits for fifo1 to be opened found a client that has since
   gone: the O_NONBLOCK test of 123.c had told it that there was one. *)
THEOREM OnlyDepartureStrands == Spec => []StrandedByDeparture
<1>1. FifoInv => StrandedByDeparture
  <2>1. SUFFICES ASSUME FifoInv, NEW p \in Procs, cast.program[p] = "123", role[p] = "second",
                        at[p] = "blocked", Len(todo[p]) = 2
                 PROVE  \E q \in Procs \ {p} :
                          role[q] = "first" /\ at[q] \in {"close wfd"} \cup Outside
    BY DEF StrandedByDeparture
  <2>2. FifoTypes /\ RoleInv /\ EndsInv /\ WaitInv /\ FoundInv
    BY <2>1 DEF FifoInv
  <2>3. PICK q \in Procs \ {p} : role[q] = "first" /\ ~Before(q)
    BY <2>1, <2>2 DEF FoundInv
  <2>4. q \notin readers["fifo1"]
    BY <2>1, <2>2 DEF WaitInv
  <2>5. ~InFifo1(q)
    BY <2>2, <2>3, <2>4 DEF EndsInv
  <2>6. Left(q)
    BY <2>2, <2>3, <2>5, FirstReads
  <2>. QED  BY <2>3, <2>6 DEF Left
<1>. QED  BY <1>1, FifoInvariance, PTL

(* While no 123 makes its test before the first reader has opened fifo1, one
   process at most reads it, whatever the order in which they come and go; the
   fixed ends of pls.c are for one. *)
THEOREM OneReader ==
  ASSUME OnePls
  PROVE  Spec => []OneFirst
<1>1. Init => FifoInv /\ FirstInv
  BY OnePls, FifoStarts
<1>2. FifoInv /\ FirstInv /\ [Next]_vars => FifoInv' /\ FirstInv'
  BY FifoSteps
<1>3. FifoInv /\ FirstInv => OneFirst
  <2>1. ASSUME FifoInv, FirstInv, ~raced
        PROVE  Cardinality(readers["fifo1"]) <= 1
    <3>1. FifoTypes /\ EndsInv
      BY <2>1 DEF FifoInv
    <3>2. readers["fifo1"] \subseteq Procs
      BY <3>1 DEF FifoTypes, Fifos
    <3>3. ASSUME NEW p \in readers["fifo1"]
          PROVE  p \in Procs /\ role[p] = "first" /\ ~Left(p)
      <4>1. p \in Procs /\ role[p] = "first" /\ InFifo1(p)
        BY <3>1, <3>2 DEF EndsInv
      <4>. QED  BY <4>1, ReadersStay
    <3>4. ASSUME NEW p \in readers["fifo1"], NEW q \in readers["fifo1"]
          PROVE  p = q
      <4>1. \A a, b \in Procs :
              role[a] = "first" /\ role[b] = "first" /\ ~Left(a) /\ ~Left(b) => a = b
        BY <2>1, Zenon DEF FirstInv
      <4>. QED  BY <3>3, <4>1, Zenon
    <3>. QED  BY <3>4, AtMostOne
  <2>. QED  BY <2>1, Zenon DEF OneFirst
<1>. QED  BY <1>1, <1>2, <1>3, PTL DEF Spec
=============================================================================
