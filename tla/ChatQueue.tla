------------------------------ MODULE ChatQueue ------------------------------
(***************************************************************************)
(* pid/pipemsg/pro2.c: a chat over one System V message queue.  For each   *)
(* user a parent sends what is typed, with the number of the group as its  *)
(* type, and a child receives what there is for the group; a message under *)
(* its own name is put back, at the end of the queue, for somebody else.   *)
(***************************************************************************)
EXTENDS Naturals, Sequences, FiniteSets, SequencesExt

CONSTANTS
  Users,
  Group, Name,     \* what each user enters
  Capacity,        \* messages the queue has room for
  MaxMsgs,         \* bound: messages each user types
  Interrupters,    \* bound: users who hit control-C, once each
  Nobody

ASSUME QueueAssumption ==
  /\ IsFiniteSet(Users) /\ Nobody \notin Users
  /\ Capacity \in Nat \ {0} /\ MaxMsgs \in [Users -> Nat] /\ Interrupters \subseteq Users

Msg == UNION {[from : {u}, n : 1..MaxMsgs[u]] : u \in Users}
None == [from |-> Nobody, n |-> 0]

VARIABLES
  queue,
  parent,        \* "new", "type", "send", "gone"
  child,         \* "none", "receive", "put back", "dead"
  asking,        \* which of the two are asking whether to quit
  sent,          \* messages each parent has sent
  held,          \* the message each child is to put back
  shown,         \* the messages each child has printed
  lost,          \* messages that died with a process or a call
  recycled,      \* users with a message that was put back
  interrupted    \* users who have hit control-C

queueVars == <<queue, parent, child, asking, sent, held, shown, lost, recycled, interrupted>>

QueueTypeOK ==
  /\ queue \in Seq(Msg) /\ Len(queue) <= Capacity
  /\ parent \in [Users -> {"new", "type", "send", "gone"}]
  /\ child \in [Users -> {"none", "receive", "put back", "dead"}]
  /\ asking \in [Users -> SUBSET {"parent", "child"}]
  /\ sent \in [Users -> Nat] /\ \A u \in Users : sent[u] <= MaxMsgs[u]
  /\ held \in [Users -> Msg \cup {None}]
  /\ \A u \in Users : held[u] # None <=> child[u] = "put back"
  /\ shown \in [Users -> Seq(Msg)]
  /\ lost \subseteq Msg /\ recycled \subseteq Users
  /\ interrupted \subseteq Interrupters

QueueInit ==
  /\ queue = <<>>
  /\ parent = [u \in Users |-> "new"] /\ child = [u \in Users |-> "none"]
  /\ asking = [u \in Users |-> {}]
  /\ sent = [u \in Users |-> 0]
  /\ held = [u \in Users |-> None] /\ shown = [u \in Users |-> <<>>]
  /\ lost = {} /\ recycled = {} /\ interrupted = {}

Full == Len(queue) >= Capacity

\* The user enters group and name, and the program forks.
Start(u) ==
  /\ parent[u] = "new"
  /\ parent' = [parent EXCEPT ![u] = "type"]
  /\ child' = [child EXCEPT ![u] = "receive"]
  /\ UNCHANGED <<queue, asking, sent, held, shown, lost, recycled, interrupted>>

-----------------------------------------------------------------------------
(* The parent.                                                              *)

\* fgets.
Type(u) ==
  /\ parent[u] = "type" /\ "parent" \notin asking[u]
  /\ sent[u] < MaxMsgs[u]
  /\ parent' = [parent EXCEPT ![u] = "send"]
  /\ UNCHANGED <<queue, child, asking, sent, held, shown, lost, recycled, interrupted>>

\* msgsnd waits while the queue is full; after `886...' the parent asks.
Send(u) ==
  /\ parent[u] = "send" /\ "parent" \notin asking[u]
  /\ ~Full
  /\ sent' = [sent EXCEPT ![u] = @ + 1]
  /\ queue' = Append(queue, [from |-> u, n |-> sent'[u]])
  /\ parent' = [parent EXCEPT ![u] = "type"]
  /\ \/ UNCHANGED asking
     \/ asking' = [asking EXCEPT ![u] = @ \cup {"parent"}]
  /\ UNCHANGED <<child, held, shown, lost, recycled, interrupted>>

-----------------------------------------------------------------------------
(* The child.                                                               *)

ForGroup(u) == {i \in 1..Len(queue) : Group[queue[i].from] = Group[u]}

\* Seeded fault: any message of the group may be taken.
AnyOf(u) == ForGroup(u)

\* Seeded fault: the type asked for is not the one that is sent.
FirstOfOthers(u) == {}

\* msgrcv takes the first of the type.
First(u) == {i \in ForGroup(u) : \A j \in ForGroup(u) : i <= j}

Own(u, m) == Name[m.from] = Name[u]

Receive(u) ==
  /\ child[u] = "receive" /\ "child" \notin asking[u]
  /\ \E i \in First(u) :
       /\ queue' = RemoveAt(queue, i)
       /\ IF Own(u, queue[i])
          THEN /\ child' = [child EXCEPT ![u] = "put back"]
               /\ held' = [held EXCEPT ![u] = queue[i]]
               /\ UNCHANGED shown
          ELSE /\ shown' = [shown EXCEPT ![u] = Append(@, queue[i])]
               /\ UNCHANGED <<child, held>>
  /\ UNCHANGED <<parent, asking, sent, lost, recycled, interrupted>>

\* Seeded fault: `continue' is left out, and the message printed as well.
PutBackShows(u) ==
  /\ child[u] = "put back" /\ "child" \notin asking[u]
  /\ ~Full
  /\ queue' = Append(queue, held[u])
  /\ shown' = [shown EXCEPT ![u] = Append(@, held[u])]
  /\ child' = [child EXCEPT ![u] = "receive"]
  /\ held' = [held EXCEPT ![u] = None]
  /\ recycled' = recycled \cup {held[u].from}
  /\ UNCHANGED <<parent, asking, sent, lost, interrupted>>

PutBack(u) ==
  /\ child[u] = "put back" /\ "child" \notin asking[u]
  /\ ~Full
  /\ queue' = Append(queue, held[u])
  /\ child' = [child EXCEPT ![u] = "receive"]
  /\ held' = [held EXCEPT ![u] = None]
  /\ recycled' = recycled \cup {held[u].from}
  /\ UNCHANGED <<parent, asking, sent, shown, lost, interrupted>>

-----------------------------------------------------------------------------
(* fun_ctrl_c.                                                              *)

\* The terminal signals both processes; once the parent has ended, neither.
Interrupt(u) ==
  /\ parent[u] \in {"type", "send"} /\ asking[u] = {}
  /\ u \in Interrupters \ interrupted /\ interrupted' = interrupted \cup {u}
  /\ asking' = [asking EXCEPT ![u] =
       {"parent"} \cup IF child[u] = "dead" THEN {} ELSE {"child"}]
  /\ UNCHANGED <<queue, parent, child, sent, held, shown, lost, recycled>>

HeldBy(u) == IF held[u] = None THEN {} ELSE {held[u]}

ChildEnds(u, state) ==
  /\ child' = [child EXCEPT ![u] = state]
  /\ held' = [held EXCEPT ![u] = None]
  /\ lost' = lost \cup HeldBy(u)

(* A call that the signal interrupted fails when the handler returns: a failed
   msgrcv ends the child, and a failed msgsnd loses its message, the parent's
   before it was counted.  A signal that comes just before a call interrupts
   none.  The answer y ends the process that reads it, and no other. *)
AnswerParent(u) ==
  /\ "parent" \in asking[u]
  /\ asking' = [asking EXCEPT ![u] = @ \ {"parent"}]
  /\ parent' \in {[parent EXCEPT ![u] = s] : s \in {parent[u], "type", "gone"}}
  /\ UNCHANGED <<queue, child, sent, held, shown, lost, recycled, interrupted>>

AnswerChild(u) ==
  /\ "child" \in asking[u]
  /\ asking' = [asking EXCEPT ![u] = @ \ {"child"}]
  /\ \/ UNCHANGED <<child, held, lost>>
     \/ ChildEnds(u, "dead")
     \/ child[u] = "put back" /\ ChildEnds(u, "receive")
  /\ UNCHANGED <<queue, parent, sent, shown, recycled, interrupted>>

-----------------------------------------------------------------------------
\* A user need not start, type or answer; a child waits for a message.
AllWait == (\A u \in Users : child[u] # "put back" \/ Full) /\ UNCHANGED queueVars

QueueNext ==
  \/ \E u \in Users : \/ Start(u) \/ Type(u) \/ Send(u) \/ Receive(u) \/ PutBack(u)
                      \/ Interrupt(u) \/ AnswerParent(u) \/ AnswerChild(u)
  \/ AllWait

(* A sleeping msgrcv is handed the next message of its type, and a sleeping
   msgsnd the next room: the kernel serves them in turn, so that another child
   that takes a message and puts it back cannot keep them from it for ever.
   Nothing is assumed of the parents, whose users may go away. *)
QueueSpec ==
  /\ QueueInit /\ [][QueueNext]_queueVars
  /\ \A u \in Users : SF_queueVars(Receive(u) \/ PutBack(u))

-----------------------------------------------------------------------------
InQueue(m) == {i \in 1..Len(queue) : queue[i] = m}
InHand(m) == {u \in Users : held[u] = m}
ShownAt(m) == UNION {{u} \X {i \in 1..Len(shown[u]) : shown[u][i] = m} : u \in Users}

(* However often it is put back and whoever quits, a message is at exactly one
   place: in the queue, in the hands of one child, or printed by one child,
   once.  Only an interrupted child loses one. *)
OnePlace ==
  \A m \in Msg :
    Cardinality(InQueue(m)) + Cardinality(InHand(m)) + Cardinality(ShownAt(m))
      = (IF m.n <= sent[m.from] /\ m \notin lost THEN 1 ELSE 0)

(* What is printed of one sender is in the order it was sent, unless a child
   of the same name got hold of one and put it back behind the others. *)
OrderKept ==
  \A u \in Users : \A i, j \in 1..Len(shown[u]) :
    i < j /\ shown[u][i].from = shown[u][j].from /\ shown[u][i].from \notin recycled =>
      shown[u][i].n < shown[u][j].n

(* The queue is full, a child has a message to put back, and no child that
   receives finds one for its group: those who should have taken what is there
   are themselves putting back, or have ended, or never were. *)
Jam ==
  /\ Full
  /\ \A u \in Users : child[u] = "receive" => ForGroup(u) = {}
  /\ \E u \in Users : child[u] = "put back"

(* A message is printed in the end if another name in the group only listens,
   unless the queue jams, for which another group without receivers is enough.
   (With two names that send, it need not be: each child may take its own
   message whenever it is the first and put it back, the two in turn, for
   ever.) *)
Listens(v) == \A u \in Users : Name[u] = Name[v] => sent[u] = 0

Others(u) == {v \in Users : Group[v] = Group[u] /\ Name[v] # Name[u]}

Delivered ==
  \A m \in Msg : \A v \in Others(m.from) :
    InQueue(m) # {} /\ child[v] = "receive" ~>
      ShownAt(m) # {} \/ m \in lost \/ ~Listens(v) \/ child[v] = "dead" \/ Jam
        \/ \E u \in Users : "child" \in asking[u]
=============================================================================
