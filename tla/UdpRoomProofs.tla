---------------------------- MODULE UdpRoomProofs ----------------------------
(***************************************************************************)
(* The UDP chat, for any clients, datagrams, logins and losses: on a       *)
(* reliable network the list of s.c is exactly the clients in the room,    *)
(* and on any network the loops over the list implement Room.  The         *)
(* invariant of the first orders what a client has under way: what comes   *)
(* before a login leaves its address off the list, what comes before a     *)
(* quit leaves it on.  The second counts the copies of a datagram by the   *)
(* nodes of the list the loop has yet to pass.                             *)
(***************************************************************************)
EXTENDS UdpRoom, FiniteSetTheorems, SequenceTheorems, TLAPS

USE UdpAssumption

(* The loop over the list for a quit has left no node of the sender behind. *)
LoopInv ==
  /\ msg = NoMsg => p = 0
  /\ msg # NoMsg /\ msg.type = "Q" => \A i \in 1..p : list[i] # msg.from

NumberInv ==
  /\ \A x \in net : x.n <= sent
  /\ \A x, y \in net : x.n = y.n => x = y

(* The addresses on the list, and what comes of the logins and quits S of c:
   the last decides, or without any whether c is in R. *)
Present == {c \in ToSet(list) : ~(msg # NoMsg /\ msg.type = "Q" /\ msg.from = c)}
Moves(c) == {x \in net : x.from = c /\ x.type \in {"L", "Q"}}

Result(S, c, R, t) ==
  \/ S = {} /\ t = IF c \in R THEN "L" ELSE "Q"
  \/ \E y \in S : y.type = t /\ \A z \in S : z.n <= y.n

(* Moves S that take turns from whether c is in R and end with a t. *)
TakeTurns(S, c, R, t) ==
  /\ Result(S, c, R, t)
  /\ \A x \in S :
       Result({y \in S : y.n < x.n}, c, R, IF x.type = "L" THEN "Q" ELSE "L")

PresenceInv ==
  Reliable =>
    /\ IsInjective(list)
    /\ \A c \in Clients :
         TakeTurns(Moves(c), c, Present, IF phase[c] = "in" THEN "L" ELSE "Q")

RoomInv == TypeOK /\ LoopInv /\ NumberInv /\ PresenceInv

-----------------------------------------------------------------------------
(* Datagrams, and sequences.                                                *)
LEMMA MsgShape ==
  /\ \A m \in Messages : m.n \in 1..MaxSent /\ m.n \in Nat /\ m # NoMsg
  /\ \A m \in Messages : m.from \in Senders /\ m.type \in {"L", "B", "Q"}
  /\ \A m \in Messages : m.type # "B" => m.from \in Clients
  /\ \A c \in Clients, t \in {"L", "B", "Q"}, n \in 1..MaxSent :
       [type |-> t, from |-> c, n |-> n] \in Messages
  /\ \A n \in 1..MaxSent : [type |-> "B", from |-> Server, n |-> n] \in Messages
BY DEF Messages, Senders

\* RemoveAt takes one element out, and a new one goes before the others.
LEMMA RemovedSeq ==
  ASSUME NEW S, NEW s \in Seq(S), NEW i \in 1..Len(s)
  PROVE  /\ RemoveAt(s, i) \in Seq(S) /\ Len(RemoveAt(s, i)) = Len(s) - 1
         /\ \A j \in 1..(Len(s) - 1) :
              RemoveAt(s, i)[j] = s[IF j < i THEN j ELSE j + 1]
<1> DEFINE before == SubSeq(s, 1, i - 1)
           after == SubSeq(s, i + 1, Len(s))
<1>1. Len(s) \in Nat /\ i \in Nat /\ 1 <= i /\ i <= Len(s)
  OBVIOUS
<1>2. /\ before \in Seq(S) /\ Len(before) = i - 1
      /\ \A j \in 1..(i - 1) : before[j] = s[j]
  BY <1>1
<1>3. /\ after \in Seq(S) /\ Len(after) = Len(s) - i
      /\ \A j \in 1..(Len(s) - i) : after[j] = s[j + i]
  BY <1>1
<1>4. RemoveAt(s, i) = before \o after
  BY DEF RemoveAt
<1> HIDE DEF before, after
<1>5. /\ before \o after \in Seq(S) /\ Len(before \o after) = Len(s) - 1
      /\ \A j \in 1..(Len(s) - 1) :
           (before \o after)[j] = IF j <= i - 1 THEN before[j] ELSE after[j - (i - 1)]
  <2>1. Len(before) + Len(after) = Len(s) - 1
    BY <1>1, <1>2, <1>3
  <2>2. /\ before \o after \in Seq(S) /\ Len(before \o after) = Len(before) + Len(after)
        /\ \A j \in 1..(Len(before) + Len(after)) :
             (before \o after)[j] =
                IF j <= Len(before) THEN before[j] ELSE after[j - Len(before)]
    <3>1. before \in Seq(S) /\ after \in Seq(S)
      BY <1>2, <1>3
    <3>. QED  BY <3>1, ConcatProperties, Zenon
  <2>. QED  BY <1>2, <2>1, <2>2, Zenon
<1>6. ASSUME NEW j \in 1..(Len(s) - 1)
      PROVE  (before \o after)[j] = s[IF j < i THEN j ELSE j + 1]
  <2>1. CASE j < i
    BY <2>1, <1>1, <1>2, <1>5
  <2>2. CASE ~(j < i)
    <3>1. j - (i - 1) \in 1..(Len(s) - i) /\ j - (i - 1) + i = j + 1
      BY <2>2, <1>1
    <3>2. after[j - (i - 1)] = s[j + 1]
      BY <3>1, <1>3
    <3>. QED  BY <2>2, <3>2, <1>1, <1>5
  <2>. QED  BY <2>1, <2>2
<1>. QED  BY <1>4, <1>5, <1>6

LEMMA RemovedElements ==
  ASSUME NEW S, NEW s \in Seq(S), NEW i \in 1..Len(s)
  PROVE  /\ \A x : x # s[i] => (x \in ToSet(RemoveAt(s, i)) <=> x \in ToSet(s))
         /\ IsInjective(s) => IsInjective(RemoveAt(s, i))
<1> DEFINE r == RemoveAt(s, i)
<1>1. /\ r \in Seq(S) /\ Len(r) = Len(s) - 1 /\ Len(s) \in Nat
      /\ \A j \in 1..(Len(s) - 1) : r[j] = s[IF j < i THEN j ELSE j + 1]
  BY RemovedSeq
<1> HIDE DEF r
<1>2. DOMAIN r = 1..(Len(s) - 1) /\ DOMAIN s = 1..Len(s)
  BY <1>1
<1>3. ASSUME NEW j \in 1..(Len(s) - 1)
      PROVE  (IF j < i THEN j ELSE j + 1) \in 1..Len(s) \ {i}
  BY <1>1
<1>4. ASSUME NEW k \in 1..Len(s), k # i
      PROVE  \E j \in 1..(Len(s) - 1) : r[j] = s[k]
  <2>1. CASE k < i
    BY <1>1, <1>4, <2>1
  <2>2. CASE k > i
    <3>1. k - 1 \in 1..(Len(s) - 1) /\ ~(k - 1 < i) /\ (k - 1) + 1 = k
      BY <1>1, <2>2
    <3>2. r[k - 1] = s[k]
      BY <1>1, <3>1
    <3>. QED  BY <3>1, <3>2
  <2>. QED  BY <1>1, <1>4, <2>1, <2>2
<1>5. ASSUME NEW x, x # s[i]
      PROVE  x \in ToSet(r) <=> x \in ToSet(s)
  <2>1. x \in ToSet(r) => x \in ToSet(s)
    BY <1>1, <1>2, <1>3 DEF ToSet
  <2>2. x \in ToSet(s) => x \in ToSet(r)
    BY <1>2, <1>4, <1>5 DEF ToSet
  <2>. QED  BY <2>1, <2>2
<1>6. ASSUME IsInjective(s) PROVE IsInjective(r)
  <2>1. ASSUME NEW j \in 1..(Len(s) - 1), NEW k \in 1..(Len(s) - 1), r[j] = r[k]
        PROVE  j = k
    <3>1. s[IF j < i THEN j ELSE j + 1] = s[IF k < i THEN k ELSE k + 1]
      BY <1>1, <2>1
    <3>2. (IF j < i THEN j ELSE j + 1) = (IF k < i THEN k ELSE k + 1)
      BY <1>2, <1>3, <1>6, <3>1 DEF IsInjective
    <3>. QED  BY <1>1, <3>2
  <2>. QED  BY <1>2, <2>1 DEF IsInjective
<1>. QED  BY <1>5, <1>6 DEF r

LEMMA PushedSeq ==
  ASSUME NEW S, NEW s \in Seq(S), NEW c \in S
  PROVE  /\ <<c>> \o s \in Seq(S) /\ Len(<<c>> \o s) = Len(s) + 1
         /\ (<<c>> \o s)[1] = c /\ \A i \in 1..Len(s) : (<<c>> \o s)[i + 1] = s[i]
         /\ ToSet(<<c>> \o s) = ToSet(s) \cup {c}
         /\ IsInjective(s) /\ c \notin ToSet(s) => IsInjective(<<c>> \o s)
<1> DEFINE r == <<c>> \o s
<1>1. /\ r \in Seq(S) /\ Len(r) = Len(s) + 1 /\ Len(s) \in Nat
      /\ r[1] = c /\ \A i \in 1..Len(s) : r[i + 1] = s[i]
  <2>1. <<c>> \in Seq(S) /\ Len(<<c>>) = 1 /\ <<c>>[1] = c
    OBVIOUS
  <2>. QED  BY <2>1, ConcatProperties
<1> HIDE DEF r
<1>2. DOMAIN r = 1..(Len(s) + 1) /\ DOMAIN s = 1..Len(s)
  BY <1>1
<1>3. ASSUME NEW j \in 1..(Len(s) + 1), j # 1
      PROVE  j - 1 \in 1..Len(s) /\ r[j] = s[j - 1]
  <2>1. j - 1 \in 1..Len(s) /\ (j - 1) + 1 = j
    BY <1>1, <1>3
  <2>. QED  BY <1>1, <2>1
<1>4. ToSet(r) = ToSet(s) \cup {c}
  <2>1. \A j \in 1..Len(s) : j + 1 \in 1..(Len(s) + 1)
    BY <1>1
  <2>2. 1 \in 1..(Len(s) + 1)
    BY <1>1
  <2>3. c \in ToSet(r)
    BY <1>1, <1>2, <2>2 DEF ToSet
  <2>4. ToSet(s) \subseteq ToSet(r)
    BY <1>1, <1>2, <2>1 DEF ToSet
  <2>5. ToSet(r) \subseteq ToSet(s) \cup {c}
    <3>1. ASSUME NEW j \in 1..(Len(s) + 1) PROVE r[j] \in ToSet(s) \cup {c}
      <4>1. CASE j = 1
        BY <1>1, <4>1
      <4>2. CASE j # 1
        BY <1>2, <1>3, <4>2 DEF ToSet
      <4>. QED  BY <4>1, <4>2
    <3>. QED  BY <1>2, <3>1 DEF ToSet
  <2>. QED  BY <2>3, <2>4, <2>5
<1>5. ASSUME IsInjective(s), c \notin ToSet(s) PROVE IsInjective(r)
  <2>1. ASSUME NEW j \in 1..(Len(s) + 1), NEW k \in 1..(Len(s) + 1), r[j] = r[k]
        PROVE  j = k
    <3>1. \A i \in 1..Len(s) : s[i] # c
      BY <1>2, <1>5 DEF ToSet
    <3>2. CASE j # 1 /\ k # 1
      <4>1. s[j - 1] = s[k - 1] /\ j - 1 \in 1..Len(s) /\ k - 1 \in 1..Len(s)
        BY <1>3, <2>1, <3>2
      <4>2. j - 1 = k - 1
        BY <1>2, <1>5, <4>1 DEF IsInjective
      <4>. QED  BY <4>2
    <3>. QED  BY <1>1, <1>3, <2>1, <3>1, <3>2
  <2>. QED  BY <1>2, <2>1 DEF IsInjective
<1>. QED  BY <1>1, <1>4, <1>5 DEF r

-----------------------------------------------------------------------------
(* Types, numbers, and where the loop is.                                   *)
BaseInv == TypeOK /\ LoopInv /\ NumberInv

\* What is sent is a new datagram, with the highest number.
LEMMA Sending ==
  ASSUME BaseInv, NEW a, NEW t, SendToServer(a, t),
         (a \in Clients /\ t \in {"L", "B", "Q"}) \/ (a = Server /\ t = "B")
  PROVE  \E m \in Messages :
           /\ m = [type |-> t, from |-> a, n |-> sent + 1]
           /\ net' = net \cup {m} /\ m \notin net /\ \A x \in net : x.n < m.n
           /\ sent' = m.n /\ sent' \in 0..MaxSent /\ net' \subseteq Messages /\ NumberInv'
<1> DEFINE m == [type |-> t, from |-> a, n |-> sent + 1]
<1>1. /\ sent \in Nat /\ sent < MaxSent /\ sent' = sent + 1 /\ net' = net \cup {m}
      /\ net \subseteq Messages
  BY DEF BaseInv, TypeOK, SendToServer
<1>2. m \in Messages /\ m.n = sent + 1
  <2>1. sent + 1 \in 1..MaxSent
    BY <1>1
  <2>. QED  BY <2>1, MsgShape
<1> HIDE DEF m
<1>3. \A x \in net : x.n <= sent /\ x.n \in Nat
  BY <1>1, MsgShape DEF BaseInv, NumberInv
<1>4. \A x \in net : x.n < m.n
  BY <1>1, <1>2, <1>3
<1>5. m \notin net
  BY <1>1, <1>2, <1>3
<1>6. sent' = m.n /\ sent' \in 0..MaxSent /\ net' \subseteq Messages
  BY <1>1, <1>2
<1>7. NumberInv'
  <2>1. \A x \in net' : x.n <= sent'
    BY <1>1, <1>2, <1>3
  <2>2. ASSUME NEW x \in net', NEW y \in net', x.n = y.n
        PROVE  x = y
    <3>1. \A z \in net : z.n # m.n
      BY <1>1, <1>2, <1>3
    <3>. QED  BY <1>1, <2>2, <3>1 DEF BaseInv, NumberInv
  <2>. QED  BY <2>1, <2>2 DEF NumberInv
<1>. QED  BY <1>1, <1>2, <1>4, <1>5, <1>6, <1>7 DEF m

LEMMA FewerKeepNumbers ==
  ASSUME NumberInv, net' \subseteq net, sent' = sent
  PROVE  NumberInv'
BY DEF NumberInv

LEMMA SendBase ==
  ASSUME BaseInv,
         (\E c \in Clients : Login(c) \/ Text(c) \/ Quit(c) \/ KillParent(c)) \/ ServerText
  PROVE  BaseInv'
<1>1. UNCHANGED <<serverVars, wire, seen, netVars>>
  BY DEF Login, Text, Quit, KillParent, ServerText
<1>2. LoopInv'
  BY <1>1 DEF BaseInv, LoopInv, serverVars
<1>3. phase' \in [Clients -> {"new", "in", "quitting", "out"}]
      /\ logins' \in [Clients -> 0..MaxLogins]
  <2>1. CASE \E c \in Clients : Login(c)
    BY <2>1 DEF Login, Phase, BaseInv, TypeOK
  <2>. QED  BY <2>1 DEF Text, Quit, KillParent, ServerText, Phase, BaseInv, TypeOK
<1>4. sent' \in 0..MaxSent /\ net' \subseteq Messages /\ NumberInv'
  <2>1. CASE \E c \in Clients : Login(c)
    BY <2>1, Sending DEF Login
  <2>2. CASE \E c \in Clients : Text(c)
    BY <2>2, Sending DEF Text
  <2>3. CASE \E c \in Clients : Quit(c)
    BY <2>3, Sending DEF Quit
  <2>4. CASE ServerText
    BY <2>4, Sending DEF ServerText
  <2>5. CASE \E c \in Clients : KillParent(c)
    BY <2>5 DEF KillParent, BaseInv, TypeOK, NumberInv
  <2>. QED  BY <2>1, <2>2, <2>3, <2>4, <2>5
<1>. QED  BY <1>1, <1>2, <1>3, <1>4 DEF BaseInv, TypeOK, serverVars, netVars

LEMMA RecvfromBase ==
  ASSUME BaseInv, NEW m \in net, Recvfrom(m)
  PROVE  BaseInv'
<1>1. /\ net' = net \ {m} /\ msg' = m /\ p' = 0 /\ m \in Messages
      /\ list' = IF m.type = "L" THEN <<m.from>> \o list ELSE list
      /\ UNCHANGED <<phase, logins, sent, up, wire, seen, lost, reorders>>
  BY DEF Recvfrom, insert_data, BaseInv, TypeOK, clientVars, netVars
<1>2. list' \in Seq(Clients) /\ Len(list') \in Nat
  <2>1. list \in Seq(Clients)
    BY DEF BaseInv, TypeOK
  <2>2. m.type = "L" => m.from \in Clients
    BY <1>1, MsgShape
  <2>. QED  BY <1>1, <2>1, <2>2, PushedSeq
<1>3. LoopInv'
  BY <1>1, MsgShape DEF LoopInv
<1>4. NumberInv'
  BY <1>1, FewerKeepNumbers DEF BaseInv
<1>5. p' \in 0..Len(list')
  BY <1>1, <1>2
<1>. QED  BY <1>1, <1>2, <1>3, <1>4, <1>5 DEF BaseInv, TypeOK

LEMMA SendToEffect ==
  ASSUME BaseInv, NEW c \in Clients, msg # NoMsg, SendTo(c), p < Len(list)
  PROVE  /\ wire' \in [Clients -> Seq(Messages)] /\ up' \in BOOLEAN
         /\ p' \in {p, p + 1} /\ p' \in 0..Len(list)
<1>1. /\ wire \in [Clients -> Seq(Messages)] /\ up \in BOOLEAN /\ msg \in Messages
      /\ p \in 0..Len(list) /\ Len(list) \in Nat
  BY DEF BaseInv, TypeOK
<1>2. Append(wire[c], msg) \in Seq(Messages)
  BY <1>1
<1>3. wire' \in [Clients -> Seq(Messages)]
  BY <1>1, <1>2 DEF SendTo
<1>4. up' \in BOOLEAN
  BY <1>1 DEF SendTo
<1>5. p' \in {p, p + 1}
  BY DEF SendTo
<1>. QED  BY <1>1, <1>3, <1>4, <1>5

LEMMA TurnBase ==
  ASSUME BaseInv, Relay \/ QuitTurn \/ Handled
  PROVE  BaseInv'
<1>1. /\ msg # NoMsg /\ msg \in Messages /\ list \in Seq(Clients) /\ p \in 0..Len(list)
      /\ Len(list) \in Nat
      /\ UNCHANGED <<phase, logins, sent, net, seen, lost, reorders>>
  BY DEF Relay, QuitTurn, Handled, Handling, BaseInv, TypeOK, clientVars, netVars
<1>2. NumberInv'
  BY <1>1 DEF BaseInv, NumberInv
<1>3. /\ wire \in [Clients -> Seq(Messages)] /\ up \in BOOLEAN
  BY DEF BaseInv, TypeOK
<1>4. ASSUME p < Len(list) PROVE list[p + 1] \in Clients /\ p + 1 \in 1..Len(list)
  <2>1. p + 1 \in 1..Len(list)
    BY <1>1, <1>4
  <2>. QED  BY <1>1, <2>1
<1>5. CASE Relay
  <2>1. p < Len(list) /\ msg' = msg /\ list' = list /\ msg.type # "Q"
    BY <1>5 DEF Relay, Handling
  <2>2. p' \in 0..Len(list) /\ up' \in BOOLEAN /\ wire' \in [Clients -> Seq(Messages)]
    <3>1. CASE list[p + 1] = msg.from
      BY <1>1, <1>3, <1>5, <2>1, <3>1 DEF Relay
    <3>2. CASE list[p + 1] # msg.from
      BY <1>1, <1>4, <1>5, <2>1, <3>2, SendToEffect DEF Relay
    <3>. QED  BY <3>1, <3>2
  <2>3. LoopInv'
    BY <1>1, <2>1 DEF LoopInv
  <2>. QED  BY <1>1, <1>2, <2>1, <2>2, <2>3 DEF BaseInv, TypeOK
<1>6. CASE QuitTurn
  <2>1. p < Len(list) /\ msg' = msg /\ msg.type = "Q"
    BY <1>6 DEF QuitTurn, Handling
  <2>2. \A i \in 1..p : list[i] # msg.from
    BY <1>1, <2>1 DEF BaseInv, LoopInv
  <2>3. CASE list[p + 1] = msg.from
    <3>1. list' = RemoveAt(list, p + 1) /\ UNCHANGED <<p, wire, up>>
      BY <1>6, <2>3 DEF QuitTurn
    <3>2. /\ list' \in Seq(Clients) /\ Len(list') = Len(list) - 1
          /\ \A j \in 1..(Len(list) - 1) : list'[j] = list[IF j < p + 1 THEN j ELSE j + 1]
      BY <1>1, <1>4, <2>1, <3>1, RemovedSeq
    <3>3. p' \in 0..Len(list')
      BY <1>1, <2>1, <3>1, <3>2
    <3>4. \A i \in 1..p : i \in 1..(Len(list) - 1) /\ i < p + 1
      BY <1>1, <2>1
    <3>5. \A i \in 1..p' : list'[i] # msg.from
      BY <2>2, <3>1, <3>2, <3>4
    <3>. QED  BY <1>1, <1>2, <1>3, <2>1, <3>1, <3>2, <3>3, <3>5 DEF BaseInv, TypeOK, LoopInv
  <2>4. CASE list[p + 1] # msg.from
    <3>1. SendTo(list[p + 1]) /\ list' = list
      BY <1>6, <2>4 DEF QuitTurn
    <3>2. /\ wire' \in [Clients -> Seq(Messages)] /\ up' \in BOOLEAN
          /\ p' \in {p, p + 1} /\ p' \in 0..Len(list)
      BY <1>1, <1>4, <2>1, <3>1, SendToEffect
    <3>3. \A i \in 1..p' : i \in 1..p \/ i = p + 1
      BY <1>1, <3>2
    <3>4. \A i \in 1..p' : list'[i] # msg.from
      BY <2>2, <2>4, <3>1, <3>3
    <3>. QED  BY <1>1, <1>2, <2>1, <3>1, <3>2, <3>4 DEF BaseInv, TypeOK, LoopInv
  <2>. QED  BY <2>3, <2>4
<1>7. CASE Handled
  BY <1>1, <1>2, <1>7 DEF Handled, BaseInv, TypeOK, LoopInv
<1>. QED  BY <1>5, <1>6, <1>7

LEMMA NetBase ==
  ASSUME BaseInv, Lose \/ \E c \in Clients : Receive(c) \/ Discard(c)
  PROVE  BaseInv'
<1>1. UNCHANGED <<phase, logins, sent, list, msg, p, up>> /\ net' \subseteq net
  BY DEF Lose, Receive, Discard, clientVars, serverVars
<1>2. LoopInv' /\ NumberInv'
  BY <1>1, FewerKeepNumbers DEF BaseInv, LoopInv
<1>3. wire \in [Clients -> Seq(Messages)] /\ seen \in [Clients -> Seq(Messages)]
  BY DEF BaseInv, TypeOK
<1>4. ASSUME NEW c \in Clients, NEW i \in 1..Len(wire[c])
      PROVE  RemoveAt(wire[c], i) \in Seq(Messages) /\ wire[c][i] \in Messages
  <2>1. wire[c] \in Seq(Messages)
    BY <1>3
  <2>. QED  BY <2>1, RemovedSeq
<1>5. wire' \in [Clients -> Seq(Messages)]
  <2>0. ASSUME NEW c \in Clients, NEW i \in 1..Len(wire[c]),
               wire' = [wire EXCEPT ![c] = RemoveAt(@, i)]
        PROVE  wire' \in [Clients -> Seq(Messages)]
    BY <1>3, <1>4, <2>0
  <2>1. CASE Lose
    BY <1>3, <2>0, <2>1 DEF Lose
  <2>2. CASE \E c \in Clients : Receive(c)
    BY <2>0, <2>2 DEF Receive
  <2>3. CASE \E c \in Clients : Discard(c)
    <3>1. PICK c \in Clients : wire[c] # <<>> /\ wire' = [wire EXCEPT ![c] = Tail(@)]
      BY <2>3 DEF Discard
    <3>2. wire[c] \in Seq(Messages)
      BY <1>3
    <3>3. Tail(wire[c]) \in Seq(Messages)
      BY <3>1, <3>2
    <3>. QED  BY <1>3, <3>1, <3>3
  <2>. QED  BY <2>1, <2>2, <2>3
<1>6. seen' \in [Clients -> Seq(Messages)]
  <2>1. CASE \E c \in Clients : Receive(c)
    <3>1. PICK c \in Clients : \E i \in 1..Len(wire[c]) :
            seen' = IF wire[c][i].type = "B"
                    THEN [seen EXCEPT ![c] = Append(@, wire[c][i])] ELSE seen
      BY <2>1 DEF Receive
    <3>2. ASSUME NEW i \in 1..Len(wire[c])
          PROVE  Append(seen[c], wire[c][i]) \in Seq(Messages)
      BY <1>3, <1>4
    <3>. QED  BY <1>3, <3>1, <3>2
  <2>. QED  BY <1>3, <2>1 DEF Lose, Discard
<1>7. lost' \in 0..MaxLost /\ reorders' \in BOOLEAN
  <2>1. lost \in 0..MaxLost /\ reorders \in BOOLEAN
    BY DEF BaseInv, TypeOK
  <2>2. CASE Lose
    BY <2>1, <2>2 DEF Lose
  <2>3. CASE UNCHANGED netVars
    BY <2>1, <2>3 DEF netVars
  <2>. QED  BY <2>2, <2>3 DEF Receive, Discard
<1>. QED  BY <1>1, <1>2, <1>5, <1>6, <1>7 DEF BaseInv, TypeOK

-----------------------------------------------------------------------------
(* Logins and quits take turns.                                             *)

LEMMA TurnsSame ==
  ASSUME NEW S, NEW c, NEW R, NEW R2, NEW t, TakeTurns(S, c, R, t), c \in R2 <=> c \in R
  PROVE  TakeTurns(S, c, R2, t)
<1>1. ASSUME NEW T, NEW u, Result(T, c, R, u) PROVE Result(T, c, R2, u)
  BY <1>1 DEF Result
<1>. QED  BY <1>1, Zenon DEF TakeTurns

\* The client sends the other move after the moves under way.
LEMMA TurnsAdd ==
  ASSUME NEW S, NEW c, NEW R, NEW m,
         TakeTurns(S, c, R, IF m.type = "L" THEN "Q" ELSE "L"),
         m.n \in Nat, \A x \in S : x.n \in Nat /\ x.n < m.n
  PROVE  TakeTurns(S \cup {m}, c, R, m.type)
<1> DEFINE Before(x) == {y \in S : y.n < x.n}
           BeforeNow(x) == {y \in S \cup {m} : y.n < x.n}
<1>1. Result(S \cup {m}, c, R, m.type)
  BY DEF Result
<1>2. BeforeNow(m) = S
  OBVIOUS
<1>3. ASSUME NEW x \in S PROVE BeforeNow(x) = Before(x)
  OBVIOUS
<1>4. ASSUME NEW x \in S \cup {m}
      PROVE  Result(BeforeNow(x), c, R, IF x.type = "L" THEN "Q" ELSE "L")
  <2>1. CASE x = m
    BY <1>2, <2>1, Zenon DEF TakeTurns
  <2>2. CASE x \in S
    BY <1>3, <2>2, Zenon DEF TakeTurns
  <2>. QED  BY <2>1, <2>2
<1>. QED  BY <1>1, <1>4, Zenon DEF TakeTurns

\* The server receives the first of the moves under way.
LEMMA TurnsTake ==
  ASSUME NEW S, NEW c, NEW R, NEW R2, NEW t, NEW m \in S, TakeTurns(S, c, R, t),
         m.type \in {"L", "Q"}, c \in R2 <=> m.type = "L",
         \A x \in S : x.n \in Nat /\ m.n <= x.n,
         \A x, y \in S : x.n = y.n => x = y
  PROVE  TakeTurns(S \ {m}, c, R2, t) /\ (c \in R <=> m.type = "Q")
<1>1. ASSUME NEW T \in SUBSET S, NEW u, m \in T, Result(T, c, R, u)
      PROVE  Result(T \ {m}, c, R2, u)
  <2>1. PICK y \in T : y.type = u /\ \A z \in T : z.n <= y.n
    BY <1>1 DEF Result
  <2>2. CASE y # m
    BY <2>1, <2>2 DEF Result
  <2>3. CASE y = m
    <3>1. \A z \in T : z.n = m.n
      BY <2>1, <2>3
    <3>2. T \ {m} = {}
      BY <3>1
    <3>3. u = IF c \in R2 THEN "L" ELSE "Q"
      BY <2>1, <2>3
    <3>. QED  BY <3>2, <3>3, Zenon DEF Result
  <2>. QED  BY <2>2, <2>3
<1>2. Result(S \ {m}, c, R2, t)
  <2>1. Result(S, c, R, t)
    BY Zenon DEF TakeTurns
  <2>. QED  BY <1>1, <2>1
<1>3. ASSUME NEW x \in S \ {m}
      PROVE  Result({y \in S \ {m} : y.n < x.n}, c, R2, IF x.type = "L" THEN "Q" ELSE "L")
  <2> DEFINE T == {y \in S : y.n < x.n}
  <2>1. m.n # x.n
    BY <1>3, Zenon
  <2>2. m \in T
    BY <2>1
  <2>3. {y \in S \ {m} : y.n < x.n} = T \ {m}
    OBVIOUS
  <2>4. Result(T, c, R, IF x.type = "L" THEN "Q" ELSE "L")
    BY Zenon DEF TakeTurns
  <2>5. T \in SUBSET S
    OBVIOUS
  <2> HIDE DEF T
  <2>6. Result(T \ {m}, c, R2, IF x.type = "L" THEN "Q" ELSE "L")
    BY <1>1, <2>2, <2>4, <2>5
  <2>. QED  BY <2>3, <2>6
<1>4. c \in R <=> m.type = "Q"
  <2>1. Result({y \in S : y.n < m.n}, c, R, IF m.type = "L" THEN "Q" ELSE "L")
    BY Zenon DEF TakeTurns
  <2>2. {y \in S : y.n < m.n} = {}
    OBVIOUS
  <2>3. (IF m.type = "L" THEN "Q" ELSE "L") = (IF c \in R THEN "L" ELSE "Q")
    BY <2>1, <2>2 DEF Result
  <2>. QED  BY <2>3
<1>. QED  BY <1>2, <1>3, <1>4, Zenon DEF TakeTurns

-----------------------------------------------------------------------------
(* What each step does to PresenceInv.                                      *)
InvNow == BaseInv /\ PresenceInv
LastMove(c) == IF phase[c] = "in" THEN "L" ELSE "Q"

LEMMA InvIsRoomInv == RoomInv <=> InvNow
BY DEF RoomInv, InvNow, BaseInv

LEMMA Moving ==
  ASSUME BaseInv, NEW c
  PROVE  /\ \A x \in Moves(c) : x.n \in Nat /\ x.n <= sent
         /\ \A x, y \in Moves(c) : x.n = y.n => x = y
<1>1. \A x \in net : x \in Messages
  BY DEF BaseInv, TypeOK
<1>. QED  BY <1>1, MsgShape DEF Moves, BaseInv, NumberInv

\* A step that changes neither who is on the list nor the moves under way.
LEMMA PresenceSame ==
  ASSUME InvNow, Reliable' => Reliable, IsInjective(list) => IsInjective(list)',
         Present' = Present,
         \A c \in Clients : Moves(c)' = Moves(c) /\ LastMove(c)' = LastMove(c)
  PROVE  PresenceInv'
<1>1. ASSUME Reliable', NEW c \in Clients
      PROVE  TakeTurns(Moves(c)', c, Present', LastMove(c)')
  <2>1. TakeTurns(Moves(c), c, Present, LastMove(c))
    BY <1>1 DEF InvNow, PresenceInv, LastMove
  <2>. QED  BY <2>1
<1>2. Reliable' => IsInjective(list)'
  BY DEF InvNow, PresenceInv
<1>. QED  BY <1>1, <1>2 DEF PresenceInv, LastMove

\* A client sends what its last move is not.
LEMMA MovePresence ==
  ASSUME InvNow, NEW c \in Clients, NEW t \in {"L", "Q"}, SendToServer(c, t),
         UNCHANGED <<serverVars, netVars>>,
         LastMove(c) # t, LastMove(c)' = t,
         \A d \in Clients \ {c} : phase'[d] = phase[d]
  PROVE  PresenceInv'
<1>1. PICK m \in Messages :
        /\ m = [type |-> t, from |-> c, n |-> sent + 1]
        /\ net' = net \cup {m} /\ \A x \in net : x.n < m.n
  BY Sending DEF InvNow
<1>2. m.type = t /\ m.from = c /\ m.n \in Nat
  BY <1>1, MsgShape
<1>3. Present' = Present /\ list' = list /\ (Reliable' <=> Reliable)
  BY DEF Present, serverVars, netVars, Reliable
<1>4. ASSUME Reliable, NEW d \in Clients
      PROVE  TakeTurns(Moves(d)', d, Present, LastMove(d)')
  <2>1. TakeTurns(Moves(d), d, Present, LastMove(d))
    BY <1>4 DEF InvNow, PresenceInv, LastMove
  <2>2. CASE d # c
    <3>1. Moves(d)' = Moves(d)
      BY <1>1, <1>2, <2>2 DEF Moves
    <3>2. LastMove(d)' = LastMove(d)
      BY <2>2 DEF LastMove
    <3>. QED  BY <2>1, <3>1, <3>2
  <2>3. CASE d = c
    <3>1. Moves(c)' = Moves(c) \cup {m}
      BY <1>1, <1>2 DEF Moves
    <3>2. LastMove(c) = IF m.type = "L" THEN "Q" ELSE "L"
      BY <1>2 DEF LastMove
    <3>3. \A x \in Moves(c) : x.n \in Nat /\ x.n < m.n
      <4>1. \A x \in Moves(c) : x \in net
        BY DEF Moves
      <4>. QED  BY <1>1, <4>1, Moving DEF InvNow
    <3>4. TakeTurns(Moves(c) \cup {m}, c, Present, m.type)
      BY <1>2, <2>1, <2>3, <3>2, <3>3, TurnsAdd
    <3>. QED  BY <1>2, <2>3, <3>1, <3>4
  <2>. QED  BY <2>2, <2>3
<1>. QED  BY <1>3, <1>4 DEF InvNow, PresenceInv, LastMove

\* Any other datagram is no move.
LEMMA TextPresence ==
  ASSUME InvNow, NEW a \in Senders, SendToServer(a, "B"), UNCHANGED <<phase, serverVars, netVars>>
  PROVE  PresenceInv'
<1>1. net' = net \cup {[type |-> "B", from |-> a, n |-> sent + 1]}
  BY DEF SendToServer
<1>2. \A c \in Clients : Moves(c)' = Moves(c) /\ LastMove(c)' = LastMove(c)
  BY <1>1 DEF Moves, LastMove
<1>3. Present' = Present /\ list' = list /\ (Reliable' <=> Reliable)
  BY DEF Present, serverVars, netVars, Reliable
<1>. QED  BY <1>2, <1>3, PresenceSame

LEMMA SendPresence ==
  ASSUME InvNow,
         (\E c \in Clients : Login(c) \/ Text(c) \/ Quit(c) \/ KillParent(c)) \/ ServerText
  PROVE  PresenceInv'
<1>0. phase \in [Clients -> {"new", "in", "quitting", "out"}]
  BY DEF InvNow, BaseInv, TypeOK
<1>1. ASSUME NEW c \in Clients, Login(c) PROVE PresenceInv'
  <2>1. /\ SendToServer(c, "L") /\ UNCHANGED <<serverVars, netVars>>
        /\ phase[c] \in {"new", "out"} /\ phase' = [phase EXCEPT ![c] = "in"]
    BY <1>1 DEF Login, Phase
  <2>2. /\ LastMove(c) # "L" /\ LastMove(c)' = "L"
        /\ \A d \in Clients \ {c} : phase'[d] = phase[d]
    BY <1>0, <2>1 DEF LastMove
  <2>. QED  BY <2>1, <2>2, MovePresence
<1>2. ASSUME NEW c \in Clients, Quit(c) PROVE PresenceInv'
  <2>1. /\ SendToServer(c, "Q") /\ UNCHANGED <<serverVars, netVars>>
        /\ phase[c] = "in" /\ phase' = [phase EXCEPT ![c] = "quitting"]
    BY <1>2 DEF Quit, Phase
  <2>2. /\ LastMove(c) # "Q" /\ LastMove(c)' = "Q"
        /\ \A d \in Clients \ {c} : phase'[d] = phase[d]
    BY <1>0, <2>1 DEF LastMove
  <2>. QED  BY <2>1, <2>2, MovePresence
<1>3. ASSUME NEW c \in Clients, Text(c) PROVE PresenceInv'
  BY <1>3, TextPresence DEF Text, Senders
<1>4. CASE ServerText
  BY <1>4, TextPresence DEF ServerText, Senders
<1>5. ASSUME NEW c \in Clients, KillParent(c) PROVE PresenceInv'
  <2>1. /\ phase[c] = "quitting" /\ phase' = [phase EXCEPT ![c] = "out"]
        /\ UNCHANGED <<net, serverVars, netVars>>
    BY <1>5 DEF KillParent, Phase
  <2>2. \A d \in Clients : Moves(d)' = Moves(d) /\ LastMove(d)' = LastMove(d)
    BY <1>0, <2>1 DEF Moves, LastMove
  <2>3. Present' = Present /\ list' = list /\ (Reliable' <=> Reliable)
    BY <2>1 DEF Present, serverVars, netVars, Reliable
  <2>. QED  BY <2>2, <2>3, PresenceSame
<1>. QED  BY <1>1, <1>2, <1>3, <1>4, <1>5

LEMMA RecvfromPresence ==
  ASSUME InvNow, NEW m \in net, Recvfrom(m)
  PROVE  PresenceInv'
<1>1. /\ net' = net \ {m} /\ msg = NoMsg /\ msg' = m /\ m \in Messages
      /\ list' = IF m.type = "L" THEN <<m.from>> \o list ELSE list
      /\ UNCHANGED <<phase, lost, reorders>> /\ (reorders \/ InOrder(m))
      /\ list \in Seq(Clients) /\ m # NoMsg
  BY MsgShape DEF Recvfrom, insert_data, clientVars, netVars, InvNow, BaseInv, TypeOK
<1>2. /\ Reliable' <=> Reliable
      /\ \A c \in Clients : LastMove(c)' = LastMove(c)
      /\ Present = ToSet(list)
  BY <1>1 DEF Reliable, LastMove, Present
<1>3. CASE m.type = "B"
  <2>1. list' = list /\ Present' = Present
    BY <1>1, <1>3 DEF Present
  <2>2. \A c \in Clients : Moves(c)' = Moves(c)
    BY <1>1, <1>3 DEF Moves
  <2>. QED  BY <1>2, <2>1, <2>2, PresenceSame
<1>4. CASE m.type \in {"L", "Q"}
  <2>1. m.from \in Clients
    BY <1>1, <1>4, MsgShape
  <2>2. /\ m.from \in Present' <=> m.type = "L"
        /\ \A d \in Clients \ {m.from} : d \in Present' <=> d \in Present
    <3>1. CASE m.type = "L"
      <4>1. ToSet(list') = ToSet(list) \cup {m.from}
        BY <1>1, <2>1, <3>1, PushedSeq
      <4>. QED  BY <1>1, <1>2, <3>1, <4>1 DEF Present
    <3>2. CASE m.type = "Q"
      BY <1>1, <1>2, <3>2 DEF Present
    <3>. QED  BY <1>4, <3>1, <3>2
  <2>3. ASSUME Reliable, NEW c \in Clients
        PROVE  /\ TakeTurns(Moves(c)', c, Present', LastMove(c))
               /\ c = m.from => (c \in Present <=> m.type = "Q")
    <3>1. TakeTurns(Moves(c), c, Present, LastMove(c))
      BY <2>3 DEF InvNow, PresenceInv, LastMove
    <3>2. CASE c # m.from
      <4>1. Moves(c)' = Moves(c)
        BY <1>1, <3>2 DEF Moves
      <4>. QED  BY <2>2, <3>1, <3>2, <4>1, TurnsSame
    <3>3. CASE c = m.from
      <4>1. Moves(c)' = Moves(c) \ {m} /\ m \in Moves(c)
        BY <1>1, <1>4, <3>3 DEF Moves
      <4>2. \A x \in Moves(c) : x.n \in Nat /\ m.n <= x.n
        <5>1. InOrder(m)
          BY <1>1, <2>3 DEF Reliable
        <5>2. \A x \in Moves(c) : x \in net /\ x.from = m.from
          BY <3>3 DEF Moves
        <5>. QED  BY <5>1, <5>2, Moving DEF InOrder, InvNow
      <4>3. \A x, y \in Moves(c) : x.n = y.n => x = y
        BY Moving DEF InvNow
      <4>4. m.type \in {"L", "Q"} /\ m \in Moves(c) /\ (c \in Present' <=> m.type = "L")
        BY <1>4, <2>2, <3>3, <4>1
      <4>5. TakeTurns(Moves(c) \ {m}, c, Present', LastMove(c)) /\ (c \in Present <=> m.type = "Q")
        <5>1. ASSUME NEW R, NEW R2, NEW t, TakeTurns(Moves(c), c, R, t), c \in R2 <=> m.type = "L"
              PROVE  TakeTurns(Moves(c) \ {m}, c, R2, t) /\ (c \in R <=> m.type = "Q")
          BY <4>2, <4>3, <4>4, <5>1, TurnsTake
        <5>. QED  BY <3>1, <4>4, <5>1, Zenon
      <4>. QED  BY <4>1, <4>5, Zenon
    <3>. QED  BY <3>2, <3>3
  <2>4. Reliable => IsInjective(list')
    <3>1. CASE m.type = "L"
      <4>1. Reliable => m.from \notin ToSet(list)
        BY <1>2, <2>1, <2>3, <3>1
      <4>. QED  BY <1>1, <2>1, <3>1, <4>1, PushedSeq DEF InvNow, PresenceInv
    <3>2. CASE m.type = "Q"
      BY <1>1, <3>2 DEF InvNow, PresenceInv
    <3>. QED  BY <1>4, <3>1, <3>2
  <2>. QED  BY <1>2, <2>3, <2>4 DEF PresenceInv, LastMove
<1>. QED  BY <1>1, <1>3, <1>4, MsgShape

LEMMA TurnPresence ==
  ASSUME InvNow, Relay \/ QuitTurn \/ Handled
  PROVE  PresenceInv'
<1>1. /\ msg # NoMsg /\ msg \in Messages /\ list \in Seq(Clients) /\ p \in 0..Len(list)
      /\ Len(list) \in Nat
      /\ UNCHANGED <<phase, net, lost, reorders>>
  BY DEF Relay, QuitTurn, Handled, Handling, InvNow, BaseInv, TypeOK, clientVars, netVars
<1>2. /\ Reliable' <=> Reliable
      /\ \A c \in Clients : Moves(c)' = Moves(c) /\ LastMove(c)' = LastMove(c)
  BY <1>1 DEF Reliable, Moves, LastMove
<1>3. (IsInjective(list) => IsInjective(list')) /\ Present' = Present
  <2>1. CASE Relay
    BY <2>1 DEF Relay, Handling, Present
  <2>2. CASE QuitTurn
    <3>1. p < Len(list) /\ msg' = msg /\ msg.type = "Q"
      BY <2>2 DEF QuitTurn, Handling
    <3>2. CASE list[p + 1] = msg.from
      <4>1. list' = RemoveAt(list, p + 1) /\ p + 1 \in 1..Len(list)
        BY <1>1, <2>2, <3>1, <3>2 DEF QuitTurn
      <4>2. /\ \A x : x # msg.from => (x \in ToSet(list') <=> x \in ToSet(list))
            /\ IsInjective(list) => IsInjective(list')
        BY <1>1, <3>2, <4>1, RemovedElements
      <4>. QED  BY <1>1, <3>1, <4>2 DEF Present
    <3>3. CASE list[p + 1] # msg.from
      BY <2>2, <3>1, <3>3 DEF QuitTurn, Present
    <3>. QED  BY <3>2, <3>3
  <2>3. CASE Handled
    <3>1. list' = list /\ msg' = NoMsg /\ p = Len(list)
      BY <2>3 DEF Handled
    <3>2. msg.type = "Q" => msg.from \notin ToSet(list)
      BY <1>1, <3>1 DEF InvNow, BaseInv, LoopInv, ToSet
    <3>. QED  BY <1>1, <3>1, <3>2 DEF Present
  <2>. QED  BY <2>1, <2>2, <2>3
<1>. QED  BY <1>2, <1>3, PresenceSame

\* What the network loses is under no promise; what is received is no move.
LEMMA NetPresence ==
  ASSUME InvNow, Lose \/ \E c \in Clients : Receive(c) \/ Discard(c)
  PROVE  PresenceInv'
<1>1. CASE Lose
  <2>1. lost' # 0
    BY <1>1 DEF Lose, InvNow, BaseInv, TypeOK
  <2>. QED  BY <2>1 DEF PresenceInv, Reliable
<1>2. CASE \E c \in Clients : Receive(c) \/ Discard(c)
  <2>1. UNCHANGED <<phase, net, list, msg, lost, reorders>>
    BY <1>2 DEF Receive, Discard, clientVars, serverVars, netVars
  <2>2. \A c \in Clients : Moves(c)' = Moves(c) /\ LastMove(c)' = LastMove(c)
    BY <2>1 DEF Moves, LastMove
  <2>3. Present' = Present /\ (Reliable' <=> Reliable)
    BY <2>1 DEF Present, Reliable
  <2>. QED  BY <2>1, <2>2, <2>3, PresenceSame
<1>. QED  BY <1>1, <1>2

-----------------------------------------------------------------------------
(* The theorems.                                                            *)

LEMMA InvInit == Init => InvNow
<1> SUFFICES ASSUME Init PROVE InvNow
  OBVIOUS
<1>1. /\ list = <<>> /\ msg = NoMsg /\ p = 0 /\ net = {} /\ sent = 0
      /\ phase = [c \in Clients |-> "new"]
  BY DEF Init
<1>2. BaseInv
  <2>1. list \in Seq(Clients) /\ Len(list) = 0
    BY <1>1
  <2>2. [c \in Clients |-> <<>>] \in [Clients -> Seq(Messages)]
    OBVIOUS
  <2>. QED  BY <1>1, <2>1, <2>2 DEF Init, BaseInv, TypeOK, LoopInv, NumberInv
<1>3. Present = {} /\ IsInjective(list)
  BY <1>1 DEF Present, ToSet, IsInjective
<1>4. ASSUME NEW c \in Clients
      PROVE  TakeTurns(Moves(c), c, Present, LastMove(c))
  <2>1. Moves(c) = {} /\ LastMove(c) = "Q"
    BY <1>1 DEF Moves, LastMove
  <2>. QED  BY <1>3, <2>1 DEF TakeTurns, Result
<1>. QED  BY <1>2, <1>3, <1>4 DEF InvNow, PresenceInv, LastMove

LEMMA InvStep == InvNow /\ [Next]_vars => InvNow'
<1> SUFFICES ASSUME InvNow, [Next]_vars PROVE InvNow'
  OBVIOUS
<1>1. CASE (\E c \in Clients : Login(c) \/ Text(c) \/ Quit(c) \/ KillParent(c)) \/ ServerText
  BY <1>1, SendBase, SendPresence DEF InvNow
<1>2. CASE \E m \in net : Recvfrom(m)
  BY <1>2, RecvfromBase, RecvfromPresence DEF InvNow
<1>3. CASE Relay \/ QuitTurn \/ Handled
  BY <1>3, TurnBase, TurnPresence DEF InvNow
<1>4. CASE Lose \/ \E c \in Clients : Receive(c) \/ Discard(c)
  BY <1>4, NetBase, NetPresence DEF InvNow
<1>5. CASE UNCHANGED vars
  <2>1. BaseInv'
    BY <1>5 DEF vars, clientVars, serverVars, netVars, InvNow, BaseInv, TypeOK, LoopInv, NumberInv
  <2>2. \A c \in Clients : Moves(c)' = Moves(c) /\ LastMove(c)' = LastMove(c)
    BY <1>5 DEF vars, clientVars, Moves, LastMove
  <2>3. Present' = Present /\ list' = list /\ (Reliable' <=> Reliable)
    BY <1>5 DEF vars, serverVars, netVars, Present, Reliable
  <2>. QED  BY <2>1, <2>2, <2>3, PresenceSame DEF InvNow
<1>. QED  BY <1>1, <1>2, <1>3, <1>4, <1>5, Zenon DEF Next, ServerStep

(* UdpRoom's inductive invariant holds in every behaviour. *)
THEOREM RoomInvariance == Spec => []RoomInv
<1>1. Spec => []InvNow
  BY InvInit, InvStep, PTL DEF Spec
<1>. QED  BY <1>1, InvIsRoomInv, PTL

(* Every variable keeps its type; the loop of s.c never passes the end of the
   list, also when a quit makes it shorter. *)
THEOREM TypeCorrect == Spec => []TypeOK
<1>1. RoomInv => TypeOK
  BY DEF RoomInv
<1>. QED  BY <1>1, RoomInvariance, PTL

(* Whenever nothing is under way on a reliable network, the list of s.c has one
   node for each client in the room and no other. *)
THEOREM ListIsMembership == Spec => []Membership
<1>1. ASSUME RoomInv PROVE Membership
  <2> SUFFICES ASSUME Reliable, msg = NoMsg, net = {}
               PROVE  ToSet(list) = {c \in Clients : phase[c] = "in"} /\ IsInjective(list)
    BY DEF Membership
  <2>1. Present = ToSet(list) /\ list \in Seq(Clients)
    BY <1>1 DEF Present, RoomInv, TypeOK
  <2>2. ASSUME NEW c \in Clients PROVE c \in ToSet(list) <=> phase[c] = "in"
    <3>1. Moves(c) = {}
      BY DEF Moves
    <3>2. Result(Moves(c), c, Present, LastMove(c))
      BY <1>1, Zenon DEF RoomInv, PresenceInv, TakeTurns, LastMove
    <3>3. LastMove(c) = IF c \in Present THEN "L" ELSE "Q"
      BY <3>1, <3>2 DEF Result
    <3>. QED  BY <2>1, <3>3 DEF LastMove
  <2>3. ToSet(list) \subseteq Clients
    BY <2>1 DEF ToSet
  <2>4. IsInjective(list)
    BY <1>1 DEF RoomInv, PresenceInv
  <2>. QED  BY <2>2, <2>3, <2>4
<1>. QED  BY <1>1, RoomInvariance, PTL

-----------------------------------------------------------------------------
(* Counting the nodes of a list that hold c.                                *)

LEMMA NodesFinite ==
  ASSUME NEW S, NEW s \in Seq(S), NEW c, NEW k
  PROVE  IsFiniteSet(NodesOf(s, c, k)) /\ Cardinality(NodesOf(s, c, k)) \in Nat
<1>1. Len(s) \in Nat
  OBVIOUS
<1>2. IsFiniteSet(1..Len(s)) /\ NodesOf(s, c, k) \in SUBSET (1..Len(s))
  BY <1>1, FS_Interval DEF NodesOf
<1>3. IsFiniteSet(NodesOf(s, c, k))
  BY <1>2, FS_Subset
<1>. QED  BY <1>3, FS_CardinalityType

LEMMA SameCount ==
  ASSUME NEW S, NEW T, IsFiniteSet(S), NEW f \in [S -> T],
         \A x, y \in S : f[x] = f[y] => x = y, \A y \in T : \E x \in S : f[x] = y
  PROVE  Cardinality(T) = Cardinality(S)
<1>1. f \in Bijection(S, T)
  BY DEF Bijection, Injection, Surjection, IsInjective
<1>2. ExistsBijection(S, T)
  BY <1>1 DEF ExistsBijection
<1>. QED  BY <1>2, FS_Bijection

\* The loop passes a node.
LEMMA NodesNext ==
  ASSUME NEW S, NEW s \in Seq(S), NEW c, NEW k \in Nat, k < Len(s)
  PROVE  Cardinality(NodesOf(s, c, k)) =
           IF s[k + 1] = c THEN Cardinality(NodesOf(s, c, k + 1)) + 1
                           ELSE Cardinality(NodesOf(s, c, k + 1))
<1>1. Len(s) \in Nat /\ k + 1 \in 1..Len(s)
  OBVIOUS
<1>2. CASE s[k + 1] = c
  <2>1. NodesOf(s, c, k) = NodesOf(s, c, k + 1) \cup {k + 1} /\ k + 1 \notin NodesOf(s, c, k + 1)
    BY <1>1, <1>2 DEF NodesOf
  <2>2. IsFiniteSet(NodesOf(s, c, k + 1))
    BY NodesFinite
  <2>3. Cardinality(NodesOf(s, c, k + 1) \cup {k + 1}) = Cardinality(NodesOf(s, c, k + 1)) + 1
    BY <2>1, <2>2, FS_AddElement, Zenon
  <2>. QED  BY <1>2, <2>1, <2>3, Zenon
<1>3. CASE s[k + 1] # c
  <2>1. NodesOf(s, c, k) = NodesOf(s, c, k + 1)
    BY <1>1, <1>3 DEF NodesOf
  <2>. QED  BY <1>3, <2>1
<1>. QED  BY <1>2, <1>3

\* A node that does not hold c is unlinked behind the k-th.
LEMMA NodesRemoved ==
  ASSUME NEW S, NEW s \in Seq(S), NEW q \in 1..Len(s), NEW c, s[q] # c, NEW k \in Nat, k < q
  PROVE  Cardinality(NodesOf(RemoveAt(s, q), c, k)) = Cardinality(NodesOf(s, c, k))
<1> DEFINE r == RemoveAt(s, q)
<1>0. Len(s) \in Nat
  OBVIOUS
<1>1. /\ r \in Seq(S) /\ Len(r) = Len(s) - 1 /\ Len(s) \in Nat
      /\ \A j \in 1..(Len(s) - 1) : r[j] = s[IF j < q THEN j ELSE j + 1]
  BY <1>0, RemovedSeq, Zenon
<1> HIDE DEF r
<1> DEFINE f == [i \in NodesOf(r, c, k) |-> IF i < q THEN i ELSE i + 1]
<1>2. \A i \in NodesOf(r, c, k) :
        i \in 1..(Len(s) - 1) /\ i > k /\ s[IF i < q THEN i ELSE i + 1] = c
  BY <1>1 DEF NodesOf
<1>3. f \in [NodesOf(r, c, k) -> NodesOf(s, c, k)]
  BY <1>1, <1>2 DEF NodesOf
<1>4. \A x, y \in NodesOf(r, c, k) : f[x] = f[y] => x = y
  BY <1>2
<1>5. ASSUME NEW y \in NodesOf(s, c, k)
      PROVE  \E x \in NodesOf(r, c, k) : f[x] = y
  <2>1. y \in 1..Len(s) /\ y > k /\ s[y] = c /\ y # q
    BY DEF NodesOf
  <2>2. CASE y < q
    <3>1. y \in NodesOf(r, c, k)
      BY <1>1, <2>1, <2>2 DEF NodesOf
    <3>. QED  BY <2>2, <3>1
  <2>3. CASE y > q
    <3>1. y - 1 \in 1..(Len(s) - 1) /\ y - 1 > k /\ ~(y - 1 < q) /\ (y - 1) + 1 = y
      BY <1>1, <2>1, <2>3
    <3>2. y - 1 \in NodesOf(r, c, k)
      BY <1>1, <2>1, <3>1 DEF NodesOf
    <3>. QED  BY <3>1, <3>2
  <2>. QED  BY <2>1, <2>2, <2>3
<1>6. IsFiniteSet(NodesOf(r, c, k))
  BY <1>1, NodesFinite
<1> HIDE DEF f
<1>7. Cardinality(NodesOf(s, c, k)) = Cardinality(NodesOf(r, c, k))
  BY <1>3, <1>4, <1>5, <1>6, SameCount
<1>. QED  BY <1>7 DEF r

\* A node is put in front.
LEMMA NodesPushed ==
  ASSUME NEW S, NEW s \in Seq(S), NEW a \in S, NEW c
  PROVE  Cardinality(NodesOf(<<a>> \o s, c, 0)) =
           IF a = c THEN Cardinality(NodesOf(s, c, 0)) + 1 ELSE Cardinality(NodesOf(s, c, 0))
<1> DEFINE r == <<a>> \o s
           f == [i \in NodesOf(s, c, 0) |-> i + 1]
<1>1. /\ r \in Seq(S) /\ Len(r) = Len(s) + 1 /\ Len(s) \in Nat
      /\ r[1] = a /\ \A i \in 1..Len(s) : r[i + 1] = s[i]
  BY PushedSeq
<1> HIDE DEF r
<1>2. f \in [NodesOf(s, c, 0) -> NodesOf(r, c, 1)]
  BY <1>1 DEF NodesOf
<1>3. \A x, y \in NodesOf(s, c, 0) : f[x] = f[y] => x = y
  BY DEF NodesOf
<1>4. ASSUME NEW y \in NodesOf(r, c, 1)
      PROVE  \E x \in NodesOf(s, c, 0) : f[x] = y
  <2>1. y \in 1..(Len(s) + 1) /\ y > 1 /\ r[y] = c
    BY <1>1 DEF NodesOf
  <2>2. y - 1 \in 1..Len(s) /\ (y - 1) + 1 = y
    BY <1>1, <2>1
  <2>3. y - 1 \in NodesOf(s, c, 0)
    BY <1>1, <2>1, <2>2 DEF NodesOf
  <2>. QED  BY <2>2, <2>3
<1>5. IsFiniteSet(NodesOf(s, c, 0))
  BY NodesFinite
<1> HIDE DEF f
<1>6. Cardinality(NodesOf(r, c, 1)) = Cardinality(NodesOf(s, c, 0))
  BY <1>2, <1>3, <1>4, <1>5, SameCount
<1>7. Cardinality(NodesOf(r, c, 0)) =
        IF r[0 + 1] = c THEN Cardinality(NodesOf(r, c, 0 + 1)) + 1
                        ELSE Cardinality(NodesOf(r, c, 0 + 1))
  <2>1. 0 < Len(r)
    BY <1>1
  <2>. QED  BY <1>1, <2>1, NodesNext
<1>. QED  BY <1>1, <1>6, <1>7 DEF r

-----------------------------------------------------------------------------
(* n copies of a datagram behind others.                                    *)
LEMMA RunShape ==
  ASSUME NEW S, NEW m \in S, NEW n \in Nat
  PROVE  Run(m, n) \in Seq(S) /\ Len(Run(m, n)) = n /\ \A i \in 1..n : Run(m, n)[i] = m
BY DEF Run

\* A copy moves from the run to what is before it.
LEMMA RunMoves ==
  ASSUME NEW S, NEW m \in S, NEW n \in Nat, NEW w \in Seq(S)
  PROVE  Append(w, m) \o Run(m, n) = w \o Run(m, n + 1)
<1> DEFINE a == Append(w, m)
           u == Run(m, n)
           v == Run(m, n + 1)
           s == a \o u
           t == w \o v
<1>1. /\ a \in Seq(S) /\ Len(a) = Len(w) + 1 /\ Len(w) \in Nat
      /\ \A i \in 1..Len(w) : a[i] = w[i]
      /\ a[Len(w) + 1] = m
  OBVIOUS
<1>2. /\ u \in Seq(S) /\ Len(u) = n /\ \A i \in 1..n : u[i] = m
      /\ v \in Seq(S) /\ Len(v) = n + 1 /\ \A i \in 1..(n + 1) : v[i] = m
  <2>1. n + 1 \in Nat
    OBVIOUS
  <2>. QED  BY <2>1, RunShape, Zenon
<1> HIDE DEF a, u, v
<1>. a \in Seq(S) /\ u \in Seq(S) /\ v \in Seq(S)
  BY <1>1, <1>2
<1>3. /\ s \in Seq(S) /\ Len(s) = Len(a) + Len(u)
      /\ \A i \in 1..(Len(a) + Len(u)) : s[i] = IF i <= Len(a) THEN a[i] ELSE u[i - Len(a)]
  BY ConcatProperties, Zenon
<1>4. /\ t \in Seq(S) /\ Len(t) = Len(w) + Len(v)
      /\ \A i \in 1..(Len(w) + Len(v)) : t[i] = IF i <= Len(w) THEN w[i] ELSE v[i - Len(w)]
  BY ConcatProperties, Zenon
<1> HIDE DEF s, t
<1>5. ASSUME NEW i \in 1..Len(s) PROVE s[i] = t[i]
  <2>0. i \in 1..(Len(w) + 1 + n) /\ i \in 1..(Len(a) + Len(u)) /\ i \in 1..(Len(w) + Len(v))
    BY <1>1, <1>2, <1>3
  <2>1. CASE i <= Len(w)
    <3>1. i <= Len(a) /\ i \in 1..Len(w)
      BY <1>1, <2>0, <2>1
    <3>2. s[i] = a[i] /\ t[i] = w[i] /\ a[i] = w[i]
      BY <1>1, <1>3, <1>4, <2>0, <2>1, <3>1, Zenon
    <3>. QED  BY <3>2
  <2>2. CASE i > Len(w)
    <3>1. i - Len(w) \in 1..(n + 1)
      BY <1>1, <2>0, <2>2
    <3>2. t[i] = m
      BY <1>1, <1>2, <1>4, <2>0, <2>2, <3>1
    <3>3. CASE i = Len(w) + 1
      BY <1>1, <1>3, <2>0, <3>2, <3>3
    <3>4. CASE i > Len(w) + 1
      <4>1. i - (Len(w) + 1) \in 1..n
        BY <1>1, <2>0, <3>4
      <4>. QED  BY <1>1, <1>2, <1>3, <2>0, <3>2, <3>4, <4>1
    <3>. QED  BY <1>1, <2>0, <2>2, <3>3, <3>4
  <2>. QED  BY <1>1, <2>0, <2>1, <2>2
<1>6. s = t
  <2>1. Len(s) = Len(t)
    BY <1>1, <1>2, <1>3, <1>4
  <2>. QED  BY <1>3, <1>4, <1>5, <2>1, SeqEqual, Zenon
<1>. QED  BY <1>6 DEF a, u, v, s, t

LEMMA BagBelow ==
  ASSUME NEW S, NEW s \in Seq(S), NEW t \in Seq(S), NEW f \in [1..Len(s) -> 1..Len(t)],
         \A i, j \in 1..Len(s) : f[i] = f[j] => i = j,
         \A i \in 1..Len(s) : t[f[i]] = s[i]
  PROVE  ToBag(s) \sqsubseteq ToBag(t)
<1> DEFINE In(q, x) == {i \in DOMAIN q : q[i] = x}
<1>1. DOMAIN s = 1..Len(s) /\ DOMAIN t = 1..Len(t) /\ Len(t) \in Nat
  OBVIOUS
<1>2. Range(s) \subseteq Range(t)
  BY <1>1 DEF Range
<1>3. ASSUME NEW x
      PROVE  Cardinality(In(s, x)) <= Cardinality(In(t, x))
  <2> DEFINE g == [i \in In(s, x) |-> f[i]]
  <2>1. g \in [In(s, x) -> In(t, x)] /\ \A i, j \in In(s, x) : g[i] = g[j] => i = j
    BY <1>1
  <2>2. IsFiniteSet(In(t, x))
    <3>1. IsFiniteSet(DOMAIN t) /\ In(t, x) \in SUBSET DOMAIN t
      <4>1. 1 \in Int /\ Len(t) \in Int
        BY <1>1
      <4>. QED  BY <1>1, <4>1, FS_Interval, Zenon
    <3>. QED  BY <3>1, FS_Subset
  <2> HIDE DEF g
  <2> HIDE DEF In
  <2>3. g \in Injection(In(s, x), In(t, x))
    BY <2>1 DEF Injection, IsInjective
  <2>. QED  BY <2>2, <2>3, FS_Injection
<1>. QED  BY <1>2, <1>3 DEF ToBag, \sqsubseteq

\* A sequence has at most the copies of one it is a part of.
LEMMA BagPrefix ==
  ASSUME NEW S, NEW s \in Seq(S), NEW v \in Seq(S)
  PROVE  ToBag(s) \sqsubseteq ToBag(s \o v)
<1> DEFINE t == s \o v
           f == [i \in 1..Len(s) |-> i]
<1>1. /\ t \in Seq(S) /\ Len(t) = Len(s) + Len(v) /\ Len(s) \in Nat /\ Len(v) \in Nat
      /\ \A i \in 1..(Len(s) + Len(v)) : t[i] = IF i <= Len(s) THEN s[i] ELSE v[i - Len(s)]
  BY ConcatProperties
<1> HIDE DEF t
<1>2. f \in [1..Len(s) -> 1..Len(t)] /\ \A i \in 1..Len(s) : t[f[i]] = s[i]
  BY <1>1
<1>3. \A i, j \in 1..Len(s) : f[i] = f[j] => i = j
  OBVIOUS
<1> HIDE DEF f
<1>4. ToBag(s) \sqsubseteq ToBag(t)
  BY <1>1, <1>2, <1>3, BagBelow
<1>. QED  BY <1>4 DEF t

LEMMA BagSelf ==
  ASSUME NEW S, NEW s \in Seq(S)
  PROVE  ToBag(s) \sqsubseteq ToBag(s)
<1>1. <<>> \in Seq(S) /\ s \o <<>> = s
  BY ConcatEmptySeq
<1>. QED  BY <1>1, BagPrefix

LEMMA BagShrinks ==
  ASSUME NEW S, NEW w \in Seq(S), NEW q \in 1..Len(w), NEW v \in Seq(S)
  PROVE  ToBag(RemoveAt(w, q) \o v) \sqsubseteq ToBag(w \o v)
<1> DEFINE r == RemoveAt(w, q)
           s == r \o v
           t == w \o v
<1>1. /\ r \in Seq(S) /\ Len(r) = Len(w) - 1 /\ Len(w) \in Nat /\ Len(v) \in Nat
      /\ \A j \in 1..(Len(w) - 1) : r[j] = w[IF j < q THEN j ELSE j + 1]
  BY RemovedSeq
<1> HIDE DEF r
<1>2. /\ s \in Seq(S) /\ Len(s) = Len(r) + Len(v)
      /\ \A i \in 1..(Len(r) + Len(v)) : s[i] = IF i <= Len(r) THEN r[i] ELSE v[i - Len(r)]
  BY <1>1, ConcatProperties, Zenon
<1>3. /\ t \in Seq(S) /\ Len(t) = Len(w) + Len(v)
      /\ \A i \in 1..(Len(w) + Len(v)) : t[i] = IF i <= Len(w) THEN w[i] ELSE v[i - Len(w)]
  BY <1>1, ConcatProperties, Zenon
<1> HIDE DEF s, t
<1> DEFINE f == [i \in 1..Len(s) |-> IF i < q THEN i ELSE i + 1]
<1>4. f \in [1..Len(s) -> 1..Len(t)]
  BY <1>1, <1>2, <1>3
<1>5. \A i, j \in 1..Len(s) : f[i] = f[j] => i = j
  BY <1>1, <1>2
<1>6. ASSUME NEW i \in 1..Len(s) PROVE t[f[i]] = s[i]
  <2>0. i \in 1..(Len(r) + Len(v)) /\ f[i] \in 1..(Len(w) + Len(v))
    BY <1>2, <1>3, <1>4
  <2>1. CASE i < q
    <3>1. f[i] = i /\ i <= Len(r) /\ i <= Len(w) /\ i \in 1..(Len(w) - 1)
      BY <1>1, <2>0, <2>1
    <3>2. r[i] = w[i]
      BY <1>1, <2>1, <3>1
    <3>. QED  BY <1>2, <1>3, <2>0, <3>1, <3>2
  <2>2. CASE i >= q /\ i <= Len(w) - 1
    <3>1. f[i] = i + 1 /\ i <= Len(r) /\ i + 1 <= Len(w) /\ i \in 1..(Len(w) - 1) /\ ~(i < q)
      BY <1>1, <2>0, <2>2
    <3>2. r[i] = w[i + 1]
      BY <1>1, <3>1
    <3>. QED  BY <1>2, <1>3, <2>0, <3>1, <3>2
  <2>3. CASE i > Len(w) - 1
    <3>1. f[i] = i + 1 /\ ~(i <= Len(r)) /\ ~(i + 1 <= Len(w)) /\ i + 1 - Len(w) = i - Len(r)
      BY <1>1, <2>0, <2>3
    <3>2. s[i] = v[i - Len(r)]
      BY <1>2, <2>0, <3>1
    <3>3. t[i + 1] = v[i + 1 - Len(w)]
      BY <1>3, <2>0, <3>1
    <3>. QED  BY <3>1, <3>2, <3>3, Zenon
  <2>. QED  BY <1>1, <2>0, <2>1, <2>2, <2>3
<1> HIDE DEF f
<1>7. ToBag(s) \sqsubseteq ToBag(t)
  BY <1>2, <1>3, <1>4, <1>5, <1>6, BagBelow
<1>. QED  BY <1>7 DEF r, s, t

LEMMA TailRemoves ==
  ASSUME NEW S, NEW w \in Seq(S), w # <<>>
  PROVE  Tail(w) = RemoveAt(w, 1) /\ 1 \in 1..Len(w)
<1>1. Len(w) \in Nat \ {0}
  BY EmptySeq
<1>2. /\ RemoveAt(w, 1) \in Seq(S) /\ Len(RemoveAt(w, 1)) = Len(w) - 1
      /\ \A j \in 1..(Len(w) - 1) : RemoveAt(w, 1)[j] = w[IF j < 1 THEN j ELSE j + 1]
  <2>1. 1 \in 1..Len(w)
    BY <1>1
  <2>. QED  BY <2>1, RemovedSeq, Zenon
<1>3. /\ Tail(w) \in Seq(S) /\ Len(Tail(w)) = Len(w) - 1
      /\ \A j \in 1..Len(Tail(w)) : Tail(w)[j] = w[j + 1]
  BY HeadTailProperties, Zenon
<1>4. \A j \in 1..(Len(w) - 1) : Tail(w)[j] = RemoveAt(w, 1)[j]
  BY <1>1, <1>2, <1>3
<1>. QED  BY <1>1, <1>2, <1>3, <1>4, SeqEqual

\* A run behind a sequence is as many copies more.
LEMMA BagRun ==
  ASSUME NEW S, NEW w \in Seq(S), NEW m \in S, NEW n \in Nat
  PROVE  ToBag(w \o Run(m, n)) = IF n > 0 THEN ToBag(w) (+) [x \in {m} |-> n] ELSE ToBag(w)
<1> DEFINE In(q, x) == {i \in DOMAIN q : q[i] = x}
           u == Run(m, n)
           s == w \o u
<1>1. u \in Seq(S) /\ Len(u) = n /\ (\A i \in 1..n : u[i] = m) /\ Len(w) \in Nat
  <2>1. Len(w) \in Nat
    OBVIOUS
  <2>. QED  BY <2>1, RunShape, Zenon
<1> HIDE DEF u
<1>2. /\ s \in Seq(S) /\ Len(s) = Len(w) + Len(u)
      /\ \A i \in 1..(Len(w) + Len(u)) : s[i] = IF i <= Len(w) THEN w[i] ELSE u[i - Len(w)]
  BY <1>1, ConcatProperties, Zenon
<1> HIDE DEF s
<1>3. /\ DOMAIN s = 1..(Len(w) + n) /\ DOMAIN w = 1..Len(w)
      /\ \A i \in 1..Len(w) : i \in 1..(Len(w) + n) /\ s[i] = w[i]
      /\ \A i \in (Len(w) + 1)..(Len(w) + n) : i \in 1..(Len(w) + n) /\ s[i] = m
      /\ \A i \in 1..(Len(w) + n) : i \in 1..Len(w) \/ i \in (Len(w) + 1)..(Len(w) + n)
      /\ \A i \in 1..Len(w) : i \notin (Len(w) + 1)..(Len(w) + n)
  <2>1. ASSUME NEW i \in (Len(w) + 1)..(Len(w) + n)
        PROVE  i \in 1..(Len(w) + n) /\ s[i] = m
    <3>1. i - Len(w) \in 1..n /\ ~(i <= Len(w)) /\ i \in 1..(Len(w) + n)
      BY <1>1
    <3>. QED  BY <1>1, <1>2, <3>1
  <2>2. \A i \in 1..Len(w) : i \in 1..(Len(w) + n) /\ s[i] = w[i]
    BY <1>1, <1>2
  <2>. QED  BY <1>1, <1>2, <2>1, <2>2
<1>4. CASE n = 0
  <2>1. s = w
    BY <1>1, <1>2, <1>3, <1>4, SeqEqual
  <2>2. w \o Run(m, n) = w
    BY <2>1 DEF s, u
  <2>3. ~(n > 0)
    BY <1>4
  <2>. QED  BY <2>2, <2>3, Zenon
<1>5. CASE n > 0
  <2>1. Range(s) = Range(w) \cup {m}
    <3>1. Len(w) + 1 \in (Len(w) + 1)..(Len(w) + n)
      BY <1>1, <1>5
    <3>. QED  BY <1>3, <3>1, Zenon DEF Range
  <2>2. ASSUME NEW x, x # m PROVE In(s, x) = In(w, x)
    BY <1>3, <2>2
  <2>3. Cardinality(In(s, m)) = Cardinality(In(w, m)) + n /\ Cardinality(In(w, m)) \in Nat
    <3> DEFINE I == (Len(w) + 1)..(Len(w) + n)
    <3>1. In(s, m) = In(w, m) \cup I /\ In(w, m) \cap I = {}
      BY <1>3
    <3>2. IsFiniteSet(DOMAIN w) /\ In(w, m) \in SUBSET DOMAIN w
      <4>1. 1 \in Int /\ Len(w) \in Int
        BY <1>1
      <4>. QED  BY <1>3, <4>1, FS_Interval, Zenon
    <3>3. IsFiniteSet(In(w, m)) /\ Cardinality(In(w, m)) \in Nat
      BY <3>2, FS_Subset, FS_CardinalityType
    <3>4. IsFiniteSet(I) /\ Cardinality(I) = n
      <4>1. Len(w) + 1 \in Int /\ Len(w) + n \in Int /\ ~(Len(w) + 1 > Len(w) + n)
            /\ (Len(w) + n) - (Len(w) + 1) + 1 = n
        BY <1>1, <1>5
      <4>. QED  BY <4>1, FS_Interval, Zenon
    <3>5. Cardinality({}) = 0
      BY FS_EmptySet
    <3> HIDE DEF I, In
    <3>6. Cardinality(In(w, m) \cup I) =
            Cardinality(In(w, m)) + Cardinality(I) - Cardinality(In(w, m) \cap I)
      BY <3>3, <3>4, FS_Union
    <3>7. Cardinality(In(s, m)) = Cardinality(In(w, m)) + n - 0
      BY <3>1, <3>4, <3>5, <3>6, Zenon
    <3>. QED  BY <3>3, <3>7
  <2>4. m \notin Range(w) => Cardinality(In(w, m)) = 0
    <3>1. m \notin Range(w) => In(w, m) = {}
      BY DEF Range
    <3> HIDE DEF In
    <3>. QED  BY <3>1, FS_EmptySet
  <2> DEFINE B(x) == Cardinality(In(s, x))
             C(x) == Cardinality(In(w, x))
             D == [x \in {m} |-> n]
  <2>5. ToBag(s) = [x \in Range(s) |-> B(x)] /\ ToBag(w) = [x \in Range(w) |-> C(x)]
    BY DEF ToBag
  <2> HIDE DEF In
  <2>6. ToBag(w) (+) D = [x \in Range(w) \cup {m} |->
          (IF x \in Range(w) THEN C(x) ELSE 0) + (IF x \in {m} THEN n ELSE 0)]
    BY <2>5 DEF (+)
  <2>7. ASSUME NEW x \in Range(w) \cup {m}
        PROVE  B(x) = (IF x \in Range(w) THEN C(x) ELSE 0) + (IF x \in {m} THEN n ELSE 0)
    <3>1. CASE x = m
      BY <2>3, <2>4, <3>1
    <3>2. CASE x # m
      <4>1. Cardinality(In(w, x)) \in Nat
        <5>1. IsFiniteSet(DOMAIN w) /\ In(w, x) \in SUBSET DOMAIN w
          BY <1>1, <1>3, FS_Interval DEF In
        <5>. QED  BY <5>1, FS_Subset, FS_CardinalityType
      <4>. QED  BY <2>2, <3>2, <4>1
    <3>. QED  BY <3>1, <3>2
  <2>8. ToBag(s) = ToBag(w) (+) D
    BY <2>1, <2>5, <2>6, <2>7
  <2>. QED  BY <1>5, <2>8 DEF s, u
<1>. QED  BY <1>4, <1>5

\* Room's operators on bags are those of this module.
LEMMA RoomBags ==
  ASSUME NEW a, NEW b
  PROVE  TheRoom!(+)(a, b) = a (+) b /\ (TheRoom!\sqsubseteq(a, b) <=> a \sqsubseteq b)
BY DEF \sqsubseteq, TheRoom!\sqsubseteq, (+), TheRoom!(+)

-----------------------------------------------------------------------------
(* Each step is a step of Room or none.                                     *)

LEMMA RoomState ==
  ASSUME BaseInv
  PROVE  /\ list \in Seq(Clients) /\ Len(list) \in Nat /\ p \in Nat /\ p <= Len(list)
         /\ msg \in Messages \cup {NoMsg}
         /\ \A c \in Clients : wire[c] \in Seq(Messages) /\ Unsent(c) \in Seq(Messages)
<1>1. /\ list \in Seq(Clients) /\ Len(list) \in Nat /\ p \in Nat /\ p <= Len(list)
      /\ msg \in Messages \cup {NoMsg} /\ wire \in [Clients -> Seq(Messages)]
  BY DEF BaseInv, TypeOK
<1>2. ASSUME NEW c \in Clients PROVE Unsent(c) \in Seq(Messages)
  <2>1. Cardinality(NodesOf(list, c, p)) \in Nat
    BY <1>1, NodesFinite
  <2>2. msg # NoMsg => Run(msg, Cardinality(NodesOf(list, c, p))) \in Seq(Messages)
    BY <1>1, <2>1, RunShape
  <2>3. <<>> \in Seq(Messages)
    OBVIOUS
  <2>. QED  BY <2>2, <2>3, Zenon DEF Unsent
<1>. QED  BY <1>1, <1>2

LEMMA SameRoom ==
  ASSUME UNCHANGED <<list, msg, p, up, wire>>
  PROVE  Members' = Members /\ Copies' = Copies
<1>1. Members' = Members
  BY DEF Members, NodesOf
<1>2. \A c : Unsent(c)' = Unsent(c)
  BY DEF Unsent, NodesOf, Run
<1>. QED  BY <1>1, <1>2 DEF Copies

LEMMA SameCopies ==
  ASSUME \A c \in Clients : wire'[c] \o Unsent(c)' = wire[c] \o Unsent(c)
  PROVE  Copies' = Copies
BY DEF Copies

\* What is sent to the server.
LEMMA SendStep ==
  ASSUME BaseInv, [Next]_vars,
         (\E c \in Clients : Login(c) \/ Text(c) \/ Quit(c) \/ KillParent(c)) \/ ServerText
  PROVE  (\E m \in Messages : TheRoom!Send(m)) \/ UNCHANGED TheRoom!roomVars
<1>1. UNCHANGED <<list, msg, p, up, wire>>
  BY DEF Login, Text, Quit, KillParent, ServerText, serverVars
<1>2. Members' = Members /\ Copies' = Copies /\ up' = up
  BY <1>1, SameRoom
<1>3. (\E m \in Messages : net' = net \cup {m}) \/ net' = net
  <2>1. CASE \E c \in Clients : Login(c)
    BY <2>1, Sending DEF Login
  <2>2. CASE \E c \in Clients : Text(c)
    BY <2>2, Sending DEF Text
  <2>3. CASE \E c \in Clients : Quit(c)
    BY <2>3, Sending DEF Quit
  <2>4. CASE ServerText
    BY <2>4, Sending DEF ServerText
  <2>5. CASE \E c \in Clients : KillParent(c)
    BY <2>5 DEF KillParent
  <2>. QED  BY <2>1, <2>2, <2>3, <2>4, <2>5
<1>. QED  BY <1>2, <1>3 DEF TheRoom!Send, TheRoom!roomVars

\* recvfrom begins what Room does at once: all copies are yet to be sent.
LEMMA HandleStep ==
  ASSUME BaseInv, NEW m \in net, Recvfrom(m)
  PROVE  m \in Messages /\ TheRoom!Handle(m)
<1>1. /\ up /\ net' = net \ {m} /\ msg = NoMsg /\ msg' = m /\ p' = 0 /\ m \in Messages
      /\ list' = IF m.type = "L" THEN <<m.from>> \o list ELSE list
      /\ UNCHANGED <<up, wire>> /\ m # NoMsg
  BY MsgShape DEF Recvfrom, insert_data, BaseInv, TypeOK
<1>2. m.type \in {"L", "B", "Q"} /\ (m.type = "L" => m.from \in Clients)
  BY <1>1, MsgShape
<1> DEFINE N(c) == Cardinality(NodesOf(list, c, 0))
<1>3. ASSUME NEW c
      PROVE  Cardinality(NodesOf(list', c, 0)) = IF m.type = "L" /\ m.from = c THEN N(c) + 1 ELSE N(c)
  <2>1. CASE m.type = "L"
    <3>1. list \in Seq(Clients) /\ m.from \in Clients
      BY <1>2, <2>1, RoomState
    <3>. QED  BY <1>1, <2>1, <3>1, NodesPushed
  <2>2. CASE m.type # "L"
    BY <1>1, <2>2
  <2>. QED  BY <2>1, <2>2
<1>4. ASSUME NEW c \in Clients
      PROVE  N(c) \in Nat /\ Members[c] = N(c)
  <2>1. N(c) \in Nat
    BY RoomState, NodesFinite
  <2>. QED  BY <1>1, <2>1 DEF Members
<1>5. ASSUME NEW c \in Clients
      PROVE  Members'[c] = IF m.type = "Q" /\ m.from = c THEN 0
                           ELSE IF m.type = "L" /\ m.from = c THEN N(c) + 1 ELSE N(c)
  BY <1>1, <1>3, Zenon DEF Members
<1>6. Members' = TheRoom!Entries(m)
  <2>1. ASSUME NEW c \in Clients
        PROVE  Members'[c] = IF c # m.from THEN Members[c]
                             ELSE CASE m.type = "L" -> Members[c] + 1
                                    [] m.type = "B" -> Members[c]
                                    [] m.type = "Q" -> 0
    BY <1>2, <1>4, <1>5
  <2>2. Members' = [c \in Clients |-> Members'[c]]
    BY DEF Members
  <2>. QED  BY <2>1, <2>2, Zenon DEF TheRoom!Entries
<1>7. ASSUME NEW c \in Clients
      PROVE  Copies'[c] = IF c # m.from /\ Members[c] > 0
                          THEN Copies[c] (+) [x \in {m} |-> Members[c]] ELSE Copies[c]
  <2>1. wire[c] \in Seq(Messages) /\ wire[c] \o <<>> = wire[c]
    BY RoomState, ConcatEmptySeq
  <2>2. Unsent(c) = <<>> /\ Copies[c] = ToBag(wire[c])
    BY <1>1, <2>1 DEF Copies, Unsent
  <2>3. CASE c = m.from
    <3>1. Unsent(c)' = <<>>
      BY <1>1, <2>3 DEF Unsent
    <3>2. Copies'[c] = ToBag(wire[c] \o <<>>)
      BY <1>1, <3>1 DEF Copies
    <3>. QED  BY <2>1, <2>2, <2>3, <3>2
  <2>4. CASE c # m.from
    <3>1. Cardinality(NodesOf(list', c, 0)) = N(c)
      BY <1>3, <2>4
    <3>2. Unsent(c)' = Run(m, N(c))
      BY <1>1, <2>4, <3>1 DEF Unsent
    <3>3. Copies'[c] = ToBag(wire[c] \o Run(m, N(c)))
      BY <1>1, <3>2 DEF Copies
    <3> HIDE DEF N
    <3>4. ToBag(wire[c] \o Run(m, N(c))) =
            IF N(c) > 0 THEN ToBag(wire[c]) (+) [x \in {m} |-> N(c)] ELSE ToBag(wire[c])
      BY <1>1, <1>4, <2>1, BagRun
    <3>. QED  BY <1>4, <2>2, <2>4, <3>3, <3>4
  <2>. QED  BY <2>3, <2>4
<1>8. Copies' = [c \in Clients |->
        IF c # m.from /\ Members[c] > 0
        THEN TheRoom!(+)(Copies[c], [x \in {m} |-> Members[c]]) ELSE Copies[c]]
  <2>1. Copies' = [c \in Clients |-> Copies'[c]]
    BY DEF Copies
  <2>2. ASSUME NEW c \in Clients
        PROVE  Copies'[c] = IF c # m.from /\ Members[c] > 0
                 THEN TheRoom!(+)(Copies[c], [x \in {m} |-> Members[c]]) ELSE Copies[c]
    BY <1>7, RoomBags, Zenon
  <2>. QED  BY <2>1, <2>2, Zenon
<1>. QED  BY <1>1, <1>6, <1>8 DEF TheRoom!Handle

\* A turn sends one of the copies, or ends the server and all of them vanish.
LEMMA SendToStep ==
  ASSUME BaseInv, up, msg # NoMsg, p < Len(list), list[p + 1] # msg.from,
         SendTo(list[p + 1]), UNCHANGED <<net, list, msg>>
  PROVE  TheRoom!Vanish \/ UNCHANGED TheRoom!roomVars
<1> DEFINE d == list[p + 1]
           K(c) == Cardinality(NodesOf(list, c, p + 1))
<1>1. /\ list \in Seq(Clients) /\ Len(list) \in Nat /\ p \in Nat /\ msg \in Messages
      /\ \A c \in Clients : wire[c] \in Seq(Messages) /\ Unsent(c) \in Seq(Messages)
  BY RoomState
<1>2. Members' = Members
  BY DEF Members, NodesOf
<1>3. CASE /\ wire' = [wire EXCEPT ![d] = Append(@, msg)]
           /\ p' = p + 1 /\ up' = up
  <2>1. ASSUME NEW c \in Clients
        PROVE  wire'[c] \o Unsent(c)' = wire[c] \o Unsent(c)
    <3>1. K(c) \in Nat /\ Cardinality(NodesOf(list, c, p)) = IF d = c THEN K(c) + 1 ELSE K(c)
      <4>1. Cardinality(NodesOf(list, c, p)) = IF d = c THEN K(c) + 1 ELSE K(c)
        <5>1. list \in Seq(Clients) /\ p \in Nat /\ p < Len(list)
          BY <1>1
        <5>. QED  BY <5>1, NodesNext
      <4>2. K(c) \in Nat
        BY <1>1, NodesFinite, Zenon
      <4>. QED  BY <4>1, <4>2
    <3>2. Unsent(c)' = IF msg.from # c THEN Run(msg, K(c)) ELSE <<>>
      BY <1>3 DEF Unsent
    <3>3. Unsent(c) = IF msg.from # c THEN Run(msg, Cardinality(NodesOf(list, c, p))) ELSE <<>>
      BY DEF Unsent
    <3> HIDE DEF K
    <3>4. CASE d = c
      <4>1. wire'[c] = Append(wire[c], msg)
        BY <1>3, <3>4 DEF BaseInv, TypeOK
      <4>2. msg.from # c /\ Unsent(c)' = Run(msg, K(c)) /\ Unsent(c) = Run(msg, K(c) + 1)
        BY <3>1, <3>2, <3>3, <3>4
      <4>3. Append(wire[c], msg) \o Run(msg, K(c)) = wire[c] \o Run(msg, K(c) + 1)
        BY <1>1, <3>1, RunMoves
      <4>. QED  BY <4>1, <4>2, <4>3
    <3>5. CASE d # c
      <4>1. wire'[c] = wire[c]
        BY <1>3, <3>5 DEF BaseInv, TypeOK
      <4>2. Unsent(c)' = Unsent(c)
        BY <3>1, <3>2, <3>3, <3>5
      <4>. QED  BY <4>1, <4>2
    <3>. QED  BY <3>4, <3>5
  <2>2. Copies' = Copies
    BY <2>1, SameCopies
  <2>. QED  BY <1>2, <1>3, <2>2 DEF TheRoom!roomVars
<1>4. CASE up' = FALSE /\ UNCHANGED <<wire, p>>
  <2>1. ASSUME NEW c \in Clients PROVE TheRoom!\sqsubseteq(Copies'[c], Copies[c])
    <3>1. Unsent(c)' = <<>>
      BY <1>4 DEF Unsent
    <3>2. Copies'[c] = ToBag(wire[c] \o <<>>) /\ Copies[c] = ToBag(wire[c] \o Unsent(c))
      BY <1>4, <3>1 DEF Copies
    <3>3. wire[c] \o <<>> = wire[c]
      BY <1>1, ConcatEmptySeq
    <3>4. ToBag(wire[c]) \sqsubseteq ToBag(wire[c] \o Unsent(c))
      BY <1>1, BagPrefix
    <3>. QED  BY <3>2, <3>3, <3>4, RoomBags
  <2>. QED  BY <1>2, <1>4, <2>1 DEF TheRoom!Vanish
<1>. QED  BY <1>3, <1>4 DEF SendTo

LEMMA TurnStep ==
  ASSUME BaseInv, Relay \/ QuitTurn \/ Handled
  PROVE  TheRoom!Vanish \/ UNCHANGED TheRoom!roomVars
<1>1. /\ list \in Seq(Clients) /\ Len(list) \in Nat /\ p \in Nat /\ p <= Len(list)
      /\ msg \in Messages \cup {NoMsg}
      /\ \A c \in Clients : wire[c] \in Seq(Messages) /\ Unsent(c) \in Seq(Messages)
  BY RoomState
<1>2. up /\ msg # NoMsg /\ net' = net
  BY DEF Relay, QuitTurn, Handled, Handling
<1>3. CASE /\ Relay \/ QuitTurn
           /\ list[p + 1] # msg.from
  <2>1. p < Len(list) /\ SendTo(list[p + 1]) /\ UNCHANGED <<net, list, msg>>
    BY <1>3 DEF Relay, QuitTurn, Handling
  <2>. QED  BY <1>2, <1>3, <2>1, SendToStep
<1>4. CASE Relay /\ list[p + 1] = msg.from
  <2>1. p < Len(list) /\ p' = p + 1 /\ UNCHANGED <<wire, up, net, list, msg>>
    BY <1>4 DEF Relay, Handling
  <2>2. Members' = Members
    BY <2>1 DEF Members, NodesOf
  <2>3. ASSUME NEW c \in Clients PROVE Unsent(c)' = Unsent(c)
    <3>1. c # msg.from => Cardinality(NodesOf(list, c, p)) = Cardinality(NodesOf(list, c, p + 1))
      BY <1>1, <1>4, <2>1, NodesNext
    <3>2. Unsent(c)' = IF msg.from # c THEN Run(msg, Cardinality(NodesOf(list, c, p + 1))) ELSE <<>>
      BY <1>2, <2>1 DEF Unsent
    <3>3. Unsent(c) = IF msg.from # c THEN Run(msg, Cardinality(NodesOf(list, c, p))) ELSE <<>>
      BY <1>2 DEF Unsent
    <3>. QED  BY <3>1, <3>2, <3>3
  <2>4. Copies' = Copies
    BY <2>1, <2>3, SameCopies
  <2>. QED  BY <2>1, <2>2, <2>4 DEF TheRoom!roomVars
<1>5. CASE QuitTurn /\ list[p + 1] = msg.from
  <2>1. /\ p < Len(list) /\ p + 1 \in 1..Len(list) /\ msg.type = "Q"
        /\ list' = RemoveAt(list, p + 1) /\ UNCHANGED <<p, wire, up, net, msg>>
    BY <1>1, <1>5 DEF QuitTurn, Handling
  <2>2. ASSUME NEW c, c # msg.from
        PROVE  /\ Cardinality(NodesOf(list', c, 0)) = Cardinality(NodesOf(list, c, 0))
               /\ Cardinality(NodesOf(list', c, p)) = Cardinality(NodesOf(list, c, p))
    <3>1. 0 \in Nat /\ 0 < p + 1 /\ p < p + 1 /\ list[p + 1] # c
      BY <1>1, <1>5, <2>2
    <3>. QED  BY <1>1, <2>1, <3>1, NodesRemoved
  <2>3. Members' = Members
    BY <1>2, <2>1, <2>2 DEF Members
  <2>4. ASSUME NEW c \in Clients PROVE Unsent(c)' = Unsent(c)
    BY <1>2, <2>1, <2>2 DEF Unsent
  <2>5. Copies' = Copies
    BY <2>1, <2>4, SameCopies
  <2>. QED  BY <2>1, <2>3, <2>5 DEF TheRoom!roomVars
<1>6. CASE Handled
  <2>1. p = Len(list) /\ msg' = NoMsg /\ UNCHANGED <<list, up, wire, net>>
    BY <1>6 DEF Handled
  <2>2. ASSUME NEW c, msg.type = "Q", msg.from = c
        PROVE  Cardinality(NodesOf(list, c, 0)) = 0
    <3>1. NodesOf(list, c, 0) = {}
      BY <1>1, <1>2, <2>1, <2>2 DEF NodesOf, BaseInv, LoopInv
    <3>. QED  BY <3>1, FS_EmptySet
  <2>3. Members' = Members
    BY <1>2, <2>1, <2>2 DEF Members
  <2>4. ASSUME NEW c \in Clients PROVE Unsent(c)' = Unsent(c)
    <3>1. Unsent(c)' = <<>>
      BY <2>1 DEF Unsent
    <3>2. NodesOf(list, c, p) = {}
      BY <1>1, <2>1 DEF NodesOf
    <3>3. Run(msg, 0) = <<>>
      BY DEF Run
    <3>4. Unsent(c) = <<>>
      BY <3>2, <3>3, FS_EmptySet DEF Unsent
    <3>. QED  BY <3>1, <3>4
  <2>5. Copies' = Copies
    BY <2>1, <2>4, SameCopies
  <2>. QED  BY <2>1, <2>3, <2>5 DEF TheRoom!roomVars
<1>. QED  BY <1>3, <1>4, <1>5, <1>6

\* A datagram leaves the wire of a client.
LEMMA TakenStep ==
  ASSUME BaseInv, NEW c \in Clients, NEW i \in 1..Len(wire[c]),
         wire' = [wire EXCEPT ![c] = RemoveAt(@, i)], UNCHANGED <<net, serverVars>>
  PROVE  TheRoom!Vanish
<1>1. wire \in [Clients -> Seq(Messages)] /\ \A d \in Clients : Unsent(d) \in Seq(Messages)
  BY RoomState DEF BaseInv, TypeOK
<1>2. Members' = Members /\ UNCHANGED <<up, net>> /\ \A d : Unsent(d)' = Unsent(d)
  BY DEF serverVars, Members, Unsent, NodesOf, Run
<1>3. ASSUME NEW d \in Clients PROVE TheRoom!\sqsubseteq(Copies'[d], Copies[d])
  <2>1. /\ Copies'[d] = ToBag(wire'[d] \o Unsent(d)) /\ Copies[d] = ToBag(wire[d] \o Unsent(d))
        /\ wire[d] \in Seq(Messages)
    BY <1>1, <1>2 DEF Copies
  <2>2. CASE d = c
    <3>1. wire'[d] = RemoveAt(wire[d], i) /\ i \in 1..Len(wire[d])
      BY <1>1, <2>2
    <3>2. ToBag(RemoveAt(wire[d], i) \o Unsent(d)) \sqsubseteq ToBag(wire[d] \o Unsent(d))
      BY <1>1, <2>1, <3>1, BagShrinks
    <3>. QED  BY <2>1, <3>1, <3>2, RoomBags
  <2>3. CASE d # c
    <3>1. wire'[d] = wire[d]
      BY <1>1, <2>3
    <3>2. wire[d] \o Unsent(d) \in Seq(Messages)
      BY <1>1, <2>1, ConcatProperties
    <3>3. ToBag(wire[d] \o Unsent(d)) \sqsubseteq ToBag(wire[d] \o Unsent(d))
      BY <3>2, BagSelf
    <3>. QED  BY <2>1, <3>1, <3>3, RoomBags
  <2>. QED  BY <2>2, <2>3
<1>. QED  BY <1>2, <1>3 DEF TheRoom!Vanish

LEMMA NetStep ==
  ASSUME BaseInv, Lose \/ \E c \in Clients : Receive(c) \/ Discard(c)
  PROVE  TheRoom!Vanish \/ \E m \in Messages : TheRoom!Lose(m)
<1>1. CASE \E c \in Clients : \E i \in 1..Len(wire[c]) :
             wire' = [wire EXCEPT ![c] = RemoveAt(@, i)] /\ UNCHANGED <<net, serverVars>>
  BY <1>1, TakenStep
<1>2. CASE \E m \in net : net' = net \ {m} /\ UNCHANGED <<wire, serverVars>>
  <2>1. PICK m \in net : net' = net \ {m} /\ UNCHANGED <<wire, serverVars>>
    BY <1>2
  <2>2. m \in Messages
    BY DEF BaseInv, TypeOK
  <2>3. Members' = Members /\ Copies' = Copies /\ up' = up
    BY <2>1, SameRoom DEF serverVars
  <2>. QED  BY <2>1, <2>2, <2>3 DEF TheRoom!Lose
<1>3. CASE \E c \in Clients : Discard(c)
  <2>1. PICK c \in Clients : /\ wire[c] # <<>> /\ wire' = [wire EXCEPT ![c] = Tail(@)]
                             /\ UNCHANGED <<net, serverVars>>
    BY <1>3 DEF Discard
  <2>2. wire \in [Clients -> Seq(Messages)] /\ wire[c] \in Seq(Messages)
    BY DEF BaseInv, TypeOK
  <2>3. Tail(wire[c]) = RemoveAt(wire[c], 1) /\ 1 \in 1..Len(wire[c])
    BY <2>1, <2>2, TailRemoves
  <2>4. wire' = [wire EXCEPT ![c] = RemoveAt(@, 1)]
    BY <2>1, <2>3
  <2>. QED  BY <1>1, <2>1, <2>3, <2>4
<1>4. CASE \E c \in Clients : Receive(c)
  BY <1>1, <1>4 DEF Receive
<1>5. CASE Lose
  BY <1>1, <1>2, <1>5 DEF Lose
<1>. QED  BY <1>3, <1>4, <1>5

(* The loops of s.c over the list, turn by turn, implement Room, where handling
   a datagram is atomic: whatever the network loses or reorders and wherever the
   server dies, each entry of another address is served once. *)
THEOREM ImplementsRoom == Spec => RoomSpec
<1>1. Init => TheRoom!Init
  <2> SUFFICES ASSUME Init PROVE TheRoom!Init
    OBVIOUS
  <2>1. list = <<>> /\ msg = NoMsg /\ net = {} /\ up = TRUE /\ wire = [c \in Clients |-> <<>>]
    BY DEF Init
  <2>2. \A c : NodesOf(list, c, 0) = {}
    BY <2>1 DEF NodesOf
  <2>3. Members = [c \in Clients |-> 0]
    BY <2>1, <2>2, FS_EmptySet DEF Members
  <2>4. ToBag(<<>>) = TheRoom!EmptyBag
    BY DEF ToBag, Range, TheRoom!EmptyBag, TheRoom!SetToBag
  <2>5. \A c \in Clients : wire[c] \o Unsent(c) = <<>>
    <3>1. <<>> \o <<>> = <<>>
      BY ConcatEmptySeq, EmptySeq
    <3>. QED  BY <2>1, <3>1 DEF Unsent
  <2>6. Copies = [c \in Clients |-> TheRoom!EmptyBag]
    BY <2>4, <2>5 DEF Copies
  <2>. QED  BY <2>1, <2>3, <2>6 DEF TheRoom!Init
<1>2. RoomInv /\ [Next]_vars => [TheRoom!Next]_(TheRoom!roomVars)
  <2> SUFFICES ASSUME BaseInv, [Next]_vars
               PROVE  TheRoom!Next \/ UNCHANGED TheRoom!roomVars
    BY InvIsRoomInv DEF InvNow
  <2>1. CASE (\E c \in Clients : Login(c) \/ Text(c) \/ Quit(c) \/ KillParent(c)) \/ ServerText
    BY <2>1, SendStep DEF TheRoom!Next
  <2>2. CASE \E m \in net : Recvfrom(m)
    BY <2>2, HandleStep DEF TheRoom!Next
  <2>3. CASE Relay \/ QuitTurn \/ Handled
    BY <2>3, TurnStep DEF TheRoom!Next
  <2>4. CASE Lose \/ \E c \in Clients : Receive(c) \/ Discard(c)
    BY <2>4, NetStep DEF TheRoom!Next
  <2>5. CASE UNCHANGED vars
    <3>1. UNCHANGED <<net, list, msg, p, up, wire>>
      BY <2>5 DEF vars, serverVars
    <3>2. Members' = Members /\ Copies' = Copies
      BY <3>1, SameRoom
    <3>. QED  BY <3>1, <3>2 DEF TheRoom!roomVars
  <2>. QED  BY <2>1, <2>2, <2>3, <2>4, <2>5, Zenon DEF Next, ServerStep
<1>. QED  BY <1>1, <1>2, RoomInvariance, PTL DEF Spec, RoomSpec, TheRoom!Spec
=============================================================================
