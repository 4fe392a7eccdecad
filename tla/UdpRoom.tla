------------------------------- MODULE UdpRoom -------------------------------
(***************************************************************************)
(* The UDP chat of socket/: one server (s.c), whose parent process keeps a *)
(* list of addresses and relays datagrams to them and whose child sends    *)
(* what its user types to the server's own address; and clients (c.c),     *)
(* whose child process sends and whose parent process receives.            *)
(*                                                                          *)
(* A step of the server is a recvfrom with the switch on msg.type, or one  *)
(* turn of a loop over the list.  The network may lose a datagram and, if  *)
(* `reorders', deliver it after a later one of the same sender.            *)
(***************************************************************************)
EXTENDS Naturals, Sequences, FiniteSets, SequencesExt

CONSTANTS
  Clients,      \* addresses clients send from
  Server,       \* the address the server is bound to
  NoMsg,        \* the server waits in recvfrom
  MaxSent,      \* bound: datagrams sent to the server
  MaxLogins,    \* bound: client processes that use one address
  MaxLost       \* bound: datagrams the network loses

Senders == Clients \cup {Server}

\* n numbers the datagrams in the order they are sent and tells them apart.
Messages == [type : {"L", "B", "Q"}, from : Clients, n : 1..MaxSent]
              \cup [type : {"B"}, from : {Server}, n : 1..MaxSent]

ASSUME UdpAssumption ==
  /\ Server \notin Clients /\ NoMsg \notin Messages
  /\ MaxSent \in Nat /\ MaxLogins \in Nat /\ MaxLost \in Nat

VARIABLES
  phase,     \* of the process that uses each address
  logins,    \* how many processes have used it
  sent,      \* how many datagrams were sent to the server
  net,       \* datagrams on their way to the server
  list,      \* the addresses on the list after H, first to last
  msg,       \* the datagram being handled
  p,         \* nodes the loop over the list has passed
  up,        \* the server has not called exit
  wire,      \* datagrams on their way to each client, in the order sent
  seen,      \* texts each client has shown, in order
  lost,      \* how many datagrams the network has lost
  reorders   \* whether it may reorder: in a behaviour it always may or never

clientVars == <<phase, logins, sent>>
serverVars == <<list, msg, p, up>>
netVars == <<lost, reorders>>
vars == <<clientVars, net, serverVars, wire, seen, netVars>>

TypeOK ==
  /\ phase \in [Clients -> {"new", "in", "quitting", "out"}]
  /\ logins \in [Clients -> 0..MaxLogins]
  /\ sent \in 0..MaxSent
  /\ net \subseteq Messages
  /\ list \in Seq(Clients)
  /\ msg \in Messages \cup {NoMsg}
  /\ p \in 0..Len(list)
  /\ up \in BOOLEAN
  /\ wire \in [Clients -> Seq(Messages)]
  /\ seen \in [Clients -> Seq(Messages)]
  /\ lost \in 0..MaxLost /\ reorders \in BOOLEAN

Init ==
  /\ phase = [c \in Clients |-> "new"]
  /\ logins = [c \in Clients |-> 0]
  /\ sent = 0
  /\ net = {}
  /\ list = <<>> /\ msg = NoMsg /\ p = 0 /\ up = TRUE
  /\ wire = [c \in Clients |-> <<>>]
  /\ seen = [c \in Clients |-> <<>>]
  /\ lost = 0 /\ reorders \in BOOLEAN

-----------------------------------------------------------------------------
(* Sending: the clients' main and child, and the server's child.            *)

SendToServer(a, type) ==
  /\ sent < MaxSent
  /\ sent' = sent + 1
  /\ net' = net \cup {[type |-> type, from |-> a, n |-> sent + 1]}

Phase(c, from, to) == phase[c] \in from /\ phase' = [phase EXCEPT ![c] = to]

\* A process may get the port of one that is gone.
Login(c) ==
  /\ Phase(c, {"new", "out"}, "in")
  /\ logins[c] < MaxLogins
  /\ logins' = [logins EXCEPT ![c] = @ + 1]
  /\ SendToServer(c, "L")
  /\ UNCHANGED <<serverVars, wire, seen, netVars>>

Text(c) ==
  /\ phase[c] = "in"
  /\ SendToServer(c, "B")
  /\ UNCHANGED <<phase, logins, serverVars, wire, seen, netVars>>

Quit(c) ==
  /\ Phase(c, {"in"}, "quitting")
  /\ SendToServer(c, "Q")
  /\ UNCHANGED <<logins, serverVars, wire, seen, netVars>>

\* The child kills the parent, which receives no more.
KillParent(c) ==
  /\ Phase(c, {"quitting"}, "out")
  /\ UNCHANGED <<logins, sent, net, serverVars, wire, seen, netVars>>

ServerText ==
  /\ SendToServer(Server, "B")
  /\ UNCHANGED <<phase, logins, serverVars, wire, seen, netVars>>

-----------------------------------------------------------------------------
(* The server's parent process.                                             *)

InOrder(m) == \A x \in net : x.from = m.from => m.n <= x.n

insert_data(c) == <<c>> \o list

Recvfrom(m) ==
  /\ up /\ msg = NoMsg
  /\ m \in net /\ (reorders \/ InOrder(m))
  /\ net' = net \ {m}
  /\ msg' = m /\ p' = 0
  /\ list' = IF m.type = "L" THEN insert_data(m.from) ELSE list
  /\ UNCHANGED <<clientVars, up, wire, seen, netVars>>

Handling(types) == up /\ msg # NoMsg /\ msg.type \in types /\ p < Len(list)

\* sendto either sends, or fails and ends the server.
SendTo(c) ==
  \/ /\ wire' = [wire EXCEPT ![c] = Append(@, msg)]
     /\ p' = p + 1
     /\ UNCHANGED up
  \/ /\ up' = FALSE
     /\ UNCHANGED <<wire, p>>

\* Seeded fault: the sender is served as well.
RelayEchoes ==
  /\ Handling({"L", "B"})
  /\ SendTo(list[p + 1])
  /\ UNCHANGED <<clientVars, net, list, msg, seen, netVars>>

\* process_login and process_broadcast: the same loop.
Relay ==
  /\ Handling({"L", "B"})
  /\ IF list[p + 1] = msg.from THEN p' = p + 1 /\ UNCHANGED <<wire, up>>
                               ELSE SendTo(list[p + 1])
  /\ UNCHANGED <<clientVars, net, list, msg, seen, netVars>>

\* Seeded fault: the node is not unlinked.
QuitTurnKeeps ==
  /\ Handling({"Q"})
  /\ IF list[p + 1] = msg.from THEN p' = p + 1 /\ UNCHANGED <<wire, up>>
                               ELSE SendTo(list[p + 1])
  /\ UNCHANGED <<clientVars, net, list, msg, seen, netVars>>

QuitTurn ==
  /\ Handling({"Q"})
  /\ IF list[p + 1] = msg.from
     THEN list' = RemoveAt(list, p + 1) /\ UNCHANGED <<p, wire, up>>
     ELSE SendTo(list[p + 1]) /\ UNCHANGED list
  /\ UNCHANGED <<clientVars, net, msg, seen, netVars>>

\* Seeded fault: the loop stops before the last node.
HandledEarly ==
  /\ up /\ msg # NoMsg /\ p + 1 >= Len(list)
  /\ msg' = NoMsg /\ p' = 0
  /\ UNCHANGED <<clientVars, net, list, up, wire, seen, netVars>>

Handled ==
  /\ up /\ msg # NoMsg /\ p = Len(list)
  /\ msg' = NoMsg /\ p' = 0
  /\ UNCHANGED <<clientVars, net, list, up, wire, seen, netVars>>

ServerStep == (\E m \in net : Recvfrom(m)) \/ Relay \/ QuitTurn \/ Handled

-----------------------------------------------------------------------------
(* Receiving: the clients' parent.                                          *)

Receive(c) ==
  /\ phase[c] \in {"in", "quitting"}
  /\ \E i \in 1..Len(wire[c]) :
       /\ reorders \/ i = 1
       /\ wire' = [wire EXCEPT ![c] = RemoveAt(@, i)]
       /\ seen' = IF wire[c][i].type = "B"
                  THEN [seen EXCEPT ![c] = Append(@, wire[c][i])] ELSE seen
  /\ UNCHANGED <<clientVars, net, serverVars, netVars>>

\* Nobody is bound to the address.
Discard(c) ==
  /\ phase[c] = "out" /\ wire[c] # <<>>
  /\ wire' = [wire EXCEPT ![c] = Tail(@)]
  /\ UNCHANGED <<clientVars, net, serverVars, seen, netVars>>

-----------------------------------------------------------------------------
(* The network.                                                             *)

Lose ==
  /\ lost < MaxLost
  /\ lost' = lost + 1
  /\ \/ \E m \in net : net' = net \ {m} /\ UNCHANGED wire
     \/ \E c \in Clients : \E i \in 1..Len(wire[c]) :
          wire' = [wire EXCEPT ![c] = RemoveAt(@, i)] /\ UNCHANGED net
  /\ UNCHANGED <<clientVars, serverVars, seen, reorders>>

Next ==
  \/ \E c \in Clients : Login(c) \/ Text(c) \/ Quit(c) \/ KillParent(c)
                        \/ Receive(c) \/ Discard(c)
  \/ ServerText \/ ServerStep
  \/ Lose
  \/ UNCHANGED vars     \* users need not type

(* The server's parent and the clients' parents run; users need not type. *)
Spec ==
  /\ Init /\ [][Next]_vars
  /\ WF_vars(ServerStep)
  /\ \A c \in Clients : WF_vars(Receive(c)) /\ WF_vars(KillParent(c))

-----------------------------------------------------------------------------
\* The nodes of l after the k-th that hold c, and n copies of m.
NodesOf(l, c, k) == {i \in 1..Len(l) : i > k /\ l[i] = c}
Run(m, n) == [i \in 1..n |-> m]

\* The copies of msg the loop has yet to send to c.
Unsent(c) ==
  IF up /\ msg # NoMsg /\ msg.from # c
  THEN Run(msg, Cardinality(NodesOf(list, c, p))) ELSE <<>>

\* A quit takes every entry at once.
Members ==
  [c \in Clients |->
     IF msg # NoMsg /\ msg.type = "Q" /\ msg.from = c THEN 0
     ELSE Cardinality(NodesOf(list, c, 0))]

Copies == [c \in Clients |-> ToBag(wire[c] \o Unsent(c))]

TheRoom == INSTANCE Room WITH members <- Members, copies <- Copies

(* Turn by turn over a list that changes under the loop, and with a server
   that may die in any turn, the server still does what Room promises: it
   serves every entry of every other address once, even after a lost quit
   left an address on the list twice. *)
RoomSpec == TheRoom!Spec

-----------------------------------------------------------------------------
\* The network neither loses nor reorders anything.
Reliable == lost = 0 /\ ~reorders

(* On a reliable network, when nothing is under way, the list has one node for
   each client that has logged in and not quit, and no other. *)
Membership ==
  Reliable /\ up /\ msg = NoMsg /\ net = {} =>
    /\ ToSet(list) = {c \in Clients : phase[c] = "in"}
    /\ IsInjective(list)

-----------------------------------------------------------------------------
\* c is on the list and no quit of c is on its way to the server.
Settled(c) ==
  /\ c \in ToSet(list) /\ phase[c] = "in"
  /\ \A x \in net \cup {msg} : x # NoMsg => ~(x.type = "Q" /\ x.from = c)

Told(c, n) == \E m \in ToSet(seen[c]) : m.n = n

(* A text on its way to the server is shown to every other client that is on
   the list, reordered or not, unless that client quits, the server dies or the
   network loses something first.  (The first datagram finds nobody settled.) *)
DeliveredTo(c) ==
  \A n \in 2..MaxSent :
    (\E m \in net : m.n = n /\ m.type = "B" /\ m.from # c) /\ Settled(c) ~>
      Told(c, n) \/ phase[c] # "in" \/ ~up \/ lost > 0
=============================================================================
