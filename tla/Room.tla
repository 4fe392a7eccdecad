-------------------------------- MODULE Room --------------------------------
(***************************************************************************)
(* What the UDP chat server promises: it handles one datagram at a time,   *)
(* and handling one is atomic.  Each entry an address has in the room gets *)
(* one copy of every datagram handled, unless the address sent it; a login *)
(* adds one entry and a quit takes all of them away.  Copies may vanish,   *)
(* for the receiver read them, the network lost them or the server died    *)
(* before it sent them.                                                    *)
(***************************************************************************)
EXTENDS Naturals, Bags

CONSTANTS Clients, Messages

VARIABLES
  net,        \* datagrams on their way to the server
  members,    \* number of entries of each address
  copies,     \* datagrams on their way to each address, a bag
  up          \* the server is running

roomVars == <<net, members, copies, up>>

Init ==
  /\ net = {}
  /\ members = [c \in Clients |-> 0]
  /\ copies = [c \in Clients |-> EmptyBag]
  /\ up = TRUE

Send(m) == net' = net \cup {m} /\ UNCHANGED <<members, copies, up>>
Lose(m) == net' = net \ {m} /\ UNCHANGED <<members, copies, up>>

Entries(m) ==
  [c \in Clients |->
     IF c # m.from THEN members[c]
     ELSE CASE m.type = "L" -> members[c] + 1
            [] m.type = "B" -> members[c]
            [] m.type = "Q" -> 0]

Handle(m) ==
  /\ up /\ m \in net
  /\ net' = net \ {m}
  /\ members' = Entries(m)
  /\ copies' = [c \in Clients |->
       IF c # m.from /\ members[c] > 0
       THEN copies[c] (+) [x \in {m} |-> members[c]] ELSE copies[c]]
  /\ UNCHANGED up

Vanish ==
  /\ \A c \in Clients : copies'[c] \sqsubseteq copies[c]
  /\ up' => up
  /\ UNCHANGED <<net, members>>

Next == Vanish \/ \E m \in Messages : Send(m) \/ Lose(m) \/ Handle(m)

Spec == Init /\ [][Next]_roomVars
=============================================================================
