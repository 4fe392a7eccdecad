---------------------------------- MODULE Tcp ----------------------------------
(***************************************************************************)
(* Stream sockets, as the programs under socket/ see them: what has        *)
(* arrived at each end of a connection, and what the end finds behind it.  *)
(***************************************************************************)
EXTENDS Naturals, Sequences

CONSTANT Clients     \* client processes, each of which connects once

Sides == {"client", "server"}

Other(s) == IF s = "client" THEN "server" ELSE "client"

VARIABLES
  inbox,     \* what has arrived at each end and was not read
  line       \* "open"; "eof": the other end was closed; "reset": it was closed
             \* with something unread, or broke, and this end has not been
             \* told; "dead": nothing comes, and a write raises SIGPIPE

tcpVars == <<inbox, line>>

TcpTypeOK(Msgs) ==
  /\ inbox \in [Sides -> [Clients -> Seq(Msgs)]]
  /\ line \in [Sides -> [Clients -> {"open", "eof", "reset", "dead"}]]

TcpInit ==
  /\ inbox = [s \in Sides |-> [c \in Clients |-> <<>>]]
  /\ line = [s \in Sides |-> [c \in Clients |-> "open"]]

\* write.  The first one after the other end has gone still succeeds, or fails
\* with the reset, and the next raises SIGPIPE.
Sent(s, c, m) ==
  /\ line[s][c] # "dead"
  /\ IF line[s][c] = "open"
     THEN inbox' = [inbox EXCEPT ![Other(s)][c] = Append(@, m)] /\ UNCHANGED line
     ELSE line' = [line EXCEPT ![s][c] = "dead"] /\ UNCHANGED inbox

\* read, when k messages are taken at once.
Got(s, c, k) ==
  /\ k \in 1..Len(inbox[s][c])
  /\ inbox' = [inbox EXCEPT ![s][c] = SubSeq(@, k + 1, Len(@))]
  /\ UNCHANGED line

\* read, when nothing more will come: 0, but -1 once after a reset.
Ends(s, c) == inbox[s][c] = <<>> /\ line[s][c] # "open"

Told(s, c) == line' = [line EXCEPT ![s][c] = IF @ = "reset" THEN "dead" ELSE @] /\ UNCHANGED inbox

\* close of the connections C at one end; those in Broken without a farewell.
Closed(s, C, Broken) ==
  line' = [line EXCEPT ![Other(s)] = [c \in Clients |->
    IF c \notin C \/ @[c] # "open" THEN @[c]
    ELSE IF c \in Broken \/ inbox[s][c] # <<>> THEN "reset" ELSE "eof"]]
=============================================================================
