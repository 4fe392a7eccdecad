------------------------------- MODULE PairChat -------------------------------
(***************************************************************************)
(* socket/tcp/95s.c and 95c.c: a host that accepts one client, reads its   *)
(* name and chats with it, both ends in a loop around select.  The other   *)
(* clients connect as well and are never accepted.  Whether the keyboard   *)
(* or the socket is served first makes no difference to what can happen,   *)
(* so that the two halves of a turn of the loop are actions of their own.  *)
(***************************************************************************)
EXTENDS Tcp, SequencesExt

CONSTANT MaxTexts     \* bound: messages each end gets through on a connection, less one

ASSUME PairAssumption == MaxTexts \in Nat

VARIABLES
  host,      \* where 95s is
  peer,      \* {} or the client of client_fd
  queue,     \* connections 95s has not accepted
  chat,      \* where each 95c is
  sent,      \* per end and client: messages that got through, a name among them
  heard,     \* per end and client: messages received
  again,     \* ends that have printed the old content of buf after -1
  left       \* how each end has left the connection: by quit, told of the end, or killed

vars == <<tcpVars, host, peer, queue, chat, sent, heard, again, left>>

How == {"quit", "end", "killed"}

TypeOK ==
  /\ TcpTypeOK({"text"})
  /\ host \in {"accept", "name", "chat", "gone"}
  /\ peer \subseteq Clients /\ queue \in Seq(Clients)
  /\ chat \in [Clients -> {"new", "naming", "chat", "gone"}]
  /\ sent \in [Sides -> [Clients -> 0..MaxTexts + 1]]
  /\ heard \in [Sides -> [Clients -> 0..MaxTexts + 1]]
  /\ again \subseteq Sides \X Clients
  /\ left \in [Sides -> [Clients -> {"no"} \cup How]]

Init ==
  /\ TcpInit
  /\ host = "accept" /\ peer = {} /\ queue = <<>>
  /\ chat = [c \in Clients |-> "new"]
  /\ sent = [s \in Sides |-> [c \in Clients |-> 0]] /\ heard = sent
  /\ again = {}
  /\ left = [s \in Sides |-> [c \in Clients |-> "no"]]

Chatting(s, c) == IF s = "client" THEN chat[c] = "chat" ELSE host = "chat" /\ c \in peer

\* The end s of c's connection exits, by close and exit or by a signal; with the
\* host go the connections it has not accepted.
Exit(s, c, how) ==
  /\ left' = [left EXCEPT ![s][c] = how]
  /\ IF s = "client"
     THEN /\ chat' = [chat EXCEPT ![c] = "gone"] /\ Closed(s, {c}, {})
          /\ UNCHANGED <<host, queue>>
     ELSE /\ host' = "gone" /\ Closed(s, {c} \cup ToSet(queue), ToSet(queue))
          /\ queue' = <<>>
          /\ UNCHANGED chat
  /\ UNCHANGED <<inbox, peer, sent, heard, again>>

\* connect; refused when there is no host.
Connect(c) ==
  /\ chat[c] = "new" /\ host # "gone"
  /\ chat' = [chat EXCEPT ![c] = "naming"] /\ queue' = Append(queue, c)
  /\ UNCHANGED <<tcpVars, host, peer, sent, heard, again, left>>

Accept ==
  /\ host = "accept" /\ host' = "name"
  /\ queue # <<>> /\ peer' = {Head(queue)} /\ queue' = Tail(queue)
  /\ UNCHANGED <<tcpVars, chat, sent, heard, again, left>>

\* send.
Send(s, c) ==
  /\ sent[s][c] <= MaxTexts /\ Sent(s, c, "text")
  /\ sent' = [sent EXCEPT ![s][c] = IF line[s][c] = "open" THEN @ + 1 ELSE @]
  /\ UNCHANGED <<host, peer, queue, heard, again, left>>

Name(c) ==
  /\ chat[c] = "naming" /\ chat' = [chat EXCEPT ![c] = "chat"]
  /\ Send("client", c)

Take(s, c) ==
  /\ \E k \in 1..Len(inbox[s][c]) :
       Got(s, c, k) /\ heard' = [heard EXCEPT ![s][c] = @ + k]
  /\ UNCHANGED again

\* The first recv blocks; all that has come is the name.
RecvName(c) ==
  /\ host = "name" /\ c \in peer /\ host' = "chat"
  /\ Take("server", c) \/ (Ends("server", c) /\ Told("server", c) /\ UNCHANGED <<heard, again>>)
  /\ UNCHANGED <<peer, queue, chat, sent, left>>

\* A line is typed; on a connection that is dead, it ends the process.
Say(s, c) ==
  /\ Chatting(s, c)
  /\ \/ Send(s, c) /\ UNCHANGED chat
     \/ line[s][c] = "dead" /\ Exit(s, c, "killed")

\* `quit', or the user ends the program otherwise.
Quit(s, c) == Chatting(s, c) /\ Exit(s, c, "quit")

\* Seeded fault: the end is not looked for.
RecvNoEnd(s, c) ==
  /\ Chatting(s, c)
  /\ \/ Take(s, c)
     \/ /\ Ends(s, c) /\ Told(s, c) /\ again' = again \cup {<<s, c>>}
        /\ UNCHANGED heard
  /\ UNCHANGED <<host, peer, queue, chat, sent, left>>

\* Seeded fault: the end is acted on before what was received before it.
RecvHangUp(s, c) ==
  /\ Chatting(s, c)
  /\ \/ Take(s, c) /\ UNCHANGED <<host, peer, queue, chat, sent, left>>
     \/ line[s][c] # "open" /\ Exit(s, c, "end")

\* recv: 0 is the end; after -1 buf is printed as it was.
Recv(s, c) ==
  /\ Chatting(s, c)
  /\ \/ /\ \/ Take(s, c)
           \/ /\ Ends(s, c) /\ line[s][c] = "reset" /\ Told(s, c)
              /\ again' = again \cup {<<s, c>>} /\ UNCHANGED heard
        /\ UNCHANGED <<host, peer, queue, chat, sent, left>>
     \/ Ends(s, c) /\ line[s][c] # "reset" /\ Exit(s, c, "end")

Interrupt(s, c) ==
  /\ IF s = "client" THEN chat[c] = "naming" ELSE host = "name" /\ c \in peer
  /\ Exit(s, c, "quit")

ClientStep(c) == Say("client", c) \/ Quit("client", c) \/ Recv("client", c)

HostStep(c) == Say("server", c) \/ Quit("server", c) \/ Recv("server", c)

Next ==
  \/ Accept
  \/ \E c \in Clients :
       Connect(c) \/ Name(c) \/ RecvName(c) \/ ClientStep(c) \/ HostStep(c)
  \/ \E s \in Sides, c \in Clients : Interrupt(s, c)
  \/ UNCHANGED vars     \* users need not type

\* select returns when a message or an end has come; no user has to do anything.
Spec ==
  /\ Init /\ [][Next]_vars
  /\ WF_vars(Accept)
  /\ \A c \in Clients : WF_vars(RecvName(c)) /\ \A s \in Sides : WF_vars(Recv(s, c))

-----------------------------------------------------------------------------
(* An end that leaves because it was told of the end of the chat has shown its
   user everything that ever got through from the other end. *)
AllShown ==
  \A s \in Sides, c \in Clients :
    left[s][c] = "end" => heard[s][c] = sent[Other(s)][c]

(* An old line is printed again only when the other end left with something
   unread: then that end did not leave on its own account, for being told of the
   end; for a client it may also be that it was never accepted. *)
RepeatExplained ==
  \A s \in Sides, c \in Clients : <<s, c>> \in again =>
    \/ heard[Other(s)][c] < sent[s][c] /\ left[Other(s)][c] \in {"quit", "killed"}
    \/ s = "client" /\ c \notin peer /\ host = "gone"

Over == host = "gone" \/ \E c \in peer : chat[c] = "gone"

(* When the host or its client has left, the host leaves and so does every
   client that has got past its name, the ones never accepted among them. *)
AllLeave ==
  Over ~> host = "gone" /\ \A c \in Clients : chat[c] # "chat"
=============================================================================
