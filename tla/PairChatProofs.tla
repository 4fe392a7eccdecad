---------------------------- MODULE PairChatProofs ----------------------------
(***************************************************************************)
(* socket/tcp/95s.c and 95c.c, for any clients and any number of lines:    *)
(* who is told of the end has shown everything, and an old line is printed *)
(* again only for the reason RepeatExplained gives.                        *)
(***************************************************************************)
EXTENDS PairChat, SequenceTheorems, TLAPS

Gone(s, c) == IF s = "client" THEN chat[c] = "gone" ELSE host = "gone"

\* What got through is what was received and what has not been read.
AccountInv ==
  \A s \in Sides, c \in Clients : sent[Other(s)][c] = heard[s][c] + Len(inbox[s][c])

\* A client waits once to be accepted, and is not the one that was.
QueueInv ==
  /\ host = "accept" => peer = {}
  /\ \A c \in peer : chat[c] # "new"
  /\ \A i \in 1..Len(queue) : queue[i] \notin peer /\ chat[queue[i]] # "new"
  /\ \A i, j \in 1..Len(queue) : queue[i] = queue[j] => i = j

\* An end finds the line other than open only when the other end has gone.
LineInv == \A s \in Sides, c \in Clients : line[s][c] # "open" => Gone(Other(s), c)

Explained(s, c) ==
  \/ heard[Other(s)][c] < sent[s][c] /\ left[Other(s)][c] \in {"quit", "killed"}
  \/ s = "client" /\ c \notin peer /\ host = "gone"

ResetInv ==
  \A s \in Sides, c \in Clients : line[s][c] = "reset" \/ <<s, c>> \in again =>
    Explained(s, c) /\ Gone(Other(s), c)

EndInv ==
  \A s \in Sides, c \in Clients : left[s][c] = "end" =>
    Gone(s, c) /\ Gone(Other(s), c) /\ heard[s][c] = sent[Other(s)][c]

IInv == TypeOK /\ AccountInv /\ QueueInv /\ LineInv /\ ResetInv /\ EndInv

-----------------------------------------------------------------------------
LEMMA TwoSides ==
  \A s \in Sides : Other(s) \in Sides /\ Other(s) # s /\ Other(Other(s)) = s
BY DEF Sides, Other

LEMMA Queued ==
  ASSUME TypeOK
  PROVE  \A i \in 1..Len(queue) : queue[i] \in Clients
BY ElementOfSeq DEF TypeOK

LEMMA Initially == Init => IInv
<1> SUFFICES ASSUME Init PROVE IInv
  OBVIOUS
<1>1. TypeOK
  BY PairAssumption DEF Init, TypeOK, TcpInit, TcpTypeOK
<1>2. AccountInv
  <2>1. Len(<<>>) = 0
    BY EmptySeq
  <2>2. \A s \in Sides, c \in Clients :
          inbox[s][c] = <<>> /\ sent[s][c] = 0 /\ heard[s][c] = 0
    BY DEF Init, TcpInit
  <2>. SUFFICES ASSUME NEW s \in Sides, NEW c \in Clients
                PROVE  sent[Other(s)][c] = heard[s][c] + Len(inbox[s][c])
    BY Zenon DEF AccountInv
  <2>3. Other(s) \in Sides
    BY TwoSides
  <2>. QED  BY <2>1, <2>2, <2>3
<1>3. QueueInv
  BY DEF Init, QueueInv
<1>4. LineInv /\ ResetInv /\ EndInv
  BY DEF Init, TcpInit, LineInv, ResetInv, EndInv
<1>. QED  BY <1>1, <1>2, <1>3, <1>4 DEF IInv

LEMMA SendKeeps ==
  ASSUME IInv, NEW s \in Sides, NEW c \in Clients, Send(s, c), ~Gone(s, c),
         \/ UNCHANGED chat
         \/ chat[c] = "naming" /\ chat' = [chat EXCEPT ![c] = "chat"]
  PROVE  IInv'
<1> USE TwoSides
<1>0. line[s][c] # "dead" /\ line \in [Sides -> [Clients -> {"open", "eof", "reset", "dead"}]]
  BY DEF IInv, TypeOK, TcpTypeOK, Send, Sent
<1>1. CASE line[s][c] = "open"
  <2>1. /\ inbox' = [inbox EXCEPT ![Other(s)][c] = Append(@, "text")]
        /\ sent' = [sent EXCEPT ![s][c] = @ + 1]
        /\ sent[s][c] <= MaxTexts
        /\ UNCHANGED <<line, host, peer, queue, heard, again, left>>
    BY <1>1 DEF Send, Sent, IInv, TypeOK
  <2>2. TypeOK'
    <3>. DEFINE r == Other(s)
    <3>1. inbox \in [Sides -> [Clients -> Seq({"text"})]] /\ r \in Sides
      BY DEF IInv, TypeOK, TcpTypeOK
    <3>2. inbox[r][c] \in Seq({"text"})
      BY <3>1
    <3>3. Append(inbox[r][c], "text") \in Seq({"text"})
      BY <3>2
    <3>4. inbox' \in [Sides -> [Clients -> Seq({"text"})]]
      BY <2>1, <3>1, <3>3
    <3>5. sent' \in [Sides -> [Clients -> 0..MaxTexts + 1]]
      BY <2>1, PairAssumption DEF IInv, TypeOK
    <3>. QED  BY <2>1, <3>4, <3>5 DEF IInv, TypeOK, TcpTypeOK
  <2>3. AccountInv'
    <3>. SUFFICES ASSUME NEW t \in Sides, NEW d \in Clients
                  PROVE  sent'[Other(t)][d] = heard'[t][d] + Len(inbox'[t][d])
      BY DEF AccountInv
    <3>1. inbox \in [Sides -> [Clients -> Seq({"text"})]]
          /\ sent \in [Sides -> [Clients -> Nat]] /\ heard \in [Sides -> [Clients -> Nat]]
      BY DEF IInv, TypeOK, TcpTypeOK
    <3>2. sent[Other(t)][d] = heard[t][d] + Len(inbox[t][d])
      BY Zenon DEF IInv, AccountInv
    <3>3. CASE t = Other(s) /\ d = c
      <4>1. inbox'[t][d] = Append(inbox[t][d], "text") /\ sent'[Other(t)][d] = sent[Other(t)][d] + 1
        BY <2>1, <3>1, <3>3
      <4>2. inbox[t][d] \in Seq({"text"}) /\ sent[Other(t)][d] \in Nat /\ heard[t][d] \in Nat
        <5>1. Other(t) \in Sides
          OBVIOUS
        <5>. QED  BY <3>1, <5>1
      <4>3. Len(Append(inbox[t][d], "text")) = Len(inbox[t][d]) + 1 /\ Len(inbox[t][d]) \in Nat
        BY <4>2
      <4>. QED  BY <2>1, <3>2, <4>1, <4>2, <4>3
    <3>4. CASE ~(t = Other(s) /\ d = c)
      <4>1. inbox'[t][d] = inbox[t][d] /\ sent'[Other(t)][d] = sent[Other(t)][d]
        BY <2>1, <3>1, <3>4
      <4>. QED  BY <2>1, <3>2, <4>1
    <3>. QED  BY <3>3, <3>4
  <2>4. QueueInv'
    BY <2>1, Queued DEF IInv, TypeOK, QueueInv
  <2>5. \A t \in Sides, d \in Clients : Gone(t, d) => Gone(t, d)'
    BY <2>1 DEF IInv, TypeOK, Gone
  <2>6. LineInv'
    BY <2>1, <2>5 DEF IInv, LineInv
  <2>7. \A t \in Sides, d \in Clients :
          sent'[t][d] = IF t = s /\ d = c THEN sent[t][d] + 1 ELSE sent[t][d]
    BY <2>1 DEF IInv, TypeOK
  <2>8. ResetInv'
    BY <2>1 DEF IInv, TypeOK, ResetInv, Explained, Gone, Sides, Other
  <2>9. EndInv'
    <3>. SUFFICES ASSUME NEW t \in Sides, NEW d \in Clients, left[t][d] = "end"
                  PROVE  Gone(t, d)' /\ Gone(Other(t), d)' /\ heard[t][d] = sent'[Other(t)][d]
      BY <2>1 DEF EndInv
    <3>1. Gone(t, d) /\ Gone(Other(t), d) /\ heard[t][d] = sent[Other(t)][d]
      BY DEF IInv, EndInv
    <3>2. ~(Other(t) = s /\ d = c)
      BY <3>1
    <3>. QED  BY <2>5, <2>7, <3>1, <3>2
  <2>. QED  BY <2>2, <2>3, <2>4, <2>6, <2>8, <2>9 DEF IInv
<1>2. CASE line[s][c] # "open"
  <2>1. /\ line' = [line EXCEPT ![s][c] = "dead"]
        /\ sent' = sent
        /\ UNCHANGED <<inbox, host, peer, queue, heard, again, left>>
    BY <1>2 DEF Send, Sent, IInv, TypeOK
  <2>2. TypeOK'
    BY <2>1 DEF IInv, TypeOK, TcpTypeOK
  <2>3. AccountInv'
    BY <2>1 DEF IInv, AccountInv
  <2>4. QueueInv'
    BY <2>1, Queued DEF IInv, TypeOK, QueueInv
  <2>5. \A t \in Sides, d \in Clients : Gone(t, d) => Gone(t, d)'
    BY <2>1 DEF IInv, TypeOK, Gone
  <2>6. \A t \in Sides, d \in Clients :
          line'[t][d] = line[t][d] \/ (t = s /\ d = c /\ line'[t][d] = "dead")
    BY <1>0, <2>1
  <2>7. LineInv'
    BY <1>2, <2>5, <2>6 DEF IInv, LineInv
  <2>8. ResetInv'
    BY <2>1, <2>5, <2>6 DEF IInv, ResetInv, Explained
  <2>9. EndInv'
    BY <2>1, <2>5 DEF IInv, EndInv
  <2>. QED  BY <2>2, <2>3, <2>4, <2>7, <2>8, <2>9 DEF IInv
<1>. QED  BY <1>1, <1>2

LEMMA TakeKeeps ==
  ASSUME IInv, NEW s \in Sides, NEW c \in Clients, Take(s, c), ~Gone(s, c),
         host' = host \/ (host = "name" /\ host' = "chat"),
         UNCHANGED <<peer, queue, chat, sent, left>>
  PROVE  IInv'
<1> USE TwoSides
<1>1. PICK k \in 1..Len(inbox[s][c]) :
        /\ inbox' = [inbox EXCEPT ![s][c] = SubSeq(@, k + 1, Len(@))]
        /\ heard' = [heard EXCEPT ![s][c] = @ + k]
        /\ UNCHANGED <<line, again>>
  BY DEF Take, Got
<1>2. /\ inbox \in [Sides -> [Clients -> Seq({"text"})]]
      /\ sent \in [Sides -> [Clients -> 0..MaxTexts + 1]]
      /\ heard \in [Sides -> [Clients -> 0..MaxTexts + 1]]
  BY DEF IInv, TypeOK, TcpTypeOK
<1> DEFINE q == inbox[s][c]
           rest == SubSeq(q, k + 1, Len(q))
<1>3. q \in Seq({"text"}) /\ Len(q) \in Nat
  BY <1>2
<1>4. rest \in Seq({"text"}) /\ Len(rest) = Len(q) - k
  BY <1>3
<1>5. inbox'[s][c] = rest /\ heard'[s][c] = heard[s][c] + k
  BY <1>1, <1>2
<1>6. \A t \in Sides, d \in Clients : ~(t = s /\ d = c) =>
        inbox'[t][d] = inbox[t][d] /\ heard'[t][d] = heard[t][d]
  BY <1>1, <1>2
<1>7. sent[Other(s)][c] = heard[s][c] + Len(q)
  BY Zenon DEF IInv, AccountInv
<1>8. heard'[s][c] \in 0..MaxTexts + 1 /\ sent[Other(s)][c] = heard'[s][c] + Len(rest)
  <2>1. sent[Other(s)][c] \in 0..MaxTexts + 1 /\ heard[s][c] \in 0..MaxTexts + 1
    <3>1. Other(s) \in Sides
      OBVIOUS
    <3>. QED  BY <1>2, <3>1
  <2>. HIDE DEF rest, q
  <2>. QED  BY <1>3, <1>4, <1>5, <1>7, <2>1, PairAssumption
<1>9. TypeOK'
  <2>1. inbox' \in [Sides -> [Clients -> Seq({"text"})]]
    BY <1>1, <1>2, <1>4
  <2>2. heard' \in [Sides -> [Clients -> 0..MaxTexts + 1]]
    BY <1>1, <1>2, <1>5, <1>8
  <2>. QED  BY <1>1, <2>1, <2>2 DEF IInv, TypeOK, TcpTypeOK
<1>10. AccountInv'
  <2>. SUFFICES ASSUME NEW t \in Sides, NEW d \in Clients
                PROVE  sent'[Other(t)][d] = heard'[t][d] + Len(inbox'[t][d])
    BY Zenon DEF AccountInv
  <2>1. CASE t = s /\ d = c
    BY <1>5, <1>8, <2>1
  <2>2. CASE ~(t = s /\ d = c)
    <3>1. sent[Other(t)][d] = heard[t][d] + Len(inbox[t][d])
      BY Zenon DEF IInv, AccountInv
    <3>. QED  BY <1>6, <2>2, <3>1
  <2>. QED  BY <2>1, <2>2
<1>11. \A t \in Sides, d \in Clients : Gone(t, d)' = Gone(t, d)
  BY DEF Gone
<1>12. QueueInv' /\ LineInv'
  BY <1>1, <1>11 DEF IInv, QueueInv, LineInv
<1>13. ResetInv'
  <2>. SUFFICES ASSUME NEW t \in Sides, NEW d \in Clients,
                       line[t][d] = "reset" \/ <<t, d>> \in again
                PROVE  Explained(t, d)' /\ Gone(Other(t), d)'
    BY <1>1 DEF ResetInv
  <2>1. Explained(t, d) /\ Gone(Other(t), d)
    BY DEF IInv, ResetInv
  <2>2. heard'[Other(t)][d] = heard[Other(t)][d]
    BY <1>6, <2>1
  <2>3. host = "gone" => host' = "gone"
    OBVIOUS
  <2>. QED  BY <1>11, <2>1, <2>2, <2>3 DEF Explained
<1>14. EndInv'
  BY <1>6, <1>11 DEF IInv, EndInv
<1>. QED  BY <1>9, <1>10, <1>12, <1>13, <1>14 DEF IInv

LEMMA ToldKeeps ==
  ASSUME IInv, NEW s \in Sides, NEW c \in Clients, Told(s, c),
         host' = host \/ (host = "name" /\ host' = "chat"),
         again' = again \/ (line[s][c] = "reset" /\ again' = again \cup {<<s, c>>}),
         UNCHANGED <<peer, queue, chat, sent, heard, left>>
  PROVE  IInv'
<1> USE TwoSides
<1>1. inbox' = inbox /\ line \in [Sides -> [Clients -> {"open", "eof", "reset", "dead"}]]
  BY DEF Told, IInv, TypeOK, TcpTypeOK
<1>2. \A t \in Sides, d \in Clients :
        line'[t][d] = line[t][d] \/ (line[t][d] = "reset" /\ line'[t][d] = "dead")
  BY <1>1 DEF Told
<1>3. TypeOK'
  BY <1>1 DEF IInv, TypeOK, TcpTypeOK, Told
<1>4. \A t \in Sides, d \in Clients : Gone(t, d)' = Gone(t, d)
  BY DEF Gone
<1>5. AccountInv' /\ QueueInv' /\ EndInv'
  BY <1>1, <1>4 DEF IInv, AccountInv, QueueInv, EndInv
<1>6. LineInv'
  BY <1>2, <1>4 DEF IInv, LineInv
<1>7. ResetInv'
  <2>. SUFFICES ASSUME NEW t \in Sides, NEW d \in Clients,
                       line'[t][d] = "reset" \/ <<t, d>> \in again'
                PROVE  Explained(t, d)' /\ Gone(Other(t), d)'
    BY DEF ResetInv
  <2>1. line[t][d] = "reset" \/ <<t, d>> \in again
    BY <1>2
  <2>. QED  BY <1>4, <2>1 DEF IInv, ResetInv, Explained
<1>. QED  BY <1>3, <1>5, <1>6, <1>7 DEF IInv

LEMMA ExitKeeps ==
  ASSUME IInv, NEW s \in Sides, NEW c \in Clients, NEW how \in How, Exit(s, c, how),
         ~Gone(s, c), s = "server" => c \in peer,
         how = "end" => inbox[s][c] = <<>> /\ line[s][c] # "open"
  PROVE  IInv'
<1> USE TwoSides
<1> DEFINE Lost(d) == (d = c /\ inbox[s][c] # <<>>) \/ (s = "server" /\ d \in ToSet(queue))
<1>1. /\ left' = [left EXCEPT ![s][c] = how]
      /\ UNCHANGED <<inbox, peer, sent, heard, again>>
  BY DEF Exit
<1>2. /\ line \in [Sides -> [Clients -> {"open", "eof", "reset", "dead"}]]
      /\ left \in [Sides -> [Clients -> {"no"} \cup How]]
  BY DEF IInv, TypeOK, TcpTypeOK
<1>3. /\ \A t \in Sides, d \in Clients : Gone(t, d) => Gone(t, d)'
      /\ Gone(s, c)'
  BY DEF Exit, Gone, IInv, TypeOK
<1>4. TypeOK'
  <2>1. left' \in [Sides -> [Clients -> {"no"} \cup How]]
    BY <1>1, <1>2
  <2>2. line' \in [Sides -> [Clients -> {"open", "eof", "reset", "dead"}]]
    <3>1. PICK C, B : Closed(s, C, B)
      BY DEF Exit
    <3>. DEFINE f == line[Other(s)]
                g == [d \in Clients |-> IF d \notin C \/ f[d] # "open" THEN f[d]
                                       ELSE IF d \in B \/ inbox[s][d] # <<>> THEN "reset" ELSE "eof"]
    <3>2. \A d \in Clients : f[d] \in {"open", "eof", "reset", "dead"}
      BY <1>2
    <3>3. g \in [Clients -> {"open", "eof", "reset", "dead"}]
      BY <3>2
    <3>4. line' = [line EXCEPT ![Other(s)] = g]
      BY <1>2, <3>1 DEF Closed
    <3>. HIDE DEF g
    <3>. QED  BY <1>2, <3>3, <3>4
  <2>3. host' \in {"accept", "name", "chat", "gone"} /\ queue' \in Seq(Clients)
        /\ chat' \in [Clients -> {"new", "naming", "chat", "gone"}]
    BY EmptySeq DEF Exit, IInv, TypeOK
  <2>. QED  BY <1>1, <2>1, <2>2, <2>3 DEF IInv, TypeOK, TcpTypeOK
<1>5. AccountInv'
  BY <1>1 DEF IInv, AccountInv
<1>6. QueueInv'
  <2>1. CASE s = "client"
    BY <1>1, <2>1, Queued DEF Exit, IInv, TypeOK, QueueInv
  <2>2. CASE s = "server"
    BY <1>1, <2>2, EmptySeq DEF Exit, IInv, TypeOK, QueueInv, Sides
  <2>. QED  BY <2>1, <2>2 DEF Sides
<1>7. \A t \in Sides, d \in Clients :
        \/ line'[t][d] = line[t][d]
        \/ t = Other(s) /\ Gone(s, d)' /\ (line'[t][d] = "reset" => Lost(d))
  <2>1. CASE s = "client"
    BY <1>2, <1>3, <2>1 DEF Exit, Closed, Gone
  <2>2. CASE s = "server"
    BY <1>2, <2>2 DEF Exit, Closed, Gone, Sides
  <2>. QED  BY <2>1, <2>2 DEF Sides
<1>8. LineInv'
  BY <1>3, <1>7 DEF IInv, LineInv
<1>9. \A t \in Sides, d \in Clients :
        left'[t][d] = IF t = s /\ d = c THEN how ELSE left[t][d]
  BY <1>1, <1>2
<1>10. \A t \in Sides, d \in Clients :
         Explained(t, d) /\ Gone(Other(t), d) => Explained(t, d)'
  <2>1. host = "gone" => host' = "gone"
    BY DEF Exit
  <2>. QED  BY <1>1, <1>9, <2>1 DEF Explained
<1>11. \A d \in Clients : Lost(d) => Explained(Other(s), d)'
  <2>. SUFFICES ASSUME NEW d \in Clients, Lost(d) PROVE Explained(Other(s), d)'
    OBVIOUS
  <2>1. CASE s = "server" /\ d \in ToSet(queue)
    <3>1. d \notin peer
      BY <2>1 DEF IInv, TypeOK, QueueInv, ToSet
    <3>. QED  BY <1>1, <2>1, <3>1 DEF Explained, Exit, Other
  <2>2. CASE d = c /\ inbox[s][c] # <<>>
    <3>1. /\ sent[Other(s)][c] = heard[s][c] + Len(inbox[s][c])
      BY Zenon DEF IInv, AccountInv
    <3>2. inbox[s][c] \in Seq({"text"}) /\ heard[s][c] \in Nat
      BY DEF IInv, TypeOK, TcpTypeOK
    <3>3. Len(inbox[s][c]) \in Nat /\ Len(inbox[s][c]) > 0
      BY <2>2, <3>2, EmptySeq
    <3>4. heard[s][c] < sent[Other(s)][c]
      BY <3>1, <3>2, <3>3
    <3>5. left'[s][c] \in {"quit", "killed"}
      BY <1>9, <2>2 DEF How
    <3>. QED  BY <1>1, <2>2, <3>4, <3>5 DEF Explained
  <2>. QED  BY <2>1, <2>2
<1>12. ResetInv'
  <2>. SUFFICES ASSUME NEW t \in Sides, NEW d \in Clients,
                       line'[t][d] = "reset" \/ <<t, d>> \in again'
                PROVE  Explained(t, d)' /\ Gone(Other(t), d)'
    BY DEF ResetInv
  <2>1. CASE line[t][d] = "reset" \/ <<t, d>> \in again
    BY <1>3, <1>10, <2>1 DEF IInv, ResetInv
  <2>2. CASE t = Other(s) /\ Gone(s, d)' /\ Lost(d)
    BY <1>11, <2>2
  <2>. QED  BY <1>1, <1>7, <2>1, <2>2
<1>13. EndInv'
  <2>. SUFFICES ASSUME NEW t \in Sides, NEW d \in Clients, left'[t][d] = "end"
                PROVE  Gone(t, d)' /\ Gone(Other(t), d)' /\ heard'[t][d] = sent'[Other(t)][d]
    BY DEF EndInv
  <2>1. CASE t = s /\ d = c
    <3>1. how = "end"
      BY <1>9, <2>1
    <3>2. Gone(Other(s), c)
      BY <3>1 DEF IInv, LineInv
    <3>3. sent[Other(s)][c] = heard[s][c] + Len(inbox[s][c])
      BY Zenon DEF IInv, AccountInv
    <3>4. Len(inbox[s][c]) = 0 /\ heard[s][c] \in Nat
      BY <3>1, EmptySeq DEF IInv, TypeOK
    <3>. QED  BY <1>1, <1>3, <2>1, <3>2, <3>3, <3>4
  <2>2. CASE ~(t = s /\ d = c)
    BY <1>1, <1>3, <1>9, <2>2 DEF IInv, EndInv
  <2>. QED  BY <2>1, <2>2
<1>. QED  BY <1>4, <1>5, <1>6, <1>8, <1>12, <1>13 DEF IInv

LEMMA ConnectKeeps ==
  ASSUME IInv, NEW c \in Clients, Connect(c)
  PROVE  IInv'
<1>1. /\ chat[c] = "new" /\ chat' = [chat EXCEPT ![c] = "naming"] /\ queue' = Append(queue, c)
      /\ queue \in Seq(Clients)
      /\ UNCHANGED <<inbox, line, host, peer, sent, heard, again, left>>
  BY DEF Connect, tcpVars, IInv, TypeOK
<1>2. TypeOK'
  BY <1>1 DEF IInv, TypeOK, TcpTypeOK
<1>3. QueueInv'
  <2>1. /\ Len(queue') = Len(queue) + 1 /\ Len(queue) \in Nat /\ queue'[Len(queue) + 1] = c
        /\ \A i \in 1..Len(queue) : queue'[i] = queue[i] /\ queue[i] \in Clients
    BY <1>1, Queued DEF IInv
  <2>2. \A d \in Clients : chat[d] # "new" => chat'[d] # "new"
    BY <1>1 DEF IInv, TypeOK
  <2>3. c \notin peer /\ (\A i \in 1..Len(queue) : queue[i] # c) /\ chat'[c] # "new"
    BY <1>1 DEF IInv, TypeOK, QueueInv
  <2>4. \A i \in 1..Len(queue') : i \in 1..Len(queue) \/ i = Len(queue) + 1
    BY <2>1
  <2>5. \A d \in peer : d \in Clients
    BY DEF IInv, TypeOK
  <2>. QED  BY <1>1, <2>1, <2>2, <2>3, <2>4, <2>5 DEF IInv, QueueInv
<1>4. \A s \in Sides, d \in Clients : Gone(s, d) => Gone(s, d)'
  BY <1>1 DEF Gone, IInv, TypeOK
<1>5. AccountInv'
  BY <1>1 DEF IInv, AccountInv
<1>6. LineInv' /\ ResetInv' /\ EndInv'
  BY <1>1, <1>4, TwoSides DEF IInv, LineInv, ResetInv, EndInv, Explained
<1>. QED  BY <1>2, <1>3, <1>5, <1>6 DEF IInv

LEMMA AcceptKeeps ==
  ASSUME IInv, Accept
  PROVE  IInv'
<1>1. /\ host = "accept" /\ host' = "name"
      /\ queue # <<>> /\ peer' = {Head(queue)} /\ queue' = Tail(queue)
      /\ queue \in Seq(Clients)
      /\ UNCHANGED <<inbox, line, chat, sent, heard, again, left>>
  BY DEF Accept, tcpVars, IInv, TypeOK
<1>2. /\ Len(queue) \in Nat \ {0} /\ Head(queue) = queue[1] /\ Head(queue) \in Clients
      /\ Tail(queue) \in Seq(Clients) /\ Len(Tail(queue)) = Len(queue) - 1
      /\ \A i \in 1..Len(Tail(queue)) : Tail(queue)[i] = queue[i + 1]
  BY <1>1, EmptySeq, HeadTailProperties
<1>3. TypeOK'
  BY <1>1, <1>2 DEF IInv, TypeOK, TcpTypeOK
<1>4. QueueInv'
  BY <1>1, <1>2 DEF IInv, QueueInv
<1>5. \A s \in Sides, d \in Clients : Gone(s, d) => Gone(s, d)'
  BY <1>1 DEF Gone
<1>6. AccountInv'
  BY <1>1 DEF IInv, AccountInv
<1>7. LineInv' /\ ResetInv' /\ EndInv'
  BY <1>1, <1>5, TwoSides DEF IInv, LineInv, ResetInv, EndInv, Explained
<1>. QED  BY <1>3, <1>4, <1>6, <1>7 DEF IInv

LEMMA Chats ==
  ASSUME NEW s \in Sides, NEW c \in Clients, Chatting(s, c)
  PROVE  ~Gone(s, c) /\ (s = "server" => c \in peer)
BY DEF Chatting, Gone, Sides

LEMMA NextKeeps == IInv /\ [Next]_vars => IInv'
<1> SUFFICES ASSUME IInv, [Next]_vars PROVE IInv'
  OBVIOUS
<1>1. CASE Accept
  BY <1>1, AcceptKeeps
<1>2. ASSUME NEW c \in Clients, Connect(c) PROVE IInv'
  BY <1>2, ConnectKeeps
<1>3. ASSUME NEW c \in Clients, Name(c) PROVE IInv'
  <2>1. ~Gone("client", c) /\ "client" \in Sides
    BY <1>3 DEF Name, Gone, Sides
  <2>. QED  BY <1>3, <2>1, SendKeeps DEF Name
<1>4. ASSUME NEW c \in Clients, RecvName(c) PROVE IInv'
  <2>1. ~Gone("server", c) /\ "server" \in Sides
    BY <1>4 DEF RecvName, Gone, Sides
  <2>. QED  BY <1>4, <2>1, TakeKeeps, ToldKeeps DEF RecvName
<1>5. ASSUME NEW s \in Sides, NEW c \in Clients, Say(s, c) \/ Quit(s, c) \/ Recv(s, c)
      PROVE  IInv'
  <2>1. ~Gone(s, c) /\ (s = "server" => c \in peer)
    BY <1>5, Chats DEF Say, Quit, Recv
  <2>2. CASE Say(s, c)
    BY <2>1, <2>2, SendKeeps, ExitKeeps DEF Say, How
  <2>3. CASE Quit(s, c)
    BY <2>1, <2>3, ExitKeeps DEF Quit, How
  <2>4. CASE Recv(s, c)
    BY <2>1, <2>4, TakeKeeps, ToldKeeps, ExitKeeps DEF Recv, How, Ends
  <2>. QED  BY <1>5, <2>2, <2>3, <2>4
<1>6. ASSUME NEW s \in Sides, NEW c \in Clients, Interrupt(s, c) PROVE IInv'
  <2>1. ~Gone(s, c) /\ (s = "server" => c \in peer)
    BY <1>6 DEF Interrupt, Gone, Sides
  <2>. QED  BY <1>6, <2>1, ExitKeeps DEF Interrupt, How
<1>7. CASE UNCHANGED vars
  <2> USE <1>7 DEF IInv, vars, tcpVars
  <2>1. TypeOK'
    BY DEF TypeOK, TcpTypeOK
  <2>2. AccountInv' /\ QueueInv'
    BY DEF AccountInv, QueueInv
  <2>3. LineInv' /\ ResetInv' /\ EndInv'
    BY DEF LineInv, ResetInv, EndInv, Explained, Gone
  <2>. QED  BY <2>1, <2>2, <2>3
<1>. QED  BY <1>1, <1>2, <1>3, <1>4, <1>5, <1>6, <1>7 DEF Next, ClientStep, HostStep, Sides

(* The accounts, and what they say of who was told what, hold throughout. *)
THEOREM Invariance == Spec => []IInv
BY Initially, NextKeeps, PTL DEF Spec

-----------------------------------------------------------------------------
(* Whoever is told of the end of the chat has shown everything that got
   through, for any clients and any number of lines. *)
THEOREM EverythingShown == Spec => []AllShown
<1>1. IInv => AllShown
  BY DEF IInv, EndInv, AllShown
<1>. QED  BY <1>1, Invariance, PTL

(* buf is printed again only after the other end left with something unread, or
   to a client the host never accepted. *)
THEOREM RepeatsExplained == Spec => []RepeatExplained
<1>1. IInv => RepeatExplained
  BY DEF IInv, ResetInv, Explained, RepeatExplained
<1>. QED  BY <1>1, Invariance, PTL
=============================================================================
