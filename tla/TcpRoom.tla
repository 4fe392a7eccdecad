------------------------------- MODULE TcpRoom -------------------------------
(***************************************************************************)
(* The TCP chat room of socket/more_tcp: t2s.c, whose main accepts clients *)
(* and starts a thread for each, and its clients t2c.c.  All threads share *)
(* the array client and its length cnt; the mutex covers broadcast and     *)
(* nothing else.  Outside of it every expression that uses cnt or client   *)
(* is a step, and cnt++ and --cnt are a load and a store; a turn of a      *)
(* loop, with its test, is one step.                                       *)
(*                                                                          *)
(* A thread is named after the peer main was serving when it created it.   *)
(***************************************************************************)
EXTENDS Integers, Sequences, FiniteSets, FiniteSetsExt

CONSTANTS
  Peers,      \* client processes, each of which connects once
  Main,       \* the thread of main
  NoOne,      \* no thread, no peer
  Sessions    \* bounds: how many lines each peer may send, the first of which
              \* is its name, which peers may end the connection, and which
              \* may stop reading; a peer without lines stays away

ASSUME TcpAssumption ==
  /\ IsFiniteSet(Peers)        \* and no more than the 100 entries of client
  /\ Main \notin Peers /\ NoOne \notin Peers \cup {Main}
  /\ Sessions \subseteq [lines : [Peers -> Nat], leavers : SUBSET Peers,
                           stoppers : SUBSET Peers]

Threads == Peers \cup {Main}
Most == Cardinality(Peers)
FDs == 1..Most
(* The elements of client that are ever used, one that never is, and what stands
   before the array, where nothing else of the program does. *)
Elements == (-Most)..Most
Entry == [cfd : FDs \cup {0}, name : Peers \cup {NoOne}]
Message == [kind : {"joined", "says", "left", "gone"}, by : Peers \cup {NoOne},
            from : Peers \cup {NoOne}, line : Nat]

\* Where a thread can be.
Places == {"none", "accept", "name", "cfd", "text", "pass", "lock", "send", "unlock", "create",
           "start", "recv", "find", "copy", "load", "store", "close", "done"}

VARIABLES
  session,
  peer,      \* "new", "connecting", "open", "closed"
  sent,      \* lines each peer has sent
  deaf,      \* peers that do not read, and have no room for another message
  taken,     \* how many of them the server has received
  got,       \* messages each peer was sent
  fd,        \* the server's descriptor for each peer, 0 when there is none
  client, mutex,
  cnt,       \* a size_t: a negative number stands for 2^64 more
  at,        \* where each thread is
  serving,   \* the peer that main accepted last
  cl,        \* the entry it works for: cl; in main cfd, and then what it broadcasts for
  slot,      \* the element of client it uses: arg, &client[cnt], client[i]
  reg,       \* the value of cnt it has loaded
  full,      \* the deaf peer for which the send of a broadcast waits
  msg,       \* what it broadcasts
  up,        \* the process has not died
  raced      \* whether a removal ever overlapped another use of the array

peerVars == <<peer, sent, deaf>>
roomVars == <<peerVars, serving, taken, got, fd, client, cnt, mutex,
              at, cl, slot, reg, full, msg, up>>
vars == <<session, roomVars, raced>>

Nothing == [kind |-> "says", by |-> NoOne, from |-> NoOne, line |-> 0]

TypeOK ==
  /\ session \in Sessions
  /\ peer \in [Peers -> {"new", "connecting", "open", "closed"}]
  /\ sent \in [Peers -> Nat] /\ taken \in [Peers -> Nat]
  /\ \A q \in Peers : taken[q] <= sent[q] /\ sent[q] <= session.lines[q]
  /\ deaf \subseteq Peers
  /\ serving \in Peers \cup {NoOne}
  /\ got \in [Peers -> Seq(Message)]
  /\ fd \in [Peers -> FDs \cup {0}]
  /\ client \in [Elements -> Entry] /\ cnt \in Elements
  /\ mutex \in Threads \cup {NoOne}
  /\ at \in [Threads -> Places]
  /\ cl \in [Threads -> Entry]
  /\ slot \in [Threads -> Elements \cup {Most + 1}] /\ reg \in [Threads -> Elements]
  /\ full \in Peers \cup {NoOne}
  /\ msg \in [Threads -> Message]
  /\ up \in BOOLEAN /\ raced \in BOOLEAN

Blank == [cfd |-> 0, name |-> NoOne]

Init ==
  /\ session \in Sessions
  /\ peer = [q \in Peers |-> "new"]
  /\ sent = [q \in Peers |-> 0] /\ taken = [q \in Peers |-> 0]
  /\ deaf = {} /\ serving = NoOne /\ full = NoOne
  /\ got = [q \in Peers |-> <<>>]
  /\ fd = [q \in Peers |-> 0]
  /\ client = [s \in Elements |-> Blank]
  /\ cnt = 0 /\ mutex = NoOne
  /\ at = [t \in Threads |-> IF t = Main THEN "accept" ELSE "none"]
  /\ cl = [t \in Threads |-> Blank]
  /\ slot = [t \in Threads |-> 0] /\ reg = [t \in Threads |-> 0]
  /\ msg = [t \in Threads |-> Nothing]
  /\ up = TRUE /\ raced = FALSE

Removing(w) == at[w] \in {"find", "copy", "load", "store"}

\* A removal while main admits a client, or another thread starts or removes.
Overlap ==
  \E w \in Peers : /\ Removing(w)
                   /\ \/ at[Main] # "accept"
                      \/ \E u \in Peers \ {w} : Removing(u) \/ at[u] = "start"

Watch == raced' = (raced \/ Overlap') /\ UNCHANGED session

Goto(t, from, to) == at[t] = from /\ at' = [at EXCEPT ![t] = to]

-----------------------------------------------------------------------------
(* t2c.c.                                                                   *)

Connect(q) ==
  /\ peer[q] = "new" /\ up /\ session.lines[q] > 0
  /\ peer' = [peer EXCEPT ![q] = "connecting"]
  /\ UNCHANGED <<sent, deaf>>

Line(q) ==
  /\ peer[q] = "open" /\ sent[q] < session.lines[q]
  /\ sent' = [sent EXCEPT ![q] = @ + 1]
  /\ UNCHANGED <<peer, deaf>>

(* The process that prints has stopped, its terminal for one, until there is no
   room left for what the server sends; later it may go on. *)
Stop(q) ==
  /\ peer[q] = "open" /\ q \in session.stoppers \ deaf
  /\ deaf' = deaf \cup {q}
  /\ UNCHANGED <<peer, sent>>

Resume(q) ==
  /\ q \in deaf /\ deaf' = deaf \ {q}
  /\ UNCHANGED <<peer, sent>>

Leave(q) ==
  /\ peer[q] = "open" /\ q \in session.leavers
  /\ peer' = [peer EXCEPT ![q] = "closed"]
  /\ UNCHANGED <<sent, deaf>>

PeerStep ==
  /\ \E q \in Peers : Connect(q) \/ Line(q) \/ Stop(q) \/ Resume(q) \/ Leave(q)
  /\ UNCHANGED <<serving, taken, got, fd, client, cnt, mutex, at, cl, slot, reg, full, msg, up>>

-----------------------------------------------------------------------------
(* recv and broadcast.                                                      *)

Owner(f) == {q \in Peers : f # 0 /\ fd[q] = f}

(* recv returns the bytes that have arrived, one line or several; what stands
   after the first '\0' is not looked at. *)
Receives(q) ==
  /\ sent[q] > taken[q]
  /\ \E n \in (taken[q] + 1)..sent[q] : taken' = [taken EXCEPT ![q] = n]

Eof(q) == peer[q] = "closed" /\ sent[q] = taken[q] /\ UNCHANGED taken

\* Seeded fault: the mutex is not taken.
LockNot(t) ==
  /\ Goto(t, "lock", "send")
  /\ slot' = [slot EXCEPT ![t] = 0]
  /\ UNCHANGED <<peerVars, taken, got, fd, client, cnt, mutex, cl, reg, full, msg, up>>

Lock(t) ==
  /\ Goto(t, "lock", "send")
  /\ mutex = NoOne /\ mutex' = t
  /\ slot' = [slot EXCEPT ![t] = 0]
  /\ UNCHANGED <<peerVars, taken, got, fd, client, cnt, cl, reg, full, msg, up>>

InRange(i) == cnt < 0 \/ i < cnt

Skip(t) == slot' = [slot EXCEPT ![t] = @ + 1] /\ UNCHANGED <<got, at, up>>

Break(t) == at' = [at EXCEPT ![t] = "unlock"] /\ UNCHANGED <<got, slot, up>>

(* send waits for room while the peer is deaf; one to a peer that has gone is
   lost, fails, or raises SIGPIPE. *)
SendTo(t, q) ==
  \/ /\ peer[q] = "open" /\ q \notin deaf
     /\ got' = [got EXCEPT ![q] = Append(@, msg[t])]
     /\ slot' = [slot EXCEPT ![t] = @ + 1]
     /\ full' = NoOne
     /\ UNCHANGED <<at, up>>
  \/ /\ peer[q] = "open" /\ q \in deaf
     /\ full = NoOne /\ full' = q
     /\ UNCHANGED <<got, slot, at, up>>
  \/ /\ peer[q] = "closed"
     /\ full' = NoOne
     /\ Skip(t) \/ Break(t) \/ (up' = FALSE /\ UNCHANGED <<got, slot, at>>)

\* One turn of the loop; the send on a descriptor that is no connection fails.
SendTurn(t) ==
  /\ at[t] = "send" /\ slot[t] <= Most
  /\ IF full # NoOne THEN SendTo(t, full)
     ELSE /\ InRange(slot[t])
          /\ LET f == client[slot[t]].cfd IN
             \/ f = cl[t].cfd /\ Skip(t) /\ UNCHANGED full
             \/ f # cl[t].cfd /\ \E q \in Owner(f) : SendTo(t, q)
             \/ f # cl[t].cfd /\ Owner(f) = {} /\ Break(t) /\ UNCHANGED full
  /\ UNCHANGED <<peerVars, taken, fd, client, cnt, mutex, cl, reg, msg>>

SendEnd(t) ==
  /\ full = NoOne /\ ~InRange(slot[t]) /\ Goto(t, "send", "unlock")
  /\ UNCHANGED <<peerVars, taken, got, fd, client, cnt, mutex, cl, slot, reg, full, msg, up>>

\* Seeded fault: the mutex is not given back.
UnlockNot(t) ==
  /\ Goto(t, "unlock", IF t = Main THEN "create"
                       ELSE IF msg[t].kind = "says" THEN "recv" ELSE "close")
  /\ UNCHANGED <<peerVars, taken, got, fd, client, cnt, mutex, cl, slot, reg, full, msg, up>>

Unlock(t) ==
  /\ Goto(t, "unlock", IF t = Main THEN "create"
                       ELSE IF msg[t].kind = "says" THEN "recv" ELSE "close")
  /\ mutex' = NoOne
  /\ UNCHANGED <<peerVars, taken, got, fd, client, cnt, cl, slot, reg, full, msg, up>>

-----------------------------------------------------------------------------
(* main.                                                                    *)

\* accept returns the lowest descriptor; &client[cnt].name is fixed here, and
\* whatever came between the two might as well have come before.
Accept ==
  /\ Goto(Main, "accept", "name")
  /\ \E q \in Peers :
       /\ peer[q] = "connecting"
       /\ peer' = [peer EXCEPT ![q] = "open"] /\ serving' = q
       /\ LET f == Min({g \in FDs : Owner(g) = {}}) IN
            /\ fd' = [fd EXCEPT ![q] = f]
            /\ cl' = [cl EXCEPT ![Main].cfd = f]
  /\ slot' = [slot EXCEPT ![Main] = cnt]
  /\ UNCHANGED <<sent, deaf, taken, got, client, cnt, mutex, reg, full, msg, up>>

(* recv of the name; when the peer has gone without one, the name that was
   there before stays. *)
RecvName ==
  /\ Goto(Main, "name", "cfd")
  /\ \/ Receives(serving) /\ client' = [client EXCEPT ![slot[Main]].name = serving]
     \/ Eof(serving) /\ UNCHANGED client
  /\ UNCHANGED <<peerVars, got, fd, cnt, mutex, cl, slot, reg, full, msg, up>>

StoreCfd ==
  /\ Goto(Main, "cfd", "text")
  /\ client' = [client EXCEPT ![cnt].cfd = cl[Main].cfd]
  /\ UNCHANGED <<peerVars, taken, got, fd, cnt, mutex, cl, slot, reg, full, msg, up>>

\* strcat takes the name from client[cnt], and broadcast is passed a copy of it.
ReadName ==
  /\ Goto(Main, "text", "pass")
  /\ msg' = [msg EXCEPT ![Main] = [kind |-> "joined", by |-> client[cnt].name,
                                   from |-> serving, line |-> 0]]
  /\ UNCHANGED <<peerVars, taken, got, fd, client, cnt, mutex, cl, slot, reg, full, up>>

PassEntry ==
  /\ Goto(Main, "pass", "lock")
  /\ cl' = [cl EXCEPT ![Main] = client[cnt]]
  /\ UNCHANGED <<peerVars, taken, got, fd, client, cnt, mutex, slot, reg, full, msg, up>>

\* Seeded fault: cnt is incremented before the element is passed.
CreateThreadLate ==
  /\ at[Main] = "create"
  /\ at' = [at EXCEPT ![Main] = "load", ![serving] = "start"]
  /\ slot' = [slot EXCEPT ![serving] = cnt + 1]
  /\ UNCHANGED <<peerVars, taken, got, fd, client, cnt, mutex, cl, reg, full, msg, up>>

\* pthread_create with &client[cnt].
CreateThread ==
  /\ at[Main] = "create"
  /\ at' = [at EXCEPT ![Main] = "load", ![serving] = "start"]
  /\ slot' = [slot EXCEPT ![serving] = cnt]
  /\ UNCHANGED <<peerVars, taken, got, fd, client, cnt, mutex, cl, reg, full, msg, up>>

\* cnt++ in main and --cnt in a thread: the load, and then the store.
Load(t) ==
  /\ Goto(t, "load", "store")
  /\ reg' = [reg EXCEPT ![t] = cnt]
  /\ UNCHANGED <<peerVars, taken, got, fd, client, cnt, mutex, cl, slot, full, msg, up>>

Count ==
  /\ Goto(Main, "store", "accept")
  /\ cnt' = reg[Main] + 1
  /\ UNCHANGED <<peerVars, taken, got, fd, client, mutex, cl, slot, reg, full, msg, up>>

-----------------------------------------------------------------------------
(* pthread_run.                                                             *)

CopyArg(w) ==
  /\ Goto(w, "start", "recv")
  /\ cl' = [cl EXCEPT ![w] = client[slot[w]]]
  /\ UNCHANGED <<peerVars, taken, got, fd, client, cnt, mutex, slot, reg, full, msg, up>>

RecvLine(w) ==
  /\ Goto(w, "recv", "lock")
  /\ \E q \in Owner(cl[w].cfd) :
       /\ Receives(q)
       /\ msg' = [msg EXCEPT ![w] = [kind |-> "says", by |-> cl[w].name,
                                     from |-> q, line |-> taken[q] + 1]]
  /\ UNCHANGED <<peerVars, got, fd, client, cnt, mutex, cl, slot, reg, full, up>>

\* Seeded fault: `ret < 0' for `ret <= 0'.
RecvEofUnseen(w) ==
  /\ Goto(w, "recv", "find")
  /\ Owner(cl[w].cfd) = {} /\ UNCHANGED taken
  /\ slot' = [slot EXCEPT ![w] = 0]
  /\ msg' = [msg EXCEPT ![w] = [kind |-> "gone", by |-> cl[w].name, from |-> w, line |-> 0]]
  /\ UNCHANGED <<peerVars, got, fd, client, cnt, mutex, cl, reg, full, up>>

\* Until the entry is found the farewell is only the name.
RecvEof(w) ==
  /\ Goto(w, "recv", "find")
  /\ IF Owner(cl[w].cfd) = {} THEN UNCHANGED taken
                              ELSE \E q \in Owner(cl[w].cfd) : Eof(q)
  /\ slot' = [slot EXCEPT ![w] = 0]
  /\ msg' = [msg EXCEPT ![w] = [kind |-> "gone", by |-> cl[w].name, from |-> w, line |-> 0]]
  /\ UNCHANGED <<peerVars, got, fd, client, cnt, mutex, cl, reg, full, up>>

Find(w) ==
  /\ at[w] = "find"
  /\ IF ~InRange(slot[w]) THEN at' = [at EXCEPT ![w] = "lock"] /\ UNCHANGED slot
     ELSE /\ slot[w] <= Most
          /\ IF client[slot[w]].cfd = cl[w].cfd
             THEN at' = [at EXCEPT ![w] = "copy"] /\ UNCHANGED slot
             ELSE slot' = [slot EXCEPT ![w] = @ + 1] /\ UNCHANGED at
  /\ UNCHANGED <<peerVars, taken, got, fd, client, cnt, mutex, cl, reg, full, msg, up>>

\* Seeded fault: client[cnt] is copied.
CopyPastLast(w) ==
  /\ Goto(w, "copy", "load")
  /\ client' = [client EXCEPT ![slot[w]] = client[cnt]]
  /\ UNCHANGED <<peerVars, taken, got, fd, cnt, mutex, cl, slot, reg, full, msg, up>>

\* client[i] = client[cnt - 1], which is client[-1] when cnt is 0.
CopyLast(w) ==
  /\ Goto(w, "copy", "load")
  /\ client' = [client EXCEPT ![slot[w]] = client[cnt - 1]]
  /\ UNCHANGED <<peerVars, taken, got, fd, cnt, mutex, cl, slot, reg, full, msg, up>>

Uncount(w) ==
  /\ Goto(w, "store", "lock")
  /\ cnt' = reg[w] - 1
  /\ msg' = [msg EXCEPT ![w].kind = "left"]
  /\ UNCHANGED <<peerVars, taken, got, fd, client, mutex, cl, slot, reg, full, up>>

Close(w) ==
  /\ Goto(w, "close", "done")
  /\ fd' = [q \in Peers |-> IF q \in Owner(cl[w].cfd) THEN 0 ELSE fd[q]]
  /\ peer' = [q \in Peers |->
       IF q \in Owner(cl[w].cfd) /\ peer[q] = "open" THEN "closed" ELSE peer[q]]
  /\ UNCHANGED <<sent, deaf, taken, got, client, cnt, mutex, cl, slot, reg, full, msg, up>>

-----------------------------------------------------------------------------
(* An access outside of the array may go on as it does here, or end the process;
   a loop that has left the array does so in the end. *)
Stray(t) ==
  \/ at[t] \in {"name", "start"} /\ slot[t] < 0
  \/ at[t] \in {"cfd", "text", "pass"} /\ cnt < 0
  \/ at[t] = "copy" /\ cnt <= 0
  \/ at[t] \in {"send", "find"} /\ slot[t] > Most /\ InRange(slot[t])

Fault(t) ==
  /\ Stray(t) /\ up' = FALSE
  /\ UNCHANGED <<peerVars, taken, got, fd, client, cnt, mutex, at, cl, slot, reg, full, msg>>

Broadcast(t) == Lock(t) \/ SendTurn(t) \/ SendEnd(t) \/ Unlock(t)

MainStep ==
  /\ up
  /\ \/ Accept
     \/ /\ \/ RecvName \/ StoreCfd \/ ReadName \/ PassEntry \/ Broadcast(Main)
           \/ CreateThread \/ Load(Main) \/ Count \/ Fault(Main)
        /\ UNCHANGED serving

Worker(w) ==
  /\ up
  /\ \/ CopyArg(w) \/ RecvLine(w) \/ RecvEof(w) \/ Broadcast(w)
     \/ Find(w) \/ CopyLast(w) \/ Load(w) \/ Uncount(w) \/ Close(w) \/ Fault(w)
  /\ UNCHANGED serving

Next ==
  \/ /\ PeerStep \/ MainStep \/ \E w \in Peers : Worker(w)
     /\ Watch
  \/ UNCHANGED vars    \* users need not type

(* Every thread of the server runs. *)
Spec ==
  /\ Init /\ [][Next]_vars
  /\ WF_roomVars(MainStep)
  /\ \A w \in Peers : WF_roomVars(Worker(w))

-----------------------------------------------------------------------------
Before(s, x, y) == \E i, j \in 1..Len(s) : i < j /\ s[i] = x /\ s[j] = y

MessagesOf(q) == {got[q][i] : i \in 1..Len(got[q])}

(* Any two peers that got the same two messages got them in the same order,
   although main adds to the array while threads walk along it: a broadcast is
   one critical section. *)
TotalOrder ==
  \A q, r \in Peers : \A x, y \in MessagesOf(q) \cap MessagesOf(r) :
    Before(got[q], x, y) /\ x # y => ~Before(got[r], y, x)

Registered == {p \in Peers : at[p] \in {"start", "recv"}
                \/ (at[p] \in {"lock", "send", "unlock"} /\ msg[p].kind = "says")}

(* As long as no removal has overlapped the admission of a client, the start
   of a thread or another removal: whenever nobody is changing the array, its
   first cnt elements are exactly the connections that have a thread, once
   each. *)
RegistryExact ==
  up /\ ~raced /\ at[Main] = "accept" /\ (\A w \in Peers : ~Removing(w)) =>
    /\ cnt = Cardinality(Registered)
    /\ {client[s].cfd : s \in 0..(cnt - 1)} = {fd[p] : p \in Registered}

(* Under the same condition each thread serves the peer it was created for,
   and nobody's line is shown under another's name. *)
NoImpersonation ==
  ~raced =>
    /\ \A w \in Peers : at[w] \notin {"none", "start", "done"} => cl[w].cfd = fd[w]
    /\ \A q \in Peers : \A m \in MessagesOf(q) : m.kind = "says" => m.by = m.from

\* main waits for the name of a peer that has connected and said nothing.
HeldUp == at[Main] = "name" /\ peer[serving] = "open" /\ sent[serving] = 0

(* A client that connects and does not send its name keeps everyone else out,
   and so does one that stops reading as soon as somebody broadcasts; nothing
   else does, not a removal either. *)
Admitted ==
  (\E q \in Peers : peer[q] = "connecting") ~>
    (\A q \in Peers : peer[q] # "connecting") \/ HeldUp \/ full # NoOne \/ ~up

(* The threads of the peers that have gone come to their ends and close the
   descriptors, unless the array was damaged, a SIGPIPE ended the server, or a
   broadcast waits for a peer that has stopped reading. *)
DepartureNoticed ==
  (\E q \in Peers : peer[q] = "closed" /\ fd[q] # 0) ~>
    (\A q \in Peers : peer[q] = "closed" => fd[q] = 0) \/ full # NoOne \/ ~up \/ raced
=============================================================================
