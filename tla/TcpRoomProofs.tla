--------------------------- MODULE TcpRoomProofs ---------------------------
(***************************************************************************)
(* The TCP chat room, for any peers and any sessions.  What the mutex      *)
(* gives, one order of messages for all, needs nothing else; what is true  *)
(* of the array holds until a removal overlaps an admission, the start of  *)
(* a thread or another removal, and is proved from what main and the one   *)
(* thread that removes may then rely on.                                   *)
(***************************************************************************)
EXTENDS TcpRoom, FiniteSetTheorems, TLAPS

Sent == UNION {MessagesOf(q) : q \in Peers}

\* main serves a peer for which there is no thread yet.
Admitting == at[Main] \notin {"accept", "load", "store"}

LifeInv ==
  /\ at[Main] \in {"accept", "name", "cfd", "text", "pass", "lock", "send", "unlock",
                  "create", "load", "store"}
  /\ \A w \in Peers : at[w] \notin {"accept", "name", "cfd", "text", "pass", "create"}
  /\ \A q \in Peers : peer[q] \in {"new", "connecting"} => at[q] = "none" /\ fd[q] = 0
  /\ Admitting => /\ serving \in Peers /\ at[serving] = "none"
                  /\ peer[serving] \notin {"new", "connecting"}
  /\ \A t \in Threads : at[t] \in {"send", "unlock"} => mutex = t
  /\ \A p, q \in Peers : fd[p] = fd[q] /\ fd[p] # 0 => p = q

Farewell == {"left", "gone"}
Speaking(t) == at[t] \in {"lock", "send", "unlock"}

\* The threads there have been, and those that have got as far as saying goodbye.
Born == {q \in Peers : at[q] # "none"}
Past == {q \in Peers : \/ at[q] \in {"close", "done"}
                       \/ Speaking(q) /\ msg[q].kind \in Farewell}

(* Updates of cnt may be lost, an increment or a decrement: and yet it never
   exceeds the number of threads ever created, nor falls further below zero
   than threads have gone.  An index of broadcast or of the search runs away
   when cnt has wrapped. *)
CountInv ==
  /\ cnt \in (-Cardinality(Past))..Cardinality(Born)
  /\ at[Main] \in {"load", "store"} => cnt < Cardinality(Born)
  /\ at[Main] = "store" => reg[Main] < Cardinality(Born)
  /\ \A t \in Threads :
       /\ reg[t] \in (-Cardinality(Past))..Cardinality(Born)
       /\ slot[t] \in (-Cardinality(Past))..(Most + 1)
       /\ at[t] \in {"name", "start", "copy"} => slot[t] <= Most

(* What is being broadcast: no two threads ever have the same message. *)
MsgInv ==
  /\ at[Main] = "pass" \/ Speaking(Main) =>
       msg[Main].kind = "joined" /\ msg[Main].from = serving
  /\ \A w \in Peers :
       /\ at[w] \in {"find", "copy", "load", "store"} => msg[w].kind = "gone" /\ msg[w].from = w
       /\ Speaking(w) =>
            \/ /\ msg[w].kind = "says" /\ msg[w].from \in Peers
               /\ msg[w].line \in 1..taken[msg[w].from]
            \/ msg[w].kind \in Farewell /\ msg[w].from = w
  /\ \A t, u \in Threads : Speaking(t) /\ Speaking(u) /\ msg[t] = msg[u] => t = u

\* Main has still to broadcast that a peer has come.
Entering == {"name", "cfd", "text", "pass"}

(* What has been broadcast, none of it by a thread that still waits for the
   mutex. *)
SentInv ==
  \A m \in Sent :
    /\ m.from \in Peers
    /\ m.kind = "says" => m.line \in 1..taken[m.from]
    /\ m.kind = "joined" => /\ peer[m.from] \notin {"new", "connecting"}
                            /\ ~(serving = m.from /\ at[Main] \in Entering)
    /\ m.kind \in Farewell => /\ at[m.from] \in {"send", "unlock", "close", "done"}
                              /\ Speaking(m.from) => msg[m.from].kind \in Farewell
    /\ \A t \in Threads : at[t] = "lock" => msg[t] # m

(* While a message is being broadcast, nothing stands behind it. *)
LastInv ==
  \A t \in Threads, q \in Peers : at[t] = "send" =>
    \A i, j \in 1..Len(got[q]) : i < j /\ got[q][i] = msg[t] => got[q][j] = msg[t]

OrderInv ==
  \A q, r \in Peers : \A i, j \in 1..Len(got[q]), k, l \in 1..Len(got[r]) :
    i < j /\ k < l /\ got[q][i] = got[r][l] /\ got[q][j] = got[r][k] => got[q][i] = got[q][j]

-----------------------------------------------------------------------------
\* The threads that have an element of the array.
Held == {p \in Peers : \/ at[p] \in {"start", "recv", "find", "copy"}
                       \/ Speaking(p) /\ msg[p].kind = "says"}

\* What cnt will be when nobody is between a load and a store of it.
Top == IF at[Main] \in {"load", "store"} THEN cnt + 1
       ELSE IF \E w \in Peers : at[w] \in {"load", "store"} THEN cnt - 1 ELSE cnt

(* A peer that was gone before it had a name is called what the one before was
   called, and never says anything. *)
NameOf(p, n) == n = p \/ (peer[p] = "closed" /\ sent[p] = taken[p])
EntryOf(p, e) == e.cfd = fd[p] /\ NameOf(p, e.name)

MainEntry ==
  /\ cnt >= 0
  /\ Admitting => fd[serving] = cl[Main].cfd /\ fd[serving] # 0
  /\ at[Main] = "name" => slot[Main] = cnt
  /\ at[Main] = "cfd" => NameOf(serving, client[cnt].name)
  /\ at[Main] \in {"text", "pass", "lock", "send", "unlock", "create"} =>
       EntryOf(serving, client[cnt])
  /\ at[Main] = "store" => reg[Main] = cnt

ThreadEntry(w) ==
  /\ at[w] \notin {"none", "done"} => fd[w] # 0
  /\ at[w] = "start" => slot[w] \in 0..(Top - 1) /\ EntryOf(w, client[slot[w]])
  /\ at[w] \notin {"none", "start", "done"} => EntryOf(w, cl[w])
  /\ at[w] = "find" => slot[w] \in Nat /\ \A s \in 0..(slot[w] - 1) : client[s].cfd # fd[w]
  /\ at[w] = "copy" => slot[w] \in 0..(cnt - 1) /\ client[slot[w]].cfd = fd[w]
  /\ at[w] = "store" => reg[w] = cnt

EntryInv == MainEntry /\ \A w \in Peers : ThreadEntry(w)

ArrayInv ==
  /\ Top = Cardinality(Held)
  /\ \A s \in 0..(Top - 1) : \E p \in Held : client[s].cfd = fd[p]
  /\ \A p \in Held : \E s \in 0..(Top - 1) : client[s].cfd = fd[p]
  /\ \A s, u \in 0..(Top - 1) : client[s].cfd = client[u].cfd => s = u

TrueInv ==
  /\ \A m \in Sent : m.kind = "says" => m.by = m.from
  /\ \A w \in Peers : Speaking(w) /\ msg[w].kind = "says" => msg[w].from = w /\ msg[w].by = w

IInv ==
  /\ TypeOK /\ LifeInv /\ CountInv /\ MsgInv /\ SentInv /\ LastInv /\ OrderInv
  /\ Overlap => raced
  /\ ~raced => EntryInv /\ ArrayInv /\ TrueInv

-----------------------------------------------------------------------------
LEMMA MinIsIn ==
  ASSUME NEW n \in Nat, NEW T \in SUBSET (1..n), T # {}
  PROVE  Min(T) \in T
<1> DEFINE UpTo(x) == {y \in T : y <= x}
           Ups == {UpTo(x) : x \in T}
<1>1. IsWellFoundedOn(StrictSubsetOrdering(T), SUBSET T)
  <2>1. IsFiniteSet(1..n)
    BY FS_Interval
  <2>2. IsFiniteSet(T)
    BY <2>1, FS_Subset
  <2>. QED  BY <2>2, FS_FiniteSubsetsOfFinite, FS_StrictSubsetOrderingWellFounded
<1>2. Ups \subseteq SUBSET T /\ Ups # {}
  OBVIOUS
<1> HIDE DEF Ups
<1>3. PICK U \in Ups : \A V \in Ups : ~(<<V, U>> \in StrictSubsetOrdering(T))
  BY <1>1, <1>2, WFMin
<1>4. PICK x \in T : U = UpTo(x)
  BY DEF Ups
<1>5. ASSUME NEW y \in T, y < x PROVE FALSE
  <2>1. UpTo(y) \in Ups
    BY DEF Ups
  <2>2. x \notin UpTo(y) /\ x \in U /\ UpTo(y) \subseteq U
    <3>1. x \in Nat /\ y \in Nat /\ \A z \in T : z \in Nat
      OBVIOUS
    <3>2. ~(x <= y) /\ x <= x /\ \A z \in T : z <= y => z <= x
      BY <1>5, <3>1
    <3>. QED  BY <1>4, <3>2, Zenon
  <2>. QED  BY <1>2, <1>3, <2>1, <2>2 DEF StrictSubsetOrdering
<1>6. \A y \in T : x <= y
  BY <1>5
<1>. QED  BY <1>6 DEF Min

LEMMA Bounds ==
  ASSUME NEW S \in SUBSET Peers
  PROVE  /\ IsFiniteSet(S) /\ Cardinality(S) \in Nat /\ Most \in Nat /\ Cardinality(S) <= Most
BY TcpAssumption, FS_Subset, FS_CardinalityType DEF Most

(* accept finds a descriptor: a peer that is not served yet has none. *)
LEMMA FreeDescriptor ==
  ASSUME TypeOK, LifeInv, NEW q \in Peers, peer[q] = "connecting"
  PROVE  LET f == Min({g \in FDs : Owner(g) = {}})
         IN  f \in FDs /\ f # 0 /\ \A p \in Peers : fd[p] # f
<1> DEFINE free == {g \in FDs : Owner(g) = {}}
           rest == Peers \ {q}
<1>1. Cardinality(Peers) \in Nat /\ IsFiniteSet(rest)
      /\ Cardinality(rest) = Cardinality(Peers) - 1
  BY TcpAssumption, FS_CardinalityType, FS_RemoveElement
<1>2. IsFiniteSet(FDs) /\ Cardinality(FDs) = Cardinality(Peers)
  BY <1>1, FS_Interval DEF FDs, Most
<1>3. free # {}
  <2>1. SUFFICES ASSUME \A g \in FDs : \E p \in Peers : fd[p] = g PROVE FALSE
    BY DEF Owner
  <2>2. \A g \in FDs : \E p \in rest : fd[p] = g
    BY <2>1, <1>1 DEF LifeInv, FDs
  <2> DEFINE who == [g \in FDs |-> CHOOSE p \in rest : fd[p] = g]
  <2>3. \A g \in FDs : who[g] \in rest /\ fd[who[g]] = g
    BY <2>2
  <2> HIDE DEF who, rest
  <2>4. who \in [FDs -> rest]
    BY <2>3 DEF who
  <2>5. PICK g, h \in FDs : g # h /\ who[g] = who[h]
    BY <1>1, <1>2, <2>4, FS_PigeonHole
  <2>. QED  BY <2>3, <2>5
<1>4. Min(free) \in free
  BY <1>1, <1>3, MinIsIn DEF FDs, Most
<1>. QED  BY <1>1, <1>4 DEF Owner, FDs

LEMMA Accepting ==
  ASSUME TypeOK, LifeInv, Accept
  PROVE  \E q \in Peers, f \in FDs :
           /\ peer[q] = "connecting" /\ peer' = [peer EXCEPT ![q] = "open"]
           /\ f # 0 /\ \A p \in Peers : fd[p] # f
           /\ fd' = [fd EXCEPT ![q] = f]
           /\ cl' = [cl EXCEPT ![Main].cfd = f]
           /\ serving' = q /\ cl'[Main].cfd = f
<1>1. PICK q \in Peers :
        /\ peer[q] = "connecting" /\ peer' = [peer EXCEPT ![q] = "open"] /\ serving' = q
        /\ LET f == Min({g \in FDs : Owner(g) = {}})
           IN  /\ fd' = [fd EXCEPT ![q] = f]
               /\ cl' = [cl EXCEPT ![Main].cfd = f]
  BY DEF Accept
<1> DEFINE f == Min({g \in FDs : Owner(g) = {}})
<1>2. f \in FDs /\ f # 0 /\ \A p \in Peers : fd[p] # f
  BY <1>1, FreeDescriptor
<1>3. fd' = [fd EXCEPT ![q] = f] /\ cl' = [cl EXCEPT ![Main].cfd = f]
  BY <1>1
<1> HIDE DEF f
<1>4. cl'[Main].cfd = f
  <2>1. cl[Main] \in Entry /\ cl'[Main] = [cl[Main] EXCEPT !.cfd = f]
    BY <1>3 DEF TypeOK, Threads
  <2>. QED  BY <2>1 DEF Entry
<1>. QED  BY <1>1, <1>2, <1>3, <1>4

-----------------------------------------------------------------------------
(* The steps, main and the other threads broadcasting and counting alike. *)
Broadcasting == /\ serving' = serving
                /\ \E t \in Threads : Lock(t) \/ SendTurn(t) \/ SendEnd(t) \/ Unlock(t)
Loading == serving' = serving /\ \E t \in Threads : Load(t)
Dying == serving' = serving /\ \E t \in Threads : Fault(t)
MainAlone == /\ serving' = serving
             /\ RecvName \/ StoreCfd \/ ReadName \/ PassEntry \/ CreateThread \/ Count
Serves == /\ serving' = serving
          /\ \E w \in Peers : \/ CopyArg(w) \/ RecvLine(w) \/ RecvEof(w) \/ Find(w)
                            \/ CopyLast(w) \/ Uncount(w) \/ Close(w)

LEMMA Steps ==
  ASSUME Next
  PROVE  \/ UNCHANGED vars
         \/ Watch /\ PeerStep
         \/ Watch /\ up /\ Dying
         \/ Watch /\ up /\ (Broadcasting \/ Accept \/ MainAlone \/ Loading \/ Serves)
BY DEF Next, MainStep, Worker, Broadcast, Threads, Broadcasting, MainAlone, Loading, Dying, Serves

LEMMA Started ==
  ASSUME Init
  PROVE  IInv
<1> USE TcpAssumption DEF Init
<1>1. Most \in Nat
  BY FS_CardinalityType DEF Most
<1>2. TypeOK
  <2>1. session.lines \in [Peers -> Nat]
    OBVIOUS
  <2>2. \A q \in Peers : taken[q] <= sent[q] /\ sent[q] <= session.lines[q]
    BY <2>1
  <2>3. 0 \in Elements /\ 0 \in Int /\ Nothing \in Message /\ Blank \in Entry
    BY <1>1 DEF Elements, Nothing, Message, Entry, Blank
  <2>4. client \in [Elements -> Entry] /\ cl \in [Threads -> Entry] /\ cnt \in Elements
    BY <2>3
  <2>5. slot \in [Threads -> Elements \cup {Most + 1}] /\ reg \in [Threads -> Elements]
        /\ msg \in [Threads -> Message]
    BY <2>3
  <2>6. at \in [Threads -> Places]
    BY DEF Places
  <2>7. got \in [Peers -> Seq(Message)] /\ fd \in [Peers -> FDs \cup {0}]
    OBVIOUS
  <2>. QED  BY <2>1, <2>2, <2>4, <2>5, <2>6, <2>7 DEF TypeOK
<1>3. Sent = {} /\ Held = {} /\ Born = {} /\ Past = {}
  BY DEF Sent, MessagesOf, Held, Speaking, Born, Past, Threads
<1>4. Cardinality(Held) = 0 /\ Cardinality(Born) = 0 /\ Cardinality(Past) = 0
  BY <1>3, FS_EmptySet
<1>5. LifeInv
  BY DEF LifeInv, Threads, Admitting
<1>6. CountInv /\ MsgInv
  BY <1>1, <1>4 DEF CountInv, MsgInv, Threads, Speaking
<1>7. SentInv /\ LastInv /\ OrderInv
  BY <1>3 DEF SentInv, LastInv, OrderInv, Threads
<1>8. ~Overlap /\ Top = 0
  BY DEF Overlap, Removing, Threads, Top
<1>9. EntryInv /\ ArrayInv /\ TrueInv
  BY <1>3, <1>4, <1>8
     DEF EntryInv, MainEntry, ThreadEntry, ArrayInv, TrueInv, Threads, Admitting, Speaking
<1>. QED  BY <1>2, <1>5, <1>6, <1>7, <1>8, <1>9 DEF IInv

-----------------------------------------------------------------------------
(* Only CreateThread makes a thread, nothing ends one for good, and a thread
   that has counted down has as good as gone. *)
LEMMA Lives ==
  ASSUME TypeOK, LifeInv, Next
  PROVE  /\ Cardinality(Born) \in Nat /\ Cardinality(Past) \in Nat
         /\ Cardinality(Born') \in Nat /\ Cardinality(Past') \in Nat
         /\ Cardinality(Born) <= Cardinality(Born') /\ Cardinality(Past) <= Cardinality(Past')
         /\ CreateThread => Cardinality(Born') = Cardinality(Born) + 1
         /\ \A w \in Peers : Uncount(w) => Cardinality(Past') >= Cardinality(Past) + 1
<1>1. Main \in Threads /\ \A p \in Peers : p \in Threads /\ p # Main
  BY TcpAssumption DEF Threads
<1>2. at \in [Threads -> Places] /\ msg \in [Threads -> Message]
  BY DEF TypeOK
<1>3. \A p \in Peers : at[p] # "none" => at'[p] # "none"
  <2>1. CASE UNCHANGED vars \/ PeerStep \/ Dying
    BY <2>1 DEF vars, roomVars, peerVars, PeerStep, Dying, Fault
  <2>2. CASE Broadcasting
    BY <1>1, <1>2, <2>2 DEF Broadcasting, Lock, SendTurn, SendEnd, Unlock, Goto, SendTo, Skip, Break
  <2>3. CASE Accept \/ MainAlone
    BY <1>1, <1>2, <2>3
       DEF Accept, MainAlone, RecvName, StoreCfd, ReadName, PassEntry, CreateThread, Count, Goto
  <2>4. CASE Loading
    BY <1>1, <1>2, <2>4 DEF Loading, Load, Goto
  <2>5. CASE Serves
    BY <1>1, <1>2, <2>5
       DEF Serves, CopyArg, RecvLine, RecvEof, Find, CopyLast, Uncount, Close, Goto
  <2>. QED  BY <2>1, <2>2, <2>3, <2>4, <2>5, Steps
<1>4. ASSUME NEW p \in Past PROVE p \in Past'
  <2>1. p \in Peers
    BY DEF Past
  <2>2. at[p] \in {"close", "done", "lock", "send", "unlock"}
        /\ (at[p] \in {"lock", "send", "unlock"} => msg[p].kind \in Farewell)
    BY DEF Past, Speaking
  <2>3. \/ at'[p] = at[p] /\ msg'[p] = msg[p]
        \/ at'[p] \in {"close", "done"}
        \/ at'[p] \in {"send", "unlock"} /\ Speaking(p) /\ msg'[p] = msg[p]
    <3>1. CASE UNCHANGED vars \/ PeerStep \/ Dying
      BY <3>1 DEF vars, roomVars, peerVars, PeerStep, Dying, Fault
    <3>2. CASE Broadcasting
      BY <1>1, <1>2, <2>1, <2>2, <3>2
         DEF Broadcasting, Lock, SendTurn, SendEnd, Unlock, Goto, SendTo, Skip, Break, Speaking,
             Farewell
    <3>3. CASE Accept \/ RecvName \/ StoreCfd \/ ReadName \/ PassEntry \/ Count
      BY <1>1, <1>2, <2>1, <3>3 DEF Accept, RecvName, StoreCfd, ReadName, PassEntry, Count, Goto
    <3>4. CASE CreateThread
      <4>1. at[serving] = "none"
        BY <3>4 DEF CreateThread, LifeInv, Admitting
      <4>. QED  BY <1>1, <1>2, <2>1, <2>2, <3>4, <4>1 DEF CreateThread
    <3>5. CASE Loading
      BY <1>1, <1>2, <2>1, <2>2, <3>5 DEF Loading, Load, Goto
    <3>6. CASE Serves
      BY <1>1, <1>2, <2>1, <2>2, <3>6
         DEF Serves, CopyArg, RecvLine, RecvEof, Find, CopyLast, Uncount, Close, Goto
    <3>. QED  BY <3>1, <3>2, <3>3, <3>4, <3>5, <3>6, Steps DEF MainAlone
  <2>. QED  BY <2>1, <2>2, <2>3 DEF Past, Speaking
<1>5. /\ Born \in SUBSET Peers /\ Born' \in SUBSET Peers /\ Born \subseteq Born'
      /\ Past \in SUBSET Peers /\ Past' \in SUBSET Peers /\ Past \subseteq Past'
  BY <1>3, <1>4 DEF Born, Past
<1>6. /\ IsFiniteSet(Born) /\ Cardinality(Born) \in Nat
      /\ IsFiniteSet(Past) /\ Cardinality(Past) \in Nat
      /\ IsFiniteSet(Born') /\ Cardinality(Born') \in Nat
      /\ IsFiniteSet(Past') /\ Cardinality(Past') \in Nat
  BY <1>5, Bounds
<1>7. ASSUME CreateThread PROVE Cardinality(Born') = Cardinality(Born) + 1
  <2>1. serving \in Peers /\ at[serving] = "none"
    BY <1>7 DEF CreateThread, LifeInv, Admitting
  <2>2. at' = [at EXCEPT ![Main] = "load", ![serving] = "start"]
    BY <1>7 DEF CreateThread
  <2>3. Born' = Born \cup {serving} /\ serving \notin Born
    BY <1>1, <1>2, <2>1, <2>2 DEF Born
  <2>. QED  BY <1>6, <2>3, FS_AddElement
<1>8. ASSUME NEW w \in Peers, Uncount(w) PROVE Cardinality(Past') >= Cardinality(Past) + 1
  <2>1. at[w] = "store" /\ at'[w] = "lock" /\ msg'[w].kind = "left"
    BY <1>1, <1>2, <1>8 DEF Uncount, Goto, Message
  <2>2. w \notin Past /\ w \in Past'
    BY <2>1 DEF Past, Speaking, Farewell
  <2>3. Cardinality(Past \cup {w}) = Cardinality(Past) + 1
    BY <1>6, <2>2, FS_AddElement
  <2>4. Cardinality(Past \cup {w}) <= Cardinality(Past')
    BY <1>5, <1>6, <2>2, FS_Subset
  <2>. QED  BY <1>6, <2>3, <2>4
<1>9. Cardinality(Born) <= Cardinality(Born') /\ Cardinality(Past) <= Cardinality(Past')
  BY <1>5, <1>6, FS_Subset
<1>. QED  BY <1>6, <1>7, <1>8, <1>9

LEMMA CountStep ==
  ASSUME IInv, Next
  PROVE  CountInv'
<1>1. TypeOK /\ LifeInv /\ CountInv
  BY DEF IInv
<1>2. Main \in Threads /\ \A p \in Peers : p \in Threads /\ p # Main
  BY TcpAssumption DEF Threads
<1>3. /\ at \in [Threads -> Places] /\ slot \in [Threads -> Elements \cup {Most + 1}]
      /\ reg \in [Threads -> Elements]
  BY <1>1 DEF TypeOK
<1> DEFINE b == Cardinality(Born)  b1 == Cardinality(Born')
           c == Cardinality(Past)  c1 == Cardinality(Past')
<1>4. /\ b \in Nat /\ b1 \in Nat /\ c \in Nat /\ c1 \in Nat /\ b <= b1 /\ c <= c1
      /\ CreateThread => b1 = b + 1
      /\ \A w \in Peers : Uncount(w) => c1 >= c + 1
  BY <1>1, Lives
<1>5. Most \in Nat /\ b <= Most /\ b1 <= Most
  <2>1. Born \in SUBSET Peers /\ Born' \in SUBSET Peers
    BY DEF Born
  <2>. QED  BY <2>1, Bounds
<1> DEFINE K == (-c)..b  K1 == (-c1)..b1  S == (-c)..(Most + 1)  S1 == (-c1)..(Most + 1)
<1>6. /\ cnt \in K /\ (at[Main] \in {"load", "store"} => cnt < b)
      /\ at[Main] = "store" => reg[Main] < b
      /\ \A t \in Threads : reg[t] \in K /\ slot[t] \in S
      /\ \A t \in Threads : at[t] \in {"name", "start", "copy"} => slot[t] <= Most
  BY <1>1 DEF CountInv
<1>7. SUFFICES /\ cnt' \in K1 /\ (at'[Main] \in {"load", "store"} => cnt' < b1)
               /\ at'[Main] = "store" => reg'[Main] < b1
               /\ \A t \in Threads : reg'[t] \in K1 /\ slot'[t] \in S1
               /\ \A t \in Threads : at'[t] \in {"name", "start", "copy"} => slot'[t] <= Most
  BY DEF CountInv, Most
<1> HIDE DEF b, b1, c, c1
<1>8. /\ \A x \in K : x \in K1 /\ x <= Most /\ x \in S1 /\ (x < b => x < b1 /\ x + 1 \in K1)
      /\ \A x \in K : c1 >= c + 1 => x - 1 \in K1 /\ x - 1 < b1
      /\ \A x \in K : b1 = b + 1 => x < b1
      /\ \A x \in S : x \in S1 /\ (x <= Most => x + 1 \in S1)
      /\ 0 \in S1 /\ 0 <= Most
  BY <1>4, <1>5
<1> HIDE DEF K, K1, S, S1
\* the steps that load and store none of it
<1>9. CASE /\ UNCHANGED <<cnt, reg, slot>>
           /\ at'[Main] \in {"load", "store"} => at'[Main] = at[Main]
           /\ \A t \in Threads : at'[t] \in {"name", "start", "copy"} =>
                                   at'[t] = at[t] \/ slot[t] <= Most
  BY <1>2, <1>6, <1>8, <1>9
<1>10. CASE UNCHANGED vars \/ PeerStep \/ Dying
  BY <1>9, <1>10 DEF vars, roomVars, peerVars, PeerStep, Dying, Fault
<1>11. CASE Broadcasting
  <2>1. PICK t \in Threads : Lock(t) \/ SendTurn(t) \/ SendEnd(t) \/ Unlock(t)
    BY <1>11 DEF Broadcasting
  <2>2. UNCHANGED <<cnt, reg>>
        /\ \/ slot' = slot \/ slot' = [slot EXCEPT ![t] = 0]
           \/ slot[t] <= Most /\ slot' = [slot EXCEPT ![t] = slot[t] + 1]
    BY <2>1 DEF Lock, SendTurn, SendEnd, Unlock, SendTo, Skip, Break
  <2>3. \A u \in Threads : at'[u] \in {"name", "start", "copy", "load", "store"} =>
                              at'[u] = at[u] /\ u # t
    BY <1>3, <2>1 DEF Lock, SendTurn, SendEnd, Unlock, Goto, SendTo, Skip, Break
  <2>4. \A u \in Threads : slot'[u] \in S1 /\ (u # t => slot'[u] = slot[u])
    BY <1>3, <1>6, <1>8, <2>2
  <2>. QED  BY <1>2, <1>6, <1>8, <2>2, <2>3, <2>4
<1>12. CASE Accept
  <2>1. UNCHANGED <<cnt, reg>> /\ slot' = [slot EXCEPT ![Main] = cnt]
        /\ at' = [at EXCEPT ![Main] = "name"]
    BY <1>12 DEF Accept, Goto
  <2>. QED  BY <1>2, <1>3, <1>6, <1>8, <2>1
<1>13. CASE RecvName \/ StoreCfd \/ ReadName \/ PassEntry
  <2>1. UNCHANGED <<cnt, reg, slot>>
        /\ \E x \in {"cfd", "text", "pass", "lock"} : at' = [at EXCEPT ![Main] = x]
    BY <1>13 DEF RecvName, StoreCfd, ReadName, PassEntry, Goto
  <2>. QED  BY <1>2, <1>3, <1>9, <2>1
<1>14. CASE CreateThread
  <2>1. serving \in Peers
    BY <1>1, <1>14 DEF CreateThread, LifeInv, Admitting
  <2>2. UNCHANGED <<cnt, reg>> /\ slot' = [slot EXCEPT ![serving] = cnt]
        /\ at' = [at EXCEPT ![Main] = "load", ![serving] = "start"]
    BY <1>14 DEF CreateThread
  <2>3. cnt < b1 /\ at'[Main] = "load"
    BY <1>2, <1>3, <1>4, <1>6, <1>8, <1>14, <2>1, <2>2
  <2>4. \A u \in Threads : u # serving => slot'[u] = slot[u] /\ (u # Main => at'[u] = at[u])
    BY <1>3, <2>2
  <2>5. slot'[serving] = cnt
    BY <1>2, <1>3, <2>1, <2>2
  <2>. QED  BY <1>2, <1>6, <1>8, <2>2, <2>3, <2>4, <2>5
<1>15. CASE Count
  <2>1. UNCHANGED <<reg, slot>> /\ cnt' = reg[Main] + 1 /\ at[Main] = "store"
        /\ at' = [at EXCEPT ![Main] = "accept"]
    BY <1>15 DEF Count, Goto
  <2>2. cnt' \in K1
    BY <1>2, <1>6, <1>8, <2>1
  <2>. QED  BY <1>2, <1>3, <1>6, <1>8, <2>1, <2>2
<1>16. CASE Loading
  <2>1. PICK t \in Threads : Load(t)
    BY <1>16 DEF Loading
  <2>2. UNCHANGED <<cnt, slot>> /\ reg' = [reg EXCEPT ![t] = cnt] /\ at[t] = "load"
        /\ at' = [at EXCEPT ![t] = "store"]
    BY <2>1 DEF Load, Goto
  <2>3. /\ \A u \in Threads : reg'[u] \in K1
        /\ at'[Main] = "store" => reg'[Main] < b1
    BY <1>2, <1>3, <1>6, <1>8, <2>2
  <2>4. \A u \in Threads : at'[u] = at[u] \/ (u = t /\ at'[u] = "store")
    BY <1>3, <2>2
  <2>5. at'[Main] \in {"load", "store"} => cnt < b1
    BY <1>2, <1>6, <1>8, <2>2, <2>4
  <2>. QED  BY <1>2, <1>6, <1>8, <2>2, <2>3, <2>4, <2>5
<1>17. CASE Serves
  <2>1. PICK w \in Peers : \/ CopyArg(w) \/ RecvLine(w) \/ RecvEof(w) \/ Find(w)
                           \/ CopyLast(w) \/ Uncount(w) \/ Close(w)
    BY <1>17 DEF Serves
  <2>2. /\ at'[Main] = at[Main]
        /\ \A u \in Threads : u # w => at'[u] = at[u]
    BY <1>2, <1>3, <2>1 DEF CopyArg, RecvLine, RecvEof, Find, CopyLast, Uncount, Close, Goto
  <2>3. CASE CopyArg(w) \/ RecvLine(w) \/ CopyLast(w) \/ Close(w)
    <3>1. UNCHANGED <<cnt, reg, slot>> /\ at'[w] \in {"recv", "lock", "load", "done"}
      BY <1>2, <1>3, <2>3 DEF CopyArg, RecvLine, CopyLast, Close, Goto
    <3>. QED  BY <1>9, <2>2, <3>1
  <2>4. CASE RecvEof(w) \/ Find(w)
    <3>1. UNCHANGED <<cnt, reg>>
          /\ \/ slot' = slot /\ at'[w] = "lock"
             \/ slot' = slot /\ at'[w] = "copy" /\ slot[w] <= Most
             \/ slot' = [slot EXCEPT ![w] = 0] /\ at'[w] = "find"
             \/ slot[w] <= Most /\ slot' = [slot EXCEPT ![w] = slot[w] + 1] /\ at'[w] = "find"
      BY <1>2, <1>3, <2>4 DEF RecvEof, Find, Goto
    <3>2. \A u \in Threads : slot'[u] \in S1 /\ (u # w => slot'[u] = slot[u])
      BY <1>2, <1>3, <1>6, <1>8, <3>1
    <3>. QED  BY <1>2, <1>6, <1>8, <2>2, <3>1, <3>2
  <2>5. CASE Uncount(w)
    <3>1. UNCHANGED <<reg, slot>> /\ cnt' = reg[w] - 1 /\ at'[w] = "lock"
      BY <1>2, <1>3, <2>5 DEF Uncount, Goto
    <3>2. c1 >= c + 1 /\ reg[w] \in K
      BY <1>2, <1>4, <1>6, <2>5
    <3>3. cnt' \in K1 /\ cnt' < b1
      BY <1>8, <3>1, <3>2
    <3>. QED  BY <1>2, <1>6, <1>8, <2>2, <3>1, <3>3
  <2>. QED  BY <2>1, <2>3, <2>4, <2>5
<1>. QED  BY <1>10, <1>11, <1>12, <1>13, <1>14, <1>15, <1>16, <1>17, Steps DEF MainAlone

-----------------------------------------------------------------------------
LEMMA TypeStep ==
  ASSUME IInv, Next
  PROVE  TypeOK'
<1> USE DEF TypeOK
<1>1. TypeOK /\ LifeInv /\ CountInv /\ CountInv'
  BY CountStep DEF IInv
<1>2. Main \in Threads /\ \A p \in Peers : p \in Threads
  BY DEF Threads
<1>3. session' = session /\ raced' \in BOOLEAN
  BY <1>1 DEF Next, Watch, vars
\* what CountInv says of the indices
<1>4. /\ cnt' \in Elements /\ \A t \in Threads : reg'[t] \in Elements
      /\ \A t \in Threads : slot'[t] \in Elements \cup {Most + 1}
  <2>1. /\ Cardinality(Born') \in Nat /\ Cardinality(Born') <= Most /\ Most \in Nat
        /\ Cardinality(Past') \in Nat /\ Cardinality(Past') <= Most
    <3>1. Born' \in SUBSET Peers /\ Past' \in SUBSET Peers
      BY DEF Born, Past
    <3>. QED  BY <3>1, Bounds
  <2>2. /\ \A x \in (-Cardinality(Past'))..Cardinality(Born') : x \in Elements
        /\ \A x \in (-Cardinality(Past'))..(Most + 1) : x \in Elements \cup {Most + 1}
    BY <2>1 DEF Elements
  <2>. QED  BY <1>1, <2>2 DEF CountInv, Most
<1>5. /\ \A t \in Threads : slot[t] <= Most => slot[t] \in Elements
      /\ \A w \in Peers : at[w] = "copy" => slot[w] \in Elements /\ cnt - 1 \in Elements
  <2>1. Most \in Nat
    BY Bounds
  <2>2. \A t \in Threads : slot[t] <= Most => slot[t] \in Elements
    BY <1>1, <2>1 DEF Elements
  <2>3. ASSUME NEW w \in Peers, at[w] = "copy" PROVE slot[w] \in Elements /\ cnt - 1 \in Elements
    <3>1. Past \in SUBSET Peers /\ Past \cup {w} \in SUBSET Peers /\ w \notin Past
      BY <2>3 DEF Past, Speaking
    <3>2. Cardinality(Past) \in Nat /\ Cardinality(Past) + 1 <= Most
      <4>1. IsFiniteSet(Past) /\ Cardinality(Past) \in Nat /\ Cardinality(Past \cup {w}) <= Most
        BY <3>1, Bounds
      <4>2. Cardinality(Past \cup {w}) = Cardinality(Past) + 1
        BY <3>1, <4>1, FS_AddElement
      <4>. QED  BY <4>1, <4>2
    <3>3. cnt \in (-Cardinality(Past))..Cardinality(Born) /\ cnt \in Elements
      BY <1>1 DEF CountInv
    <3>4. cnt - 1 \in Elements
      BY <2>1, <3>2, <3>3 DEF Elements
    <3>. QED  BY <1>1, <1>2, <2>2, <2>3, <3>4 DEF CountInv
  <2>. QED  BY <2>2, <2>3
<1>6. CASE UNCHANGED vars
  BY <1>1, <1>6 DEF vars, roomVars, peerVars
<1>7. CASE Dying
  BY <1>1, <1>3, <1>7 DEF Dying, Fault, peerVars
<1>8. CASE Watch /\ PeerStep
  <2>1. UNCHANGED <<serving, taken, got, fd, client, cnt, mutex, at, cl, slot, reg, full, msg, up>>
    BY <1>8 DEF PeerStep
  <2>2. peer' \in [Peers -> {"new", "connecting", "open", "closed"}] /\ deaf' \subseteq Peers
    BY <1>1, <1>8 DEF PeerStep, Connect, Line, Stop, Resume, Leave
  <2>3. session.lines \in [Peers -> Nat]
    BY <1>1, TcpAssumption
  <2>4. sent' \in [Peers -> Nat]
        /\ \A q \in Peers : taken[q] <= sent'[q] /\ sent'[q] <= session.lines[q]
    <3>1. sent' = sent \/ \E p \in Peers : /\ sent[p] < session.lines[p]
                                         /\ sent' = [sent EXCEPT ![p] = sent[p] + 1]
      BY <1>8 DEF PeerStep, Connect, Line, Stop, Resume, Leave
    <3>2. /\ sent \in [Peers -> Nat] /\ taken \in [Peers -> Nat]
          /\ \A q \in Peers : taken[q] <= sent[q] /\ sent[q] <= session.lines[q]
      BY <1>1
    <3>3. ASSUME NEW p \in Peers, sent[p] < session.lines[p], sent' = [sent EXCEPT ![p] = sent[p] + 1]
          PROVE  sent' \in [Peers -> Nat]
                 /\ \A q \in Peers : taken[q] <= sent'[q] /\ sent'[q] <= session.lines[q]
      <4>1. sent[p] + 1 \in Nat /\ taken[p] <= sent[p] + 1 /\ sent[p] + 1 <= session.lines[p]
        BY <2>3, <3>2, <3>3
      <4>. QED  BY <3>2, <3>3, <4>1
    <3>. QED  BY <3>1, <3>2, <3>3
  <2>. QED  BY <1>1, <1>3, <2>1, <2>2, <2>4
<1>9. CASE Broadcasting
  <2>1. PICK t \in Threads : Lock(t) \/ SendTurn(t) \/ SendEnd(t) \/ Unlock(t)
    BY <1>9 DEF Broadcasting
  <2>2. UNCHANGED <<peerVars, serving, taken, fd, client, cnt, cl, reg, msg>>
    BY <1>9, <2>1 DEF Broadcasting, Lock, SendTurn, SendEnd, Unlock
  <2>3. at' \in [Threads -> Places]
    BY <1>1, <2>1 DEF Lock, SendTurn, SendEnd, Unlock, Goto, SendTo, Skip, Break, Places
  <2>4. mutex' \in Threads \cup {NoOne} /\ up' \in BOOLEAN /\ full' \in Peers \cup {NoOne}
    BY <1>1, <2>1 DEF Lock, SendTurn, SendEnd, Unlock, SendTo, Skip, Break, Owner
  <2>5. got' \in [Peers -> Seq(Message)]
    <3>1. got' = got \/ \E q \in Peers : got' = [got EXCEPT ![q] = Append(@, msg[t])]
      BY <1>1, <2>1 DEF Lock, SendTurn, SendEnd, Unlock, SendTo, Skip, Break, Owner
    <3>2. msg[t] \in Message /\ \A q \in Peers : Append(got[q], msg[t]) \in Seq(Message)
      BY <1>1
    <3>. QED  BY <1>1, <3>1, <3>2
  <2>6. slot' \in [Threads -> Elements \cup {Most + 1}]
    <3>1. \E x : slot' = [slot EXCEPT ![t] = x]
      BY <1>1, <2>1 DEF Lock, SendTurn, SendEnd, Unlock, SendTo, Skip, Break
    <3>. QED  BY <1>1, <1>4, <3>1
  <2>. QED  BY <1>1, <1>3, <2>2, <2>3, <2>4, <2>5, <2>6 DEF peerVars
<1>10. CASE Accept
  <2>1. PICK q \in Peers, f \in FDs :
          /\ peer' = [peer EXCEPT ![q] = "open"] /\ fd' = [fd EXCEPT ![q] = f]
          /\ cl' = [cl EXCEPT ![Main].cfd = f] /\ serving' = q
    BY <1>1, <1>10, Accepting
  <2>2. [cl[Main] EXCEPT !.cfd = f] \in Entry
    <3>1. cl[Main] \in Entry
      BY <1>1, <1>2
    <3>. QED  BY <3>1 DEF Entry
  <2>3. fd' \in [Peers -> FDs \cup {0}] /\ cl' \in [Threads -> Entry]
    BY <1>1, <2>1, <2>2
  <2>4. slot' \in [Threads -> Elements \cup {Most + 1}] /\ at' \in [Threads -> Places]
    BY <1>1, <1>10 DEF Accept, Goto, Places
  <2>. QED  BY <1>1, <1>3, <1>10, <2>1, <2>3, <2>4 DEF Accept
<1>11. CASE MainAlone
  <2>1. UNCHANGED <<peerVars, serving, got, fd, mutex, full, up>> /\ serving \in Peers \cup {NoOne}
    BY <1>1, <1>11 DEF MainAlone, RecvName, StoreCfd, ReadName, PassEntry, CreateThread, Count
  <2>2. at' \in [Threads -> Places]
    <3>1. CASE RecvName \/ StoreCfd \/ ReadName \/ PassEntry \/ Count
      <4>1. \E x \in Places : at' = [at EXCEPT ![Main] = x]
        BY <3>1 DEF RecvName, StoreCfd, ReadName, PassEntry, Count, Goto, Places
      <4>. QED  BY <1>1, <4>1
    <3>2. CASE CreateThread
      BY <1>1, <3>2 DEF CreateThread, Places
    <3>. QED  BY <1>11, <3>1, <3>2 DEF MainAlone
  <2>3. CASE RecvName
    <3>1. serving \in Peers /\ slot[Main] \in Elements
      BY <1>1, <1>2, <1>5, <2>3 DEF LifeInv, Admitting, CountInv, RecvName, Goto
    <3>2. taken' \in [Peers -> Nat] /\ \A q \in Peers : taken'[q] <= sent[q]
      <4>1. taken' = taken \/ \E n \in (taken[serving] + 1)..sent[serving] :
                                taken' = [taken EXCEPT ![serving] = n]
        BY <2>3 DEF RecvName, Receives, Eof
      <4>2. /\ sent \in [Peers -> Nat] /\ taken \in [Peers -> Nat]
            /\ \A q \in Peers : taken[q] <= sent[q]
        BY <1>1
      <4>3. ASSUME NEW n \in (taken[serving] + 1)..sent[serving] PROVE n \in Nat /\ n <= sent[serving]
        BY <3>1, <4>2
      <4>. QED  BY <3>1, <4>1, <4>2, <4>3
    <3>3. client' \in [Elements -> Entry]
      <4>1. client' = client \/ client' = [client EXCEPT ![slot[Main]].name = serving]
        BY <2>3 DEF RecvName
      <4>2. \A e \in Entry : [e EXCEPT !.name = serving] \in Entry
        BY <3>1 DEF Entry
      <4>3. [client[slot[Main]] EXCEPT !.name = serving] \in Entry
        BY <1>1, <3>1, <4>2
      <4>. QED  BY <1>1, <4>1, <4>3
    <3>. QED  BY <1>1, <1>3, <2>1, <2>2, <2>3, <3>2, <3>3 DEF RecvName, peerVars
  <2>4. CASE StoreCfd
    <3>1. client' = [client EXCEPT ![cnt].cfd = cl[Main].cfd] /\ cl[Main] \in Entry
      BY <1>1, <1>2, <2>4 DEF StoreCfd
    <3>2. \A e \in Entry : [e EXCEPT !.cfd = cl[Main].cfd] \in Entry
      BY <3>1 DEF Entry
    <3>3. client' \in [Elements -> Entry]
      BY <1>1, <3>1, <3>2
    <3>. QED  BY <1>1, <1>3, <2>1, <2>2, <2>4, <3>3 DEF StoreCfd, peerVars
  <2>5. CASE ReadName
    <3>1. serving \in Peers /\ client[cnt] \in Entry
      BY <1>1, <2>5 DEF LifeInv, Admitting, ReadName, Goto
    <3>2. msg' \in [Threads -> Message]
      BY <1>1, <2>5, <3>1 DEF ReadName, Entry, Message
    <3>. QED  BY <1>1, <1>3, <2>1, <2>2, <2>5, <3>2 DEF ReadName, peerVars
  <2>6. CASE PassEntry
    <3>1. cl' \in [Threads -> Entry]
      BY <1>1, <2>6 DEF PassEntry
    <3>. QED  BY <1>1, <1>3, <2>1, <2>2, <2>6, <3>1 DEF PassEntry, peerVars
  <2>7. CASE CreateThread
    <3>1. slot' \in [Threads -> Elements \cup {Most + 1}]
      BY <1>1, <2>7 DEF CreateThread
    <3>. QED  BY <1>1, <1>3, <2>1, <2>2, <2>7, <3>1 DEF CreateThread, peerVars
  <2>8. CASE Count
    BY <1>1, <1>3, <1>4, <2>1, <2>2, <2>8 DEF Count, peerVars
  <2>. QED  BY <1>11, <2>3, <2>4, <2>5, <2>6, <2>7, <2>8 DEF MainAlone
<1>12. CASE Loading
  <2>1. PICK t \in Threads : Load(t)
    BY <1>12 DEF Loading
  <2>2. at' \in [Threads -> Places] /\ reg' \in [Threads -> Elements]
    BY <1>1, <2>1 DEF Load, Goto, Places
  <2>. QED  BY <1>1, <1>3, <1>12, <2>1, <2>2 DEF Loading, Load, peerVars
<1>13. CASE Serves
  <2>1. PICK w \in Peers : \/ CopyArg(w) \/ RecvLine(w) \/ RecvEof(w) \/ Find(w)
                           \/ CopyLast(w) \/ Uncount(w) \/ Close(w)
    BY <1>13 DEF Serves
  <2>2. UNCHANGED <<serving, sent, deaf, got, mutex, reg, full, up>> /\ serving \in Peers \cup {NoOne}
    BY <1>1, <1>13, <2>1
       DEF Serves, CopyArg, RecvLine, RecvEof, Find, CopyLast, Uncount, Close, peerVars
  <2>3. at' \in [Threads -> Places]
    <3>1. at' = at \/ \E x \in Places : at' = [at EXCEPT ![w] = x]
      BY <2>1 DEF CopyArg, RecvLine, RecvEof, Find, CopyLast, Uncount, Close, Goto, Places
    <3>. QED  BY <1>1, <3>1
  <2>4. CASE CopyArg(w)
    <3>1. slot[w] \in Elements
      BY <1>1, <1>2, <1>5, <2>4 DEF CopyArg, Goto, CountInv
    <3>2. cl' \in [Threads -> Entry]
      BY <1>1, <2>4, <3>1 DEF CopyArg
    <3>. QED  BY <1>1, <1>3, <2>2, <2>3, <2>4, <3>2 DEF CopyArg, peerVars
  <2>5. CASE RecvLine(w)
    <3>1. PICK q \in Peers : Receives(q)
             /\ msg' = [msg EXCEPT ![w] = [kind |-> "says", by |-> cl[w].name,
                                           from |-> q, line |-> taken[q] + 1]]
      BY <2>5 DEF RecvLine, Owner
    <3>2. taken' \in [Peers -> Nat] /\ \A p \in Peers : taken'[p] <= sent[p]
      BY <1>1, <3>1 DEF Receives
    <3>3. msg' \in [Threads -> Message]
      <4>1. cl[w].name \in Peers \cup {NoOne} /\ taken[q] + 1 \in Nat
        BY <1>1, <1>2 DEF Entry
      <4>2. [kind |-> "says", by |-> cl[w].name, from |-> q, line |-> taken[q] + 1] \in Message
        BY <4>1 DEF Message
      <4>. QED  BY <1>1, <3>1, <4>2
    <3>. QED  BY <1>1, <1>3, <2>2, <2>3, <2>5, <3>2, <3>3 DEF RecvLine, peerVars
  <2>6. CASE RecvEof(w)
    <3>1. taken' = taken
      BY <2>6 DEF RecvEof, Eof
    <3>2. msg' \in [Threads -> Message]
      BY <1>1, <1>2, <2>6 DEF RecvEof, Entry, Message
    <3>3. slot' \in [Threads -> Elements \cup {Most + 1}]
      BY <1>1, <1>4, <2>6 DEF RecvEof
    <3>. QED  BY <1>1, <1>3, <2>2, <2>3, <2>6, <3>1, <3>2, <3>3 DEF RecvEof, peerVars
  <2>7. CASE Find(w)
    <3>1. slot' = slot \/ \E x : slot' = [slot EXCEPT ![w] = x]
      BY <2>7 DEF Find
    <3>2. slot' \in [Threads -> Elements \cup {Most + 1}]
      BY <1>1, <1>4, <3>1
    <3>. QED  BY <1>1, <1>3, <2>2, <2>3, <2>7, <3>2 DEF Find, peerVars
  <2>8. CASE CopyLast(w)
    <3>1. client' \in [Elements -> Entry]
      BY <1>1, <1>5, <2>8 DEF CopyLast, Goto
    <3>. QED  BY <1>1, <1>3, <2>2, <2>3, <2>8, <3>1 DEF CopyLast, peerVars
  <2>9. CASE Uncount(w)
    <3>1. msg' \in [Threads -> Message]
      <4>1. msg' = [msg EXCEPT ![w].kind = "left"] /\ msg[w] \in Message
        BY <1>1, <1>2, <2>9 DEF Uncount
      <4>2. [msg[w] EXCEPT !.kind = "left"] \in Message
        BY <4>1 DEF Message
      <4>. QED  BY <1>1, <1>2, <4>1, <4>2
    <3>. QED  BY <1>1, <1>3, <1>4, <2>2, <2>3, <2>9, <3>1 DEF Uncount, peerVars
  <2>10. CASE Close(w)
    <3>1. fd' \in [Peers -> FDs \cup {0}]
          /\ peer' \in [Peers -> {"new", "connecting", "open", "closed"}]
      BY <1>1, <2>10 DEF Close
    <3>. QED  BY <1>1, <1>3, <2>2, <2>3, <2>10, <3>1 DEF Close
  <2>. QED  BY <2>1, <2>4, <2>5, <2>6, <2>7, <2>8, <2>9, <2>10
<1>. QED  BY <1>6, <1>7, <1>8, <1>9, <1>10, <1>11, <1>12, <1>13, Steps

-----------------------------------------------------------------------------
LEMMA LifeStep ==
  ASSUME IInv, Next
  PROVE  LifeInv'
<1> USE DEF LifeInv, Admitting
<1>1. TypeOK /\ LifeInv
  BY DEF IInv
<1>2. Main \in Threads /\ NoOne \notin Threads /\ \A p \in Peers : p \in Threads /\ p # Main
  BY TcpAssumption DEF Threads
<1>3. at \in [Threads -> Places]
  BY <1>1 DEF TypeOK
<1>4. CASE UNCHANGED vars \/ Dying
  BY <1>1, <1>4 DEF vars, roomVars, peerVars, Dying, Fault
<1>5. CASE Watch /\ PeerStep
  <2>1. UNCHANGED <<serving, fd, mutex, at>>
    BY <1>5 DEF PeerStep
  <2>2. \A q \in Peers : peer'[q] \in {"new", "connecting"} => peer[q] \in {"new", "connecting"}
    BY <1>1, <1>5 DEF PeerStep, Connect, Line, Stop, Resume, Leave, TypeOK
  <2>3. \A q \in Peers : peer[q] \notin {"new", "connecting"} => peer'[q] \notin {"new", "connecting"}
    BY <2>2
  <2>. QED  BY <1>1, <2>1, <2>2, <2>3
<1>6. CASE Broadcasting
  <2>1. PICK t \in Threads : Lock(t) \/ SendTurn(t) \/ SendEnd(t) \/ Unlock(t)
    BY <1>6 DEF Broadcasting
  <2>2. UNCHANGED <<peer, fd, serving>>
    BY <1>6, <2>1 DEF Broadcasting, Lock, SendTurn, SendEnd, Unlock, peerVars
  <2>3. CASE Lock(t)
    BY <1>1, <1>2, <1>3, <2>2, <2>3 DEF Lock, Goto
  <2>4. CASE SendTurn(t) \/ SendEnd(t)
    <3>1. mutex' = mutex /\ at[t] = "send" /\ (at' = at \/ at' = [at EXCEPT ![t] = "unlock"])
      BY <2>4 DEF SendTurn, SendEnd, Goto, SendTo, Skip, Break
    <3>. QED  BY <1>1, <1>2, <1>3, <2>2, <3>1
  <2>5. CASE Unlock(t)
    <3>1. at' = [at EXCEPT ![t] = IF t = Main THEN "create"
                                  ELSE IF msg[t].kind = "says" THEN "recv" ELSE "close"]
          /\ at[t] = "unlock"
      BY <2>5 DEF Unlock, Goto
    <3>2. \A u \in Threads : at'[u] \in {"send", "unlock"} => u # t /\ mutex = u
      BY <1>1, <1>3, <3>1
    <3>3. \A u \in Threads : at'[u] \notin {"send", "unlock"}
      BY <1>1, <3>1, <3>2
    <3>. QED  BY <1>1, <1>2, <1>3, <2>2, <3>1, <3>3
  <2>. QED  BY <2>1, <2>3, <2>4, <2>5
<1>7. CASE Accept
  <2>1. PICK q \in Peers, f \in FDs :
          /\ peer[q] = "connecting" /\ peer' = [peer EXCEPT ![q] = "open"]
          /\ f # 0 /\ \A p \in Peers : fd[p] # f
          /\ fd' = [fd EXCEPT ![q] = f] /\ serving' = q
    BY <1>1, <1>7, Accepting
  <2>2. at' = [at EXCEPT ![Main] = "name"] /\ mutex' = mutex
    BY <1>7 DEF Accept, Goto
  <2>3. \A p1, p2 \in Peers : fd'[p1] = fd'[p2] /\ fd'[p1] # 0 => p1 = p2
    BY <1>1, <2>1 DEF TypeOK
  <2>. QED  BY <1>1, <1>2, <1>3, <2>1, <2>2, <2>3 DEF TypeOK
<1>8. CASE MainAlone /\ (RecvName \/ StoreCfd \/ ReadName \/ PassEntry \/ Count)
  <2>1. UNCHANGED <<peer, fd, mutex, serving>>
    BY <1>8 DEF MainAlone, RecvName, StoreCfd, ReadName, PassEntry, Count, peerVars
  <2>2. \/ \E x \in {"cfd", "text", "pass", "lock"} :
             at[Main] \in {"name", "cfd", "text", "pass"} /\ at' = [at EXCEPT ![Main] = x]
        \/ at[Main] = "store" /\ at' = [at EXCEPT ![Main] = "accept"]
    BY <1>8 DEF RecvName, StoreCfd, ReadName, PassEntry, Count, Goto
  <2>. QED  BY <1>1, <1>2, <1>3, <2>1, <2>2
<1>9. CASE MainAlone /\ CreateThread
  <2>1. UNCHANGED <<peer, fd, mutex, serving>>
    BY <1>9 DEF MainAlone, CreateThread, peerVars
  <2>2. at[Main] = "create" /\ at' = [at EXCEPT ![Main] = "load", ![serving] = "start"]
    BY <1>9 DEF CreateThread
  <2>3. serving \in Peers
    BY <1>1, <2>2
  <2>. QED  BY <1>1, <1>2, <1>3, <2>1, <2>2, <2>3
<1>10. CASE Loading
  <2>1. PICK t \in Threads : at[t] = "load" /\ at' = [at EXCEPT ![t] = "store"]
                             /\ UNCHANGED <<peer, fd, mutex, serving>>
    BY <1>10 DEF Loading, Load, Goto, peerVars
  <2>. QED  BY <1>1, <1>2, <1>3, <2>1
<1>11. CASE Serves
  <2>1. PICK w \in Peers : \/ CopyArg(w) \/ RecvLine(w) \/ RecvEof(w) \/ Find(w)
                           \/ CopyLast(w) \/ Uncount(w) \/ Close(w)
    BY <1>11 DEF Serves
  <2>2. mutex' = mutex /\ serving' = serving
    BY <1>11, <2>1 DEF Serves, CopyArg, RecvLine, RecvEof, Find, CopyLast, Uncount, Close
  <2>3. /\ at[w] \in {"start", "recv", "find", "copy", "store", "close"}
        /\ \/ at' = at
           \/ \E x \in {"recv", "lock", "find", "copy", "load", "done"} :
                at' = [at EXCEPT ![w] = x]
    BY <2>1 DEF CopyArg, RecvLine, RecvEof, Find, CopyLast, Uncount, Close, Goto
  <2>4. /\ \A q \in Peers : peer'[q] \in {"new", "connecting"} <=> peer[q] \in {"new", "connecting"}
        /\ \A q \in Peers : fd'[q] = fd[q] \/ fd'[q] = 0
    <3>1. CASE Close(w)
      BY <1>1, <3>1 DEF Close, TypeOK
    <3>2. CASE ~Close(w)
      BY <2>1, <3>2 DEF CopyArg, RecvLine, RecvEof, Find, CopyLast, Uncount, peerVars
    <3>. QED  BY <3>1, <3>2
  <2>. QED  BY <1>1, <1>2, <1>3, <2>2, <2>3, <2>4
<1>. QED  BY <1>4, <1>5, <1>6, <1>7, <1>8, <1>9, <1>10, <1>11, Steps DEF MainAlone

-----------------------------------------------------------------------------
(* Received lines are counted up; and only a turn of broadcast adds to what
   was sent. *)
LEMMA TakenGrows ==
  ASSUME TypeOK, LifeInv, Next
  PROVE  \A q \in Peers : taken'[q] \in Nat /\ taken'[q] >= taken[q]
<1>1. taken \in [Peers -> Nat] /\ sent \in [Peers -> Nat]
  BY DEF TypeOK
<1>2. \/ taken' = taken
      \/ \E q \in Peers : \E n \in (taken[q] + 1)..sent[q] : taken' = [taken EXCEPT ![q] = n]
  <2>1. CASE UNCHANGED vars \/ PeerStep \/ Dying \/ Broadcasting \/ Accept \/ Loading
    BY <2>1 DEF vars, roomVars, PeerStep, Dying, Fault, Accept, Loading, Load, Broadcasting,
       Lock, SendTurn, SendEnd, Unlock
  <2>2. CASE MainAlone
    <3>1. CASE RecvName
      <4>1. serving \in Peers
        BY <3>1 DEF RecvName, Goto, LifeInv, Admitting
      <4>. QED  BY <3>1, <4>1 DEF RecvName, Receives, Eof
    <3>. QED  BY <2>2, <3>1 DEF MainAlone, StoreCfd, ReadName, PassEntry, CreateThread, Count
  <2>3. CASE Serves
    BY <2>3 DEF Serves, CopyArg, RecvLine, RecvEof, Find, CopyLast, Uncount, Close, Receives, Eof,
       Owner
  <2>. QED  BY <2>1, <2>2, <2>3, Steps
<1>3. ASSUME NEW q \in Peers, NEW n \in (taken[q] + 1)..sent[q], taken' = [taken EXCEPT ![q] = n]
      PROVE  \A p \in Peers : taken'[p] \in Nat /\ taken'[p] >= taken[p]
  <2>1. n \in Nat /\ n >= taken[q]
    BY <1>1
  <2>. QED  BY <1>1, <1>3, <2>1
<1>. QED  BY <1>1, <1>2, <1>3

LEMMA MsgStep ==
  ASSUME IInv, Next
  PROVE  MsgInv'
<1>1. TypeOK /\ LifeInv /\ MsgInv
  BY DEF IInv
<1>2. Main \in Threads /\ \A p \in Peers : p \in Threads /\ p # Main
  BY TcpAssumption DEF Threads
<1>3. /\ at \in [Threads -> Places]
      /\ msg \in [Threads -> Message] /\ cl \in [Threads -> Entry] /\ taken \in [Peers -> Nat]
  BY <1>1 DEF TypeOK
<1>4. \A q \in Peers : taken'[q] \in Nat /\ taken'[q] >= taken[q]
  BY <1>1, TakenGrows
<1>5. ASSUME UNCHANGED msg, serving' = serving,
             at'[Main] = "pass" \/ Speaking(Main)' => at[Main] = "pass" \/ Speaking(Main),
             \A w \in Peers : Speaking(w)' => Speaking(w),
             \A w \in Peers : at'[w] \in {"find", "copy", "load", "store"} =>
                                at[w] \in {"find", "copy", "load", "store"}
      PROVE  MsgInv'
  <2>1. \A w \in Peers : Speaking(w) => msg[w].kind # "joined"
    BY <1>1 DEF MsgInv, Farewell
  <2>. QED  BY <1>1, <1>2, <1>3, <1>4, <1>5, <2>1 DEF MsgInv, Threads
<1>6. CASE UNCHANGED vars \/ PeerStep \/ Dying
  BY <1>5, <1>6 DEF vars, roomVars, PeerStep, Dying, Fault, Speaking
<1>7. CASE Broadcasting
  <2>1. PICK t \in Threads : Lock(t) \/ SendTurn(t) \/ SendEnd(t) \/ Unlock(t)
    BY <1>7 DEF Broadcasting
  <2>2. UNCHANGED msg /\ serving' = serving
    BY <1>7, <2>1 DEF Broadcasting, Lock, SendTurn, SendEnd, Unlock
  <2>3. Speaking(t)
        /\ (at' = at \/ \E x \in {"send", "unlock", "create", "recv", "close"} :
                          at' = [at EXCEPT ![t] = x])
    BY <2>1 DEF Lock, SendTurn, SendEnd, Unlock, Goto, SendTo, Skip, Break, Speaking
  <2>. QED  BY <1>2, <1>3, <1>5, <2>2, <2>3 DEF Speaking
<1>8. CASE Accept \/ (MainAlone /\ (RecvName \/ StoreCfd \/ Count))
  <2>1. UNCHANGED msg /\ \E x \in {"name", "cfd", "text", "accept"} : at' = [at EXCEPT ![Main] = x]
    BY <1>8 DEF Accept, RecvName, StoreCfd, Count, Goto
  <2>2. ~Speaking(Main)' /\ at'[Main] # "pass"
    BY <1>2, <1>3, <2>1 DEF Speaking
  <2>3. \A w \in Peers : at'[w] = at[w]
    BY <1>2, <1>3, <2>1
  <2>. QED  BY <1>1, <1>2, <1>3, <1>4, <2>1, <2>2, <2>3 DEF MsgInv, Speaking, Threads
<1>9. CASE MainAlone /\ ReadName
  <2>1. msg'[Main].kind = "joined" /\ msg'[Main].from = serving /\ serving' = serving
        /\ \A w \in Peers : msg'[w] = msg[w] /\ at'[w] = at[w]
    BY <1>2, <1>3, <1>9 DEF MainAlone, ReadName, Goto
  <2>2. \A w \in Peers : Speaking(w) => msg[w].kind # "joined"
    BY <1>1 DEF MsgInv, Farewell
  <2>. QED  BY <1>1, <1>2, <1>3, <1>4, <2>1, <2>2 DEF MsgInv, Speaking, Threads
<1>10. CASE (MainAlone /\ (PassEntry \/ CreateThread)) \/ Loading
  <2>1. UNCHANGED msg /\ serving' = serving
    BY <1>10 DEF MainAlone, PassEntry, CreateThread, Loading, Load
  <2>2. \A w \in Peers :
          \/ at'[w] = at[w]
          \/ at'[w] = "start"
          \/ (at[w] = "load" /\ at'[w] = "store")
    <3>1. CASE PassEntry \/ CreateThread
      BY <1>2, <1>3, <3>1 DEF PassEntry, CreateThread, Goto
    <3>2. CASE Loading
      BY <1>2, <1>3, <3>2 DEF Loading, Load, Goto
    <3>. QED  BY <1>10, <3>1, <3>2
  <2>3. at'[Main] = "pass" \/ Speaking(Main)' => at[Main] = "pass" \/ Speaking(Main)
    <3>1. CASE PassEntry
      BY <3>1 DEF PassEntry, Goto
    <3>2. CASE CreateThread
      <4>1. serving \in Peers
        BY <1>1, <3>2 DEF CreateThread, LifeInv, Admitting
      <4>. QED  BY <1>2, <1>3, <3>2, <4>1 DEF CreateThread, Speaking
    <3>3. CASE Loading
      BY <1>2, <1>3, <3>3 DEF Loading, Load, Goto, Speaking
    <3>. QED  BY <1>10, <3>1, <3>2, <3>3
  <2>. QED  BY <1>2, <1>5, <2>1, <2>2, <2>3 DEF Speaking
<1>11. CASE Serves
  <2>1. PICK w \in Peers : \/ CopyArg(w) \/ RecvLine(w) \/ RecvEof(w) \/ Find(w)
                           \/ CopyLast(w) \/ Uncount(w) \/ Close(w)
    BY <1>11 DEF Serves
  <2>2. serving' = serving /\ at'[Main] = at[Main]
    BY <1>2, <1>3, <1>11, <2>1
       DEF Serves, CopyArg, RecvLine, RecvEof, Find, CopyLast, Uncount, Close, Goto
  <2>3. CASE CopyArg(w) \/ CopyLast(w) \/ Close(w)
    <3>1. UNCHANGED msg
      BY <2>3 DEF CopyArg, CopyLast, Close
    <3>2. \/ at[w] # "copy" /\ \E x \in {"recv", "done"} : at' = [at EXCEPT ![w] = x]
          \/ at[w] = "copy" /\ at' = [at EXCEPT ![w] = "load"]
      BY <2>3 DEF CopyArg, CopyLast, Close, Goto
    <3>. QED  BY <1>2, <1>3, <1>5, <2>2, <3>1, <3>2 DEF Speaking
  \* w begins to say goodbye
  <2>4. ASSUME at[w] \in {"find", "store"}, at' = [at EXCEPT ![w] = "lock"],
               msg' \in [Threads -> Message], msg'[w].from = w, msg'[w].kind \in Farewell,
               \A u \in Threads \ {w} : msg'[u] = msg[u]
        PROVE  MsgInv'
    <3>1. \A u \in Threads : u # w /\ Speaking(u) /\ msg[u].kind \in Farewell => msg[u].from # w
      BY <1>1, <1>2 DEF MsgInv, Farewell, Threads
    <3>2. \A u \in Threads : u # w => (Speaking(u)' <=> Speaking(u)) /\ at'[u] = at[u]
      BY <1>3, <2>4 DEF Speaking
    <3>3. at'[w] = "lock" /\ Speaking(w)'
      BY <1>2, <1>3, <2>4 DEF Speaking
    <3>4. \A t, u \in Threads : Speaking(t)' /\ Speaking(u)' /\ msg'[t] = msg'[u] => t = u
      BY <1>1, <2>4, <3>1, <3>2 DEF MsgInv
    <3>5. Speaking(Main)' <=> Speaking(Main)
      BY <2>2 DEF Speaking
    <3>. QED  BY <1>1, <1>2, <1>3, <1>4, <2>2, <2>4, <3>2, <3>3, <3>4, <3>5 DEF MsgInv
  <2>5. CASE Find(w)
    <3>1. UNCHANGED msg /\ at[w] = "find"
          /\ (at' = at \/ \E x \in {"lock", "copy"} : at' = [at EXCEPT ![w] = x])
      BY <2>5 DEF Find
    <3>2. msg[w].from = w /\ msg[w].kind \in Farewell
      BY <1>1, <3>1 DEF MsgInv, Farewell
    <3>3. CASE at' = [at EXCEPT ![w] = "lock"]
      BY <1>3, <2>4, <3>1, <3>2, <3>3
    <3>4. CASE at' = at \/ at' = [at EXCEPT ![w] = "copy"]
      BY <1>2, <1>3, <1>5, <2>2, <3>1, <3>4 DEF Speaking
    <3>. QED  BY <3>1, <3>3, <3>4
  <2>6. CASE Uncount(w)
    <3>1. at[w] = "store" /\ at' = [at EXCEPT ![w] = "lock"]
          /\ msg' = [msg EXCEPT ![w].kind = "left"]
      BY <2>6 DEF Uncount, Goto
    <3>2. msg[w].from = w /\ msg[w] \in Message
      BY <1>1, <1>2, <1>3, <3>1 DEF MsgInv
    <3>3. msg'[w] = [msg[w] EXCEPT !.kind = "left"] /\ \A u \in Threads \ {w} : msg'[u] = msg[u]
      BY <1>2, <1>3, <3>1
    <3>4. msg'[w].from = w /\ msg'[w].kind = "left"
      BY <3>2, <3>3 DEF Message
    <3>5. msg' \in [Threads -> Message]
      BY TypeStep DEF TypeOK
    <3>. QED  BY <2>4, <3>1, <3>3, <3>4, <3>5 DEF Farewell
  <2>7. CASE RecvLine(w)
    <3>1. PICK q \in Peers : Receives(q)
             /\ msg' = [msg EXCEPT ![w] = [kind |-> "says", by |-> cl[w].name,
                                           from |-> q, line |-> taken[q] + 1]]
      BY <2>7 DEF RecvLine, Owner
    <3>2. msg'[w].kind = "says" /\ msg'[w].from = q /\ msg'[w].line = taken[q] + 1
          /\ \A u \in Threads \ {w} : msg'[u] = msg[u]
      BY <1>2, <1>3, <3>1
    <3>3. taken'[q] >= taken[q] + 1
      <4>1. PICK n \in (taken[q] + 1)..sent[q] : taken' = [taken EXCEPT ![q] = n]
        BY <3>1 DEF Receives
      <4>2. sent[q] \in Nat /\ taken[q] \in Nat
        BY <1>1 DEF TypeOK
      <4>. QED  BY <1>3, <4>1, <4>2
    <3>4. msg'[w].line \in 1..taken'[q]
      BY <1>3, <1>4, <3>2, <3>3
    <3>5. at' = [at EXCEPT ![w] = "lock"]
      BY <2>7 DEF RecvLine, Goto
    <3>6. \A u \in Threads : u # w => (Speaking(u)' <=> Speaking(u)) /\ at'[u] = at[u]
      BY <1>3, <3>5 DEF Speaking
    <3>7. \A u \in Threads : u # w /\ Speaking(u) => msg[u] # msg'[w]
      <4>1. ASSUME NEW u \in Threads, u # w, Speaking(u), msg[u] = msg'[w] PROVE FALSE
        <5>1. msg[u].kind = "says" /\ msg[u].from = q /\ msg[u].line = taken[q] + 1
          BY <3>2, <4>1
        <5>2. msg[u].line \in 1..taken[q]
          BY <1>1, <4>1, <5>1 DEF MsgInv, Farewell, Threads
        <5>. QED  BY <1>3, <5>1, <5>2
      <4>. QED  BY <4>1
    <3>8. at'[w] = "lock"
      BY <1>2, <1>3, <3>5
    <3>9. \A t, u \in Threads : Speaking(t)' /\ Speaking(u)' /\ msg'[t] = msg'[u] => t = u
      BY <1>1, <3>2, <3>6, <3>7 DEF MsgInv
    <3>. QED  BY <1>1, <1>2, <1>3, <1>4, <2>2, <3>2, <3>4, <3>6, <3>8, <3>9 DEF MsgInv, Speaking
  <2>8. CASE RecvEof(w)
    <3>1. at' = [at EXCEPT ![w] = "find"]
          /\ msg' = [msg EXCEPT ![w] = [kind |-> "gone", by |-> cl[w].name, from |-> w, line |-> 0]]
      BY <2>8 DEF RecvEof, Goto
    <3>2. msg'[w].kind = "gone" /\ msg'[w].from = w /\ at'[w] = "find" /\ ~Speaking(w)'
          /\ \A u \in Threads \ {w} : msg'[u] = msg[u] /\ at'[u] = at[u]
      BY <1>2, <1>3, <3>1 DEF Speaking
    <3>. QED  BY <1>1, <1>2, <1>3, <1>4, <2>2, <3>2 DEF MsgInv, Speaking
  <2>. QED  BY <2>1, <2>3, <2>5, <2>6, <2>7, <2>8
<1>. QED  BY <1>6, <1>7, <1>8, <1>9, <1>10, <1>11, Steps DEF MainAlone

-----------------------------------------------------------------------------
(* Only a turn of broadcast sends anything, and it sends what it has. *)
LEMMA SentGrows ==
  ASSUME IInv, Next
  PROVE  \/ got' = got
         \/ \E t \in Threads, q \in Peers :
              /\ SendTurn(t) /\ at' = at /\ UNCHANGED <<msg, peer, taken, serving>>
              /\ got' = [got EXCEPT ![q] = Append(got[q], msg[t])]
<1>1. CASE UNCHANGED vars \/ PeerStep \/ Dying
  BY <1>1 DEF vars, roomVars, PeerStep, Dying, Fault
<1>2. CASE Broadcasting
  <2>1. PICK t \in Threads : Lock(t) \/ SendTurn(t) \/ SendEnd(t) \/ Unlock(t)
    BY <1>2 DEF Broadcasting
  <2>2. CASE Lock(t) \/ SendEnd(t) \/ Unlock(t)
    BY <2>2 DEF Lock, SendEnd, Unlock
  <2>3. CASE SendTurn(t)
    <3>1. full \in Peers \cup {NoOne} /\ UNCHANGED <<msg, peer, taken, serving>>
      BY <1>2, <2>3 DEF IInv, TypeOK, Broadcasting, SendTurn, peerVars
    <3>2. ASSUME NEW q \in Peers, SendTo(t, q)
          PROVE  \/ got' = got
                 \/ at' = at /\ got' = [got EXCEPT ![q] = Append(got[q], msg[t])]
      BY <3>2 DEF SendTo, Skip, Break
    <3>. QED  BY <2>3, <3>1, <3>2 DEF SendTurn, Owner, Skip, Break
  <2>. QED  BY <2>1, <2>2, <2>3
<1>3. CASE Accept \/ MainAlone \/ Loading
  BY <1>3 DEF Accept, MainAlone, RecvName, StoreCfd, ReadName, PassEntry, CreateThread, Count,
              Loading, Load
<1>4. CASE Serves
  BY <1>4 DEF Serves, CopyArg, RecvLine, RecvEof, Find, CopyLast, Uncount, Close
<1>. QED  BY <1>1, <1>2, <1>3, <1>4, Steps

LEMMA AppendSent ==
  ASSUME TypeOK, NEW t \in Threads, NEW q \in Peers,
         got' = [got EXCEPT ![q] = Append(got[q], msg[t])]
  PROVE  /\ Sent' \subseteq Sent \cup {msg[t]}
         /\ \A r \in Peers : Len(got'[r]) = IF r = q THEN Len(got[r]) + 1 ELSE Len(got[r])
         /\ \A r \in Peers : \A i \in 1..Len(got'[r]) :
              \/ i \in 1..Len(got[r]) /\ got'[r][i] = got[r][i]
              \/ r = q /\ i = Len(got[q]) + 1 /\ got'[r][i] = msg[t]
<1>1. got \in [Peers -> Seq(Message)] /\ msg[t] \in Message
  BY DEF TypeOK
<1>2. \A r \in Peers : r # q => got'[r] = got[r]
  BY <1>1
<1>3. got'[q] = Append(got[q], msg[t]) /\ got[q] \in Seq(Message)
  BY <1>1
<1>4. Len(got'[q]) = Len(got[q]) + 1 /\ Len(got[q]) \in Nat
      /\ \A i \in 1..(Len(got[q]) + 1) :
           got'[q][i] = IF i = Len(got[q]) + 1 THEN msg[t] ELSE got[q][i]
  BY <1>1, <1>3
<1>5. \A r \in Peers : \A i \in 1..Len(got'[r]) :
        \/ i \in 1..Len(got[r]) /\ got'[r][i] = got[r][i]
        \/ r = q /\ i = Len(got[q]) + 1 /\ got'[r][i] = msg[t]
  BY <1>2, <1>4
<1>6. Sent' \subseteq Sent \cup {msg[t]}
  BY <1>5 DEF Sent, MessagesOf
<1>. QED  BY <1>2, <1>4, <1>5, <1>6

LEMMA SentStep ==
  ASSUME IInv, Next
  PROVE  SentInv'
<1>1. TypeOK /\ LifeInv /\ MsgInv /\ SentInv /\ MsgInv'
  BY MsgStep DEF IInv
<1>2. Main \in Threads /\ \A p \in Peers : p \in Threads /\ p # Main
  BY TcpAssumption DEF Threads
<1>3. /\ at \in [Threads -> Places]
      /\ msg \in [Threads -> Message] /\ cl \in [Threads -> Entry] /\ taken \in [Peers -> Nat]
  BY <1>1 DEF TypeOK
<1>4. \A q \in Peers : taken'[q] \in Nat /\ taken'[q] >= taken[q]
  BY <1>1, TakenGrows
<1>5. CASE got' # got
  <2>1. PICK t \in Threads, q \in Peers :
          /\ SendTurn(t) /\ at' = at /\ UNCHANGED <<msg, peer, taken, serving>>
          /\ got' = [got EXCEPT ![q] = Append(got[q], msg[t])]
    BY <1>5, SentGrows
  <2>2. at[t] = "send" /\ Sent' \subseteq Sent \cup {msg[t]}
    BY <1>1, <2>1, AppendSent DEF SendTurn
  <2>3. \A m \in Sent :
          /\ m.from \in Peers
          /\ m.kind = "says" => m.line \in 1..taken'[m.from]
          /\ m.kind = "joined" => /\ peer'[m.from] \notin {"new", "connecting"}
                                  /\ ~(serving' = m.from /\ at'[Main] \in Entering)
          /\ m.kind \in Farewell => /\ at'[m.from] \in {"send", "unlock", "close", "done"}
                                    /\ Speaking(m.from)' => msg'[m.from].kind \in Farewell
          /\ \A u \in Threads : at'[u] = "lock" => msg'[u] # m
    BY <1>1, <2>1 DEF SentInv, Speaking
  <2>4. \A u \in Threads : at'[u] = "lock" => msg'[u] # msg[t]
    BY <1>1, <2>1, <2>2 DEF MsgInv, Speaking
  <2>5. CASE t = Main
    <3>1. msg[t].kind = "joined" /\ msg[t].from = serving /\ serving \in Peers
          /\ peer[serving] \notin {"new", "connecting"}
      BY <1>1, <2>2, <2>5 DEF MsgInv, Speaking, LifeInv, Admitting
    <3>. QED  BY <2>1, <2>2, <2>3, <2>4, <2>5, <3>1 DEF SentInv, Farewell, Entering
  <2>6. CASE t # Main
    <3>1. t \in Peers
      BY <2>6 DEF Threads
    <3>2. \/ msg[t].kind = "says" /\ msg[t].from \in Peers /\ msg[t].line \in 1..taken[msg[t].from]
          \/ msg[t].kind \in Farewell /\ msg[t].from = t
      BY <1>1, <2>2, <3>1 DEF MsgInv, Speaking
    <3>. QED  BY <2>1, <2>2, <2>3, <2>4, <3>1, <3>2 DEF SentInv, Farewell
  <2>. QED  BY <2>5, <2>6
<1>6. CASE got' = got
  <2>1. Sent' = Sent
    BY <1>6 DEF Sent, MessagesOf
  <2>2. \A m \in Sent : m.kind = "says" => m.line \in 1..taken'[m.from]
    BY <1>1, <1>3, <1>4 DEF SentInv
  <2>3. ASSUME \A q \in Peers : peer[q] \notin {"new", "connecting"} =>
                                  peer'[q] \notin {"new", "connecting"},
               \A m \in Sent : m.kind = "joined" =>
                                 ~(serving' = m.from /\ at'[Main] \in Entering),
               \A w \in Peers : at[w] \in {"send", "unlock", "close", "done"} =>
                 /\ \/ at'[w] \in {"send", "unlock", "close", "done"}
                    \/ Speaking(w) /\ msg[w].kind \notin Farewell
                 /\ msg'[w] = msg[w] /\ (Speaking(w)' => Speaking(w)),
               \A u \in Threads : at'[u] = "lock" => \A m \in Sent : msg'[u] # m
        PROVE  SentInv'
    <3>1. ASSUME NEW m \in Sent, m.kind \in Farewell
          PROVE  /\ at'[m.from] \in {"send", "unlock", "close", "done"}
                 /\ Speaking(m.from)' => msg'[m.from].kind \in Farewell
      BY <1>1, <2>3, <3>1 DEF SentInv
    <3>. QED  BY <1>1, <2>1, <2>2, <2>3, <3>1 DEF SentInv
  \* The steps that change neither what main serves nor what is to be sent.
  <2>4. ASSUME \A q \in Peers : peer[q] \notin {"new", "connecting"} =>
                                  peer'[q] \notin {"new", "connecting"},
               serving' = serving, at'[Main] \in Entering => at[Main] \in Entering,
               \A w \in Peers : at[w] \in {"send", "unlock", "close", "done"} =>
                 /\ \/ at'[w] \in {"send", "unlock", "close", "done"}
                    \/ Speaking(w) /\ msg[w].kind \notin Farewell
                 /\ msg'[w] = msg[w] /\ (Speaking(w)' => Speaking(w)),
               \A u \in Threads : at'[u] = "lock" => at[u] = "lock" /\ msg'[u] = msg[u]
        PROVE  SentInv'
    BY <1>1, <2>3, <2>4 DEF SentInv
  <2>5. CASE UNCHANGED vars \/ PeerStep \/ Dying
    <3>1. UNCHANGED <<at, msg, serving>>
      BY <2>5 DEF PeerStep, vars, roomVars, Dying, Fault
    <3>2. \A q \in Peers : peer[q] \notin {"new", "connecting"} =>
                             peer'[q] \notin {"new", "connecting"}
      BY <1>1, <2>5 DEF PeerStep, Connect, Line, Stop, Resume, Leave, TypeOK,
                        vars, roomVars, peerVars, Dying, Fault
    <3>. QED  BY <2>4, <3>1, <3>2 DEF Speaking
  <2>6. CASE Broadcasting
    <3>1. PICK t \in Threads : Lock(t) \/ SendTurn(t) \/ SendEnd(t) \/ Unlock(t)
      BY <2>6 DEF Broadcasting
    <3>2. UNCHANGED <<msg, peer, serving>>
      BY <2>6, <3>1 DEF Broadcasting, Lock, SendTurn, SendEnd, Unlock, peerVars
    <3>3. \/ at' = at
          \/ at[t] = "lock" /\ at' = [at EXCEPT ![t] = "send"]
          \/ at[t] = "send" /\ at' = [at EXCEPT ![t] = "unlock"]
          \/ at[t] = "unlock" /\ at' = [at EXCEPT ![t] = IF t = Main THEN "create"
                                          ELSE IF msg[t].kind = "says" THEN "recv" ELSE "close"]
      BY <3>1 DEF Lock, SendTurn, SendEnd, Unlock, Goto, SendTo, Skip, Break
    <3>4. \A w \in Peers : at[w] \in {"send", "unlock", "close", "done"} =>
            /\ \/ at'[w] \in {"send", "unlock", "close", "done"}
               \/ Speaking(w) /\ msg[w].kind \notin Farewell
            /\ msg'[w] = msg[w] /\ (Speaking(w)' => Speaking(w))
      BY <1>2, <1>3, <3>2, <3>3 DEF Speaking, Farewell
    <3>5. /\ at'[Main] \in Entering => at[Main] \in Entering
          /\ \A u \in Threads : at'[u] = "lock" => at[u] = "lock"
      BY <1>2, <1>3, <3>3 DEF Entering
    <3>. QED  BY <2>4, <3>2, <3>4, <3>5
  <2>7. CASE Accept
    <3>1. PICK q \in Peers : peer[q] = "connecting" /\ peer' = [peer EXCEPT ![q] = "open"]
                             /\ serving' = q
      BY <1>1, <2>7, Accepting
    <3>2. msg' = msg /\ at' = [at EXCEPT ![Main] = "name"]
      BY <2>7 DEF Accept, Goto
    <3>3. \A p \in Peers : peer[p] \notin {"new", "connecting"} =>
                             peer'[p] \notin {"new", "connecting"}
      BY <1>1, <3>1 DEF TypeOK
    <3>4. \A m \in Sent : m.kind = "joined" => m.from # q
      BY <1>1, <3>1 DEF SentInv
    <3>5. \A w \in Peers : at'[w] = at[w]
      BY <1>2, <1>3, <3>2
    <3>6. \A u \in Threads : at'[u] = "lock" => \A m \in Sent : msg'[u] # m
      BY <1>1, <1>2, <1>3, <3>2 DEF SentInv
    <3>7. \A m \in Sent : m.kind = "joined" => ~(serving' = m.from /\ at'[Main] \in Entering)
      BY <3>1, <3>4
    <3>. QED  BY <2>3, <3>2, <3>3, <3>5, <3>6, <3>7 DEF Speaking
  <2>8. CASE MainAlone /\ (RecvName \/ StoreCfd \/ ReadName \/ Count)
    <3>1. UNCHANGED <<peer, serving>>
      BY <2>8 DEF MainAlone, RecvName, StoreCfd, ReadName, Count, peerVars
    <3>2. \/ at[Main] \in {"name", "cfd", "text"}
             /\ \E x \in {"cfd", "text", "pass"} : at' = [at EXCEPT ![Main] = x]
          \/ at' = [at EXCEPT ![Main] = "accept"]
      BY <2>8 DEF RecvName, StoreCfd, ReadName, Count, Goto
    <3>3. /\ \A w \in Peers : at'[w] = at[w] /\ msg'[w] = msg[w]
          /\ at'[Main] \in Entering => at[Main] \in Entering
          /\ at'[Main] # "lock"
      BY <1>2, <1>3, <2>8, <3>2 DEF RecvName, StoreCfd, ReadName, Count, Entering
    <3>. QED  BY <2>4, <3>1, <3>3 DEF Speaking, Threads
  <2>9. CASE MainAlone /\ PassEntry
    <3>1. UNCHANGED <<peer, serving, msg>> /\ at[Main] = "pass" /\ at' = [at EXCEPT ![Main] = "lock"]
      BY <2>9 DEF MainAlone, PassEntry, peerVars, Goto
    <3>2. msg[Main].kind = "joined" /\ msg[Main].from = serving /\ at[Main] \in Entering
          /\ \A w \in Peers : at'[w] = at[w]
      BY <1>1, <1>2, <1>3, <3>1 DEF MsgInv, Entering
    <3>3. \A u \in Threads : at'[u] = "lock" => \A m \in Sent : msg'[u] # m
      BY <1>1, <1>2, <3>1, <3>2 DEF SentInv, Threads
    <3>4. at'[Main] \notin Entering
      BY <1>2, <1>3, <3>1 DEF Entering
    <3>. QED  BY <2>3, <3>1, <3>2, <3>3, <3>4 DEF Speaking
  <2>10. CASE (MainAlone /\ CreateThread) \/ Loading
    <3>1. UNCHANGED <<msg, peer, serving>>
      BY <2>10 DEF MainAlone, CreateThread, Loading, Load, peerVars
    <3>2. \A u \in Threads : \/ at'[u] = at[u]
                             \/ at'[u] = "start" /\ at[u] = "none"
                             \/ at'[u] = "store" /\ at[u] = "load"
                             \/ at'[u] = "load" /\ at[u] = "create"
      <4>1. CASE CreateThread
        <5>1. serving \in Peers /\ at[serving] = "none"
          BY <1>1, <4>1 DEF CreateThread, LifeInv, Admitting
        <5>. QED  BY <1>2, <1>3, <4>1, <5>1 DEF CreateThread
      <4>2. CASE Loading
        BY <1>3, <4>2 DEF Loading, Load, Goto
      <4>. QED  BY <2>10, <4>1, <4>2
    <3>. QED  BY <1>2, <2>4, <3>1, <3>2 DEF Speaking, Entering
  <2>11. CASE Serves
    <3>1. PICK w \in Peers : \/ CopyArg(w) \/ RecvLine(w) \/ RecvEof(w) \/ Find(w)
                             \/ CopyLast(w) \/ Uncount(w) \/ Close(w)
      BY <2>11 DEF Serves
    <3>2. serving' = serving /\ at'[Main] = at[Main]
      BY <1>2, <1>3, <2>11, <3>1
         DEF Serves, CopyArg, RecvLine, RecvEof, Find, CopyLast, Uncount, Close, Goto
    <3>3. \A q \in Peers : peer[q] \notin {"new", "connecting"} =>
                             peer'[q] \notin {"new", "connecting"}
      <4>1. peer' = peer \/ Close(w)
        BY <3>1 DEF CopyArg, RecvLine, RecvEof, Find, CopyLast, Uncount, peerVars
      <4>. QED  BY <1>1, <4>1 DEF Close, TypeOK
    <3>4. \A u \in Threads : u # w => at'[u] = at[u] /\ msg'[u] = msg[u]
      BY <1>3, <3>1 DEF CopyArg, RecvLine, RecvEof, Find, CopyLast, Uncount, Close, Goto
    <3>5. at'[w] \notin {"send", "unlock"}
          /\ \/ at[w] \notin {"send", "unlock", "close", "done"}
             \/ at[w] = "close" /\ at'[w] = "done" /\ msg'[w] = msg[w]
      BY <1>2, <1>3, <3>1 DEF CopyArg, RecvLine, RecvEof, Find, CopyLast, Uncount, Close, Goto
    <3>6. ASSUME at'[w] = "lock", NEW m \in Sent, msg'[w] = m PROVE FALSE
      <4>1. Find(w) \/ Uncount(w) \/ RecvLine(w)
        BY <1>2, <1>3, <3>1, <3>6 DEF CopyArg, RecvEof, CopyLast, Close, Goto
      <4>2. CASE Find(w) \/ Uncount(w)
        <5>1. at[w] \in {"find", "store"}
          BY <4>2 DEF Find, Uncount, Goto
        <5>2. msg[w].kind = "gone" /\ msg[w].from = w
          BY <1>1, <5>1 DEF MsgInv
        <5>3. m.kind \in Farewell /\ m.from = w
          <6>1. msg[w] \in Message
            BY <1>2, <1>3
          <6>2. msg' = msg \/ msg'[w] = [msg[w] EXCEPT !.kind = "left"]
            BY <1>2, <1>3, <4>2 DEF Find, Uncount
          <6>. QED  BY <3>6, <5>2, <6>1, <6>2 DEF Farewell, Message
        <5>. QED  BY <1>1, <5>1, <5>3 DEF SentInv
      <4>3. CASE RecvLine(w)
        <5>1. PICK q \in Peers : msg'[w] = [kind |-> "says", by |-> cl[w].name,
                                            from |-> q, line |-> taken[q] + 1]
          BY <1>2, <1>3, <4>3 DEF RecvLine, Owner
        <5>2. m.kind = "says" /\ m.from = q /\ m.line = taken[q] + 1
          BY <3>6, <5>1
        <5>. QED  BY <1>1, <1>3, <5>2 DEF SentInv
      <4>. QED  BY <4>1, <4>2, <4>3
    <3>7. \A u \in Threads : at'[u] = "lock" => \A m \in Sent : msg'[u] # m
      BY <1>1, <3>4, <3>6 DEF SentInv
    <3>8. \A u \in Peers : at[u] \in {"send", "unlock", "close", "done"} =>
            /\ at'[u] \in {"send", "unlock", "close", "done"}
            /\ msg'[u] = msg[u] /\ (Speaking(u)' => Speaking(u))
      BY <1>2, <3>4, <3>5 DEF Speaking
    <3>9. \A m \in Sent : m.kind = "joined" => ~(serving' = m.from /\ at'[Main] \in Entering)
      BY <1>1, <3>2 DEF SentInv
    <3>. QED  BY <2>3, <3>3, <3>7, <3>8, <3>9
  <2>. QED  BY <2>5, <2>6, <2>7, <2>8, <2>9, <2>10, <2>11, Steps DEF MainAlone
<1>. QED  BY <1>5, <1>6

LEMMA LastStep ==
  ASSUME IInv, Next
  PROVE  LastInv'
<1>1. TypeOK /\ LifeInv /\ SentInv /\ LastInv /\ got \in [Peers -> Seq(Message)]
  BY DEF IInv, TypeOK
<1>2. Main \in Threads /\ NoOne \notin Threads /\ \A p \in Peers : p \in Threads /\ p # Main
  BY TcpAssumption DEF Threads
<1>3. /\ at \in [Threads -> Places]
      /\ msg \in [Threads -> Message]
  BY <1>1 DEF TypeOK
<1>4. CASE got' # got
  <2>1. PICK t \in Threads, q \in Peers :
          /\ SendTurn(t) /\ at' = at /\ UNCHANGED <<msg, peer, taken, serving>>
          /\ got' = [got EXCEPT ![q] = Append(got[q], msg[t])]
    BY <1>4, SentGrows
  <2>2. at[t] = "send"
    BY <2>1 DEF SendTurn
  <2>3. \A u \in Threads : at[u] = "send" => u = t
    BY <1>1, <2>2 DEF LifeInv
  <2>4. /\ \A r \in Peers : Len(got'[r]) = IF r = q THEN Len(got[r]) + 1 ELSE Len(got[r])
        /\ \A r \in Peers : \A i \in 1..Len(got'[r]) :
              \/ i \in 1..Len(got[r]) /\ got'[r][i] = got[r][i]
              \/ r = q /\ i = Len(got[q]) + 1 /\ got'[r][i] = msg[t]
    BY <1>1, <2>1, AppendSent
  <2>5. ASSUME NEW r \in Peers, NEW i \in 1..Len(got'[r]), NEW j \in 1..Len(got'[r]),
               i < j, got'[r][i] = msg[t]
        PROVE  got'[r][j] = msg[t]
    <3>1. Len(got[r]) \in Nat /\ Len(got[q]) \in Nat
      BY <1>1
    <3>2. CASE j \in 1..Len(got[r]) /\ got'[r][j] = got[r][j]
      <4>1. i \in 1..Len(got[r]) /\ got'[r][i] = got[r][i]
        BY <2>4, <2>5, <3>1, <3>2
      <4>. QED  BY <1>1, <2>2, <2>5, <3>2, <4>1 DEF LastInv
    <3>. QED  BY <2>4, <3>2
  <2>. QED  BY <2>1, <2>3, <2>5 DEF LastInv
<1>5. CASE got' = got
  <2>1. ASSUME NEW t \in Threads, at'[t] = "send"
        PROVE  (at[t] = "send" \/ at[t] = "lock") /\ msg'[t] = msg[t]
    <3>1. CASE UNCHANGED vars \/ PeerStep \/ Dying
      BY <1>3, <2>1, <3>1 DEF vars, roomVars, PeerStep, Dying, Fault
    <3>2. CASE Broadcasting
      <4>1. PICK u \in Threads : Lock(u) \/ SendTurn(u) \/ SendEnd(u) \/ Unlock(u)
        BY <3>2 DEF Broadcasting
      <4>2. CASE Lock(u)
        BY <1>3, <2>1, <4>2 DEF Lock, Goto
      <4>3. CASE SendTurn(u)
        BY <1>3, <2>1, <4>3 DEF SendTurn, SendTo, Skip, Break
      <4>4. CASE SendEnd(u) \/ Unlock(u)
        BY <1>3, <2>1, <4>4 DEF SendEnd, Unlock, Goto
      <4>. QED  BY <4>1, <4>2, <4>3, <4>4
    <3>3. CASE Accept \/ MainAlone \/ Loading
      <4>1. CASE CreateThread
        <5>1. serving \in Peers
          BY <1>1, <4>1 DEF CreateThread, LifeInv, Admitting
        <5>. QED  BY <1>2, <1>3, <2>1, <4>1, <5>1 DEF CreateThread
      <4>2. CASE ReadName
        BY <1>2, <1>3, <2>1, <4>2 DEF ReadName, Goto
      <4>3. CASE Accept \/ RecvName \/ StoreCfd \/ PassEntry \/ Count \/ Loading
        BY <1>2, <1>3, <2>1, <4>3
           DEF Accept, RecvName, StoreCfd, PassEntry, Count, Loading, Load, Goto
      <4>. QED  BY <3>3, <4>1, <4>2, <4>3 DEF MainAlone
    <3>4. CASE Serves
      <4>1. PICK w \in Peers : \/ CopyArg(w) \/ RecvLine(w) \/ RecvEof(w) \/ Find(w)
                               \/ CopyLast(w) \/ Uncount(w) \/ Close(w)
        BY <3>4 DEF Serves
      <4>. QED  BY <1>2, <1>3, <2>1, <4>1
                   DEF CopyArg, RecvLine, RecvEof, Find, CopyLast, Uncount, Close, Goto
    <3>. QED  BY <3>1, <3>2, <3>3, <3>4, Steps
  \* what a thread that has just got the mutex has to send was sent to nobody
  <2>2. ASSUME NEW t \in Threads, at[t] = "lock", NEW q \in Peers, NEW i \in 1..Len(got[q])
        PROVE  got[q][i] # msg[t]
    <3>1. got[q][i] \in Sent
      BY DEF Sent, MessagesOf
    <3>. QED  BY <1>1, <2>2, <3>1 DEF SentInv
  <2>. QED  BY <1>1, <1>5, <2>1, <2>2 DEF LastInv
<1>. QED  BY <1>4, <1>5

(* A message appended to one peer's sequence is the last in every other one
   that has it. *)
LEMMA OrderStep ==
  ASSUME IInv, Next
  PROVE  OrderInv'
<1>1. TypeOK /\ LastInv /\ OrderInv /\ got \in [Peers -> Seq(Message)] /\ LastInv'
  BY LastStep DEF IInv, TypeOK
<1>2. CASE got' = got
  BY <1>1, <1>2 DEF OrderInv
<1>3. CASE got' # got
  <2>1. PICK t \in Threads, q0 \in Peers :
          /\ SendTurn(t) /\ at' = at /\ UNCHANGED <<msg, peer, taken, serving>>
          /\ got' = [got EXCEPT ![q0] = Append(got[q0], msg[t])]
    BY <1>3, SentGrows
  <2>2. at'[t] = "send" /\ msg'[t] = msg[t]
    BY <2>1 DEF SendTurn
  <2>3. /\ \A r \in Peers : Len(got'[r]) = IF r = q0 THEN Len(got[r]) + 1 ELSE Len(got[r])
        /\ \A r \in Peers : \A i \in 1..Len(got'[r]) :
              \/ i \in 1..Len(got[r]) /\ got'[r][i] = got[r][i]
              \/ r = q0 /\ i = Len(got[q0]) + 1 /\ got'[r][i] = msg[t]
    BY <1>1, <2>1, AppendSent
  <2>4. \A r \in Peers : \A i, j \in 1..Len(got'[r]) :
          i < j /\ got'[r][i] = msg[t] => got'[r][j] = msg[t]
    BY <1>1, <2>2 DEF LastInv
  <2>5. ASSUME NEW q \in Peers, NEW r \in Peers,
               NEW i \in 1..Len(got'[q]), NEW j \in 1..Len(got'[q]),
               NEW k \in 1..Len(got'[r]), NEW l \in 1..Len(got'[r]),
               i < j, k < l, got'[q][i] = got'[r][l], got'[q][j] = got'[r][k]
        PROVE  got'[q][i] = got'[q][j]
    <3>1. CASE got'[q][i] = msg[t]
      BY <2>4, <2>5, <3>1
    <3>2. CASE got'[r][k] = msg[t]
      <4>1. got'[r][l] = msg[t]
        BY <2>4, <2>5, <3>2
      <4>. QED  BY <2>5, <3>2, <4>1
    <3>3. CASE got'[q][i] # msg[t] /\ got'[r][k] # msg[t]
      <4>1. /\ i \in 1..Len(got[q]) /\ got'[q][i] = got[q][i]
            /\ k \in 1..Len(got[r]) /\ got'[r][k] = got[r][k]
            /\ j \in 1..Len(got[q]) /\ got'[q][j] = got[q][j]
            /\ l \in 1..Len(got[r]) /\ got'[r][l] = got[r][l]
        BY <2>3, <2>5, <3>3
      <4>2. i < j /\ k < l /\ got[q][i] = got[r][l] /\ got[q][j] = got[r][k]
        BY <2>5, <4>1, Zenon
      <4>3. got[q][i] = got[q][j]
        BY <1>1, <4>1, <4>2, Zenon DEF OrderInv
      <4>. QED  BY <4>1, <4>3
    <3>. QED  BY <3>1, <3>2, <3>3
  <2>. QED  BY <2>5 DEF OrderInv
<1>. QED  BY <1>2, <1>3

-----------------------------------------------------------------------------
(* From here on no removal has overlapped an admission, a start or another
   removal, nor does it after the step. *)
Quiet == ~raced /\ ~raced'

LEMMA Alone ==
  ASSUME IInv, ~raced
  PROVE  /\ EntryInv /\ ArrayInv /\ TrueInv
         /\ \A w \in Peers : Removing(w) =>
              /\ at[Main] = "accept"
              /\ \A u \in Peers \ {w} : ~Removing(u) /\ at[u] # "start"
BY DEF IInv, Overlap

LEMMA Unraced ==
  ASSUME IInv, Next, ~raced'
  PROVE  Quiet /\ ~Overlap'
BY DEF IInv, Quiet, Next, Watch, vars, roomVars, Overlap, Removing

(* Who has gone has gone, and who has a name keeps it. *)
LEMMA NameKept ==
  ASSUME TypeOK, LifeInv, Next
  PROVE  \A p \in Peers : \A n : NameOf(p, n) => NameOf(p, n)'
<1>1. peer \in [Peers -> {"new", "connecting", "open", "closed"}]
      /\ sent \in [Peers -> Nat] /\ taken \in [Peers -> Nat]
  BY DEF TypeOK
<1>2. SUFFICES ASSUME NEW p \in Peers, peer[p] = "closed", sent[p] = taken[p]
               PROVE  peer'[p] = "closed" /\ sent'[p] = sent[p] /\ taken'[p] = taken[p]
  BY DEF NameOf
<1>3. CASE UNCHANGED vars \/ Dying \/ Loading
  BY <1>2, <1>3 DEF vars, roomVars, peerVars, Dying, Fault, Loading, Load
<1>4. CASE PeerStep
  BY <1>1, <1>2, <1>4 DEF PeerStep, Connect, Line, Stop, Resume, Leave
<1>5. CASE Broadcasting
  BY <1>2, <1>5 DEF Broadcasting, Lock, SendTurn, SendEnd, Unlock, peerVars
<1>6. ASSUME NEW q \in Peers, Receives(q) PROVE taken'[p] = taken[p]
  <2>1. p # q
    BY <1>1, <1>2, <1>6 DEF Receives
  <2>. QED  BY <1>1, <1>6, <2>1 DEF Receives
<1>7. CASE Accept \/ MainAlone
  <2>1. CASE Accept
    BY <1>1, <1>2, <2>1 DEF Accept
  <2>2. CASE RecvName
    <3>1. serving \in Peers
      BY <2>2 DEF RecvName, Goto, LifeInv, Admitting
    <3>. QED  BY <1>2, <1>6, <2>2, <3>1 DEF RecvName, Eof, peerVars
  <2>3. CASE StoreCfd \/ ReadName \/ PassEntry \/ CreateThread \/ Count
    BY <1>2, <2>3 DEF StoreCfd, ReadName, PassEntry, CreateThread, Count, peerVars
  <2>. QED  BY <1>7, <2>1, <2>2, <2>3 DEF MainAlone
<1>8. CASE Serves
  <2>1. PICK w \in Peers : \/ CopyArg(w) \/ RecvLine(w) \/ RecvEof(w) \/ Find(w)
                           \/ CopyLast(w) \/ Uncount(w) \/ Close(w)
    BY <1>8 DEF Serves
  <2>2. CASE RecvLine(w)
    BY <1>2, <1>6, <2>2 DEF RecvLine, Owner, peerVars
  <2>3. CASE Close(w)
    BY <1>2, <2>3 DEF Close
  <2>4. CASE CopyArg(w) \/ RecvEof(w) \/ Find(w) \/ CopyLast(w) \/ Uncount(w)
    BY <1>2, <2>4 DEF CopyArg, RecvEof, Find, CopyLast, Uncount, Eof, peerVars
  <2>. QED  BY <2>1, <2>2, <2>3, <2>4
<1>. QED  BY <1>3, <1>4, <1>5, <1>7, <1>8, Steps

(* While main is not about to count, nor a thread about to count down, cnt is
   what it seems. *)
LEMMA TopStep ==
  ASSUME IInv, Next, ~raced'
  PROVE  /\ CreateThread => Top = cnt /\ Top' = cnt + 1
         /\ \A w \in Peers : CopyLast(w) => Top = cnt /\ Top' = cnt - 1 /\ cnt > 0
         /\ \A w \in Peers : at[w] \in {"find", "copy"} => Top = cnt
         /\ at[Main] \notin {"accept", "load", "store"} => Top = cnt
         /\ CreateThread \/ (\E w \in Peers : CopyLast(w)) \/ Top' = Top
<1>1. TypeOK /\ LifeInv /\ EntryInv /\ Quiet /\ ~Overlap'
      /\ \A w \in Peers : Removing(w) => /\ at[Main] = "accept"
                                         /\ \A u \in Peers \ {w} : ~Removing(u) /\ at[u] # "start"
  BY Alone, Unraced DEF IInv, Quiet
<1>2. Main \in Threads /\ \A p \in Peers : p \in Threads /\ p # Main
  BY TcpAssumption DEF Threads
<1>3. at \in [Threads -> Places] /\ cnt \in Int
  <2>1. Most \in Nat
    BY Bounds
  <2>. QED  BY <1>1, <2>1 DEF TypeOK, Elements
<1>4. at[Main] \notin {"accept", "load", "store"} => Top = cnt
  BY <1>1 DEF Top, Removing
<1>5. \A w \in Peers : at[w] \in {"find", "copy"} => Top = cnt
  BY <1>1 DEF Top, Removing
<1>6. ASSUME CreateThread PROVE Top = cnt /\ Top' = cnt + 1
  <2>1. at[Main] = "create" /\ serving \in Peers /\ cnt' = cnt
    BY <1>1, <1>6 DEF CreateThread, LifeInv, Admitting
  <2>2. at'[Main] = "load"
    BY <1>2, <1>3, <1>6, <2>1 DEF CreateThread
  <2>. QED  BY <1>4, <2>1, <2>2 DEF Top
<1>7. ASSUME NEW w \in Peers, CopyLast(w) PROVE Top = cnt /\ Top' = cnt - 1 /\ cnt > 0
  <2>1. at[w] = "copy" /\ at'[w] = "load" /\ at'[Main] = at[Main] /\ cnt' = cnt
    BY <1>2, <1>3, <1>7 DEF CopyLast, Goto
  <2>2. at[Main] = "accept" /\ slot[w] \in 0..(cnt - 1)
    BY <1>1, <2>1 DEF Removing, EntryInv, ThreadEntry
  <2>3. cnt > 0
    BY <1>3, <2>2
  <2>. QED  BY <1>5, <2>1, <2>2, <2>3 DEF Top
<1>8. CASE /\ cnt' = cnt
           /\ \A t \in Threads : at'[t] \in {"load", "store"} <=> at[t] \in {"load", "store"}
  <2>1. Top' = Top
    BY <1>2, <1>8 DEF Top
  <2>. QED  BY <1>4, <1>5, <1>6, <1>7, <2>1
<1>9. CASE ~CreateThread /\ \A w \in Peers : ~CopyLast(w)
  <2>1. CASE UNCHANGED vars \/ PeerStep \/ Dying
    BY <1>8, <2>1 DEF vars, roomVars, PeerStep, Dying, Fault
  <2>2. CASE Broadcasting
    <3>1. PICK t \in Threads : Lock(t) \/ SendTurn(t) \/ SendEnd(t) \/ Unlock(t)
      BY <2>2 DEF Broadcasting
    <3>2. cnt' = cnt /\ at[t] \notin {"load", "store"}
          /\ (at' = at \/ \E x \in {"send", "unlock", "create", "recv", "close"} :
                            at' = [at EXCEPT ![t] = x])
      BY <3>1 DEF Lock, SendTurn, SendEnd, Unlock, Goto, SendTo, Skip, Break
    <3>. QED  BY <1>3, <1>8, <3>2
  <2>3. CASE Accept \/ RecvName \/ StoreCfd \/ ReadName \/ PassEntry
    BY <1>2, <1>3, <1>8, <2>3 DEF Accept, RecvName, StoreCfd, ReadName, PassEntry, Goto
  <2>4. CASE Count
    <3>1. at[Main] = "store" /\ at'[Main] = "accept" /\ cnt' = reg[Main] + 1
          /\ \A u \in Peers : at'[u] = at[u]
      BY <1>2, <1>3, <2>4 DEF Count, Goto
    <3>2. \A u \in Peers : at[u] \notin {"load", "store"}
      BY <1>1, <3>1 DEF Removing
    <3>3. reg[Main] = cnt
      BY <1>1, <3>1 DEF EntryInv, MainEntry
    <3>4. Top' = Top
      BY <3>1, <3>2, <3>3 DEF Top
    <3>. QED  BY <1>4, <1>5, <1>6, <1>7, <3>4
  <2>5. CASE Loading
    BY <1>2, <1>3, <1>8, <2>5 DEF Loading, Load, Goto
  <2>6. CASE Serves
    <3>1. PICK w \in Peers : \/ CopyArg(w) \/ RecvLine(w) \/ RecvEof(w) \/ Find(w)
                             \/ Uncount(w) \/ Close(w)
      BY <1>9, <2>6 DEF Serves
    <3>2. CASE Uncount(w)
      <4>1. at[w] = "store" /\ at'[w] = "lock" /\ cnt' = reg[w] - 1
            /\ \A u \in Threads : u # w => at'[u] = at[u]
        BY <1>2, <1>3, <3>2 DEF Uncount, Goto
      <4>2. at[Main] = "accept" /\ reg[w] = cnt
            /\ \A u \in Peers \ {w} : at[u] \notin {"load", "store"}
        BY <1>1, <4>1 DEF Removing, EntryInv, ThreadEntry
      <4>3. Top' = Top
        BY <1>2, <4>1, <4>2 DEF Top
      <4>. QED  BY <1>4, <1>5, <1>6, <1>7, <4>3
    <3>3. CASE CopyArg(w) \/ RecvLine(w) \/ RecvEof(w) \/ Find(w) \/ Close(w)
      <4>1. cnt' = cnt /\ at[w] \notin {"load", "store"}
            /\ (at' = at \/ \E x \in {"recv", "lock", "find", "copy", "done"} :
                              at' = [at EXCEPT ![w] = x])
        BY <3>3 DEF CopyArg, RecvLine, RecvEof, Find, Close, Goto
      <4>. QED  BY <1>3, <1>8, <4>1
    <3>. QED  BY <3>1, <3>2, <3>3
  <2>. QED  BY <1>9, <2>1, <2>2, <2>3, <2>4, <2>5, <2>6, Steps DEF MainAlone
<1>. QED  BY <1>4, <1>5, <1>6, <1>7, <1>9

LEMMA TrueStep ==
  ASSUME IInv, Next, ~raced'
  PROVE  TrueInv'
<1>1. TypeOK /\ LifeInv /\ MsgInv /\ EntryInv /\ TrueInv
  BY Alone, Unraced DEF IInv, Quiet
<1>2. Main \in Threads /\ \A p \in Peers : p \in Threads /\ p # Main
  BY TcpAssumption DEF Threads
<1>3. /\ at \in [Threads -> Places]
      /\ msg \in [Threads -> Message] /\ cl \in [Threads -> Entry] /\ taken \in [Peers -> Nat]
      /\ sent \in [Peers -> Nat]
  BY <1>1 DEF TypeOK
<1>4. \A m \in Sent' : m.kind = "says" => m.by = m.from
  <2>1. CASE got' = got
    BY <1>1, <2>1 DEF TrueInv, Sent, MessagesOf
  <2>2. CASE got' # got
    <3>1. PICK t \in Threads, q \in Peers :
            SendTurn(t) /\ got' = [got EXCEPT ![q] = Append(got[q], msg[t])]
      BY <2>2, SentGrows
    <3>2. Speaking(t) /\ Sent' \subseteq Sent \cup {msg[t]}
      BY <1>1, <3>1, AppendSent DEF SendTurn, Speaking
    <3>3. msg[t].kind = "says" => msg[t].by = msg[t].from
      BY <1>1, <3>2 DEF MsgInv, TrueInv, Threads
    <3>. QED  BY <1>1, <3>2, <3>3 DEF TrueInv
  <2>. QED  BY <2>1, <2>2
<1>5. ASSUME NEW w \in Peers, Speaking(w)', msg'[w].kind = "says"
      PROVE  msg'[w].from = w /\ msg'[w].by = w
  <2>1. CASE Speaking(w) /\ msg'[w] = msg[w]
    BY <1>1, <1>5, <2>1 DEF TrueInv
  <2>2. CASE RecvLine(w)
    <3>1. PICK q \in Peers : /\ fd[q] = cl[w].cfd /\ Receives(q)
             /\ msg' = [msg EXCEPT ![w] = [kind |-> "says", by |-> cl[w].name,
                                           from |-> q, line |-> taken[q] + 1]]
      BY <2>2 DEF RecvLine, Owner
    <3>2. at[w] = "recv"
      BY <2>2 DEF RecvLine, Goto
    <3>3. fd[w] # 0 /\ fd[w] = cl[w].cfd /\ NameOf(w, cl[w].name)
      BY <1>1, <3>2 DEF EntryInv, ThreadEntry, EntryOf
    <3>4. q = w
      BY <1>1, <3>1, <3>3 DEF LifeInv
    <3>5. cl[w].name = w
      BY <1>3, <3>1, <3>3, <3>4 DEF NameOf, Receives
    <3>. QED  BY <1>2, <1>3, <3>1, <3>4, <3>5
  <2>3. (Speaking(w) /\ msg'[w] = msg[w]) \/ RecvLine(w)
    <3>1. CASE UNCHANGED vars \/ PeerStep \/ Dying
      BY <1>5, <3>1 DEF vars, roomVars, PeerStep, Dying, Fault, Speaking
    <3>2. CASE Broadcasting
      <4>1. PICK t \in Threads : Lock(t) \/ SendTurn(t) \/ SendEnd(t) \/ Unlock(t)
        BY <3>2 DEF Broadcasting
      <4>2. msg' = msg /\ Speaking(t) /\ \A u \in Threads : u # t => at'[u] = at[u]
        BY <1>3, <4>1 DEF Lock, SendTurn, SendEnd, Unlock, Goto, SendTo, Skip, Break, Speaking
      <4>. QED  BY <1>2, <1>5, <4>2 DEF Speaking
    <3>3. CASE Accept \/ MainAlone \/ Loading
      <4>1. msg'[w] = msg[w] /\ at'[w] \in {at[w], "start", "store"}
        <5>1. CASE CreateThread
          BY <1>2, <1>3, <5>1 DEF CreateThread
        <5>2. CASE Accept \/ RecvName \/ StoreCfd \/ ReadName \/ PassEntry \/ Count
          BY <1>2, <1>3, <5>2 DEF Accept, RecvName, StoreCfd, ReadName, PassEntry, Count, Goto
        <5>3. CASE Loading
          BY <1>2, <1>3, <5>3 DEF Loading, Load, Goto
        <5>. QED  BY <3>3, <5>1, <5>2, <5>3 DEF MainAlone
      <4>. QED  BY <1>5, <4>1 DEF Speaking
    <3>4. CASE Serves
      <4>1. PICK u \in Peers : \/ CopyArg(u) \/ RecvLine(u) \/ RecvEof(u) \/ Find(u)
                               \/ CopyLast(u) \/ Uncount(u) \/ Close(u)
        BY <3>4 DEF Serves
      <4>2. CASE u # w
        <5>1. at'[w] = at[w] /\ msg'[w] = msg[w]
          BY <1>2, <1>3, <4>1, <4>2
             DEF CopyArg, RecvLine, RecvEof, Find, CopyLast, Uncount, Close, Goto
        <5>. QED  BY <1>5, <5>1 DEF Speaking
      <4>3. CASE CopyArg(w) \/ RecvEof(w) \/ CopyLast(w) \/ Close(w)
        <5>1. ~Speaking(w)'
          BY <1>2, <1>3, <4>3 DEF CopyArg, RecvEof, CopyLast, Close, Goto, Speaking
        <5>. QED  BY <1>5, <5>1
      <4>4. CASE Find(w)
        <5>1. msg[w].kind = "gone" /\ msg' = msg
          BY <1>1, <4>4 DEF Find, MsgInv
        <5>. QED  BY <1>5, <5>1
      <4>5. CASE Uncount(w)
        <5>1. msg'[w].kind = "left"
          BY <1>2, <1>3, <4>5 DEF Uncount, Message
        <5>. QED  BY <1>5, <5>1
      <4>. QED  BY <4>1, <4>2, <4>3, <4>4, <4>5
    <3>. QED  BY <3>1, <3>2, <3>3, <3>4, Steps
  <2>. QED  BY <2>1, <2>2, <2>3
<1>. QED  BY <1>4, <1>5 DEF TrueInv

(* While removals overlap nothing, cnt does not wrap. *)
LEMMA CntIsNatural ==
  ASSUME IInv, Next, ~raced'
  PROVE  cnt \in Nat /\ cnt' \in Nat
<1>1. /\ TypeOK /\ EntryInv /\ ArrayInv /\ Quiet
      /\ \A w \in Peers : Removing(w) => /\ at[Main] = "accept"
                                         /\ \A u \in Peers \ {w} : ~Removing(u) /\ at[u] # "start"
  BY Alone, Unraced DEF IInv, Quiet
<1>2. cnt \in Int /\ cnt' \in Int
  <2>1. Most \in Nat
    BY Bounds
  <2>. QED  BY <1>1, <2>1, TypeStep DEF TypeOK, Elements
<1>3. cnt >= 0
  BY <1>1 DEF EntryInv, MainEntry
<1>4. CASE cnt' = cnt
  BY <1>2, <1>3, <1>4
<1>5. CASE Count
  <2>1. at[Main] = "store" /\ cnt' = reg[Main] + 1
    BY <1>5 DEF Count, Goto
  <2>. QED  BY <1>1, <1>2, <1>3, <2>1 DEF EntryInv, MainEntry
<1>6. ASSUME NEW w \in Peers, Uncount(w) PROVE cnt' >= 0
  <2>1. at[w] = "store" /\ cnt' = reg[w] - 1
    BY <1>6 DEF Uncount, Goto
  <2>2. at[Main] = "accept" /\ reg[w] = cnt
    BY <1>1, <2>1 DEF Removing, EntryInv, ThreadEntry
  <2>3. Top = cnt - 1
    BY <2>1, <2>2 DEF Top
  <2>4. Held \in SUBSET Peers
    BY DEF Held
  <2>5. Top \in Nat
    BY <1>1, <2>4, Bounds DEF ArrayInv
  <2>. QED  BY <2>1, <2>2, <2>3, <2>5
<1>7. cnt' = cnt \/ Count \/ \E w \in Peers : Uncount(w)
  <2>1. CASE UNCHANGED vars \/ PeerStep \/ Dying \/ Broadcasting \/ Loading
    BY <2>1 DEF vars, roomVars, PeerStep, Dying, Fault, Broadcasting, Lock, SendTurn, SendEnd, Unlock,
                Loading, Load
  <2>2. CASE Accept \/ MainAlone
    BY <2>2 DEF Accept, MainAlone, RecvName, StoreCfd, ReadName, PassEntry, CreateThread
  <2>3. CASE Serves
    BY <2>3 DEF Serves, CopyArg, RecvLine, RecvEof, Find, CopyLast, Close
  <2>. QED  BY <2>1, <2>2, <2>3, Steps
<1>. QED  BY <1>2, <1>3, <1>4, <1>5, <1>6, <1>7

(* What a thread knows of its element outlasts the steps that touch neither. *)
LEMMA ThreadKept ==
  ASSUME IInv, Next, ~raced', NEW w \in Peers, at'[w] = at[w], fd'[w] = fd[w], cl'[w] = cl[w],
         at[w] \in {"start", "find", "copy"} => slot'[w] = slot[w],
         at[w] \in {"copy", "store"} => cnt' = cnt /\ reg'[w] = reg[w],
         at[w] = "start" => slot[w] \in 0..(Top' - 1) /\ client'[slot[w]] = client[slot[w]],
         at[w] \in {"find", "copy"} => client' = client
  PROVE  ThreadEntry(w)'
<1>1. ThreadEntry(w) /\ \A n : NameOf(w, n) => NameOf(w, n)'
  BY Alone, Unraced, NameKept DEF IInv, Quiet, EntryInv
<1>. QED  BY <1>1 DEF ThreadEntry, EntryOf

LEMMA MainEntryStep ==
  ASSUME IInv, Next, ~raced'
  PROVE  MainEntry'
<1>1. /\ TypeOK /\ LifeInv /\ EntryInv /\ Quiet
      /\ \A w \in Peers : Removing(w) => at[Main] = "accept"
  BY Alone, Unraced DEF IInv, Quiet
<1>2. Main \in Threads /\ \A p \in Peers : p \in Threads /\ p # Main
  BY TcpAssumption DEF Threads
<1>3. /\ at \in [Threads -> Places]
      /\ cl \in [Threads -> Entry] /\ fd \in [Peers -> FDs \cup {0}]
      /\ client \in [Elements -> Entry]
      /\ slot \in [Threads -> Elements \cup {Most + 1}] /\ reg \in [Threads -> Elements]
      /\ cnt \in Elements
  BY <1>1 DEF TypeOK
<1>4. \A p \in Peers : \A n : NameOf(p, n) => NameOf(p, n)'
  BY <1>1, NameKept
<1>5. MainEntry
  BY <1>1 DEF EntryInv
<1>6. Admitting => serving \in Peers /\ at[serving] = "none"
  BY <1>1 DEF LifeInv
<1>7. cnt' >= 0
  BY CntIsNatural
<1>8. ASSUME serving' = serving, UNCHANGED <<cl, client, cnt>>,
             fd'[serving] = fd[serving] \/ ~Admitting,
             \/ at'[Main] = at[Main] /\ slot'[Main] = slot[Main] /\ reg'[Main] = reg[Main]
             \/ /\ at[Main] \in {"lock", "send", "unlock"}
                /\ at'[Main] \in {"lock", "send", "unlock", "create"}
      PROVE  MainEntry'
  <2>1. Admitting' <=> Admitting
    BY <1>8 DEF Admitting
  <2>. QED  BY <1>4, <1>5, <1>6, <1>7, <1>8, <2>1 DEF MainEntry, EntryOf, Admitting
<1>9. CASE UNCHANGED vars \/ PeerStep \/ Dying
  BY <1>8, <1>9 DEF vars, roomVars, peerVars, PeerStep, Dying, Fault
<1>10. CASE Broadcasting
  <2>1. PICK t \in Threads : Lock(t) \/ SendTurn(t) \/ SendEnd(t) \/ Unlock(t)
    BY <1>10 DEF Broadcasting
  <2>2. UNCHANGED <<fd, cl, client, cnt, reg>> /\ at[t] \in {"lock", "send", "unlock"}
        /\ (slot' = slot \/ \E x : slot' = [slot EXCEPT ![t] = x])
    BY <2>1 DEF Lock, SendTurn, SendEnd, Unlock, Goto, SendTo, Skip, Break
  <2>3. /\ t # Main => at'[Main] = at[Main]
        /\ t = Main => at'[Main] \in {"lock", "send", "unlock", "create"}
    BY <1>2, <1>3, <2>1, <2>2 DEF Lock, SendTurn, SendEnd, Unlock, Goto, SendTo, Skip, Break
  <2>4. t # Main => slot'[Main] = slot[Main]
    BY <1>2, <1>3, <2>2
  <2>5. serving' = serving
    BY <1>10 DEF Broadcasting
  <2>. QED  BY <1>8, <2>2, <2>3, <2>4, <2>5
<1>11. CASE Accept
  <2>1. PICK q \in Peers, f \in FDs :
           /\ f # 0 /\ fd' = [fd EXCEPT ![q] = f] /\ serving' = q /\ cl'[Main].cfd = f
    BY <1>1, <1>11, Accepting
  <2>2. at'[Main] = "name" /\ slot'[Main] = cnt /\ cnt' = cnt
    BY <1>2, <1>3, <1>11 DEF Accept, Goto
  <2>. QED  BY <1>3, <1>7, <2>1, <2>2 DEF MainEntry
<1>12. CASE RecvName /\ serving' = serving
  <2>1. at[Main] = "name" /\ at'[Main] = "cfd" /\ UNCHANGED <<fd, cl, cnt>> /\ serving' = serving
    BY <1>2, <1>3, <1>12 DEF RecvName, Goto
  <2>2. slot[Main] = cnt /\ serving \in Peers
    BY <1>5, <1>6, <2>1 DEF MainEntry, Admitting
  <2>3. NameOf(serving, client[cnt].name)'
    <3>1. CASE client' = [client EXCEPT ![slot[Main]].name = serving]
      <4>1. client'[cnt].name = serving
        BY <1>3, <2>2, <3>1 DEF Entry
      <4>. QED  BY <2>1, <4>1 DEF NameOf
    <3>2. CASE Eof(serving)
      <4>1. UNCHANGED <<peer, sent, taken>>
        BY <1>12, <3>2 DEF Eof, RecvName, peerVars
      <4>. QED  BY <2>1, <3>2, <4>1 DEF Eof, NameOf
    <3>. QED  BY <1>12, <3>1, <3>2 DEF RecvName
  <2>. QED  BY <1>5, <1>7, <2>1, <2>3 DEF MainEntry, Admitting
<1>13. CASE StoreCfd /\ serving' = serving
  <2>1. /\ at[Main] = "cfd" /\ at'[Main] = "text" /\ UNCHANGED <<fd, cl, cnt>>
        /\ client' = [client EXCEPT ![cnt].cfd = cl[Main].cfd]
    BY <1>2, <1>3, <1>13 DEF StoreCfd, Goto
  <2>2. /\ NameOf(serving, client[cnt].name) /\ cl[Main].cfd = fd[serving] /\ fd[serving] # 0
        /\ serving \in Peers
    BY <1>5, <1>6, <2>1 DEF MainEntry, Admitting
  <2>3. client'[cnt].cfd = fd[serving] /\ client'[cnt].name = client[cnt].name
    BY <1>3, <2>1, <2>2 DEF Entry
  <2>4. EntryOf(serving, client[cnt])'
    BY <1>4, <1>13, <2>1, <2>2, <2>3 DEF EntryOf
  <2>. QED  BY <1>7, <1>13, <2>1, <2>2, <2>4 DEF MainEntry
<1>14. CASE (ReadName \/ PassEntry) /\ serving' = serving
  <2>1. /\ at[Main] \in {"text", "pass"} /\ at'[Main] \in {"pass", "lock"}
        /\ UNCHANGED <<fd, client, cnt>>
        /\ cl'[Main] = cl[Main] \/ cl'[Main] = client[cnt]
    BY <1>2, <1>3, <1>14 DEF ReadName, PassEntry, Goto
  <2>2. serving \in Peers /\ EntryOf(serving, client[cnt])
        /\ fd[serving] = cl[Main].cfd /\ fd[serving] # 0
    BY <1>5, <1>6, <2>1 DEF MainEntry, Admitting
  <2>3. fd'[serving'] = cl'[Main].cfd /\ EntryOf(serving, client[cnt])'
    BY <1>4, <1>14, <2>1, <2>2 DEF EntryOf
  <2>. QED  BY <1>7, <1>14, <2>1, <2>2, <2>3 DEF MainEntry
<1>15. CASE CreateThread \/ Count
  <2>1. at'[Main] \in {"load", "accept"}
    <3>1. CASE CreateThread
      <4>1. serving \in Peers
        BY <1>6, <3>1 DEF CreateThread, Admitting
      <4>. QED  BY <1>2, <1>3, <3>1, <4>1 DEF CreateThread
    <3>. QED  BY <1>2, <1>3, <1>15, <3>1 DEF Count, Goto
  <2>. QED  BY <1>7, <2>1 DEF MainEntry, Admitting
<1>16. CASE Loading
  <2>1. PICK t \in Threads : Load(t)
    BY <1>16 DEF Loading
  <2>2. CASE t = Main
    <3>1. at'[Main] = "store" /\ reg'[Main] = cnt /\ cnt' = cnt
      BY <1>3, <2>1, <2>2 DEF Load, Goto
    <3>. QED  BY <1>7, <3>1 DEF MainEntry, Admitting
  <2>3. CASE t # Main
    <3>1. at'[Main] = at[Main] /\ slot' = slot /\ reg'[Main] = reg[Main]
          /\ UNCHANGED <<cl, client, cnt, fd>>
      BY <1>2, <1>3, <2>1, <2>3 DEF Load, Goto
    <3>. QED  BY <1>8, <1>16, <3>1 DEF Loading
  <2>. QED  BY <2>2, <2>3
<1>17. CASE Serves
  <2>1. PICK w \in Peers : \/ CopyArg(w) \/ RecvLine(w) \/ RecvEof(w) \/ Find(w)
                           \/ CopyLast(w) \/ Uncount(w) \/ Close(w)
    BY <1>17 DEF Serves
  <2>2. at'[Main] = at[Main] /\ cl'[Main] = cl[Main] /\ slot'[Main] = slot[Main]
        /\ reg'[Main] = reg[Main]
    BY <1>2, <1>3, <2>1 DEF CopyArg, RecvLine, RecvEof, Find, CopyLast, Uncount, Close, Goto
  <2>3. serving' = serving /\ (Admitting' <=> Admitting)
    BY <1>17, <2>2 DEF Admitting, Serves
  <2>4. Admitting => fd'[serving] = fd[serving]
    <3>1. CASE Close(w)
      <4>1. at[w] = "close" /\ fd' = [q \in Peers |-> IF q \in Owner(cl[w].cfd) THEN 0 ELSE fd[q]]
        BY <3>1 DEF Close, Goto
      <4>2. cl[w].cfd = fd[w] /\ fd[w] # 0
        BY <1>1, <4>1 DEF EntryInv, ThreadEntry, EntryOf
      <4>3. Admitting => serving \in Peers /\ fd[serving] # fd[w]
        BY <1>1, <1>6, <4>1, <4>2 DEF LifeInv
      <4>. QED  BY <4>1, <4>2, <4>3 DEF Owner
    <3>. QED  BY <2>1, <3>1 DEF CopyArg, RecvLine, RecvEof, Find, CopyLast, Uncount
  <2>5. at[Main] # "accept" => client' = client /\ cnt' = cnt
    BY <1>1, <2>1 DEF CopyArg, RecvLine, RecvEof, Find, CopyLast, Uncount, Close, Goto, Removing
  <2>. QED  BY <1>4, <1>5, <1>6, <1>7, <2>2, <2>3, <2>4, <2>5 DEF MainEntry, EntryOf, Admitting
<1>. QED  BY <1>9, <1>10, <1>11, <1>12, <1>13, <1>14, <1>15, <1>16, <1>17, Steps DEF MainAlone

LEMMA ThreadEntryStep ==
  ASSUME IInv, Next, ~raced', NEW w \in Peers
  PROVE  ThreadEntry(w)'
<1>1. /\ TypeOK /\ LifeInv /\ EntryInv /\ Quiet
      /\ \A u \in Peers : Removing(u) => /\ at[Main] = "accept"
                                         /\ \A v \in Peers \ {u} : ~Removing(v) /\ at[v] # "start"
  BY Alone, Unraced DEF IInv, Quiet
<1>2. Main \in Threads /\ \A p \in Peers : p \in Threads /\ p # Main
  BY TcpAssumption DEF Threads
<1>3. /\ at \in [Threads -> Places]
      /\ cl \in [Threads -> Entry] /\ fd \in [Peers -> FDs \cup {0}]
      /\ client \in [Elements -> Entry]
      /\ slot \in [Threads -> Elements \cup {Most + 1}] /\ reg \in [Threads -> Elements]
      /\ cnt \in Nat /\ Top \in Int
  BY <1>1, CntIsNatural DEF TypeOK, Top
<1>4. \A p \in Peers : \A n : NameOf(p, n) => NameOf(p, n)'
  BY <1>1, NameKept
<1>5. ThreadEntry(w) /\ MainEntry
  BY <1>1 DEF EntryInv
<1>6. Top' = Top \/ CreateThread \/ \E u \in Peers : CopyLast(u)
  BY TopStep
<1>7. at[w] = "start" => slot[w] \in 0..(Top - 1)
  BY <1>5 DEF ThreadEntry
<1>8. CASE UNCHANGED vars \/ PeerStep \/ Dying
  <2>1. UNCHANGED <<at, fd, cl, slot, cnt, reg, client>>
    BY <1>8 DEF vars, roomVars, peerVars, PeerStep, Dying, Fault
  <2>2. Top' = Top
    BY <2>1 DEF Top
  <2>. QED  BY <1>7, <2>1, <2>2, ThreadKept
<1>9. CASE Broadcasting
  <2>1. PICK t \in Threads : Lock(t) \/ SendTurn(t) \/ SendEnd(t) \/ Unlock(t)
    BY <1>9 DEF Broadcasting
  <2>2. UNCHANGED <<fd, cl, client, cnt, reg>> /\ at[t] \in {"lock", "send", "unlock"}
        /\ (slot' = slot \/ \E x : slot' = [slot EXCEPT ![t] = x])
        /\ (at' = at \/ \E x \in {"send", "unlock", "create", "recv", "close"} :
                          at' = [at EXCEPT ![t] = x])
    BY <2>1 DEF Lock, SendTurn, SendEnd, Unlock, Goto, SendTo, Skip, Break
  <2>3. CASE w = t
    <3>1. at'[w] \notin {"none", "start", "find", "copy", "store", "done"}
      BY <1>2, <1>3, <2>2, <2>3
    <3>2. fd[w] # 0 /\ EntryOf(w, cl[w])
      BY <1>5, <2>2, <2>3 DEF ThreadEntry
    <3>. QED  BY <1>4, <2>2, <3>1, <3>2 DEF ThreadEntry, EntryOf
  <2>4. CASE w # t
    <3>1. at'[w] = at[w] /\ slot'[w] = slot[w]
      BY <1>2, <1>3, <2>2, <2>4
    <3>2. Top' = Top
      <4>1. \A u \in Threads : at'[u] \in {"load", "store"} <=> at[u] \in {"load", "store"}
        BY <1>3, <2>2
      <4>. QED  BY <1>2, <2>2, <4>1 DEF Top
    <3>. QED  BY <1>7, <2>2, <3>1, <3>2, ThreadKept
  <2>. QED  BY <2>3, <2>4
<1>10. CASE Accept \/ RecvName \/ StoreCfd \/ ReadName \/ PassEntry \/ Count
  <2>1. at'[w] = at[w] /\ cl'[w] = cl[w] /\ slot'[w] = slot[w] /\ reg'[w] = reg[w]
    BY <1>2, <1>3, <1>10 DEF Accept, RecvName, StoreCfd, ReadName, PassEntry, Count, Goto
  <2>2. Top' = Top
    <3>1. ~CreateThread
      BY <1>10 DEF CreateThread, Accept, RecvName, StoreCfd, ReadName, PassEntry, Count, Goto
    <3>2. \A u \in Peers : ~CopyLast(u)
      <4>1. at'[Main] # at[Main]
        BY <1>2, <1>3, <1>10 DEF Accept, RecvName, StoreCfd, ReadName, PassEntry, Count, Goto
      <4>. QED  BY <1>2, <1>3, <4>1 DEF CopyLast, Goto
    <3>. QED  BY <1>6, <3>1, <3>2
  <2>3. CASE Accept
    <3>1. PICK q \in Peers, f \in FDs : peer[q] = "connecting" /\ fd' = [fd EXCEPT ![q] = f]
      BY <1>1, <2>3, Accepting
    <3>2. at[q] = "none"
      BY <1>1, <3>1 DEF LifeInv
    <3>3. CASE w = q
      BY <2>1, <3>2, <3>3 DEF ThreadEntry
    <3>4. CASE w # q
      <4>1. fd'[w] = fd[w] /\ client' = client /\ cnt' = cnt
        BY <1>3, <2>3, <3>1, <3>4 DEF Accept
      <4>. QED  BY <1>7, <2>1, <2>2, <4>1, ThreadKept
    <3>. QED  BY <3>3, <3>4
  <2>4. CASE RecvName \/ StoreCfd \/ ReadName \/ PassEntry \/ Count
    <3>1. at[Main] # "accept" /\ fd' = fd
      BY <2>4 DEF RecvName, StoreCfd, ReadName, PassEntry, Count, Goto
    <3>2. ~Removing(w)
      BY <1>1, <3>1
    <3>3. ASSUME at[w] = "start" PROVE client'[slot[w]] = client[slot[w]]
      <4>1. CASE ReadName \/ PassEntry \/ Count
        BY <4>1 DEF ReadName, PassEntry, Count
      <4>2. CASE RecvName \/ StoreCfd
        <5>1. at[Main] \in {"name", "cfd"} /\ (at[Main] = "name" => slot[Main] = cnt)
          BY <1>5, <4>2 DEF RecvName, StoreCfd, Goto, MainEntry
        <5>2. Top = cnt
          BY <5>1, TopStep
        <5>3. slot[w] # cnt /\ slot[w] \in Elements
          <6>1. Most \in Nat /\ cnt \in Elements
            BY <1>1, Bounds DEF TypeOK
          <6>. QED  BY <1>3, <1>7, <3>3, <5>2, <6>1 DEF Elements
        <5>. QED  BY <1>2, <1>3, <4>2, <5>1, <5>3 DEF RecvName, StoreCfd, Goto
      <4>. QED  BY <2>4, <4>1, <4>2
    <3>. QED  BY <1>7, <2>1, <2>2, <3>1, <3>2, <3>3, ThreadKept DEF Removing
  <2>. QED  BY <1>10, <2>3, <2>4
<1>11. CASE CreateThread
  <2>1. /\ serving \in Peers /\ at[serving] = "none" /\ fd[serving] # 0
        /\ EntryOf(serving, client[cnt])
    BY <1>1, <1>5, <1>11 DEF CreateThread, LifeInv, Admitting, MainEntry
  <2>2. /\ UNCHANGED <<fd, client, cl, cnt, reg>>
        /\ at' = [at EXCEPT ![Main] = "load", ![serving] = "start"]
        /\ slot' = [slot EXCEPT ![serving] = cnt]
    BY <1>11 DEF CreateThread
  <2>3. Top = cnt /\ Top' = cnt + 1
    BY <1>11, TopStep
  <2>4. CASE w = serving
    <3>1. at'[w] = "start" /\ slot'[w] = cnt
      BY <1>2, <1>3, <2>1, <2>2, <2>4
    <3>2. slot'[w] \in 0..(Top' - 1)
      BY <1>3, <2>3, <3>1
    <3>. QED  BY <1>4, <2>1, <2>2, <2>4, <3>1, <3>2 DEF ThreadEntry, EntryOf
  <2>5. CASE w # serving
    <3>1. at'[w] = at[w] /\ slot'[w] = slot[w]
      BY <1>2, <1>3, <2>1, <2>2, <2>5
    <3>2. at[w] = "start" => slot[w] \in 0..(Top' - 1)
      BY <1>3, <1>7, <2>3
    <3>. QED  BY <2>2, <3>1, <3>2, ThreadKept
  <2>. QED  BY <2>4, <2>5
<1>12. CASE Loading
  <2>1. PICK t \in Threads : Load(t)
    BY <1>12 DEF Loading
  <2>2. UNCHANGED <<fd, client, cl, cnt, slot>> /\ at[t] = "load"
        /\ at' = [at EXCEPT ![t] = "store"] /\ reg' = [reg EXCEPT ![t] = cnt]
    BY <2>1 DEF Load, Goto
  <2>3. Top' = Top
    <3>1. \A u \in Threads : at'[u] \in {"load", "store"} <=> at[u] \in {"load", "store"}
      BY <1>3, <2>2
    <3>. QED  BY <1>2, <2>2, <3>1 DEF Top
  <2>4. CASE w = t
    <3>1. at'[w] = "store" /\ reg'[w] = cnt
      BY <1>2, <1>3, <2>2, <2>4
    <3>. QED  BY <1>4, <1>5, <2>2, <2>4, <3>1 DEF ThreadEntry, EntryOf
  <2>5. CASE w # t
    <3>1. at'[w] = at[w] /\ reg'[w] = reg[w]
      BY <1>2, <1>3, <2>2, <2>5
    <3>. QED  BY <1>7, <2>2, <2>3, <3>1, ThreadKept
  <2>. QED  BY <2>4, <2>5
<1>13. CASE Serves
  <2>1. PICK v \in Peers : \/ CopyArg(v) \/ RecvLine(v) \/ RecvEof(v) \/ Find(v)
                           \/ CopyLast(v) \/ Uncount(v) \/ Close(v)
    BY <1>13 DEF Serves
  <2>2. CASE w # v
    <3>1. at'[w] = at[w] /\ cl'[w] = cl[w] /\ slot'[w] = slot[w] /\ reg'[w] = reg[w]
      BY <1>2, <1>3, <2>1, <2>2
         DEF CopyArg, RecvLine, RecvEof, Find, CopyLast, Uncount, Close, Goto
    <3>2. CASE CopyLast(v) \/ Uncount(v)
      <4>1. Removing(v) /\ fd' = fd
        BY <3>2 DEF CopyLast, Uncount, Goto, Removing
      <4>2. ~Removing(w) /\ at[w] # "start"
        BY <1>1, <2>2, <4>1
      <4>. QED  BY <3>1, <4>1, <4>2, ThreadKept DEF Removing
    <3>3. CASE CopyArg(v) \/ RecvLine(v) \/ RecvEof(v) \/ Find(v) \/ Close(v)
      <4>1. client' = client /\ cnt' = cnt
        BY <3>3 DEF CopyArg, RecvLine, RecvEof, Find, Close
      <4>2. Top' = Top
        <5>1. \A u \in Threads : at'[u] \in {"load", "store"} <=> at[u] \in {"load", "store"}
          BY <1>2, <1>3, <3>3 DEF CopyArg, RecvLine, RecvEof, Find, Close, Goto
        <5>. QED  BY <1>2, <4>1, <5>1 DEF Top
      <4>3. CASE fd'[w] = fd[w]
        BY <1>7, <3>1, <4>1, <4>2, <4>3, ThreadKept
      <4>4. CASE fd'[w] # fd[w]
        <5>1. Close(v)
          BY <3>3, <4>4 DEF CopyArg, RecvLine, RecvEof, Find
        <5>2. at[v] = "close" /\ fd[w] = cl[v].cfd
          BY <4>4, <5>1 DEF Close, Goto, Owner
        <5>3. fd[v] # 0 /\ cl[v].cfd = fd[v]
          BY <1>1, <5>2 DEF EntryInv, ThreadEntry, EntryOf
        <5>. QED  BY <1>1, <2>2, <5>2, <5>3 DEF LifeInv
      <4>. QED  BY <4>3, <4>4
    <3>. QED  BY <2>1, <3>2, <3>3
  <2>3. CASE w = v
    <3>1. CASE CopyArg(w)
      <4>1. at[w] = "start" /\ at'[w] = "recv" /\ cl'[w] = client[slot[w]] /\ fd' = fd
        BY <1>2, <1>3, <3>1 DEF CopyArg, Goto
      <4>. QED  BY <1>4, <1>5, <4>1 DEF ThreadEntry, EntryOf
    <3>2. CASE RecvLine(w)
      <4>1. at[w] = "recv" /\ at'[w] = "lock" /\ cl' = cl /\ fd' = fd
        BY <1>2, <1>3, <3>2 DEF RecvLine, Goto
      <4>. QED  BY <1>4, <1>5, <4>1 DEF ThreadEntry, EntryOf
    <3>3. CASE RecvEof(w)
      <4>1. at[w] = "recv" /\ at'[w] = "find" /\ cl' = cl /\ fd' = fd /\ slot'[w] = 0
        BY <1>2, <1>3, <3>3 DEF RecvEof, Goto
      <4>2. \A s \in 0..(slot'[w] - 1) : client'[s].cfd # fd'[w]
        BY <4>1
      <4>. QED  BY <1>4, <1>5, <4>1, <4>2 DEF ThreadEntry, EntryOf
    <3>4. CASE Find(w)
      <4>1. at[w] = "find" /\ UNCHANGED <<cl, fd, client, cnt>> /\ cl[w].cfd = fd[w] /\ fd[w] # 0
            /\ EntryOf(w, cl[w]) /\ slot[w] \in Nat
            /\ \A s \in 0..(slot[w] - 1) : client[s].cfd # fd[w]
        BY <1>5, <3>4 DEF Find, ThreadEntry, EntryOf
      <4>2. CASE at'[w] = "lock"
        BY <1>4, <4>1, <4>2 DEF ThreadEntry, EntryOf
      <4>3. CASE at'[w] = "copy" /\ slot' = slot /\ slot[w] < cnt /\ client[slot[w]].cfd = cl[w].cfd
        <5>1. slot'[w] \in 0..(cnt' - 1)
          BY <1>3, <4>1, <4>3
        <5>. QED  BY <1>4, <4>1, <4>3, <5>1 DEF ThreadEntry, EntryOf
      <4>4. CASE at'[w] = "find" /\ slot'[w] = slot[w] + 1 /\ client[slot[w]].cfd # cl[w].cfd
        <5>1. slot'[w] \in Nat /\ \A s \in 0..(slot'[w] - 1) : s \in 0..(slot[w] - 1) \/ s = slot[w]
          BY <4>1, <4>4
        <5>2. \A s \in 0..(slot'[w] - 1) : client'[s].cfd # fd'[w]
          BY <4>1, <4>4, <5>1
        <5>. QED  BY <1>4, <4>1, <4>4, <5>1, <5>2 DEF ThreadEntry, EntryOf
      <4>5. \/ at'[w] = "lock"
            \/ at'[w] = "copy" /\ slot' = slot /\ slot[w] < cnt /\ client[slot[w]].cfd = cl[w].cfd
            \/ at'[w] = "find" /\ slot'[w] = slot[w] + 1 /\ client[slot[w]].cfd # cl[w].cfd
        <5>1. InRange(slot[w]) => slot[w] < cnt
          BY <1>3, <4>1 DEF InRange
        <5>. QED  BY <1>2, <1>3, <3>4, <4>1, <5>1 DEF Find
      <4>. QED  BY <4>2, <4>3, <4>4, <4>5
    <3>5. CASE CopyLast(w)
      <4>1. at[w] = "copy" /\ at'[w] = "load" /\ UNCHANGED <<cl, fd>>
        BY <1>2, <1>3, <3>5 DEF CopyLast, Goto
      <4>. QED  BY <1>4, <1>5, <4>1 DEF ThreadEntry, EntryOf
    <3>6. CASE Uncount(w)
      <4>1. at[w] = "store" /\ at'[w] = "lock" /\ UNCHANGED <<cl, fd>>
        BY <1>2, <1>3, <3>6 DEF Uncount, Goto
      <4>. QED  BY <1>4, <1>5, <4>1 DEF ThreadEntry, EntryOf
    <3>7. CASE Close(w)
      <4>1. at'[w] = "done"
        BY <1>2, <1>3, <3>7 DEF Close, Goto
      <4>. QED  BY <4>1 DEF ThreadEntry
    <3>. QED  BY <2>1, <2>3, <3>1, <3>2, <3>3, <3>4, <3>5, <3>6, <3>7
  <2>. QED  BY <2>2, <2>3
<1>. QED  BY <1>8, <1>9, <1>10, <1>11, <1>12, <1>13, Steps DEF MainAlone

-----------------------------------------------------------------------------
(* Steps after which the array has the same elements for the same threads. *)
LEMMA ArrayKept ==
  ASSUME IInv, Next, ~raced', Top' = Top,
         \A p \in Peers : p \in Held' <=> p \in Held,
         \A p \in Held : fd'[p] = fd[p],
         \A s \in 0..(Top - 1) : client'[s].cfd = client[s].cfd
  PROVE  ArrayInv'
<1>1. ArrayInv
  BY Alone, Unraced DEF Quiet
<1>2. Held' = Held
  BY DEF Held
<1> HIDE DEF Top, Held
<1>. QED  BY <1>1, <1>2 DEF ArrayInv

(* CreateThread adds an element behind the others. *)
LEMMA ArrayGrows ==
  ASSUME IInv, Next, ~raced', CreateThread
  PROVE  ArrayInv'
<1>1. TypeOK /\ LifeInv /\ EntryInv /\ ArrayInv
  BY Alone, Unraced DEF IInv, Quiet
<1>2. Main \in Threads /\ \A p \in Peers : p \in Threads /\ p # Main
  BY TcpAssumption DEF Threads
<1>3. /\ at \in [Threads -> Places]
      /\ cnt \in Nat
  BY <1>1, CntIsNatural DEF TypeOK
<1>4. Top = cnt /\ Top' = cnt + 1
  BY TopStep
<1>5. /\ serving \in Peers /\ at[serving] = "none" /\ fd[serving] # 0
      /\ client[cnt].cfd = fd[serving]
  BY <1>1 DEF CreateThread, LifeInv, Admitting, EntryInv, MainEntry, EntryOf
<1>6. UNCHANGED <<fd, client, msg>> /\ at' = [at EXCEPT ![Main] = "load", ![serving] = "start"]
  BY DEF CreateThread
<1>7. Held' = Held \cup {serving} /\ serving \notin Held
  BY <1>2, <1>3, <1>5, <1>6 DEF Held, Speaking
<1>8. Cardinality(Held') = Cardinality(Held) + 1
  <2>1. Held \in SUBSET Peers
    BY DEF Held
  <2>. QED  BY <1>7, <2>1, Bounds, FS_AddElement
<1>9. \A p \in Held : p \in Peers /\ p # serving /\ fd[p] # fd[serving]
  BY <1>1, <1>5, <1>7 DEF LifeInv, Held
<1> HIDE DEF Top, Held
<1>10. \A s \in 0..cnt : s \in 0..(cnt - 1) \/ s = cnt
  BY <1>3
<1>11. cnt \in 0..(Top' - 1) /\ \A s \in 0..(cnt - 1) : s \in 0..(Top' - 1)
  BY <1>3, <1>4
<1>12. \A s \in 0..(cnt - 1) : client[s].cfd # fd[serving] /\ \E p \in Held : client[s].cfd = fd[p]
  BY <1>1, <1>4, <1>9 DEF ArrayInv
<1>13. \A s \in 0..cnt : \E p \in Held' : client'[s].cfd = fd'[p]
  BY <1>5, <1>6, <1>7, <1>10, <1>12
<1>14. \A p \in Held' : \E s \in 0..(Top' - 1) : client'[s].cfd = fd'[p]
  BY <1>1, <1>4, <1>5, <1>6, <1>7, <1>11 DEF ArrayInv
<1>15. \A s, u \in 0..cnt : client'[s].cfd = client'[u].cfd => s = u
  BY <1>1, <1>4, <1>5, <1>6, <1>10, <1>12 DEF ArrayInv
<1>16. Top' - 1 = cnt
  BY <1>3, <1>4
<1>17. Top' = Cardinality(Held')
  BY <1>1, <1>4, <1>8 DEF ArrayInv
<1>. QED  BY <1>13, <1>14, <1>15, <1>16, <1>17 DEF ArrayInv

(* CopyLast takes one out, the last coming to stand in its place. *)
LEMMA ArrayShrinks ==
  ASSUME IInv, Next, ~raced', NEW w \in Peers, CopyLast(w)
  PROVE  ArrayInv'
<1>1. TypeOK /\ LifeInv /\ EntryInv /\ ArrayInv
  BY Alone, Unraced DEF IInv, Quiet
<1>2. Main \in Threads /\ \A p \in Peers : p \in Threads /\ p # Main
  BY TcpAssumption DEF Threads
<1>3. /\ at \in [Threads -> Places]
      /\ cnt \in Nat /\ cnt \in Elements /\ Most \in Nat /\ client \in [Elements -> Entry]
  BY <1>1, CntIsNatural, Bounds DEF TypeOK
<1>4. Top = cnt /\ Top' = cnt - 1 /\ cnt > 0
  BY TopStep
<1> DEFINE last == cnt - 1
           k == slot[w]
<1>5. at[w] = "copy" /\ at' = [at EXCEPT ![w] = "load"] /\ UNCHANGED <<fd, msg>>
      /\ client' = [client EXCEPT ![k] = client[last]]
  BY <1>4 DEF CopyLast, Goto
<1>6. k \in 0..(cnt - 1) /\ client[k].cfd = fd[w] /\ fd[w] # 0
  BY <1>1, <1>5 DEF EntryInv, ThreadEntry
<1>7. Held' = Held \ {w} /\ w \in Held
  BY <1>2, <1>3, <1>5 DEF Held, Speaking
<1>8. Cardinality(Held') = Cardinality(Held) - 1
  <2>1. Held \in SUBSET Peers
    BY DEF Held
  <2>. QED  BY <1>7, <2>1, Bounds, FS_RemoveElement
<1>9. \A p \in Held : p \in Peers /\ (fd[p] = fd[w] => p = w)
  BY <1>1, <1>6 DEF LifeInv, Held
<1> HIDE DEF Top, Held
<1>10. /\ last \in Nat /\ last \in 0..(cnt - 1) /\ k \in 0..(cnt - 1)
       /\ \A s \in 0..(last - 1) : s \in 0..(cnt - 1) /\ s # last
       /\ \A s \in 0..(cnt - 1) : s \in 0..(last - 1) \/ s = last
       /\ \A s \in 0..(cnt - 1) : s \in Elements
       /\ Top' - 1 = last - 1
  BY <1>3, <1>4, <1>6 DEF Elements
<1>11. \A s \in 0..(cnt - 1) : client'[s] = IF s = k THEN client[last] ELSE client[s]
  BY <1>3, <1>5, <1>10
<1> HIDE DEF last, k
<1>12. /\ \A s \in 0..(cnt - 1) : \E p \in Held : client[s].cfd = fd[p]
       /\ \A p \in Held : \E s \in 0..(cnt - 1) : client[s].cfd = fd[p]
       /\ \A s, u \in 0..(cnt - 1) : client[s].cfd = client[u].cfd => s = u
  BY <1>1, <1>4 DEF ArrayInv
<1>13. ASSUME NEW s \in 0..(last - 1) PROVE \E p \in Held' : client'[s].cfd = fd'[p]
  <2>1. PICK u \in 0..(cnt - 1) : client'[s] = client[u] /\ u # k
    BY <1>10, <1>11
  <2>2. PICK p \in Held : client[u].cfd = fd[p]
    BY <1>12
  <2>3. p # w
    BY <1>6, <1>10, <1>12, <2>1, <2>2
  <2>. QED  BY <1>5, <1>7, <2>1, <2>2, <2>3
<1>14. ASSUME NEW p \in Held' PROVE \E s \in 0..(last - 1) : client'[s].cfd = fd'[p]
  <2>1. PICK u \in 0..(cnt - 1) : client[u].cfd = fd[p]
    BY <1>7, <1>12
  <2>2. u # k
    BY <1>6, <1>7, <1>9, <2>1
  <2>3. CASE u = last
    <3>1. k \in 0..(last - 1) /\ client'[k] = client[last]
      BY <1>10, <1>11, <2>2, <2>3
    <3>. QED  BY <1>5, <2>1, <2>3, <3>1
  <2>4. CASE u # last
    <3>1. u \in 0..(last - 1) /\ client'[u] = client[u]
      BY <1>10, <1>11, <2>2, <2>4
    <3>. QED  BY <1>5, <2>1, <3>1
  <2>. QED  BY <2>3, <2>4
<1>15. ASSUME NEW s \in 0..(last - 1), NEW u \in 0..(last - 1), client'[s].cfd = client'[u].cfd
       PROVE  s = u
  BY <1>10, <1>11, <1>12, <1>15
<1>16. Top' = Cardinality(Held')
  BY <1>1, <1>4, <1>8 DEF ArrayInv
<1>. QED  BY <1>10, <1>13, <1>14, <1>15, <1>16 DEF ArrayInv

LEMMA ArrayStep ==
  ASSUME IInv, Next, ~raced'
  PROVE  ArrayInv'
<1>1. /\ TypeOK /\ LifeInv /\ MsgInv /\ EntryInv /\ ArrayInv
      /\ \A u \in Peers : Removing(u) => at[Main] = "accept"
  BY Alone, Unraced DEF IInv, Quiet
<1>2. Main \in Threads /\ \A p \in Peers : p \in Threads /\ p # Main
  BY TcpAssumption DEF Threads
<1>3. /\ at \in [Threads -> Places]
      /\ cnt \in Nat /\ cnt \in Elements /\ Most \in Nat /\ client \in [Elements -> Entry]
      /\ fd \in [Peers -> FDs \cup {0}] /\ msg \in [Threads -> Message]
  BY <1>1, CntIsNatural, Bounds DEF TypeOK
<1>4. CASE UNCHANGED vars \/ PeerStep \/ Dying
  <2>1. UNCHANGED <<at, msg, cnt, fd, client>>
    BY <1>4 DEF vars, roomVars, peerVars, PeerStep, Dying, Fault
  <2>2. Top' = Top /\ Held' = Held
    BY <2>1 DEF Top, Held, Speaking
  <2>. QED  BY <2>1, <2>2, ArrayKept
<1>5. CASE CreateThread
  BY <1>5, ArrayGrows
<1>6. CASE \E w \in Peers : CopyLast(w)
  BY <1>6, ArrayShrinks
<1>7. ASSUME ~CreateThread, \A w \in Peers : ~CopyLast(w)
      PROVE  Top' = Top
  BY <1>7, TopStep
<1>8. CASE Broadcasting /\ ~CreateThread /\ \A w \in Peers : ~CopyLast(w)
  <2>1. PICK t \in Threads : Lock(t) \/ SendTurn(t) \/ SendEnd(t) \/ Unlock(t)
    BY <1>8 DEF Broadcasting
  <2>2. UNCHANGED <<fd, client, msg>> /\ \A u \in Threads : u # t => at'[u] = at[u]
    BY <1>3, <2>1 DEF Lock, SendTurn, SendEnd, Unlock, Goto, SendTo, Skip, Break
  <2>3. t \in Peers => (t \in Held' <=> t \in Held)
    <3>1. CASE Lock(t) \/ SendTurn(t) \/ SendEnd(t)
      <4>1. Speaking(t) /\ Speaking(t)'
        BY <1>3, <3>1 DEF Lock, SendTurn, SendEnd, Goto, SendTo, Skip, Break, Speaking
      <4>. QED  BY <2>2, <4>1 DEF Held, Speaking
    <3>2. CASE Unlock(t)
      <4>1. t \in Peers => /\ at[t] = "unlock"
                           /\ at'[t] = IF msg[t].kind = "says" THEN "recv" ELSE "close"
        BY <1>2, <1>3, <3>2 DEF Unlock, Goto
      <4>. QED  BY <4>1 DEF Held, Speaking
    <3>. QED  BY <2>1, <3>1, <3>2
  <2>4. \A p \in Peers : p \in Held' <=> p \in Held
    <3>1. \A p \in Peers : p # t => (p \in Held' <=> p \in Held)
      BY <1>2, <2>2 DEF Held, Speaking
    <3>. QED  BY <2>3, <3>1
  <2>. QED  BY <1>7, <1>8, <2>2, <2>4, ArrayKept
<1>9. CASE /\ Accept \/ RecvName \/ StoreCfd \/ ReadName \/ PassEntry \/ Count
           /\ ~CreateThread /\ \A w \in Peers : ~CopyLast(w)
  <2>1. \A p \in Peers : at'[p] = at[p] /\ msg'[p] = msg[p]
    BY <1>2, <1>3, <1>9 DEF Accept, RecvName, StoreCfd, ReadName, PassEntry, Count, Goto
  <2>2. \A p \in Peers : p \in Held' <=> p \in Held
    BY <2>1 DEF Held, Speaking
  <2>3. \A p \in Held : fd'[p] = fd[p]
    <3>1. CASE Accept
      <4>1. PICK q \in Peers, f \in FDs : peer[q] = "connecting" /\ fd' = [fd EXCEPT ![q] = f]
        BY <1>1, <3>1, Accepting
      <4>2. q \notin Held
        BY <1>1, <4>1 DEF LifeInv, Held, Speaking
      <4>. QED  BY <1>3, <4>1, <4>2 DEF Held
    <3>. QED  BY <1>9, <3>1 DEF RecvName, StoreCfd, ReadName, PassEntry, Count
  <2>4. ASSUME NEW s \in 0..(Top - 1) PROVE client'[s].cfd = client[s].cfd
    <3>1. CASE Accept \/ ReadName \/ PassEntry \/ Count
      BY <3>1 DEF Accept, ReadName, PassEntry, Count
    <3>2. CASE RecvName \/ StoreCfd
      <4>1. Top = cnt /\ (RecvName => slot[Main] = cnt)
        BY <1>1, <3>2, TopStep DEF RecvName, StoreCfd, Goto, EntryInv, MainEntry
      <4>2. s # cnt /\ s \in Elements
        BY <1>3, <4>1 DEF Elements
      <4>. QED  BY <1>3, <3>2, <4>1, <4>2 DEF RecvName, StoreCfd
    <3>. QED  BY <1>9, <3>1, <3>2
  <2>. QED  BY <1>7, <1>9, <2>2, <2>3, <2>4, ArrayKept
<1>10. CASE Serves /\ ~CreateThread /\ \A w \in Peers : ~CopyLast(w)
  <2>1. PICK w \in Peers : \/ CopyArg(w) \/ RecvLine(w) \/ RecvEof(w) \/ Find(w)
                           \/ Uncount(w) \/ Close(w)
    BY <1>10 DEF Serves
  <2>2. client' = client /\ \A u \in Threads : u # w => at'[u] = at[u] /\ msg'[u] = msg[u]
    BY <1>3, <2>1 DEF CopyArg, RecvLine, RecvEof, Find, Uncount, Close, Goto
  <2>3. ThreadEntry(w)
    BY <1>1 DEF EntryInv
  <2>4. w \in Held' <=> w \in Held
    <3>1. CASE CopyArg(w) \/ RecvEof(w)
      <4>1. at[w] \in {"start", "recv"} /\ at'[w] \in {"recv", "find"}
        BY <1>2, <1>3, <3>1 DEF CopyArg, RecvEof, Goto
      <4>. QED  BY <4>1 DEF Held
    <3>2. CASE RecvLine(w)
      <4>1. at[w] = "recv" /\ at'[w] = "lock" /\ msg'[w].kind = "says"
        BY <1>2, <1>3, <3>2 DEF RecvLine, Goto
      <4>. QED  BY <4>1 DEF Held, Speaking
    \* the search cannot end without having found
    <3>3. CASE Find(w)
      <4>1. at[w] = "find" /\ cl[w].cfd = fd[w] /\ w \in Held
        BY <2>3, <3>3 DEF Find, ThreadEntry, EntryOf, Held
      <4>2. Top = cnt
        BY <4>1, TopStep
      <4>3. PICK s \in 0..(cnt - 1) : client[s].cfd = fd[w]
        BY <1>1, <4>1, <4>2 DEF ArrayInv
      <4>4. s \notin 0..(slot[w] - 1) /\ slot[w] \in Nat /\ s \in Nat /\ s < cnt
        BY <1>3, <2>3, <4>1, <4>3 DEF ThreadEntry
      <4>5. InRange(slot[w])
        BY <1>3, <4>4 DEF InRange
      <4>6. at'[w] \in {"find", "copy"}
        BY <1>2, <1>3, <3>3, <4>1, <4>5 DEF Find
      <4>. QED  BY <4>1, <4>6 DEF Held
    <3>4. CASE Uncount(w)
      <4>1. at[w] = "store" /\ at'[w] = "lock" /\ msg'[w].kind = "left"
        BY <1>2, <1>3, <3>4 DEF Uncount, Goto, Message
      <4>. QED  BY <4>1 DEF Held, Speaking
    <3>5. CASE Close(w)
      <4>1. at[w] = "close" /\ at'[w] = "done"
        BY <1>2, <1>3, <3>5 DEF Close, Goto
      <4>. QED  BY <4>1 DEF Held, Speaking
    <3>. QED  BY <2>1, <3>1, <3>2, <3>3, <3>4, <3>5
  <2>5. \A p \in Peers : p \in Held' <=> p \in Held
    <3>1. \A p \in Peers : p # w => (p \in Held' <=> p \in Held)
      BY <1>2, <2>2 DEF Held, Speaking
    <3>. QED  BY <2>4, <3>1
  <2>6. ASSUME NEW p \in Held PROVE fd'[p] = fd[p]
    <3>1. CASE Close(w)
      <4>1. at[w] = "close" /\ fd' = [q \in Peers |-> IF q \in Owner(cl[w].cfd) THEN 0 ELSE fd[q]]
        BY <3>1 DEF Close, Goto
      <4>2. fd[w] # 0 /\ cl[w].cfd = fd[w]
        BY <2>3, <4>1 DEF ThreadEntry, EntryOf
      <4>3. p \in Peers /\ p # w
        BY <4>1 DEF Held, Speaking
      <4>. QED  BY <1>1, <4>1, <4>2, <4>3 DEF LifeInv, Owner
    <3>. QED  BY <2>1, <3>1 DEF CopyArg, RecvLine, RecvEof, Find, Uncount
  <2>. QED  BY <1>7, <1>10, <2>2, <2>5, <2>6, ArrayKept
<1>11. CASE Loading
  <2>1. /\ UNCHANGED <<fd, client, msg>>
        /\ \A u \in Threads : at'[u] = at[u] \/ (at[u] = "load" /\ at'[u] = "store")
    BY <1>3, <1>11 DEF Loading, Load, Goto
  <2>2. \A p \in Peers : p \in Held' <=> p \in Held
    BY <1>2, <2>1 DEF Held, Speaking
  <2>3. Top' = Top
    <3>1. ~CreateThread /\ \A w \in Peers : ~CopyLast(w)
      <4>1. PICK t \in Threads : Load(t)
        BY <1>11 DEF Loading
      <4>2. at[t] = "load" /\ at'[t] = "store" /\ \A u \in Threads : u # t => at'[u] = at[u]
        BY <1>3, <4>1 DEF Load, Goto
      <4>3. ~CreateThread
        BY <1>2, <1>3, <4>2 DEF CreateThread
      <4>4. \A w \in Peers : ~CopyLast(w)
        BY <1>2, <1>3, <4>2 DEF CopyLast, Goto
      <4>. QED  BY <4>3, <4>4
    <3>. QED  BY <1>7, <3>1
  <2>. QED  BY <2>1, <2>2, <2>3, ArrayKept
<1>. QED  BY <1>4, <1>5, <1>6, <1>8, <1>9, <1>10, <1>11, Steps DEF MainAlone

-----------------------------------------------------------------------------
LEMMA NextKeeps ==
  ASSUME IInv, Next
  PROVE  IInv'
<1>1. TypeOK' /\ LifeInv' /\ CountInv' /\ MsgInv' /\ SentInv' /\ LastInv' /\ OrderInv'
  BY TypeStep, LifeStep, CountStep, MsgStep, SentStep, LastStep, OrderStep
<1>2. ~raced' => EntryInv' /\ ArrayInv' /\ TrueInv' /\ ~Overlap'
  BY MainEntryStep, ThreadEntryStep, ArrayStep, TrueStep, Unraced DEF EntryInv
<1>3. raced' \in BOOLEAN
  BY <1>1 DEF TypeOK
<1>. QED  BY <1>1, <1>2, <1>3 DEF IInv

(* The inductive invariant: the life of main and of the threads, what each of
   them is broadcasting and has broadcast, and, as long as no removal has
   overlapped another use of it, the array. *)
THEOREM Invariance == Spec => []IInv
<1>1. Init => IInv
  BY Started
<1>2. IInv /\ [Next]_vars => IInv'
  <2>1. UNCHANGED vars => Next
    BY DEF Next
  <2>. QED  BY <2>1, NextKeeps
<1>. QED  BY <1>1, <1>2, PTL DEF Spec

(* Every variable keeps its type; cnt above all, which main and the threads load
   and store without a lock.  However many updates are lost, main's index never
   passes the number of peers, and cnt, when it wraps, falls no further below
   zero than there are peers. *)
THEOREM TypeCorrect == Spec => []TypeOK
<1>1. IInv => TypeOK
  BY DEF IInv
<1>. QED  BY <1>1, Invariance, PTL

(* --cnt in t2s.c does not wrap while no removal has overlapped an admission,
   the start of a thread or another removal; without that condition it can. *)
THEOREM CountNeverWraps == Spec => [](~raced => cnt >= 0)
<1>1. IInv => (~raced => cnt >= 0)
  BY DEF IInv, EntryInv, MainEntry
<1>. QED  BY <1>1, Invariance, PTL

(* Any two peers of t2s.c that got the same two messages got them in the same
   order, whatever happens to the array: a broadcast is one critical section. *)
THEOREM OneOrder == Spec => []TotalOrder
<1>1. ASSUME OrderInv PROVE TotalOrder
  <2>1. SUFFICES ASSUME NEW q \in Peers, NEW r \in Peers, NEW x, NEW y, x # y,
                        Before(got[q], x, y), Before(got[r], y, x)
                 PROVE  FALSE
    BY DEF TotalOrder
  <2>2. PICK i \in 1..Len(got[q]), j \in 1..Len(got[q]) :
          i < j /\ got[q][i] = x /\ got[q][j] = y
    BY <2>1 DEF Before
  <2>3. PICK k \in 1..Len(got[r]), l \in 1..Len(got[r]) :
          k < l /\ got[r][k] = y /\ got[r][l] = x
    BY <2>1 DEF Before
  <2>4. got[q][i] = got[r][l] /\ got[q][j] = got[r][k]
    BY <2>2, <2>3
  <2>5. got[q][i] = got[q][j]
    BY <1>1, <2>2, <2>3, <2>4 DEF OrderInv
  <2>. QED  BY <2>1, <2>2, <2>5
<1>2. IInv => TotalOrder
  BY <1>1 DEF IInv
<1>. QED  BY <1>2, Invariance, PTL

(* As long as no removal has overlapped an admission, the start of a thread or
   another removal: whenever nobody is changing the array, its first cnt
   elements are the connections that have a thread, once each. *)
THEOREM RegistryIsExact == Spec => []RegistryExact
<1>1. ASSUME IInv, up, ~raced, at[Main] = "accept", \A w \in Peers : ~Removing(w)
      PROVE  /\ cnt = Cardinality(Registered)
             /\ {client[s].cfd : s \in 0..(cnt - 1)} = {fd[p] : p \in Registered}
  <2>1. ArrayInv
    BY <1>1 DEF IInv
  <2>2. Held = Registered
    BY <1>1 DEF Held, Registered, Removing, Speaking
  <2>3. Top = cnt
    BY <1>1 DEF Top, Removing
  <2> HIDE DEF Registered
  <2>. QED  BY <2>1, <2>2, <2>3 DEF ArrayInv
<1>2. IInv => RegistryExact
  BY <1>1 DEF RegistryExact
<1>. QED  BY <1>2, Invariance, PTL

(* Under the same condition every thread works for the peer it was created
   for, and no line is shown under the name of another peer. *)
THEOREM NobodyImpersonated == Spec => []NoImpersonation
<1>1. IInv => NoImpersonation
  BY DEF IInv, NoImpersonation, EntryInv, ThreadEntry, EntryOf, TrueInv, Sent
<1>. QED  BY <1>1, Invariance, PTL

=============================================================================
