# Verification of 01git

01git is a collection of C programs about Linux system programming: threads,
mutexes and semaphores (`src/tid`), processes, pipes and message queues
(`src/pid`, `src/tidpid`), and sockets (`src/socket`).  It has no
documentation but its comments and no tests.  Most programs are short; what is
hard about them is what they do to each other: threads that share a stack, two
processes that each wait for the other's FIFO, users of one message queue, a
server whose threads share an array.  This directory holds TLA+ models of those
programs, TLC configurations that check them on small instances, and proofs,
checked by TLAPS, of what should hold for any number of threads, rounds and
commands.

## Contents

1. Inventory of the system
2. The modules and the code
3. What the runs check
4. Bounds
5. Fairness
6. What is proved
7. What is not modelled, and limits of the models
8. Plan
9. Running the checks

## 1. Inventory

### Producer and consumer over a stack: `tid/prod_cons.c`

*State*: the stack `head` of malloc'd `struct msg`, a mutex, a condition
variable, each thread's `mp` and loop counter.  *Operations*: `producer` makes
a message, pushes it under the mutex, unlocks and signals; `consumer` locks,
waits while `head` is NULL, pops, unlocks, prints and frees; `main` starts one
of each and joins them.  *Interaction*: shared memory.  *Hard*: two stores per
push and two loads per pop, signals sent outside the mutex, spurious and stolen
wakeups, use of the node after the unlock.  *Correct when*: the mutex excludes,
no node is used after `free` or freed twice, none is lost, no wakeup is lost,
every product is consumed once, and the program ends with nothing left over.

### procon and admin: `tidpid/procon.c`, `tidpid/admin.c`

*State*: the stack above, the thread tables `tid_p`, `tid_c` with their lengths
`P`, `C`, and two FIFOs.  *Operations*: the admin writes what its user types to
fifo1 and prints what comes on fifo2; procon reads fifo1 under `select`, and
`create producer` / `create consumer` start the thread functions and join them
at once; everything else is answered.  *Interaction*: two FIFOs between the
processes; between procon's main and its threads create, join and shared
memory.  *Hard*: opening two FIFOs blocks each process until the other
opens the same one; a `create consumer` with too few products never returns
from the join; commands that pile up are read as one; a write without a reader
kills the writer.  *Correct when*: the opens meet, threads never run two at a
time (`P++` has no lock), a stocked consumer returns, and `exit` ends both.

### procon1 and admin1: `tidpid/procon1.c`, `tidpid/admin1.c`

The same with a request and reply protocol and no `select`: the admin reads one
answer after each command, but `list` answers once per finished thread, so
zero or several times.  *Hard*: no answer (both wait in `read`), and answers
that are taken for those of later commands; admin1 leaves on any line that begins
with `exit`, procon1 on `exit` alone.  *Correct when*: the two stay in
phase as long as no list has two threads to name, block each other only over an
empty list, and `exit` ends both.

### A stack with a semaphore: `tid/pth_sem.c`

*State*: `buf[10]`, its index `idx`, a semaphore.  *Operations*: `produucer`
pushes ten products and posts for each, the last being the mark 0xab;
`consumer` waits on the semaphore, prints the top, ends at the mark, else pops.
*Hard*: `idx++` and `idx--` are not protected, and `buf[idx]` is read three
times.  *Correct when*: the stack is exact as long as no push overlaps a pop;
the run shows what such an overlap can do (the consumer waits for ever).

### Chat over FIFOs: `pid/pipemsg/pls.c`, `pzs.c`, `123.c`

*State*: two FIFOs, each end's descriptors.  *Operations*: open both, then loop
around `select`, read what came, write what was typed, until a line begins with
`exit`.  `123.c` picks its ends by opening fifo1 without blocking to see
whether there is a reader; since all three use the same FIFOs, it may find a
`pls` there, or be found by a `pzs`.  *Hard*: the order of the opens; the test and the
open that follows it are not atomic; several lines in one read; SIGPIPE.
*Correct when*: the two ends meet, leave together unless an exit was read behind
another line, and clients that took different ends get to chat.

### Chat over a message queue: `pid/pipemsg/pro2.c`

*State*: one System V queue for all users; per user a parent (sends) and a
child (receives).  A child that receives its own name's message puts it back.
*Hard*: putting back changes the order, and blocks when the queue is full;
users with the same name; control-C, whose handler asks for confirmation in
both processes and interrupts their calls.  *Correct when*: each message is at
one place, is printed once and in order unless it was put back, and reaches a
user who only listens.

### UDP chat room: `socket/s.c`, `socket/c.c`

*State*: the server's linked list of addresses; the network.  *Operations*:
login inserts an address and tells the others, broadcast relays, quit removes
all nodes of the address and tells the others; a second process types the
server's own messages; a client's child sends and its parent receives until the
child kills it.  *Hard*: loss and reordering (a lost quit leaves a node that a
later login doubles), removal during the walk along the list, a failing
`sendto` that ends the server in the middle of a relay.  *Correct when*: each
datagram is handled as one atomic action of the abstract room.

### TCP chat room: `socket/more_tcp/t2s.c`, `t2c.c`

*State*: the array `client` and its length `cnt`, shared by main and one thread
per client; a mutex that covers `broadcast` and nothing else.  *Operations*:
main accepts, receives the name, stores the descriptor, broadcasts, starts the
thread and increments `cnt`; a thread copies its element, relays lines, and at
the end of the connection moves the last element into its place, decrements
`cnt`, broadcasts and closes.  *Hard*: unprotected `cnt++` / `--cnt`, and a `cnt`
that wraps below zero, an element moved while main or another thread uses it, a
descriptor number used again, a `send` that waits for a client that has stopped
reading and holds the mutex meanwhile.
*Correct when*: broadcasts are totally ordered; until a removal overlaps
an admission, the start of a thread or another removal, the array is exact and
each thread serves its own client; short of such an overlap the departed are
noticed; and only a client that withholds its name or stops reading keeps the
others out.

### TCP servers with a worker per client: `ps.c`, `t1s.c`/`t1c.c`, `tcptest/s.c`, `s1.c`, `c.c`

*State*: the descriptors of the connections, `clifd` or `client_sock` of main,
in t1s the table `clifd_p`.  *Operations*: main accepts; `ps` and `s` fork a
child, `s1` and `t1s` create a thread and pass it the address of a variable of
main's loop; workers echo (`ps`), let their user answer (`s`, `s1`), or send to
all (`t1s`); `ps`'s parent waits for the child.  *Interaction*: sockets; between
main and threads that variable and `clifd_p`.  *Hard*: the variable is
overwritten by the next `accept`; workers that do not notice the end of a
connection; children and parents that leave connections open; a room that is
full.  *Correct when*: a worker serves the client it was made for unless it was
overtaken; a connection without a worker has one of the causes the programs
have; a client that waits for an answer gets to know when nobody is left to give
it.

### TCP pair chat: `socket/tcp/95s.c`, `95c.c`

*State*: the one connection the host has accepted, the connections it has not,
`buf`.  *Operations*: connect, the name as the first message, then at both ends a
loop around `select` that sends what is typed and prints what comes, until
`quit` or the end of the connection.  *Hard*: the end of the connection behind
unread lines; a reset, after which `recv` returns -1 and `buf` is printed again;
clients that were never accepted.  *Correct when*: who leaves because the other
end did has shown all that came, nothing is printed twice without such a reset,
and all leave when one has.

### Everything else

The UDP ping-pong, `more_tcp/s.c`, `95c1.c`, the C exercises, one-way pipes,
signal, select and debugger examples are sequential, stateless, or have no
defined behaviour to model; PROJECT.json lists each with its reason.

### How the components interact

Most programs are separate, but several share code or meet.  `producer` and
`consumer` stand in `tid/prod_cons.c`, `procon.c` and `procon1.c`, so one module
models them and three programs extend it.  `pls.c`, `pzs.c` and `123.c` share
their loop and their FIFOs: one module models both, and another who opens what,
in any cast.  The TCP servers with workers and the pair chat share the sockets.

```
ProductPool  <--refined by--  MsgStack
                               |-- ProdCons            (tid/prod_cons.c)
                               `-- Workers
                                    |-- Procon         (procon.c, admin.c)
                                    `-- Procon1        (procon1.c, admin1.c)
FifoChat -- FifoClients  (pls.c, pzs.c, 123.c)
Tcp  |-- AcceptLoops     (ps.c, t1s.c, t1c.c, tcptest/s.c, s1.c, c.c)
     `-- PairChat        (95s.c, 95c.c)
Room  <--refined by--  UdpRoom  (s.c, c.c)
PthSem (pth_sem.c)    ChatQueue (pro2.c)    TcpRoom (t2s.c, t2c.c)
```

## 2. The modules and the code

A step is one access to state that another thread or process may see: a mutex,
condition, semaphore, FIFO, queue or socket call, or one load or store of a
shared variable where no lock makes several of them one.  `pc`, `at`, `procon`,
`admin`, `child` and the like stand for the point a thread or process has
reached.  PROJECT.json's `map` gives the lines of every definition.

| Module | Models | State and actions |
|---|---|---|
| `ProductPool` | what the stack programs promise | products are put, got and consumed, once each |
| `MsgStack` | `producer`, `consumer` | `head`, `next`, `num`, `allocated` are the heap; `Malloc … Signal`, `Acquire … Free` are the statements in order; `Wait` is the atomic half of `pthread_cond_wait`, `Reacquire` the other |
| `ProdCons` | `main` of prod_cons.c | `main` creates and joins; the process ends with it |
| `Workers` | create, join, `P++`, `C++` | `joined` is the argument of `pthread_join` |
| `Procon`, `Procon1` | both mains of each pair | FIFOs as sequences of commands; `ReadCreate`, `ReadOther`, `Reply`/`Write`, `ProconJoin`/`JoinThread`; the admin's `Type`, `AdminRead`, `AdminClose` |
| `PthSem` | pth_sem.c | `Load`, `Increment` are `idx++`, `Fill` is `buf[idx] = i`; `Show`, `Test`, `LoadAgain`, `Decrement` the consumer's reads and its `idx--` |
| `FifoChat` | FIFO semantics and the chat loop | `OpenNext` blocks until the other end is open; `Read` takes 1 to all pieces of what is there and may cut a line; `Write` may be killed |
| `FifoClients` | who opens what | the order of the opens; `Test` is the non-blocking open of 123.c, which decides its `role` and lets a waiting reader through |
| `ChatQueue` | pro2.c | `Send`, `Receive`, `PutBack` on the bounded queue; `Interrupt`, `AnswerParent`, `AnswerChild` are `fun_ctrl_c` |
| `Room` | what the UDP room promises | login, text and quit are atomic; copies may vanish |
| `UdpRoom` | s.c, c.c and the network | `Recvfrom` with the switch, then one action per turn of the loop over the list (`Relay`, `QuitTurn`), `Handled` |
| `TcpRoom` | t2s.c, t2c.c | outside the mutex each expression that uses `client` or `cnt` is an action: main's `RecvName`, `StoreCfd`, `ReadName`, `PassEntry`, `CreateThread`, a thread's `CopyArg`, `Find`, `CopyLast`; `Load` and then `Count` or `Uncount` are `cnt++` and `--cnt`; a turn of a loop with its test is one (`SendTurn`, `Find`); `full` is the peer for which a `send` waits, `Fault` an access outside the array that ends the process |
| `Tcp` | stream sockets | per end of a connection what has arrived, and whether behind it is the end, a reset, or a write that raises SIGPIPE |
| `AcceptLoops` | the four servers with workers | `Accept`, `Fork`/`CreateThread`, `Reap` are main; `LoadArg` is the thread's `*arg`; then `ReadEcho`/`Echo` of ps, `ReadLine`/`Answer`/`HangUp` of s and s1, `Recv`/`SendRound`/`Free` of t1s |
| `PairChat` | 95s.c, 95c.c | `Accept`, `Name`, `RecvName`, then `Say`, `Quit` and `Recv` of either end; `Exit` closes |

The random number in a message is its identity, so that a product consumed
twice or lost can be told.  Texts and names are model values or numbers.
`raced`, `missed`, `left`, `recycled`, `lost`, `overtaken`, `rude`, `again`,
`heard` and `sent` of `PairChat` record the past for the properties: no guard
reads them, except where a bound does (`lost < MaxLost` in `UdpRoom`,
`sent <= MaxTexts` in `PairChat`).

Where several programs run on the same actions, the choice is made in `Init`
and never changes: `cast` in `FifoClients`, `session` in `TcpRoom`, `program`
and the size of `clifd_p` in `AcceptLoops`, `reorders` in `UdpRoom`.

`MC…` modules only add symmetry sets and values for constants.  The definitions
headed "Seeded fault" stand beside the definition they spoil: each is that
definition with one plausible mistake (a dropped wait, `if` for `while`, a
forgotten unlock, the wrong order of two opens, an off-by-one), and every
property some run checks is known to fail under at least one of them.  `Next` never uses them.

## 3. What the runs check

| Run | Instance | Shows |
|---|---|---|
| `msg_stack` | 2 producers, 2 consumers, 4 nodes, 2 rounds | `SafeDereference`, `NoProductLost`, `NoLostWakeup` under every schedule and spurious wakeups; `PoolSpec`: the stack implements `ProductPool` |
| `prod_cons` | 1+1 threads, 4 rounds, 4 nodes | `Termination` in spite of endless spurious wakeups; `NothingLeftOver`: a clean heap when main returns |
| `procon` | 2+2 threads, each create twice, 2 queries, 1 exit | `SerialWorkers`: never two threads at once; `Balance`: the stack holds what the finished threads leave, and starvation comes only when everything made was consumed; `ServedIfStocked`, `ExitEnds` |
| `procon1` | 2+2 threads, 6 commands, so that lists name two | `InPhase`, `HungExplained`: until a list has two names, answers belong to their commands and only an empty list blocks; after that too `AnswerComes`, `ExitEnds`: `exit` ends both processes, a line that only begins with it ends admin1 and leaves procon1 reading an empty FIFO for ever |
| `pth_sem` | 5 products | `StackExact`, `LeftOver` before any overlap; `Ends`: only an overlap can hang the consumer |
| `fifo_chat` | four casts: pls and pzs, pls and 123, 123 and pzs, three 123 | `OneFirst`: two readers of fifo1 only when two tested at once; `StrandedByDeparture`: who waits in an open for ever, and why; `BothChat`: opposite ends meet; `BothLeave` unless an exit was missed |
| `chat_queue` | 3 users, 2 groups, queue of 2, 4 messages, 1 interrupt | `OnePlace`, `OrderKept`; `Delivered` to one who only listens, short of a jam |
| `udp_room` | 2 clients, 4 datagrams, networks that reorder and that do not, 1 loss | `RoomSpec`: the loops implement `Room`; `Membership` on a reliable network, through quit and login from the same port; `Delivered`, reordered or not |
| `tcp_room` | six sessions of up to 3 peers: 2 talk while a third joins; 3 join and 1 may leave; 1 talks and another may leave; 2 may leave; 1 of 3 may stop reading while another talks; 1 of 2 may stop reading and leave | `TotalOrder` of broadcasts; `RegistryExact`, `NoImpersonation`, until a removal overlaps an admission, a start or another removal; `DepartureNoticed`, short of such an overlap; `Admitted`: only a peer that withholds its name or stops reading keeps others out |
| `accept_loops` | ps, s, s1, t1s with 2 clients of 2 lines; rooms of 1 and 2 | `OwnClient`, `ForgottenExplained`: who serves whom, and which connections nobody serves; `EndsByFailure`: in ps and t1s no worker ends after an orderly departure; `DesertedNoticed`: whom nobody will answer gets to know, where s, and a thread that was overtaken, are left out |
| `parent_listens` | ps with 2 clients | a violation: `ParentListens`, what ps.c:54 and ps.c:110 say of the parent, fails |
| `pair_chat` | 2 clients, 3 messages from each end | `AllShown`, `RepeatExplained`, `AllLeave` |

Every module begins with a type invariant that records the range of each
variable.  They are in no configuration, for they say little of the programs;
those of `MsgStack`, `ChatQueue`, `FifoClients`, `TcpRoom` and `UdpRoom` are proved as
theorems, that of `PairChat` as part of its invariant.  `StarvedForever` of
`Workers` and `HungForever` of `Procon1` are proved too, and no run repeats them.

Some properties are conditional, because without the condition the code breaks
them: `StackExact` and `LeftOver` (no push overlapped a pop), `OneFirst` (no two 123
tested at once), `RegistryExact`, `NoImpersonation` and `DepartureNoticed` (no removal
overlapped another use of the array), `OwnClient` (no thread was overtaken),
`OrderKept` (nothing was put back).  They show that the programs are right up to
the overlap they name and that nothing else breaks them; the overlap itself they
exclude.  `raced`, `overtaken` and `recycled` are only ever set.

Several properties describe what goes wrong as precisely as what goes right.
These are the ways in which the programs can fail that the models reach.  Only
of ps.c do comments claim otherwise, which is the finding of `parent_listens`:

- procon waits for ever once a consumer it joins finds the stack empty
  (`Starved`): the only thread that could start a producer is in the join.
- procon1 and admin1 wait in `read` for each other after a list of no threads
  (`Hung`), and out of phase after one of two.
- A line such as `exit now` ends admin1, which compares four characters, and not
  procon1, which compares the line: it goes on reading the end of fifo1 for ever
  (the second half of `ExitEnds`).
- In pth_sem.c an overlap of `idx++` and `idx--` can hide the mark 0xab, and the
  consumer waits for ever; element `buf[10]` is written when nothing was popped.
- In 123.c two clients that test at the same time both take the reader's end.
- In pro2.c a full queue can jam, even for a group of its own: another group's
  messages that nobody receives are enough.  And two who both send can pass their
  own messages round for ever, each receiving only its own.  The second is why
  `Delivered` needs a user who only listens.
- In s.c a lost quit leaves an address on the list, and the next login from it
  doubles the copies it gets.
- In t2s.c a removal that overlaps an admission, the start of a thread or
  another removal can make `cnt` wrong, serve a client under another's name or
  leave a thread on another's descriptor.  A lost `cnt++` followed by two removals
  wraps `cnt` below zero, after which the loops run on past the array.
- In t2s.c a client that stops reading fills its connection, and the next `send`
  to it waits with the mutex held: no thread broadcasts, and main, which
  broadcasts whom it admits, accepts nobody else (`full` in `Admitted`).
- In ps.c the child of a client that leaves in order reads 0 for ever; its parent
  waits for it and accepts nobody else (`ParentListens` fails).
- In t1s.c and s1.c a thread that runs after the next `accept` serves the newer
  client, which then has two threads, and the older has none (`overtaken`).
- In t1s.c only a reset frees an element of `clifd_p`, and a client that finds
  the table full is accepted and left alone: `50 == i` is tested inside the loop.
- In tcptest/s.c the child closes descriptor 0 in place of the connection, which
  the parent has open as well, so that a client that waits is never told.
- In 95s.c and 95c.c a reset makes `recv` return -1, and the last line in `buf`
  is printed once more.

## 4. Bounds, and why they are enough

- `MsgStack`: with two producers and two consumers, a wakeup can be stolen by a
  thread of the same kind, and a pop can meet a push and another pop.  Two
  rounds make each node address used again after `free` (4 nodes, 4 products:
  `malloc` may return any address that is free, and with as many nodes as
  products it never lacks one).  More of either is what the proofs are for.
- `ProdCons`: four rounds and four nodes in place of five; `CleanExit` is the
  theorem for any number of rounds.
- `Procon`: `MaxPending = 2`, for two commands fill the 32 bytes of `str`;
  `Quota` bounds how often each command is typed.  One round per thread: threads
  run one at a time, and with two producers the stack is as deep as with two
  rounds of one.
- `Procon1`: `MaxAsked = 6`: two creates, a list of two, and three commands that
  get the wrong answer.
- `PthSem`: `Size = 5` in place of 10.  A race needs one push and one pop; the
  mark can be lost at any height.  All of hang, `idx < 0`, element `Size` and
  left-over products are reached with 5.
- `FifoClients`: three lines between pls and pzs let a line be read behind an
  exit, and one after that; in the casts with 123, where the matter is who opens
  what, one or two let a client leave.  Three 123 are needed for two that test at
  once and a third that meets what they leave.  A full FIFO (64 KB) is out of
  reach of a user and not modelled.
- `ChatQueue`: `Capacity = 2` stands for the kernel's 16 KB: a message can
  overtake another, two children can each hold one, and the queue still be full.
- `UdpRoom`, whose safety is proved for all bounds: `MaxLogins = 2`: one login after a quit, lost or not
  (`MaxLost = 1`).  Four datagrams are login, quit, login and a text of the server or another client.
- `TcpRoom`: descriptors are as many as peers, so that one is used again as soon
  as it is closed.  Peers are assumed to fit the array.  A session says how many
  lines each of the three sends, its name first, and who may leave or stop reading.
  Two that talk and one that joins are needed for two broadcasts by threads and one
  by main; one of three that leaves, for a removal of the first, middle or last
  element to meet an admission or the start of a thread; two of two that leave, for
  two removals at once, after which `cnt` can be below zero; one that stops reading,
  for a broadcast that waits while others wait for the mutex or main for a
  connection.  The safety is proved for any sessions and any number of peers.
- `AcceptLoops`: with two clients a thread can be overtaken, a parent can keep one
  waiting while it serves another, and a room of one be full; `MaxTexts = 2` lets
  a client leave a line unread and get an answer.  Three of the four properties
  are proved for any number of clients, lines and elements.
- `PairChat`: one client is accepted and one never is; `MaxTexts = 2`: each end may
  get three messages through, so that some can be read, some unread and some on
  their way when the connection ends.

## 5. Fairness

Only what the kernel's scheduler gives: a thread or process that can go on
goes on, weak fairness of its steps.  No user is assumed to type anything, to
answer, or to leave; nothing is assumed of spurious wakeups.  Beyond that:

- `ProdConsSpec` has strong fairness of the producer's lock.  A consumer that
  keeps waking spuriously holds the mutex again and again, so that the lock is
  only now and then free; a mutex that let one thread in for ever and never the
  other would be no scheduler's choice.  `ProconSpec` does not need it, for
  there one thread runs at a time.
- `ChatQueue` has strong fairness of a child's call, `msgrcv` or `msgsnd`: the kernel
  hands a message to a process that sleeps in `msgrcv` for it, and serves the
  sleepers in turn.
- In `AcceptLoops` main, the workers as far as they need no user, and a client's
  reads go on; `HangUp` and `Answer` are the users of s and s1.  In `PairChat`
  `Accept` and the two ends' `recv` do, for `select` returns when something has
  come.
- In `TcpRoom` main and the threads go on.  A peer that has stopped reading need
  never read again, so that a `send` may wait for ever; and a step of a thread that
  waits for the mutex is due only as long as nobody holds it.
- In the chat programs nothing is assumed of the network and the users;
  `Delivered` of `UdpRoom` promises nothing once a datagram was lost.

Where a system may stop (all threads done, all users silent, a deadlock that a
property describes) the module says so with a stuttering disjunct of `Next`, and
TLC's deadlock check stays on: any other state without a successor is an error.

## 6. What is proved

TLAPS checks every proof.  The theorems about the stack hold for any finite or
infinite sets of threads, any finite set of node addresses and any number of
rounds (`StackAssumption`); those about `ProdCons` for its two threads
(`MainAssumption`), and those that count (`NoWakeupIsLost`, all about procon and
procon1) for finite sets of threads.

`MsgStackProofs`: `Spec => []IInv` (`Invariance`), and from it `TypeCorrect`,
`MutualExclusion`, `MemorySafety`, `ListIntegrity` and `PoolRefinement`.  None
of the properties is inductive alone.  `IInv` is the conjunction of

- `TypeOK`, `RoundInv` (a thread that is not done has a round left: without it
  `num` would leave `Products`);
- `MutexInv` (exactly the thread in its critical section owns the mutex);
- `OwnershipInv` (the node a thread alone knows is allocated, and its alone);
- `LocalInv` (what a thread read in the critical section, `next[mp] = head`,
  `head # NULL`, `mp = head`, is still so: by `MutexInv` nobody else wrote);
- `NoProductLost` (the list from `head` visits the allocated nodes nobody owns,
  once each; `PushList` and `PopList` show what the two stores do to it, and
  `SameList` that every other step keeps it);
- `ProductInv` (products in memory are distinct and were made; one that was
  reported is only in the hands of the consumer about to free it).

One lemma per conjunct has one step per action.  `PoolRefinement` then maps
`Malloc` to nothing, `Push` to `Put`, `Pop` to `Get` and `Report` to `Consume`.

`NoWakeupIsLost` counts: by `StackMoves` only `Push` and `Pop` change the stack,
by one node.  A push makes its producer one that has yet to signal, a signal
trades the producer for the consumer it wakes, and the pop takes a node and that
consumer away together; a consumer that goes to sleep has seen `head = NULL`,
and then the stack is empty (`EmptyStack`).

`TidProofs` holds the proofs of three programs.  prod_cons.c is the thread
functions under a main (`RunsTheThreads`), so that all of the above holds of it; `CleanExit` proves
`NothingLeftOver` for any `N`: as many different products were reported as the
consumer has gone rounds (`MainInv`), so after `N` all were; then the list can
only be empty.

The last part of `MsgStackProofs` holds what is common to procon and procon1: a
thread takes a
step only if it is the one main joins (`OnlyJoined`), and hence
`SerialWorkers` is kept by create, join and the threads' steps, and a starved
wait lasts (`StarvedStays`).  `Balance` follows from an account (`StockInv`): the
nodes on the stack, `N` for each finished consumer and what the joined consumer
has popped are together `N` for each finished producer and what the joined
producer has pushed.  `StepOfOne` says what a step of one thread does to the
account, from `StackMoves`.

`TidProofs` for procon and `Procon1Proofs` for procon1 show with it that the programs refine
`MsgStack` (so `MemorySafety` and the pool hold of them, whatever is typed),
`SerialWorkers`, `Balance`, `StarvedForever` of procon and `HungForever` of
procon1.  `StaysInPhase` and `HungIsExplained` are about the protocol of procon1:
as long as no two threads of a kind have finished, `PhaseInv` says that between
the processes there is exactly one thing, the command, the answer that is being
written or the answer on fifo2, or nothing, and then the command was a list
with nobody to name (or procon1 has ended).  That the condition, once false,
stays so needs `P` and `C` not to fall (`CountsGrow`), and that an empty list
stays empty needs no thread to run while procon1 reads, which is `SerialWorkers`
again.

The end of `TidProofs` is pth_sem.c, for any number of products: `CountInv` (the semaphore counts what
was made and not asked for) holds whatever happens; and as long as no push has
overlapped a pop, `RegInv` (what a thread has loaded is still `idx`), `OnceInv`
(the elements below the top are different products) and `ShownInv` (every product
made was shown or is below the top).  `StackIsExact` and `NothingLost` are what
they say at rest and at the end.

`PairChatProofs`, for any clients and lines: `AccountInv` (what got through was
heard or has not been read), `QueueInv` (a connection waits once), `LineInv` and
`ResetInv` (an end finds the line closed only when the other has gone, and reset
only when it went with something unread), `EndInv`.  Sending, taking, being told
and leaving are one lemma each, for either end.

`AcceptLoopsProofs`, for any finite number of clients, any lines and any size of
the table: `DistinctInv` (descriptors in use differ), `QueueInv`, `StartInv` and
`OwnInv` (a thread that has yet to read its argument finds there the descriptor
it was made for, unless it was overtaken), `ClosedInv`, and `SlotInv`, which
counts the elements of `clifd_p` in use against the threads made: a client is
left without a thread only when as many were made as there are elements.
`NobodyNoticed` has an invariant of its own, `QuietInv`: while no client was
rude, no worker is done and no connection was reset.

`TcpRoomProofs`, for any finite number of peers and any sessions.  What the mutex
gives needs nothing else: `MsgInv` (no two threads ever have the same message in
hand), `SentInv` (what was broadcast is no longer waiting for the mutex) and
`LastInv` (while a message is being broadcast nothing stands behind it) make
`OrderInv`, which is `TotalOrder`, inductive.  `CountInv` bounds `cnt` by the
threads ever created, and from below by those that have gone, although updates of
it are lost: that is what `TypeCorrect` says of it, and it allows `cnt` to wrap.
`CountNeverWraps` says that it does not before an overlap.  The array is exact only
until an overlap: `EntryInv` says what main and the one thread that removes rely
on between their loads and stores, and `ArrayInv` counts the elements, with `Top`
for what `cnt` is about to be.  It is not inductive without `EntryInv`: the
thread copies the last element over its own, counts down in two more steps, and
`cnt` must not have changed in between (`CntIsNatural`, `TopStep`).

`PipemsgProofs` is about the chats of pid/pipemsg.  pro2.c, for any users, groups
and room of the queue: queue, hands and terminals are three sets without
repetition (`OnceInv`) that share nothing and hold what was sent and not lost, and
of a sender none of whose messages was put back everything printed is before
everything queued; `OrderIsKept` and `EachAtOnePlace` are the consequences.  The
FIFO chats, for any cast of processes: `RoleInv`, `EndsInv`, `WaitInv` and
`FoundInv` say for each point of the two open calls what is still to be opened,
which ends are held, that who waits to write fifo1 does so because nobody reads
it, and that a 123 is second because it found a first at its test.  Hence
`OnlyDepartureStrands`: if nobody reads fifo1 then that first one is past its last
read.  `OneReader` is proved where at most one process runs pls (`OnePls`): pls
has fixed ends, so that two of them are two readers whatever 123 does.  Every
cast of the runs is so.

`UdpRoomProofs`, for any clients and any number of datagrams, logins and losses.
`ListIsMembership` needs to know what is under way: `PresenceInv` says that on a
reliable network the logins and quits of a client that the server has yet to
receive take turns, that the first of them is a login exactly if the client is
not on the list, and that the last is a login exactly if the client is in the
room (`TurnsAdd`, `TurnsTake` are its two ends).  `ImplementsRoom` is the
refinement, for every network: `Recvfrom` maps to `Handle`, after which every copy
is yet to be sent (`BagRun`); a turn that sends moves one copy from those to the
wire and is a stutter (`RunMoves`); one in which `sendto` fails lets the rest
vanish; a turn that unlinks changes the count of no other address
(`NodesRemoved`), and at the end of a quit no node of its sender is left
(`LoopInv`).

With these, every invariant and every refinement that a run checks is a theorem.
Only model-checked: liveness, which TLAPS cannot prove under fairness, that is
`Termination`, `ServedIfStocked`, `ExitEnds`, `AnswerComes`, `Ends`, `BothChat`,
`BothLeave`, both `Delivered`, `DepartureNoticed`, `Admitted`, `DesertedNoticed` and
`AllLeave`; and `ParentListens`, which fails.

## 7. What is not modelled, and limits of the models

- PROJECT.json lists the programs without a module and why.
- Failing `pthread_create`, `malloc`, `fork`, `socket` or `open` calls end the
  programs (or are not looked at); they are assumed to succeed.  `sendto` of
  s.c, `send` of t2s.c, and reads and writes at the end of a FIFO do fail.
- procon1's list prints `tid_p`, of which an element may be written by a thread
  at that moment; the text of an answer is not modelled.
- `PthSem` goes on after a store to the element past the end as if nothing else
  had changed.  In `TcpRoom` an access before the array, or behind it once `cnt` has
  wrapped, ends the process or goes on; the memory before the array is taken to
  hold zeros and nothing else of the program, and a loop that has passed all
  elements in use is not followed further than to its crash.
- `TcpRoom`: a turn of a loop and its test are one step, and an element is copied
  in one.  `send` waits for a peer that has stopped reading (`Stop`) for as long as
  it does, and for no other; how much fits before it waits is not counted.  `recv`
  and `send` on a descriptor that is closed fail; an entry with descriptor 0, which
  nobody has stored, is taken for one such, and what follows when it is closed,
  being standard input, is left out.
- `send` in t1s.c sends no bytes, and what the other TCP programs write is short:
  that these wait for room is not modelled.
- `AcceptLoops` sends to all elements of `clifd_p` in one step: `buf1` was emptied
  before, so that no bytes are sent and no element's turn concerns another.  Main's
  search of `clifd_p` for a free element is one step too, although threads clear
  elements meanwhile: main is the only one that fills them, so that the element it
  stores in is free, and no property asks which it is.  All
  lines are alike; whether an answer of s belongs to the line it follows is not
  asked, for its user types it.
- `PairChat` leaves out the file name.txt; the store `buf[-1] = 0` of the loops
  after a `recv` of -1 (undefined, but before the array); and a first `send` of
  nothing, when the name is an empty line.  The clients are as many copies of
  95c; 95s serves one.
- `more_tcp/s.c` takes the length of buffers that were never written for each
  `recv` and `send`, so that nothing it does is defined; `95c1.c` speaks UDP to no
  server here, with an uninitialised length.  `9-1-s.c` and `9-1-c.c` exchange one
  message, the UDP ping-pong one at a time.
- A second control-C while the question of the first is unanswered, and the end
  of standard input in pro2.c (which sends its last line again and again) are
  left out.
- Loads and stores are atomic and seen in order; the mutexes give that where
  they are used, and x86 does where not.

## 8. Plan

Done: the stack and its three programs, the chats over FIFOs, message queue and
UDP, the TCP rooms, the servers with workers and the pair chat, and the proofs of
section 6.  Next, in this order:

1. **The safety that liveness rests on**: that no state is stuck but those a
   property names (who waits in procon, `FifoClients` and `AcceptLoops`, and for
   whom), as invariants.
2. **`TcpRoom`**: a refinement of an abstract registry for the behaviours without
   overlap; more peers than the array has elements.
3. **procon1**: the value of an answer's text, for the race on `tid_p[P]`.

## 9. Running the checks

    tlc -workers 2 -config MCMsgStack.cfg MCMsgStack
    tlapm MsgStackProofs.tla

Each `.cfg` belongs to the `MC` module of the same name, and
`MCParentListens.cfg` to `MCAcceptLoops`; the `runs` of PROJECT.json list the pairs.  No run takes more than five minutes with two workers.
