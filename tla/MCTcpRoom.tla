------------------------------ MODULE MCTcpRoom ------------------------------
EXTENDS TcpRoom

CONSTANTS a, b, c

Session(x, y, z, leavers, stoppers) ==
  [lines |-> [q \in Peers |-> CASE q = a -> x [] q = b -> y [] q = c -> z],
   leavers |-> leavers, stoppers |-> stoppers]

MCSessions ==
  {Session(2, 2, 1, {}, {}),        \* two talk while they and a third join
   Session(1, 1, 1, {b}, {}),       \* one may leave at any time
   Session(2, 1, 0, {b}, {}),       \* one of two, while the other talks
   Session(1, 1, 0, {a, b}, {}),    \* both may leave
   Session(2, 1, 1, {}, {b}),       \* one may stop reading while another talks
   Session(2, 1, 0, {b}, {b})}      \* and leave without having read
=============================================================================
