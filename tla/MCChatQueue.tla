----------------------------- MODULE MCChatQueue -----------------------------
EXTENDS ChatQueue

CONSTANTS a, b, c    \* a and b share a group, c has one of its own and the name of a

Apart == [u \in Users |-> IF u = c THEN 2 ELSE 1]
Namesakes == [u \in Users |-> IF u = b THEN "y" ELSE "x"]
TwoOneOne == [u \in Users |-> IF u = a THEN 2 ELSE 1]
=============================================================================
