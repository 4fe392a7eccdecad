SPECIFICATION QueueSpec
CONSTANTS
  a = a  b = b  c = c
  Users = {a, b, c}
  Group <- Apart
  Name <- Namesakes
  Capacity = 2
  MaxMsgs <- TwoOneOne
  Interrupters = {b}
  Nobody = Nobody
INVARIANTS OnePlace OrderKept
PROPERTY Delivered
