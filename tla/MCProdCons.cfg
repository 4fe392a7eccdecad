SPECIFICATION ProdConsSpec
CONSTANTS
  pt = pt
  ct = ct
  n1 = n1  n2 = n2  n3 = n3  n4 = n4
  Producers = {pt}
  Consumers = {ct}
  Nodes = {n1, n2, n3, n4}
  N = 4
  NULL = NULL
INVARIANT NothingLeftOver
PROPERTY Termination
