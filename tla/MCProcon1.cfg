SPECIFICATION Procon1Spec
CONSTANTS
  p1 = p1  p2 = p2  c1 = c1  c2 = c2
  n1 = n1  n2 = n2
  Producers = {p1, p2}
  Consumers = {c1, c2}
  Nodes = {n1, n2}
  N = 1
  NULL = NULL
  MaxAsked = 6
INVARIANTS InPhase HungExplained
PROPERTIES AnswerComes ExitEnds
