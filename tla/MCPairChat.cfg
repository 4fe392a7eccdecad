SPECIFICATION Spec
CONSTANTS
  a = a  b = b
  Clients = {a, b}
  MaxTexts = 2
INVARIANTS AllShown RepeatExplained
PROPERTY AllLeave
