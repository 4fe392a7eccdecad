SPECIFICATION Spec
CONSTANTS
  a = a  b = b
  Clients = {a, b}
  Programs = {"ps", "s", "s1", "t1s"}
  MaxTexts = 2
  Rooms = {1, 2}
INVARIANTS OwnClient ForgottenExplained EndsByFailure
PROPERTY DesertedNoticed
