SPECIFICATION Spec
CONSTANTS
  a = a  b = b
  Clients = {a, b}
  Programs = {"ps"}
  MaxTexts = 2
  Rooms = {1, 2}
PROPERTY ParentListens
