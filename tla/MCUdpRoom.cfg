SPECIFICATION Spec
CONSTANTS
  a = a  b = b
  Clients = {a, b}
  Server = Server
  NoMsg = NoMsg
  MaxSent = 4
  MaxLogins = 2
  MaxLost = 1
INVARIANT Membership
PROPERTIES RoomSpec Delivered
