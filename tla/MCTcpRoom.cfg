SPECIFICATION Spec
CONSTANTS
  a = a  b = b  c = c 
  Peers = {a, b, c}
  Main = Main
  NoOne = NoOne
  Sessions <- MCSessions
INVARIANTS  RegistryExact NoImpersonation
PROPERTIES DepartureNoticed Admitted
