SPECIFICATION Spec
CONSTANTS
  a = a  b = b  c = c
  Procs = {a, b, c}
  Casts <- MCCasts
INVARIANTS OneFirst StrandedByDeparture
PROPERTIES BothChat BothLeave
