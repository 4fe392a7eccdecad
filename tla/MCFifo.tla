-------------------------------- MODULE MCFifo --------------------------------
EXTENDS FifoClients, TLC

CONSTANTS a, b, c

Three(x, y, z) == a :> x @@ b :> y @@ c :> z

MCCasts ==
  {[program |-> Three("pls", "pzs", "none"), lines |-> 3],
   [program |-> Three("pls", "123", "none"), lines |-> 2],
   [program |-> Three("123", "pzs", "none"), lines |-> 2],
   [program |-> Three("123", "123", "123"), lines |-> 1]}
=============================================================================
