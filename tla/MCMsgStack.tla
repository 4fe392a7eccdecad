----------------------------- MODULE MCMsgStack -----------------------------
EXTENDS MsgStack, TLC

Symmetry == Permutations(Producers) \cup Permutations(Consumers) \cup Permutations(Nodes)
=============================================================================
