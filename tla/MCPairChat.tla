------------------------------ MODULE MCPairChat ------------------------------
EXTENDS PairChat
=============================================================================
