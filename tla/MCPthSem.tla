------------------------------ MODULE MCPthSem ------------------------------
EXTENDS PthSem
=============================================================================
