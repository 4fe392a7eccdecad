---------------------------- MODULE MCAcceptLoops ----------------------------
EXTENDS AcceptLoops
=============================================================================
