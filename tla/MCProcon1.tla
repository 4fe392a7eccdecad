----------------------------- MODULE MCProcon1 ------------------------------
EXTENDS Procon1
=============================================================================
