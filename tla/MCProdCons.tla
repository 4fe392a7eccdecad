----------------------------- MODULE MCProdCons -----------------------------
EXTENDS ProdCons
=============================================================================
