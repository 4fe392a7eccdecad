------------------------------ MODULE MCProcon ------------------------------
EXTENDS Procon

(* As many creations as there are threads, two queries and one exit. *)
MCQuota == [k \in Commands |->
  CASE k = "create producer" -> Cardinality(Producers)
    [] k = "create consumer" -> Cardinality(Consumers)
    [] k = "query" -> 2
    [] k = "exit" -> 1]
=============================================================================
