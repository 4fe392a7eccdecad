----------------------------- MODULE MCUdpRoom -----------------------------
EXTENDS UdpRoom

CONSTANT a     \* one of the clients

(* DeliveredTo for every client: the specification does not tell them apart,
   so that one stands for all. *)
Delivered == DeliveredTo(a)
=============================================================================
