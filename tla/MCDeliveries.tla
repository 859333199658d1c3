---------------------------- MODULE MCDeliveries ----------------------------
(* TLC instance of Deliveries. *)
EXTENDS Deliveries
=============================================================================
