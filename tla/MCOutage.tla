------------------------------ MODULE MCOutage ------------------------------
(* Instances of Outage for TLC. *)
EXTENDS Outage
=============================================================================
