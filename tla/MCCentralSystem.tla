-------------------------- MODULE MCCentralSystem --------------------------
(* CentralSystem on small instances. *)
EXTENDS CentralSystem
=============================================================================
