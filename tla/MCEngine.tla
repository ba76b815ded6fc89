------------------------------ MODULE MCEngine ------------------------------
(* Engine with the io client, the supervisor and one supervised component. *)
EXTENDS Engine
=============================================================================
