------------------------------ MODULE MCNekteClient ------------------------------
(* Instances of NekteClient for TLC. *)
EXTENDS NekteClient
================================================================================
