---------------------------- MODULE MCTaskRegistry -----------------------------
(* Instances of TaskRegistry for TLC. *)
EXTENDS TaskRegistry
================================================================================
