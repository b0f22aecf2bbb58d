---------------------------- MODULE MCContextStore -----------------------------
(* Instances of ContextStore for TLC. *)
EXTENDS ContextStore
================================================================================
