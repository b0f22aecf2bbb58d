--------------------------- MODULE MCTransportStream ---------------------------
(* Instances of TransportStream for TLC. *)
EXTENDS TransportStream
================================================================================
