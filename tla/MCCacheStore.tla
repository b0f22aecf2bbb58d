---------------------------- MODULE MCCacheStore ----------------------------
(* Instances of CacheStore for TLC. *)
EXTENDS CacheStore, TLC

\* Keys are interchangeable; used with safety only.
Symmetry == Permutations(Key)

=============================================================================
