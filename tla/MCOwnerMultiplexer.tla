-------------------------- MODULE MCOwnerMultiplexer --------------------------
(* Model-checking instances of OwnerMultiplexer. *)
EXTENDS OwnerMultiplexer
===============================================================================
