-------------------------- MODULE MCConnectionManager --------------------------
(* Model-checking instance of ConnectionManager. *)
EXTENDS ConnectionManager
===============================================================================
