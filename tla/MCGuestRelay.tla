----------------------------- MODULE MCGuestRelay -----------------------------
(* Model-checking instances of GuestRelay. *)
EXTENDS GuestRelay
===============================================================================
