----------------------------- MODULE MCRoomManager -----------------------------
(* Model-checking instances of RoomManager. *)
EXTENDS RoomManager

\* Connections, and room ids, are interchangeable (runs without liveness only).
Symmetry == Permutations(Conns) \cup Permutations(RoomIds)
===============================================================================
