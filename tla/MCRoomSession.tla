----------------------------- MODULE MCRoomSession -----------------------------
EXTENDS RoomSession, TLC

GuestSymmetry == Permutations(Guests)

\* No step and no property of the session reads out, strayed or admitted of an
\* earlier step: states that differ only there are taken as one.
SessionView ==
    <<link, clientDisconnectedChannel, rooms, clientMessageChannel, held, closing,
      received, reaped, toServer, toClient, clientVars, about, crossed>>
===============================================================================
