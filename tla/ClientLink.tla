------------------------------ MODULE ClientLink ------------------------------
(***************************************************************************)
(* What transporter/manager/connectionManager promises the code that uses  *)
(* it (roomManager): a client connection is registered, may lose its peer, *)
(* is closed by somebody, and after its socket is closed it is announced   *)
(* exactly once on ClientDisconnectedChannel.  Who closes (the reader, the *)
(* room manager, Stop) and how racing closers agree is what the detailed   *)
(* module ConnectionManager adds; it is shown to implement this one.       *)
(***************************************************************************)
EXTENDS Naturals, Sequences

CONSTANTS Conns,              \* the ClientConnection objects ever created
          ConnectionPoolSize  \* capacity of both channels (10 in the code)

ASSUME PoolSizeAssumption == ConnectionPoolSize \in Nat \ {0}

VARIABLES link,                     \* life cycle of every connection
          clientDisconnectedChannel \* FIFO of connections to announce

linkVars == <<link, clientDisconnectedChannel>>

(***************************************************************************)
(* "open": registered and usable.  "broken": the peer is gone but nobody   *)
(* here noticed.  "closing": the socket is closed, the announcement is not *)
(* sent yet.  "closed": announced.                                         *)
(***************************************************************************)
LinkStates == {"absent", "open", "broken", "closing", "closed"}

LinkTypeOK ==
    /\ link \in [Conns -> LinkStates]
    /\ clientDisconnectedChannel \in Seq(Conns)

LinkInit ==
    /\ link = [c \in Conns |-> "absent"]
    /\ clientDisconnectedChannel = <<>>

\* The accept loop registers c and starts its reader; the peer may be gone
\* already when that happens.
Accept(c) ==
    /\ link[c] = "absent"
    /\ \E s \in {"open", "broken"} : link' = [link EXCEPT ![c] = s]
    /\ UNCHANGED clientDisconnectedChannel

\* The peer closes or the network fails: buffered data can still be read and
\* a write may or may not report an error.
PeerGone(c) ==
    /\ link[c] = "open"
    /\ link' = [link EXCEPT ![c] = "broken"]
    /\ UNCHANGED clientDisconnectedChannel

\* internalCloseClient closes the socket ...
BeginClose(c) ==
    /\ link[c] \in {"open", "broken"}
    /\ link' = [link EXCEPT ![c] = "closing"]
    /\ UNCHANGED clientDisconnectedChannel

\* ... and, after unregistering the connection, announces it; the send blocks
\* while the channel is full.
Notify(c) ==
    /\ link[c] = "closing"
    /\ Len(clientDisconnectedChannel) < ConnectionPoolSize
    /\ link' = [link EXCEPT ![c] = "closed"]
    /\ clientDisconnectedChannel' = Append(clientDisconnectedChannel, c)

\* The room manager receives the next announcement.
TakeDisconnected ==
    /\ clientDisconnectedChannel # <<>>
    /\ clientDisconnectedChannel' = Tail(clientDisconnectedChannel)
    /\ UNCHANGED link

LinkNext ==
    \/ \E c \in Conns : Accept(c) \/ PeerGone(c) \/ BeginClose(c) \/ Notify(c)
    \/ TakeDisconnected

LinkSpec == LinkInit /\ [][LinkNext]_linkVars
===============================================================================
