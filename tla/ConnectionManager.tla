--------------------------- MODULE ConnectionManager ---------------------------
(***************************************************************************)
(* transporter/manager/connectionManager: the accept loop, one reader      *)
(* goroutine per connection, Stop, and the close protocol they race for.   *)
(* Every lock-protected or channel operation is one step; the room manager *)
(* goroutine is present as far as this package sees it: it receives from   *)
(* the two channels and, while handling what it received, closes           *)
(* connections it knows.                                                   *)
(*                                                                         *)
(* Messages are opaque here, so ClientMessageChannel holds the senders.    *)
(* The connection list is a set: its order only decides in which order     *)
(* Stop closes, and Stop may close in any order here.                      *)
(***************************************************************************)
EXTENDS Naturals, Sequences, FiniteSets

CONSTANTS Conns,               \* the ClientConnection objects ever created
          ConnectionPoolSize,  \* capacity of both channels (10 in the code)
          MaxMessages,         \* bound: messages read from clients in all
          RMThread,            \* the room manager goroutine
          StopThread,          \* the goroutine that calls Stop
          NoConn

ASSUME CapacityAssumption == ConnectionPoolSize \in Nat \ {0}
ASSUME BoundAssumption == MaxMessages \in Nat
ASSUME ThreadsAssumption ==
    /\ RMThread \notin Conns
    /\ StopThread \notin Conns
    /\ RMThread # StopThread
    /\ NoConn \notin Conns

Threads == Conns \cup {RMThread, StopThread}

\* At most two Close calls per handled message or announcement: closeRoom
\* closes owner and guest; handleJoinRoomResponse the guest, then the owner.
MaxCloses == 2

VARIABLES
    server,       \* cm.server: "unset", "listening", "closed" or "failed"
    cancelled,    \* cm.context is cancelled
    acceptor,     \* program counter of StartServer and its accept loop
    accepted,     \* the connection Accept returned, not registered yet
    connections,  \* the registered connections
    socket,       \* the state of every connection's socket
    reader,       \* program counter of every ClientConnection.run
    once,         \* every connection's closeOnce: "idle", "running", "done"
    closePc,      \* where every thread is inside a close call
    closeOf,      \* the connection that call is about
    stopPc,       \* program counter of Stop
    toClose,      \* Stop's copy of the connection list, less what is closed
    clientDisconnectedChannel,
    clientMessageChannel,
    rm,           \* the room manager: "select" or "handling"
    rmCloses,     \* Close calls the running handler may still make
    known,        \* the connections whose messages the room manager received
    received      \* number of messages read so far

acceptVars == <<server, cancelled, acceptor, accepted>>
closeVars  == <<closePc, closeOf, once>>
rmVars     == <<rm, rmCloses, known>>
stopVars   == <<stopPc, toClose>>
vars == <<acceptVars, connections, socket, reader, closeVars, stopVars,
          clientDisconnectedChannel, clientMessageChannel, rmVars, received>>

CMTypeOK ==
    /\ server \in {"unset", "listening", "closed", "failed"}
    /\ cancelled \in BOOLEAN
    /\ acceptor \in {"starting", "accepting", "registering", "returned"}
    /\ accepted \in Conns \cup {NoConn}
    /\ connections \in SUBSET Conns
    /\ socket \in [Conns -> {"none", "open", "broken", "closed"}]
    /\ reader \in [Conns -> {"none", "handshake", "reading", "enqueue",
                             "closing", "mismatch", "exited"}]
    /\ once \in [Conns -> {"idle", "running", "done"}]
    /\ closePc \in [Threads -> {"none", "enter", "close", "unregister", "notify"}]
    /\ closeOf \in [Threads -> Conns \cup {NoConn}]
    /\ stopPc \in {"idle", "cancelled", "snapshot", "closing", "done"}
    /\ toClose \in SUBSET Conns
    /\ clientDisconnectedChannel \in Seq(Conns)
    /\ clientMessageChannel \in Seq(Conns)
    /\ rm \in {"select", "handling"}
    /\ rmCloses \in 0..MaxCloses
    /\ known \in SUBSET Conns
    /\ received \in Nat

Init ==
    /\ server = "unset"
    /\ cancelled = FALSE
    /\ acceptor = "starting"
    /\ accepted = NoConn
    /\ connections = {}
    /\ socket = [c \in Conns |-> "none"]
    /\ reader = [c \in Conns |-> "none"]
    /\ once = [c \in Conns |-> "idle"]
    /\ closePc = [t \in Threads |-> "none"]
    /\ closeOf = [t \in Threads |-> NoConn]
    /\ stopPc = "idle"
    /\ toClose = {}
    /\ clientDisconnectedChannel = <<>>
    /\ clientMessageChannel = <<>>
    /\ rm = "select"
    /\ rmCloses = 0
    /\ known = {}
    /\ received = 0

-----------------------------------------------------------------------------
(* StartServer and the accept loop *)

\* The certificate is loaded, tls.Listen succeeds and cm.server is published.
StartListening ==
    /\ acceptor = "starting"
    /\ acceptor' = "accepting"
    /\ server' = "listening"
    /\ UNCHANGED <<cancelled, accepted, connections, socket, reader, closeVars,
                   stopVars, clientDisconnectedChannel, clientMessageChannel,
                   rmVars, received>>

\* The certificate or the listener cannot be created: StartServer returns.
StartFails ==
    /\ acceptor = "starting"
    /\ acceptor' = "returned"
    /\ UNCHANGED <<server, cancelled, accepted, connections, socket, reader,
                   closeVars, stopVars, clientDisconnectedChannel,
                   clientMessageChannel, rmVars, received>>

\* server.Accept returns a new connection.
AcceptConn(c) ==
    /\ acceptor = "accepting"
    /\ server = "listening"
    /\ socket[c] = "none"
    /\ acceptor' = "registering"
    /\ accepted' = c
    /\ socket' = [socket EXCEPT ![c] = "open"]
    /\ UNCHANGED <<server, cancelled, connections, reader, closeVars, stopVars,
                   clientDisconnectedChannel, clientMessageChannel, rmVars,
                   received>>

\* registerConnection under the mutex, then start() spawns the reader.
RegisterConnection ==
    /\ acceptor = "registering"
    /\ acceptor' = "accepting"
    /\ connections' = connections \cup {accepted}
    /\ reader' = [reader EXCEPT ![accepted] = "handshake"]
    /\ accepted' = NoConn
    /\ UNCHANGED <<server, cancelled, socket, closeVars, stopVars,
                   clientDisconnectedChannel, clientMessageChannel, rmVars,
                   received>>

\* The listener breaks for good without Stop (its descriptor fails).
ListenerFails ==
    /\ server = "listening"
    /\ server' = "failed"
    /\ UNCHANGED <<cancelled, acceptor, accepted, connections, socket, reader,
                   closeVars, stopVars, clientDisconnectedChannel,
                   clientMessageChannel, rmVars, received>>

\* server.Accept returns an error: transiently while listening, always once
\* the listener is closed or broken.  The loop ends only after Stop's cancel.
AcceptErrorReturn ==
    /\ acceptor = "accepting"
    /\ cancelled
    /\ acceptor' = "returned"
    /\ UNCHANGED <<server, cancelled, accepted, connections, socket, reader,
                   closeVars, stopVars, clientDisconnectedChannel,
                   clientMessageChannel, rmVars, received>>

\* Without the cancel the error is logged and the loop continues.
AcceptErrorContinue ==
    /\ acceptor = "accepting"
    /\ ~cancelled
    /\ UNCHANGED vars

-----------------------------------------------------------------------------
(* Stop *)

\* MUTANT: Stop forgets the cancel.
StopNoCancel ==
    /\ stopPc = "idle"
    /\ stopPc' = "cancelled"
    /\ UNCHANGED <<acceptVars, connections, socket, reader,
                   closeVars, toClose, clientDisconnectedChannel,
                   clientMessageChannel, rmVars, received>>

\* cancelFunc().
StopCancel ==
    /\ stopPc = "idle"
    /\ stopPc' = "cancelled"
    /\ cancelled' = TRUE
    /\ UNCHANGED <<server, acceptor, accepted, connections, socket, reader,
                   closeVars, toClose, clientDisconnectedChannel,
                   clientMessageChannel, rmVars, received>>

\* Under the mutex: copy the listener and the connection list.  The listener
\* is skipped later if StartServer has not published it by now.
StopSnapshot ==
    /\ stopPc = "cancelled"
    /\ stopPc' = IF server = "unset" THEN "closing" ELSE "snapshot"
    /\ toClose' = connections
    /\ UNCHANGED <<acceptVars, connections, socket, reader, closeVars,
                   clientDisconnectedChannel, clientMessageChannel, rmVars,
                   received>>

\* server.Close().
StopCloseServer ==
    /\ stopPc = "snapshot"
    /\ stopPc' = "closing"
    /\ server' = "closed"
    /\ UNCHANGED <<cancelled, acceptor, accepted, connections, socket, reader,
                   closeVars, toClose, clientDisconnectedChannel,
                   clientMessageChannel, rmVars, received>>

\* Thread t calls internalClose on c.
CallClose(t, c) ==
    /\ closePc[t] = "none"
    /\ closePc' = [closePc EXCEPT ![t] = "enter"]
    /\ closeOf' = [closeOf EXCEPT ![t] = c]
    /\ UNCHANGED once

\* Stop closes one connection of its copy after the other.
StopClose(c) ==
    /\ stopPc = "closing"
    /\ c \in toClose
    /\ toClose' = toClose \ {c}
    /\ CallClose(StopThread, c)
    /\ UNCHANGED <<acceptVars, connections, socket, reader, stopPc,
                   clientDisconnectedChannel, clientMessageChannel, rmVars,
                   received>>

StopReturn ==
    /\ stopPc = "closing"
    /\ toClose = {}
    /\ closePc[StopThread] = "none"
    /\ stopPc' = "done"
    /\ UNCHANGED <<acceptVars, connections, socket, reader, closeVars, toClose,
                   clientDisconnectedChannel, clientMessageChannel, rmVars,
                   received>>

-----------------------------------------------------------------------------
(* ClientConnection.run *)

\* The CNXN message is read, the client id assigned and the answer written.
HandshakeOk(c) ==
    /\ reader[c] = "handshake"
    /\ socket[c] \in {"open", "broken"}
    /\ reader' = [reader EXCEPT ![c] = "reading"]
    /\ UNCHANGED <<acceptVars, connections, socket, closeVars, stopVars,
                   clientDisconnectedChannel, clientMessageChannel, rmVars,
                   received>>

\* Every other way out of performHandshake and handleConnectHandshake except
\* the version mismatch, and a recovered panic: internalClose.
HandshakeFails(c) ==
    /\ reader[c] = "handshake"
    /\ reader' = [reader EXCEPT ![c] = "closing"]
    /\ CallClose(c, c)
    /\ UNCHANGED <<acceptVars, connections, socket, stopVars,
                   clientDisconnectedChannel, clientMessageChannel, rmVars,
                   received>>

\* handleProtocolMismatchError writes the error and then calls
\* internalCloseClient itself, without going through closeOnce.
HandshakeMismatch(c) ==
    /\ reader[c] = "handshake"
    /\ socket[c] \in {"open", "broken"}
    /\ reader' = [reader EXCEPT ![c] = "mismatch"]
    /\ closePc' = [closePc EXCEPT ![c] = "close"]
    /\ closeOf' = [closeOf EXCEPT ![c] = c]
    /\ UNCHANGED <<acceptVars, connections, socket, once, stopVars,
                   clientDisconnectedChannel, clientMessageChannel, rmVars,
                   received>>

\* readNextMessage: a message was read and must be handed over.
ReadMessage(c) ==
    /\ reader[c] = "reading"
    /\ socket[c] \in {"open", "broken"}
    /\ received < MaxMessages
    /\ received' = received + 1
    /\ reader' = [reader EXCEPT ![c] = "enqueue"]
    /\ UNCHANGED <<acceptVars, connections, socket, closeVars, stopVars,
                   clientDisconnectedChannel, clientMessageChannel, rmVars>>

\* MUTANT: the reader returns on a failed read without closing.
ReadFailsExits(c) ==
    /\ reader[c] = "reading"
    /\ reader' = [reader EXCEPT ![c] = "exited"]
    /\ UNCHANGED <<acceptVars, connections, socket, closeVars, stopVars,
                   clientDisconnectedChannel, clientMessageChannel, rmVars,
                   received>>

\* The read fails: end of file, closed socket, or an invalid message.
ReadFails(c) ==
    /\ reader[c] = "reading"
    /\ reader' = [reader EXCEPT ![c] = "closing"]
    /\ CallClose(c, c)
    /\ UNCHANGED <<acceptVars, connections, socket, stopVars,
                   clientDisconnectedChannel, clientMessageChannel, rmVars,
                   received>>

\* The send on ClientMessageChannel blocks while the channel is full.
EnqueueMessage(c) ==
    /\ reader[c] = "enqueue"
    /\ Len(clientMessageChannel) < ConnectionPoolSize
    /\ clientMessageChannel' = Append(clientMessageChannel, c)
    /\ reader' = [reader EXCEPT ![c] = "reading"]
    /\ UNCHANGED <<acceptVars, connections, socket, closeVars, stopVars,
                   clientDisconnectedChannel, rmVars, received>>

\* The peer closes its end or the network fails.
PeerGone(c) ==
    /\ socket[c] = "open"
    /\ socket' = [socket EXCEPT ![c] = "broken"]
    /\ UNCHANGED <<acceptVars, connections, reader, closeVars, stopVars,
                   clientDisconnectedChannel, clientMessageChannel, rmVars,
                   received>>

-----------------------------------------------------------------------------
(* closeOnce.Do and internalCloseClient, by any thread *)

\* Is t's call the one that bypasses closeOnce?
Bypasses(t) == t \in Conns /\ reader[t] = "mismatch"

\* t's call returns; a reader then leaves run().
ReturnFromClose(t) ==
    /\ closePc' = [closePc EXCEPT ![t] = "none"]
    /\ reader' = IF t \in Conns THEN [reader EXCEPT ![t] = "exited"] ELSE reader
    /\ UNCHANGED closeOf

\* internalCloseClient returns: the Once that ran it is done.
FinishClose(t) ==
    /\ ReturnFromClose(t)
    /\ once' = IF Bypasses(t) THEN once ELSE [once EXCEPT ![closeOf[t]] = "done"]

\* MUTANT: a flag instead of sync.Once; a later caller does not wait.
EnterFlag(t) ==
    /\ closePc[t] = "enter"
    /\ \/ /\ once[closeOf[t]] = "idle"
          /\ once' = [once EXCEPT ![closeOf[t]] = "running"]
          /\ closePc' = [closePc EXCEPT ![t] = "close"]
          /\ UNCHANGED <<closeOf, reader>>
       \/ /\ once[closeOf[t]] # "idle"
          /\ ReturnFromClose(t)
          /\ UNCHANGED once
    /\ UNCHANGED <<acceptVars, connections, socket, stopVars,
                   clientDisconnectedChannel, clientMessageChannel, rmVars,
                   received>>

\* closeOnce.Do: the first caller runs, a later one returns when the first
\* is done and waits while it is not.
EnterOnce(t) ==
    /\ closePc[t] = "enter"
    /\ \/ /\ once[closeOf[t]] = "idle"
          /\ once' = [once EXCEPT ![closeOf[t]] = "running"]
          /\ closePc' = [closePc EXCEPT ![t] = "close"]
          /\ UNCHANGED <<closeOf, reader>>
       \/ /\ once[closeOf[t]] = "done"
          /\ ReturnFromClose(t)
          /\ UNCHANGED once
    /\ UNCHANGED <<acceptVars, connections, socket, stopVars,
                   clientDisconnectedChannel, clientMessageChannel, rmVars,
                   received>>

\* connection.Close().
CloseSocket(t) ==
    /\ closePc[t] = "close"
    /\ socket' = [socket EXCEPT ![closeOf[t]] = "closed"]
    /\ closePc' = [closePc EXCEPT ![t] = "unregister"]
    /\ UNCHANGED <<acceptVars, connections, reader, once, closeOf, stopVars,
                   clientDisconnectedChannel, clientMessageChannel, rmVars,
                   received>>

\* MUTANT: the connection is announced whether it was found in the list or not.
UnregisterAlways(t) ==
    /\ closePc[t] = "unregister"
    /\ connections' = connections \ {closeOf[t]}
    /\ closePc' = [closePc EXCEPT ![t] = "notify"]
    /\ UNCHANGED <<acceptVars, socket, reader, closeOf, once, stopVars,
                   clientDisconnectedChannel, clientMessageChannel, rmVars,
                   received>>

\* Under the mutex: remove the connection from the list; a caller that does
\* not find it returns without announcing.
Unregister(t) ==
    /\ closePc[t] = "unregister"
    /\ connections' = connections \ {closeOf[t]}
    /\ \/ /\ closeOf[t] \in connections
          /\ closePc' = [closePc EXCEPT ![t] = "notify"]
          /\ UNCHANGED <<closeOf, once, reader>>
       \/ /\ closeOf[t] \notin connections
          /\ FinishClose(t)
    /\ UNCHANGED <<acceptVars, socket, stopVars, clientDisconnectedChannel,
                   clientMessageChannel, rmVars, received>>

\* The send on ClientDisconnectedChannel blocks while the channel is full.
NotifyDisconnected(t) ==
    /\ closePc[t] = "notify"
    /\ Len(clientDisconnectedChannel) < ConnectionPoolSize
    /\ clientDisconnectedChannel' = Append(clientDisconnectedChannel, closeOf[t])
    /\ FinishClose(t)
    /\ UNCHANGED <<acceptVars, connections, socket, stopVars,
                   clientMessageChannel, rmVars, received>>

-----------------------------------------------------------------------------
(* The room manager goroutine, as seen from here *)

RMTakeMessage ==
    /\ rm = "select"
    /\ clientMessageChannel # <<>>
    /\ clientMessageChannel' = Tail(clientMessageChannel)
    /\ known' = known \cup {Head(clientMessageChannel)}
    /\ rm' = "handling"
    /\ rmCloses' = MaxCloses
    /\ UNCHANGED <<acceptVars, connections, socket, reader, closeVars, stopVars,
                   clientDisconnectedChannel, received>>

RMTakeDisconnected ==
    /\ rm = "select"
    /\ clientDisconnectedChannel # <<>>
    /\ clientDisconnectedChannel' = Tail(clientDisconnectedChannel)
    /\ rm' = "handling"
    /\ rmCloses' = MaxCloses
    /\ UNCHANGED <<acceptVars, connections, socket, reader, closeVars, stopVars,
                   clientMessageChannel, known, received>>

\* A handler calls Close on a connection it has a reference to.
RMClose(c) ==
    /\ rm = "handling"
    /\ c \in known
    /\ rmCloses > 0
    /\ rmCloses' = rmCloses - 1
    /\ CallClose(RMThread, c)
    /\ UNCHANGED <<acceptVars, connections, socket, reader, stopVars,
                   clientDisconnectedChannel, clientMessageChannel, rm, known,
                   received>>

RMHandled ==
    /\ rm = "handling"
    /\ closePc[RMThread] = "none"
    /\ rm' = "select"
    /\ rmCloses' = 0
    /\ UNCHANGED <<acceptVars, connections, socket, reader, closeVars, stopVars,
                   clientDisconnectedChannel, clientMessageChannel, known,
                   received>>

-----------------------------------------------------------------------------
AcceptNext ==
    \/ StartListening \/ StartFails \/ RegisterConnection \/ ListenerFails
    \/ AcceptErrorReturn \/ AcceptErrorContinue
    \/ \E c \in Conns : AcceptConn(c)

StopNext ==
    \/ StopCancel \/ StopSnapshot \/ StopCloseServer \/ StopReturn
    \/ \E c \in Conns : StopClose(c)

ReaderNext(c) ==
    \/ HandshakeOk(c) \/ HandshakeFails(c) \/ HandshakeMismatch(c)
    \/ ReadMessage(c) \/ ReadFails(c) \/ EnqueueMessage(c)

CloseNext(t) ==
    EnterOnce(t) \/ CloseSocket(t) \/ Unregister(t) \/ NotifyDisconnected(t)

RMNext ==
    \/ RMTakeMessage \/ RMTakeDisconnected \/ RMHandled
    \/ \E c \in Conns : RMClose(c)

Next ==
    \/ AcceptNext
    \/ StopNext
    \/ \E c \in Conns : ReaderNext(c) \/ PeerGone(c)
    \/ \E t \in Threads : CloseNext(t)
    \/ RMNext

Spec == Init /\ [][Next]_vars

(***************************************************************************)
(* Fairness: the Go scheduler runs every runnable goroutine.  A closed or  *)
(* broken socket makes a pending read fail and a closed or broken listener *)
(* makes a pending Accept fail; nothing forces a peer to connect, to send  *)
(* or to go, and nobody has to call Stop, but a Stop that began goes on.   *)
(* The room manager receives while there is something to receive (weak     *)
(* fairness is enough, because both channels run dry) and ends each        *)
(* handler.                                                                *)
(***************************************************************************)
Fairness ==
    /\ WF_vars(\/ StartListening \/ RegisterConnection
               \/ AcceptErrorReturn /\ server # "listening")
    /\ WF_vars(StopSnapshot \/ StopCloseServer \/ StopReturn
               \/ \E c \in Conns : StopClose(c))
    /\ \A c \in Conns :
          WF_vars(\/ (HandshakeFails(c) \/ ReadFails(c)) /\ socket[c] # "open"
                  \/ EnqueueMessage(c))
    /\ \A t \in Threads : WF_vars(CloseNext(t))
    /\ WF_vars(RMTakeMessage \/ RMTakeDisconnected \/ RMHandled)

FairSpec == Spec /\ Fairness

-----------------------------------------------------------------------------
(* What the package promises: the refinement mapping and the properties *)

\* Some thread has unregistered c and is about to announce it.
Announcing(c) == \E t \in Threads : closePc[t] = "notify" /\ closeOf[t] = c

\* The abstract life cycle of a connection.
LinkOf(c) ==
    IF reader[c] = "none" THEN "absent"
    ELSE IF c \in connections
         THEN IF socket[c] = "closed" THEN "closing" ELSE socket[c]
         ELSE IF Announcing(c) THEN "closing" ELSE "closed"

CL == INSTANCE ClientLink WITH link <- [c \in Conns |-> LinkOf(c)]

\* Whatever closers race for a connection (its reader, the room manager, Stop,
\* and the version-mismatch path that bypasses closeOnce), each connection is
\* announced at most once, after its socket is closed (internalCloseClient).
ImplementsClientLink == CL!LinkSpec

\* The connections that were registered and whose announcement the room
\* manager has not received.
Unreaped ==
    connections \cup {c \in Conns : Announcing(c)}
                \cup {clientDisconnectedChannel[i] :
                         i \in 1..Len(clientDisconnectedChannel)}

\* internalCloseClient can hang on a full ClientDisconnectedChannel only while
\* more than ConnectionPoolSize connections are unreaped: up to that many
\* clients, the room manager, the only receiver, cannot block on itself.
BlocksOnlyPastPoolSize ==
    (\E t \in Threads : closePc[t] = "notify")
       /\ Len(clientDisconnectedChannel) >= ConnectionPoolSize
    => Cardinality(Unreaped) > ConnectionPoolSize

\* When ClientConnection.Close returns to the room manager, the connection's
\* socket is closed and its announcement has been sent, whoever did it: a
\* closer that lost the race has waited for the winner (sync.Once).
CloseReturnsAnnounced ==
    [][ \A c \in Conns :
          /\ closePc[RMThread] # "none"
          /\ closeOf[RMThread] = c
          /\ closePc'[RMThread] = "none"
          => LinkOf(c)' = "closed" ]_vars

\* The room manager waits for itself: it closes a connection, or waits for one
\* that is being closed, while the channel that only it drains is full.
RMStuck ==
    /\ Len(clientDisconnectedChannel) >= ConnectionPoolSize
    /\ \E t \in Threads :
          /\ closePc[t] = "notify"
          /\ \/ t = RMThread
             \/ closePc[RMThread] = "enter" /\ closeOf[RMThread] = closeOf[t]

\* A connection whose peer is gone is in the end closed and announced, even
\* while its reader waits to hand over a message, others close it, or Stop
\* runs; only a room manager that waits for itself can prevent it.
BrokenIsAnnounced ==
    \A c \in Conns :
        (c \in connections /\ socket[c] = "broken")
        ~> (LinkOf(c) = "closed" \/ RMStuck)

\* A Stop that has begun returns, having waited for every racing close, and so
\* does StartServer, also if the listener had failed for good before.  There
\* are two ways out only: the room manager waits for itself, or Stop ran
\* before the listener was published and left it listening.
StopTerminates ==
    (stopPc = "cancelled")
    ~> \/ stopPc = "done" /\ (acceptor = "returned" \/ server = "listening")
       \/ RMStuck

--------------------------------------------------------------------------------
(* What the comments of StartServer and Stop say and the code does not do; see
   "Further differences" in the README. *)

\* StartServer "blocks until the server is stopped via Stop or the listener
\* fails permanently".
ListenerFailureReturns == (server = "failed") ~> (acceptor = "returned")

\* Stop "closes the listener ..., causing StartServer to return".
StopCausesReturn == (stopPc = "done") ~> (acceptor = "returned")

\* Stop "closes the listener and every registered client connection": when a
\* Stop that closed the listener has returned, and StartServer too, no
\* connection is registered any more.
StopLeavesNoConnection ==
    stopPc = "done" /\ server = "closed" /\ acceptor = "returned"
    => connections = {}
===============================================================================
