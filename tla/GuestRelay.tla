------------------------------ MODULE GuestRelay ------------------------------
(***************************************************************************)
(* The guest's process: the reader of client/transportLayer/client.go,     *)
(* JoinAsGuest (client/controller/guestController.go) with the handshake   *)
(* before it, the local listener of client/adb/proxy.go, the two pumps of  *)
(* client/relay/relay.go, and RunConnect (client/tui/connect.go), which    *)
(* shows the state and shuts everything down.                              *)
(*                                                                         *)
(* Of a message from the transporter only its kind is kept, of those to it *)
(* nothing.  The reader hands a message over on an unbuffered channel, so  *)
(* handing over and receiving are one step, and the channel is closed      *)
(* exactly when the reader has ended.                                      *)
(***************************************************************************)
EXTENDS Naturals, FiniteSets

CONSTANTS Locals,       \* connections the local adb-server makes to the proxy
          MaxMessages,  \* bound: messages the transporter sends, two answers included
          NoLocal

ASSUME MessageBoundAssumption == MaxMessages \in Nat
ASSUME NoLocalAssumption == NoLocal \notin Locals

VARIABLES
    transport,       \* the connection to the transporter: "up", "lost", "closed"
    reader,          \* program counter of startReader
    arrived,         \* number of messages read
    held,            \* kind of the message the reader wants to hand over
    live,            \* containers obtained from the client's pool, not disposed of
    guest,           \* program counter of runGuestFlow and JoinAsGuest
    adbConnected,    \* "adb connect" succeeded, "adb disconnect" is still due
    listening,       \* the proxy's listener is open
    proxyCancelled,  \* the context of the proxy's goroutines
    local,           \* where every local connection is
    current,         \* the connection relay.Run was called with
    relayCancelled,  \* Run's own cancel, for every connection
    l2r, r2l,        \* program counters of the two pumps of every connection
    firstError,      \* the first result on Run's errChannel
    stage,           \* connectModel.stage
    app              \* RunConnect and the Close that follows it

readerVars == <<reader, arrived, held>>
proxyVars  == <<listening, proxyCancelled>>
pumpVars   == <<l2r, r2l, firstError>>
relayVars  == <<current, relayCancelled>>
vars == <<transport, readerVars, live, guest, adbConnected, proxyVars, local,
          relayVars, pumpVars, stage, app>>

TypeOK ==
    /\ transport \in {"up", "lost", "closed"}
    /\ reader \in {"loop", "reading", "holding", "ended"}
    /\ arrived \in 0..MaxMessages
    /\ held \in {"none", "adb", "other"}
    /\ live \in 0..3
    /\ guest \in {"hello", "helloWait", "join", "joinWait", "accepted",
                  "adbConnect", "idle", "relaying", "disconnect", "stop",
                  "stopListener", "returned"}
    /\ adbConnected \in BOOLEAN
    /\ listening \in BOOLEAN
    /\ proxyCancelled \in BOOLEAN
    /\ local \in [Locals -> {"none", "handshake", "ready", "relayed", "gone",
                             "closed"}]
    /\ current \in Locals \cup {NoLocal}
    /\ relayCancelled \in [Locals -> BOOLEAN]
    /\ l2r \in [Locals -> {"none", "loop", "reading", "sending", "ended"}]
    /\ r2l \in [Locals -> {"none", "select", "writing", "ended"}]
    /\ firstError \in [Locals -> {"none", "transportClosed", "other"}]
    /\ stage \in {"connecting", "joiningRoom", "denied", "proxyStarting",
                  "ready", "relaying", "disconnected", "error"}
    /\ app \in {"running", "quitting", "closing", "closed"}

\* tls.Dial has succeeded and the reader is started.
Init ==
    /\ transport = "up"
    /\ reader = "loop"
    /\ arrived = 0
    /\ held = "none"
    /\ live = 0
    /\ guest = "hello"
    /\ adbConnected = FALSE
    /\ listening = FALSE
    /\ proxyCancelled = FALSE
    /\ local = [c \in Locals |-> "none"]
    /\ current = NoLocal
    /\ relayCancelled = [c \in Locals |-> FALSE]
    /\ l2r = [c \in Locals |-> "none"]
    /\ r2l = [c \in Locals |-> "none"]
    /\ firstError = [c \in Locals |-> "none"]
    /\ stage = "connecting"
    /\ app = "running"

\* RunConnect's context is cancelled once the TUI has been quit.
cancelled == app # "running"

\* Client.Close has cancelled the reader's context.
ReaderCancelled == app \in {"closing", "closed"}

\* program.Send: the model is updated while the TUI runs, dropped afterwards.
Show(s) == stage' = IF app = "running" THEN s ELSE stage

-----------------------------------------------------------------------------
(* startReader *)

guestFrame == <<guest, adbConnected, proxyVars, local, relayVars,
                pumpVars, stage, app>>

\* ctx.Err() is checked, then a container is obtained.
ReaderLoops ==
    /\ reader = "loop"
    /\ \/ ReaderCancelled /\ reader' = "ended" /\ UNCHANGED live
       \/ ~ReaderCancelled /\ reader' = "reading" /\ live' = live + 1
    /\ UNCHANGED <<transport, arrived, held, guestFrame>>

\* message.Read succeeds (also with what a lost peer had sent before).  The
\* first two messages answer CNXN and JoinRoom; every other one holds an ADB
\* message or something the relay ignores.
ReaderReads ==
    /\ reader = "reading"
    /\ transport # "closed"
    /\ arrived < MaxMessages
    /\ reader' = "holding"
    /\ arrived' = arrived + 1
    /\ held' \in IF arrived < 2 THEN {"other"} ELSE {"adb", "other"}
    /\ UNCHANGED <<transport, live, guestFrame>>

\* message.Read fails: connection gone or closed, or an invalid message.
ReaderFails ==
    /\ reader = "reading"
    /\ reader' = "ended"
    /\ live' = live - 1
    /\ UNCHANGED <<transport, arrived, held, guestFrame>>

\* MUTANT: a bare send on the channel, without the select on ctx.Done().
ReaderDropsNever ==
    /\ reader = "holding"
    /\ ReaderCancelled
    /\ UNCHANGED vars

\* Nobody has received the message when Close cancels the reader.
ReaderDrops ==
    /\ reader = "holding"
    /\ ReaderCancelled
    /\ reader' = "ended"
    /\ live' = live - 1
    /\ UNCHANGED <<transport, arrived, held, guestFrame>>

\* The other end of the channel: a goroutine receives the message held.
Receive ==
    /\ reader = "holding"
    /\ reader' = "loop"
    /\ held' = "none"
    /\ UNCHANGED arrived

\* A receive finds the channel closed.
ChannelClosed == reader = "ended" /\ UNCHANGED readerVars

-----------------------------------------------------------------------------
(* runGuestFlow: Handshake, then JoinAsGuest up to its loop *)

joinFrame == <<transport, adbConnected, local, relayVars, pumpVars, app>>

\* The flow ends here; unless it was cancelled, s is what the TUI shows.
FlowEnds(s) == guest' = "returned" /\ Show(s)

\* SendConnect and SendJoinRoom; an error is sent to the TUI.
SendRequest ==
    /\ guest \in {"hello", "join"}
    /\ \/ /\ transport # "closed"
          /\ guest' = IF guest = "hello" THEN "helloWait" ELSE "joinWait"
          /\ UNCHANGED stage
       \/ /\ transport # "up"
          /\ FlowEnds("error")
    /\ UNCHANGED <<readerVars, live, proxyVars, joinFrame>>

\* Handshake's answer: a client id, or an error.
HandshakeAnswer ==
    /\ guest = "helloWait"
    /\ Receive
    /\ live' = live - 1
    /\ \/ guest' = "join" /\ Show("joiningRoom")
       \/ FlowEnds("error")
    /\ UNCHANGED <<proxyVars, joinFrame>>

\* Handshake finds the channel closed, which runGuestFlow reports.
HandshakeClosed ==
    /\ guest = "helloWait"
    /\ ChannelClosed
    /\ FlowEnds("error")
    /\ UNCHANGED <<live, proxyVars, joinFrame>>

\* roomJoinStep's answer: accepted, declined, or an error.
JoinAnswer ==
    /\ guest = "joinWait"
    /\ Receive
    /\ live' = live - 1
    /\ \/ guest' = "accepted" /\ Show("proxyStarting")
       \/ FlowEnds("denied")
       \/ FlowEnds("error")
    /\ UNCHANGED <<proxyVars, joinFrame>>

\* roomJoinStep returns ErrTransportClosed without an event, and runGuestFlow
\* takes that error for one the TUI has been told of.
JoinClosed ==
    /\ guest = "joinWait"
    /\ ChannelClosed
    /\ guest' = "returned"
    /\ UNCHANGED <<stage, live, proxyVars, joinFrame>>

\* proxy.Start: the listener and the accept loop, or an error (port in use).
ProxyStart ==
    /\ guest = "accepted"
    /\ \/ guest' = "adbConnect" /\ listening' = TRUE /\ Show("ready")
       \/ FlowEnds("error") /\ UNCHANGED listening
    /\ UNCHANGED <<readerVars, live, proxyCancelled, joinFrame>>

\* smartSocket.Connect succeeds or fails; the guest goes on in either case.
AdbConnect ==
    /\ guest = "adbConnect"
    /\ guest' = "idle"
    /\ adbConnected' \in BOOLEAN
    /\ UNCHANGED <<transport, readerVars, live, proxyVars, local,
                   relayVars, pumpVars, stage, app>>

-----------------------------------------------------------------------------
(* JoinAsGuest's loop *)

idleFrame == <<transport, adbConnected, proxyVars, app>>

\* ctx.Done().
IdleCancelled ==
    /\ guest = "idle"
    /\ cancelled
    /\ guest' = "disconnect"
    /\ UNCHANGED <<idleFrame, readerVars, live, local, relayVars, pumpVars, stage>>

\* MUTANT: the loop waits for a local connection or a cancel only.
IdleIgnoresLoss ==
    /\ guest = "idle"
    /\ ChannelClosed
    /\ UNCHANGED vars

\* The channel is closed: the transporter connection is gone.
IdleLost ==
    /\ guest = "idle"
    /\ ChannelClosed
    /\ guest' = "disconnect"
    /\ Show("disconnected")
    /\ UNCHANGED <<idleFrame, live, local, relayVars, pumpVars>>

\* Anything received while idle is disposed of.
IdleDiscards ==
    /\ guest = "idle"
    /\ Receive
    /\ live' = live - 1
    /\ UNCHANGED <<idleFrame, guest, local, relayVars, pumpVars, stage>>

\* The proxy hands a local connection over; relay.Run starts both pumps.
IdleConnection(c) ==
    /\ guest = "idle"
    /\ local[c] = "ready"
    /\ local' = [local EXCEPT ![c] = "relayed"]
    /\ guest' = "relaying"
    /\ current' = c
    /\ l2r' = [l2r EXCEPT ![c] = "loop"]
    /\ r2l' = [r2l EXCEPT ![c] = "select"]
    /\ Show("relaying")
    /\ UNCHANGED <<idleFrame, readerVars, live, relayCancelled,
                   firstError>>

\* The deferred "adb disconnect", if "adb connect" had succeeded, is tried ...
AdbDisconnect ==
    /\ guest = "disconnect"
    /\ guest' = "stop"
    /\ adbConnected' = FALSE
    /\ UNCHANGED <<transport, readerVars, live, proxyVars, local,
                   relayVars, pumpVars, stage, app>>

\* ... and proxy.Stop cancels its goroutines and closes the listener.
ProxyStop ==
    /\ \/ /\ guest = "stop" /\ guest' = "stopListener"
          /\ proxyCancelled' = TRUE /\ UNCHANGED listening
       \/ /\ guest = "stopListener" /\ guest' = "returned"
          /\ listening' = FALSE /\ UNCHANGED proxyCancelled
    /\ UNCHANGED <<joinFrame, readerVars, live, stage>>

-----------------------------------------------------------------------------
(* relay.Run for connection c *)

relayFrame == <<transport, guest, adbConnected, proxyVars, stage, app>>

\* The context the pumps of c look at.
RelayDone(c) == relayCancelled[c] \/ cancelled

\* A pump sends its result on errChannel, which has room for both.
Result(c, e) ==
    firstError' = [firstError EXCEPT ![c] = IF @ = "none" THEN e ELSE @]

\* The first result arrives: cancel and close the connection.
RunStops(c) ==
    /\ guest = "relaying" /\ current = c
    /\ firstError[c] # "none"
    /\ ~relayCancelled[c]
    /\ relayCancelled' = [relayCancelled EXCEPT ![c] = TRUE]
    /\ local' = [local EXCEPT ![c] = "closed"]
    /\ UNCHANGED <<relayFrame, readerVars, live, current, pumpVars>>

\* JoinAsGuest goes on after Run: GuestRelayStopped, then, if Run ended with
\* ErrTransportClosed, GuestTransportLost.
AfterRun(c) ==
    /\ current' = NoLocal
    /\ \/ /\ firstError[c] = "transportClosed"
          /\ guest' = "disconnect"
          /\ Show("disconnected")
       \/ /\ firstError[c] = "other"
          /\ guest' = "idle"
          /\ Show("ready")
    /\ UNCHANGED <<transport, readerVars, live, adbConnected, proxyVars, local,
                   relayCancelled, pumpVars, app>>

\* MUTANT: Run returns without waiting for its second pump.
RunReturnsEarly(c) ==
    /\ guest = "relaying" /\ current = c
    /\ relayCancelled[c]
    /\ AfterRun(c)

\* MUTANT: the two events after Run in the other order.
RunReturnsSwapped(c) ==
    /\ guest = "relaying" /\ current = c
    /\ relayCancelled[c]
    /\ l2r[c] = "ended" /\ r2l[c] = "ended"
    /\ current' = NoLocal
    /\ guest' = IF firstError[c] = "transportClosed" THEN "disconnect" ELSE "idle"
    /\ Show("ready")
    /\ UNCHANGED <<transport, readerVars, live, adbConnected, proxyVars, local,
                   relayCancelled, pumpVars, app>>

\* The second result arrives as well: Run returns the first one.
RunReturns(c) ==
    /\ guest = "relaying" /\ current = c
    /\ relayCancelled[c]
    /\ l2r[c] = "ended" /\ r2l[c] = "ended"
    /\ AfterRun(c)

\* pumpLocalToRemote checks the context ...
L2RLoops(c) ==
    /\ l2r[c] = "loop"
    /\ \/ ~RelayDone(c) /\ l2r' = [l2r EXCEPT ![c] = "reading"] /\ UNCHANGED firstError
       \/ RelayDone(c) /\ l2r' = [l2r EXCEPT ![c] = "ended"] /\ Result(c, "other")
    /\ UNCHANGED <<relayFrame, readerVars, live, local, relayVars, r2l>>

\* ... reads a message from the local connection, for which SendAdbMessage
\* obtains a container ...
L2RReads(c) ==
    /\ l2r[c] = "reading"
    /\ local[c] \in {"relayed", "gone"}
    /\ l2r' = [l2r EXCEPT ![c] = "sending"]
    /\ live' = live + 1
    /\ UNCHANGED <<relayFrame, readerVars, local, relayVars, r2l,
                   firstError>>

\* ... or fails to (connection closed by either side, invalid message) ...
L2RReadFails(c) ==
    /\ l2r[c] = "reading"
    /\ l2r' = [l2r EXCEPT ![c] = "ended"]
    /\ Result(c, "other")
    /\ UNCHANGED <<relayFrame, readerVars, live, local, relayVars, r2l>>

\* ... and writes it to the transporter, which blocks while that does not read.
L2RSends(c) ==
    /\ l2r[c] = "sending"
    /\ \/ /\ transport # "closed"
          /\ l2r' = [l2r EXCEPT ![c] = "loop"]
          /\ UNCHANGED firstError
       \/ /\ transport # "up"
          /\ l2r' = [l2r EXCEPT ![c] = "ended"]
          /\ Result(c, "other")
    /\ live' = live - 1
    /\ UNCHANGED <<relayFrame, readerVars, local, relayVars, r2l>>

\* pumpRemoteToLocal's select: the context, ...
R2LDone(c) ==
    /\ r2l[c] = "select"
    /\ RelayDone(c)
    /\ r2l' = [r2l EXCEPT ![c] = "ended"]
    /\ Result(c, "other")
    /\ UNCHANGED <<relayFrame, readerVars, live, local, relayVars, l2r>>

\* ... the closed channel, ...
R2LClosed(c) ==
    /\ r2l[c] = "select"
    /\ ChannelClosed
    /\ r2l' = [r2l EXCEPT ![c] = "ended"]
    /\ Result(c, "transportClosed")
    /\ UNCHANGED <<relayFrame, live, local, relayVars, l2r>>

\* ... or a message, also if the context is done: one to be ignored ...
R2LIgnores(c) ==
    /\ r2l[c] = "select"
    /\ Receive
    /\ held = "other"
    /\ live' = live - 1
    /\ UNCHANGED <<relayFrame, local, relayVars, pumpVars>>

\* ... or one with an ADB message, which handleIncoming writes.
R2LTakes(c) ==
    /\ r2l[c] = "select"
    /\ Receive
    /\ held = "adb"
    /\ r2l' = [r2l EXCEPT ![c] = "writing"]
    /\ UNCHANGED <<relayFrame, live, local, relayVars, l2r, firstError>>

\* The container is disposed of only after the write.
R2LWrites(c) ==
    /\ r2l[c] = "writing"
    /\ local[c] \in {"relayed", "gone"}
    /\ r2l' = [r2l EXCEPT ![c] = "select"]
    /\ live' = live - 1
    /\ UNCHANGED <<relayFrame, readerVars, local, relayVars, l2r, firstError>>

\* MUTANT: the container is forgotten when the write fails.
R2LWriteFailsLeaks(c) ==
    /\ r2l[c] = "writing"
    /\ local[c] \in {"gone", "closed"}
    /\ r2l' = [r2l EXCEPT ![c] = "ended"]
    /\ Result(c, "other")
    /\ UNCHANGED <<relayFrame, readerVars, live, local, relayVars, l2r>>

R2LWriteFails(c) ==
    /\ r2l[c] = "writing"
    /\ local[c] \in {"gone", "closed"}
    /\ r2l' = [r2l EXCEPT ![c] = "ended"]
    /\ Result(c, "other")
    /\ live' = live - 1
    /\ UNCHANGED <<relayFrame, readerVars, local, relayVars, l2r>>

-----------------------------------------------------------------------------
(* AdbProxy: one goroutine per local connection *)

proxyFrame == <<transport, readerVars, live, guest, adbConnected, proxyVars,
                relayVars, pumpVars, stage, app>>

\* listener.Accept returns a connection; handleConnection is started.
LocalConnects(c) ==
    /\ listening
    /\ local[c] = "none"
    /\ local' = [local EXCEPT ![c] = "handshake"]
    /\ UNCHANGED proxyFrame

\* The CNXN is read and answered; the hand-over blocks from now on ...
LocalHandshake(c) ==
    /\ local[c] = "handshake"
    /\ local' = [local EXCEPT ![c] = "ready"]
    /\ UNCHANGED proxyFrame

\* ... or something else was read, or reading or writing failed.
LocalHandshakeFails(c) ==
    /\ local[c] = "handshake"
    /\ local' = [local EXCEPT ![c] = "closed"]
    /\ UNCHANGED proxyFrame

\* The proxy was stopped before anybody took the connection.
HandOverCancelled(c) ==
    /\ local[c] = "ready"
    /\ proxyCancelled
    /\ local' = [local EXCEPT ![c] = "closed"]
    /\ UNCHANGED proxyFrame

-----------------------------------------------------------------------------
(* RunConnect and ParseCommand's deferred Close; the outside world *)

appFrame == <<readerVars, live, guest, adbConnected, proxyVars, local,
              relayVars, pumpVars, stage>>

\* The user presses q: program.Run returns and RunConnect cancels the flow.
Quit ==
    /\ app = "running"
    /\ app' = "quitting"
    /\ UNCHANGED <<appFrame, transport>>

\* MUTANT: RunConnect does not wait for guestFlowDone.
RunConnectHurries ==
    /\ app = "quitting"
    /\ app' = "closing"
    /\ UNCHANGED <<appFrame, transport>>

\* guestFlowDone is closed: RunConnect returns, Client.Close cancels the reader ...
RunConnectReturns ==
    /\ app = "quitting"
    /\ guest = "returned"
    /\ app' = "closing"
    /\ UNCHANGED <<appFrame, transport>>

\* ... and closes the connection.
CloseConnection ==
    /\ app = "closing"
    /\ app' = "closed"
    /\ transport' = "closed"
    /\ UNCHANGED <<appFrame>>

\* The transporter, or the network, ends the connection.
TransportLost ==
    /\ transport = "up"
    /\ transport' = "lost"
    /\ UNCHANGED <<appFrame, app>>

\* The local adb-server closes its end of a connection being relayed; before
\* that it shows as a failed handshake or a failed first read.
LocalGoes(c) ==
    /\ local[c] = "relayed"
    /\ local' = [local EXCEPT ![c] = "gone"]
    /\ UNCHANGED proxyFrame

-----------------------------------------------------------------------------
ReaderNext == ReaderLoops \/ ReaderReads \/ ReaderFails \/ ReaderDrops

FlowNext ==
    \/ SendRequest \/ HandshakeAnswer \/ HandshakeClosed \/ JoinAnswer
    \/ JoinClosed \/ ProxyStart \/ AdbConnect \/ AdbDisconnect \/ ProxyStop
    \/ IdleCancelled \/ IdleLost \/ IdleDiscards
    \/ \E c \in Locals : IdleConnection(c) \/ RunStops(c) \/ RunReturns(c)

L2RNext(c) == L2RLoops(c) \/ L2RReads(c) \/ L2RReadFails(c) \/ L2RSends(c)

R2LNext(c) ==
    \/ R2LDone(c) \/ R2LClosed(c) \/ R2LIgnores(c) \/ R2LTakes(c)
    \/ R2LWrites(c) \/ R2LWriteFails(c)

ProxyNext(c) ==
    \/ LocalConnects(c) \/ LocalHandshake(c) \/ LocalHandshakeFails(c)
    \/ HandOverCancelled(c) \/ LocalGoes(c)

Next ==
    \/ ReaderNext
    \/ FlowNext
    \/ \E c \in Locals : L2RNext(c) \/ R2LNext(c) \/ ProxyNext(c)
    \/ Quit \/ RunConnectReturns \/ CloseConnection \/ TransportLost

Spec == Init /\ [][Next]_vars

(***************************************************************************)
(* Fairness: goroutines run when they can (weak fairness is enough for the *)
(* selects too, because messages and local connections run out).  A read   *)
(* or a write on a connection that is lost or closed returns; "adb         *)
(* connect" and "adb disconnect" get an answer.  Nothing makes the         *)
(* transporter send, answer or read, the local adb-server write, read or   *)
(* leave, or the user quit: a send and a local write may block for ever.   *)
(***************************************************************************)
Fairness ==
    /\ WF_vars(ReaderLoops \/ ReaderDrops \/ (ReaderFails /\ transport # "up"))
    /\ WF_vars(FlowNext)
    /\ \A c \in Locals :
          /\ WF_vars(\/ L2RLoops(c)
                     \/ L2RReadFails(c) /\ local[c] \in {"gone", "closed"}
                     \/ L2RSends(c) /\ transport # "up")
          /\ WF_vars(R2LDone(c) \/ R2LClosed(c) \/ R2LIgnores(c) \/ R2LTakes(c)
                     \/ R2LWriteFails(c))
          /\ WF_vars(HandOverCancelled(c))
    /\ WF_vars(RunConnectReturns \/ CloseConnection)

FairSpec == Spec /\ Fairness

-----------------------------------------------------------------------------
(* Properties *)

\* An ADB message is taken by the pump of the connection that is being relayed
\* and by nobody else: a pump left over from an earlier relay would swallow
\* messages of the next one (Run waits for both pumps before it returns).
TakenByCurrentRelay ==
    [][ \A c \in Locals :
          r2l[c] = "select" /\ r2l'[c] = "writing" => current = c ]_vars

\* Every container of the client's pool is in the hands of exactly one of the
\* goroutines that must dispose of it: the reader, a pump that writes, a
\* pump that sends (startReader, handleIncoming, withMessage).
ContainersAccountedFor ==
    live = (IF reader \in {"reading", "holding"} THEN 1 ELSE 0)
           + Cardinality({c \in Locals : r2l[c] = "writing"})
           + Cardinality({c \in Locals : l2r[c] = "sending"})

\* RunConnect "does not return until the background guest flow (including its
\* adb disconnect cleanup) has fully stopped": then no pump runs, no relayed
\* connection is open, nothing listens, and adb was told to disconnect.
CleanedUpBeforeClose ==
    app \in {"closing", "closed"} =>
        /\ ~adbConnected /\ ~listening
        /\ \A c \in Locals :
              /\ local[c] \notin {"relayed", "gone"}
              /\ l2r[c] \in {"none", "ended"} /\ r2l[c] \in {"none", "ended"}

FinalStages == {"denied", "disconnected", "error"}

\* When the guest flow has ended by itself the TUI says why, except when the
\* connection was lost while the join request was undecided.
EndIsShownOnceJoined ==
    guest = "returned" /\ app = "running"
    => stage \in FinalStages \/ (stage = "joiningRoom" /\ reader = "ended")

\* The local adb-server keeps a connection's write, or the transporter a send,
\* blocked for ever.
LocalNeverReads == \E c \in Locals : <>[](r2l[c] = "writing")
TransporterNeverReads == \E c \in Locals : <>[](l2r[c] = "sending")

\* A lost transporter connection ends the guest wherever it is, idle, in a
\* relay whatever pump notices first, or in between; nothing but a local
\* adb-server that does not read can keep it, as long as that server answers
\* connect and disconnect (Fairness; executeCommand has no deadline either).
LossEndsGuest ==
    LocalNeverReads \/ (transport = "lost" ~> guest = "returned")

\* After q, once the guest has joined, everything is shut down: the flow ends,
\* the reader ends even if it holds a message nobody takes, every container is
\* disposed of, and no local connection is left waiting for its hand-over;
\* nothing but a peer that does not read can prevent it, again as long as the
\* local adb-server answers disconnect.
QuitEnds ==
    \/ LocalNeverReads
    \/ TransporterNeverReads
    \/ (app = "quitting" /\ guest \notin {"hello", "helloWait", "join", "joinWait"})
       ~> /\ app = "closed" /\ reader = "ended" /\ live = 0
          /\ \A c \in Locals : local[c] # "ready"

-----------------------------------------------------------------------------
(* What comments say and the code does not do; see the README. *)

\* runGuestFlow on ErrTransportClosed: "Already reflected via a
\* GuestTransportLost event."
EndIsShown == guest = "returned" /\ app = "running" => stage \in FinalStages

\* JoinAsGuest relays "until ctx is cancelled": a cancel always ends it.
CancelEndsGuest ==
    LocalNeverReads \/ TransporterNeverReads \/ (cancelled ~> guest = "returned")
===============================================================================
