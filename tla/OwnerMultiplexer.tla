--------------------------- MODULE OwnerMultiplexer ---------------------------
(***************************************************************************)
(* client/relay/owner.go with the part of client/controller/               *)
(* ownerController.go that drives it.  The dispatch goroutine consumes the *)
(* guest's ADB messages, the join requests and CommandGuestLeft; each      *)
(* stream has a pump goroutine that reads the device; both may close a     *)
(* stream (closeOnce); every join request has a goroutine that answers it  *)
(* whenever the operator has decided.  The room is the one of roomManager: *)
(* it has one place for a guest, forwards to whoever has the place, from   *)
(* the request on, and an answer names no guest.  The guest's process is   *)
(* JoinAsGuest: it waits for the answer, then relays local connections one *)
(* after the other and discards what arrives in between.                   *)
(*                                                                         *)
(* External parts, modelled from how the code uses them: the guest's adb   *)
(* (it acknowledges every WRTE of a stream it has open, sends a WRTE only  *)
(* after the previous one was acknowledged, does not use a stream id twice *)
(* and matches messages by both ids) and the local adb-server (it may end  *)
(* a service, answer an OPEN late or never, and stop reading).             *)
(*                                                                         *)
(* A send and its forwarding by the transporter are one step, taken when   *)
(* the transporter forwards: a connection is FIFO in each direction, so a  *)
(* message that waits on its way is a sender that is slow.  A guest that   *)
(* has lost its place can no longer reach the owner and is left out.       *)
(***************************************************************************)
EXTENDS Naturals, Sequences, FiniteSets

CONSTANTS GuestIds,     \* ids a guest's adb gives its streams
          MaxStreams,   \* bound: streams the owner opens in all
          MaxSessions,  \* bound: guests that ask to join the room
          MaxWrites,    \* bound: WRTEs the guests send in all
          Dispatcher    \* the goroutine of JoinAsRoomOwner

ASSUME StreamBoundAssumption ==
    MaxStreams \in Nat /\ MaxSessions \in Nat /\ MaxWrites \in Nat
ASSUME DispatcherAssumption == Dispatcher \notin 1..MaxStreams

Ids == 1..MaxStreams
Threads == Ids \cup {Dispatcher}

VARIABLES
    transport,   \* the owner's transporter connection works
    nextId,      \* m.nextId
    streams,     \* keys of m.streams
    guestOf,     \* ownerStream.guestId
    permit,      \* is the token in sendPermit?
    device,      \* the stream's connection to the local adb-server
    once,        \* closeOnce; once it is not "idle", done is closed
    pump,        \* program counter of pumpDeviceToGuest
    disp,        \* program counter of the dispatch goroutine
    current,     \* the message it handles
    toCloseAll,  \* the streams closeAllStreams has still to close
    closePc, closeOf, closeNotify, \* every thread's closeStream call
    toOwner, toGuest, \* messages under way
    stage,       \* the guest that has the room's place, "none" if it is free
    guest,       \* the guest adb's streams: state, peer id, may it write?
    session,     \* number of guests that got the place so far
    asks,        \* join requests (by session) handleJoinRequest has to answer
    heard,       \* history: the last session whose request was received
    own,         \* history: the answer about itself let the guest in
    astray,      \* history: an answer reached another guest than it is about
    born,        \* history: the session that opened each stream
    clses,       \* history: number of CLSEs sent for each stream
    writes       \* number of WRTEs guests have sent

closeVars == <<closePc, closeOf, closeNotify>>
dispVars  == <<disp, current, toCloseAll>>
joinVars  == <<asks, heard, own, astray>>
guestVars == <<stage, guest, session, writes, joinVars>>
vars == <<transport, nextId, streams, guestOf, permit, device, once, pump,
          dispVars, closeVars, toOwner, toGuest, guestVars, born, clses>>

Msg(cmd, arg1, arg2) == [cmd |-> cmd, arg1 |-> arg1, arg2 |-> arg2]
GuestLeftMsg == Msg("GuestLeft", 0, 0)
JoinRequest(s) == Msg("JoinRequest", s, 0)
Accepted(s) == Msg("Accepted", s, 0)  \* it does not really say whom it is about
GuestMsgs == [cmd : {"OPEN", "WRTE", "OKAY", "CLSE", "GuestLeft"},
              arg1 : GuestIds \cup {0}, arg2 : Ids \cup {0}]
             \cup {JoinRequest(s) : s \in 1..MaxSessions}
OwnerMsgs == [cmd : {"WRTE", "OKAY", "CLSE"}, arg1 : Ids \cup {0}, arg2 : GuestIds]
             \cup {Accepted(s) : s \in 1..MaxSessions}

NoStream == [state |-> "none", peer |-> 0, ready |-> FALSE]
NoStreams == [g \in GuestIds |-> NoStream]

StreamTypeOK ==
    /\ transport \in BOOLEAN
    /\ nextId \in 0..MaxStreams
    /\ streams \in SUBSET Ids
    /\ guestOf \in [Ids -> GuestIds \cup {0}]
    /\ permit \in [Ids -> BOOLEAN]
    /\ device \in [Ids -> {"none", "open", "ended", "closed"}]
    /\ once \in [Ids -> {"idle", "running", "done"}]
    /\ pump \in [Ids -> {"none", "reading", "data", "lastdata", "sending",
                         "lastsending", "closing", "exited"}]
    /\ born \in [Ids -> 0..MaxSessions]
    /\ clses \in [Ids -> Nat]

DispTypeOK ==
    /\ disp \in {"idle", "open", "write", "ack", "closing", "closingAll",
                 "leaving", "returned"}
    /\ current \in GuestMsgs
    /\ toCloseAll \in SUBSET Ids
    /\ closePc \in [Threads -> {"none", "enter", "unregister", "notify"}]
    /\ closeOf \in [Threads -> Ids \cup {0}]
    /\ closeNotify \in [Threads -> BOOLEAN]

GuestTypeOK ==
    /\ toOwner \in Seq(GuestMsgs)
    /\ toGuest \in Seq(OwnerMsgs)
    /\ stage \in {"none", "waiting", "idle", "relaying", "gone"}
    /\ guest \in [GuestIds -> [state : {"none", "opening", "open", "closed"},
                               peer : Ids \cup {0}, ready : BOOLEAN]]
    /\ session \in 0..MaxSessions
    /\ asks \in SUBSET (1..MaxSessions)
    /\ heard \in 0..MaxSessions
    /\ own \in BOOLEAN
    /\ astray \in BOOLEAN
    /\ writes \in 0..MaxWrites

TypeOK == StreamTypeOK /\ DispTypeOK /\ GuestTypeOK

Init ==
    /\ transport = TRUE
    /\ nextId = 0
    /\ streams = {}
    /\ guestOf = [i \in Ids |-> 0]
    /\ permit = [i \in Ids |-> FALSE]
    /\ device = [i \in Ids |-> "none"]
    /\ once = [i \in Ids |-> "idle"]
    /\ pump = [i \in Ids |-> "none"]
    /\ disp = "idle"
    /\ current = GuestLeftMsg
    /\ toCloseAll = {}
    /\ closePc = [t \in Threads |-> "none"]
    /\ closeOf = [t \in Threads |-> 0]
    /\ closeNotify = [t \in Threads |-> FALSE]
    /\ toOwner = <<>>
    /\ toGuest = <<>>
    /\ stage = "none"
    /\ guest = NoStreams
    /\ session = 0
    /\ asks = {}
    /\ heard = 0
    /\ own = FALSE
    /\ astray = FALSE
    /\ born = [i \in Ids |-> 0]
    /\ clses = [i \in Ids |-> 0]
    /\ writes = 0

\* SendAdbMessage succeeded: the message goes to whoever has the place.
Sent(m) == toGuest' = IF stage \in {"none", "gone"} THEN toGuest ELSE Append(toGuest, m)
\* ... or it failed, which it does only when the connection is gone.
SendFailed == ~transport /\ UNCHANGED toGuest

-----------------------------------------------------------------------------
(* closeStream, by the dispatcher or by the stream's pump *)

\* Thread t calls closeStream(i, notify).
CallClose(t, i, notify) ==
    /\ closePc' = [closePc EXCEPT ![t] = "enter"]
    /\ closeOf' = [closeOf EXCEPT ![t] = i]
    /\ closeNotify' = [closeNotify EXCEPT ![t] = notify]

\* t's call returns: a pump ends, the dispatcher goes on.
ReturnFromClose(t) ==
    /\ closePc' = [closePc EXCEPT ![t] = "none"]
    /\ pump' = IF t = Dispatcher THEN pump ELSE [pump EXCEPT ![t] = "exited"]
    /\ disp' = IF t = Dispatcher /\ disp = "closing" THEN "idle" ELSE disp

\* MUTANT: closeStream without closeOnce.
CloseEnterTwice(t) ==
    /\ closePc[t] = "enter"
    /\ once' = [once EXCEPT ![closeOf[t]] = "running"]
    /\ device' = [device EXCEPT ![closeOf[t]] = "closed"]
    /\ closePc' = [closePc EXCEPT ![t] = "unregister"]
    /\ UNCHANGED <<transport, nextId, streams, guestOf, permit, pump, dispVars,
                   closeOf, closeNotify, toOwner, toGuest, guestVars, born, clses>>

\* closeOnce.Do: the first caller closes done and the device connection.
CloseEnter(t) ==
    /\ closePc[t] = "enter"
    /\ LET i == closeOf[t] IN
       \/ /\ once[i] = "idle"
          /\ once' = [once EXCEPT ![i] = "running"]
          /\ device' = [device EXCEPT ![i] = "closed"]
          /\ closePc' = [closePc EXCEPT ![t] = "unregister"]
          /\ UNCHANGED <<pump, disp>>
       \/ /\ once[i] = "done"
          /\ ReturnFromClose(t)
          /\ UNCHANGED <<once, device>>
    /\ UNCHANGED <<transport, nextId, streams, guestOf, permit, current,
                   toCloseAll, closeOf, closeNotify, toOwner, toGuest,
                   guestVars, born, clses>>

\* Under m.mu: delete the stream from the map.
CloseUnregister(t) ==
    /\ closePc[t] = "unregister"
    /\ streams' = streams \ {closeOf[t]}
    /\ \/ /\ closeNotify[t]
          /\ closePc' = [closePc EXCEPT ![t] = "notify"]
          /\ UNCHANGED <<once, pump, disp>>
       \/ /\ ~closeNotify[t]
          /\ once' = [once EXCEPT ![closeOf[t]] = "done"]
          /\ ReturnFromClose(t)
    /\ UNCHANGED <<transport, nextId, guestOf, permit, device, current,
                   toCloseAll, closeOf, closeNotify, toOwner, toGuest,
                   guestVars, born, clses>>

\* sendClose; a failure is only logged.
CloseNotifyGuest(t) ==
    /\ closePc[t] = "notify"
    /\ LET i == closeOf[t] IN
       /\ \/ /\ Sent(Msg("CLSE", i, guestOf[i]))
             /\ clses' = [clses EXCEPT ![i] = @ + 1]
          \/ SendFailed /\ UNCHANGED clses
       /\ once' = [once EXCEPT ![i] = "done"]
    /\ ReturnFromClose(t)
    /\ UNCHANGED <<transport, nextId, streams, guestOf, permit, device, current,
                   toCloseAll, closeOf, closeNotify, toOwner, guestVars, born>>

-----------------------------------------------------------------------------
(* pumpDeviceToGuest *)

\* What a pump step leaves alone unless it calls closeStream.
pumpFrame == <<transport, nextId, streams, guestOf, device, once, dispVars,
               toOwner, guestVars, born, clses>>

\* conn.Read returns data, possibly together with the error that ends it.
PumpReads(i) ==
    /\ pump[i] = "reading"
    /\ \/ /\ device[i] \in {"open", "ended"}
          /\ pump' = [pump EXCEPT ![i] = "data"]
       \/ /\ device[i] = "ended"
          /\ pump' = [pump EXCEPT ![i] = "lastdata"]
    /\ UNCHANGED <<pumpFrame, permit, closeVars, toGuest>>

\* MUTANT: the guest is not told that the device has ended the service.
PumpReadFailsSilently(i) ==
    /\ pump[i] = "reading"
    /\ device[i] \in {"ended", "closed"}
    /\ pump' = [pump EXCEPT ![i] = "closing"]
    /\ CallClose(i, i, FALSE)
    /\ UNCHANGED <<pumpFrame, permit, toGuest>>

\* conn.Read fails without data: the device ended or the stream was closed.
PumpReadFails(i) ==
    /\ pump[i] = "reading"
    /\ device[i] \in {"ended", "closed"}
    /\ pump' = [pump EXCEPT ![i] = "closing"]
    /\ CallClose(i, i, TRUE)
    /\ UNCHANGED <<pumpFrame, permit, toGuest>>

\* MUTANT: the token is looked at, not taken.
PumpSeesPermit(i) ==
    /\ pump[i] \in {"data", "lastdata"}
    /\ permit[i]
    /\ pump' = [pump EXCEPT ![i] = IF @ = "data" THEN "sending" ELSE "lastsending"]
    /\ UNCHANGED <<pumpFrame, permit, closeVars, toGuest>>

\* select: the token ...
PumpTakesPermit(i) ==
    /\ pump[i] \in {"data", "lastdata"}
    /\ permit[i]
    /\ permit' = [permit EXCEPT ![i] = FALSE]
    /\ pump' = [pump EXCEPT ![i] = IF @ = "data" THEN "sending" ELSE "lastsending"]
    /\ UNCHANGED <<pumpFrame, closeVars, toGuest>>

\* MUTANT: done is checked only once the token is there.
PumpSeesDoneLate(i) ==
    /\ pump[i] \in {"data", "lastdata"}
    /\ permit[i]
    /\ once[i] # "idle"
    /\ pump' = [pump EXCEPT ![i] = "exited"]
    /\ UNCHANGED <<pumpFrame, permit, closeVars, toGuest>>

\* ... or done, whichever is ready (either, if both are).
PumpSeesDone(i) ==
    /\ pump[i] \in {"data", "lastdata"}
    /\ once[i] # "idle"
    /\ pump' = [pump EXCEPT ![i] = "exited"]
    /\ UNCHANGED <<pumpFrame, permit, closeVars, toGuest>>

\* sendWrite, and closeStream after the last data.
PumpSends(i) ==
    /\ pump[i] \in {"sending", "lastsending"}
    /\ Sent(Msg("WRTE", i, guestOf[i]))
    /\ \/ /\ pump[i] = "sending"
          /\ pump' = [pump EXCEPT ![i] = "reading"]
          /\ UNCHANGED closeVars
       \/ /\ pump[i] = "lastsending"
          /\ pump' = [pump EXCEPT ![i] = "closing"]
          /\ CallClose(i, i, TRUE)
    /\ UNCHANGED <<pumpFrame, permit>>

PumpSendFails(i) ==
    /\ pump[i] \in {"sending", "lastsending"}
    /\ SendFailed
    /\ pump' = [pump EXCEPT ![i] = "closing"]
    /\ CallClose(i, i, FALSE)
    /\ UNCHANGED <<pumpFrame, permit>>

-----------------------------------------------------------------------------
(* The dispatch goroutine *)

\* It receives the next message when it is idle.
Receives(cmd) ==
    /\ disp = "idle"
    /\ toOwner # <<>>
    /\ Head(toOwner).cmd = cmd
    /\ toOwner' = Tail(toOwner)
    /\ current' = Head(toOwner)

\* CommandJoinRoom: a goroutine of its own asks the operator.
dispatchJoinRoom ==
    /\ Receives("JoinRequest")
    /\ asks' = asks \cup {current'.arg1}
    /\ heard' = current'.arg1
    /\ UNCHANGED <<transport, nextId, streams, guestOf, permit, device, once, pump,
                   disp, toCloseAll, closeVars, toGuest, stage, guest, session,
                   writes, own, astray, born, clses>>

\* handleOpen: the dispatcher calls OpenStream, which has no deadline ...
handleOpen ==
    /\ Receives("OPEN")
    /\ disp' = "open"
    /\ UNCHANGED <<transport, nextId, streams, guestOf, permit, device, once, pump,
                   toCloseAll, closeVars, toGuest, guestVars, born, clses>>

\* ... the local adb-server refuses the service (or cannot be reached) ...
OpenStreamRefused ==
    /\ disp = "open"
    /\ disp' = "idle"
    /\ Sent(Msg("CLSE", 0, current.arg1)) \/ SendFailed
    /\ UNCHANGED <<transport, nextId, streams, guestOf, permit, device, once, pump,
                   current, toCloseAll, closeVars, toOwner, guestVars, born, clses>>

\* MUTANT: an OPEN for a guest id seen before gets the stream it had then.
OpenStreamRemembers ==
    /\ disp = "open"
    /\ disp' = "idle"
    /\ \/ /\ \E i \in 1..nextId :
                guestOf[i] = current.arg1 /\ Sent(Msg("OKAY", i, current.arg1))
          /\ UNCHANGED <<nextId, guestOf, permit, device, streams, born, pump>>
       \/ /\ nextId < MaxStreams
          /\ \A i \in 1..nextId : guestOf[i] # current.arg1
          /\ nextId' = nextId + 1
          /\ guestOf' = [guestOf EXCEPT ![nextId'] = current.arg1]
          /\ permit' = [permit EXCEPT ![nextId'] = TRUE]
          /\ device' = [device EXCEPT ![nextId'] = "open"]
          /\ streams' = streams \cup {nextId'}
          /\ born' = [born EXCEPT ![nextId'] = heard]
          /\ Sent(Msg("OKAY", nextId', current.arg1))
          /\ pump' = [pump EXCEPT ![nextId'] = "reading"]
    /\ UNCHANGED <<transport, once, current, toCloseAll, closeVars, toOwner,
                   guestVars, clses>>

\* ... or accepts it: allocate the next id, register, acknowledge, and start the
\* pump, or close again if the acknowledgement cannot be sent.
OpenStreamAccepted ==
    /\ disp = "open"
    /\ nextId < MaxStreams
    /\ nextId' = nextId + 1
    /\ LET i == nextId + 1 IN
       /\ guestOf' = [guestOf EXCEPT ![i] = current.arg1]
       /\ permit' = [permit EXCEPT ![i] = TRUE]
       /\ device' = [device EXCEPT ![i] = "open"]
       /\ streams' = streams \cup {i}
       /\ born' = [born EXCEPT ![i] = heard]
       /\ \/ /\ Sent(Msg("OKAY", i, current.arg1))
             /\ pump' = [pump EXCEPT ![i] = "reading"]
             /\ disp' = "idle"
             /\ UNCHANGED closeVars
          \/ /\ SendFailed
             /\ CallClose(Dispatcher, i, FALSE)
             /\ disp' = "closing"
             /\ UNCHANGED pump
    /\ UNCHANGED <<transport, once, current, toCloseAll, toOwner, guestVars, clses>>

\* handleWrite: look the stream up ...
handleWrite ==
    /\ Receives("WRTE")
    /\ disp' = IF current'.arg2 \in streams THEN "write" ELSE "idle"
    /\ UNCHANGED <<transport, nextId, streams, guestOf, permit, device, once,
                   pump, toCloseAll, closeVars, toGuest, guestVars, born, clses>>

\* ... write to the device, which another goroutine may have closed since, and
\* which returns as long as the service is up only when it has read enough ...
handleWriteDevice ==
    /\ disp = "write"
    /\ LET i == current.arg2 IN
       \/ /\ device[i] \in {"open", "ended"}
          /\ disp' = "ack"
          /\ UNCHANGED closeVars
       \/ /\ device[i] \in {"ended", "closed"}
          /\ disp' = "closing"
          /\ CallClose(Dispatcher, i, TRUE)
    /\ UNCHANGED <<transport, nextId, streams, guestOf, permit, device, once,
                   pump, current, toCloseAll, toOwner, toGuest, guestVars,
                   born, clses>>

\* MUTANT: only a failed acknowledgement is noticed, a successful one not sent.
handleWriteForgetsAck ==
    /\ disp = "ack"
    /\ disp' = "idle"
    /\ UNCHANGED <<transport, nextId, streams, guestOf, permit, device, once,
                   pump, current, toCloseAll, closeVars, toOwner, toGuest,
                   guestVars, born, clses>>

\* ... and acknowledge.
handleWriteAck ==
    /\ disp = "ack"
    /\ \/ /\ Sent(Msg("OKAY", current.arg2, current.arg1))
          /\ disp' = "idle"
          /\ UNCHANGED closeVars
       \/ /\ SendFailed
          /\ disp' = "closing"
          /\ CallClose(Dispatcher, current.arg2, FALSE)
    /\ UNCHANGED <<transport, nextId, streams, guestOf, permit, device, once,
                   pump, current, toCloseAll, toOwner, guestVars, born, clses>>

\* MUTANT: an unbuffered sendPermit; the token is lost unless the pump waits.
handleOkayUnbuffered ==
    /\ Receives("OKAY")
    /\ permit' = IF current'.arg2 \in streams
                    /\ pump[current'.arg2] \in {"data", "lastdata"}
                 THEN [permit EXCEPT ![current'.arg2] = TRUE]
                 ELSE permit
    /\ UNCHANGED <<transport, nextId, streams, guestOf, device, once, pump, disp,
                   toCloseAll, closeVars, toGuest, guestVars, born, clses>>

\* handleOkay: put the token back; if it is there already nothing happens.
handleOkay ==
    /\ Receives("OKAY")
    /\ permit' = IF current'.arg2 \in streams
                 THEN [permit EXCEPT ![current'.arg2] = TRUE]
                 ELSE permit
    /\ UNCHANGED <<transport, nextId, streams, guestOf, device, once, pump, disp,
                   toCloseAll, closeVars, toGuest, guestVars, born, clses>>

\* handleClose: the guest closed the stream, it is not told again.
handleClose ==
    /\ Receives("CLSE")
    /\ \/ /\ current'.arg2 \in streams
          /\ disp' = "closing"
          /\ CallClose(Dispatcher, current'.arg2, FALSE)
       \/ /\ current'.arg2 \notin streams
          /\ UNCHANGED <<disp, closeVars>>
    /\ UNCHANGED <<transport, nextId, streams, guestOf, permit, device, once,
                   pump, toCloseAll, toGuest, guestVars, born, clses>>

\* MUTANT: the streams of a guest that left are kept.
handleGuestLeftKeeps ==
    /\ Receives("GuestLeft")
    /\ UNCHANGED <<transport, nextId, streams, guestOf, permit, device, once, pump,
                   disp, toCloseAll, closeVars, toGuest, guestVars, born, clses>>

\* CommandGuestLeft: multiplexer.Close copies the map's streams ...
handleGuestLeft ==
    /\ Receives("GuestLeft")
    /\ disp' = "closingAll"
    /\ toCloseAll' = streams
    /\ UNCHANGED <<transport, nextId, streams, guestOf, permit, device, once,
                   pump, closeVars, toGuest, guestVars, born, clses>>

\* The room ends (context cancelled or connection lost): the deferred Close.
DispatchEnds ==
    /\ disp = "idle"
    /\ disp' = "leaving"
    /\ toCloseAll' = streams
    /\ UNCHANGED <<transport, nextId, streams, guestOf, permit, device, once,
                   pump, current, closeVars, toOwner, toGuest, guestVars, born,
                   clses>>

\* ... and closes them one after the other.
closeAllStreams ==
    /\ disp \in {"closingAll", "leaving"}
    /\ closePc[Dispatcher] = "none"
    /\ \/ \E i \in toCloseAll :
             /\ toCloseAll' = toCloseAll \ {i}
             /\ CallClose(Dispatcher, i, FALSE)
             /\ UNCHANGED disp
       \/ /\ toCloseAll = {}
          /\ disp' = IF disp = "leaving" THEN "returned" ELSE "idle"
          /\ UNCHANGED <<toCloseAll, closeVars>>
    /\ UNCHANGED <<transport, nextId, streams, guestOf, permit, device, once,
                   pump, current, toOwner, toGuest, guestVars, born, clses>>

-----------------------------------------------------------------------------
(* The room, the answers and the guest's process *)

ownerVars == <<nextId, streams, guestOf, permit, once, pump, dispVars,
               closeVars, born, clses>>
roomFrame == <<transport, ownerVars, device, session, writes, heard>>

\* Has the guest in the room been let in?
Admitted == stage \in {"idle", "relaying"}

\* The room forgets its guest.
PlaceEmptied ==
    /\ stage' = "none"
    /\ toGuest' = <<>>
    /\ guest' = NoStreams
    /\ own' = FALSE

\* A guest asks to join: if the place is free it has it from now on.
handleJoinRoom ==
    /\ transport
    /\ stage = "none"
    /\ session < MaxSessions
    /\ session' = session + 1
    /\ stage' = "waiting"
    /\ toOwner' = Append(toOwner, JoinRequest(session'))
    /\ UNCHANGED <<transport, ownerVars, device, toGuest, guest, writes, joinVars>>

\* The transporter has the answer about s: whoever has the place gets it, and
\* loses the place if it is a no or if its connection turns out to be broken.
\* The owner is not told; of an empty room it is, and ignores that.
handleJoinRoomResponse(s, accepted) ==
    /\ astray' = (astray \/ (stage # "none" /\ s # session))
    /\ \/ /\ stage = "none"
          /\ UNCHANGED <<stage, toGuest, guest, own>>
       \/ /\ stage # "none"
          /\ stage = "gone" \/ ~accepted
          /\ PlaceEmptied
       \/ /\ stage # "none" /\ accepted
          /\ Sent(Accepted(s))
          /\ UNCHANGED <<stage, guest, own>>

\* The operator has decided about s: handleJoinRequest sends the answer.
handleJoinRequest(s) ==
    /\ s \in asks
    /\ asks' = asks \ {s}
    /\ \/ \E accepted \in BOOLEAN : handleJoinRoomResponse(s, accepted)
       \/ SendFailed /\ UNCHANGED <<stage, guest, own, astray>>
    /\ UNCHANGED <<roomFrame, toOwner>>

\* The guest's process ends, or its connection does.
GuestEnds ==
    /\ stage' = "gone"
    /\ toGuest' = <<>>
    /\ guest' = NoStreams

\* The first message the waiting guest receives should be its answer.
roomJoinStep ==
    /\ stage = "waiting"
    /\ toGuest # <<>>
    /\ \/ /\ Head(toGuest).cmd = "Accepted"
          /\ stage' = "idle"
          /\ own' = (Head(toGuest) = Accepted(session))
          /\ toGuest' = Tail(toGuest)
          /\ UNCHANGED guest
       \/ /\ Head(toGuest).cmd # "Accepted"
          /\ GuestEnds
          /\ UNCHANGED own
    /\ UNCHANGED <<roomFrame, toOwner, asks, astray>>

\* It leaves or breaks at any time ...
GuestLeaves ==
    /\ stage \in {"waiting", "idle", "relaying"}
    /\ GuestEnds
    /\ UNCHANGED <<roomFrame, toOwner, joinVars>>

\* ... which the transporter notices.
handleClientDisconnected ==
    /\ stage = "gone"
    /\ PlaceEmptied
    /\ toOwner' = Append(toOwner, GuestLeftMsg)
    /\ UNCHANGED <<roomFrame, asks, astray>>

\* The guest's process takes a local connection and relays it ...
GuestConnects ==
    /\ stage = "idle"
    /\ stage' = "relaying"
    /\ UNCHANGED <<roomFrame, toOwner, toGuest, guest, joinVars>>

\* ... until that ends.  The adb-server forgets its streams; nobody tells the owner.
GuestDisconnects ==
    /\ stage = "relaying"
    /\ stage' = "idle"
    /\ guest' = [g \in GuestIds |->
                    IF guest[g].state \in {"opening", "open"}
                    THEN [guest[g] EXCEPT !.state = "closed"] ELSE guest[g]]
    /\ UNCHANGED <<roomFrame, toOwner, toGuest, joinVars>>

\* Between two relays JoinAsGuest discards what it receives.
GuestDiscards ==
    /\ stage = "idle"
    /\ toGuest # <<>>
    /\ toGuest' = Tail(toGuest)
    /\ UNCHANGED <<transport, ownerVars, device, toOwner, guestVars>>

-----------------------------------------------------------------------------
(* External: the device, the transporter connection, the guest's adb *)

\* The local adb-server ends the service.
DeviceEnds(i) ==
    /\ device[i] = "open"
    /\ device' = [device EXCEPT ![i] = "ended"]
    /\ UNCHANGED <<transport, ownerVars, toOwner, toGuest, guestVars>>

\* The owner's connection breaks and the transporter closes the room; what it
\* had sent can still be read.
TransportLost ==
    /\ transport
    /\ transport' = FALSE
    /\ PlaceEmptied
    /\ UNCHANGED <<ownerVars, device, toOwner, session, writes, asks, heard, astray>>

\* OPENs that will still consume an id.
OpensUnderWay == {k \in DOMAIN toOwner : toOwner[k].cmd = "OPEN"}

GuestOpens(g) ==
    /\ stage = "relaying"
    /\ guest[g].state = "none"
    /\ nextId + Cardinality(OpensUnderWay) + (IF disp = "open" THEN 1 ELSE 0)
          < MaxStreams
    /\ guest' = [guest EXCEPT ![g] = [NoStream EXCEPT !.state = "opening"]]
    /\ toOwner' = Append(toOwner, Msg("OPEN", g, 0))
    /\ UNCHANGED <<transport, ownerVars, device, toGuest, stage, session, writes,
                   joinVars>>

GuestWrites(g) ==
    /\ stage = "relaying"
    /\ guest[g].state = "open" /\ guest[g].ready
    /\ writes < MaxWrites
    /\ writes' = writes + 1
    /\ guest' = [guest EXCEPT ![g].ready = FALSE]
    /\ toOwner' = Append(toOwner, Msg("WRTE", g, guest[g].peer))
    /\ UNCHANGED <<transport, ownerVars, device, toGuest, stage, session, joinVars>>

GuestCloses(g) ==
    /\ stage = "relaying"
    /\ guest[g].state = "open"
    /\ guest' = [guest EXCEPT ![g].state = "closed"]
    /\ toOwner' = Append(toOwner, Msg("CLSE", g, guest[g].peer))
    /\ UNCHANGED <<transport, ownerVars, device, toGuest, stage, session, writes,
                   joinVars>>

\* Does m name a stream the guest has open?
Matches(m) == guest[m.arg2].state = "open" /\ guest[m.arg2].peer = m.arg1

GuestReceives ==
    /\ stage = "relaying"
    /\ toGuest # <<>>
    /\ toGuest' = Tail(toGuest)
    /\ LET m == Head(toGuest)
           g == m.arg2 IN
       \/ /\ m.cmd = "WRTE" /\ Matches(m)
          /\ toOwner' = Append(toOwner, Msg("OKAY", g, m.arg1))
          /\ UNCHANGED guest
       \/ /\ m.cmd = "OKAY" /\ guest[g].state = "opening"
          /\ guest' = [guest EXCEPT ![g] =
                          [state |-> "open", peer |-> m.arg1, ready |-> TRUE]]
          /\ UNCHANGED toOwner
       \/ /\ m.cmd = "OKAY" /\ Matches(m)
          /\ guest' = [guest EXCEPT ![g].ready = TRUE]
          /\ UNCHANGED toOwner
       \/ /\ m.cmd = "CLSE"
          /\ Matches(m) \/ (m.arg1 = 0 /\ guest[g].state = "opening")
          /\ guest' = [guest EXCEPT ![g].state = "closed"]
          /\ UNCHANGED toOwner
       \/ /\ m.cmd = "Accepted"
          /\ UNCHANGED <<guest, toOwner>>
       \/ /\ m.cmd # "Accepted" /\ ~Matches(m)
          /\ m.cmd = "OKAY" => guest[g].state # "opening"
          /\ m.cmd = "CLSE" => ~(m.arg1 = 0 /\ guest[g].state = "opening")
          /\ UNCHANGED <<guest, toOwner>>
    /\ UNCHANGED <<transport, ownerVars, device, stage, session, writes, joinVars>>

-----------------------------------------------------------------------------
CloseNext(t) == CloseEnter(t) \/ CloseUnregister(t) \/ CloseNotifyGuest(t)

PumpNext(i) ==
    \/ PumpReads(i) \/ PumpReadFails(i) \/ PumpTakesPermit(i) \/ PumpSeesDone(i)
    \/ PumpSends(i) \/ PumpSendFails(i)

DispatchNext ==
    \/ dispatchJoinRoom \/ handleOpen \/ OpenStreamRefused \/ OpenStreamAccepted
    \/ handleWrite \/ handleWriteDevice \/ handleWriteAck
    \/ handleOkay \/ handleClose \/ handleGuestLeft
    \/ DispatchEnds \/ closeAllStreams

RoomNext ==
    \/ handleJoinRoom \/ handleClientDisconnected
    \/ \E s \in 1..MaxSessions : handleJoinRequest(s)

GuestNext ==
    \/ roomJoinStep \/ GuestLeaves
    \/ GuestConnects \/ GuestDisconnects \/ GuestDiscards \/ GuestReceives
    \/ \E g \in GuestIds : GuestOpens(g) \/ GuestWrites(g) \/ GuestCloses(g)

Next ==
    \/ \E t \in Threads : CloseNext(t)
    \/ \E i \in Ids : PumpNext(i) \/ DeviceEnds(i)
    \/ DispatchNext
    \/ RoomNext
    \/ GuestNext
    \/ TransportLost

Spec == Init /\ [][Next]_vars

\* The dispatcher is in a call that has no deadline: OpenStream, until the local
\* adb-server answers, or the Write to a service that is up, until it has read.
DispatcherWaits ==
    \/ disp = "open"
    \/ disp = "write" /\ device[current.arg2] = "open"

(***************************************************************************)
(* Fairness: goroutines run when they can; a read on a connection that is  *)
(* ended or closed returns, with an error in the end because only finitely *)
(* much data is left in it.  The dispatcher handles what has arrived, and  *)
(* a lost connection ends it, but nothing makes a call of DispatcherWaits  *)
(* return.  The transporter takes what is sent to it.  A guest that stays  *)
(* receives what is sent and its adb answers; nobody has to open, write,   *)
(* close, ask, decide or leave.                                            *)
(***************************************************************************)
Fairness ==
    /\ \A t \in Threads : WF_vars(CloseNext(t))
    /\ \A i \in Ids : WF_vars(PumpNext(i) /\ (device[i] # "open" \/ pump[i] # "reading"))
    /\ \A i \in Ids : SF_vars(PumpReadFails(i))
    /\ WF_vars(/\ DispatchNext
               /\ ~DispatcherWaits
               /\ disp = "idle" => disp' # "leaving" \/ ~transport)
    /\ WF_vars(GuestReceives \/ GuestDiscards)

FairSpec == Spec /\ Fairness

-----------------------------------------------------------------------------
(* Properties *)

\* Does guest stream g belong to owner stream i, as the guest sees it?
GuestHas(i) == \E g \in GuestIds : guest[g].state = "open" /\ guest[g].peer = i

\* Where stream i's one right to send is: the token, a pump about to send, a
\* WRTE on its way to the guest, or the OKAY on its way back.
Tokens(i) ==
    Cardinality({k \in DOMAIN toGuest : toGuest[k].cmd = "WRTE" /\ toGuest[k].arg1 = i})
    + Cardinality({k \in DOMAIN toOwner : toOwner[k].cmd = "OKAY" /\ toOwner[k].arg2 = i})
    + (IF permit[i] THEN 1 ELSE 0)
    + (IF pump[i] \in {"sending", "lastsending"} THEN 1 ELSE 0)

\* The guest was let in by the answer about itself.  An answer names no guest
\* (RoomSession, AcceptedWasVerified), so one meant for an earlier guest may let
\* it in before the owner has handled that one's departure; then nothing below
\* that asks for this is promised.
Rightful == Admitted /\ own

\* ADB flow control (sendPermit): never two unacknowledged WRTEs of a stream,
\* however OKAYs, closes, pump steps and guests interleave.
OneUnacknowledgedWrite == \A i \in Ids : Tokens(i) <= 1

\* The token is never lost while both sides have the stream open, so a pump
\* that waits for it waits for an OKAY that will come.
TokenNotLost ==
    \A i \in streams :
        Rightful /\ once[i] = "idle" /\ GuestHas(i) => Tokens(i) = 1

\* closeStream is idempotent: whoever races, the guest gets at most one CLSE
\* for a stream.
OneClosePerStream == \A i \in Ids : clses[i] <= 1

\* No connection to the local adb-server outlives its stream or the room: a
\* stream out of the map is closed, and all are when JoinAsRoomOwner returns.
\* As long as no answer went astray none outlives its guest either: an earlier
\* guest's streams are closed before the next one is let in.
NoDeviceLeak ==
    \A i \in 1..nextId :
        \/ device[i] = "closed"
        \/ /\ i \in streams
           /\ disp # "returned"
           /\ Admitted /\ ~astray => born[i] = session

\* A guest that was let in by its own answer never ends up talking to a stream
\* that was opened for an earlier guest, whatever happened before it came.
SessionIsolation ==
    \A g \in GuestIds :
        Rightful /\ guest[g].state = "open" =>
            /\ born[guest[g].peer] = session
            /\ guestOf[guest[g].peer] = g

\* A closed stream's pump goroutine ends, wherever it was.
PumpsEnd ==
    \A i \in Ids : (once[i] # "idle") ~> (pump[i] \in {"none", "exited"})

\* When the device ends a service, the guest learns it (after the remaining
\* data, under flow control), unless the guest, the room or the connection
\* ends first, or the dispatcher never returns from a call to the adb-server:
\* then the OKAY the pump waits for is never handled.
DeviceEndReachesGuest ==
    \A i \in Ids :
        (device[i] = "ended" /\ GuestHas(i) /\ Rightful)
        ~> (~GuestHas(i) \/ ~Rightful \/ disp \in {"leaving", "returned"}
              \/ []DispatcherWaits)

\* The owner acknowledges every WRTE of the guest, or closes the stream, unless
\* the guest, the room or the connection ends first, or the dispatcher never
\* returns from a call: the write to a service that does not read (because its
\* own output is not read, or because it never does), or OpenStream.
WriteIsAnswered ==
    \A g \in GuestIds :
        (Rightful /\ guest[g].state = "open" /\ ~guest[g].ready)
        ~> (guest[g].state # "open" \/ guest[g].ready \/ ~Rightful
              \/ disp \in {"leaving", "returned"} \/ []DispatcherWaits)

\* As long as no answer went astray, the streams of a guest that has left, those
\* its relay had abandoned before included, are closed in the end, wherever
\* their pumps are, unless the dispatcher never returns from a call.
DepartedGuestIsReleased ==
    \A i \in Ids :
        (i \in streams /\ stage = "none" /\ ~astray)
        ~> (device[i] = "closed" \/ []DispatcherWaits)

-----------------------------------------------------------------------------
(* What comments say and the code does not do; see the README. *)

\* The handling of CommandGuestLeft: "only one guest is ever active at a time,
\* so every currently open stream necessarily belonged to it".
OneGuestsStreams == \A i, j \in streams : born[i] = born[j]

\* JoinAsGuest, idle: "nothing should legitimately arrive here".
IdleReceivesNothing == stage = "idle" => toGuest = <<>>
===============================================================================
