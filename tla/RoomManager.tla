------------------------------ MODULE RoomManager ------------------------------
(***************************************************************************)
(* transporter/manager/roomManager: one goroutine that receives client     *)
(* messages and disconnect announcements from two channels, keeps the list *)
(* of rooms, answers clients and forwards between the owner and the guest  *)
(* of a room.  The connections are those of ClientLink.                    *)
(*                                                                         *)
(* One handler is one step, except for the Close calls it makes: they can  *)
(* block, so they are queued in closing and executed one by one before the *)
(* next receive.  handleJoinRoomResponse writes to the owner after closing *)
(* the guest; the write is part of the handler's step here, which is the   *)
(* same since the two sockets are unrelated unless they are one.           *)
(***************************************************************************)
EXTENDS ClientLink, SequencesExt

CONSTANTS RoomIds,      \* the ids GenerateClientId may produce for rooms
          MaxMessages,  \* bound: messages read from clients in all
          NoConn,       \* a nil *ClientConnection
          NoBody        \* the reader holds no message

ASSUME RoomBoundAssumption == MaxMessages \in Nat
ASSUME NilAssumption == NoConn \notin Conns

VARIABLES
    rooms,                 \* rm.rooms, in list order
    clientMessageChannel,  \* FIFO of messages with their sender
    held,                  \* the message each reader has read, not handed over
    closing,               \* Close calls the running handler still makes
    out,                   \* what the last handler wrote, and to whom
    received,              \* number of messages read so far
    reaped,                \* history: clients whose announcement was handled
    strayed,               \* history: clients that were in two rooms at once or
                           \* whose message was handled after the announcement
    admitted               \* history: <<owner, guest>> pairs accepted so far

history == <<reaped, strayed, admitted>>
vars == <<link, clientDisconnectedChannel, rooms, clientMessageChannel, held,
          closing, out, received, history>>

-----------------------------------------------------------------------------
(* Messages *)

\* What a client may send: the commands dispatchMessage tells apart, payloads
\* that do not parse, and everything else.
Bodies ==
    [cmd : {"CreateRoom", "AdbTransport", "InvalidPayload", "Unhandled"}]
      \cup [cmd : {"JoinRoom"}, roomId : RoomIds]
      \cup [cmd : {"JoinRoomResponse"}, accepted : BOOLEAN]

ASSUME NoBodyAssumption == NoBody \notin Bodies

Messages == [sender : Conns, body : Bodies]

Replies == {"RoomCreated", "ErrorAlreadyInRoom", "ErrorRoomNotFound",
            "ErrorFull", "ErrorUnknown", "ErrorNoParticipant",
            "ErrorInvalidPayload", "JoinRequest", "JoinAccepted",
            "JoinDeclined", "AdbTransport", "GuestLeft", "nothing"}

\* The message kind written to client "to" while handling one of "from".
Written(kind, from, to) == [kind |-> kind, from |-> from, to |-> to]
NothingWritten == Written("nothing", NoConn, NoConn)

RoomData == [roomId : RoomIds, owner : Conns, guest : Conns \cup {NoConn}]

TypeOK ==
    /\ LinkTypeOK
    /\ rooms \in Seq(RoomData)
    /\ clientMessageChannel \in Seq(Messages)
    /\ held \in [Conns -> Bodies \cup {NoBody}]
    /\ closing \in Seq(Conns)
    /\ out \in [kind : Replies, from : Conns \cup {NoConn},
                to : Conns \cup {NoConn}]
    /\ received \in Nat
    /\ reaped \in SUBSET Conns
    /\ strayed \in SUBSET Conns
    /\ admitted \in SUBSET (Conns \X Conns)

Init ==
    /\ LinkInit
    /\ rooms = <<>>
    /\ clientMessageChannel = <<>>
    /\ held = [c \in Conns |-> NoBody]
    /\ closing = <<>>
    /\ out = NothingWritten
    /\ received = 0
    /\ reaped = {}
    /\ strayed = {}
    /\ admitted = {}

-----------------------------------------------------------------------------
(* The connections and their readers *)

roomVars == <<rooms, clientMessageChannel, held, closing, out, received, history>>

\* Registration, loss of the peer, and the close by c's reader, as ClientLink
\* describes them; a reader that still has to hand over a message is not
\* reading, so it cannot run into the error that makes it close.
ConnectionStep(c) ==
    /\ \/ Accept(c) \/ PeerGone(c) \/ Notify(c)
       \/ held[c] = NoBody /\ BeginClose(c)
    /\ UNCHANGED roomVars

\* readNextMessage: c's reader has read a message.
ReadMessage(c) ==
    /\ link[c] \in {"open", "broken"}
    /\ held[c] = NoBody
    /\ received < MaxMessages
    /\ received' = received + 1
    /\ \E b \in Bodies : held' = [held EXCEPT ![c] = b]
    /\ UNCHANGED <<linkVars, rooms, clientMessageChannel, closing, out, history>>

\* MUTANT: the reader of a closed connection cannot hand its message over.
EnqueueUnlessClosed(c) ==
    /\ held[c] # NoBody
    /\ link[c] # "closed"
    /\ Len(clientMessageChannel) < ConnectionPoolSize
    /\ clientMessageChannel' =
          Append(clientMessageChannel, [sender |-> c, body |-> held[c]])
    /\ held' = [held EXCEPT ![c] = NoBody]
    /\ UNCHANGED <<linkVars, rooms, closing, out, received, history>>

\* The reader hands the message over; nothing makes it drop the message when
\* the connection is closed meanwhile.
EnqueueMessage(c) ==
    /\ held[c] # NoBody
    /\ Len(clientMessageChannel) < ConnectionPoolSize
    /\ clientMessageChannel' =
          Append(clientMessageChannel, [sender |-> c, body |-> held[c]])
    /\ held' = [held EXCEPT ![c] = NoBody]
    /\ UNCHANGED <<linkVars, rooms, closing, out, received, history>>

-----------------------------------------------------------------------------
(* Lookups: the first room of the list that matches, 0 if none does *)

FirstOf(indices) == IF indices = {} THEN 0 ELSE Min(indices)

findRoomById(id) == FirstOf({i \in DOMAIN rooms : rooms[i].roomId = id})

findRoomByOwner(c) == FirstOf({i \in DOMAIN rooms : rooms[i].owner = c})

RoomsOf(c) == {i \in DOMAIN rooms : c \in {rooms[i].owner, rooms[i].guest}}

findRoomByParticipant(c) == FirstOf(RoomsOf(c))

\* MUTANT: only the guests are looked at.
isClientAGuest(c) == \E i \in DOMAIN rooms : rooms[i].guest = c

isClientInARoom(c) == findRoomByParticipant(c) # 0

-----------------------------------------------------------------------------
(* Writes and closes *)

\* A write can succeed until the socket is closed here, and can fail as soon
\* as the peer is gone.
CanDeliver(c) == link[c] \in {"open", "broken"}
CanFail(c) == link[c] # "open"

\* The handler of a message of s writes to c; or writes nothing.  No handler
\* gets more than one message out: the second write is the reaction to the
\* failure of the first.
Write(kind, s, c) == CanDeliver(c) /\ out' = Written(kind, s, c)
WriteNothing == out' = NothingWritten

\* An answer to the sender; if it cannot be written the sender is closed.
ReplyOrClose(s, kind) ==
    \/ Write(kind, s, s) /\ closing' = <<>>
    \/ CanFail(s) /\ WriteNothing /\ closing' = <<s>>

\* MUTANT: the guest is not checked for nil.
ParticipantsUnchecked(room) == <<room.owner, room.guest>>

Participants(room) ==
    IF room.guest = NoConn THEN <<room.owner>> ELSE <<room.owner, room.guest>>

\* MUTANT: only the owner is closed.
closeRoomOwner(i) ==
    /\ rooms' = RemoveAt(rooms, i)
    /\ closing' = <<rooms[i].owner>>

\* Close the participants, owner first, and remove the room from the list.
closeRoom(i) ==
    /\ rooms' = RemoveAt(rooms, i)
    /\ closing' = Participants(rooms[i])

ClearGuest(i) == rooms' = [rooms EXCEPT ![i].guest = NoConn]

-----------------------------------------------------------------------------
(* The handlers: effect on rooms, closing and out *)

\* GenerateClientId may collide with an existing id, or panic if the entropy
\* source fails (dispatchMessageSafely then closes the sender).
handleCreateRoom(s) ==
    \/ /\ isClientInARoom(s)
       /\ ReplyOrClose(s, "ErrorAlreadyInRoom")
       /\ UNCHANGED <<rooms, admitted>>
    \/ /\ ~isClientInARoom(s)
       /\ \E id \in RoomIds :
             rooms' = Append(rooms, [roomId |-> id, owner |-> s, guest |-> NoConn])
       /\ ReplyOrClose(s, "RoomCreated")
       /\ UNCHANGED admitted
    \/ /\ ~isClientInARoom(s)
       /\ closing' = <<s>>
       /\ WriteNothing
       /\ UNCHANGED <<rooms, admitted>>

\* MUTANT: a full room is not refused.
handleJoinFullRoom(s, id) ==
    LET i == findRoomById(id) IN
    /\ \/ /\ i = 0
          /\ ReplyOrClose(s, "ErrorRoomNotFound")
          /\ UNCHANGED rooms
       \/ /\ i # 0
          /\ Write("JoinRequest", s, rooms[i].owner)
          /\ rooms' = [rooms EXCEPT ![i].guest = s]
          /\ closing' = <<>>
    /\ UNCHANGED admitted

\* The guest is put into the room before the owner decides.  The forwarded
\* request carries one field more than the received one, so encoding it may
\* fail even though the owner is there.
handleJoinRoom(s, id) ==
    LET i == findRoomById(id) IN
    /\ \/ /\ i = 0
          /\ ReplyOrClose(s, "ErrorRoomNotFound")
          /\ UNCHANGED rooms
       \/ /\ i # 0
          /\ rooms[i].guest # NoConn
          /\ ReplyOrClose(s, "ErrorFull")
          /\ UNCHANGED rooms
       \/ /\ i # 0
          /\ rooms[i].guest = NoConn
          /\ Write("JoinRequest", s, rooms[i].owner)
          /\ rooms' = [rooms EXCEPT ![i].guest = s]
          /\ closing' = <<>>
       \/ /\ i # 0
          /\ rooms[i].guest = NoConn
          /\ Write("ErrorUnknown", s, s) \/ (CanFail(s) /\ WriteNothing)
          /\ rooms' = RemoveAt(rooms, i)
          /\ closing' = <<rooms[i].owner, s>>
    /\ UNCHANGED admitted

\* The answer names no guest: it is for whoever is in the room.  Encoding the
\* forwarded answer may fail like the request's.
handleJoinRoomResponse(s, accepted) ==
    LET i == findRoomByOwner(s)
        g == rooms[i].guest IN
    \/ /\ i = 0
       /\ ReplyOrClose(s, "ErrorRoomNotFound")
       /\ UNCHANGED <<rooms, admitted>>
    \/ /\ i # 0
       /\ g = NoConn
       /\ \/ Write("ErrorNoParticipant", s, s) /\ closing' = <<>> /\ UNCHANGED rooms
          \/ CanFail(s) /\ WriteNothing /\ closeRoom(i)
       /\ UNCHANGED admitted
    \/ /\ i # 0
       /\ g # NoConn
       /\ Write(IF accepted THEN "JoinAccepted" ELSE "JoinDeclined", s, g)
       /\ IF accepted THEN UNCHANGED rooms ELSE ClearGuest(i)
       /\ admitted' = IF accepted THEN admitted \cup {<<s, g>>} ELSE admitted
       /\ closing' = <<>>
    \/ /\ i # 0
       /\ g # NoConn
       /\ \/ /\ s # g
             /\ Write("ErrorNoParticipant", s, s)
             /\ ClearGuest(i)
             /\ closing' = <<g>>
          \/ /\ CanFail(s) \/ s = g
             /\ WriteNothing
             /\ rooms' = RemoveAt(rooms, i)
             /\ closing' = <<g, s>>
       /\ UNCHANGED admitted

\* Forward to the other participant, whether the owner has accepted or not; a
\* failed write is only logged.
handleAdbTransport(s) ==
    LET i == findRoomByParticipant(s)
        target == IF rooms[i].owner = s THEN rooms[i].guest ELSE rooms[i].owner IN
    /\ \/ i = 0 /\ WriteNothing
       \/ i # 0 /\ target = NoConn /\ WriteNothing
       \/ i # 0 /\ target # NoConn /\ Write("AdbTransport", s, target)
       \/ i # 0 /\ target # NoConn /\ CanFail(target) /\ WriteNothing
    /\ closing' = <<>>
    /\ UNCHANGED <<rooms, admitted>>

\* dispatchMessage
Dispatch(s, body) ==
    \/ body.cmd = "CreateRoom" /\ handleCreateRoom(s)
    \/ body.cmd = "JoinRoom" /\ handleJoinRoom(s, body.roomId)
    \/ body.cmd = "JoinRoomResponse" /\ handleJoinRoomResponse(s, body.accepted)
    \/ body.cmd = "AdbTransport" /\ handleAdbTransport(s)
    \/ /\ body.cmd = "InvalidPayload"
       /\ ReplyOrClose(s, "ErrorInvalidPayload")
       /\ UNCHANGED <<rooms, admitted>>
    \/ /\ body.cmd = "Unhandled"
       /\ closing' = <<>>
       /\ WriteNothing
       /\ UNCHANGED <<rooms, admitted>>

-----------------------------------------------------------------------------
(* The select loop *)

\* Which clients have strayed after this step; s is the sender of the message
\* it handles.
Stray(s) ==
    strayed' = strayed \cup (IF s \in reaped THEN {s} ELSE {})
                       \cup {c \in Conns : \E i, j \in RoomsOf(c)' : i # j}

HandleMessage ==
    /\ closing = <<>>
    /\ clientMessageChannel # <<>>
    /\ clientMessageChannel' = Tail(clientMessageChannel)
    /\ LET m == Head(clientMessageChannel) IN
          Dispatch(m.sender, m.body) /\ Stray(m.sender)
    /\ UNCHANGED <<linkVars, held, received, reaped>>

\* MUTANT: the guest's place is not emptied.
handleDisconnectedKeepsGuest(c) ==
    LET i == findRoomByParticipant(c) IN
    \/ i = 0 /\ closing' = <<>> /\ WriteNothing /\ UNCHANGED rooms
    \/ i # 0 /\ rooms[i].owner = c /\ WriteNothing /\ closeRoom(i)
    \/ /\ i # 0
       /\ rooms[i].owner # c
       /\ closing' = <<c>>
       /\ WriteNothing
       /\ UNCHANGED rooms

\* handleClientDisconnected: the owner's disconnect closes the room, a
\* guest's only empties it and tells the owner.
handleClientDisconnected(c) ==
    LET i == findRoomByParticipant(c) IN
    \/ i = 0 /\ closing' = <<>> /\ WriteNothing /\ UNCHANGED rooms
    \/ i # 0 /\ rooms[i].owner = c /\ WriteNothing /\ closeRoom(i)
    \/ /\ i # 0
       /\ rooms[i].owner # c
       /\ ClearGuest(i)
       /\ closing' = <<c>>
       /\ \/ Write("GuestLeft", c, rooms[i].owner)
          \/ CanFail(rooms[i].owner) /\ WriteNothing

HandleDisconnected ==
    /\ closing = <<>>
    /\ TakeDisconnected
    /\ LET c == Head(clientDisconnectedChannel) IN
          handleClientDisconnected(c) /\ reaped' = reaped \cup {c}
    /\ UNCHANGED <<clientMessageChannel, held, received, strayed, admitted>>

\* The handler's next Close call closes the socket itself ...
CloseStart ==
    /\ closing # <<>>
    /\ BeginClose(Head(closing))
    /\ UNCHANGED roomVars

\* MUTANT: a Close call is dropped without having closed anything.
CloseSkip ==
    /\ closing # <<>>
    /\ closing' = Tail(closing)
    /\ UNCHANGED <<linkVars, rooms, clientMessageChannel, held, out, received,
                   history>>

\* ... and returns when the connection is announced, by whomever.
CloseReturn ==
    /\ closing # <<>>
    /\ link[Head(closing)] = "closed"
    /\ closing' = Tail(closing)
    /\ UNCHANGED <<linkVars, rooms, clientMessageChannel, held, out, received,
                   history>>

Next ==
    \/ \E c \in Conns : ConnectionStep(c) \/ ReadMessage(c) \/ EnqueueMessage(c)
    \/ HandleMessage
    \/ HandleDisconnected
    \/ CloseStart
    \/ CloseReturn

Spec == Init /\ [][Next]_vars

(***************************************************************************)
(* Fairness: the room manager goroutine and the readers run when they can; *)
(* whoever has closed a socket goes on to announce it; select takes each   *)
(* ready channel in the end because it chooses at random.                  *)
(***************************************************************************)
Fairness ==
    /\ \A c \in Conns :
          /\ WF_vars(Notify(c) /\ UNCHANGED roomVars)
          /\ WF_vars(EnqueueMessage(c))
    /\ SF_vars(HandleMessage)
    /\ SF_vars(HandleDisconnected)
    /\ WF_vars(CloseStart)
    /\ WF_vars(CloseReturn)

FairSpec == Spec /\ Fairness

-----------------------------------------------------------------------------
(* Properties *)

\* A client owns at most one room: handleCreateRoom refuses a client that is
\* in a room, and no other handler creates or re-assigns one, so the lookup by
\* owner that routes a join answer is never ambiguous.
OneRoomPerOwner ==
    \A i, j \in DOMAIN rooms : rooms[i].owner = rooms[j].owner => i = j

\* After its disconnect was handled a client is in no room any more, unless it
\* had joined a second room (handleJoinRoom does not look) or one of its
\* messages was handled after its announcement (select takes either channel):
\* these are the only two ways a room can keep a dead participant.
ReapedLeavesRooms ==
    \A c \in reaped \ strayed : RoomsOf(c) = {}

\* A step that removes a room leaves both its participants closed or about to
\* be closed by the running handler (closeRoom), in particular the guest of an
\* owner that disconnected.
RemovedRoomEvicts ==
    [][ \A i \in DOMAIN rooms :
          (\A j \in DOMAIN rooms' : rooms'[j].owner # rooms[i].owner)
          => \A p \in {rooms[i].owner, rooms[i].guest} \ {NoConn} :
                p \in ToSet(closing') ]_vars

\* A guest's place in a room is never given to another client while the guest
\* has it: it is emptied first (declined, disconnected, unreachable).
GuestSlotNotStolen ==
    [][ \A i \in DOMAIN rooms, j \in DOMAIN rooms' :
          /\ rooms[i].owner = rooms'[j].owner
          /\ rooms[i].guest # NoConn
          => rooms'[j].guest \in {rooms[i].guest, NoConn} ]_vars

\* Every connection a handler evicts is in the end closed and its announcement
\* handled: the room manager never blocks for ever on a channel that only it
\* drains (needs at most ConnectionPoolSize connections).
EvictedIsReaped ==
    \A c \in Conns : (c \in ToSet(closing)) ~> (c \in reaped)

\* Every message a reader has read is in the end taken by the room manager,
\* also when its connection is closed meanwhile.
MessageIsHandedOver ==
    \A c \in Conns : (held[c] # NoBody) ~> (held[c] = NoBody)

(* What messages and comments say and the code does not do; see "Further
   differences" in the README. *)

\* "once the owner accepts the join request the transporter blindly forwards":
\* ADB traffic crosses only between an owner and a guest it has accepted.
AdbOnlyAfterAccept ==
    out.kind = "AdbTransport" =>
        <<out.from, out.to>> \in admitted \/ <<out.to, out.from>> \in admitted

\* "a client can't occupy more than 1 room" (handleCreateRoom).
OneRoomPerClient ==
    \A c \in Conns : \A i, j \in RoomsOf(c) : i = j

\* CommandGuestLeft is sent "when the guest disconnects from an active room":
\* no room keeps a guest whose disconnect was handled.
NoDepartedGuest ==
    \A i \in DOMAIN rooms : rooms[i].guest \notin reaped
===============================================================================
