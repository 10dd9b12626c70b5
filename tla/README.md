# A TLA+ model of adb-remote

adb-remote lets one user share an Android device with another one over a relay
server. This directory models the parts of it that are concurrent, checks them
with TLC and proves their safety with TLAPS. Source paths
are relative to the repository.

## 1. The system

| Component | State it keeps | Operations | Talks to |
|---|---|---|---|
| Connection manager (`transporter/manager/connectionManager`) | listener, cancel flag, list of connections; per connection the socket, `closeOnce`, client id | `StartServer` and its accept loop, `Stop`, per connection: handshake, `readNextMessage`, `Close`, `Send...` | room manager through two channels of `ConnectionPoolSize` slots: messages and disconnect announcements |
| Room manager (`transporter/manager/roomManager`) | `rooms`: id, owner, guest | one goroutine: `handleCreateRoom`, `handleJoinRoom`, `handleJoinRoomResponse`, `handleAdbTransport`, `handleClientDisconnected` | writes to and closes client connections |
| Object pool (`shared/utils`) and messages (`shared/protocol`) | free list; per container two counters and a mutex; per message a header and a payload that survive reuse | `Obtain`, `Dispose`, `UpdateCounter`; `Read`, `Write`, `Set...` | used by every reader and writer |
| Client transport layer (`client/transportLayer`) | connection, write mutex, unbuffered message channel | `Start`, reader, `Send...`, `Close` | transporter; owner and guest controllers |
| Owner controller (`client/controller/ownerController.go`) and share TUI (`client/tui/share.go`) | room, one pending prompt, one goroutine per join request | `createRoom`, dispatch loop, `handleJoinRequest`, key and event handling | transporter, multiplexer, operator |
| Owner multiplexer (`client/relay/owner.go`) | map of streams; per stream the device connection, a flow-control token, `closeOnce`, `done` | `handleOpen/Write/Okay/Close`, one pump goroutine per stream, `closeStream`, `closeAllStreams` | local adb-server, guest's adb |
| Guest controller, relay and proxy (`client/controller/guestController.go`, `client/relay/relay.go`, `client/adb/proxy.go`) and connect TUI (`client/tui/connect.go`) | the local connection being relayed, listener, contexts of RunConnect, Run and the proxy, displayed stage | `Handshake`, `roomJoinStep`, the idle loop, `relay.Run` and its two pumps, `Start`/`Stop` and one goroutine per local connection, `RunConnect` | local adb-server, transporter |
| Payload and ADB message codecs (`shared/protocol/payload.definition.go`, `message.definition.go`, `client/adb/adbMessage.go`) | the reused buffers | `Set...`, `Get...`, `Read`, `Write`, `DecodeMessage` | used by everything that sends or receives |
| Smart socket, identity, TLS files, packet capture, configuration, logging, TUI views | - | - | - |

What is hard in it:

* three goroutines may close one connection, and closing sends on a bounded
  channel that one of the three must drain;
* messages and disconnects of one client travel on two channels and may overtake;
* every write of a handler may fail half way through the handler;
* join requests and answers name the room, not the guest, and guests come and go
  while an operator decides;
* each ADB stream is closed by two goroutines and paced by a token that messages
  of the peer give back;
* buffers are pooled, change hands between goroutines and keep old contents;
* two kinds of mutex are taken in opposite orders;
* the guest's relays follow one another on one message channel, with two pumps
  each, while the TUI may quit and the connection be lost at any moment;
* calls to the local adb-server have no deadline, on goroutines that others wait for;
* lengths come from the wire and are added in 32 bits.

`PROJECT.json` lists these hazards at their lines with the properties about them.

## 2. Modules

```
ClientLink  <---(refines)---  ConnectionManager            Pool  <---(refines)--- ObjectPool
    ^                                                        ^
    | EXTENDS                                                | EXTENDS
RoomManager                                              MessagePool
    ^
    | EXTENDS                                 OwnerMultiplexer   GuestRelay   PayloadCodec
RoomSession
```

Every module with a specification but the two abstract ones, ClientLink and Pool,
has a module `<Module>Proofs` that EXTENDS it (section 4).

`MC<Module>.tla` with its `.cfg` files instantiates a module for TLC. In every
module an operator under a comment that begins with `MUTANT` is a plausible
mistake in the definition that follows it (for instance a dropped guard); no
specification uses it. Substituting it for that definition makes the property
named in `PROJECT.json` fail, which shows that the property depends on the code.

**ClientLink** is what the connection manager promises: a connection is
registered, may lose its peer, is closed, and after that is announced once.
`link` is a connection's life cycle, `clientDisconnectedChannel` the channel.

**ConnectionManager** is the package itself: accept loop (`acceptor`, `server`),
`Stop` (`stopPc`, `toClose`), a reader per connection (`reader`), and any thread
inside `internalClose` (`closePc`, `closeOf`, `once`). Each critical section and
each channel operation is a step. The room manager appears only as far as the
package sees it: it receives and closes. `LinkOf` maps to ClientLink, and
`ImplementsClientLink` is that refinement.

**RoomManager** builds on ClientLink. A handler is one step, except for the
`Close` calls, which can block: they are queued in `closing` and carried out one
by one (`CloseStart`, `CloseReturn`) before the next receive. A write succeeds
or fails; it can fail once the peer is gone and must fail once the socket is
closed here. `out` is what the handler wrote. `reaped`, `strayed` and `admitted`
are history variables.

**RoomSession** puts one owner, its operator and the guests around RoomManager:
FIFO wires in both directions, the owner's dispatch loop, one goroutine per join
request (`asks`), the TUI's single `pendingRespond` (`pending`), `roomJoinStep`.
`about` and `crossed` record whose decision each unaddressed answer was.

**OwnerMultiplexer** models the dispatch goroutine (`disp`), a pump per stream
(`pump`), and `closeStream` in its critical sections. `OpenStream` and the write
to a device are calls that may never return (`DispatcherWaits`): the local
adb-server need not answer, and a service need not read. Around that stands the
room as far as the owner depends on it: one place, taken with the join request
and lost by a no, by an answer that cannot be written, or by a disconnect, of
which only the last sends a `GuestLeft`; and a goroutine per join request
(`asks`), whose answer names nobody and goes to whoever has the place. The guest's
process is `stage`: it waits for its answer, is idle, or relays one local
connection after the other; between two relays its adb forgets its streams and
what arrives is discarded. External are only the guest's adb, the local
adb-server and the loss of the connection. Since an answer may let in a guest it
was not given for, `own` says whether the present guest was let in by the answer
about itself, `astray` whether any answer so far reached another guest than it is
about, `heard` whose join request was received last and `born` for whose stay a
stream was opened; the properties of guests name these conditions.

**GuestRelay** is the guest's process: the reader (`reader`, `held`), the flow
from `Handshake` to the end of `JoinAsGuest` (`guest`), every local connection
(`local`) with its two pumps (`l2r`, `r2l`) and `Run`'s first result
(`firstError`), the proxy's and the relay's cancellations, the displayed `stage`
and the life of RunConnect with the `Close` after it (`app`). Handing a message
over an unbuffered channel is one step of both sides (`Receive`). `live` counts
the containers of the client's pool that are in use.

**PayloadCodec** is the contents of a pooled message: the fields of each typed
payload, writing and reading them with word arithmetic modulo `Modulus`, the
length and checksum of the header, and ADB messages embedded in raw payloads.
One cell of the buffer is a byte of a string or a whole integer, and the words
are few, so every payload can be enumerated; `Encode` and `Holds` are the
reference the parser is compared with.

**Pool / ObjectPool / MessagePool**: Pool says when a container may be handed
out; ObjectPool has the list, the counters and both mutexes and implements it;
MessagePool follows each buffer through readers, handlers and `Send...` calls
and records what its length field claims.

Abstractions common to all: names, keys, texts, logging, checksums and layouts
are left out; ids are model values; a payload is a kind (RoomManager), a number
(MessagePool), cells (PayloadCodec) or nothing (ConnectionManager, GuestRelay).

## 3. What the runs check

Every module states the types of its variables (`TypeOK`, `CMTypeOK`,
`SessionTypeOK`). The room manager's, which says that no handler stores, clears
or closes a nil connection, is also a property of a run; the others are part of
the inductive invariants of section 4.

| Run | Instance | Question |
|---|---|---|
| `rm_safety` | 3 clients, 2 ids, 4 messages, channels of 1 | membership, eviction, places: `OneRoomPerOwner`, `ReapedLeavesRooms`, `RemovedRoomEvicts`, `GuestSlotNotStolen` |
| `rm_live` | 2 clients, channels of 2, 3 messages | does every eviction complete, is every message taken |
| `cm` | 2 connections, channels of 1, 1 message | refinement of ClientLink, when closers can block, what a returned `Close` means, is every broken connection announced, does `Stop` end |
| `session_safety` | owner, 3 guests, 5 messages | when can an answer reach the wrong guest, is one prompt enough |
| `mux_safety` | 2 streams, 2 guests that ask to join, 1 WRTE | flow control, one CLSE, no leaked device connection, isolation of guests |
| `mux_live` | 1 stream, 2 guests that ask to join, 1 WRTE | pumps end, the end of a service reaches the guest, every WRTE is answered, a departed guest's streams are released |
| `pool` | 3 users, 3 containers, list of 2 | refinement of Pool, deadlock, every call returns |
| `guest` | 2 local connections, 5 messages from the transporter | containers, clean-up before `Close`, what the TUI shows at the end, whose pump takes a message, does a loss or a quit end the guest and everything it started |
| `codec` | payloads of 4 cells, 4-bit words 0, 1, 2, 15, strings up to 2, 2 uses | does parsing agree with the reference (and which lengths does `DecodeMessage` take wrongly), does what is sent arrive, are ADB messages relayed verbatim |
| `msg_safety` | 2 readers, 3 buffers, 4 payloads | one owner per buffer, contents intact |

Why the bounds suffice. A room involves at most two clients; the third one is the
rival for a place or a room. Four messages are enough to create a room, ask,
answer and do one thing more, and the search is exhaustive over their kinds and
orders. Channels of one slot make them full with two connections, which is the
only effect their capacity has. In the session three guests allow a request to
be overtaken twice. Two streams let a leftover of the first be taken for the
second. With a single stream id per guest they are opened one after the other, by
one guest or two: two streams of one guest open at the same time are beyond an
exhaustive search (more than 11 million states when it was given up), so their
interplay through the dispatcher is covered only by the proofs of section 4,
liveness not at all. Two guests are enough for an answer to go astray and for the
second one to find what the first left. A guest let in by its own answer after an
earlier answer went astray, and streams of two guests open at once, take a third
one: the five properties of `mux_safety` hold in that instance, too, without a WRTE
of the guests (4 million states), and with any number of either by the proofs. Three
users fill a
list of two and drop a container. Two local connections are one that is relayed
and one that waits for its hand-over, or two relays in a row; after the two
answers three messages of either kind reach one relay, the idle loop in between
and the next. A payload of four cells has room for an integer and a string, for
three strings, and for an ADB message with data; words 0, 1, 2 and the largest
one hit, miss by one and wrap every bound check; two uses make every buffer stale
once. No instance relies on a counter reaching its bound: the bounds only stop
the search. Symmetry is used for interchangeable connections, ids and buffers, in
runs without liveness properties only. The session's VIEW leaves out variables
that no step and no checked property reads in a later state (`out`, `strayed`,
`admitted`).

Deadlock is checked for the pool, whose users go on for ever. The other systems
may stop: nobody has to connect, write or leave, and the bounds end the input.

### Fairness

Every goroutine that can run does in the end (the Go scheduler). A read on a
closed, broken or ended connection returns with an error; nothing obliges a
peer to send, leave or connect. `select` picks at random among the ready
channels, hence strong fairness for each receive. `sync.Mutex` hands itself to a
starving waiter, hence strong fairness in the pool. The safety
specifications (`Spec`) assume none of this.

In `mux_live` a guest that stays receives what it is sent and its adb answers; a
device need not read, end or produce anything, and `OpenStream` need not be
answered. Nothing makes the dispatcher's call return while it is in
`DispatcherWaits`, that is in `OpenStream` (`smartSocket.go:92-109`) or in a write
to a service that is up (`owner.go:199`): neither has a deadline, a service may
never read its input, or read it only once its own output is taken, which is the
pump's business, which waits for an OKAY that lies behind the dispatcher. The three
properties that depend on the dispatcher end in `[]DispatcherWaits`; `PumpsEnd`
does not. In `guest` the transporter need not send, answer or read, and the local
adb-server need not write, read or leave: `LocalNeverReads` and
`TransporterNeverReads` are two waits without a deadline that the liveness
properties name. A third one is assumed away: the local adb-server answers
`connect` and `disconnect` (`executeCommand`, `smartSocket.go:143-157`), else
`JoinAsGuest` would not get on either. Weak
fairness is enough there for the `select`s, because messages and connections run
out.

`rm_live` needs channels that hold all connections. With fewer slots than
connections `EvictedIsReaped` is false: the room manager can block in
`internalCloseClient` on the channel only it drains. `BlocksOnlyPastPoolSize`
says exactly when (more than `ConnectionPoolSize` connections not yet reaped; the
code's constant is 10), and `cm`, with one slot for two connections, shows that
nothing else goes wrong: `BrokenIsAnnounced` and `StopTerminates` hold up to
`RMStuck`, that very state.

### Where the code and its documentation differ

Each of these runs checks one sentence of a comment and finds a behaviour of the
code that contradicts it; `PROJECT.json` quotes them.

| Run | Property | Behaviour |
|---|---|---|
| `msg_guest_left` | `NoPayloadWhenNoneMeant` | `CommandGuestLeft` carries the payload length of the previous use of its buffer |
| `session_verified` | `AcceptedWasVerified` | an accept reaches a guest it was not given for |

Further differences. These definitions stand at the end of their modules, do not
hold and have no run of their own. The counterexample appears when the
definition is added to the named instance, with the changes the table names.

| Definition | Instance | Behaviour |
|---|---|---|
| `AdbOnlyAfterAccept` | `rm_safety` | "once the owner accepts the join request the transporter blindly forwards" (`src/README.md:14-16`); forwarding starts with the request (`roomManager.go:230-255`) |
| `OneRoomPerClient` | `rm_safety` | the log message says "a client can't occupy more than 1 room" (`roomManager.go:126`); `handleJoinRoom` does not check membership |
| `NoDepartedGuest` | `rm_safety` | `CommandGuestLeft` is sent "when the guest disconnects from an active room" (`constants.go:13-15`); a join request overtaken by its sender's disconnect puts a dead guest in the room, and nothing clears the place |
| `MootDecisionIsHarmless` | `session_safety` | the decline given for a departed guest (`share.go:322-327`) declines the next one |
| `NoLeakedPrompt` | `session_safety` | `pendingRespond` is overwritten (`share.go:229`) and its first goroutine waits for the rest of the session |
| `StopLeavesNoConnection` | `cm` | a connection registered after `Stop`'s copy of the list survives (`connectionManager.go:121`) |
| `StopCausesReturn` | `cm` | a `Stop` that runs before the listener is published does not end `StartServer` |
| `ListenerFailureReturns` | `cm` | a listener that failed for good is retried for ever (`connectionManager.go:94-101`) |
| `EndIsShown` | `guest` | a connection lost while the join request is undecided ends the flow "already reflected via a GuestTransportLost event" (`connect.go:108-110`), but `roomJoinStep` emits none (`guestController.go:103-105`): the TUI goes on showing "joining" |
| `CancelEndsGuest` | `guest` | JoinAsGuest runs "until ctx is cancelled" (`guestController.go:22-24`); `Handshake` and `roomJoinStep` wait for their answer without looking at the context, and `RunConnect` waits for them |
| `IdleReceivesNothing` | `mux_safety` | "nothing should legitimately arrive here" (`guestController.go:68-70`); what the owner still sends on the streams of a relay that has ended does |
| `DecodedIsWhole` | `codec` | `DecodeMessage` takes data "with no trailing bytes" (`adbMessage.go:143-144`); it accepts trailing bytes |
| `DecodedDataIsThere` | `codec` | `DecodeMessage` refuses a message whose "declared data length exceeds the available buffer" (`adbMessage.go:160-161`); the sum is taken in 32 bits, so a length within the header size of 2^32 is accepted, and `Data` or `DataString`, which the owner calls next (`owner.go:137`, `139`), panics |
| `OneGuestsStreams` | `mux_safety` with `MaxSessions = 3`, `MaxWrites = 0` | "only one guest is ever active at a time, so every currently open stream necessarily belonged to it" (`ownerController.go:85-86`); a guest let in by an answer about another one can lose its place without a `GuestLeft` (`roomManager.go:210-224`), and its streams are then open beside the next guest's |

The passing properties next to them bound the damage: `ReapedLeavesRooms` names
the only two ways into a stale room, `CrossedOnlyAfterDeparture` the only way an
answer goes astray, `EndIsShownOnceJoined` the only end that is not shown.
`SessionIsolation` holds for every guest that was let in by its own answer, also
when streams of an earlier one are still open (`OneGuestsStreams`), and
`NoDeviceLeak` says that as long as no answer went astray there are none; a guest
let in by an answer meant for an earlier one may find that one's messages under
way, and nothing is promised to it. `DecodeMatchesReference` (in
`ParsersMatchReference`) says that the lengths that wrap are the only ones
`DecodeMessage` takes wrongly, and that `Data` returns what was sent for all others.

## 4. What is proved

Each theorem holds for every value of the constants that the named assumptions
of its module allow: any connections, streams, guests, containers and messages,
in any number. The assumptions say that bounds are natural numbers, that a
channel has at least one slot, and that the values standing for nil or for a
particular goroutine are not among the objects. The sets of objects may be
infinite; what has to be finite in a proof (the references to a container, the
connections already started) is part of the invariant.

Every proof has the same outline: an inductive invariant, the conjunction of
named parts; one lemma per part and group of actions; `...Invariant` puts them
together; the properties are read off. Each of these invariants was checked with
TLC, on the instance of the component's safety run, before it was proved.

**RoomManagerProofs**

| Theorem | States |
|---|---|
| `TypeCorrect` | `Spec => []TypeOK` |
| `OneRoomPerOwnerCorrect` | `Spec => []OneRoomPerOwner` |
| `ReapedLeavesRoomsCorrect` | `Spec => []ReapedLeavesRooms` |
| `RemovedRoomEvictsCorrect` | `Spec => RemovedRoomEvicts` |
| `GuestSlotNotStolenCorrect` | `Spec => GuestSlotNotStolen` |

First the list operations: what a lookup returns (`FirstOfIsMatch`, by the
well-foundedness of `<`) and what removing an element leaves
(`RemoveAtElements`). Then every handler is summarised by its effect on the list
(`Created`, or `Reshaped` by an order-preserving map of positions that keeps
owners and at most empties or fills a place); all later proofs use the summary
and not the handlers. `ReapedLeavesRooms` is not inductive: that cleaning the
first room of a departed client cleans all of them needs `OnlyStrayedInTwoRooms`,
and that needs nothing else; the conjunction with `OneRoomPerOwner` is the
inductive invariant `Membership`. The two action properties follow from the same
summary, type correctness and unique owners. That a connection is announced once
(`AnnouncedOnce`) follows from ClientLink alone and is a lemma for
RoomSessionProofs; that the code keeps to ClientLink is `ImplementsClientLink`.

**ConnectionManagerProofs**

| Theorem | States |
|---|---|
| `ConnInvariant`, `TypeCorrect` | `Spec => []ConnInv`, `Spec => []CMTypeOK` |
| `BlocksPastPoolSize` | `Spec => []BlocksOnlyPastPoolSize` |
| `CloseIsComplete` | `Spec => CloseReturnsAnnounced` |
| `Implements` | `Spec => ImplementsClientLink` |

`ConnInv` says who may be inside `internalCloseClient` for a connection
(`OnceInv`: one thread inside `closeOnce`, and the reader that reports a version
mismatch, which goes round it), and that whoever took the connection off the
list, and only that thread, announces it (`AnnounceInv`, `ChannelInv`). `CallInv`
is what makes that enough: the room manager closes only connections whose
messages it received, so never one whose handshake failed, and the reader of a
mismatch never meets it. The refinement maps a connection to "closing" once its
socket is closed and to "closed" when it is announced: every step is a step of
ClientLink for the connection concerned, or a stutter. `BlocksOnlyPastPoolSize`
counts: the waiting announcements are distinct connections that left the list
(`ChannelInv`), and the one whose announcement blocks is not among them.

**RoomSessionProofs**

| Theorem | States |
|---|---|
| `SessionIsRoomManager` | `SessionSpec => Spec` (of RoomManager) |
| `SessionInvariant` | `SessionSpec => []SessionInv` |
| `CrossedOnlyAfterDepartureCorrect` | `SessionSpec => []CrossedOnlyAfterDeparture` |
| `JoinedIsInRoomCorrect` | `SessionSpec => []JoinedIsInRoom` |
| `OneRequestAtATimeCorrect` | `SessionSpec => []OneRequestAtATime` |

The session is a RoomManager whose clients follow the join flow, so its theorems
carry over; `AnnouncedOnce` is used to know that the guest whose disconnect
empties the room is closed. The rest counts messages. `Flight(c)` is the number
of c's messages that the room manager has not taken, on the wire, with its reader
or in the channel. A guest asks once, so its request is in one of those places,
or on its way to the owner, or with a goroutine (`TokenInv`); `CreateRoom` comes
first and the rest of what the owner has under way are its answers, as many as
decisions (`CreateInv`, `AboutInv`). `PlaceInv` is the heart: a guest about whom
the owner has still to decide, or whose answer is not handled, has the place in
the room, unless it left, was put out by a stray answer, or the room is gone. An
answer handled while somebody else has the place is therefore about a guest that
lost it, which is `CrossedOnlyAfterDeparture`, and two such guests at a time are
impossible, which is `OneRequestAtATime`. Whoever was told that it is in has been
decided about, so no answer is left that could put it out (`ToldInv`). Most steps
change none of this; `Quiet` says so once, and `QuietKeeps` deals with them all.

**OwnerMultiplexerProofs**

| Theorem | States |
|---|---|
| `OwnerInvariant`, `TypeCorrect` | `Spec => []OwnerInv`, `Spec => []TypeOK` |
| `FlowControl` | `Spec => []OneUnacknowledgedWrite` |
| `TokenIsNotLost` | `Spec => []TokenNotLost` |
| `ClosedOnce` | `Spec => []OneClosePerStream` |
| `DevicesAreReleased` | `Spec => []NoDeviceLeak` |
| `GuestsAreIsolated` | `Spec => []SessionIsolation` |

These close what `mux_safety` leaves open, since two streams of one guest open at
the same time are too many states for TLC. Besides the life of a stream and its
closers (`CloseInv`, `StreamInv`, `CloseAllInv`), `OwnerInv` says what may lie in
the two queues: every message names streams the owner allocated, and what a guest
sends comes from the stage it is in (`MessageInv`). Nothing is assumed about when a
guest comes or goes; what isolates guests is the order of the join requests
(`JoinInv`). Requests arrive in the order in which guests got the place
(`RequestOrder`). A guest that waits has sent nothing behind its request, and
earlier guests can send nothing any more, so when the dispatcher receives the
request it has handled all there was, and while the guest waits nothing more can
arrive (`ArrivalInv`). The answer about a guest comes after that, so a guest that
is let in by it finds no message of an earlier guest on its way to the owner or
with the dispatcher, and behind its answer no OKAY meant for one (`OwnInv`). From
then on its unused ids name no stream (`GuestStreamInv`, for a `Rightful` guest),
and `SessionIsolation` follows. As long as no answer went astray a guest that opened streams left by
disconnecting, so its `GuestLeft` lies before the next request and its streams are
closed by then (`DepartureInv`), which is the last part of `NoDeviceLeak`. The
token is counted over the permit, the pump and both queues: `OrderInv` (the OKAY
that opens a stream comes before any WRTE on it) is what makes the count exactly
one from the moment the stream is wanted (`TokenInv`), and `TokenNotLost` follows.

**ObjectPoolProofs**

| Theorem | States |
|---|---|
| `PoolInvariant`, `TypeCorrect` | `Spec => []PoolInv`, `Spec => []TypeOK` |
| `HeldIsUsable` | `Spec => []UsableWhileHeld` |
| `FreeIsFree` | `Spec => []FreeIsUnreferenced` |
| `Implements` | `Spec => ImplementsPool` |

`LockInv` says which part of a call holds which mutex, `CountInv` that a
container has been disposed of as often as it is no longer referred to. The
delicate part is `FreeInv`: a container on the list, or already popped by the
next `Obtain`, may still be worked on, but only by the Dispose that released it
and has only its unlocking left.

**MessagePoolProofs**

| Theorem | States |
|---|---|
| `BufferInvariant`, `TypeCorrect` | `Spec => []BufferInv`, `Spec => []TypeOK` |
| `NoBufferLeaks` | `Spec => []BuffersAccountedFor` |
| `MessagesStayIntact` | `Spec => []HandedOverIntact` |
| `PayloadIsTheOneMeant` | `Spec => []PayloadAsMeant` |

A buffer is with a reader, with a `Send...` call, in the channel or with the
handler, and never in two of these places (`HoldInv`, `Exclusive`); the pool
counts one reference exactly then (`CountInv`). Contents then only change in the
hands of the one that fills the buffer (`ContentInv`).

**GuestRelayProofs**

| Theorem | States |
|---|---|
| `GuestInvariant`, `TypeCorrect` | `Spec => []GuestInv`, `Spec => []TypeOK` |
| `ContainersAreAccountedFor` | `Spec => []ContainersAccountedFor` |
| `IsCleanedUpBeforeClose` | `Spec => []CleanedUpBeforeClose` |
| `EndIsShownAfterJoin` | `Spec => []EndIsShownOnceJoined` |
| `OnlyCurrentRelayTakes` | `Spec => TakenByCurrentRelay` |

`RelayInv` ties the pumps, the connections and `relay.Run` to the one connection
being relayed, whatever the others are doing; the containers in use are then at
most one per place, which makes the count exact. `CleanUpInv` and `StageInv` say
what is set up and what is shown at every point of `JoinAsGuest`.

**PayloadCodecProofs**

| Theorem | States |
|---|---|
| `TypeCorrect` | `Spec => []TypeOK` |
| `SentArrives` | `Spec => []SentIsReceived` |
| `ParsersAgree` | `Spec => []ParsersMatchReference` |

For words of any width, any set of words in the cells a peer sends (lengths that
would wrap included) and any sizes, as long as the payload and a string that is
sent stay below the largest word together (`WordAssumption`; 0xF000 bytes and a
string in memory against 2^32) and an ADB message fits into a payload
(`EmbeddingAssumption`; 0x0018 + 0x8000 against 0xF000).
`WriteFields`, `GetPayload` and `Encode` are folds over the
fields. An induction over the number of fields, by the least one that would be
missing, gives each fold a function that satisfies its equation (`FoldExists`),
and with it the states after 0, 1, ..., n fields (`WriteUnfolds`,
`ReadUnfolds`, `EncodeUnfolds`). `Laid(fields, v, O, b, len)` says that
the buffer b holds the values v one after the other, the k-th ending at O[k].
Writing without an error lays the values out (`WriteLays`), and nothing behind
the offset matters; reading returns what is laid out (`LaidIsRead`) and accepts
nothing else (`ReadIsLaid`); and a payload begins with the encoding of v if and
only if v is laid out in it (`PrefixIsLaid`, `HoldsIsLaid`), so there is at most
one such v. For `DecodeMessage` the sum of header and declared length is what it
should be unless it wraps, and then it is below the header size and always
accepted: the theorem says so, and what `Data` does in either case.
`ParsersMatchReference` is then a statement about one state
(`InvGetMatchesReference`, `InvDecodeMatchesReference`). `SentIsReceived` also needs to know how the message came about: the invariant (`Inv`) says that
after a `Set...` the buffer is what `WriteFields` made of some buffer
(`SetIsWritten`), that an ADB message is there as a whole (`AdbIsWritten`), that the
length and checksum are those of the payload in both cases, and that a message
`Read` accepted fits into the buffer (`ReadFits`).

Only model-checked: liveness, in all modules. It rests on fairness and ENABLED,
which the prover does not handle. These properties are `EvictedIsReaped` and
`MessageIsHandedOver` (`rm_live`), `BrokenIsAnnounced` and `StopTerminates` (`cm`),
`PumpsEnd`, `DeviceEndReachesGuest`, `WriteIsAnswered` and
`DepartedGuestIsReleased` (`mux_live`), `CallsReturn` (`pool`), `LossEndsGuest` and
`QuitEnds` (`guest`). Every other property of a passing run is stated by a theorem.

No module declares a RECURSIVE operator.

## 5. Not modelled

* Back-pressure between the transporter and its clients: a write of the room
  manager returns at once, so a peer that does not read never stalls its single
  goroutine here. (On the client's side blocked writes are modelled: to the
  device in OwnerMultiplexer, to both ends of the relay in GuestRelay.)
* The composition of GuestRelay with OwnerMultiplexer, and of RoomSession with it:
  OwnerMultiplexer keeps of the guest's process and of the room what its own
  properties depend on (`stage`, the place, the answers).
* The write mutex of the client: a message is written in one step everywhere.
* Packet capture. `pcapwriter.Writer` has no lock and is called by the reader and
  by the senders, so records of a debug capture can interleave.
* Byte order and field widths, certificates and keys, views, wiring and
  logging: no state over time, or pure input and output.
* `RoomManager.Stop` and `RunOwner`, which the program does not call.

## 6. Plan

1. Core: RoomManager over ClientLink, its invariants and proofs (done);
   ConnectionManager refining ClientLink (done).
2. RoomSession, OwnerMultiplexer, ObjectPool refining Pool, MessagePool (done).
3. GuestRelay and PayloadCodec; the room's place and answers, restarted relays and
   calls without a deadline in OwnerMultiplexer; liveness of ConnectionManager over
   full channels (done). Still to model: GuestRelay in place of the guest's process
   in OwnerMultiplexer, bounded wires for back-pressure.
4. Proofs of all safety properties that the passing runs check, and of both
   refinements (done).
