------------------------------ MODULE RoomSession ------------------------------
(***************************************************************************)
(* The join flow end to end: the transporter's room manager, one owner     *)
(* client (client/controller/ownerController.go with the operator's TUI of *)
(* client/tui/share.go) and guest clients (roomJoinStep of                 *)
(* client/controller/guestController.go).  Each guest asks once, and may   *)
(* leave at any time; so may the owner.  ADB traffic, the automatic accept *)
(* and what the TUI only displays are left out.                            *)
(*                                                                         *)
(* toServer and toClient are the two directions of every TLS connection;   *)
(* what the room manager wrote in a step (out') is put on the wire.        *)
(***************************************************************************)
EXTENDS RoomManager

CONSTANT Owner   \* the connection of the sharing client

ASSUME OwnerAssumption == Owner \in Conns

Guests == Conns \ {Owner}

VARIABLES
    toServer,  \* messages on their way to the transporter
    toClient,  \* messages on their way to each client
    guestPc,   \* where roomJoinStep / JoinAsGuest of every guest is
    ownerPc,   \* where JoinAsRoomOwner is
    asks,      \* the handleJoinRequest goroutine about every guest
    pending,   \* whose respond channel m.pendingRespond is (NoConn: nil)
    about,     \* history: whose decisions the join answers under way are
    crossed    \* history: misdirected answers: asked, decision, and reached

clientVars == <<guestPc, ownerPc, asks, pending>>
sessionVars == <<vars, toServer, toClient, clientVars, about, crossed>>

\* A goroutine: "asking" until the TUI takes its joinRequestMsg, "waiting" for
\* the decision; then it has the operator's, or the TUI's own "moot" (no), and
\* is "answered" when it has sent it.
Decisions == {"yes", "no", "moot"}
AskStates == {"none", "asking", "waiting", "answered"} \cup Decisions

SessionTypeOK ==
    /\ toServer \in [Conns -> Seq(Bodies)]
    /\ toClient \in [Conns -> Seq([kind : Replies, from : Conns \cup {NoConn},
                                  to : Conns \cup {NoConn}])]
    /\ \A c \in Conns : \A i \in DOMAIN toClient[c] : toClient[c][i].to = c
    /\ guestPc \in [Guests -> {"new", "waiting", "joined", "refused", "gone"}]
    /\ ownerPc \in {"new", "creating", "room", "guestLeft", "gone"}
    /\ asks \in [Guests -> AskStates]
    /\ pending \in Guests \cup {NoConn}
    /\ about \in Seq([asked : Guests, decision : Decisions])
    /\ crossed \in SUBSET [asked : Guests, decision : Decisions, reached : Guests]

SessionInit ==
    /\ Init
    /\ toServer = [c \in Conns |-> <<>>]
    /\ toClient = [c \in Conns |-> <<>>]
    /\ guestPc = [g \in Guests |-> "new"]
    /\ ownerPc = "new"
    /\ asks = [g \in Guests |-> "none"]
    /\ pending = NoConn
    /\ about = <<>>
    /\ crossed = {}

Send(c, body) == toServer' = [toServer EXCEPT ![c] = Append(@, body)]

Receive(c, kinds) ==
    /\ toClient[c] # <<>>
    /\ Head(toClient[c]).kind \in kinds
    /\ toClient' = [toClient EXCEPT ![c] = Tail(@)]

Errors == {"ErrorAlreadyInRoom", "ErrorRoomNotFound", "ErrorFull", "ErrorUnknown",
           "ErrorNoParticipant", "ErrorInvalidPayload"}

-----------------------------------------------------------------------------
(* The transporter *)

\* The connections; a reader closes once its peer is gone.
SessionConnections(c) ==
    /\ \/ Accept(c) /\ link'[c] = "open"
       \/ link[c] = "broken" /\ held[c] = NoBody /\ BeginClose(c)
       \/ Notify(c)
    /\ UNCHANGED <<roomVars, toServer, toClient, clientVars, about, crossed>>

SessionRead(c) ==
    /\ toServer[c] # <<>>
    /\ ReadMessage(c)
    /\ held'[c] = Head(toServer[c])
    /\ toServer' = [toServer EXCEPT ![c] = Tail(@)]
    /\ UNCHANGED <<toClient, clientVars, about, crossed>>

SessionEnqueue(c) ==
    /\ EnqueueMessage(c)
    /\ UNCHANGED <<toServer, toClient, clientVars, about, crossed>>

\* What the handler wrote is on its way.
Deliver ==
    toClient' = IF out'.kind = "nothing" THEN toClient
                ELSE [toClient EXCEPT ![out'.to] = Append(@, out')]

\* The answer being handled is for the guest that is in the room now, be it
\* the one asked about or another; it may also fail, and evict that guest.
Crossing ==
    LET a == Head(about)
        i == findRoomByOwner(Owner) IN
    crossed' = IF i # 0 /\ rooms[i].guest \notin {NoConn, a.asked}
               THEN crossed \cup {[asked |-> a.asked, decision |-> a.decision,
                                  reached |-> rooms[i].guest]}
               ELSE crossed

SessionHandleMessage ==
    /\ HandleMessage
    /\ Deliver
    /\ IF Head(clientMessageChannel).body.cmd = "JoinRoomResponse"
       THEN about' = Tail(about) /\ Crossing
       ELSE UNCHANGED <<about, crossed>>
    /\ UNCHANGED <<toServer, clientVars>>

SessionHandleDisconnected ==
    /\ HandleDisconnected
    /\ Deliver
    /\ UNCHANGED <<toServer, clientVars, about, crossed>>

SessionClose ==
    /\ CloseStart \/ CloseReturn
    /\ UNCHANGED <<toServer, toClient, clientVars, about, crossed>>

-----------------------------------------------------------------------------
(* The guest *)

\* roomJoinStep asks to join.
GuestJoins(g) ==
    /\ guestPc[g] = "new"
    /\ link[g] = "open"
    /\ \E id \in RoomIds : Send(g, [cmd |-> "JoinRoom", roomId |-> id])
    /\ guestPc' = [guestPc EXCEPT ![g] = "waiting"]
    /\ UNCHANGED <<vars, toClient, ownerPc, asks, pending, about, crossed>>

\* MUTANT: the answer's flag is not looked at.
GuestDecidedUnread(g) ==
    /\ guestPc[g] = "waiting"
    /\ \/ /\ Receive(g, {"JoinAccepted", "JoinDeclined"})
          /\ guestPc' = [guestPc EXCEPT ![g] = "joined"]
       \/ /\ Receive(g, Errors)
          /\ guestPc' = [guestPc EXCEPT ![g] = "refused"]
    /\ UNCHANGED <<vars, toServer, ownerPc, asks, pending, about, crossed>>

\* ... and takes the first message that arrives for the answer.
GuestDecided(g) ==
    /\ guestPc[g] = "waiting"
    /\ \/ /\ Receive(g, {"JoinAccepted"})
          /\ guestPc' = [guestPc EXCEPT ![g] = "joined"]
       \/ /\ Receive(g, {"JoinDeclined"} \cup Errors)
          /\ guestPc' = [guestPc EXCEPT ![g] = "refused"]
    /\ UNCHANGED <<vars, toServer, ownerPc, asks, pending, about, crossed>>

\* A joined guest ignores what arrives while no relay runs.
GuestIgnores(g) ==
    /\ guestPc[g] = "joined"
    /\ Receive(g, Replies)
    /\ UNCHANGED <<vars, toServer, clientVars, about, crossed>>

\* A guest's process ends, by itself or after a refusal.
GuestLeaves(g) ==
    /\ guestPc[g] \in {"waiting", "joined", "refused"}
    /\ PeerGone(g)
    /\ guestPc' = [guestPc EXCEPT ![g] = "gone"]
    /\ UNCHANGED <<roomVars, toServer, toClient, ownerPc, asks, pending, about, crossed>>

\* The transporter has closed the connection.
GuestLost(g) ==
    /\ guestPc[g] \in {"waiting", "joined", "refused"}
    /\ link[g] \in {"closing", "closed"}
    /\ guestPc' = [guestPc EXCEPT ![g] = "gone"]
    /\ UNCHANGED <<vars, toServer, toClient, ownerPc, asks, pending, about, crossed>>

-----------------------------------------------------------------------------
(* The owner: createRoom, the dispatch loop, handleJoinRequest *)

OwnerCreates ==
    /\ ownerPc = "new"
    /\ link[Owner] = "open"
    /\ Send(Owner, [cmd |-> "CreateRoom"])
    /\ ownerPc' = "creating"
    /\ UNCHANGED <<vars, toClient, guestPc, asks, pending, about, crossed>>

OwnerRoomCreated ==
    /\ ownerPc = "creating"
    /\ Receive(Owner, {"RoomCreated"})
    /\ ownerPc' = "room"
    /\ UNCHANGED <<vars, toServer, guestPc, asks, pending, about, crossed>>

\* dispatchOwnerMessage: a join request gets its own goroutine.
OwnerJoinRequest ==
    /\ ownerPc = "room"
    /\ Receive(Owner, {"JoinRequest"})
    /\ asks' = [asks EXCEPT ![Head(toClient[Owner]).from] = "asking"]
    /\ UNCHANGED <<vars, toServer, guestPc, ownerPc, pending, about, crossed>>

\* dispatchOwnerMessage: the loop waits in emitOwner for the TUI to take it.
OwnerGuestLeft ==
    /\ ownerPc = "room"
    /\ Receive(Owner, {"GuestLeft"})
    /\ ownerPc' = "guestLeft"
    /\ UNCHANGED <<vars, toServer, guestPc, asks, pending, about, crossed>>

OwnerIgnores ==
    /\ ownerPc = "room"
    /\ Receive(Owner, Errors)
    /\ UNCHANGED <<vars, toServer, clientVars, about, crossed>>

\* handleJoinRequest sends the decision it got; the message names nobody.
OwnerAnswers(g) ==
    /\ ownerPc # "gone"
    /\ asks[g] \in Decisions
    /\ Send(Owner, [cmd |-> "JoinRoomResponse", accepted |-> asks[g] = "yes"])
    /\ about' = Append(about, [asked |-> g, decision |-> asks[g]])
    /\ asks' = [asks EXCEPT ![g] = "answered"]
    /\ UNCHANGED <<vars, toClient, guestPc, ownerPc, pending, crossed>>

\* The session ends: the operator quits, the timeout, a lost connection.
OwnerQuits ==
    /\ ownerPc # "gone"
    /\ PeerGone(Owner)
    /\ ownerPc' = "gone"
    /\ UNCHANGED <<roomVars, toServer, toClient, guestPc, asks, pending, about, crossed>>

-----------------------------------------------------------------------------
(* The TUI *)

\* Update takes a joinRequestMsg: the prompt is now about g.
PromptJoinRequest(g) ==
    /\ ownerPc # "gone"
    /\ asks[g] = "asking"
    /\ asks' = [asks EXCEPT ![g] = "waiting"]
    /\ pending' = g
    /\ UNCHANGED <<vars, toServer, toClient, guestPc, ownerPc, about, crossed>>

\* The operator answers the prompt on the screen.
PromptKey ==
    /\ ownerPc # "gone"
    /\ pending # NoConn
    /\ \E answer \in {"yes", "no"} : asks' = [asks EXCEPT ![pending] = answer]
    /\ pending' = NoConn
    /\ UNCHANGED <<vars, toServer, toClient, guestPc, ownerPc, about, crossed>>

\* handleOwnerEvent(OwnerGuestLeft): the prompt, if there is one, is declined.
PromptGuestLeft ==
    /\ ownerPc = "guestLeft"
    /\ ownerPc' = "room"
    /\ asks' = IF pending = NoConn THEN asks ELSE [asks EXCEPT ![pending] = "moot"]
    /\ pending' = NoConn
    /\ UNCHANGED <<vars, toServer, toClient, guestPc, about, crossed>>

-----------------------------------------------------------------------------
SessionNext ==
    \/ \E c \in Conns : SessionConnections(c) \/ SessionRead(c) \/ SessionEnqueue(c)
    \/ SessionHandleMessage \/ SessionHandleDisconnected \/ SessionClose
    \/ \E g \in Guests :
          \/ GuestJoins(g) \/ GuestDecided(g) \/ GuestIgnores(g)
          \/ GuestLeaves(g) \/ GuestLost(g)
          \/ OwnerAnswers(g) \/ PromptJoinRequest(g)
    \/ OwnerCreates \/ OwnerRoomCreated \/ OwnerJoinRequest \/ OwnerGuestLeft
    \/ OwnerIgnores \/ OwnerQuits \/ PromptKey \/ PromptGuestLeft

SessionSpec == SessionInit /\ [][SessionNext]_sessionVars

-----------------------------------------------------------------------------
(* Properties *)

\* The guests about whom the owner and the transporter may disagree: those
\* that have left, and those that got an answer meant for another one.
Disturbed == reaped \cup {x.reached : x \in crossed}

\* An answer reaches another guest than the one it is about only if that one
\* has left, or was itself refused by such an answer: as long as nobody leaves
\* before the answer is handled, an accept is for the guest whose fingerprint
\* the operator saw.
CrossedOnlyAfterDeparture ==
    /\ crossed # {} => reaped # {}
    /\ \A x \in crossed : x.asked \in Disturbed

\* As long as no answer went astray, a connected guest that was told it is in
\* the room is the guest of the owner's room, so its traffic has a peer.
JoinedIsInRoom ==
    crossed = {} =>
      \A g \in Guests :
        guestPc[g] = "joined" /\ link[g] = "open" /\ link[Owner] = "open" =>
           \/ \E i \in DOMAIN rooms : rooms[i].owner = Owner /\ rooms[i].guest = g
           \/ g \in ToSet(closing)

\* Nobody is asked about while another guest that is still there waits for its
\* answer (the room has one place, taken from the request on), so the single
\* prompt of the TUI is enough as long as nobody leaves.
OneRequestAtATime ==
    \A g, h \in Guests :
        /\ g # h
        /\ asks[g] \in {"asking", "waiting"} \cup Decisions
        /\ asks[h] \in {"asking", "waiting"} \cup Decisions
        => g \in Disturbed \/ h \in Disturbed

\* The caller "should display its fingerprint so the operator can verify it
\* out of band before accepting": no guest is accepted by an answer about
\* another one.
AcceptedWasVerified ==
    \A x \in crossed : x.decision # "yes"

(* What comments of the TUI say and the code does not do; see "Further
   differences" in the README. *)

\* "The decision is moot now, and handleJoinRequest's resulting
\* SendJoinRoomResponse is harmless - the transporter just reports the guest is
\* gone": the answer the TUI gives for a guest that left reaches nobody.
MootDecisionIsHarmless ==
    \A x \in crossed : x.decision # "moot"

\* "Unblock the goroutine waiting on this decision instead of leaking it": a
\* goroutine that waits for a decision is the one the prompt answers.
NoLeakedPrompt ==
    \A g \in Guests : asks[g] = "waiting" => pending = g
===============================================================================
