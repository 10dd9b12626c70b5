--------------------------- MODULE RoomSessionProofs ---------------------------
(***************************************************************************)
(* Proofs about RoomSession for any number of guests, room ids and         *)
(* messages: the session is a RoomManager with clients that follow the     *)
(* join flow, an answer goes astray only after a guest has left, a guest   *)
(* that was let in is in the room, and one prompt is enough.               *)
(***************************************************************************)
EXTENDS RoomSession, RoomManagerProofs, FiniteSetTheorems, FunctionTheorems

-----------------------------------------------------------------------------
(* Counting the messages of a kind in a queue *)

\* Where in the queue s the messages of M are.
Where(s, M) == {k \in DOMAIN s : s[k] \in M}
Count(s, M) == Cardinality(Where(s, M))

\* Counts are numbers;
LEMMA CountType ==
    ASSUME NEW T, NEW s \in Seq(T), NEW M
    PROVE  IsFiniteSet(Where(s, M)) /\ Count(s, M) \in Nat
  <1>1. Where(s, M) \subseteq 1..Len(s) /\ Len(s) \in Nat
    BY DEF Where
  <1>2. IsFiniteSet(1..Len(s))
    BY <1>1, FS_Interval
  <1>3. IsFiniteSet(Where(s, M))
    BY <1>1, <1>2, FS_Subset
  <1>. QED  BY <1>3, FS_CardinalityType DEF Count

\* ... an empty queue has none of the messages,
LEMMA CountEmpty ==
    ASSUME NEW s, NEW M, s = <<>>
    PROVE  Count(s, M) = 0
  <1>1. Where(s, M) = {}
    BY DEF Where
  <1>. QED  BY <1>1, FS_EmptySet DEF Count

\* ... sending adds one,
LEMMA CountAppend ==
    ASSUME NEW T, NEW s \in Seq(T), NEW m \in T, NEW M
    PROVE  Count(Append(s, m), M) = Count(s, M) + (IF m \in M THEN 1 ELSE 0)
  <1>. DEFINE n == Len(s) + 1
  <1>1. /\ Append(s, m)[n] = m /\ DOMAIN s = 1..Len(s) /\ Len(s) \in Nat
        /\ DOMAIN Append(s, m) = 1..n
        /\ \A k \in 1..Len(s) : Append(s, m)[k] = s[k]
    BY AppendProperties
  <1>2. n \notin Where(s, M)
    BY <1>1 DEF Where
  <1>3. CASE m \in M
    <2>1. Where(Append(s, m), M) = Where(s, M) \cup {n}
      BY <1>1, <1>3 DEF Where
    <2>. QED  BY <1>2, <1>3, <2>1, CountType, FS_AddElement DEF Count
  <1>4. CASE m \notin M
    <2>1. Where(Append(s, m), M) = Where(s, M)
      BY <1>1, <1>4 DEF Where
    <2>2. Count(s, M) \in Nat
      BY CountType
    <2>. QED  BY <1>4, <2>1, <2>2 DEF Count
  <1>. QED  BY <1>3, <1>4

\* ... and receiving removes one.
LEMMA CountTail ==
    ASSUME NEW T, NEW s \in Seq(T), s # <<>>, NEW M
    PROVE  Count(s, M) = Count(Tail(s), M) + (IF Head(s) \in M THEN 1 ELSE 0)
  <1>1. /\ Tail(s) \in Seq(T) /\ Len(Tail(s)) = Len(s) - 1
        /\ Head(s) = s[1] /\ DOMAIN s = 1..Len(s) /\ Len(s) \in Nat \ {0}
        /\ DOMAIN Tail(s) = 1..(Len(s) - 1)
        /\ \A k \in 1..(Len(s) - 1) : Tail(s)[k] = s[k + 1]
    BY HeadTailProperties, EmptySeq
  <1>. DEFINE W == Where(Tail(s), M)
              V == Where(s, M) \ {1}
              f == [k \in W |-> k + 1]
  <1>2. f \in Bijection(W, V)
    <2>1. f \in [W -> V]
      BY <1>1 DEF Where
    <2>2. \A k, l \in W : f[k] = f[l] => k = l
      BY <1>1 DEF Where
    <2>3. \A v \in V : v - 1 \in W /\ f[v - 1] = v
      BY <1>1 DEF Where
    <2>. QED  BY <2>1, <2>2, <2>3, Fun_IsBij
  <1>3. IsFiniteSet(W) /\ IsFiniteSet(Where(s, M)) /\ Count(s, M) \in Nat
    BY <1>1, CountType
  <1>4. Cardinality(V) = Cardinality(W)
    BY <1>2, <1>3, FS_Bijection DEF ExistsBijection
  <1>5. /\ Cardinality(V) = IF 1 \in Where(s, M) THEN Count(s, M) - 1 ELSE Count(s, M)
        /\ Cardinality(W) = Count(Tail(s), M)
    BY <1>3, FS_RemoveElement DEF Count
  <1>6. 1 \in Where(s, M) <=> Head(s) \in M
    BY <1>1 DEF Where
  <1>. QED  BY <1>3, <1>4, <1>5, <1>6

-----------------------------------------------------------------------------
(* The inductive invariant *)

\* The owner's room is the only one there will be, and no guest of itself.
RoomShape ==
    /\ Len(rooms) =< 1
    /\ \A i \in DOMAIN rooms : rooms[i].owner = Owner /\ rooms[i].guest # Owner
InRoom(g) == rooms # <<>> /\ rooms[1].guest = g

\* The messages of c that the room manager has not taken yet: what they are,
\* and how many.
From(c) == {m \in Messages : m.sender = c}
Bag(c) ==
    ToSet(toServer[c]) \cup (IF held[c] = NoBody THEN {} ELSE {held[c]})
        \cup {clientMessageChannel[i].body :
                i \in {j \in DOMAIN clientMessageChannel : clientMessageChannel[j].sender = c}}
Reading(c) == IF held[c] = NoBody THEN 0 ELSE 1
Flight(c) == Len(toServer[c]) + Reading(c) + Count(clientMessageChannel, From(c))

\* What they can be.
Says(c) == IF c = Owner THEN {"CreateRoom", "JoinRoomResponse"} ELSE {"JoinRoom"}
SaysInv == \A c \in Conns : \A b \in Bag(c) : b.cmd \in Says(c)

\* CommandJoinRequests about g on their way to the owner.
Requests(g) == {m \in Outs : m.kind = "JoinRequest" /\ m.from = g}
Requested(g) == Count(toClient[Owner], Requests(g))

\* A guest asks once: its request is on one of its ways, or with a goroutine.
TokenInv ==
    \A g \in Guests :
        LET n == Flight(g) + Requested(g) + (IF asks[g] = "none" THEN 0 ELSE 1) IN
        n =< 1 /\ (guestPc[g] = "new" => n = 0)

\* Who was a client of the transporter stays one.
PresenceInv ==
    /\ \A g \in Guests : guestPc[g] # "new" => link[g] # "absent"
    /\ ownerPc # "new" => link[Owner] # "absent"

\* CreateRoom is the owner's first message; before it is handled nobody can
\* have asked.
Creating == \E b \in Bag(Owner) : b.cmd = "CreateRoom"
CreateInv ==
    /\ ownerPc = "new" => Flight(Owner) = 0
    /\ ownerPc = "new" \/ Creating =>
          /\ rooms = <<>> /\ about = <<>>
          /\ \A g \in Guests : asks[g] = "none" /\ Requested(g) = 0

\* The join answers under way and the decisions they carry.
AboutInv ==
    /\ Flight(Owner) = Len(about) + (IF Creating THEN 1 ELSE 0)
    /\ \A i \in DOMAIN about : asks[about[i].asked] = "answered"
    /\ \A i, j \in DOMAIN about : about[i].asked = about[j].asked => i = j

\* The prompt is about a goroutine that waits.
PromptInv == pending # NoConn => asks[pending] = "waiting"

\* The owner, its operator or the transporter is still to deal with g's request.
Deciding == {"asking", "waiting"} \cup Decisions
Answering(g) == \E i \in DOMAIN about : about[i].asked = g
Undecided(g) ==
    \/ Requested(g) # 0
    \/ asks[g] \in Deciding
    \/ Answering(g)

\* Whoever is asked about has the place in the room, unless it was disturbed or
\* the room is gone.
PlaceInv ==
    /\ \A g \in Guests : Undecided(g) => g \in Disturbed \/ rooms = <<>> \/ InRoom(g)
    /\ \A g, h \in Guests :
          Undecided(g) /\ Undecided(h) => g = h \/ g \in Disturbed \/ h \in Disturbed

\* Whoever was told that it is in, is in, until an answer goes astray.
Accepting(g) == \E i \in DOMAIN toClient[g] : toClient[g][i].kind = "JoinAccepted"
Told(g) == guestPc[g] = "joined" \/ Accepting(g)
ToldInv ==
    crossed = {} =>
      \A g \in Guests : Told(g) =>
          /\ asks[g] = "answered" /\ ~Answering(g)
          /\ link[g] = "open" /\ link[Owner] = "open" => InRoom(g) \/ g \in ToSet(closing)

FlowInv ==
    /\ RoomShape /\ SaysInv /\ TokenInv /\ PresenceInv /\ CreateInv /\ AboutInv
    /\ PromptInv /\ PlaceInv /\ CrossedOnlyAfterDeparture /\ ToldInv

SessionInv == SessionTypeOK /\ FlowInv

-----------------------------------------------------------------------------
(* The session's transporter is a room manager *)

\* Every step of the session is one of the room manager or leaves it alone.
LEMMA SessionStepsRoomManager ==
    ASSUME [SessionNext]_sessionVars
    PROVE  [Next]_vars
  <1>1. ASSUME NEW c \in Conns, SessionConnections(c)
        PROVE  Next
    BY <1>1 DEF SessionConnections, ConnectionStep, Next
  <1>2. ASSUME NEW c \in Conns, SessionRead(c) \/ SessionEnqueue(c)
        PROVE  Next
    BY <1>2 DEF SessionRead, SessionEnqueue, Next
  <1>3. CASE SessionHandleMessage \/ SessionHandleDisconnected \/ SessionClose
    BY <1>3 DEF SessionHandleMessage, SessionHandleDisconnected, SessionClose, Next
  <1>4. ASSUME NEW g \in Guests, GuestLeaves(g)
        PROVE  Next
    BY <1>4 DEF GuestLeaves, ConnectionStep, Next, Guests
  <1>5. CASE OwnerQuits
    BY <1>5, OwnerAssumption DEF OwnerQuits, ConnectionStep, Next
  <1>6. ASSUME NEW g \in Guests,
               \/ GuestJoins(g) \/ GuestDecided(g) \/ GuestIgnores(g) \/ GuestLost(g)
               \/ OwnerAnswers(g) \/ PromptJoinRequest(g)
        PROVE  UNCHANGED vars
    BY <1>6 DEF GuestJoins, GuestDecided, GuestIgnores, GuestLost, OwnerAnswers,
                PromptJoinRequest
  <1>7. CASE \/ OwnerCreates \/ OwnerRoomCreated \/ OwnerJoinRequest \/ OwnerGuestLeft
             \/ OwnerIgnores \/ PromptKey \/ PromptGuestLeft
    BY <1>7 DEF OwnerCreates, OwnerRoomCreated, OwnerJoinRequest, OwnerGuestLeft,
                OwnerIgnores, PromptKey, PromptGuestLeft
  <1>8. CASE UNCHANGED sessionVars
    BY <1>8 DEF sessionVars
  <1>. QED
    BY <1>1, <1>2, <1>3, <1>4, <1>5, <1>6, <1>7, <1>8 DEF SessionNext

\* Whatever is proved of the room manager for arbitrary clients holds in the
\* session of one owner, its operator and their guests.
THEOREM SessionIsRoomManager == SessionSpec => Spec
  <1>1. SessionInit => Init
    BY DEF SessionInit
  <1>. QED  BY <1>1, SessionStepsRoomManager, PTL DEF SessionSpec, Spec

-----------------------------------------------------------------------------
(* Types *)

\* What the steps below need of the types.
LEMMA SessionDomains ==
    ASSUME TypeOK, SessionTypeOK
    PROVE  /\ DOMAIN toServer = Conns /\ DOMAIN toClient = Conns /\ DOMAIN held = Conns
           /\ DOMAIN guestPc = Guests /\ DOMAIN asks = Guests /\ DOMAIN link = Conns
           /\ \A c \in Conns : toServer[c] \in Seq(Bodies) /\ toClient[c] \in Seq(Outs)
           /\ \A c \in Conns : held[c] \in Bodies \cup {NoBody}
           /\ clientMessageChannel \in Seq(Messages) /\ closing \in Seq(Conns)
           /\ about \in Seq([asked : Guests, decision : Decisions])
           /\ pending \in Guests \cup {NoConn}
           /\ Guests \subseteq Conns /\ Owner \in Conns /\ Owner \notin Guests
           /\ NoConn \notin Conns /\ NoBody \notin Bodies
  BY OwnerAssumption, NilAssumption, NoBodyAssumption
     DEF TypeOK, SessionTypeOK, LinkTypeOK, Guests, Outs

\* Decisions are about guests.
LEMMA AboutTyped ==
    ASSUME TypeOK, SessionTypeOK
    PROVE  \A i \in DOMAIN about : about[i].asked \in Guests
  <1>. DEFINE T == [asked : Guests, decision : Decisions]
  <1>1. about \in Seq(T) /\ \A x \in T : x.asked \in Guests
    BY SessionDomains
  <1>. HIDE DEF T
  <1>. QED  BY <1>1

\* A message that is sent is the last of its queue;
LEMMA SendTyped ==
    ASSUME TypeOK, SessionTypeOK, NEW c \in Conns, NEW b \in Bodies, Send(c, b)
    PROVE  toServer' \in [Conns -> Seq(Bodies)]
  <1>1. toServer \in [Conns -> Seq(Bodies)]
    BY DEF SessionTypeOK
  <1>2. Append(toServer[c], b) \in Seq(Bodies)
    BY <1>1
  <1>. QED  BY <1>1, <1>2 DEF Send

\* ... receiving takes the first one from its queue.
LEMMA ReceiveTyped ==
    ASSUME TypeOK, SessionTypeOK, NEW c \in Conns, NEW kinds, Receive(c, kinds)
    PROVE  /\ toClient' \in [Conns -> Seq(Outs)]
           /\ \A d \in Conns : \A i \in DOMAIN toClient'[d] : toClient'[d][i].to = d
           /\ Head(toClient[c]) \in Outs /\ Head(toClient[c]).kind \in kinds
           /\ Head(toClient[c]) = toClient[c][1] /\ 1 \in DOMAIN toClient[c]
  <1>1. /\ toClient \in [Conns -> Seq(Outs)]
        /\ toClient[c] \in Seq(Outs) /\ toClient[c] # <<>>
        /\ \A d \in Conns : \A i \in DOMAIN toClient[d] : toClient[d][i].to = d
    BY DEF SessionTypeOK, Outs, Receive
  <1>2. toClient' = [toClient EXCEPT ![c] = Tail(@)] /\ Head(toClient[c]).kind \in kinds
    BY DEF Receive
  <1>. PICK q \in Seq(Outs) : q = toClient[c]
    BY <1>1
  <1>3. /\ Tail(q) \in Seq(Outs) /\ Head(q) \in Outs
        /\ Head(q) = q[1] /\ 1 \in DOMAIN q
        /\ \A i \in DOMAIN Tail(q) : i + 1 \in DOMAIN q /\ Tail(q)[i] = q[i + 1]
    BY <1>1, HeadTailProperties
  <1>4. \A d \in Conns : toClient'[d] = IF d = c THEN Tail(q) ELSE toClient[d]
    BY <1>1, <1>2
  <1>5. ASSUME NEW d \in Conns, NEW i \in DOMAIN toClient'[d]
        PROVE  toClient'[d][i].to = d
    <2>1. CASE d = c
      <3>1. toClient'[d] = Tail(q)
        BY <1>4, <2>1
      <3>2. i \in DOMAIN Tail(q)
        BY <1>5, <3>1
      <3>3. i + 1 \in DOMAIN toClient[c] /\ toClient'[d][i] = toClient[c][i + 1]
        BY <1>3, <3>1, <3>2
      <3>. QED  BY <1>1, <2>1, <3>3
    <2>2. CASE d # c
      BY <1>1, <1>4, <1>5, <2>2
    <2>. QED  BY <2>1, <2>2
  <1>6. toClient' \in [Conns -> Seq(Outs)]
    BY <1>1, <1>2, <1>3
  <1>. QED  BY <1>2, <1>3, <1>5, <1>6

\* What a handler writes goes to the client it names.
LEMMA DeliverTyped ==
    ASSUME TypeOK', SessionTypeOK, Deliver
    PROVE  /\ toClient' \in [Conns -> Seq(Outs)]
           /\ \A d \in Conns : \A i \in DOMAIN toClient'[d] : toClient'[d][i].to = d
  <1>1. /\ toClient \in [Conns -> Seq(Outs)] /\ out' \in Outs
        /\ \A d \in Conns : \A i \in DOMAIN toClient[d] : toClient[d][i].to = d
    BY DEF SessionTypeOK, Outs, TypeOK
  <1>2. CASE out'.kind = "nothing"
    <2>1. toClient' = toClient
      BY <1>2 DEF Deliver
    <2>. QED  BY <1>1, <2>1
  <1>3. CASE out'.kind # "nothing"
    <2>. PICK m \in Outs : m = out'
      BY <1>1
    <2>1. toClient' = [toClient EXCEPT ![m.to] = Append(@, m)]
      BY <1>3 DEF Deliver
    <2>2. ASSUME NEW d \in Conns
          PROVE  /\ toClient'[d] \in Seq(Outs)
                 /\ \A i \in DOMAIN toClient'[d] : toClient'[d][i].to = d
      <3>. PICK q \in Seq(Outs) : q = toClient[d]
        BY <1>1
      <3>1. /\ Append(q, m) \in Seq(Outs) /\ DOMAIN q = 1..Len(q)
            /\ DOMAIN Append(q, m) = 1..(Len(q) + 1)
            /\ Append(q, m)[Len(q) + 1] = m
            /\ \A i \in 1..Len(q) : Append(q, m)[i] = q[i]
        BY AppendProperties
      <3>2. toClient'[d] = IF d = m.to THEN Append(q, m) ELSE q
        BY <1>1, <2>1
      <3>3. CASE d = m.to
        <4>1. \A i \in 1..(Len(q) + 1) : i \in 1..Len(q) \/ i = Len(q) + 1
          BY LenProperties
        <4>. QED  BY <1>1, <3>1, <3>2, <3>3, <4>1
      <3>4. CASE d # m.to
        BY <1>1, <3>2, <3>4
      <3>. QED  BY <3>3, <3>4
    <2>3. toClient' \in [Conns -> Seq(Outs)]
      <3>1. DOMAIN toClient' = Conns
        BY <1>1, <2>1
      <3>2. toClient' = [d \in Conns |-> toClient'[d]]
        BY <1>1, <2>1
      <3>. QED  BY <2>2, <3>1, <3>2
    <2>. QED  BY <2>2, <2>3
  <1>. QED  BY <1>2, <1>3

-----------------------------------------------------------------------------
(* The messages under way to the room manager *)

\* A client's messages under way are counted by a number;
LEMMA FlightType ==
    ASSUME TypeOK, SessionTypeOK, NEW c \in Conns
    PROVE  Flight(c) \in Nat
  <1>1. Len(toServer[c]) \in Nat
    BY SessionDomains, LenProperties
  <1>2. Count(clientMessageChannel, From(c)) \in Nat
    BY SessionDomains, CountType
  <1>3. Reading(c) \in Nat
    BY DEF Reading
  <1>. QED  BY <1>1, <1>2, <1>3 DEF Flight

\* ... no number, no message,
LEMMA NoneUnderWay ==
    ASSUME NEW ts \in Seq(Bodies), NEW r \in Nat, NEW q \in Seq(Messages), NEW c \in Conns,
           Len(ts) + r + Count(q, From(c)) = 0
    PROVE  r = 0 /\ ToSet(ts) = {} /\ \A j \in DOMAIN q : q[j].sender # c
  <1>1. Len(ts) \in Nat
    BY LenProperties
  <1>2. Count(q, From(c)) \in Nat /\ IsFiniteSet(Where(q, From(c)))
    BY CountType
  <1>3. Len(ts) = 0 /\ r = 0 /\ Count(q, From(c)) = 0
    BY <1>1, <1>2
  <1>4. Where(q, From(c)) = {}
    BY <1>2, <1>3, FS_EmptySet DEF Count
  <1>5. \A j \in DOMAIN q : q[j] \in Messages
    OBVIOUS
  <1>6. \A j \in DOMAIN q : q[j].sender # c
    BY <1>4, <1>5 DEF Where, From
  <1>7. ToSet(ts) = {}
    BY <1>3 DEF ToSet
  <1>. QED  BY <1>3, <1>6, <1>7

\* ... now
LEMMA FlightEmpty ==
    ASSUME TypeOK, SessionTypeOK, NEW c \in Conns, Flight(c) = 0
    PROVE  Bag(c) = {}
  <1>1. toServer[c] \in Seq(Bodies) /\ clientMessageChannel \in Seq(Messages)
    BY SessionDomains
  <1>2. Reading(c) \in Nat /\ (Reading(c) = 0 => held[c] = NoBody)
    BY DEF Reading
  <1>3. Len(toServer[c]) + Reading(c) + Count(clientMessageChannel, From(c)) = 0
    BY DEF Flight
  <1>4. /\ held[c] = NoBody /\ ToSet(toServer[c]) = {}
        /\ \A j \in DOMAIN clientMessageChannel : clientMessageChannel[j].sender # c
    BY <1>1, <1>2, <1>3, NoneUnderWay
  <1>. QED  BY <1>4 DEF Bag

\* ... and in the next state.
LEMMA FlightEmptied ==
    ASSUME toServer' \in [Conns -> Seq(Bodies)], clientMessageChannel' \in Seq(Messages),
           NEW c \in Conns, Flight(c)' = 0
    PROVE  Bag(c)' = {}
  <1>1. toServer'[c] \in Seq(Bodies)
    OBVIOUS
  <1>2. Reading(c)' \in Nat /\ (Reading(c)' = 0 => held'[c] = NoBody)
    BY DEF Reading
  <1>3. Len(toServer'[c]) + Reading(c)' + Count(clientMessageChannel', From(c)) = 0
    BY DEF Flight
  <1>4. /\ held'[c] = NoBody /\ ToSet(toServer'[c]) = {}
        /\ \A j \in DOMAIN clientMessageChannel' : clientMessageChannel'[j].sender # c
    BY <1>1, <1>2, <1>3, NoneUnderWay
  <1>. QED  BY <1>4 DEF Bag

FlightSame(c) == Flight(c)' = Flight(c) /\ Bag(c)' = Bag(c)

\* What does not move stays.
LEMMA FlightUnchanged ==
    ASSUME UNCHANGED <<toServer, held, clientMessageChannel>>, NEW c
    PROVE  FlightSame(c)
  BY DEF FlightSame, Flight, Reading, Bag

\* The elements of a queue when one is sent,
LEMMA AppendSet ==
    ASSUME NEW T, NEW s \in Seq(T), NEW x \in T
    PROVE  ToSet(Append(s, x)) = ToSet(s) \cup {x} /\ Len(Append(s, x)) = Len(s) + 1
  <1>1. /\ DOMAIN s = 1..Len(s) /\ Len(s) \in Nat
        /\ DOMAIN Append(s, x) = 1..(Len(s) + 1) /\ Len(Append(s, x)) = Len(s) + 1
        /\ Append(s, x)[Len(s) + 1] = x
        /\ \A i \in 1..Len(s) : Append(s, x)[i] = s[i]
    BY AppendProperties, LenProperties
  <1>2. \A i \in 1..(Len(s) + 1) : i \in 1..Len(s) \/ i = Len(s) + 1
    BY <1>1
  <1>3. Len(s) + 1 \in 1..(Len(s) + 1) /\ 1..Len(s) \subseteq 1..(Len(s) + 1)
    BY <1>1
  <1>. QED  BY <1>1, <1>2, <1>3 DEF ToSet

\* ... and when one is received.
LEMMA TailSet ==
    ASSUME NEW T, NEW s \in Seq(T), s # <<>>
    PROVE  /\ Head(s) \in T /\ Tail(s) \in Seq(T)
           /\ ToSet(s) = ToSet(Tail(s)) \cup {Head(s)} /\ Len(s) = Len(Tail(s)) + 1
           /\ Len(Tail(s)) \in Nat
  <1>1. /\ Tail(s) \in Seq(T) /\ Head(s) \in T /\ Head(s) = s[1]
        /\ DOMAIN s = 1..Len(s) /\ Len(s) \in Nat \ {0}
        /\ Len(Tail(s)) = Len(s) - 1 /\ DOMAIN Tail(s) = 1..(Len(s) - 1)
        /\ \A i \in 1..(Len(s) - 1) : Tail(s)[i] = s[i + 1]
    BY HeadTailProperties, EmptySeq
  <1>2. \A x \in ToSet(s) : x = Head(s) \/ x \in ToSet(Tail(s))
    <2>1. ASSUME NEW i \in DOMAIN s, i # 1
          PROVE  s[i] \in ToSet(Tail(s))
      <3>1. i - 1 \in 1..(Len(s) - 1) /\ (i - 1) + 1 = i
        BY <1>1, <2>1
      <3>2. i - 1 \in DOMAIN Tail(s) /\ Tail(s)[i - 1] = s[i]
        BY <1>1, <3>1
      <3>. QED  BY <3>2 DEF ToSet
    <2>. QED  BY <1>1, <2>1 DEF ToSet
  <1>3. Head(s) \in ToSet(s)
    BY <1>1 DEF ToSet
  <1>4. ASSUME NEW i \in DOMAIN Tail(s)
        PROVE  Tail(s)[i] \in ToSet(s)
    <2>1. i + 1 \in DOMAIN s /\ Tail(s)[i] = s[i + 1]
      BY <1>1
    <2>. QED  BY <2>1 DEF ToSet
  <1>5. ToSet(Tail(s)) \subseteq ToSet(s)
    BY <1>4 DEF ToSet
  <1>. QED  BY <1>1, <1>2, <1>3, <1>5

\* The channel's part of Bag(c).
Queued(c) ==
    {clientMessageChannel[i].body :
       i \in {j \in DOMAIN clientMessageChannel : clientMessageChannel[j].sender = c}}

\* A message is sent by one client.
LEMMA FlightSent ==
    ASSUME TypeOK, SessionTypeOK, NEW c \in Conns, NEW b \in Bodies, Send(c, b),
           UNCHANGED <<held, clientMessageChannel>>
    PROVE  /\ Flight(c)' = Flight(c) + 1 /\ Bag(c)' = Bag(c) \cup {b}
           /\ \A d \in Conns : d # c => FlightSame(d)
  <1>1. /\ toServer[c] \in Seq(Bodies) /\ DOMAIN toServer = Conns
        /\ toServer' = [toServer EXCEPT ![c] = Append(@, b)]
    BY SessionDomains DEF Send
  <1>2. /\ toServer'[c] = Append(toServer[c], b)
        /\ \A d \in Conns : d # c => toServer'[d] = toServer[d]
    BY <1>1
  <1>3. /\ ToSet(toServer'[c]) = ToSet(toServer[c]) \cup {b}
        /\ Len(toServer'[c]) = Len(toServer[c]) + 1
    BY <1>1, <1>2, AppendSet
  <1>4. Flight(c) \in Nat /\ Len(toServer[c]) \in Nat
    BY <1>1, FlightType, LenProperties
  <1>5. Count(clientMessageChannel, From(c)) \in Nat
    BY SessionDomains, CountType
  <1>6. Flight(c)' = Flight(c) + 1
    <2>1. Reading(c)' = Reading(c) /\ Reading(c) \in Nat
      BY DEF Reading
    <2>. QED  BY <1>3, <1>4, <1>5, <2>1 DEF Flight
  <1>7. Bag(c)' = Bag(c) \cup {b}
    BY <1>3 DEF Bag
  <1>8. \A d \in Conns : d # c => FlightSame(d)
    BY <1>2 DEF FlightSame, Flight, Reading, Bag
  <1>. QED  BY <1>6, <1>7, <1>8

\* Its reader reads it
LEMMA FlightRead ==
    ASSUME TypeOK, SessionTypeOK, NEW c \in Conns, SessionRead(c), NEW d \in Conns
    PROVE  FlightSame(d)
  <1>1. /\ toServer[c] \in Seq(Bodies) /\ toServer[c] # <<>> /\ DOMAIN toServer = Conns
        /\ toServer' = [toServer EXCEPT ![c] = Tail(@)]
        /\ held[c] = NoBody /\ DOMAIN held = Conns /\ NoBody \notin Bodies
        /\ held'[c] = Head(toServer[c])
        /\ UNCHANGED clientMessageChannel
    BY SessionDomains DEF SessionRead, ReadMessage
  <1>2. \A e \in Conns : e # c => held'[e] = held[e]
    <2>1. PICK b \in Bodies : held' = [held EXCEPT ![c] = b]
      BY DEF SessionRead, ReadMessage
    <2>. QED  BY <1>1, <2>1
  <1>3. /\ toServer'[c] = Tail(toServer[c])
        /\ \A e \in Conns : e # c => toServer'[e] = toServer[e]
    BY <1>1
  <1>4. CASE d # c
    BY <1>1, <1>2, <1>3, <1>4 DEF FlightSame, Flight, Reading, Bag
  <1>5. CASE d = c
    <2>1. /\ Head(toServer[c]) \in Bodies
          /\ ToSet(toServer[c]) = ToSet(toServer'[c]) \cup {Head(toServer[c])}
          /\ Len(toServer[c]) = Len(toServer'[c]) + 1 /\ Len(toServer'[c]) \in Nat
      BY <1>1, <1>3, TailSet
    <2>2. held'[c] # NoBody
      BY <1>1, <2>1
    <2>3. Count(clientMessageChannel, From(c)) \in Nat
      BY SessionDomains, CountType
    <2>6. Reading(c) = 0 /\ Reading(c)' = 1
      BY <1>1, <2>2 DEF Reading
    <2>4. Flight(c)' = Flight(c)
      BY <1>1, <2>1, <2>3, <2>6 DEF Flight
    <2>5. Bag(c)' = Bag(c)
      BY <1>1, <2>1, <2>2 DEF Bag
    <2>. QED  BY <1>5, <2>4, <2>5 DEF FlightSame
  <1>. QED  BY <1>4, <1>5

\* ... and hands it over.
LEMMA FlightEnqueued ==
    ASSUME TypeOK, SessionTypeOK, NEW c \in Conns, SessionEnqueue(c), NEW d \in Conns
    PROVE  FlightSame(d)
  <1>. DEFINE m == [sender |-> c, body |-> held[c]]
  <1>1. /\ held[c] \in Bodies /\ held[c] # NoBody /\ DOMAIN held = Conns
        /\ held' = [held EXCEPT ![c] = NoBody]
        /\ clientMessageChannel \in Seq(Messages)
        /\ clientMessageChannel' = Append(clientMessageChannel, m)
        /\ UNCHANGED toServer
    BY SessionDomains DEF SessionEnqueue, EnqueueMessage
  <1>2. m \in Messages /\ m.sender = c /\ m.body = held[c]
    BY <1>1 DEF Messages
  <1>. HIDE DEF m
  <1>3. Len(toServer[d]) \in Nat /\ Count(clientMessageChannel, From(d)) \in Nat
    BY SessionDomains, LenProperties, CountType
  <1>4. Count(clientMessageChannel', From(d))
          = Count(clientMessageChannel, From(d)) + (IF d = c THEN 1 ELSE 0)
    <2>1. m \in From(d) <=> d = c
      BY <1>2 DEF From
    <2>. QED  BY <1>1, <1>2, <2>1, CountAppend
  <1>5. held'[d] = IF d = c THEN NoBody ELSE held[d]
    BY <1>1
  <1>6. Flight(d)' = Flight(d)
    <2>1. CASE d = c
      <3>1. Reading(d) = 1 /\ Reading(d)' = 0
        BY <1>1, <1>5, <2>1 DEF Reading
      <3>2. Count(clientMessageChannel', From(d)) = Count(clientMessageChannel, From(d)) + 1
        BY <1>4, <2>1
      <3>3. /\ Flight(d) = Len(toServer[d]) + 1 + Count(clientMessageChannel, From(d))
            /\ Flight(d)' = Len(toServer[d]) + 0 + Count(clientMessageChannel', From(d))
        BY <1>1, <3>1 DEF Flight
      <3>. QED  BY <1>3, <3>2, <3>3
    <2>2. CASE d # c
      <3>1. Reading(d)' = Reading(d)
        BY <1>5, <2>2 DEF Reading
      <3>2. Count(clientMessageChannel', From(d)) = Count(clientMessageChannel, From(d)) + 0
        BY <1>4, <2>2
      <3>3. Count(clientMessageChannel', From(d)) = Count(clientMessageChannel, From(d))
        BY <1>3, <3>2
      <3>. QED  BY <1>1, <3>1, <3>3 DEF Flight
    <2>. QED  BY <2>1, <2>2
  <1>7. Queued(d)' = Queued(d) \cup (IF d = c THEN {held[c]} ELSE {})
    <2>. PICK q \in Seq(Messages) : q = clientMessageChannel
      BY <1>1
    <2>1. /\ DOMAIN q = 1..Len(q) /\ Len(q) \in Nat
          /\ DOMAIN Append(q, m) = 1..(Len(q) + 1)
          /\ Append(q, m)[Len(q) + 1] = m
          /\ \A i \in 1..Len(q) : Append(q, m)[i] = q[i]
      BY <1>2, AppendProperties, LenProperties
    <2>2. /\ \A i \in 1..(Len(q) + 1) : i \in 1..Len(q) \/ i = Len(q) + 1
          /\ Len(q) + 1 \in 1..(Len(q) + 1) /\ 1..Len(q) \subseteq 1..(Len(q) + 1)
      BY <2>1
    <2>3. /\ Queued(d)' = {Append(q, m)[i].body :
                             i \in {j \in DOMAIN Append(q, m) : Append(q, m)[j].sender = d}}
          /\ Queued(d) = {q[i].body : i \in {j \in DOMAIN q : q[j].sender = d}}
      BY <1>1 DEF Queued
    <2>4. ASSUME NEW x
          PROVE  x \in Queued(d)' <=> x \in Queued(d) \/ (d = c /\ x = held[c])
      BY <1>2, <2>1, <2>2, <2>3
    <2>. QED  BY <2>4
  <1>8. Bag(d)' = Bag(d)
    BY <1>1, <1>5, <1>7 DEF Bag, Queued
  <1>. QED  BY <1>6, <1>8 DEF FlightSame

\* A message less in the last of three places is one less in all.
LEMMA OneLess ==
    ASSUME NEW l \in Nat, NEW r \in Nat, NEW k \in Nat, NEW n \in Nat,
           NEW f, NEW h, f = l + r + (k + n), h = l + r + k
    PROVE  f = h + n /\ h \in Nat
  OBVIOUS

\* The room manager takes the message.
LEMMA FlightTaken ==
    ASSUME TypeOK, SessionTypeOK, clientMessageChannel # <<>>,
           clientMessageChannel' = Tail(clientMessageChannel),
           UNCHANGED <<held, toServer>>,
           NEW m, m = Head(clientMessageChannel)
    PROVE  /\ m.sender \in Conns /\ m.body \in Bodies
           /\ Flight(m.sender) = Flight(m.sender)' + 1 /\ Flight(m.sender)' \in Nat
           /\ Bag(m.sender) = Bag(m.sender)' \cup {m.body}
           /\ \A d \in Conns : d # m.sender => FlightSame(d)
  <1>. PICK q \in Seq(Messages) : q = clientMessageChannel
    BY SessionDomains
  <1>1. m \in Messages /\ m.sender \in Conns /\ m.body \in Bodies
    BY HeadTyped, TailSet DEF Messages
  <1>2. /\ Tail(q) \in Seq(Messages) /\ m = q[1]
        /\ DOMAIN q = 1..Len(q) /\ Len(q) \in Nat \ {0}
        /\ DOMAIN Tail(q) = 1..(Len(q) - 1)
        /\ \A i \in 1..(Len(q) - 1) : Tail(q)[i] = q[i + 1]
    BY HeadTailProperties, EmptySeq
  <1>3. ASSUME NEW d \in Conns
        PROVE  /\ Flight(d) = Flight(d)' + (IF d = m.sender THEN 1 ELSE 0)
               /\ Flight(d)' \in Nat
               /\ Bag(d) = Bag(d)' \cup (IF d = m.sender THEN {m.body} ELSE {})
    <2>1. Len(toServer[d]) \in Nat /\ Count(Tail(q), From(d)) \in Nat
      BY <1>2, SessionDomains, LenProperties, CountType
    <2>2. Count(q, From(d)) = Count(Tail(q), From(d)) + (IF d = m.sender THEN 1 ELSE 0)
      <3>1. m \in From(d) <=> d = m.sender
        BY <1>1 DEF From
      <3>. QED  BY <3>1, CountTail
    <2>3. /\ Flight(d) = Flight(d)' + (IF d = m.sender THEN 1 ELSE 0)
          /\ Flight(d)' \in Nat
      <3>. PICK n \in {0, 1} : n = IF d = m.sender THEN 1 ELSE 0
        OBVIOUS
      <3>1. Count(q, From(d)) = Count(Tail(q), From(d)) + n
        BY <2>2
      <3>2. Reading(d)' = Reading(d) /\ Reading(d) \in Nat
        BY DEF Reading
      <3>3. /\ Flight(d) = Len(toServer[d]) + Reading(d) + Count(q, From(d))
            /\ Flight(d)' = Len(toServer[d]) + Reading(d) + Count(Tail(q), From(d))
        BY <3>2 DEF Flight
      <3>4. Flight(d) = Len(toServer[d]) + Reading(d) + (Count(Tail(q), From(d)) + n)
        BY <3>1, <3>3
      <3>5. n \in Nat
        OBVIOUS
      <3>6. Flight(d) = Flight(d)' + n /\ Flight(d)' \in Nat
        <4>1. PICK l, r, k \in Nat : /\ l = Len(toServer[d]) /\ r = Reading(d)
                                     /\ k = Count(Tail(q), From(d))
          BY <2>1, <3>2, Zenon
        <4>2. PICK f, h : f = Flight(d) /\ h = Flight(d)'
          OBVIOUS
        <4>3. f = l + r + (k + n) /\ h = l + r + k
          BY <3>3, <3>4, <4>1, <4>2
        <4>4. f = h + n /\ h \in Nat
          BY <3>5, <4>3, OneLess
        <4>. QED  BY <4>2, <4>4
      <3>. QED  BY <3>6
    <2>4. Queued(d) = Queued(d)' \cup (IF d = m.sender THEN {m.body} ELSE {})
      <3>1. /\ Queued(d)' = {Tail(q)[i].body :
                               i \in {j \in DOMAIN Tail(q) : Tail(q)[j].sender = d}}
            /\ Queued(d) = {q[i].body : i \in {j \in DOMAIN q : q[j].sender = d}}
        BY DEF Queued
      <3>2. ASSUME NEW i \in DOMAIN q, q[i].sender = d, i # 1
            PROVE  q[i].body \in Queued(d)'
        <4>1. i - 1 \in 1..(Len(q) - 1) /\ (i - 1) + 1 = i
          BY <1>2, <3>2
        <4>2. i - 1 \in DOMAIN Tail(q) /\ Tail(q)[i - 1] = q[i]
          BY <1>2, <4>1
        <4>. QED  BY <3>1, <3>2, <4>2
      <3>3. ASSUME NEW i \in DOMAIN Tail(q), Tail(q)[i].sender = d
            PROVE  Tail(q)[i].body \in Queued(d)
        <4>1. i + 1 \in DOMAIN q /\ Tail(q)[i] = q[i + 1]
          BY <1>2
        <4>. QED  BY <3>1, <3>3, <4>1
      <3>4. d = m.sender => m.body \in Queued(d)
        BY <1>2, <3>1
      <3>5. Queued(d)' \subseteq Queued(d)
        BY <3>1, <3>3
      <3>6. \A x \in Queued(d) : x \in Queued(d)' \/ (d = m.sender /\ x = m.body)
        BY <1>2, <3>1, <3>2
      <3>. QED  BY <3>4, <3>5, <3>6
    <2>5. Bag(d) = Bag(d)' \cup (IF d = m.sender THEN {m.body} ELSE {})
      BY <2>4 DEF Bag, Queued
    <2>. QED  BY <2>3, <2>5
  <1>4. \A d \in Conns : d # m.sender => FlightSame(d)
    <2>. TAKE d \in Conns
    <2>. HAVE d # m.sender
    <2>1. /\ Flight(d) = Flight(d)' + 0 /\ Flight(d)' \in Nat
          /\ Bag(d) = Bag(d)' \cup {}
      BY <1>3
    <2>. QED  BY <2>1 DEF FlightSame
  <1>. QED  BY <1>1, <1>3, <1>4

-----------------------------------------------------------------------------
(* The messages under way to the clients *)

\* Requests to the owner are counted by a number.
LEMMA RequestedType ==
    ASSUME TypeOK, SessionTypeOK, NEW g
    PROVE  Requested(g) \in Nat
  BY SessionDomains, CountType DEF Requested

\* Taking anything but a join request leaves the requests to the owner alone,
\* and whoever will be told was going to be told before.
LEMMA ReceiveKeeps ==
    ASSUME TypeOK, SessionTypeOK, NEW c \in Conns, NEW kinds, Receive(c, kinds),
           c # Owner \/ "JoinRequest" \notin kinds
    PROVE  /\ \A g \in Guests : Requested(g)' = Requested(g)
           /\ \A g \in Guests : Accepting(g)' => Accepting(g)
  <1>. PICK q \in Seq(Outs) : q = toClient[c]
    BY SessionDomains
  <1>1. /\ q # <<>> /\ Head(q).kind \in kinds /\ DOMAIN toClient = Conns
        /\ toClient' = [toClient EXCEPT ![c] = Tail(q)]
    BY SessionDomains DEF Receive
  <1>2. \A d \in Conns : toClient'[d] = IF d = c THEN Tail(q) ELSE toClient[d]
    BY <1>1
  <1>3. ASSUME NEW g \in Guests
        PROVE  Requested(g)' = Requested(g)
    <2>1. CASE c # Owner
      BY <1>2, <2>1, SessionDomains DEF Requested
    <2>2. CASE c = Owner
      <3>1. Head(q) \notin Requests(g)
        BY <1>1, <2>2 DEF Requests
      <3>2. Count(q, Requests(g)) = Count(Tail(q), Requests(g)) + 0
        BY <1>1, <3>1, CountTail
      <3>3. Count(Tail(q), Requests(g)) \in Nat
        BY <1>1, TailSet, CountType
      <3>. QED  BY <1>2, <2>2, <3>2, <3>3 DEF Requested
    <2>. QED  BY <2>1, <2>2
  <1>4. ASSUME NEW g \in Guests, Accepting(g)'
        PROVE  Accepting(g)
    <2>1. g \in Conns
      BY SessionDomains
    <2>2. CASE g # c
      BY <1>2, <1>4, <2>1, <2>2 DEF Accepting
    <2>3. CASE g = c
      <3>1. \A i \in DOMAIN Tail(q) : i + 1 \in DOMAIN q /\ Tail(q)[i] = q[i + 1]
        BY <1>1, HeadTailProperties, EmptySeq
      <3>2. PICK i \in DOMAIN Tail(q) : Tail(q)[i].kind = "JoinAccepted"
        BY <1>2, <1>4, <2>1, <2>3 DEF Accepting
      <3>. QED  BY <2>3, <3>1, <3>2 DEF Accepting
    <2>. QED  BY <2>2, <2>3
  <1>. QED  BY <1>3, <1>4

\* A join request is taken by the goroutine it starts.
LEMMA RequestTaken ==
    ASSUME TypeOK, SessionTypeOK, Receive(Owner, {"JoinRequest"}),
           NEW m, m = Head(toClient[Owner])
    PROVE  /\ \A g \in Guests :
                Requested(g) = Requested(g)' + (IF g = m.from THEN 1 ELSE 0)
           /\ \A g \in Guests : Requested(g)' \in Nat
           /\ \A g \in Guests : Accepting(g)' <=> Accepting(g)
  <1>. PICK q \in Seq(Outs) : q = toClient[Owner]
    BY SessionDomains
  <1>1. /\ q # <<>> /\ m.kind = "JoinRequest" /\ DOMAIN toClient = Conns
        /\ toClient' = [toClient EXCEPT ![Owner] = Tail(q)]
        /\ m \in Outs /\ Tail(q) \in Seq(Outs) /\ m = Head(q)
    BY SessionDomains, TailSet DEF Receive
  <1>2. \A d \in Conns : toClient'[d] = IF d = Owner THEN Tail(q) ELSE toClient[d]
    BY <1>1
  <1>3. ASSUME NEW g \in Guests
        PROVE  /\ Requested(g) = Requested(g)' + (IF g = m.from THEN 1 ELSE 0)
               /\ Requested(g)' \in Nat
    <2>1. m \in Requests(g) <=> g = m.from
      BY <1>1 DEF Requests
    <2>2. Count(q, Requests(g)) = Count(Tail(q), Requests(g)) + (IF g = m.from THEN 1 ELSE 0)
      BY <1>1, <2>1, CountTail
    <2>3. Count(Tail(q), Requests(g)) \in Nat
      BY <1>1, CountType
    <2>. QED  BY <1>2, <2>2, <2>3, SessionDomains DEF Requested
  <1>4. \A g \in Guests : Accepting(g)' <=> Accepting(g)
    BY <1>2, SessionDomains DEF Accepting
  <1>. QED  BY <1>3, <1>4

\* What a handler wrote.
LEMMA DeliverAdds ==
    ASSUME TypeOK', SessionTypeOK, TypeOK, Deliver
    PROVE  /\ \A g \in Guests :
                Requested(g)' = Requested(g)
                  + (IF out'.kind = "JoinRequest" /\ out'.from = g /\ out'.to = Owner
                     THEN 1 ELSE 0)
           /\ \A g \in Guests :
                Accepting(g)' => Accepting(g) \/ (out'.kind = "JoinAccepted" /\ out'.to = g)
  <1>. PICK m \in Outs : m = out'
    BY DEF TypeOK, Outs
  <1>1. \A g \in Guests : Requested(g) \in Nat
    BY RequestedType
  <1>2. CASE m.kind = "nothing"
    <2>1. toClient' = toClient
      BY <1>2 DEF Deliver
    <2>. QED  BY <1>1, <1>2, <2>1 DEF Requested, Accepting
  <1>3. CASE m.kind # "nothing"
    <2>1. toClient' = [toClient EXCEPT ![m.to] = Append(@, m)] /\ DOMAIN toClient = Conns
      BY <1>3, SessionDomains DEF Deliver
    <2>2. \A d \in Conns : toClient'[d] = IF d = m.to THEN Append(toClient[d], m)
                                                      ELSE toClient[d]
      BY <2>1
    <2>3. ASSUME NEW g \in Guests
          PROVE  Requested(g)' = Requested(g)
                   + (IF m.kind = "JoinRequest" /\ m.from = g /\ m.to = Owner
                      THEN 1 ELSE 0)
      <3>1. m \in Requests(g) <=> m.kind = "JoinRequest" /\ m.from = g
        BY DEF Requests
      <3>2. CASE m.to = Owner
        <4>1. toClient[Owner] \in Seq(Outs) /\ toClient'[Owner] = Append(toClient[Owner], m)
          BY <2>2, <3>2, SessionDomains
        <4>2. Count(toClient'[Owner], Requests(g))
                = Count(toClient[Owner], Requests(g)) + (IF m \in Requests(g) THEN 1 ELSE 0)
          BY <4>1, CountAppend
        <4>. QED  BY <3>1, <3>2, <4>2 DEF Requested
      <3>3. CASE m.to # Owner
        BY <1>1, <2>2, <3>3, SessionDomains DEF Requested
      <3>. QED  BY <3>2, <3>3
    <2>4. ASSUME NEW g \in Guests, Accepting(g)'
          PROVE  Accepting(g) \/ (m.kind = "JoinAccepted" /\ m.to = g)
      <3>. PICK q \in Seq(Outs) : q = toClient[g]
        BY SessionDomains
      <3>1. CASE m.to # g
        BY <2>2, <2>4, <3>1, SessionDomains DEF Accepting
      <3>2. CASE m.to = g
        <4>1. /\ DOMAIN q = 1..Len(q) /\ Len(q) \in Nat
              /\ DOMAIN Append(q, m) = 1..(Len(q) + 1)
              /\ Append(q, m)[Len(q) + 1] = m
              /\ \A i \in 1..Len(q) : Append(q, m)[i] = q[i]
          BY AppendProperties, LenProperties
        <4>2. PICK i \in DOMAIN Append(q, m) : Append(q, m)[i].kind = "JoinAccepted"
          BY <2>2, <2>4, <3>2, SessionDomains DEF Accepting
        <4>3. i \in 1..Len(q) \/ i = Len(q) + 1
          BY <4>1
        <4>. QED  BY <3>2, <4>1, <4>2, <4>3 DEF Accepting
      <3>. QED  BY <3>1, <3>2
    <2>. QED  BY <2>3, <2>4
  <1>. QED  BY <1>2, <1>3

-----------------------------------------------------------------------------
(* Steps that move nothing on *)

\* A step that neither decides about anybody nor changes the room.
Quiet ==
    /\ \A c \in Conns : FlightSame(c)
    /\ UNCHANGED <<rooms, about, crossed, reaped>>
    /\ \A g \in Guests :
          /\ Requested(g)' = Requested(g)
          /\ Told(g)' => Told(g)
          /\ asks'[g] = asks[g] \/ {asks[g], asks'[g]} \subseteq Deciding
          /\ guestPc'[g] = "new" => guestPc[g] = "new"
    /\ ownerPc' = "new" => ownerPc = "new"
    /\ PromptInv' /\ PresenceInv'
    /\ \A c \in Conns : link'[c] = "open" => link[c] \in {"open", "absent"}
    /\ \A g \in ToSet(closing) : g \in ToSet(closing') \/ link'[g] # "open"

\* A goroutine that decides is neither without a request nor done.
LEMMA DecidingFacts == "none" \notin Deciding /\ "answered" \notin Deciding
  BY DEF Deciding, Decisions

\* A guest that has been dealt with, and the owner, have been connected.
LEMMA AnsweredWereThere ==
    ASSUME TypeOK, SessionTypeOK, FlowInv, NEW g \in Guests, asks[g] # "none"
    PROVE  link[g] # "absent" /\ link[Owner] # "absent"
  <1>1. Flight(g) \in Nat /\ Requested(g) \in Nat
    BY FlightType, RequestedType, SessionDomains
  <1>2. guestPc[g] # "new"
    BY <1>1 DEF FlowInv, TokenInv
  <1>3. ownerPc # "new"
    BY DEF FlowInv, CreateInv
  <1>. QED  BY <1>2, <1>3 DEF FlowInv, PresenceInv

\* Such a step keeps the invariant.
LEMMA QuietKeeps ==
    ASSUME TypeOK, SessionTypeOK, FlowInv, Quiet
    PROVE  FlowInv'
  <1>1. RoomShape'
    BY DEF FlowInv, RoomShape, Quiet
  <1>2. SaysInv'
    BY DEF FlowInv, SaysInv, Quiet, FlightSame
  <1>3. TokenInv'
    <2>1. \A g \in Guests : asks'[g] = "none" <=> asks[g] = "none"
      BY DecidingFacts DEF Quiet
    <2>2. \A g \in Guests : Flight(g)' = Flight(g) /\ Requested(g)' = Requested(g)
      BY SessionDomains DEF Quiet, FlightSame
    <2>3. \A g \in Guests : guestPc'[g] = "new" => guestPc[g] = "new"
      BY DEF Quiet
    <2>. QED  BY <2>1, <2>2, <2>3 DEF FlowInv, TokenInv
  <1>4. Creating' <=> Creating
    BY SessionDomains DEF Quiet, FlightSame, Creating
  <1>5. CreateInv'
    <2>1. \A g \in Guests : asks'[g] = "none" <=> asks[g] = "none"
      BY DecidingFacts DEF Quiet
    <2>2. Flight(Owner)' = Flight(Owner)
      BY SessionDomains DEF Quiet, FlightSame
    <2>. QED  BY <1>4, <2>1, <2>2 DEF FlowInv, CreateInv, Quiet
  <1>6. AboutInv'
    <2>1. Flight(Owner)' = Flight(Owner) /\ about' = about
      BY SessionDomains DEF Quiet, FlightSame
    <2>2. \A g \in Guests : asks[g] = "answered" => asks'[g] = "answered"
      BY DecidingFacts DEF Quiet
    <2>3. \A i \in DOMAIN about : about[i].asked \in Guests
      BY AboutTyped
    <2>. QED  BY <1>4, <2>1, <2>2, <2>3 DEF FlowInv, AboutInv
  <1>7. \A g \in Guests : (Undecided(g)' <=> Undecided(g)) /\ (Answering(g)' <=> Answering(g))
    BY DEF Undecided, Answering, Quiet
  <1>8. Disturbed' = Disturbed /\ \A g \in Guests : InRoom(g)' <=> InRoom(g)
    BY DEF Disturbed, InRoom, Quiet
  <1>9. PlaceInv'
    BY <1>7, <1>8 DEF FlowInv, PlaceInv, Quiet
  <1>10. CrossedOnlyAfterDeparture'
    BY <1>8 DEF FlowInv, CrossedOnlyAfterDeparture, Quiet
  <1>11. ToldInv'
    <2>. SUFFICES ASSUME crossed' = {}, NEW g \in Guests, Told(g)'
                  PROVE  /\ asks'[g] = "answered" /\ ~Answering(g)'
                         /\ link'[g] = "open" /\ link'[Owner] = "open"
                               => InRoom(g)' \/ g \in ToSet(closing')
      BY DEF ToldInv
    <2>1. crossed = {} /\ Told(g)
      BY DEF Quiet
    <2>2. /\ asks[g] = "answered" /\ ~Answering(g)
          /\ link[g] = "open" /\ link[Owner] = "open" => InRoom(g) \/ g \in ToSet(closing)
      BY <2>1 DEF FlowInv, ToldInv
    <2>3. asks'[g] = "answered"
      BY <2>2, DecidingFacts DEF Quiet
    <2>4. link[g] # "absent" /\ link[Owner] # "absent"
      BY <2>2, AnsweredWereThere
    <2>5. link'[g] = "open" /\ link'[Owner] = "open" => link[g] = "open" /\ link[Owner] = "open"
      BY <2>4, SessionDomains DEF Quiet
    <2>6. g \in ToSet(closing) => g \in ToSet(closing') \/ link'[g] # "open"
      BY DEF Quiet
    <2>. QED  BY <1>7, <1>8, <2>2, <2>3, <2>5, <2>6
  <1>12. PromptInv' /\ PresenceInv'
    BY DEF Quiet
  <1>. QED  BY <1>1, <1>2, <1>3, <1>5, <1>6, <1>9, <1>10, <1>11, <1>12 DEF FlowInv

\* Connections come, and stay known; one that is not open does not open again.
LEMMA LinkStepOpens ==
    ASSUME TypeOK, NEW c \in Conns,
           Accept(c) \/ PeerGone(c) \/ BeginClose(c) \/ Notify(c)
    PROVE  \A d \in Conns :
              /\ link'[d] = "open" => link[d] \in {"open", "absent"}
              /\ link[d] # "absent" => link'[d] # "absent"
  <1>1. link \in [Conns -> LinkStates]
    BY DEF TypeOK, LinkTypeOK
  <1>2. PICK s \in {"open", "broken", "closing", "closed"} :
           link' = [link EXCEPT ![c] = s] /\ (s = "open" => link[c] = "absent")
    BY DEF Accept, PeerGone, BeginClose, Notify
  <1>. QED  BY <1>1, <1>2

\* Nothing but the connections and the room manager's Close calls.
LEMMA TransporterIsQuiet ==
    ASSUME TypeOK, SessionTypeOK, FlowInv,
           \/ \E c \in Conns : SessionConnections(c) \/ SessionRead(c) \/ SessionEnqueue(c)
           \/ SessionClose
           \/ UNCHANGED sessionVars
    PROVE  Quiet
  <1>. DEFINE Rest == UNCHANGED <<rooms, about, crossed, reaped, toClient, clientVars>>
              Links == \A d \in Conns :
                          /\ link'[d] = "open" => link[d] \in {"open", "absent"}
                          /\ link[d] # "absent" => link'[d] # "absent"
              Calls == \A g \in ToSet(closing) : g \in ToSet(closing') \/ link'[g] # "open"
  <1>1. ASSUME Rest, Links, Calls, \A c \in Conns : FlightSame(c)
        PROVE  Quiet
    <2>1. \A g \in Guests : Requested(g)' = Requested(g) /\ Told(g)' = Told(g)
      BY <1>1 DEF Requested, Told, Accepting, clientVars
    <2>2. PromptInv' /\ PresenceInv'
      BY <1>1, SessionDomains DEF FlowInv, PromptInv, PresenceInv, clientVars
    <2>. QED  BY <1>1, <2>1, <2>2 DEF Quiet, clientVars
  <1>2. ASSUME NEW c \in Conns, SessionConnections(c)
        PROVE  Quiet
    <2>1. Rest /\ Calls /\ UNCHANGED <<toServer, held, clientMessageChannel>>
      BY <1>2 DEF SessionConnections, roomVars, history
    <2>2. Links
      BY <1>2, LinkStepOpens DEF SessionConnections
    <2>3. \A d \in Conns : FlightSame(d)
      BY <2>1, FlightUnchanged
    <2>. QED  BY <1>1, <2>1, <2>2, <2>3
  <1>3. ASSUME NEW c \in Conns, SessionRead(c)
        PROVE  Quiet
    <2>1. Rest /\ Calls /\ UNCHANGED link
      BY <1>3 DEF SessionRead, ReadMessage, linkVars, history
    <2>2. \A d \in Conns : FlightSame(d)
      BY <1>3, FlightRead
    <2>. QED  BY <1>1, <2>1, <2>2
  <1>4. ASSUME NEW c \in Conns, SessionEnqueue(c)
        PROVE  Quiet
    <2>1. Rest /\ Calls /\ UNCHANGED link
      BY <1>4 DEF SessionEnqueue, EnqueueMessage, linkVars, history
    <2>2. \A d \in Conns : FlightSame(d)
      BY <1>4, FlightEnqueued
    <2>. QED  BY <1>1, <2>1, <2>2
  <1>5. CASE SessionClose
    <2>1. Rest /\ UNCHANGED <<toServer, held, clientMessageChannel>>
      BY <1>5 DEF SessionClose, CloseStart, CloseReturn, roomVars, history
    <2>2. \A d \in Conns : FlightSame(d)
      BY <2>1, FlightUnchanged
    <2>. PICK q \in Seq(Conns) : q = closing
      BY SessionDomains
    <2>3. q # <<>>
      BY <1>5 DEF SessionClose, CloseStart, CloseReturn
    <2>4. Head(q) \in Conns /\ ToSet(q) = ToSet(Tail(q)) \cup {Head(q)}
      BY <2>3, TailSet
    <2>5. CASE CloseStart
      <3>1. Links
        BY <2>4, <2>5, LinkStepOpens DEF CloseStart
      <3>2. Calls
        BY <2>5 DEF CloseStart, roomVars
      <3>. QED  BY <1>1, <2>1, <2>2, <3>1, <3>2
    <2>6. CASE CloseReturn
      <3>1. closing' = Tail(q) /\ link[Head(q)] = "closed" /\ UNCHANGED link
        BY <2>6 DEF CloseReturn, linkVars
      <3>2. Links /\ Calls
        BY <2>4, <3>1
      <3>. QED  BY <1>1, <2>1, <2>2, <3>2
    <2>. QED  BY <1>5, <2>5, <2>6 DEF SessionClose
  <1>6. CASE UNCHANGED sessionVars
    <2>1. Rest /\ Links /\ Calls /\ UNCHANGED <<toServer, held, clientMessageChannel>>
      BY <1>6 DEF sessionVars, vars, history
    <2>. QED  BY <1>1, <2>1, FlightUnchanged
  <1>. QED  BY <1>2, <1>3, <1>4, <1>5, <1>6

\* A guest that takes its answer, or that leaves.
LEMMA GuestIsQuiet ==
    ASSUME TypeOK, SessionTypeOK, FlowInv, NEW g \in Guests,
           GuestDecided(g) \/ GuestIgnores(g) \/ GuestLeaves(g) \/ GuestLost(g)
    PROVE  Quiet
  <1>1. /\ UNCHANGED <<rooms, about, crossed, reaped, closing, asks, pending, ownerPc>>
        /\ UNCHANGED <<toServer, held, clientMessageChannel>>
    BY DEF GuestDecided, GuestIgnores, GuestLeaves, GuestLost, roomVars, vars, history,
           clientVars
  <1>2. \A d \in Conns : FlightSame(d)
    BY <1>1, FlightUnchanged
  <1>3. g \in Conns /\ g # Owner /\ DOMAIN guestPc = Guests
    BY SessionDomains
  <1>4. /\ \A d \in Conns : link'[d] = "open" => link[d] \in {"open", "absent"}
        /\ \A d \in Conns : link[d] # "absent" => link'[d] # "absent"
    <2>1. CASE GuestLeaves(g)
      BY <1>3, <2>1, LinkStepOpens DEF GuestLeaves
    <2>2. CASE ~GuestLeaves(g)
      BY <2>2 DEF GuestDecided, GuestIgnores, GuestLost, vars
    <2>. QED  BY <2>1, <2>2
  <1>5. \A h \in Guests :
           /\ guestPc'[h] = "new" => guestPc[h] = "new"
           /\ guestPc'[h] # "new" => guestPc[h] # "new"
    BY <1>3 DEF GuestDecided, GuestIgnores, GuestLeaves, GuestLost, clientVars
  <1>6. \A h \in Guests : Requested(h)' = Requested(h) /\ (Told(h)' => Told(h))
    <2>1. CASE GuestLeaves(g) \/ GuestLost(g)
      <3>1. /\ toClient' = toClient
            /\ \A h \in Guests : guestPc'[h] = "joined" => guestPc[h] = "joined"
        BY <1>3, <2>1 DEF GuestLeaves, GuestLost
      <3>. QED  BY <3>1 DEF Requested, Told, Accepting
    <2>2. CASE GuestIgnores(g)
      <3>1. Receive(g, Replies) /\ UNCHANGED guestPc
        BY <2>2 DEF GuestIgnores, clientVars
      <3>. QED  BY <1>3, <3>1, ReceiveKeeps DEF Told
    <2>3. CASE GuestDecided(g)
      <3>1. \/ Receive(g, {"JoinAccepted"}) /\ guestPc' = [guestPc EXCEPT ![g] = "joined"]
            \/ /\ Receive(g, {"JoinDeclined"} \cup Errors)
               /\ guestPc' = [guestPc EXCEPT ![g] = "refused"]
        BY <2>3 DEF GuestDecided
      <3>2. \A h \in Guests : Requested(h)' = Requested(h) /\ (Accepting(h)' => Accepting(h))
        BY <1>3, <3>1, ReceiveKeeps
      <3>3. \A h \in Guests : guestPc'[h] = "joined" => guestPc[h] = "joined" \/ Accepting(h)
        <4>1. CASE Receive(g, {"JoinAccepted"})
          <5>1. Accepting(g)
            BY <1>3, <4>1, ReceiveTyped DEF Accepting
          <5>. QED  BY <1>3, <3>1, <5>1
        <4>2. CASE guestPc' = [guestPc EXCEPT ![g] = "refused"]
          BY <1>3, <4>2
        <4>. QED  BY <3>1, <4>1, <4>2
      <3>. QED  BY <3>2, <3>3 DEF Told
    <2>. QED  BY <2>1, <2>2, <2>3
  <1>7. PromptInv' /\ PresenceInv'
    BY <1>1, <1>4, <1>5, SessionDomains DEF FlowInv, PromptInv, PresenceInv
  <1>. QED  BY <1>1, <1>2, <1>4, <1>5, <1>6, <1>7 DEF Quiet

\* The owner's loop taking anything but a join request, and the end of the
\* session.
LEMMA OwnerIsQuiet ==
    ASSUME TypeOK, SessionTypeOK, FlowInv,
           OwnerRoomCreated \/ OwnerGuestLeft \/ OwnerIgnores \/ OwnerQuits
    PROVE  Quiet
  <1>1. /\ UNCHANGED <<rooms, about, crossed, reaped, closing, asks, pending, guestPc>>
        /\ UNCHANGED <<toServer, held, clientMessageChannel>>
    BY DEF OwnerRoomCreated, OwnerGuestLeft, OwnerIgnores, OwnerQuits, roomVars, vars,
           history, clientVars
  <1>2. \A d \in Conns : FlightSame(d)
    BY <1>1, FlightUnchanged
  <1>3. /\ \A d \in Conns : link'[d] = "open" => link[d] \in {"open", "absent"}
        /\ \A d \in Conns : link[d] # "absent" => link'[d] # "absent"
    <2>1. CASE OwnerQuits
      BY <2>1, LinkStepOpens, SessionDomains DEF OwnerQuits
    <2>2. CASE ~OwnerQuits
      BY <2>2 DEF OwnerRoomCreated, OwnerGuestLeft, OwnerIgnores, vars
    <2>. QED  BY <2>1, <2>2
  <1>4. /\ ownerPc' = "new" => ownerPc = "new"
        /\ ownerPc' # "new" => ownerPc # "new" \/ link[Owner] # "absent"
    BY DEF OwnerRoomCreated, OwnerGuestLeft, OwnerIgnores, OwnerQuits, PeerGone,
           clientVars
  <1>5. \A h \in Guests : Requested(h)' = Requested(h) /\ (Told(h)' => Told(h))
    <2>1. CASE OwnerQuits
      <3>1. toClient' = toClient
        BY <2>1 DEF OwnerQuits
      <3>. QED  BY <1>1, <3>1 DEF Requested, Told, Accepting
    <2>2. ASSUME NEW kinds, Receive(Owner, kinds), "JoinRequest" \notin kinds
          PROVE  \A h \in Guests : Requested(h)' = Requested(h) /\ (Told(h)' => Told(h))
      BY <1>1, <2>2, ReceiveKeeps, SessionDomains DEF Told
    <2>. QED
      BY <2>1, <2>2 DEF OwnerRoomCreated, OwnerGuestLeft, OwnerIgnores, Errors
  <1>6. PromptInv' /\ PresenceInv'
    BY <1>1, <1>3, <1>4, SessionDomains DEF FlowInv, PromptInv, PresenceInv
  <1>. QED  BY <1>1, <1>2, <1>3, <1>4, <1>5, <1>6 DEF Quiet

\* The prompt and its answers.
LEMMA PromptIsQuiet ==
    ASSUME TypeOK, SessionTypeOK, FlowInv,
           (\E g \in Guests : PromptJoinRequest(g)) \/ PromptKey \/ PromptGuestLeft
    PROVE  Quiet
  <1>1. UNCHANGED <<vars, toServer, toClient, guestPc, about, crossed>>
    BY DEF PromptJoinRequest, PromptKey, PromptGuestLeft
  <1>2. UNCHANGED <<rooms, reaped, closing, held, clientMessageChannel, link>>
    BY <1>1 DEF vars, history
  <1>3. \A d \in Conns : FlightSame(d)
    BY <1>1, <1>2, FlightUnchanged
  <1>4. \A g \in Guests : Requested(g)' = Requested(g) /\ Told(g)' = Told(g)
    BY <1>1 DEF Requested, Told, Accepting
  <1>5. ownerPc' = "new" <=> ownerPc = "new"
    BY DEF PromptJoinRequest, PromptKey, PromptGuestLeft
  <1>6. /\ \A g \in Guests : asks'[g] = asks[g] \/ {asks[g], asks'[g]} \subseteq Deciding
        /\ PromptInv'
    <2>1. DOMAIN asks = Guests /\ pending \in Guests \cup {NoConn} /\ NoConn \notin Guests
      BY SessionDomains
    <2>2. pending # NoConn => asks[pending] = "waiting"
      BY DEF FlowInv, PromptInv
    <2>3. ASSUME NEW g \in Guests, PromptJoinRequest(g)
          PROVE  /\ \A h \in Guests : asks'[h] = asks[h] \/ {asks[h], asks'[h]} \subseteq Deciding
                 /\ PromptInv'
      BY <2>1, <2>3 DEF PromptJoinRequest, Deciding, PromptInv
    <2>4. CASE PromptKey
      <3>1. PICK answer \in {"yes", "no"} : asks' = [asks EXCEPT ![pending] = answer]
        BY <2>4 DEF PromptKey
      <3>. QED  BY <2>1, <2>2, <2>4, <3>1 DEF PromptKey, Deciding, Decisions, PromptInv
    <2>5. CASE PromptGuestLeft
      BY <2>1, <2>2, <2>5 DEF PromptGuestLeft, Deciding, Decisions, PromptInv
    <2>. QED  BY <2>3, <2>4, <2>5
  <1>7. PresenceInv'
    BY <1>1, <1>2, <1>5 DEF FlowInv, PresenceInv
  <1>. QED  BY <1>1, <1>2, <1>3, <1>4, <1>5, <1>6, <1>7 DEF Quiet

-----------------------------------------------------------------------------
(* Asking, creating the room, deciding *)

\* A step that adds nobody to those who are asked about and does not change the
\* room keeps what is known about places;
LEMMA PlacesKept ==
    ASSUME FlowInv, UNCHANGED <<rooms, reaped, crossed>>,
           \A g \in Guests : Undecided(g)' => Undecided(g)
    PROVE  RoomShape' /\ PlaceInv' /\ CrossedOnlyAfterDeparture'
  <1>1. RoomShape' /\ CrossedOnlyAfterDeparture'
    BY DEF FlowInv, RoomShape, CrossedOnlyAfterDeparture, Disturbed
  <1>2. Disturbed' = Disturbed /\ \A g \in Guests : InRoom(g)' <=> InRoom(g)
    BY DEF Disturbed, InRoom
  <1>. QED  BY <1>1, <1>2 DEF FlowInv, PlaceInv

\* ... one that tells nobody, what is known about the told.
LEMMA ToldKept ==
    ASSUME FlowInv, UNCHANGED <<rooms, crossed, link, closing>>,
           \A g \in Guests : Told(g)' => Told(g),
           \A g \in Guests : asks[g] = "answered" /\ ~Answering(g)
                                => asks'[g] = "answered" /\ ~Answering(g)'
    PROVE  ToldInv'
  BY DEF FlowInv, ToldInv, InRoom

\* roomJoinStep sends the guest's only request.
LEMMA GuestJoinsKeeps ==
    ASSUME TypeOK, SessionTypeOK, FlowInv, NEW g \in Guests, GuestJoins(g)
    PROVE  FlowInv'
  <1>1. PICK id \in RoomIds : Send(g, [cmd |-> "JoinRoom", roomId |-> id])
    BY DEF GuestJoins
  <1>. DEFINE b == [cmd |-> "JoinRoom", roomId |-> id]
  <1>2. b \in Bodies /\ b.cmd = "JoinRoom"
    BY DEF Bodies
  <1>3. /\ g \in Conns /\ g # Owner /\ guestPc[g] = "new" /\ link[g] = "open"
        /\ guestPc' = [guestPc EXCEPT ![g] = "waiting"] /\ DOMAIN guestPc = Guests
        /\ UNCHANGED <<toClient, ownerPc, asks, pending, about, crossed>>
        /\ UNCHANGED <<rooms, reaped, link, closing, held, clientMessageChannel>>
    BY SessionDomains DEF GuestJoins, vars, history
  <1>. HIDE DEF b
  <1>4. /\ Flight(g)' = Flight(g) + 1 /\ Bag(g)' = Bag(g) \cup {b}
        /\ \A d \in Conns : d # g => FlightSame(d)
    BY <1>1, <1>2, <1>3, FlightSent DEF b
  <1>5. FlightSame(Owner) /\ (Creating' <=> Creating)
    BY <1>3, <1>4, SessionDomains DEF FlightSame, Creating
  <1>6. \A h \in Guests : Requested(h)' = Requested(h)
    BY <1>3 DEF Requested
  <1>7. SaysInv'
    BY <1>2, <1>3, <1>4 DEF FlowInv, SaysInv, FlightSame, Says
  <1>8. TokenInv'
    <2>1. Flight(g) \in Nat /\ Requested(g) \in Nat
      BY <1>3, FlightType, RequestedType
    <2>2. Flight(g) = 0 /\ Requested(g) = 0 /\ asks[g] = "none"
      BY <1>3, <2>1 DEF FlowInv, TokenInv
    <2>3. guestPc'[g] # "new" /\ Flight(g)' = 1
      BY <1>3, <1>4, <2>2
    <2>4. ASSUME NEW h \in Guests, h # g
          PROVE  Flight(h)' = Flight(h) /\ guestPc'[h] = guestPc[h]
      BY <1>3, <1>4, <2>4, SessionDomains DEF FlightSame
    <2>. QED  BY <1>3, <1>6, <2>2, <2>3, <2>4 DEF FlowInv, TokenInv
  <1>9. PresenceInv'
    BY <1>3 DEF FlowInv, PresenceInv
  <1>10. CreateInv' /\ AboutInv' /\ PromptInv'
    BY <1>3, <1>5, <1>6 DEF FlowInv, CreateInv, AboutInv, PromptInv, FlightSame
  <1>11. \A h \in Guests : (Undecided(h)' <=> Undecided(h)) /\ (Answering(h)' <=> Answering(h))
    BY <1>3, <1>6 DEF Undecided, Answering
  <1>12. RoomShape' /\ PlaceInv' /\ CrossedOnlyAfterDeparture'
    BY <1>3, <1>11, PlacesKept
  <1>13. ToldInv'
    <2>1. \A h \in Guests : Told(h)' => Told(h)
      BY <1>3 DEF Told, Accepting
    <2>. QED  BY <1>3, <1>11, <2>1, ToldKept
  <1>. QED  BY <1>7, <1>8, <1>9, <1>10, <1>12, <1>13 DEF FlowInv

\* createRoom sends the owner's first message.
LEMMA OwnerCreatesKeeps ==
    ASSUME TypeOK, SessionTypeOK, FlowInv, OwnerCreates
    PROVE  FlowInv'
  <1>. DEFINE b == [cmd |-> "CreateRoom"]
  <1>2. b \in Bodies /\ b.cmd = "CreateRoom"
    BY DEF Bodies
  <1>3. /\ Owner \in Conns /\ ownerPc = "new" /\ link[Owner] = "open" /\ Send(Owner, b)
        /\ ownerPc' = "creating"
        /\ UNCHANGED <<toClient, guestPc, asks, pending, about, crossed>>
        /\ UNCHANGED <<rooms, reaped, link, closing, held, clientMessageChannel>>
    BY SessionDomains DEF OwnerCreates, vars, history
  <1>. HIDE DEF b
  <1>4. /\ Flight(Owner)' = Flight(Owner) + 1 /\ Bag(Owner)' = Bag(Owner) \cup {b}
        /\ \A d \in Conns : d # Owner => FlightSame(d)
    BY <1>2, <1>3, FlightSent
  <1>5. /\ Flight(Owner) = 0 /\ ~Creating
        /\ rooms = <<>> /\ about = <<>>
        /\ \A g \in Guests : asks[g] = "none" /\ Requested(g) = 0
    <2>1. Flight(Owner) = 0
      BY <1>3 DEF FlowInv, CreateInv
    <2>2. Bag(Owner) = {}
      BY <1>3, <2>1, FlightEmpty
    <2>. QED  BY <1>3, <2>1, <2>2 DEF FlowInv, CreateInv, Creating
  <1>6. \A g \in Guests : Requested(g)' = Requested(g) /\ Flight(g)' = Flight(g)
    BY <1>3, <1>4, SessionDomains DEF Requested, FlightSame
  <1>7. SaysInv'
    BY <1>2, <1>3, <1>4 DEF FlowInv, SaysInv, FlightSame, Says
  <1>8. TokenInv' /\ PresenceInv' /\ PromptInv'
    BY <1>3, <1>6 DEF FlowInv, TokenInv, PresenceInv, PromptInv
  <1>9. Creating' /\ Flight(Owner)' = 1
    BY <1>2, <1>4, <1>5 DEF Creating
  <1>10. CreateInv'
    BY <1>3, <1>5, <1>6 DEF CreateInv
  <1>11. AboutInv'
    BY <1>3, <1>5, <1>9 DEF AboutInv
  <1>12. \A h \in Guests : (Undecided(h)' <=> Undecided(h)) /\ (Answering(h)' <=> Answering(h))
    BY <1>3, <1>6 DEF Undecided, Answering
  <1>13. RoomShape' /\ PlaceInv' /\ CrossedOnlyAfterDeparture'
    BY <1>3, <1>12, PlacesKept
  <1>14. ToldInv'
    <2>1. \A h \in Guests : Told(h)' => Told(h)
      BY <1>3 DEF Told, Accepting
    <2>. QED  BY <1>3, <1>12, <2>1, ToldKept
  <1>. QED  BY <1>7, <1>8, <1>10, <1>11, <1>13, <1>14 DEF FlowInv

\* dispatchOwnerMessage starts the goroutine of a guest that has none.
LEMMA OwnerJoinRequestKeeps ==
    ASSUME TypeOK, SessionTypeOK, FlowInv, OwnerJoinRequest
    PROVE  FlowInv'
  <1>. PICK m : m = Head(toClient[Owner])
    OBVIOUS
  <1>1. /\ ownerPc = "room" /\ Receive(Owner, {"JoinRequest"})
        /\ asks' = [asks EXCEPT ![m.from] = "asking"] /\ DOMAIN asks = Guests
        /\ UNCHANGED <<toServer, guestPc, ownerPc, pending, about, crossed>>
        /\ UNCHANGED <<rooms, reaped, link, closing, held, clientMessageChannel>>
    BY SessionDomains DEF OwnerJoinRequest, vars, history
  <1>2. /\ \A g \in Guests : Requested(g) = Requested(g)' + (IF g = m.from THEN 1 ELSE 0)
        /\ \A g \in Guests : Requested(g)' \in Nat
        /\ \A g \in Guests : Accepting(g)' <=> Accepting(g)
    BY <1>1, RequestTaken
  <1>3. \A g \in Guests : g # m.from => Requested(g)' = Requested(g) /\ asks'[g] = asks[g]
    BY <1>1, <1>2
  <1>4. ASSUME m.from \in Guests
        PROVE  /\ Requested(m.from) = Requested(m.from)' + 1 /\ asks[m.from] = "none"
               /\ Requested(m.from)' \in Nat /\ asks'[m.from] = "asking"
               /\ ~Creating
    <2>1. /\ Requested(m.from) = Requested(m.from)' + 1 /\ Requested(m.from)' \in Nat
          /\ asks'[m.from] = "asking"
      BY <1>1, <1>2, <1>4
    <2>2. Flight(m.from) \in Nat
      BY <1>4, FlightType, SessionDomains
    <2>3. asks[m.from] = "none"
      BY <1>4, <2>1, <2>2 DEF FlowInv, TokenInv
    <2>4. ~Creating
      <3>1. Requested(m.from) # 0
        BY <2>1
      <3>. QED  BY <1>4, <3>1 DEF FlowInv, CreateInv
    <2>. QED  BY <2>1, <2>3, <2>4
  <1>5. \A c \in Conns : FlightSame(c)
    BY <1>1, FlightUnchanged
  <1>6. FlightSame(Owner) /\ (Creating' <=> Creating)
    BY <1>5, SessionDomains DEF FlightSame, Creating
  <1>7. SaysInv' /\ PresenceInv'
    BY <1>1, <1>5 DEF FlowInv, SaysInv, PresenceInv, FlightSame
  <1>8. TokenInv'
    <2>. SUFFICES ASSUME NEW g \in Guests
                  PROVE  LET n == Flight(g)' + Requested(g)' + (IF asks'[g] = "none" THEN 0 ELSE 1)
                         IN  n =< 1 /\ (guestPc'[g] = "new" => n = 0)
      BY DEF TokenInv
    <2>1. Flight(g)' = Flight(g) /\ guestPc'[g] = guestPc[g] /\ Flight(g) \in Nat
      BY <1>1, <1>5, FlightType, SessionDomains DEF FlightSame
    <2>2. LET n == Flight(g) + Requested(g) + (IF asks[g] = "none" THEN 0 ELSE 1)
          IN  n =< 1 /\ (guestPc[g] = "new" => n = 0)
      BY DEF FlowInv, TokenInv
    <2>3. CASE g # m.from
      BY <1>3, <2>1, <2>2, <2>3
    <2>4. CASE g = m.from
      BY <1>4, <2>1, <2>2, <2>4
    <2>. QED  BY <2>3, <2>4
  <1>9. CreateInv'
    <2>1. ownerPc' # "new"
      BY <1>1
    <2>2. Creating' => /\ rooms' = <<>> /\ about' = <<>>
                       /\ \A g \in Guests : asks'[g] = "none" /\ Requested(g)' = 0
      BY <1>1, <1>3, <1>4, <1>6 DEF FlowInv, CreateInv
    <2>. QED  BY <2>1, <2>2 DEF CreateInv
  <1>10. AboutInv'
    <2>1. \A i \in DOMAIN about : about[i].asked \in Guests /\ asks[about[i].asked] = "answered"
      BY AboutTyped DEF FlowInv, AboutInv
    <2>2. \A i \in DOMAIN about : asks'[about[i].asked] = "answered"
      BY <1>3, <1>4, <2>1
    <2>. QED  BY <1>1, <1>6, <2>2 DEF FlowInv, AboutInv, FlightSame
  <1>11. PromptInv'
    BY <1>1, <1>3, <1>4, SessionDomains DEF FlowInv, PromptInv
  <1>12. \A g \in Guests : Undecided(g)' => Undecided(g)
    <2>. SUFFICES ASSUME NEW g \in Guests, Undecided(g)'
                  PROVE  Undecided(g)
      OBVIOUS
    <2>1. CASE g # m.from
      BY <1>1, <1>3, <2>1 DEF Undecided, Answering
    <2>2. CASE g = m.from
      <3>1. Requested(g) # 0
        BY <1>4, <2>2
      <3>. QED  BY <3>1 DEF Undecided
    <2>. QED  BY <2>1, <2>2
  <1>13. RoomShape' /\ PlaceInv' /\ CrossedOnlyAfterDeparture'
    BY <1>1, <1>12, PlacesKept
  <1>14. ToldInv'
    <2>1. \A g \in Guests : Told(g)' => Told(g)
      BY <1>1, <1>2 DEF Told
    <2>2. \A g \in Guests : asks[g] = "answered" /\ ~Answering(g)
                                => asks'[g] = "answered" /\ ~Answering(g)'
      BY <1>1, <1>3, <1>4 DEF Answering
    <2>. QED  BY <1>1, <2>1, <2>2, ToldKept
  <1>. QED  BY <1>7, <1>8, <1>9, <1>10, <1>11, <1>13, <1>14 DEF FlowInv

\* handleJoinRequest sends the decision it got.
LEMMA OwnerAnswersKeeps ==
    ASSUME TypeOK, SessionTypeOK, FlowInv, NEW g \in Guests, OwnerAnswers(g)
    PROVE  FlowInv'
  <1>. DEFINE b == [cmd |-> "JoinRoomResponse", accepted |-> asks[g] = "yes"]
              a == [asked |-> g, decision |-> asks[g]]
              T == [asked : Guests, decision : Decisions]
  <1>1. b \in Bodies /\ b.cmd = "JoinRoomResponse"
    BY DEF Bodies
  <1>2. a \in T /\ a.asked = g /\ about \in Seq(T)
    BY SessionDomains DEF OwnerAnswers
  <1>3. /\ Owner \in Conns /\ asks[g] \in Decisions /\ Send(Owner, b)
        /\ about' = Append(about, a)
        /\ asks' = [asks EXCEPT ![g] = "answered"] /\ DOMAIN asks = Guests
        /\ UNCHANGED <<toClient, guestPc, ownerPc, pending, crossed>>
        /\ UNCHANGED <<rooms, reaped, link, closing, held, clientMessageChannel>>
    BY SessionDomains DEF OwnerAnswers, vars, history
  <1>. HIDE DEF a, b, T
  <1>4. /\ Flight(Owner)' = Flight(Owner) + 1 /\ Bag(Owner)' = Bag(Owner) \cup {b}
        /\ \A d \in Conns : d # Owner => FlightSame(d)
    BY <1>1, <1>3, FlightSent
  <1>5. asks[g] \in Deciding /\ asks[g] # "none" /\ asks[g] # "answered" /\ asks[g] # "waiting"
    BY <1>3 DEF Deciding, Decisions
  <1>6. ownerPc # "new" /\ ~Creating
    BY <1>5 DEF FlowInv, CreateInv
  <1>7. ~Creating'
    BY <1>1, <1>4, <1>6 DEF Creating
  <1>8. /\ asks'[g] = "answered"
        /\ \A h \in Guests : h # g => asks'[h] = asks[h]
    BY <1>3
  <1>9. \A h \in Guests : Requested(h)' = Requested(h) /\ Flight(h)' = Flight(h)
    BY <1>3, <1>4, SessionDomains DEF Requested, FlightSame
  <1>10. SaysInv'
    BY <1>1, <1>3, <1>4 DEF FlowInv, SaysInv, FlightSame, Says
  <1>11. TokenInv' /\ PresenceInv' /\ PromptInv'
    <2>1. \A h \in Guests : asks'[h] = "none" <=> asks[h] = "none"
      BY <1>5, <1>8
    <2>2. TokenInv'
      BY <1>3, <1>9, <2>1 DEF FlowInv, TokenInv
    <2>3. PromptInv'
      BY <1>3, <1>5, <1>8, SessionDomains DEF FlowInv, PromptInv
    <2>. QED  BY <1>3, <2>2, <2>3 DEF FlowInv, PresenceInv
  <1>12. CreateInv'
    BY <1>3, <1>6, <1>7 DEF CreateInv
  <1>13. /\ DOMAIN about' = DOMAIN about \cup {Len(about) + 1} /\ Len(about') = Len(about) + 1
         /\ about'[Len(about) + 1].asked = g
         /\ \A i \in DOMAIN about : about'[i] = about[i]
         /\ Len(about) \in Nat /\ Len(about) + 1 \notin DOMAIN about
    <2>. PICK q \in Seq(T) : q = about
      BY <1>2
    <2>1. /\ DOMAIN q = 1..Len(q) /\ Len(q) \in Nat /\ Len(Append(q, a)) = Len(q) + 1
          /\ DOMAIN Append(q, a) = 1..(Len(q) + 1)
          /\ Append(q, a)[Len(q) + 1] = a
          /\ \A i \in 1..Len(q) : Append(q, a)[i] = q[i]
      BY <1>2, AppendProperties, LenProperties
    <2>2. 1..(Len(q) + 1) = (1..Len(q)) \cup {Len(q) + 1} /\ Len(q) + 1 \notin 1..Len(q)
      BY <2>1
    <2>. QED  BY <1>2, <1>3, <2>1, <2>2
  <1>14. \A i \in DOMAIN about : /\ about[i].asked \in Guests /\ about[i].asked # g
                                 /\ asks[about[i].asked] = "answered"
    BY <1>5, AboutTyped DEF FlowInv, AboutInv
  <1>15. AboutInv'
    <2>1. Flight(Owner) = Len(about)
      BY <1>6, <1>13 DEF FlowInv, AboutInv
    <2>2. Flight(Owner)' = Len(about')
      BY <1>4, <1>13, <2>1
    <2>3. \A i \in DOMAIN about' : asks'[about'[i].asked] = "answered"
      BY <1>8, <1>13, <1>14
    <2>4. \A i, j \in DOMAIN about' : about'[i].asked = about'[j].asked => i = j
      BY <1>13, <1>14 DEF FlowInv, AboutInv
    <2>. QED  BY <1>7, <1>13, <2>2, <2>3, <2>4 DEF AboutInv
  <1>16. \A h \in Guests : Answering(h)' <=> Answering(h) \/ h = g
    BY <1>13 DEF Answering
  <1>17. \A h \in Guests : Undecided(h)' => Undecided(h)
    BY <1>5, <1>8, <1>9, <1>16 DEF Undecided
  <1>18. RoomShape' /\ PlaceInv' /\ CrossedOnlyAfterDeparture'
    BY <1>3, <1>17, PlacesKept
  <1>19. ToldInv'
    <2>1. \A h \in Guests : Told(h)' => Told(h)
      BY <1>3 DEF Told, Accepting
    <2>2. \A h \in Guests : asks[h] = "answered" /\ ~Answering(h)
                                => asks'[h] = "answered" /\ ~Answering(h)'
      BY <1>5, <1>8, <1>16
    <2>. QED  BY <1>3, <2>1, <2>2, ToldKept
  <1>. QED  BY <1>10, <1>11, <1>12, <1>15, <1>18, <1>19 DEF FlowInv

-----------------------------------------------------------------------------
(* The room *)

\* There is at most one room, the owner's.
LEMMA TheRoom ==
    ASSUME TypeOK, RoomShape
    PROVE  \/ rooms = <<>>
           \/ /\ rooms # <<>> /\ Len(rooms) = 1 /\ DOMAIN rooms = {1}
              /\ rooms[1].owner = Owner /\ rooms[1].guest \in Guests \cup {NoConn}
  <1>1. rooms \in Seq(RoomData) /\ Len(rooms) \in Nat /\ DOMAIN rooms = 1..Len(rooms)
    BY LenProperties DEF TypeOK
  <1>2. CASE Len(rooms) = 0
    BY <1>1, <1>2, EmptySeq
  <1>3. CASE Len(rooms) # 0
    <2>1. Len(rooms) = 1 /\ DOMAIN rooms = {1} /\ rooms # <<>>
      BY <1>1, <1>3 DEF RoomShape
    <2>2. rooms[1].owner = Owner /\ rooms[1].guest # Owner
      BY <2>1 DEF RoomShape
    <2>3. rooms[1].guest \in Conns \cup {NoConn}
      BY <2>1, RoomOwner
    <2>. QED  BY <2>1, <2>2, <2>3 DEF Guests
  <1>. QED  BY <1>2, <1>3

\* What its removal and a change of its guest leave.
LEMMA RoomUpdates ==
    ASSUME TypeOK, RoomShape, rooms # <<>>
    PROVE  /\ RemoveAt(rooms, 1) = <<>>
           /\ \A x : rooms' = [rooms EXCEPT ![1].guest = x] =>
                 /\ rooms' # <<>> /\ rooms'[1].guest = x
                 /\ Len(rooms') = 1 /\ DOMAIN rooms' = {1} /\ rooms'[1].owner = Owner
  <1>1. /\ rooms \in Seq(RoomData) /\ Len(rooms) = 1 /\ DOMAIN rooms = {1}
        /\ rooms[1].owner = Owner /\ rooms[1] \in RoomData
    BY TheRoom DEF TypeOK
  <1>2. RemoveAt(rooms, 1) \in Seq(RoomData) /\ Len(RemoveAt(rooms, 1)) = 0
    BY <1>1, RemoveAtElements
  <1>3. RemoveAt(rooms, 1) = <<>>
    BY <1>2, EmptySeq
  <1>4. ASSUME NEW x, rooms' = [rooms EXCEPT ![1].guest = x]
        PROVE  /\ rooms' # <<>> /\ rooms'[1].guest = x
               /\ Len(rooms') = 1 /\ DOMAIN rooms' = {1} /\ rooms'[1].owner = Owner
    <2>1. /\ DOMAIN rooms' = {1} /\ rooms'[1].guest = x /\ rooms'[1].owner = Owner
          /\ Len(rooms') = 1
      BY <1>1, <1>4 DEF RoomData
    <2>. QED  BY <2>1
  <1>. QED  BY <1>3, <1>4

\* The lookups find it, or nothing.
LEMMA TheLookups ==
    ASSUME TypeOK, RoomShape
    PROVE  /\ \A id : findRoomById(id) = 0 \/ (findRoomById(id) = 1 /\ rooms # <<>>)
           /\ findRoomByOwner(Owner) = IF rooms = <<>> THEN 0 ELSE 1
           /\ \A c : \/ findRoomByParticipant(c) = 0
                     \/ /\ findRoomByParticipant(c) = 1 /\ rooms # <<>>
                        /\ c \in {Owner, rooms[1].guest}
  <1>1. \/ rooms = <<>> /\ DOMAIN rooms = {}
        \/ rooms # <<>> /\ DOMAIN rooms = {1} /\ rooms[1].owner = Owner
    BY TheRoom
  <1>2. \A id : findRoomById(id) = 0 \/ (findRoomById(id) = 1 /\ rooms # <<>>)
    BY <1>1, LookupsInRange
  <1>3. findRoomByOwner(Owner) = IF rooms = <<>> THEN 0 ELSE 1
    <2>1. {i \in DOMAIN rooms : rooms[i].owner = Owner} \in SUBSET (Nat \ {0})
      BY <1>1
    <2>2. {i \in DOMAIN rooms : rooms[i].owner = Owner} = DOMAIN rooms
      BY <1>1
    <2>3. /\ DOMAIN rooms = {} <=> findRoomByOwner(Owner) = 0
          /\ DOMAIN rooms # {} => findRoomByOwner(Owner) \in DOMAIN rooms
      BY <2>1, <2>2, FirstOfIsMatch DEF findRoomByOwner
    <2>. QED  BY <1>1, <2>3
  <1>4. ASSUME NEW c
        PROVE  \/ findRoomByParticipant(c) = 0
               \/ /\ findRoomByParticipant(c) = 1 /\ rooms # <<>>
                  /\ c \in {Owner, rooms[1].guest}
    <2>. SUFFICES ASSUME findRoomByParticipant(c) # 0
                  PROVE  /\ findRoomByParticipant(c) = 1 /\ rooms # <<>>
                         /\ c \in {Owner, rooms[1].guest}
      OBVIOUS
    <2>1. findRoomByParticipant(c) \in RoomsOf(c) /\ RoomsOf(c) \subseteq DOMAIN rooms
      BY LookupsInRange
    <2>2. findRoomByParticipant(c) = 1 /\ rooms # <<>>
      BY <1>1, <2>1
    <2>. QED  BY <1>1, <2>1, <2>2 DEF RoomsOf
  <1>. QED  BY <1>2, <1>3, <1>4

-----------------------------------------------------------------------------
(* What the handlers do to it *)

\* Neither a request to the owner nor an acceptance was written.
Harmless == out'.kind \notin {"JoinRequest", "JoinAccepted"}

\* The room as it can be after a step.
Emptied == rooms' # <<>> /\ rooms'[1].guest = NoConn

\* The owner creates a room, or none.
LEMMA CreateRoomDoes ==
    ASSUME TypeOK, RoomShape, rooms = <<>>, handleCreateRoom(Owner)
    PROVE  RoomShape' /\ Harmless
  <1>1. RoomsOf(Owner) = {}
    BY LookupsInRange DEF RoomsOf
  <1>2. findRoomByParticipant(Owner) = 0
    BY <1>1, LookupsInRange
  <1>3. Harmless
    BY DEF handleCreateRoom, ReplyOrClose, Write, WriteNothing, Written, NothingWritten,
           Harmless
  <1>4. UNCHANGED rooms => RoomShape'
    BY DEF RoomShape
  <1>5. ASSUME NEW id, rooms' = Append(rooms, [roomId |-> id, owner |-> Owner, guest |-> NoConn])
        PROVE  RoomShape'
    <2>1. rooms' = <<[roomId |-> id, owner |-> Owner, guest |-> NoConn]>>
      BY <1>5
    <2>. QED  BY <2>1, OwnerAssumption, NilAssumption DEF RoomShape
  <1>. QED  BY <1>3, <1>4, <1>5 DEF handleCreateRoom

\* A join request takes the free place of the room, closes the room, or changes
\* nothing.
LEMMA JoinRoomDoes ==
    ASSUME TypeOK, RoomShape, NEW s \in Guests, NEW id, handleJoinRoom(s, id)
    PROVE  /\ RoomShape'
           /\ \/ UNCHANGED rooms /\ Harmless
              \/ /\ rooms # <<>> /\ rooms[1].guest = NoConn
                 /\ \/ /\ rooms' # <<>> /\ rooms'[1].guest = s
                       /\ out' = Written("JoinRequest", s, Owner)
                    \/ rooms' = <<>> /\ Harmless
  <1>. PICK i : i = findRoomById(id)
    OBVIOUS
  <1>1. i = 0 \/ (i = 1 /\ rooms # <<>>)
    BY TheLookups
  <1>2. CASE UNCHANGED rooms /\ (ReplyOrClose(s, "ErrorRoomNotFound") \/ ReplyOrClose(s, "ErrorFull"))
    BY <1>2 DEF ReplyOrClose, Write, WriteNothing, Written, NothingWritten, Harmless, RoomShape
  <1>3. CASE /\ i # 0 /\ rooms[i].guest = NoConn
             /\ Write("JoinRequest", s, rooms[i].owner)
             /\ rooms' = [rooms EXCEPT ![i].guest = s]
    <2>1. /\ rooms' # <<>> /\ rooms'[1].guest = s
          /\ Len(rooms') = 1 /\ DOMAIN rooms' = {1} /\ rooms'[1].owner = Owner
      BY <1>1, <1>3, RoomUpdates
    <2>2. rooms[1].owner = Owner
      BY <1>1, <1>3, TheRoom
    <2>3. RoomShape'
      BY <2>1 DEF RoomShape, Guests
    <2>. QED  BY <1>1, <1>3, <2>1, <2>2, <2>3 DEF Write
  <1>4. CASE /\ i # 0 /\ rooms[i].guest = NoConn
             /\ Write("ErrorUnknown", s, s) \/ (CanFail(s) /\ WriteNothing)
             /\ rooms' = RemoveAt(rooms, i)
    <2>1. rooms' = <<>> /\ RoomShape'
      BY <1>1, <1>4, RoomUpdates DEF RoomShape
    <2>2. Harmless
      BY <1>4 DEF Write, WriteNothing, Written, NothingWritten, Harmless
    <2>. QED  BY <1>1, <1>4, <2>1, <2>2
  <1>. QED  BY <1>2, <1>3, <1>4 DEF handleJoinRoom

\* An answer of the owner reaches the guest of the room, if there is one, or
\* puts it out.
LEMMA JoinRoomResponseDoes ==
    ASSUME TypeOK, RoomShape, NEW acc, handleJoinRoomResponse(Owner, acc)
    PROVE  /\ RoomShape' /\ (rooms = <<>> => rooms' = <<>>)
           /\ \/ Harmless
              \/ /\ rooms # <<>> /\ rooms[1].guest # NoConn /\ UNCHANGED rooms
                 /\ out' = Written("JoinAccepted", Owner, rooms[1].guest)
  <1>. PICK i : i = findRoomByOwner(Owner)
    OBVIOUS
  <1>1. i = IF rooms = <<>> THEN 0 ELSE 1
    BY TheLookups
  <1>2. CASE UNCHANGED rooms
    <2>1. RoomShape' /\ (rooms = <<>> => rooms' = <<>>)
      BY <1>2 DEF RoomShape
    <2>2. \/ Harmless
          \/ /\ i # 0 /\ rooms[i].guest # NoConn
             /\ out' = Written("JoinAccepted", Owner, rooms[i].guest)
      BY DEF handleJoinRoomResponse, ReplyOrClose, Write, WriteNothing, Written,
             NothingWritten, Harmless
    <2>. QED  BY <1>1, <1>2, <2>1, <2>2
  <1>3. CASE rooms' # rooms
    <2>1. /\ i # 0 /\ (rooms' = RemoveAt(rooms, i) \/ ClearGuest(i))
          /\ Harmless
      BY <1>3 DEF handleJoinRoomResponse, closeRoom, Write, WriteNothing, Written,
                  NothingWritten, Harmless
    <2>2. i = 1 /\ rooms # <<>>
      BY <1>1, <2>1
    <2>3. CASE rooms' = RemoveAt(rooms, i)
      BY <2>1, <2>2, <2>3, RoomUpdates DEF RoomShape
    <2>4. CASE ClearGuest(i)
      <3>1. /\ rooms' # <<>> /\ rooms'[1].guest = NoConn
            /\ Len(rooms') = 1 /\ DOMAIN rooms' = {1} /\ rooms'[1].owner = Owner
        BY <2>2, <2>4, RoomUpdates DEF ClearGuest
      <3>2. RoomShape'
        BY <3>1, OwnerAssumption, NilAssumption DEF RoomShape
      <3>. QED  BY <2>1, <2>2, <3>2
    <2>. QED  BY <2>1, <2>3, <2>4
  <1>. QED  BY <1>2, <1>3

\* A disconnect closes the room of the owner, empties the place of a guest, or
\* changes nothing.
LEMMA DisconnectedDoes ==
    ASSUME TypeOK, RoomShape, NEW c \in Conns, handleClientDisconnected(c)
    PROVE  /\ RoomShape' /\ Harmless
           /\ \/ UNCHANGED rooms
              \/ rooms # <<>> /\ c = Owner /\ rooms' = <<>>
              \/ rooms # <<>> /\ rooms[1].guest = c /\ Emptied
  <1>. PICK i : i = findRoomByParticipant(c)
    OBVIOUS
  <1>1. \/ i = 0
        \/ i = 1 /\ rooms # <<>> /\ c \in {Owner, rooms[1].guest} /\ rooms[1].owner = Owner
    BY TheLookups, TheRoom
  <1>2. Harmless
    BY DEF handleClientDisconnected, closeRoom, Write, WriteNothing, Written,
           NothingWritten, Harmless
  <1>3. CASE UNCHANGED rooms
    BY <1>2, <1>3 DEF RoomShape
  <1>4. CASE i # 0 /\ rooms[i].owner = c /\ closeRoom(i)
    <2>1. rooms' = <<>> /\ RoomShape'
      BY <1>1, <1>4, RoomUpdates DEF closeRoom, RoomShape
    <2>. QED  BY <1>1, <1>2, <1>4, <2>1
  <1>5. CASE i # 0 /\ rooms[i].owner # c /\ ClearGuest(i)
    <2>1. /\ rooms' # <<>> /\ rooms'[1].guest = NoConn
          /\ Len(rooms') = 1 /\ DOMAIN rooms' = {1} /\ rooms'[1].owner = Owner
      BY <1>1, <1>5, RoomUpdates DEF ClearGuest
    <2>2. RoomShape'
      BY <2>1, OwnerAssumption, NilAssumption DEF RoomShape
    <2>. QED  BY <1>1, <1>2, <1>5, <2>1, <2>2 DEF Emptied
  <1>. QED  BY <1>3, <1>4, <1>5 DEF handleClientDisconnected

-----------------------------------------------------------------------------
(* Handling a message *)

\* What all handlers have in common: the message is one its sender had under
\* way, and nobody else's moved.
LEMMA HandleMessageTakes ==
    ASSUME TypeOK, TypeOK', SessionTypeOK, FlowInv, SessionHandleMessage,
           NEW m, m = Head(clientMessageChannel)
    PROVE  /\ closing = <<>> /\ m.sender \in Conns /\ Dispatch(m.sender, m.body)
           /\ Bag(m.sender) = Bag(m.sender)' \cup {m.body} /\ m.body.cmd \in Says(m.sender)
           /\ UNCHANGED <<link, reaped, guestPc, ownerPc, asks, pending>>
           /\ Flight(m.sender) = Flight(m.sender)' + 1 /\ Flight(m.sender)' \in Nat
           /\ Flight(m.sender)' = 0 => Bag(m.sender)' = {}
           /\ \A d \in Conns : d # m.sender => FlightSame(d)
           /\ \A d \in Conns : Bag(d)' \subseteq Bag(d)
           /\ SaysInv' /\ PresenceInv' /\ PromptInv'
  <1>1. /\ closing = <<>> /\ clientMessageChannel # <<>>
        /\ clientMessageChannel' = Tail(clientMessageChannel)
        /\ UNCHANGED <<held, toServer>>
        /\ Dispatch(m.sender, m.body)
        /\ UNCHANGED <<link, reaped, guestPc, ownerPc, asks, pending>>
    BY DEF SessionHandleMessage, HandleMessage, clientVars, linkVars
  <1>2. /\ m.sender \in Conns
        /\ Flight(m.sender) = Flight(m.sender)' + 1 /\ Flight(m.sender)' \in Nat
        /\ Bag(m.sender) = Bag(m.sender)' \cup {m.body}
        /\ \A d \in Conns : d # m.sender => FlightSame(d)
    BY <1>1, FlightTaken
  <1>3. m.body \in Bag(m.sender) /\ m.body.cmd \in Says(m.sender)
    BY <1>2 DEF FlowInv, SaysInv
  <1>4. \A d \in Conns : Bag(d)' \subseteq Bag(d)
    BY <1>2 DEF FlightSame
  <1>5. Flight(m.sender)' = 0 => Bag(m.sender)' = {}
    <2>1. toServer' \in [Conns -> Seq(Bodies)] /\ clientMessageChannel' \in Seq(Messages)
      BY <1>1 DEF SessionTypeOK, TypeOK
    <2>. QED  BY <1>2, <2>1, FlightEmptied
  <1>6. SaysInv'
    BY <1>4 DEF FlowInv, SaysInv
  <1>7. PresenceInv' /\ PromptInv'
    BY <1>1 DEF FlowInv, PresenceInv, PromptInv
  <1>. QED  BY <1>1, <1>2, <1>3, <1>4, <1>5, <1>6, <1>7

\* A handler that writes nothing of consequence asks nobody and tells nobody.
LEMMA HarmlessKeeps ==
    ASSUME TypeOK, TypeOK', SessionTypeOK, Deliver, Harmless
    PROVE  /\ \A g \in Guests : Requested(g)' = Requested(g)
           /\ \A g \in Guests : Accepting(g)' => Accepting(g)
  <1>1. \A g \in Guests : Requested(g) \in Nat
    BY RequestedType
  <1>. QED  BY <1>1, DeliverAdds DEF Harmless

\* The owner's first message makes the room.
LEMMA HandleCreateRoomKeeps ==
    ASSUME TypeOK, TypeOK', SessionTypeOK, FlowInv, SessionHandleMessage,
           Head(clientMessageChannel).body.cmd = "CreateRoom"
    PROVE  FlowInv'
  <1>. PICK m : m = Head(clientMessageChannel)
    OBVIOUS
  <1>1. /\ closing = <<>> /\ m.sender \in Conns /\ Dispatch(m.sender, m.body)
        /\ Bag(m.sender) = Bag(m.sender)' \cup {m.body} /\ m.body.cmd \in Says(m.sender)
        /\ UNCHANGED <<link, reaped, guestPc, ownerPc, asks, pending>>
        /\ Flight(m.sender) = Flight(m.sender)' + 1 /\ Flight(m.sender)' \in Nat
        /\ Flight(m.sender)' = 0 => Bag(m.sender)' = {}
        /\ \A d \in Conns : d # m.sender => FlightSame(d)
        /\ SaysInv' /\ PresenceInv' /\ PromptInv'
    BY HandleMessageTakes
  <1>2. /\ m.sender = Owner /\ handleCreateRoom(Owner) /\ m.body.cmd = "CreateRoom"
        /\ Deliver /\ UNCHANGED <<about, crossed>>
    BY <1>1 DEF Dispatch, Says, SessionHandleMessage
  <1>3. Creating
    BY <1>1, <1>2 DEF Creating
  <1>4. /\ rooms = <<>> /\ about = <<>> /\ ownerPc # "new"
        /\ \A g \in Guests : asks[g] = "none" /\ Requested(g) = 0
        /\ Flight(Owner) = 1
    <2>1. /\ rooms = <<>> /\ about = <<>>
          /\ \A g \in Guests : asks[g] = "none" /\ Requested(g) = 0
      BY <1>3 DEF FlowInv, CreateInv
    <2>2. Flight(Owner) = 1
      BY <1>3, <2>1 DEF FlowInv, AboutInv
    <2>. QED  BY <2>1, <2>2 DEF FlowInv, CreateInv
  <1>5. Flight(Owner)' = 0 /\ Bag(Owner)' = {} /\ ~Creating'
    BY <1>1, <1>2, <1>4 DEF Creating
  <1>6. RoomShape' /\ Harmless
    BY <1>2, <1>4, CreateRoomDoes DEF FlowInv
  <1>7. \A g \in Guests : Requested(g)' = 0 /\ (Accepting(g)' => Accepting(g))
    BY <1>2, <1>4, <1>6, HarmlessKeeps
  <1>8. TokenInv'
    <2>1. \A g \in Guests : Flight(g)' = Flight(g) /\ Requested(g)' = Requested(g)
      BY <1>1, <1>2, <1>4, <1>7, SessionDomains DEF FlightSame
    <2>. QED  BY <1>1, <2>1 DEF FlowInv, TokenInv
  <1>9. CreateInv' /\ AboutInv'
    BY <1>1, <1>2, <1>4, <1>5 DEF CreateInv, AboutInv
  <1>10. \A g \in Guests : ~Undecided(g)'
    <2>1. \A g \in Guests : asks'[g] \notin Deciding
      BY <1>1, <1>4, DecidingFacts
    <2>. QED  BY <1>2, <1>4, <1>7, <2>1 DEF Undecided, Answering
  <1>11. PlaceInv'
    BY <1>10 DEF PlaceInv
  <1>12. CrossedOnlyAfterDeparture'
    BY <1>1, <1>2 DEF FlowInv, CrossedOnlyAfterDeparture, Disturbed
  <1>13. ToldInv'
    <2>1. \A g \in Guests : crossed = {} => ~Told(g)
      BY <1>4 DEF FlowInv, ToldInv
    <2>2. \A g \in Guests : Told(g)' => Told(g)
      BY <1>1, <1>7 DEF Told
    <2>. QED  BY <1>2, <2>1, <2>2 DEF ToldInv
  <1>. QED  BY <1>1, <1>6, <1>8, <1>9, <1>11, <1>12, <1>13 DEF FlowInv

\* A guest's request takes the place in the room and goes to the owner.
LEMMA HandleJoinRoomKeeps ==
    ASSUME TypeOK, TypeOK', SessionTypeOK, FlowInv, SessionHandleMessage,
           Head(clientMessageChannel).body.cmd = "JoinRoom"
    PROVE  FlowInv'
  <1>. PICK m : m = Head(clientMessageChannel)
    OBVIOUS
  <1>. PICK s : s = m.sender
    OBVIOUS
  <1>1. /\ closing = <<>> /\ s \in Conns /\ Dispatch(s, m.body)
        /\ m.body.cmd \in Says(s)
        /\ UNCHANGED <<link, reaped, guestPc, ownerPc, asks, pending>>
        /\ Flight(s) = Flight(s)' + 1 /\ Flight(s)' \in Nat
        /\ \A d \in Conns : d # s => FlightSame(d)
        /\ SaysInv' /\ PresenceInv' /\ PromptInv'
    BY HandleMessageTakes
  <1>2. /\ s \in Guests /\ handleJoinRoom(s, m.body.roomId)
        /\ Deliver /\ UNCHANGED <<about, crossed>>
    BY <1>1 DEF Dispatch, Says, SessionHandleMessage, Guests
  <1>3. /\ RoomShape'
        /\ \/ UNCHANGED rooms /\ Harmless
           \/ /\ rooms # <<>> /\ rooms[1].guest = NoConn
              /\ \/ /\ rooms' # <<>> /\ rooms'[1].guest = s
                    /\ out' = Written("JoinRequest", s, Owner)
                 \/ rooms' = <<>> /\ Harmless
    BY <1>2, JoinRoomDoes DEF FlowInv
  <1>4. /\ \A g \in Guests : g # s => Requested(g)' = Requested(g)
        /\ \A g \in Guests : Accepting(g)' => Accepting(g)
        /\ Requested(s)' = Requested(s) + (IF Harmless THEN 0 ELSE 1)
        /\ Requested(s) \in Nat
    <2>1. \A g \in Guests : Requested(g) \in Nat
      BY RequestedType
    <2>2. CASE Harmless
      BY <1>2, <2>1, <2>2, HarmlessKeeps
    <2>3. CASE ~Harmless
      <3>1. out'.kind = "JoinRequest" /\ out'.from = s /\ out'.to = Owner
        BY <1>3, <2>3 DEF Written
      <3>. QED  BY <1>2, <2>1, <2>3, <3>1, DeliverAdds
    <2>. QED  BY <2>2, <2>3
  <1>5. /\ Flight(s)' = 0 /\ Requested(s) = 0 /\ asks[s] = "none" /\ guestPc[s] # "new"
    <2>1. Flight(s) \in Nat /\ Flight(s) # 0
      BY <1>1
    <2>. QED  BY <1>1, <1>2, <1>4, <2>1 DEF FlowInv, TokenInv
  <1>6. TokenInv'
    <2>1. \A g \in Guests : g # s => Flight(g)' = Flight(g) /\ Requested(g)' = Requested(g)
      BY <1>1, <1>4, SessionDomains DEF FlightSame
    <2>2. Flight(s)' = 0 /\ Requested(s)' \in {0, 1} /\ asks'[s] = "none" /\ guestPc'[s] # "new"
      BY <1>1, <1>4, <1>5
    <2>. QED  BY <1>1, <2>1, <2>2 DEF FlowInv, TokenInv
  <1>7. FlightSame(Owner) /\ (Creating' <=> Creating)
    BY <1>1, <1>2, SessionDomains DEF FlightSame, Creating
  <1>8. CreateInv'
    <2>. SUFFICES ASSUME ownerPc' = "new" \/ Creating'
                  PROVE  /\ ownerPc' = "new" => Flight(Owner)' = 0
                         /\ rooms' = <<>> /\ about' = <<>>
                         /\ \A g \in Guests : asks'[g] = "none" /\ Requested(g)' = 0
      BY DEF CreateInv
    <2>1. /\ rooms = <<>> /\ about = <<>>
          /\ \A g \in Guests : asks[g] = "none" /\ Requested(g) = 0
          /\ ownerPc = "new" => Flight(Owner) = 0
      BY <1>1, <1>7 DEF FlowInv, CreateInv
    <2>2. UNCHANGED rooms /\ Harmless
      BY <1>3, <2>1
    <2>. QED  BY <1>1, <1>2, <1>4, <1>7, <2>1, <2>2 DEF FlightSame
  <1>9. AboutInv'
    BY <1>1, <1>2, <1>7 DEF FlowInv, AboutInv, FlightSame
  <1>10. /\ \A g \in Guests : g # s => (Undecided(g)' <=> Undecided(g))
         /\ \A g \in Guests : Answering(g)' <=> Answering(g)
         /\ Disturbed' = Disturbed
    BY <1>1, <1>2, <1>4 DEF Undecided, Answering, Disturbed
  <1>11. PlaceInv'
    <2>1. CASE UNCHANGED rooms /\ Harmless
      <3>1. \A g \in Guests : Undecided(g)' <=> Undecided(g)
        <4>1. Requested(s)' = Requested(s)
          BY <1>4, <2>1
        <4>. QED  BY <1>1, <1>2, <1>10, <4>1 DEF Undecided, Answering
      <3>. QED  BY <1>10, <2>1, <3>1 DEF FlowInv, PlaceInv, InRoom
    <2>2. CASE rooms # <<>> /\ rooms[1].guest = NoConn
      <3>1. \A g \in Guests : g # s /\ Undecided(g)' => g \in Disturbed'
        BY <1>10, <2>2, SessionDomains DEF FlowInv, PlaceInv, InRoom
      <3>2. CASE ~(UNCHANGED rooms /\ Harmless)
        BY <1>3, <2>2, <3>1, <3>2 DEF PlaceInv, InRoom
      <3>. QED  BY <2>1, <3>2
    <2>. QED  BY <1>3, <2>1, <2>2
  <1>12. CrossedOnlyAfterDeparture'
    BY <1>1, <1>2 DEF FlowInv, CrossedOnlyAfterDeparture, Disturbed
  <1>13. ToldInv'
    <2>. SUFFICES ASSUME crossed' = {}, NEW g \in Guests, Told(g)'
                  PROVE  /\ asks'[g] = "answered" /\ ~Answering(g)'
                         /\ link'[g] = "open" /\ link'[Owner] = "open"
                               => InRoom(g)' \/ g \in ToSet(closing')
      BY DEF ToldInv
    <2>1. crossed = {} /\ Told(g)
      BY <1>1, <1>2, <1>4 DEF Told
    <2>2. /\ asks[g] = "answered" /\ ~Answering(g)
          /\ link[g] = "open" /\ link[Owner] = "open" => InRoom(g)
      BY <1>1, <2>1 DEF FlowInv, ToldInv, ToSet
    <2>3. InRoom(g) => UNCHANGED rooms
      BY <1>3, SessionDomains DEF InRoom
    <2>. QED  BY <1>1, <1>10, <2>2, <2>3 DEF InRoom
  <1>. QED  BY <1>1, <1>3, <1>6, <1>8, <1>9, <1>11, <1>12, <1>13 DEF FlowInv

\* When the owner's answers arrive, its room has been asked for long ago, and
\* each of them is about a request.
LEMMA AnswerIsAbout ==
    ASSUME TypeOK, TypeOK', SessionTypeOK, FlowInv, SessionHandleMessage,
           Head(clientMessageChannel).body.cmd = "JoinRoomResponse"
    PROVE  /\ ~Creating /\ ~Creating' /\ ownerPc # "new"
           /\ about # <<>> /\ Flight(Owner) = Len(about)
  <1>. PICK m : m = Head(clientMessageChannel)
    OBVIOUS
  <1>1. m.sender = Owner /\ m.body.cmd = "JoinRoomResponse"
    <2>1. m.sender \in Conns /\ m.body.cmd \in Says(m.sender)
      BY HandleMessageTakes
    <2>. QED  BY <2>1 DEF Says
  <1>2. /\ Flight(Owner) = Flight(Owner)' + 1 /\ Flight(Owner)' \in Nat
        /\ Bag(Owner) = Bag(Owner)' \cup {m.body}
        /\ Flight(Owner)' = 0 => Bag(Owner)' = {}
    BY <1>1, HandleMessageTakes
  <1>3. ASSUME Creating
        PROVE  FALSE
    <2>1. Len(about) = 0
      BY <1>3 DEF FlowInv, CreateInv
    <2>2. Flight(Owner)' = 0
      BY <1>2, <1>3, <2>1 DEF FlowInv, AboutInv
    <2>. QED  BY <1>1, <1>2, <1>3, <2>2 DEF Creating
  <1>4. ownerPc # "new"
    BY <1>2 DEF FlowInv, CreateInv
  <1>5. ~Creating'
    BY <1>2, <1>3 DEF Creating
  <1>6. Flight(Owner) = Len(about) /\ about # <<>>
    <2>1. Len(about) \in Nat
      BY SessionDomains, LenProperties
    <2>2. Flight(Owner) = Len(about)
      BY <1>3, <2>1 DEF FlowInv, AboutInv
    <2>. QED  BY <1>2, <2>2
  <1>. QED  BY <1>3, <1>4, <1>5, <1>6

\* An answer settles the request it is about, whomever it reaches.
LEMMA HandleJoinRoomResponseKeeps ==
    ASSUME TypeOK, TypeOK', SessionTypeOK, FlowInv, SessionHandleMessage,
           Head(clientMessageChannel).body.cmd = "JoinRoomResponse"
    PROVE  FlowInv'
  <1>. PICK m : m = Head(clientMessageChannel)
    OBVIOUS
  <1>1. /\ closing = <<>> /\ m.sender \in Conns /\ Dispatch(m.sender, m.body)
        /\ Bag(m.sender) = Bag(m.sender)' \cup {m.body} /\ m.body.cmd \in Says(m.sender)
        /\ UNCHANGED <<link, reaped, guestPc, ownerPc, asks, pending>>
        /\ Flight(m.sender) = Flight(m.sender)' + 1 /\ Flight(m.sender)' \in Nat
        /\ Flight(m.sender)' = 0 => Bag(m.sender)' = {}
        /\ \A d \in Conns : d # m.sender => FlightSame(d)
        /\ SaysInv' /\ PresenceInv' /\ PromptInv'
    BY HandleMessageTakes
  <1>2. /\ m.sender = Owner /\ handleJoinRoomResponse(Owner, m.body.accepted)
        /\ Deliver /\ about' = Tail(about) /\ Crossing /\ m.body.cmd = "JoinRoomResponse"
    BY <1>1 DEF Dispatch, Says, SessionHandleMessage
  <1>3. /\ RoomShape' /\ (rooms = <<>> => rooms' = <<>>)
        /\ \/ Harmless
           \/ /\ rooms # <<>> /\ rooms[1].guest # NoConn /\ UNCHANGED rooms
              /\ out' = Written("JoinAccepted", Owner, rooms[1].guest)
    BY <1>2, JoinRoomResponseDoes DEF FlowInv
  <1>4. /\ Flight(Owner) = Flight(Owner)' + 1 /\ Flight(Owner)' \in Nat
        /\ Bag(Owner) = Bag(Owner)' \cup {m.body}
        /\ Flight(Owner)' = 0 => Bag(Owner)' = {}
    BY <1>1, <1>2
  <1>5. /\ ~Creating /\ ~Creating' /\ ownerPc # "new"
        /\ about # <<>> /\ Flight(Owner) = Len(about)
    BY AnswerIsAbout
  <1>6. PICK a \in [asked : Guests, decision : Decisions] :
           /\ a = Head(about)
           /\ Flight(Owner)' = Len(about')
           /\ Answering(a.asked)
           /\ \A i \in DOMAIN about' :
                 /\ i + 1 \in DOMAIN about /\ about'[i] = about[i + 1]
                 /\ about'[i].asked # a.asked
    <2>. DEFINE T == [asked : Guests, decision : Decisions]
    <2>. PICK q \in Seq(T) : q = about
      BY SessionDomains
    <2>1. Flight(Owner) = Len(q) /\ Len(q) \in Nat
      BY <1>5, LenProperties
    <2>2. q # <<>>
      BY <1>5
    <2>. HIDE DEF T
    <2>3. /\ Head(q) \in T /\ Head(q) = q[1] /\ 1 \in DOMAIN q
          /\ Len(Tail(q)) = Len(q) - 1
          /\ \A i \in DOMAIN Tail(q) : i + 1 \in DOMAIN q /\ Tail(q)[i] = q[i + 1] /\ i + 1 # 1
      <3>1. /\ Head(q) \in T /\ Head(q) = q[1]
            /\ Len(q) \in Nat \ {0} /\ DOMAIN q = 1..Len(q)
            /\ Len(Tail(q)) = Len(q) - 1 /\ DOMAIN Tail(q) = 1..(Len(q) - 1)
            /\ \A i \in 1..(Len(q) - 1) : Tail(q)[i] = q[i + 1]
        BY <2>1, <2>2, HeadTailProperties, EmptySeq
      <3>. QED  BY <3>1
    <2>4. \A i \in DOMAIN Tail(q) : q[i + 1].asked # q[1].asked
      BY <2>3 DEF FlowInv, AboutInv
    <2>5. Flight(Owner)' = Len(about')
      BY <1>2, <1>4, <2>1, <2>3
    <2>. QED  BY <1>2, <2>3, <2>4, <2>5 DEF Answering, T
  <1>7. /\ asks[a.asked] = "answered" /\ a.asked \in Guests
        /\ Requested(a.asked) = 0 /\ Undecided(a.asked)
    <2>1. asks[a.asked] = "answered" /\ a.asked \in Guests
      BY <1>6 DEF FlowInv, AboutInv, Answering
    <2>2. Requested(a.asked) \in Nat /\ Flight(a.asked) \in Nat
      BY <2>1, RequestedType, FlightType, SessionDomains
    <2>3. Requested(a.asked) = 0
      BY <2>1, <2>2 DEF FlowInv, TokenInv
    <2>. QED  BY <1>6, <2>1, <2>3 DEF Undecided
  <1>8. /\ \A g \in Guests : Answering(g)' => Answering(g)
        /\ ~Answering(a.asked)'
    BY <1>6 DEF Answering
  <1>9. /\ \A g \in Guests : Requested(g)' = Requested(g)
        /\ \A g \in Guests : Accepting(g)' =>
              Accepting(g) \/ (rooms # <<>> /\ rooms[1].guest = g /\ UNCHANGED rooms)
    <2>1. CASE Harmless
      BY <1>2, <2>1, HarmlessKeeps
    <2>2. CASE ~Harmless
      <3>1. \A g \in Guests : Requested(g) \in Nat
        BY RequestedType
      <3>2. out'.kind = "JoinAccepted" /\ out'.to = rooms[1].guest
        BY <1>3, <2>2 DEF Written
      <3>. QED  BY <1>2, <1>3, <2>2, <3>1, <3>2, DeliverAdds
    <2>. QED  BY <2>1, <2>2
  <1>10. \A g \in Guests : Undecided(g)' => Undecided(g) /\ g # a.asked
    BY <1>1, <1>7, <1>8, <1>9, DecidingFacts DEF Undecided
  <1>11. TokenInv'
    <2>1. \A g \in Guests : Flight(g)' = Flight(g)
      BY <1>1, <1>2, SessionDomains DEF FlightSame
    <2>. QED  BY <1>1, <1>9, <2>1 DEF FlowInv, TokenInv
  <1>12. CreateInv' /\ AboutInv'
    <2>1. \A i \in DOMAIN about' : asks'[about'[i].asked] = "answered"
      BY <1>1, <1>6 DEF FlowInv, AboutInv
    <2>2. Len(about') \in Nat
      BY <1>4, <1>6
    <2>3. ASSUME NEW i \in DOMAIN about', NEW j \in DOMAIN about',
                 about'[i].asked = about'[j].asked
          PROVE  i = j
      <3>1. i + 1 = j + 1
        BY <1>6, <2>3 DEF FlowInv, AboutInv
      <3>2. i \in Nat /\ j \in Nat
        <4>1. about \in Seq([asked : Guests, decision : Decisions]) /\ about # <<>>
          BY <1>5, SessionDomains
        <4>2. about' \in Seq([asked : Guests, decision : Decisions])
          BY <1>2, <4>1, HeadTailProperties
        <4>3. DOMAIN about' = 1..Len(about')
          BY <4>2
        <4>. QED  BY <4>3
      <3>. QED  BY <3>1, <3>2
    <2>4. AboutInv'
      BY <1>5, <1>6, <2>1, <2>2, <2>3 DEF AboutInv
    <2>5. CreateInv'
      BY <1>1, <1>5 DEF CreateInv
    <2>. QED  BY <2>4, <2>5
  <1>13. \/ /\ rooms # <<>> /\ rooms[1].guest \notin {NoConn, a.asked}
            /\ Disturbed' = Disturbed \cup {rooms[1].guest}
            /\ crossed' # {} /\ \A x \in crossed' : x \in crossed \/ x.asked = a.asked
         \/ /\ rooms = <<>> \/ rooms[1].guest \in {NoConn, a.asked}
            /\ Disturbed' = Disturbed /\ crossed' = crossed
    <2>1. findRoomByOwner(Owner) = IF rooms = <<>> THEN 0 ELSE 1
      BY TheLookups DEF FlowInv
    <2>. PICK i : i = findRoomByOwner(Owner)
      OBVIOUS
    <2>. PICK k : k = rooms[i].guest
      OBVIOUS
    <2>. PICK x : x = [asked |-> a.asked, decision |-> a.decision, reached |-> k]
      OBVIOUS
    <2>2. crossed' = IF i # 0 /\ k \notin {NoConn, a.asked} THEN crossed \cup {x} ELSE crossed
      BY <1>2, <1>6 DEF Crossing
    <2>3. x.asked = a.asked /\ x.reached = k
      OBVIOUS
    <2>4. CASE i # 0 /\ k \notin {NoConn, a.asked}
      <3>1. i = 1 /\ rooms # <<>>
        BY <2>1, <2>4
      <3>2. crossed' = crossed \cup {x}
        BY <2>2, <2>4
      <3>3. Disturbed' = Disturbed \cup {k}
        BY <1>1, <2>3, <3>2 DEF Disturbed
      <3>. QED  BY <2>3, <2>4, <3>1, <3>2, <3>3
    <2>5. CASE i = 0 \/ k \in {NoConn, a.asked}
      <3>1. crossed' = crossed
        BY <2>2, <2>5
      <3>2. rooms = <<>> \/ rooms[1].guest \in {NoConn, a.asked}
        BY <2>1, <2>5
      <3>. QED  BY <1>1, <3>1, <3>2 DEF Disturbed
    <2>. QED  BY <2>4, <2>5
  <1>14. PlaceInv'
    <2>1. ASSUME NEW g \in Guests, Undecided(g)'
          PROVE  g \in Disturbed' \/ rooms' = <<>>
      <3>1. g # a.asked /\ g # NoConn
              /\ (g \in Disturbed \/ rooms = <<>> \/ InRoom(g))
        BY <1>10, <2>1, SessionDomains DEF FlowInv, PlaceInv
      <3>2. CASE g \in Disturbed \/ rooms = <<>>
        BY <1>3, <1>13, <3>2
      <3>3. CASE InRoom(g)
        BY <1>13, <3>1, <3>3 DEF InRoom
      <3>. QED  BY <3>1, <3>2, <3>3
    <2>2. \A g, h \in Guests :
             Undecided(g)' /\ Undecided(h)' => g = h \/ g \in Disturbed' \/ h \in Disturbed'
      BY <1>10, <1>13 DEF FlowInv, PlaceInv
    <2>. QED  BY <2>1, <2>2 DEF PlaceInv
  <1>15. CrossedOnlyAfterDeparture'
    <2>1. CASE crossed' = crossed
      BY <1>1, <1>13, <2>1 DEF FlowInv, CrossedOnlyAfterDeparture
    <2>2. CASE crossed' # crossed
      <3>1. /\ rooms # <<>> /\ rooms[1].guest # a.asked
            /\ \A x \in crossed' : x \in crossed \/ x.asked = a.asked
        BY <1>13, <2>2
      <3>2. a.asked \in Disturbed
        BY <1>7, <3>1 DEF FlowInv, PlaceInv, InRoom
      <3>3. reaped # {}
        BY <3>2 DEF Disturbed, FlowInv, CrossedOnlyAfterDeparture
      <3>4. \A x \in crossed : x.asked \in Disturbed
        BY DEF FlowInv, CrossedOnlyAfterDeparture
      <3>. QED  BY <1>1, <1>13, <3>1, <3>2, <3>3, <3>4 DEF CrossedOnlyAfterDeparture
    <2>. QED  BY <2>1, <2>2
  <1>16. ToldInv'
    <2>. SUFFICES ASSUME crossed' = {}, NEW g \in Guests, Told(g)'
                  PROVE  /\ asks'[g] = "answered" /\ ~Answering(g)'
                         /\ link'[g] = "open" /\ link'[Owner] = "open" => InRoom(g)'
      BY DEF ToldInv
    <2>1. crossed = {} /\ (rooms # <<>> => rooms[1].guest \in {NoConn, a.asked})
      BY <1>13
    <2>2. CASE Told(g)
      <3>1. /\ asks[g] = "answered" /\ ~Answering(g)
            /\ link[g] = "open" /\ link[Owner] = "open" => InRoom(g)
        BY <1>1, <2>1, <2>2 DEF FlowInv, ToldInv, ToSet
      <3>2. ~InRoom(g)
        BY <1>6, <2>1, <3>1, SessionDomains DEF InRoom
      <3>. QED  BY <1>1, <1>8, <3>1, <3>2
    <2>3. CASE ~Told(g)
      <3>1. rooms # <<>> /\ rooms[1].guest = g /\ UNCHANGED rooms
        BY <1>1, <1>9, <2>3 DEF Told
      <3>2. g = a.asked /\ InRoom(g)'
        BY <2>1, <3>1, SessionDomains DEF InRoom
      <3>. QED  BY <1>1, <1>7, <1>8, <3>2
    <2>. QED  BY <2>2, <2>3
  <1>. QED  BY <1>1, <1>3, <1>11, <1>12, <1>14, <1>15, <1>16 DEF FlowInv

\* The end of a connection, once announced, empties its place or its room.
LEMMA HandleDisconnectedKeeps ==
    ASSUME TypeOK, TypeOK', SessionTypeOK, FlowInv, AnnouncedOnce,
           SessionHandleDisconnected
    PROVE  FlowInv'
  <1>. PICK c : c = Head(clientDisconnectedChannel)
    OBVIOUS
  <1>1. /\ closing = <<>> /\ clientDisconnectedChannel # <<>>
        /\ handleClientDisconnected(c) /\ reaped' = reaped \cup {c} /\ Deliver
        /\ UNCHANGED <<link, guestPc, ownerPc, asks, pending, about, crossed>>
        /\ UNCHANGED <<toServer, held, clientMessageChannel>>
    BY DEF SessionHandleDisconnected, HandleDisconnected, TakeDisconnected, clientVars
  <1>2. c \in Conns /\ link[c] = "closed"
    <2>. PICK q \in Seq(Conns) : q = clientDisconnectedChannel
      BY DEF TypeOK, LinkTypeOK
    <2>1. c \in Conns /\ c = q[1] /\ 1 \in DOMAIN q
      BY <1>1, HeadTailProperties, EmptySeq
    <2>. QED  BY <2>1 DEF AnnouncedOnce
  <1>3. /\ RoomShape' /\ Harmless
        /\ \/ UNCHANGED rooms
           \/ rooms # <<>> /\ c = Owner /\ rooms' = <<>>
           \/ rooms # <<>> /\ rooms[1].guest = c /\ Emptied
    BY <1>1, <1>2, DisconnectedDoes DEF FlowInv
  <1>4. \A g \in Guests : Requested(g)' = Requested(g) /\ (Told(g)' => Told(g))
    BY <1>1, <1>3, HarmlessKeeps DEF Told
  <1>5. \A d \in Conns : FlightSame(d)
    BY <1>1, FlightUnchanged
  <1>6. FlightSame(Owner) /\ (Creating' <=> Creating)
    BY <1>5, SessionDomains DEF FlightSame, Creating
  <1>7. SaysInv' /\ PresenceInv' /\ PromptInv'
    BY <1>1, <1>5 DEF FlowInv, SaysInv, PresenceInv, PromptInv, FlightSame
  <1>8. TokenInv'
    <2>1. \A g \in Guests : Flight(g)' = Flight(g)
      BY <1>5, SessionDomains DEF FlightSame
    <2>. QED  BY <1>1, <1>4, <2>1 DEF FlowInv, TokenInv
  <1>9. CreateInv'
    <2>1. rooms = <<>> => rooms' = <<>>
      BY <1>3
    <2>. QED  BY <1>1, <1>4, <1>6, <2>1 DEF FlowInv, CreateInv, FlightSame
  <1>10. AboutInv'
    BY <1>1, <1>6 DEF FlowInv, AboutInv, FlightSame
  <1>11. /\ \A g \in Guests : (Undecided(g)' <=> Undecided(g)) /\ (Answering(g)' <=> Answering(g))
         /\ Disturbed' = Disturbed \cup {c}
    BY <1>1, <1>4 DEF Undecided, Answering, Disturbed
  <1>12. PlaceInv'
    <2>1. ASSUME NEW g \in Guests, Undecided(g)'
          PROVE  g \in Disturbed' \/ rooms' = <<>> \/ InRoom(g)'
      <3>1. g \in Disturbed \/ rooms = <<>> \/ InRoom(g)
        BY <1>11, <2>1 DEF FlowInv, PlaceInv
      <3>. QED  BY <1>3, <1>11, <3>1 DEF InRoom
    <2>. QED  BY <1>11, <2>1 DEF FlowInv, PlaceInv
  <1>13. CrossedOnlyAfterDeparture'
    BY <1>1, <1>11 DEF FlowInv, CrossedOnlyAfterDeparture
  <1>14. ToldInv'
    <2>. SUFFICES ASSUME crossed' = {}, NEW g \in Guests, Told(g)'
                  PROVE  /\ asks'[g] = "answered" /\ ~Answering(g)'
                         /\ link'[g] = "open" /\ link'[Owner] = "open" => InRoom(g)'
      BY DEF ToldInv
    <2>1. /\ asks[g] = "answered" /\ ~Answering(g)
          /\ link[g] = "open" /\ link[Owner] = "open" => InRoom(g)
      BY <1>1, <1>4 DEF FlowInv, ToldInv, ToSet
    <2>2. link[g] = "open" /\ link[Owner] = "open" /\ InRoom(g) => InRoom(g)'
      BY <1>2, <1>3 DEF InRoom
    <2>. QED  BY <1>1, <1>11, <2>1, <2>2
  <1>. QED  BY <1>3, <1>7, <1>8, <1>9, <1>10, <1>12, <1>13, <1>14 DEF FlowInv

-----------------------------------------------------------------------------
(* Types *)

\* Misdirected answers are about guests and reach guests.
LEMMA CrossingTyped ==
    ASSUME TypeOK, TypeOK', SessionTypeOK, FlowInv, SessionHandleMessage
    PROVE  /\ about' \in Seq([asked : Guests, decision : Decisions])
           /\ crossed' \in SUBSET [asked : Guests, decision : Decisions, reached : Guests]
  <1>. DEFINE T == [asked : Guests, decision : Decisions]
              X == [asked : Guests, decision : Decisions, reached : Guests]
  <1>1. about \in Seq(T) /\ crossed \in SUBSET X
    BY DEF SessionTypeOK
  <1>2. CASE Head(clientMessageChannel).body.cmd # "JoinRoomResponse"
    <2>1. UNCHANGED <<about, crossed>>
      BY <1>2 DEF SessionHandleMessage
    <2>. QED  BY <1>1, <2>1
  <1>3. CASE Head(clientMessageChannel).body.cmd = "JoinRoomResponse"
    <2>1. about' = Tail(about) /\ Crossing /\ about # <<>>
      BY <1>3, AnswerIsAbout DEF SessionHandleMessage
    <2>. PICK q \in Seq(T) : q = about
      BY <1>1
    <2>2. Head(q) \in T /\ Tail(q) \in Seq(T)
      <3>. HIDE DEF T
      <3>. QED  BY <2>1, HeadTailProperties
    <2>. PICK a \in T : a = Head(about)
      BY <2>2
    <2>. PICK i : i = findRoomByOwner(Owner)
      OBVIOUS
    <2>. PICK k : k = rooms[i].guest
      OBVIOUS
    <2>3. crossed' = IF i # 0 /\ k \notin {NoConn, a.asked}
                     THEN crossed \cup {[asked |-> a.asked, decision |-> a.decision,
                                        reached |-> k]}
                     ELSE crossed
      BY <2>1 DEF Crossing
    <2>4. i # 0 => k \in Guests \cup {NoConn}
      BY TheLookups, TheRoom DEF FlowInv
    <2>5. k \in Guests =>
            [asked |-> a.asked, decision |-> a.decision, reached |-> k] \in X
      OBVIOUS
    <2>6. crossed' \in SUBSET X
      BY <1>1, <2>3, <2>4, <2>5
    <2>. QED  BY <2>1, <2>2, <2>6
  <1>. QED  BY <1>2, <1>3

\* Every step keeps the session's types.
LEMMA SessionTypeStep ==
    ASSUME TypeOK, TypeOK', SessionTypeOK, FlowInv, [SessionNext]_sessionVars
    PROVE  SessionTypeOK'
  <1>. DEFINE Queues == /\ toClient' \in [Conns -> Seq(Outs)]
                        /\ \A d \in Conns : \A i \in DOMAIN toClient'[d] :
                              toClient'[d][i].to = d
              Clients == /\ guestPc' \in [Guests -> {"new", "waiting", "joined", "refused", "gone"}]
                         /\ ownerPc' \in {"new", "creating", "room", "guestLeft", "gone"}
                         /\ asks' \in [Guests -> AskStates]
                         /\ pending' \in Guests \cup {NoConn}
              Sent == toServer' \in [Conns -> Seq(Bodies)]
              Answers == /\ about' \in Seq([asked : Guests, decision : Decisions])
                         /\ crossed' \in SUBSET [asked : Guests, decision : Decisions,
                                                 reached : Guests]
  <1>1. Sent /\ Queues /\ Clients /\ Answers => SessionTypeOK'
    BY DEF SessionTypeOK, Outs
  <1>2. UNCHANGED toClient => Queues
    BY DEF SessionTypeOK, Outs
  <1>3. UNCHANGED toServer => Sent
    BY DEF SessionTypeOK
  <1>4. UNCHANGED clientVars => Clients
    BY DEF SessionTypeOK, clientVars
  <1>5. UNCHANGED <<about, crossed>> => Answers
    BY DEF SessionTypeOK
  <1>6. ASSUME NEW c \in Conns, NEW kinds, Receive(c, kinds)
        PROVE  Queues
    BY <1>6, ReceiveTyped
  <1>7. \A g \in Guests : g \in Conns
    BY DEF Guests
  <1>8. ASSUME Deliver
        PROVE  Queues
    BY <1>8, DeliverTyped
  <1>9. ASSUME NEW c \in Conns, NEW b \in Bodies, Send(c, b)
        PROVE  Sent
    BY <1>9, SendTyped
  <1>. HIDE DEF Queues, Sent, Answers
  <1>10. ASSUME NEW c \in Conns, SessionConnections(c) \/ SessionEnqueue(c)
         PROVE  SessionTypeOK'
    <2>1. UNCHANGED <<toServer, toClient, clientVars, about, crossed>>
      BY <1>10 DEF SessionConnections, SessionEnqueue
    <2>. QED  BY <1>1, <1>2, <1>3, <1>4, <1>5, <2>1
  <1>11. ASSUME NEW c \in Conns, SessionRead(c)
         PROVE  SessionTypeOK'
    <2>1. Sent
      <3>1. /\ toServer \in [Conns -> Seq(Bodies)] /\ toServer[c] # <<>>
            /\ toServer' = [toServer EXCEPT ![c] = Tail(@)]
        BY <1>11 DEF SessionTypeOK, SessionRead
      <3>. PICK q \in Seq(Bodies) : q = toServer[c]
        BY <3>1
      <3>2. Tail(q) \in Seq(Bodies)
        BY <3>1, HeadTailProperties
      <3>. QED  BY <3>1, <3>2 DEF Sent
    <2>. QED  BY <1>1, <1>2, <1>4, <1>5, <1>11, <2>1 DEF SessionRead
  <1>12. CASE SessionHandleMessage
    <2>1. Answers
      BY <1>12, CrossingTyped DEF Answers
    <2>. QED  BY <1>1, <1>3, <1>4, <1>8, <1>12, <2>1 DEF SessionHandleMessage
  <1>13. CASE SessionHandleDisconnected
    BY <1>1, <1>3, <1>4, <1>5, <1>8, <1>13 DEF SessionHandleDisconnected
  <1>14. CASE SessionClose
    BY <1>1, <1>2, <1>3, <1>4, <1>5, <1>14 DEF SessionClose
  <1>15. ASSUME NEW g \in Guests, GuestJoins(g)
         PROVE  SessionTypeOK'
    <2>1. PICK id \in RoomIds : Send(g, [cmd |-> "JoinRoom", roomId |-> id])
      BY <1>15 DEF GuestJoins
    <2>2. [cmd |-> "JoinRoom", roomId |-> id] \in Bodies
      BY DEF Bodies
    <2>3. Sent
      BY <1>7, <1>9, <2>1, <2>2
    <2>4. Clients
      BY <1>15 DEF GuestJoins, SessionTypeOK
    <2>. QED  BY <1>1, <1>2, <1>5, <1>15, <2>3, <2>4 DEF GuestJoins
  <1>16. ASSUME NEW g \in Guests, GuestDecided(g) \/ GuestIgnores(g)
         PROVE  SessionTypeOK'
    <2>1. Queues
      BY <1>6, <1>7, <1>16 DEF GuestDecided, GuestIgnores
    <2>2. Clients
      BY <1>16 DEF GuestDecided, GuestIgnores, SessionTypeOK, clientVars
    <2>. QED  BY <1>1, <1>3, <1>5, <1>16, <2>1, <2>2 DEF GuestDecided, GuestIgnores
  <1>17. ASSUME NEW g \in Guests, GuestLeaves(g) \/ GuestLost(g)
         PROVE  SessionTypeOK'
    <2>1. Clients
      BY <1>17 DEF GuestLeaves, GuestLost, SessionTypeOK
    <2>. QED  BY <1>1, <1>2, <1>3, <1>5, <1>17, <2>1 DEF GuestLeaves, GuestLost
  <1>18. ASSUME NEW g \in Guests, OwnerAnswers(g)
         PROVE  SessionTypeOK'
    <2>1. [cmd |-> "JoinRoomResponse", accepted |-> asks[g] = "yes"] \in Bodies
      BY DEF Bodies
    <2>2. Sent
      BY <1>9, <1>18, <2>1, OwnerAssumption DEF OwnerAnswers
    <2>3. Clients
      BY <1>18 DEF OwnerAnswers, SessionTypeOK, AskStates
    <2>4. Answers
      <3>. DEFINE T == [asked : Guests, decision : Decisions]
      <3>. PICK a : a = [asked |-> g, decision |-> asks[g]]
        OBVIOUS
      <3>1. a \in T /\ about \in Seq(T) /\ about' = Append(about, a) /\ UNCHANGED crossed
        BY <1>18 DEF OwnerAnswers, SessionTypeOK
      <3>2. about' \in Seq(T)
        <4>. HIDE DEF T
        <4>. QED  BY <3>1
      <3>. QED  BY <3>1, <3>2 DEF Answers, SessionTypeOK
    <2>. QED  BY <1>1, <1>2, <1>18, <2>2, <2>3, <2>4 DEF OwnerAnswers
  <1>19. CASE (\E g \in Guests : PromptJoinRequest(g)) \/ PromptKey \/ PromptGuestLeft
    <2>1. Clients
      BY <1>19 DEF PromptJoinRequest, PromptKey, PromptGuestLeft, SessionTypeOK, AskStates,
                   Decisions
    <2>2. UNCHANGED <<toServer, toClient, about, crossed>>
      BY <1>19 DEF PromptJoinRequest, PromptKey, PromptGuestLeft
    <2>. QED  BY <1>1, <1>2, <1>3, <1>5, <2>1, <2>2
  <1>20. CASE OwnerCreates
    <2>1. [cmd |-> "CreateRoom"] \in Bodies
      BY DEF Bodies
    <2>2. Sent
      BY <1>9, <1>20, <2>1, OwnerAssumption DEF OwnerCreates
    <2>3. Clients
      BY <1>20 DEF OwnerCreates, SessionTypeOK
    <2>. QED  BY <1>1, <1>2, <1>5, <1>20, <2>2, <2>3 DEF OwnerCreates
  <1>21. CASE OwnerRoomCreated \/ OwnerJoinRequest \/ OwnerGuestLeft \/ OwnerIgnores
    <2>1. Queues
      BY <1>6, <1>21, OwnerAssumption
         DEF OwnerRoomCreated, OwnerJoinRequest, OwnerGuestLeft, OwnerIgnores
    <2>2. Clients
      BY <1>21 DEF OwnerRoomCreated, OwnerJoinRequest, OwnerGuestLeft, OwnerIgnores,
                   SessionTypeOK, AskStates, clientVars
    <2>3. UNCHANGED <<toServer, about, crossed>>
      BY <1>21 DEF OwnerRoomCreated, OwnerJoinRequest, OwnerGuestLeft, OwnerIgnores
    <2>. QED  BY <1>1, <1>3, <1>5, <2>1, <2>2, <2>3
  <1>22. CASE OwnerQuits
    <2>1. Clients
      BY <1>22 DEF OwnerQuits, SessionTypeOK
    <2>. QED  BY <1>1, <1>2, <1>3, <1>5, <1>22, <2>1 DEF OwnerQuits
  <1>23. CASE UNCHANGED sessionVars
    BY <1>1, <1>2, <1>3, <1>4, <1>5, <1>23 DEF sessionVars
  <1>. QED
    BY <1>10, <1>11, <1>12, <1>13, <1>14, <1>15, <1>16, <1>17, <1>18, <1>19, <1>20, <1>21,
       <1>22, <1>23 DEF SessionNext

-----------------------------------------------------------------------------
(* The session *)

\* Nothing is under way when the session starts.
LEMMA SessionStarts == SessionInit => SessionInv
  <1>. SUFFICES ASSUME SessionInit PROVE SessionInv
    OBVIOUS
  <1>1. /\ rooms = <<>> /\ clientMessageChannel = <<>> /\ held = [c \in Conns |-> NoBody]
        /\ toServer = [c \in Conns |-> <<>>] /\ toClient = [c \in Conns |-> <<>>]
        /\ guestPc = [g \in Guests |-> "new"] /\ ownerPc = "new"
        /\ asks = [g \in Guests |-> "none"] /\ pending = NoConn
        /\ about = <<>> /\ crossed = {}
        /\ \A g \in Guests : g \in Conns
    BY DEF SessionInit, Init, Guests
  <1>2. SessionTypeOK
    BY <1>1 DEF SessionTypeOK, AskStates
  <1>3. \A c \in Conns : Flight(c) = 0 /\ Bag(c) = {}
    <2>. TAKE c \in Conns
    <2>1. toServer[c] = <<>> /\ held[c] = NoBody
      BY <1>1
    <2>2. Reading(c) = 0 /\ Count(clientMessageChannel, From(c)) = 0
      BY <1>1, <2>1, CountEmpty DEF Reading
    <2>3. Flight(c) = 0
      BY <2>1, <2>2 DEF Flight
    <2>4. ToSet(toServer[c]) = {} /\ DOMAIN clientMessageChannel = {}
      BY <1>1, <2>1 DEF ToSet
    <2>. QED  BY <2>1, <2>3, <2>4 DEF Bag
  <1>4. \A g \in Guests : Requested(g) = 0 /\ ~Told(g) /\ asks[g] = "none"
    <2>. TAKE g \in Guests
    <2>1. toClient[Owner] = <<>> /\ toClient[g] = <<>>
      BY <1>1, OwnerAssumption
    <2>. QED  BY <1>1, <2>1, CountEmpty DEF Requested, Told, Accepting
  <1>5. ~Creating /\ Flight(Owner) = 0
    BY <1>3, OwnerAssumption DEF Creating
  <1>6. RoomShape /\ SaysInv /\ TokenInv /\ PresenceInv
    BY <1>1, <1>3, <1>4 DEF RoomShape, SaysInv, TokenInv, PresenceInv
  <1>7. CreateInv /\ AboutInv /\ PromptInv
    BY <1>1, <1>4, <1>5 DEF CreateInv, AboutInv, PromptInv
  <1>8. \A g \in Guests : ~Undecided(g)
    BY <1>1, <1>4, DecidingFacts DEF Undecided, Answering
  <1>9. PlaceInv /\ ToldInv /\ CrossedOnlyAfterDeparture
    BY <1>1, <1>4, <1>8 DEF PlaceInv, ToldInv, CrossedOnlyAfterDeparture
  <1>. QED  BY <1>2, <1>6, <1>7, <1>9 DEF SessionInv, FlowInv

\* Every step keeps the invariant.
LEMMA SessionStep ==
    ASSUME TypeOK, TypeOK', AnnouncedOnce, SessionInv, [SessionNext]_sessionVars
    PROVE  SessionInv'
  <1>1. SessionTypeOK /\ FlowInv
    BY DEF SessionInv
  <1>2. SessionTypeOK'
    BY <1>1, SessionTypeStep
  <1>. SUFFICES FlowInv'
    BY <1>2 DEF SessionInv
  <1>3. ASSUME Quiet
        PROVE  FlowInv'
    BY <1>1, <1>3, QuietKeeps
  <1>4. CASE \/ \E c \in Conns : SessionConnections(c) \/ SessionRead(c) \/ SessionEnqueue(c)
             \/ SessionClose
             \/ UNCHANGED sessionVars
    BY <1>1, <1>3, <1>4, TransporterIsQuiet
  <1>5. ASSUME NEW g \in Guests,
               GuestDecided(g) \/ GuestIgnores(g) \/ GuestLeaves(g) \/ GuestLost(g)
        PROVE  FlowInv'
    BY <1>1, <1>3, <1>5, GuestIsQuiet
  <1>6. CASE OwnerRoomCreated \/ OwnerGuestLeft \/ OwnerIgnores \/ OwnerQuits
    BY <1>1, <1>3, <1>6, OwnerIsQuiet
  <1>7. CASE (\E g \in Guests : PromptJoinRequest(g)) \/ PromptKey \/ PromptGuestLeft
    BY <1>1, <1>3, <1>7, PromptIsQuiet
  <1>8. ASSUME NEW g \in Guests, GuestJoins(g)
        PROVE  FlowInv'
    BY <1>1, <1>8, GuestJoinsKeeps
  <1>9. ASSUME NEW g \in Guests, OwnerAnswers(g)
        PROVE  FlowInv'
    BY <1>1, <1>9, OwnerAnswersKeeps
  <1>10. CASE OwnerCreates
    BY <1>1, <1>10, OwnerCreatesKeeps
  <1>11. CASE OwnerJoinRequest
    BY <1>1, <1>11, OwnerJoinRequestKeeps
  <1>12. CASE SessionHandleMessage
    <2>. PICK m : m = Head(clientMessageChannel)
      OBVIOUS
    <2>1. m.body.cmd \in Says(m.sender)
      BY <1>1, <1>12, HandleMessageTakes
    <2>2. m.body.cmd \in {"CreateRoom", "JoinRoom", "JoinRoomResponse"}
      BY <2>1 DEF Says
    <2>. QED
      BY <1>1, <1>12, <2>2, HandleCreateRoomKeeps, HandleJoinRoomKeeps,
         HandleJoinRoomResponseKeeps
  <1>13. CASE SessionHandleDisconnected
    BY <1>1, <1>13, HandleDisconnectedKeeps
  <1>. QED
    BY <1>4, <1>5, <1>6, <1>7, <1>8, <1>9, <1>10, <1>11, <1>12, <1>13
       DEF SessionNext

\* The session's state is well typed and the join flow as described above, for
\* any number of guests and messages.
THEOREM SessionInvariant == SessionSpec => []SessionInv
  <1>1. SessionInit => SessionInv
    BY SessionStarts
  <1>2. TypeOK /\ TypeOK' /\ AnnouncedOnce /\ SessionInv /\ [SessionNext]_sessionVars
           => SessionInv'
    BY SessionStep
  <1>3. SessionSpec => []TypeOK /\ []AnnouncedOnce
    BY SessionIsRoomManager, TypeCorrect, AnnouncedOnceCorrect, PTL
  <1>. QED  BY <1>1, <1>2, <1>3, PTL DEF SessionSpec

\* An answer reaches another guest than the one it is about only after that one
\* has left or was itself put out by such an answer (handleJoinRoomResponse
\* names nobody).
THEOREM CrossedOnlyAfterDepartureCorrect == SessionSpec => []CrossedOnlyAfterDeparture
  <1>1. SessionInv => CrossedOnlyAfterDeparture
    BY DEF SessionInv, FlowInv
  <1>. QED  BY <1>1, SessionInvariant, PTL

\* A connected guest that roomJoinStep let in is the guest of the room of the
\* connected owner, as long as no answer went astray.
THEOREM JoinedIsInRoomCorrect == SessionSpec => []JoinedIsInRoom
  <1>1. TypeOK /\ SessionInv => JoinedIsInRoom
    <2>. SUFFICES ASSUME TypeOK, SessionInv, crossed = {}, NEW g \in Guests,
                         guestPc[g] = "joined", link[g] = "open", link[Owner] = "open"
                  PROVE  \/ \E i \in DOMAIN rooms : rooms[i].owner = Owner /\ rooms[i].guest = g
                         \/ g \in ToSet(closing)
      BY DEF JoinedIsInRoom
    <2>1. InRoom(g) \/ g \in ToSet(closing)
      BY DEF SessionInv, FlowInv, ToldInv, Told
    <2>2. InRoom(g) => 1 \in DOMAIN rooms /\ rooms[1].owner = Owner /\ rooms[1].guest = g
      BY TheRoom DEF SessionInv, FlowInv, InRoom
    <2>. QED  BY <2>1, <2>2
  <1>. QED  BY <1>1, SessionInvariant, SessionIsRoomManager, TypeCorrect, PTL

\* Two guests are asked about at once only if one of them has left or was put
\* out: the single prompt of the TUI is enough until then.
THEOREM OneRequestAtATimeCorrect == SessionSpec => []OneRequestAtATime
  <1>1. SessionInv => OneRequestAtATime
    BY DEF SessionInv, FlowInv, PlaceInv, Undecided, Deciding, OneRequestAtATime
  <1>. QED  BY <1>1, SessionInvariant, PTL
===============================================================================
