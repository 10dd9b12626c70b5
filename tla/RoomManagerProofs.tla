-------------------------- MODULE RoomManagerProofs --------------------------
(***************************************************************************)
(* Proofs about RoomManager for any number of connections, room ids and    *)
(* messages and any channel capacity.                                      *)
(***************************************************************************)
EXTENDS RoomManager, SequenceTheorems, WellFoundedInduction, TLAPS

-----------------------------------------------------------------------------
(* The list operations *)

\* A non-empty set of list positions has a first one: what the lookup loops
\* (findRoomById, findRoomByOwner, findRoomByParticipant) return is a match.
LEMMA FirstOfIsMatch ==
    ASSUME NEW S \in SUBSET (Nat \ {0})
    PROVE  /\ S = {} <=> FirstOf(S) = 0
           /\ S # {} => FirstOf(S) \in S
  <1>1. CASE S = {}
    BY <1>1 DEF FirstOf
  <1>2. CASE S # {}
    <2>1. \E x \in S : \A y \in S : ~ (<<y, x>> \in OpToRel(<, Nat))
      BY <1>2, NatLessThanWellFounded, WFMin
    <2>2. PICK x \in S : \A y \in S : ~ (<<y, x>> \in OpToRel(<, Nat))
      BY <2>1
    <2>3. ASSUME NEW y \in S PROVE x =< y
      <3>. DEFINE p == <<y, x>>
      <3>1. p \in Nat \X Nat /\ p[1] = y /\ p[2] = x
        OBVIOUS
      <3>2. ~ (p \in {ss \in Nat \X Nat : ss[1] < ss[2]})
        BY <2>2 DEF OpToRel
      <3>. HIDE DEF p
      <3>3. ~ (y < x)
        BY <3>1, <3>2
      <3>. QED  BY <3>3
    <2>4. Min(S) \in S
      BY <2>2, <2>3 DEF Min
    <2>. QED  BY <1>2, <2>4 DEF FirstOf
  <1>. QED  BY <1>1, <1>2

\* append(rooms[:i], rooms[i+1:]...): the other elements keep their order.
LEMMA RemoveAtElements ==
    ASSUME NEW T, NEW s \in Seq(T), NEW i \in 1..Len(s)
    PROVE  /\ RemoveAt(s, i) \in Seq(T)
           /\ Len(RemoveAt(s, i)) = Len(s) - 1
           /\ \A j \in 1..(Len(s) - 1) :
                 RemoveAt(s, i)[j] = IF j < i THEN s[j] ELSE s[j + 1]
  <1>. DEFINE a == SubSeq(s, 1, i - 1)
              b == SubSeq(s, i + 1, Len(s))
  <1>1. /\ a \in Seq(T) /\ Len(a) = i - 1
        /\ \A j \in 1..(i - 1) : a[j] = s[j]
    BY SubSeqProperties
  <1>2. /\ b \in Seq(T) /\ Len(b) = Len(s) - i
        /\ \A j \in 1..(Len(s) - i) : b[j] = s[i + j]
    BY SubSeqProperties
  <1>. HIDE DEF a, b
  <1>c. /\ a \o b \in Seq(T) /\ Len(a \o b) = Len(a) + Len(b)
        /\ \A j \in 1..(Len(a) + Len(b)) :
              (a \o b)[j] = IF j =< Len(a) THEN a[j] ELSE b[j - Len(a)]
    BY <1>1, <1>2, ConcatProperties
  <1>3. /\ a \o b \in Seq(T) /\ Len(a \o b) = Len(s) - 1
        /\ \A j \in 1..(Len(s) - 1) :
              (a \o b)[j] = IF j =< i - 1 THEN a[j] ELSE b[j - (i - 1)]
    BY <1>1, <1>2, <1>c
  <1>4. \A j \in 1..(Len(s) - 1) :
              (a \o b)[j] = IF j < i THEN s[j] ELSE s[j + 1]
    <2>. TAKE j \in 1..(Len(s) - 1)
    <2>1. i \in Nat /\ j \in Nat /\ Len(s) \in Nat
      OBVIOUS
    <2>2. CASE j < i
      <3>1. j \in 1..(i - 1) /\ j =< i - 1
        BY <2>1, <2>2
      <3>2. (a \o b)[j] = a[j]
        BY <1>3, <3>1
      <3>. QED  BY <1>1, <2>2, <3>1, <3>2
    <2>3. CASE ~(j < i)
      <3>1. /\ j - (i - 1) \in 1..(Len(s) - i)
            /\ i + (j - (i - 1)) = j + 1
            /\ ~(j =< i - 1)
        BY <2>1, <2>3
      <3>2. (a \o b)[j] = b[j - (i - 1)]
        BY <1>3, <3>1
      <3>3. b[j - (i - 1)] = s[i + (j - (i - 1))]
        BY <1>2, <3>1
      <3>. QED  BY <2>3, <3>1, <3>2, <3>3
    <2>. QED  BY <2>2, <2>3
  <1>. QED  BY <1>3, <1>4 DEF RemoveAt, a, b

\* The fields of a room of the list.
LEMMA RoomOwner ==
    ASSUME TypeOK, NEW i \in DOMAIN rooms
    PROVE  rooms[i].owner \in Conns /\ rooms[i].guest \in Conns \cup {NoConn}
  <1>1. rooms \in Seq(RoomData)
    BY DEF TypeOK
  <1>2. rooms[i] \in RoomData
    BY <1>1
  <1>. QED  BY <1>2 DEF RoomData

-----------------------------------------------------------------------------
(* How a handler may change the room list *)

\* Every room of the new list comes from a different room of the old one, has
\* the same owner, and its guest is the old one, nobody, or, if there was none,
\* x; the participants of a room that has no successor are being closed.
ReshapedBy(f, x) ==
    /\ f \in [DOMAIN rooms' -> DOMAIN rooms]
    /\ \A j, k \in DOMAIN rooms' : f[j] = f[k] => j = k
    /\ \A j \in DOMAIN rooms' :
          /\ rooms'[j].owner = rooms[f[j]].owner
          /\ \/ rooms'[j].guest \in {rooms[f[j]].guest, NoConn}
             \/ rooms[f[j]].guest = NoConn /\ rooms'[j].guest = x
    /\ \A i \in DOMAIN rooms :
          \/ \E j \in DOMAIN rooms' : f[j] = i
          \/ {rooms[i].owner, rooms[i].guest} \ {NoConn} \subseteq ToSet(closing')

Reshaped(x) == rooms' \in Seq(RoomData) /\ \E f : ReshapedBy(f, x)

\* A new room of s, which was in none, is appended.
Created(s) ==
    /\ RoomsOf(s) = {}
    /\ \E id \in RoomIds :
          rooms' = Append(rooms, [roomId |-> id, owner |-> s, guest |-> NoConn])

\* Removing a room reshapes the list.
LEMMA RemoveReshapes ==
    ASSUME TypeOK, NEW i \in DOMAIN rooms, rooms' = RemoveAt(rooms, i), NEW x,
           {rooms[i].owner, rooms[i].guest} \ {NoConn} \subseteq ToSet(closing')
    PROVE  /\ Reshaped(x)
           /\ \E f : ReshapedBy(f, x) /\ \A j \in DOMAIN rooms' : f[j] # i
  <1>. DEFINE f == [j \in DOMAIN rooms' |-> IF j < i THEN j ELSE j + 1]
  <1>1. rooms \in Seq(RoomData) /\ i \in 1..Len(rooms) /\ Len(rooms) \in Nat
    BY DEF TypeOK
  <1>2. /\ rooms' \in Seq(RoomData) /\ Len(rooms') = Len(rooms) - 1
        /\ \A j \in 1..(Len(rooms) - 1) :
              rooms'[j] = IF j < i THEN rooms[j] ELSE rooms[j + 1]
    BY <1>1, RemoveAtElements
  <1>3. DOMAIN rooms' = 1..(Len(rooms) - 1) /\ DOMAIN rooms = 1..Len(rooms)
    BY <1>1, <1>2
  <1>4. /\ f \in [DOMAIN rooms' -> DOMAIN rooms]
        /\ \A j \in DOMAIN rooms' : f[j] # i /\ rooms'[j] = rooms[f[j]]
        /\ \A j, k \in DOMAIN rooms' : f[j] = f[k] => j = k
    BY <1>1, <1>2, <1>3
  <1>5. ASSUME NEW k \in DOMAIN rooms, k # i
        PROVE  \E j \in DOMAIN rooms' : f[j] = k
    <2>1. CASE k < i
      <3>1. k \in DOMAIN rooms' /\ f[k] = k
        BY <1>1, <1>3, <2>1
      <3>. QED  BY <3>1
    <2>2. CASE ~ (k < i)
      <3>1. k - 1 \in DOMAIN rooms' /\ f[k - 1] = k
        BY <1>1, <1>3, <1>5, <2>2
      <3>. QED  BY <3>1
    <2>. QED  BY <2>1, <2>2
  <1>. HIDE DEF f
  <1>6. ReshapedBy(f, x)
    BY <1>4, <1>5 DEF ReshapedBy
  <1>. QED  BY <1>2, <1>4, <1>6 DEF Reshaped

\* So does emptying one room's guest slot, or giving an empty one to x.
LEMMA GuestChangeReshapes ==
    ASSUME TypeOK, NEW i \in DOMAIN rooms, NEW x, NEW g \in Conns \cup {NoConn},
           g = NoConn \/ (g = x /\ rooms[i].guest = NoConn),
           rooms' = [rooms EXCEPT ![i].guest = g]
    PROVE  /\ Reshaped(x)
           /\ ReshapedBy([j \in DOMAIN rooms' |-> j], x)
           /\ rooms'[i].owner = rooms[i].owner /\ rooms'[i].guest = g
  <1>. DEFINE f == [j \in DOMAIN rooms' |-> j]
  <1>1. rooms \in Seq(RoomData)
    BY DEF TypeOK
  <1>2. /\ rooms' \in Seq(RoomData) /\ DOMAIN rooms' = DOMAIN rooms
        /\ \A j \in DOMAIN rooms : rooms'[j].owner = rooms[j].owner
        /\ \A j \in DOMAIN rooms :
              rooms'[j].guest = IF j = i THEN g ELSE rooms[j].guest
    <2>. DEFINE new == [rooms[i] EXCEPT !.guest = g]
    <2>1. rooms[i] \in RoomData
      BY <1>1
    <2>2. new \in RoomData /\ new.owner = rooms[i].owner /\ new.guest = g
      BY <2>1 DEF RoomData
    <2>3. rooms' = [rooms EXCEPT ![i] = new]
      OBVIOUS
    <2>. HIDE DEF new
    <2>4. rooms' \in Seq(RoomData)
      BY <1>1, <2>2, <2>3
    <2>5. DOMAIN rooms' = DOMAIN rooms
      BY <2>3
    <2>6. \A j \in DOMAIN rooms : rooms'[j] = IF j = i THEN new ELSE rooms[j]
      BY <2>3
    <2>. QED  BY <2>2, <2>4, <2>5, <2>6
  <1>3. ReshapedBy(f, x)
    BY <1>2 DEF ReshapedBy
  <1>. QED  BY <1>2, <1>3 DEF Reshaped

\* And so does leaving the list alone.
LEMMA UnchangedReshapes ==
    ASSUME TypeOK, UNCHANGED rooms, NEW x
    PROVE  Reshaped(x)
  <1>. DEFINE f == [j \in DOMAIN rooms' |-> j]
  <1>1. ReshapedBy(f, x)
    BY DEF ReshapedBy
  <1>. QED  BY <1>1 DEF Reshaped, TypeOK

\* The lookups return positions of the list, or 0 when nothing matches.
LEMMA LookupsInRange ==
    ASSUME TypeOK
    PROVE  /\ \A id : findRoomById(id) # 0 => findRoomById(id) \in DOMAIN rooms
           /\ \A c : findRoomByOwner(c) # 0 =>
                        /\ findRoomByOwner(c) \in DOMAIN rooms
                        /\ rooms[findRoomByOwner(c)].owner = c
           /\ \A c : findRoomByParticipant(c) # 0 => findRoomByParticipant(c) \in RoomsOf(c)
           /\ \A c : findRoomByParticipant(c) = 0 <=> RoomsOf(c) = {}
           /\ \A c : RoomsOf(c) \in SUBSET DOMAIN rooms
  <1>1. DOMAIN rooms \subseteq Nat \ {0}
    BY DEF TypeOK
  <1>2. \A id : findRoomById(id) # 0 => findRoomById(id) \in DOMAIN rooms
    <2>. TAKE id
    <2>. DEFINE S == {i \in DOMAIN rooms : rooms[i].roomId = id}
    <2>1. S \in SUBSET (Nat \ {0}) /\ S \subseteq DOMAIN rooms
      BY <1>1
    <2>2. FirstOf(S) # 0 => FirstOf(S) \in S
      BY <2>1, FirstOfIsMatch
    <2>. QED  BY <2>1, <2>2 DEF findRoomById
  <1>3. \A c : findRoomByOwner(c) # 0 =>
                        /\ findRoomByOwner(c) \in DOMAIN rooms
                        /\ rooms[findRoomByOwner(c)].owner = c
    <2>. TAKE c
    <2>. DEFINE S == {i \in DOMAIN rooms : rooms[i].owner = c}
    <2>1. S \in SUBSET (Nat \ {0})
      BY <1>1
    <2>2. FirstOf(S) # 0 => FirstOf(S) \in S
      BY <2>1, FirstOfIsMatch
    <2>. QED  BY <2>2 DEF findRoomByOwner
  <1>4. \A c : RoomsOf(c) \in SUBSET DOMAIN rooms
    BY DEF RoomsOf
  <1>5. \A c : /\ findRoomByParticipant(c) # 0 => findRoomByParticipant(c) \in RoomsOf(c)
               /\ findRoomByParticipant(c) = 0 <=> RoomsOf(c) = {}
    <2>. TAKE c
    <2>1. RoomsOf(c) \in SUBSET (Nat \ {0})
      BY <1>1, <1>4
    <2>. QED  BY <2>1, FirstOfIsMatch DEF findRoomByParticipant
  <1>. QED  BY <1>2, <1>3, <1>4, <1>5

-----------------------------------------------------------------------------
(* What handling one message does, handler by handler *)

Outs == [kind : Replies, from : Conns \cup {NoConn}, to : Conns \cup {NoConn}]

\* The summary of a message handler for sender s.
Effect(s) ==
    /\ closing' \in Seq(Conns)
    /\ out' \in Outs
    /\ admitted' \in SUBSET (Conns \X Conns)
    /\ Created(s) \/ Reshaped(s)

\* Whatever a handler writes (or that it writes nothing) is well typed.
LEMMA WritesTyped ==
    ASSUME NEW s \in Conns, NEW c \in Conns, NEW kind \in Replies,
           Write(kind, s, c) \/ WriteNothing
    PROVE  out' \in Outs
  BY DEF Write, WriteNothing, Written, NothingWritten, Outs, Replies

\* The lists of at most two clients that a handler may leave in closing.
LEMMA ClosingTyped ==
    ASSUME NEW a \in Conns, NEW b \in Conns
    PROVE  /\ <<>> \in Seq(Conns) /\ <<a>> \in Seq(Conns) /\ <<a, b>> \in Seq(Conns)
           /\ ToSet(<<a>>) = {a} /\ ToSet(<<a, b>>) = {a, b}
  BY DEF ToSet

\* ReplyOrClose, the answer-or-close pattern of all handlers, is well typed.
LEMMA ReplyTyped ==
    ASSUME NEW s \in Conns, NEW kind \in Replies, ReplyOrClose(s, kind)
    PROVE  closing' \in Seq(Conns) /\ out' \in Outs
  <1>1. out' \in Outs
    BY WritesTyped DEF ReplyOrClose
  <1>2. closing' = <<>> \/ closing' = <<s>>
    BY DEF ReplyOrClose
  <1>3. closing' \in Seq(Conns)
    BY <1>2, ClosingTyped
  <1>. QED  BY <1>1, <1>3

\* handleCreateRoom appends a room only for a client that is in none.
LEMMA CreateRoomEffect ==
    ASSUME TypeOK, NEW s \in Conns, handleCreateRoom(s)
    PROVE  Effect(s)
  <1>1. admitted' \in SUBSET (Conns \X Conns)
    BY DEF handleCreateRoom, TypeOK
  <1>2. closing' \in Seq(Conns) /\ out' \in Outs
    <2>1. CASE ReplyOrClose(s, "ErrorAlreadyInRoom") \/ ReplyOrClose(s, "RoomCreated")
      BY <2>1, ReplyTyped DEF Replies
    <2>2. CASE closing' = <<s>> /\ WriteNothing
      <3>1. out' \in Outs
        BY <2>2, WritesTyped DEF Replies
      <3>. QED  BY <2>2, <3>1
    <2>. QED  BY <2>1, <2>2 DEF handleCreateRoom
  <1>3. Created(s) \/ Reshaped(s)
    <2>1. CASE UNCHANGED rooms
      BY <2>1, UnchangedReshapes
    <2>2. CASE /\ ~isClientInARoom(s)
               /\ \E id \in RoomIds :
                     rooms' = Append(rooms, [roomId |-> id, owner |-> s, guest |-> NoConn])
      BY <2>2, LookupsInRange DEF Created, isClientInARoom
    <2>. QED  BY <2>1, <2>2 DEF handleCreateRoom
  <1>. QED  BY <1>1, <1>2, <1>3 DEF Effect

\* handleJoinRoom puts only the sender into a room, or removes the room.
LEMMA JoinRoomEffect ==
    ASSUME TypeOK, NEW s \in Conns, NEW id, handleJoinRoom(s, id)
    PROVE  Effect(s)
  <1>. DEFINE i == findRoomById(id)
  <1>1. admitted' \in SUBSET (Conns \X Conns)
    BY DEF handleJoinRoom, TypeOK
  <1>2. i # 0 => i \in DOMAIN rooms /\ rooms[i].owner \in Conns
    <2>1. i # 0 => i \in DOMAIN rooms
      BY LookupsInRange
    <2>. HIDE DEF i
    <2>. QED  BY <2>1, RoomOwner
  <1>3. CASE UNCHANGED rooms /\ (ReplyOrClose(s, "ErrorRoomNotFound") \/ ReplyOrClose(s, "ErrorFull"))
    <2>1. closing' \in Seq(Conns) /\ out' \in Outs
      BY <1>3, ReplyTyped DEF Replies
    <2>. QED  BY <1>1, <1>3, <2>1, UnchangedReshapes DEF Effect
  <1>4. CASE /\ i # 0
             /\ rooms[i].guest = NoConn
             /\ Write("JoinRequest", s, rooms[i].owner)
             /\ rooms' = [rooms EXCEPT ![i].guest = s]
             /\ closing' = <<>>
    <2>1. out' \in Outs
      BY <1>2, <1>4, WritesTyped DEF Replies
    <2>2. Reshaped(s)
      BY <1>2, <1>4, GuestChangeReshapes
    <2>. QED  BY <1>1, <1>4, <2>1, <2>2 DEF Effect
  <1>5. CASE /\ i # 0
             /\ rooms[i].guest = NoConn
             /\ Write("ErrorUnknown", s, s) \/ (CanFail(s) /\ WriteNothing)
             /\ rooms' = RemoveAt(rooms, i)
             /\ closing' = <<rooms[i].owner, s>>
    <2>1. out' \in Outs
      BY <1>5, WritesTyped DEF Replies
    <2>3. closing' \in Seq(Conns) /\ ToSet(closing') = {rooms[i].owner, s}
      BY <1>2, <1>5, ClosingTyped
    <2>2. Reshaped(s)
      BY <1>2, <1>5, <2>3, RemoveReshapes
    <2>. QED  BY <1>1, <2>1, <2>2, <2>3 DEF Effect
  <1>. QED  BY <1>3, <1>4, <1>5 DEF handleJoinRoom

\* closeRoom closes participants of the room.
LEMMA ParticipantsTyped ==
    ASSUME TypeOK, NEW i \in DOMAIN rooms
    PROVE  /\ Participants(rooms[i]) \in Seq(Conns)
           /\ {rooms[i].owner, rooms[i].guest} \ {NoConn} \subseteq
                 ToSet(Participants(rooms[i]))
  <1>1. CASE rooms[i].guest = NoConn
    BY <1>1, RoomOwner, ClosingTyped DEF Participants
  <1>2. CASE rooms[i].guest # NoConn
    <2>1. rooms[i].owner \in Conns /\ rooms[i].guest \in Conns
      BY <1>2, RoomOwner
    <2>. QED  BY <1>2, <2>1, ClosingTyped DEF Participants
  <1>. QED  BY <1>1, <1>2

\* handleJoinRoomResponse only empties a guest slot or removes the room.
LEMMA JoinRoomResponseEffect ==
    ASSUME TypeOK, NEW s \in Conns, NEW acc \in BOOLEAN, handleJoinRoomResponse(s, acc)
    PROVE  Effect(s)
  <1>. DEFINE i == findRoomByOwner(s)
              g == rooms[i].guest
  <1>1. i # 0 => i \in DOMAIN rooms
    BY LookupsInRange
  <1>. HIDE DEF i
  <1>2. /\ i # 0 => rooms[i].owner = s
        /\ i # 0 /\ g # NoConn => g \in Conns
    BY <1>1, RoomOwner, LookupsInRange DEF i
  <1>3. CASE UNCHANGED <<rooms, admitted>> /\ ReplyOrClose(s, "ErrorRoomNotFound")
    <2>1. closing' \in Seq(Conns) /\ out' \in Outs
      BY <1>3, ReplyTyped DEF Replies
    <2>. QED  BY <1>3, <2>1, UnchangedReshapes DEF Effect, TypeOK
  <1>4. CASE /\ i # 0
             /\ \/ Write("ErrorNoParticipant", s, s) /\ closing' = <<>> /\ UNCHANGED rooms
                \/ CanFail(s) /\ WriteNothing /\ closeRoom(i)
             /\ UNCHANGED admitted
    <2>1. out' \in Outs
      BY <1>4, WritesTyped DEF Replies
    <2>2. closing' \in Seq(Conns)
      BY <1>1, <1>4, ParticipantsTyped, ClosingTyped DEF closeRoom
    <2>3. Reshaped(s)
      BY <1>1, <1>4, UnchangedReshapes, RemoveReshapes, ParticipantsTyped DEF closeRoom
    <2>. QED  BY <1>4, <2>1, <2>2, <2>3 DEF Effect, TypeOK
  <1>5. CASE /\ i # 0
             /\ g # NoConn
             /\ Write(IF acc THEN "JoinAccepted" ELSE "JoinDeclined", s, g)
             /\ IF acc THEN UNCHANGED rooms ELSE ClearGuest(i)
             /\ admitted' = IF acc THEN admitted \cup {<<s, g>>} ELSE admitted
             /\ closing' = <<>>
    <2>1. (IF acc THEN "JoinAccepted" ELSE "JoinDeclined") \in Replies
      BY DEF Replies
    <2>2. out' \in Outs
      BY <1>2, <1>5, <2>1, WritesTyped
    <2>3. Reshaped(s)
      BY <1>1, <1>5, UnchangedReshapes, GuestChangeReshapes DEF ClearGuest
    <2>4. admitted' \in SUBSET (Conns \X Conns)
      BY <1>2, <1>5 DEF TypeOK
    <2>5. closing' \in Seq(Conns)
      BY <1>5
    <2>. QED  BY <2>2, <2>3, <2>4, <2>5 DEF Effect
  <1>6. CASE /\ i # 0
             /\ g # NoConn
             /\ \/ /\ Write("ErrorNoParticipant", s, s)
                   /\ ClearGuest(i)
                   /\ closing' = <<g>>
                \/ /\ WriteNothing
                   /\ rooms' = RemoveAt(rooms, i)
                   /\ closing' = <<g, s>>
             /\ UNCHANGED admitted
    <2>1. out' \in Outs
      BY <1>6, WritesTyped DEF Replies
    <2>2. closing' \in Seq(Conns)
      <3>1. g \in Conns /\ (closing' = <<g>> \/ closing' = <<g, s>>)
        BY <1>2, <1>6
      <3>. HIDE DEF g
      <3>2. <<g>> \in Seq(Conns) /\ <<g, s>> \in Seq(Conns)
        BY <3>1, ClosingTyped
      <3>. QED  BY <3>1, <3>2
    <2>3. Reshaped(s)
      <3>1. CASE ClearGuest(i)
        BY <1>1, <1>6, <3>1, GuestChangeReshapes DEF ClearGuest
      <3>2. CASE rooms' = RemoveAt(rooms, i) /\ closing' = <<g, s>>
        <4>1. ToSet(closing') = {g, s}
          BY <1>2, <1>6, <3>2, ClosingTyped
        <4>. QED  BY <1>1, <1>2, <1>6, <3>2, <4>1, RemoveReshapes
      <3>. QED  BY <1>6, <3>1, <3>2
    <2>. QED  BY <1>6, <2>1, <2>2, <2>3 DEF Effect, TypeOK
  <1>. QED  BY <1>3, <1>4, <1>5, <1>6 DEF handleJoinRoomResponse, i

\* handleAdbTransport leaves the room list alone.
LEMMA AdbTransportEffect ==
    ASSUME TypeOK, NEW s \in Conns, handleAdbTransport(s)
    PROVE  Effect(s)
  <1>. DEFINE i == findRoomByParticipant(s)
              target == IF rooms[i].owner = s THEN rooms[i].guest ELSE rooms[i].owner
  <1>1. i # 0 => i \in DOMAIN rooms
    BY LookupsInRange
  <1>. HIDE DEF i
  <1>2. i # 0 /\ target # NoConn => target \in Conns
    BY <1>1, RoomOwner
  <1>. HIDE DEF target
  <1>3. \/ WriteNothing
        \/ i # 0 /\ target # NoConn /\ Write("AdbTransport", s, target)
    BY DEF handleAdbTransport, i, target
  <1>4. out' \in Outs
    BY <1>2, <1>3, WritesTyped DEF Replies
  <1>5. closing' = <<>> /\ UNCHANGED <<rooms, admitted>>
    BY DEF handleAdbTransport
  <1>. QED  BY <1>4, <1>5, UnchangedReshapes, ClosingTyped DEF Effect, TypeOK

\* The summary for any message.
LEMMA DispatchEffect ==
    ASSUME TypeOK, NEW s \in Conns, NEW body \in Bodies, Dispatch(s, body)
    PROVE  Effect(s)
  <1>1. CASE body.cmd = "CreateRoom" /\ handleCreateRoom(s)
    BY <1>1, CreateRoomEffect
  <1>2. CASE body.cmd = "JoinRoom" /\ handleJoinRoom(s, body.roomId)
    BY <1>2, JoinRoomEffect
  <1>3. CASE body.cmd = "JoinRoomResponse" /\ handleJoinRoomResponse(s, body.accepted)
    <2>1. body.accepted \in BOOLEAN
      BY <1>3 DEF Bodies
    <2>. QED  BY <1>3, <2>1, JoinRoomResponseEffect
  <1>4. CASE body.cmd = "AdbTransport" /\ handleAdbTransport(s)
    BY <1>4, AdbTransportEffect
  <1>5. CASE ReplyOrClose(s, "ErrorInvalidPayload") /\ UNCHANGED <<rooms, admitted>>
    <2>1. closing' \in Seq(Conns) /\ out' \in Outs
      BY <1>5, ReplyTyped DEF Replies
    <2>. QED  BY <1>5, <2>1, UnchangedReshapes DEF Effect, TypeOK
  <1>6. CASE closing' = <<>> /\ WriteNothing /\ UNCHANGED <<rooms, admitted>>
    <2>1. out' \in Outs
      BY <1>6, WritesTyped DEF Replies
    <2>. QED  BY <1>6, <2>1, UnchangedReshapes, ClosingTyped DEF Effect, TypeOK
  <1>. QED  BY <1>1, <1>2, <1>3, <1>4, <1>5, <1>6 DEF Dispatch

\* handleClientDisconnected removes the client from the room it is found in.
LEMMA DisconnectedEffect ==
    ASSUME TypeOK, NEW c \in Conns, handleClientDisconnected(c)
    PROVE  /\ closing' \in Seq(Conns) /\ out' \in Outs /\ Reshaped(NoConn)
           /\ \/ RoomsOf(c) = {}
              \/ \E f : /\ ReshapedBy(f, NoConn)
                       /\ \A j \in DOMAIN rooms' :
                             f[j] = findRoomByParticipant(c) =>
                                 c \notin {rooms'[j].owner, rooms'[j].guest}
  <1>. DEFINE i == findRoomByParticipant(c)
  <1>1. /\ i = 0 => RoomsOf(c) = {}
        /\ i # 0 => i \in DOMAIN rooms /\ i \in RoomsOf(c)
    BY LookupsInRange
  <1>. HIDE DEF i
  <1>2. CASE i = 0 /\ closing' = <<>> /\ WriteNothing /\ UNCHANGED rooms
    <2>1. out' \in Outs
      BY <1>2, WritesTyped DEF Replies
    <2>. QED  BY <1>1, <1>2, <2>1, UnchangedReshapes, ClosingTyped
  <1>3. CASE i # 0 /\ rooms[i].owner = c /\ WriteNothing /\ closeRoom(i)
    <2>1. out' \in Outs
      BY <1>3, WritesTyped DEF Replies
    <2>2. /\ rooms' = RemoveAt(rooms, i) /\ closing' \in Seq(Conns)
          /\ {rooms[i].owner, rooms[i].guest} \ {NoConn} \subseteq ToSet(closing')
      BY <1>1, <1>3, ParticipantsTyped DEF closeRoom
    <2>3. /\ Reshaped(NoConn)
          /\ \E f : ReshapedBy(f, NoConn) /\ \A j \in DOMAIN rooms' : f[j] # i
      BY <1>1, <1>3, <2>2, RemoveReshapes
    <2>. QED  BY <2>1, <2>2, <2>3 DEF i
  <1>4. CASE /\ i # 0
             /\ rooms[i].owner # c
             /\ ClearGuest(i)
             /\ closing' = <<c>>
             /\ Write("GuestLeft", c, rooms[i].owner) \/ WriteNothing
    <2>1. out' \in Outs
      BY <1>1, <1>4, RoomOwner, WritesTyped DEF Replies
    <2>2. closing' \in Seq(Conns)
      BY <1>4, ClosingTyped
    <2>3. /\ Reshaped(NoConn)
          /\ ReshapedBy([j \in DOMAIN rooms' |-> j], NoConn)
          /\ rooms'[i].owner = rooms[i].owner /\ rooms'[i].guest = NoConn
      BY <1>1, <1>4, GuestChangeReshapes DEF ClearGuest
    <2>4. c \notin {rooms'[i].owner, rooms'[i].guest}
      BY <1>4, <2>3, NilAssumption
    <2>. QED  BY <2>1, <2>2, <2>3, <2>4 DEF i
  <1>. QED  BY <1>2, <1>3, <1>4 DEF handleClientDisconnected, i

-----------------------------------------------------------------------------
(* Type correctness *)

\* A reshaped or extended list is a list of rooms.
LEMMA EffectRoomsTyped ==
    ASSUME TypeOK, NEW s \in Conns, Created(s) \/ Reshaped(s)
    PROVE  rooms' \in Seq(RoomData)
  <1>1. CASE Created(s)
    <2>1. PICK id \in RoomIds :
             rooms' = Append(rooms, [roomId |-> id, owner |-> s, guest |-> NoConn])
      BY <1>1 DEF Created
    <2>2. [roomId |-> id, owner |-> s, guest |-> NoConn] \in RoomData
      BY DEF RoomData
    <2>3. rooms \in Seq(RoomData)
      BY DEF TypeOK
    <2>. QED  BY <2>1, <2>2, <2>3
  <1>2. CASE Reshaped(s)
    BY <1>2 DEF Reshaped
  <1>. QED  BY <1>1, <1>2

\* The first message of the queue is a message of a client.
LEMMA HeadTyped ==
    ASSUME TypeOK, clientMessageChannel # <<>>
    PROVE  /\ Head(clientMessageChannel).sender \in Conns
           /\ Head(clientMessageChannel).body \in Bodies
           /\ Tail(clientMessageChannel) \in Seq(Messages)
  <1>1. clientMessageChannel \in Seq(Messages)
    BY DEF TypeOK
  <1>2. Head(clientMessageChannel) \in Messages /\ Tail(clientMessageChannel) \in Seq(Messages)
    BY <1>1
  <1>. QED  BY <1>2 DEF Messages

\* The connections' own steps keep their types.
LEMMA LinkStepTyped ==
    ASSUME LinkTypeOK, NEW c \in Conns,
           Accept(c) \/ PeerGone(c) \/ BeginClose(c) \/ Notify(c)
    PROVE  LinkTypeOK'
  <1>1. CASE Accept(c)
    BY <1>1 DEF Accept, LinkTypeOK, LinkStates
  <1>2. CASE PeerGone(c)
    BY <1>2 DEF PeerGone, LinkTypeOK, LinkStates
  <1>3. CASE BeginClose(c)
    BY <1>3 DEF BeginClose, LinkTypeOK, LinkStates
  <1>4. CASE Notify(c)
    BY <1>4 DEF Notify, LinkTypeOK, LinkStates
  <1>. QED  BY <1>1, <1>2, <1>3, <1>4

\* Every step of the room manager and of its connections keeps the types.
LEMMA TypeStep ==
    ASSUME TypeOK, [Next]_vars
    PROVE  TypeOK'
  <1>1. ASSUME NEW c \in Conns, ConnectionStep(c)
        PROVE  TypeOK'
    <2>1. LinkTypeOK'
      BY <1>1, LinkStepTyped DEF TypeOK, ConnectionStep
    <2>. QED  BY <1>1, <2>1 DEF TypeOK, ConnectionStep, roomVars, history
  <1>2. ASSUME NEW c \in Conns, ReadMessage(c)
        PROVE  TypeOK'
    BY <1>2 DEF TypeOK, ReadMessage, LinkTypeOK, linkVars, history
  <1>3. ASSUME NEW c \in Conns, EnqueueMessage(c)
        PROVE  TypeOK'
    <2>. DEFINE m == [sender |-> c, body |-> held[c]]
    <2>1. m \in Messages /\ clientMessageChannel' = Append(clientMessageChannel, m)
      BY <1>3 DEF TypeOK, EnqueueMessage, Messages
    <2>. HIDE DEF m
    <2>2. clientMessageChannel' \in Seq(Messages)
      BY <2>1 DEF TypeOK
    <2>. QED  BY <1>3, <2>2 DEF TypeOK, EnqueueMessage, LinkTypeOK, linkVars, history
  <1>4. CASE HandleMessage
    <2>. DEFINE m == Head(clientMessageChannel)
    <2>1. /\ m.sender \in Conns /\ m.body \in Bodies
          /\ clientMessageChannel' \in Seq(Messages)
      BY <1>4, HeadTyped DEF HandleMessage
    <2>2. Dispatch(m.sender, m.body) /\ Stray(m.sender)
      BY <1>4 DEF HandleMessage
    <2>. HIDE DEF m
    <2>3. Effect(m.sender)
      BY <2>1, <2>2, DispatchEffect
    <2>4. rooms' \in Seq(RoomData)
      BY <2>1, <2>3, EffectRoomsTyped DEF Effect
    <2>5. strayed' \in SUBSET Conns
      BY <2>1, <2>2 DEF Stray, TypeOK
    <2>6. UNCHANGED <<linkVars, held, received, reaped>>
      BY <1>4 DEF HandleMessage
    <2>. QED  BY <2>1, <2>3, <2>4, <2>5, <2>6 DEF TypeOK, Effect, Outs, LinkTypeOK, linkVars
  <1>5. CASE HandleDisconnected
    <2>. DEFINE c == Head(clientDisconnectedChannel)
    <2>1. c \in Conns /\ clientDisconnectedChannel' \in Seq(Conns) /\ UNCHANGED link
      BY <1>5 DEF HandleDisconnected, TakeDisconnected, TypeOK, LinkTypeOK
    <2>2. handleClientDisconnected(c) /\ reaped' = reaped \cup {c}
      BY <1>5 DEF HandleDisconnected
    <2>. HIDE DEF c
    <2>3. closing' \in Seq(Conns) /\ out' \in Outs /\ Reshaped(NoConn)
      BY <2>1, <2>2, DisconnectedEffect
    <2>4. UNCHANGED <<clientMessageChannel, held, received, strayed, admitted>>
      BY <1>5 DEF HandleDisconnected
    <2>. QED  BY <2>1, <2>2, <2>3, <2>4 DEF TypeOK, LinkTypeOK, Outs, Reshaped
  <1>6. CASE CloseStart
    <2>1. LinkTypeOK'
      BY <1>6, LinkStepTyped DEF TypeOK, CloseStart
    <2>. QED  BY <1>6, <2>1 DEF TypeOK, CloseStart, roomVars, history
  <1>7. CASE CloseReturn
    BY <1>7 DEF TypeOK, CloseReturn, LinkTypeOK, linkVars, history
  <1>8. CASE UNCHANGED vars
    BY <1>8 DEF TypeOK, LinkTypeOK, vars, history
  <1>. QED  BY <1>1, <1>2, <1>3, <1>4, <1>5, <1>6, <1>7, <1>8 DEF Next

\* The room manager's state is well typed whatever the clients send and however
\* the steps of readers, closers and handlers interleave.
THEOREM TypeCorrect == Spec => []TypeOK
  <1>1. Init => TypeOK
    BY DEF Init, TypeOK, LinkInit, LinkTypeOK, LinkStates, NothingWritten,
           Written, Replies
  <1>2. TypeOK /\ [Next]_vars => TypeOK'
    BY TypeStep
  <1>. QED  BY <1>1, <1>2, PTL DEF Spec

-----------------------------------------------------------------------------
(* Membership *)

\* A client other than the one that may have joined is in a room of the new
\* list only if it was in the room that one comes from.
LEMMA ReshapeKeepsOut ==
    ASSUME NEW f, NEW x, ReshapedBy(f, x), NEW d \in Conns, d # x,
           NEW j \in DOMAIN rooms', d \in {rooms'[j].owner, rooms'[j].guest}
    PROVE  f[j] \in RoomsOf(d)
  BY NilAssumption DEF ReshapedBy, RoomsOf

\* The handlers keep owners unique.
LEMMA EffectKeepsOwners ==
    ASSUME TypeOK, OneRoomPerOwner, NEW s, Created(s) \/ Reshaped(s)
    PROVE  OneRoomPerOwner'
  <1>1. CASE Created(s)
    <2>1. PICK id \in RoomIds :
             rooms' = Append(rooms, [roomId |-> id, owner |-> s, guest |-> NoConn])
      BY <1>1 DEF Created
    <2>2. rooms \in Seq(RoomData)
      BY DEF TypeOK
    <2>3. \A i \in DOMAIN rooms : rooms[i].owner # s
      BY <1>1 DEF Created, RoomsOf
    <2>4. /\ DOMAIN rooms' = 1..(Len(rooms) + 1) /\ DOMAIN rooms = 1..Len(rooms)
          /\ \A i \in DOMAIN rooms : rooms'[i] = rooms[i]
          /\ rooms'[Len(rooms) + 1].owner = s
          /\ Len(rooms) \in Nat
      BY <2>1, <2>2
    <2>5. \A i \in DOMAIN rooms' : i \in DOMAIN rooms \/ i = Len(rooms) + 1
      BY <2>4
    <2>6. \A i, j \in DOMAIN rooms' : rooms'[i].owner = rooms'[j].owner => i = j
      BY <2>3, <2>4, <2>5 DEF OneRoomPerOwner
    <2>. QED  BY <2>6 DEF OneRoomPerOwner
  <1>2. CASE Reshaped(s)
    <2>1. PICK f : ReshapedBy(f, s)
      BY <1>2 DEF Reshaped
    <2>. QED  BY <2>1 DEF ReshapedBy, OneRoomPerOwner
  <1>. QED  BY <1>1, <1>2

\* A client that is in no room stays out of all rooms while others' messages
\* are handled.
LEMMA EffectKeepsOut ==
    ASSUME TypeOK, NEW s \in Conns, Created(s) \/ Reshaped(s),
           NEW d \in Conns, d # s, RoomsOf(d) = {}
    PROVE  RoomsOf(d)' = {}
  <1>1. CASE Created(s)
    <2>1. PICK id \in RoomIds :
             rooms' = Append(rooms, [roomId |-> id, owner |-> s, guest |-> NoConn])
      BY <1>1 DEF Created
    <2>2. rooms \in Seq(RoomData)
      BY DEF TypeOK
    <2>4. /\ DOMAIN rooms' = 1..(Len(rooms) + 1) /\ DOMAIN rooms = 1..Len(rooms)
          /\ \A i \in DOMAIN rooms : rooms'[i] = rooms[i]
          /\ rooms'[Len(rooms) + 1].owner = s
          /\ rooms'[Len(rooms) + 1].guest = NoConn
          /\ Len(rooms) \in Nat
      BY <2>1, <2>2
    <2>5. \A i \in DOMAIN rooms' : i \in DOMAIN rooms \/ i = Len(rooms) + 1
      BY <2>4
    <2>. QED  BY <2>4, <2>5, NilAssumption DEF RoomsOf
  <1>2. CASE Reshaped(s)
    <2>1. PICK f : ReshapedBy(f, s)
      BY <1>2 DEF Reshaped
    <2>2. \A j \in DOMAIN rooms' : d \notin {rooms'[j].owner, rooms'[j].guest}
      BY <2>1, ReshapeKeepsOut
    <2>. QED  BY <2>2 DEF RoomsOf
  <1>. QED  BY <1>1, <1>2

\* What handleClientDisconnected relies on: only strayed clients are in two
\* rooms, so for the others cleaning the first match cleans them all.
OnlyStrayedInTwoRooms ==
    \A c \in Conns \ strayed : \A i, j \in RoomsOf(c) : i = j

\* The inductive invariant: ReapedLeavesRooms is not inductive by itself.
Membership == OneRoomPerOwner /\ OnlyStrayedInTwoRooms /\ ReapedLeavesRooms

\* Steps that leave the room list and the histories alone keep Membership.
LEMMA MembershipFrame ==
    ASSUME Membership, UNCHANGED <<rooms, reaped, strayed>>
    PROVE  Membership'
  BY DEF Membership, OneRoomPerOwner, OnlyStrayedInTwoRooms, ReapedLeavesRooms, RoomsOf

\* Handling a message keeps Membership.
LEMMA MessageMembership ==
    ASSUME TypeOK, Membership, HandleMessage
    PROVE  Membership'
  <1>. DEFINE m == Head(clientMessageChannel)
              s == m.sender
  <1>1. s \in Conns /\ m.body \in Bodies
    BY HeadTyped DEF HandleMessage
  <1>2. Dispatch(s, m.body) /\ Stray(s) /\ UNCHANGED reaped
    BY DEF HandleMessage
  <1>. HIDE DEF m, s
  <1>3. Created(s) \/ Reshaped(s)
    BY <1>1, <1>2, DispatchEffect DEF Effect
  <1>4. OneRoomPerOwner'
    BY <1>3, EffectKeepsOwners DEF Membership
  <1>5. OnlyStrayedInTwoRooms'
    BY <1>2 DEF Stray, OnlyStrayedInTwoRooms
  <1>6. ASSUME NEW c \in reaped', c \notin strayed'
        PROVE  RoomsOf(c)' = {}
    <2>1. c \in Conns /\ c \in reaped /\ c \notin strayed /\ c # s
      BY <1>2, <1>6 DEF Stray, TypeOK
    <2>2. RoomsOf(c) = {}
      BY <2>1 DEF Membership, ReapedLeavesRooms
    <2>. QED  BY <1>1, <1>3, <2>1, <2>2, EffectKeepsOut
  <1>7. ReapedLeavesRooms'
    BY <1>6 DEF ReapedLeavesRooms
  <1>. QED  BY <1>4, <1>5, <1>7 DEF Membership

\* Handling an announcement keeps Membership: a client that is in one room only
\* is in none afterwards.
LEMMA DisconnectedMembership ==
    ASSUME TypeOK, Membership, HandleDisconnected
    PROVE  Membership'
  <1>. DEFINE c == Head(clientDisconnectedChannel)
  <1>1. c \in Conns
    BY DEF HandleDisconnected, TakeDisconnected, TypeOK, LinkTypeOK
  <1>2. handleClientDisconnected(c) /\ reaped' = reaped \cup {c} /\ UNCHANGED strayed
    BY DEF HandleDisconnected
  <1>. HIDE DEF c
  <1>3. /\ Reshaped(NoConn)
        /\ \/ RoomsOf(c) = {}
           \/ \E f : /\ ReshapedBy(f, NoConn)
                    /\ \A j \in DOMAIN rooms' :
                          f[j] = findRoomByParticipant(c) =>
                              c \notin {rooms'[j].owner, rooms'[j].guest}
    BY <1>1, <1>2, DisconnectedEffect
  <1>4. OneRoomPerOwner'
    BY <1>3, EffectKeepsOwners DEF Membership
  <1>5. PICK f : ReshapedBy(f, NoConn)
    BY <1>3 DEF Reshaped
  <1>6. \A d \in Conns : \A j \in DOMAIN rooms' :
           d \in {rooms'[j].owner, rooms'[j].guest} => f[j] \in RoomsOf(d)
    BY <1>5, ReshapeKeepsOut, NilAssumption
  <1>7. ASSUME NEW d \in Conns, d \notin strayed', NEW i \in RoomsOf(d)', NEW j \in RoomsOf(d)'
        PROVE  i = j
    <2>1. /\ i \in DOMAIN rooms' /\ f[i] \in RoomsOf(d)
          /\ j \in DOMAIN rooms' /\ f[j] \in RoomsOf(d)
      BY <1>6, <1>7 DEF RoomsOf
    <2>2. f[i] = f[j]
      BY <1>2, <1>7, <2>1 DEF Membership, OnlyStrayedInTwoRooms
    <2>. QED  BY <1>5, <2>1, <2>2 DEF ReshapedBy
  <1>8. OnlyStrayedInTwoRooms'
    BY <1>7 DEF OnlyStrayedInTwoRooms
  <1>9. ASSUME NEW d \in reaped', d \notin strayed'
        PROVE  RoomsOf(d)' = {}
    <2>1. d \in Conns /\ d \notin strayed
      BY <1>1, <1>2, <1>9 DEF TypeOK
    <2>2. CASE RoomsOf(d) = {}
      BY <1>6, <2>1, <2>2 DEF RoomsOf
    <2>3. CASE d = c /\ RoomsOf(c) # {}
      <3>1. PICK h : /\ ReshapedBy(h, NoConn)
                     /\ \A j \in DOMAIN rooms' :
                           h[j] = findRoomByParticipant(c) =>
                               c \notin {rooms'[j].owner, rooms'[j].guest}
        BY <1>3, <2>3
      <3>2. findRoomByParticipant(c) \in RoomsOf(c)
        BY <1>1, <2>3, LookupsInRange
      <3>3. ASSUME NEW j \in DOMAIN rooms', c \in {rooms'[j].owner, rooms'[j].guest}
            PROVE  FALSE
        <4>1. h[j] \in RoomsOf(c)
          BY <1>1, <3>1, <3>3, ReshapeKeepsOut, NilAssumption
        <4>2. h[j] = findRoomByParticipant(c)
          BY <1>1, <2>1, <2>3, <3>2, <4>1 DEF Membership, OnlyStrayedInTwoRooms
        <4>. QED  BY <3>1, <3>3, <4>2
      <3>. QED  BY <2>3, <3>3 DEF RoomsOf
    <2>4. d \in reaped => RoomsOf(d) = {}
      BY <2>1 DEF Membership, ReapedLeavesRooms
    <2>. QED  BY <1>2, <1>9, <2>2, <2>3, <2>4
  <1>10. ReapedLeavesRooms'
    BY <1>9 DEF ReapedLeavesRooms
  <1>. QED  BY <1>4, <1>8, <1>10 DEF Membership

\* Membership is an invariant: for any number of clients and rooms.
LEMMA MembershipInvariant == Spec => []Membership
  <1>1. Init => Membership
    BY DEF Init, Membership, OneRoomPerOwner, OnlyStrayedInTwoRooms,
           ReapedLeavesRooms, RoomsOf
  <1>2. ASSUME TypeOK, Membership, [Next]_vars
        PROVE  Membership'
    <2>1. CASE HandleMessage
      BY <1>2, <2>1, MessageMembership
    <2>2. CASE HandleDisconnected
      BY <1>2, <2>2, DisconnectedMembership
    <2>3. CASE UNCHANGED <<rooms, reaped, strayed>>
      BY <1>2, <2>3, MembershipFrame
    <2>. QED
      BY <1>2, <2>1, <2>2, <2>3
         DEF Next, ConnectionStep, ReadMessage, EnqueueMessage, CloseStart,
             CloseReturn, roomVars, vars, history
  <1>. QED  BY <1>1, <1>2, TypeCorrect, PTL DEF Spec

\* No client owns two rooms, so findRoomByOwner routes a join answer to the only
\* room of its sender.
THEOREM OneRoomPerOwnerCorrect == Spec => []OneRoomPerOwner
  BY MembershipInvariant, PTL DEF Membership

\* A client that has not strayed is in no room after handleClientDisconnected
\* has handled its disconnect.
THEOREM ReapedLeavesRoomsCorrect == Spec => []ReapedLeavesRooms
  BY MembershipInvariant, PTL DEF Membership

-----------------------------------------------------------------------------
(* Announcements *)

\* What ClientLink's life cycle means for the room manager: what was announced
\* is closed and announced once.  That the connection manager keeps to that
\* life cycle is ImplementsClientLink; here it is an auxiliary invariant.
AnnouncedOnce ==
    LET ch == clientDisconnectedChannel IN
    /\ \A c \in reaped : link[c] = "closed"
    /\ \A i \in DOMAIN ch : link[ch[i]] = "closed" /\ ch[i] \notin reaped
    /\ \A i, j \in DOMAIN ch : ch[i] = ch[j] => i = j

\* A step of a connection that is not yet announced keeps AnnouncedOnce.
LEMMA LinkStepAnnounces ==
    ASSUME LinkTypeOK, reaped \subseteq Conns, AnnouncedOnce, NEW c \in Conns,
           UNCHANGED reaped,
           Accept(c) \/ PeerGone(c) \/ BeginClose(c) \/ Notify(c)
    PROVE  AnnouncedOnce'
  <1>1. link[c] # "closed" /\ \A d \in Conns \ {c} : link'[d] = link[d]
    BY DEF LinkTypeOK, Accept, PeerGone, BeginClose, Notify
  <1>2. c \notin reaped
    BY <1>1 DEF AnnouncedOnce
  <1>3. \A i \in DOMAIN clientDisconnectedChannel :
           clientDisconnectedChannel[i] \in Conns \ {c}
    BY <1>1 DEF AnnouncedOnce, LinkTypeOK
  <1>4. \A d \in reaped : link'[d] = "closed"
    BY <1>1, <1>2 DEF AnnouncedOnce
  <1>5. CASE UNCHANGED clientDisconnectedChannel
    BY <1>1, <1>3, <1>4, <1>5 DEF AnnouncedOnce
  <1>6. CASE Notify(c)
    <2>. DEFINE ch == clientDisconnectedChannel
    <2>1. ch \in Seq(Conns) /\ ch' = Append(ch, c) /\ link'[c] = "closed"
      BY <1>6 DEF Notify, LinkTypeOK
    <2>2. /\ Len(ch) \in Nat /\ DOMAIN ch = 1..Len(ch) /\ DOMAIN ch' = 1..(Len(ch) + 1)
          /\ \A i \in DOMAIN ch : ch'[i] = ch[i]
          /\ ch'[Len(ch) + 1] = c
      BY <2>1
    <2>3. \A i \in DOMAIN ch' : i \in DOMAIN ch \/ i = Len(ch) + 1
      BY <2>2
    <2>4. \A i \in DOMAIN ch' : link'[ch'[i]] = "closed" /\ ch'[i] \notin reaped
      BY <1>1, <1>2, <1>3, <2>1, <2>2, <2>3 DEF AnnouncedOnce
    <2>5. \A i, j \in DOMAIN ch' : ch'[i] = ch'[j] => i = j
      BY <1>3, <2>2, <2>3 DEF AnnouncedOnce
    <2>. QED  BY <1>4, <2>4, <2>5 DEF AnnouncedOnce
  <1>. QED  BY <1>5, <1>6 DEF Accept, PeerGone, BeginClose

\* Taking an announcement keeps AnnouncedOnce.
LEMMA TakeAnnounces ==
    ASSUME LinkTypeOK, AnnouncedOnce, TakeDisconnected,
           reaped' = reaped \cup {Head(clientDisconnectedChannel)}
    PROVE  AnnouncedOnce'
  <1>. DEFINE ch == clientDisconnectedChannel
  <1>1. ch \in Seq(Conns) /\ ch # <<>> /\ ch' = Tail(ch) /\ UNCHANGED link
    BY DEF TakeDisconnected, LinkTypeOK
  <1>2. /\ Len(ch) \in Nat \ {0} /\ DOMAIN ch = 1..Len(ch) /\ DOMAIN ch' = 1..(Len(ch) - 1)
        /\ \A i \in DOMAIN ch' : i + 1 \in DOMAIN ch /\ ch'[i] = ch[i + 1]
        /\ Head(ch) = ch[1] /\ 1 \in DOMAIN ch
    BY <1>1
  <1>3. \A c \in reaped' : link'[c] = "closed"
    BY <1>1, <1>2 DEF AnnouncedOnce
  <1>4. \A i \in DOMAIN ch' : link'[ch'[i]] = "closed"
    BY <1>1, <1>2 DEF AnnouncedOnce
  <1>5. \A i \in DOMAIN ch' : ch'[i] # ch[1]
    BY <1>2 DEF AnnouncedOnce
  <1>6. \A i \in DOMAIN ch' : ch'[i] \notin reaped'
    BY <1>2, <1>5 DEF AnnouncedOnce
  <1>7. \A i, j \in DOMAIN ch' : ch'[i] = ch'[j] => i = j
    BY <1>2 DEF AnnouncedOnce
  <1>. QED  BY <1>3, <1>4, <1>6, <1>7 DEF AnnouncedOnce

\* The room manager hears of a connection at most once and only when it is
\* closed (RoomSessionProofs uses it for the guest whose disconnect is handled).
LEMMA AnnouncedOnceCorrect == Spec => []AnnouncedOnce
  <1>1. Init => AnnouncedOnce
    BY DEF Init, LinkInit, AnnouncedOnce
  <1>2. ASSUME TypeOK, AnnouncedOnce, [Next]_vars
        PROVE  AnnouncedOnce'
    <2>1. CASE \E c \in Conns : ConnectionStep(c)
      BY <1>2, <2>1, LinkStepAnnounces DEF TypeOK, ConnectionStep, roomVars, history
    <2>2. CASE CloseStart
      <3>1. Head(closing) \in Conns /\ BeginClose(Head(closing)) /\ UNCHANGED reaped
        BY <1>2, <2>2 DEF TypeOK, CloseStart, roomVars, history
      <3>. QED  BY <1>2, <3>1, LinkStepAnnounces DEF TypeOK
    <2>3. CASE HandleDisconnected
      BY <1>2, <2>3, TakeAnnounces DEF TypeOK, HandleDisconnected
    <2>4. CASE UNCHANGED <<linkVars, reaped>>
      BY <1>2, <2>4 DEF AnnouncedOnce, linkVars
    <2>. QED
      BY <1>2, <2>1, <2>2, <2>3, <2>4
         DEF Next, ReadMessage, EnqueueMessage, HandleMessage, CloseReturn,
             linkVars, vars, history
  <1>. QED  BY <1>1, <1>2, TypeCorrect, PTL DEF Spec

-----------------------------------------------------------------------------
(* What a step may do to a room *)

\* What RemovedRoomEvicts says of one step.
Evicts ==
    \A i \in DOMAIN rooms :
          (\A j \in DOMAIN rooms' : rooms'[j].owner # rooms[i].owner)
          => \A p \in {rooms[i].owner, rooms[i].guest} \ {NoConn} :
                p \in ToSet(closing')

\* What GuestSlotNotStolen says of one step.
Keeps ==
    \A i \in DOMAIN rooms, j \in DOMAIN rooms' :
          /\ rooms[i].owner = rooms'[j].owner
          /\ rooms[i].guest # NoConn
          => rooms'[j].guest \in {rooms[i].guest, NoConn}

\* A step that reshapes or extends the list respects both.
LEMMA EffectKeepsGuests ==
    ASSUME TypeOK, OneRoomPerOwner, NEW s, Created(s) \/ Reshaped(s)
    PROVE  Evicts /\ Keeps
  <1>1. CASE Created(s)
    <2>1. PICK id \in RoomIds :
             rooms' = Append(rooms, [roomId |-> id, owner |-> s, guest |-> NoConn])
      BY <1>1 DEF Created
    <2>2. rooms \in Seq(RoomData)
      BY DEF TypeOK
    <2>3. /\ DOMAIN rooms' = 1..(Len(rooms) + 1) /\ DOMAIN rooms = 1..Len(rooms)
          /\ \A i \in DOMAIN rooms : rooms'[i] = rooms[i]
          /\ rooms'[Len(rooms) + 1].guest = NoConn
          /\ Len(rooms) \in Nat
      BY <2>1, <2>2
    <2>4. /\ \A i \in DOMAIN rooms' : i \in DOMAIN rooms \/ i = Len(rooms) + 1
          /\ \A i \in DOMAIN rooms : i \in DOMAIN rooms'
      BY <2>3
    <2>5. Evicts
      BY <2>3, <2>4 DEF Evicts
    <2>6. Keeps
      BY <2>3, <2>4 DEF Keeps, OneRoomPerOwner
    <2>. QED  BY <2>5, <2>6
  <1>2. CASE Reshaped(s)
    <2>1. PICK f : ReshapedBy(f, s)
      BY <1>2 DEF Reshaped
    <2>2. Evicts
      BY <2>1 DEF ReshapedBy, Evicts
    <2>3. Keeps
      BY <2>1 DEF ReshapedBy, Keeps, OneRoomPerOwner
    <2>. QED  BY <2>2, <2>3
  <1>. QED  BY <1>1, <1>2

\* Every step of the specification reshapes or extends the list.
LEMMA StepKeepsGuests ==
    ASSUME TypeOK, OneRoomPerOwner, [Next]_vars
    PROVE  Evicts /\ Keeps
  <1>1. CASE HandleMessage
    <2>. DEFINE m == Head(clientMessageChannel)
    <2>1. m.sender \in Conns /\ m.body \in Bodies /\ Dispatch(m.sender, m.body)
      BY <1>1, HeadTyped DEF HandleMessage
    <2>. HIDE DEF m
    <2>2. Created(m.sender) \/ Reshaped(m.sender)
      BY <2>1, DispatchEffect DEF Effect
    <2>. QED  BY <2>2, EffectKeepsGuests
  <1>2. CASE HandleDisconnected
    <2>. DEFINE c == Head(clientDisconnectedChannel)
    <2>1. c \in Conns /\ handleClientDisconnected(c)
      BY <1>2 DEF HandleDisconnected, TakeDisconnected, TypeOK, LinkTypeOK
    <2>. HIDE DEF c
    <2>2. Reshaped(NoConn)
      BY <2>1, DisconnectedEffect
    <2>. QED  BY <2>2, EffectKeepsGuests
  <1>3. CASE UNCHANGED rooms
    BY <1>3, UnchangedReshapes, EffectKeepsGuests
  <1>. QED
    BY <1>1, <1>2, <1>3
       DEF Next, ConnectionStep, ReadMessage, EnqueueMessage, CloseStart,
           CloseReturn, roomVars, vars

\* Whenever a room disappears (its owner left, or a message to a participant
\* could not be written) the running handler closes both its participants.
THEOREM RemovedRoomEvictsCorrect == Spec => RemovedRoomEvicts
  <1>1. TypeOK /\ OneRoomPerOwner /\ [Next]_vars => [Evicts]_vars
    BY StepKeepsGuests
  <1>2. Spec => [][Evicts]_vars
    BY <1>1, TypeCorrect, OneRoomPerOwnerCorrect, PTL DEF Spec
  <1>. QED  BY <1>2 DEF RemovedRoomEvicts, Evicts

\* The guest of a room is replaced only after its place was emptied.
THEOREM GuestSlotNotStolenCorrect == Spec => GuestSlotNotStolen
  <1>1. TypeOK /\ OneRoomPerOwner /\ [Next]_vars => [Keeps]_vars
    BY StepKeepsGuests
  <1>2. Spec => [][Keeps]_vars
    BY <1>1, TypeCorrect, OneRoomPerOwnerCorrect, PTL DEF Spec
  <1>. QED  BY <1>2 DEF GuestSlotNotStolen, Keeps
===============================================================================
