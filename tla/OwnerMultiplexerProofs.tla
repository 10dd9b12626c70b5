------------------------ MODULE OwnerMultiplexerProofs ------------------------
(***************************************************************************)
(* Proofs about OwnerMultiplexer for any guest stream ids and any number   *)
(* of streams, guests and writes.                                          *)
(***************************************************************************)
EXTENDS OwnerMultiplexer, FiniteSetTheorems, FunctionTheorems,
        SequenceTheorems, TLAPS

-----------------------------------------------------------------------------
(* Counting the messages of a kind in a queue *)

\* Where in the queue s the messages of M are.
Where(s, M) == {k \in DOMAIN s : s[k] \in M}
Count(s, M) == Cardinality(Where(s, M))

\* Counts are numbers;
LEMMA CountType ==
    ASSUME NEW T, NEW s \in Seq(T), NEW M
    PROVE  IsFiniteSet(Where(s, M)) /\ Count(s, M) \in Nat
  <1>1. Where(s, M) \subseteq 1..Len(s) /\ Len(s) \in Nat
    BY DEF Where
  <1>2. IsFiniteSet(1..Len(s))
    BY <1>1, FS_Interval
  <1>3. IsFiniteSet(Where(s, M))
    BY <1>1, <1>2, FS_Subset
  <1>. QED  BY <1>3, FS_CardinalityType DEF Count

\* ... an empty queue has none of the messages,
LEMMA CountEmpty ==
    ASSUME NEW s, NEW M, s = <<>>
    PROVE  Count(s, M) = 0
  <1>1. Where(s, M) = {}
    BY DEF Where
  <1>. QED  BY <1>1, FS_EmptySet DEF Count

\* ... sending adds one,
LEMMA CountAppend ==
    ASSUME NEW T, NEW s \in Seq(T), NEW m \in T, NEW M
    PROVE  Count(Append(s, m), M) = Count(s, M) + (IF m \in M THEN 1 ELSE 0)
  <1>. DEFINE n == Len(s) + 1
  <1>1. /\ Append(s, m)[n] = m /\ DOMAIN s = 1..Len(s) /\ Len(s) \in Nat
        /\ DOMAIN Append(s, m) = 1..n
        /\ \A k \in 1..Len(s) : Append(s, m)[k] = s[k]
    BY AppendProperties
  <1>2. n \notin Where(s, M)
    BY <1>1 DEF Where
  <1>3. CASE m \in M
    <2>1. Where(Append(s, m), M) = Where(s, M) \cup {n}
      BY <1>1, <1>3 DEF Where
    <2>. QED  BY <1>2, <1>3, <2>1, CountType, FS_AddElement DEF Count
  <1>4. CASE m \notin M
    <2>1. Where(Append(s, m), M) = Where(s, M)
      BY <1>1, <1>4 DEF Where
    <2>2. Count(s, M) \in Nat
      BY CountType
    <2>. QED  BY <1>4, <2>1, <2>2 DEF Count
  <1>. QED  BY <1>3, <1>4

\* ... and receiving removes one.
LEMMA CountTail ==
    ASSUME NEW T, NEW s \in Seq(T), s # <<>>, NEW M
    PROVE  Count(s, M) = Count(Tail(s), M) + (IF Head(s) \in M THEN 1 ELSE 0)
  <1>1. /\ Tail(s) \in Seq(T) /\ Len(Tail(s)) = Len(s) - 1
        /\ Head(s) = s[1] /\ DOMAIN s = 1..Len(s) /\ Len(s) \in Nat \ {0}
        /\ DOMAIN Tail(s) = 1..(Len(s) - 1)
        /\ \A k \in 1..(Len(s) - 1) : Tail(s)[k] = s[k + 1]
    BY HeadTailProperties, EmptySeq
  <1>. DEFINE W == Where(Tail(s), M)
              V == Where(s, M) \ {1}
              f == [k \in W |-> k + 1]
  <1>2. f \in Bijection(W, V)
    <2>1. f \in [W -> V]
      BY <1>1 DEF Where
    <2>2. \A k, l \in W : f[k] = f[l] => k = l
      BY <1>1 DEF Where
    <2>3. \A v \in V : v - 1 \in W /\ f[v - 1] = v
      BY <1>1 DEF Where
    <2>. QED  BY <2>1, <2>2, <2>3, Fun_IsBij
  <1>3. IsFiniteSet(W) /\ IsFiniteSet(Where(s, M)) /\ Count(s, M) \in Nat
    BY <1>1, CountType
  <1>4. Cardinality(V) = Cardinality(W)
    BY <1>2, <1>3, FS_Bijection DEF ExistsBijection
  <1>5. /\ Cardinality(V) = IF 1 \in Where(s, M) THEN Count(s, M) - 1 ELSE Count(s, M)
        /\ Cardinality(W) = Count(Tail(s), M)
    BY <1>3, FS_RemoveElement DEF Count
  <1>6. 1 \in Where(s, M) <=> Head(s) \in M
    BY <1>1 DEF Where
  <1>. QED  BY <1>3, <1>4, <1>5, <1>6

-----------------------------------------------------------------------------
(* The inductive invariant *)

\* The stream ids given out so far (handleOpen counts nextId up).
Allocated == 1..nextId

\* closeStream: who calls it, and that closeOnce lets one caller in at a time.
CloseInv ==
    /\ \A t \in Threads : closePc[t] # "none" => closeOf[t] \in Allocated
    /\ \A i \in Ids :
          /\ pump[i] = "closing" <=> closePc[i] # "none"
          /\ closePc[i] # "none" => closeOf[i] = i
    /\ closePc[Dispatcher] # "none" => disp \in {"closing", "closingAll", "leaving"}
    /\ disp = "closing" => closePc[Dispatcher] # "none"
    /\ \A t \in Threads :
          /\ closePc[t] \in {"unregister", "notify"} => once[closeOf[t]] = "running"
          /\ closePc[t] = "notify" => closeOf[t] \notin streams
    /\ \A t, u \in Threads :
          /\ closePc[t] \in {"unregister", "notify"}
          /\ closePc[u] \in {"unregister", "notify"}
          /\ closeOf[t] = closeOf[u]
          => t = u

\* The life of a stream: not allocated, in the map, being closed, closed.
StreamInv ==
    /\ streams \subseteq Allocated
    /\ toCloseAll \subseteq Allocated
    /\ \A i \in Ids :
          /\ i \notin Allocated
               => pump[i] = "none" /\ ~permit[i] /\ once[i] = "idle"
          /\ i \in Allocated /\ i \notin streams => once[i] # "idle"
          /\ once[i] = "done" => i \notin streams
          /\ once[i] # "idle" => device[i] = "closed"
          /\ once[i] # "done" => clses[i] = 0
          /\ clses[i] =< 1

\* closeAllStreams has nothing left to do when it ends.
CloseAllInv ==
    /\ disp \in {"closingAll", "leaving"} =>
          \A i \in streams :
             i \in toCloseAll \/ (closePc[Dispatcher] # "none" /\ closeOf[Dispatcher] = i)
    /\ disp = "returned" => streams = {}

\* The room: nothing is sent to a guest that is not there, a guest has streams
\* only while it relays, and the owner answers only what it has received.
RoomInv ==
    /\ stage # "none" => transport
    /\ stage \in {"none", "gone"} => toGuest = <<>>
    /\ stage # "relaying" => \A g \in GuestIds :
                                guest[g].state \notin {"opening", "open"}
    /\ heard =< session
    /\ asks \subseteq 1..heard
    /\ \A i \in Allocated : guestOf[i] \in GuestIds /\ born[i] =< heard

\* What m to the owner may say: it names streams by ids the owner gave out, is
\* written to a stream of that guest id, and asks for a session not heard of.
FromGuest(m) ==
    /\ m.cmd \in {"OPEN", "WRTE", "OKAY", "CLSE"} => m.arg1 \in GuestIds
    /\ m.cmd \in {"WRTE", "OKAY", "CLSE"} => m.arg2 \in Allocated
    /\ m.cmd = "WRTE" => guestOf[m.arg2] = m.arg1
    /\ m.cmd = "JoinRequest" => m.arg1 \in (heard + 1)..session

ToOwnerInv ==
    /\ \A k \in DOMAIN toOwner : FromGuest(toOwner[k])
    /\ disp = "open" => current.cmd = "OPEN" /\ FromGuest(current)
    /\ disp \in {"write", "ack"} => current.cmd = "WRTE" /\ FromGuest(current)

\* What m to the guest may say: it names a stream with both its ids, or answers
\* a request that was received; an answer about another guest has gone astray.
FromOwner(m) ==
    /\ m.cmd \in {"WRTE", "OKAY"}
         => m.arg1 \in Allocated /\ m.arg2 = guestOf[m.arg1]
    /\ m.cmd = "Accepted" => /\ m.arg1 =< heard
                             /\ m.arg1 # session => astray
                             /\ m.arg1 \notin asks \/ m.arg1 # session

ToGuestInv ==
    /\ \A k \in DOMAIN toGuest : FromOwner(toGuest[k])
    /\ \A g \in GuestIds : guest[g].state = "open" =>
          guest[g].peer \in Allocated /\ guestOf[guest[g].peer] = g

MessageInv == RoomInv /\ ToOwnerInv /\ ToGuestInv

\* Join requests reach the owner in the order of the sessions.
RequestOrder ==
    \A j, k \in DOMAIN toOwner :
        j < k /\ toOwner[j].cmd = "JoinRequest" /\ toOwner[k].cmd = "JoinRequest"
        => toOwner[j].arg1 < toOwner[k].arg1

\* A guest that has not been let in has sent nothing behind its request: when
\* the owner has heard of it, it has handled everything sent before.
Newcomer == stage = "waiting" \/ (stage = "gone" /\ ~own /\ ~astray)
Last(q) == q[Len(q)]
ArrivalInv ==
    Newcomer =>
        /\ ~own
        /\ \A i \in Allocated : born[i] < session
        /\ heard < session => toOwner # <<>> /\ Last(toOwner) = JoinRequest(session)
        /\ heard = session
             => toOwner = <<>> /\ disp \in {"idle", "leaving", "returned"}

\* The answer that lets a guest in rightfully finds no acknowledgement behind it
\* and has not been given twice.
OwnInv ==
    /\ own
         => stage \in {"idle", "relaying", "gone"} /\ heard = session /\ session \notin asks
    /\ Admitted /\ ~own => astray
    /\ stage = "waiting" /\ toGuest # <<>> /\ Head(toGuest) = Accepted(session) =>
          \A k \in DOMAIN toGuest : toGuest[k].cmd # "OKAY"

JoinInv == RequestOrder /\ ArrivalInv /\ OwnInv

\* A rightful guest's streams: what it is sent and what it sends is about its own
\* streams, an unused stream id of it names no stream of the owner, and an open
\* one names a stream opened for it.
Asked(g) ==
    \/ \E k \in DOMAIN toOwner : toOwner[k].cmd = "OPEN" /\ toOwner[k].arg1 = g
    \/ disp = "open" /\ current.arg1 = g
    \/ \E i \in Allocated : born[i] = session /\ guestOf[i] = g
GuestStreamInv ==
    Rightful =>
        /\ \A k \in DOMAIN toOwner :
              toOwner[k].cmd = "WRTE" => born[toOwner[k].arg2] = session
        /\ disp \in {"write", "ack"} => born[current.arg2] = session
        /\ \A k \in DOMAIN toGuest :
              toGuest[k].cmd = "OKAY" => born[toGuest[k].arg1] = session
        /\ \A g \in GuestIds :
              /\ guest[g].state = "open" => born[guest[g].peer] = session
              /\ guest[g].state = "none" => ~Asked(g)

\* As long as no answer went astray, what an earlier guest leaves is handled
\* before the next join request: nothing but departures and requests precedes
\* a request, and at the head of the queue it finds no stream.
Settled ==
    /\ disp \in {"idle", "closingAll", "leaving", "returned"}
    /\ disp = "idle" => streams = {}
Between(m) == m.cmd \in {"GuestLeft", "JoinRequest"}
DepartureInv ==
    ~astray =>
        /\ \A i \in streams : born[i] = heard
        /\ \A k \in DOMAIN toOwner : toOwner[k].cmd = "JoinRequest" =>
              IF k = 1 THEN Settled ELSE Between(toOwner[k - 1])
        /\ stage = "none" /\ transport =>
              IF toOwner = <<>> THEN Settled ELSE Between(Last(toOwner))
        /\ Newcomer /\ heard = session => Settled

\* The OKAY for stream i is in the queue q, and before i's first WRTE.
OkayAhead(q, i) ==
    \E j \in DOMAIN q :
       /\ q[j].cmd = "OKAY" /\ q[j].arg1 = i
       /\ \A k \in 1..j : ~(q[k].cmd = "WRTE" /\ q[k].arg1 = i)
OkayComes(i) == OkayAhead(toGuest, i)

\* The guest that waits for an OKAY will get it, before any WRTE.
OrderInv ==
    Rightful =>
        \A i \in Allocated :
           born[i] = session /\ guest[guestOf[i]].state = "opening" => OkayComes(i)

\* The guest has stream i open or has asked for it and waits for the OKAY.
Claims(i) == GuestHas(i) \/ guest[guestOf[i]].state = "opening"
Wanted(i) == Rightful /\ born[i] = session /\ once[i] = "idle" /\ Claims(i)

\* The token of a stream that is wanted is somewhere.
TokenInv == \A i \in Allocated : Wanted(i) => Tokens(i) = 1

OwnerInv ==
    /\ TypeOK /\ CloseInv /\ StreamInv /\ CloseAllInv /\ MessageInv /\ JoinInv
    /\ DepartureInv /\ GuestStreamInv /\ OrderInv
    /\ OneUnacknowledgedWrite /\ TokenInv

-----------------------------------------------------------------------------
(* Stream ids, threads and messages *)

\* The dispatcher is not a pump, and stream ids count from 1.
LEMMA IdFacts ==
    /\ Ids \subseteq Nat \ {0}
    /\ Threads = Ids \cup {Dispatcher}
    /\ Dispatcher \notin Ids
  BY StreamBoundAssumption, DispatcherAssumption DEF Ids, Threads

\* OpenStreamAccepted counts nextId up; a stream id is given out once.
LEMMA AllocatedIds ==
    ASSUME TypeOK
    PROVE  /\ Allocated \subseteq Ids
           /\ nextId \in Nat
           /\ nextId < MaxStreams
                => nextId + 1 \in Ids /\ nextId + 1 \notin Allocated
           /\ UNCHANGED nextId => Allocated' = Allocated
           /\ nextId' = nextId + 1 => Allocated' = Allocated \cup {nextId + 1}
  <1>1. nextId \in 0..MaxStreams /\ MaxStreams \in Nat
    BY StreamBoundAssumption DEF TypeOK, StreamTypeOK
  <1>. QED  BY <1>1 DEF Ids, Allocated

\* What the dispatch goroutine receives.
LEMMA ReceivesMsg ==
    ASSUME TypeOK, NEW cmd, Receives(cmd)
    PROVE  /\ current' \in GuestMsgs
           /\ toOwner' \in Seq(GuestMsgs)
           /\ 1 \in DOMAIN toOwner /\ Len(toOwner') = Len(toOwner) - 1
           /\ current' = toOwner[1] /\ current'.cmd = cmd
           /\ \A k \in DOMAIN toOwner' :
                 k + 1 \in DOMAIN toOwner /\ toOwner'[k] = toOwner[k + 1]
  BY HeadTailProperties DEF TypeOK, GuestTypeOK, Receives

\* ... is something the guest may say.
LEMMA ReceivesFromGuest ==
    ASSUME TypeOK, ToOwnerInv, NEW cmd, Receives(cmd)
    PROVE  FromGuest(current')
  BY ReceivesMsg DEF ToOwnerInv

\* The room has a guest to whom it can forward.
Present == stage \notin {"none", "gone"}

\* What the owner's goroutines put into the queue to the guest.
LEMMA SentMsg ==
    ASSUME TypeOK, NEW m \in OwnerMsgs, Sent(m)
    PROVE  /\ toGuest' \in Seq(OwnerMsgs)
           /\ ~Present => toGuest' = toGuest
           /\ Present => /\ Len(toGuest') = Len(toGuest) + 1
                         /\ toGuest'[Len(toGuest')] = m
                         /\ \A k \in DOMAIN toGuest :
                               k \in DOMAIN toGuest' /\ toGuest'[k] = toGuest[k]
  BY AppendProperties DEF TypeOK, GuestTypeOK, Sent, Present

\* Messages are of their types.
LEMMA OwnerMsgType ==
    ASSUME NEW i \in Ids, NEW g \in GuestIds
    PROVE  /\ Msg("WRTE", i, g) \in OwnerMsgs
           /\ Msg("OKAY", i, g) \in OwnerMsgs
           /\ Msg("CLSE", i, g) \in OwnerMsgs
  BY DEF Msg, OwnerMsgs

\* ... also the CLSE that refuses an OPEN,
LEMMA RefusalType ==
    ASSUME NEW g \in GuestIds
    PROVE  Msg("CLSE", 0, g) \in OwnerMsgs
  BY DEF Msg, OwnerMsgs

\* ... those of the guest,
LEMMA GuestMsgType ==
    ASSUME NEW i \in Ids \cup {0}, NEW g \in GuestIds
    PROVE  /\ Msg("WRTE", g, i) \in GuestMsgs
           /\ Msg("OKAY", g, i) \in GuestMsgs
           /\ Msg("CLSE", g, i) \in GuestMsgs
           /\ Msg("OPEN", g, 0) \in GuestMsgs
  BY DEF Msg, GuestMsgs

\* ... and those of the room.
LEMMA GuestLeftType == GuestLeftMsg \in GuestMsgs
  BY DEF Msg, GuestMsgs, GuestLeftMsg

\* ... a join request and the answer to one
LEMMA JoinTypes ==
    ASSUME NEW s \in 1..MaxSessions
    PROVE  /\ JoinRequest(s) \in GuestMsgs /\ JoinRequest(s).cmd = "JoinRequest"
           /\ Accepted(s) \in OwnerMsgs /\ Accepted(s).cmd = "Accepted"
           /\ JoinRequest(s).arg1 = s /\ Accepted(s).arg1 = s
  BY DEF GuestMsgs, OwnerMsgs, JoinRequest, Accepted, Msg

\* Which messages carry ids.
LEMMA MsgArgs ==
    /\ \A m \in OwnerMsgs : m.cmd # "Accepted" =>
          m.arg1 \in Ids \cup {0} /\ m.arg2 \in GuestIds
    /\ \A m \in OwnerMsgs : m.cmd = "Accepted" =>
          m.arg1 \in 1..MaxSessions /\ m = Accepted(m.arg1)
    /\ \A m \in OwnerMsgs : m.cmd \in {"WRTE", "OKAY", "CLSE", "Accepted"}
    /\ \A m \in GuestMsgs : m.cmd # "JoinRequest" =>
          m.arg1 \in GuestIds \cup {0} /\ m.arg2 \in Ids \cup {0}
    /\ \A m \in GuestMsgs : m.cmd = "JoinRequest" =>
          m.arg1 \in 1..MaxSessions /\ m = JoinRequest(m.arg1)
  BY DEF GuestMsgs, OwnerMsgs, JoinRequest, Accepted, Msg

\* Calling closeStream and returning from it.
LEMMA CallCloseType ==
    ASSUME TypeOK, NEW t \in Threads, NEW i \in Ids, NEW n \in BOOLEAN, CallClose(t, i, n)
    PROVE  /\ closePc' \in [Threads -> {"none", "enter", "unregister", "notify"}]
           /\ closeOf' \in [Threads -> Ids \cup {0}]
           /\ closeNotify' \in [Threads -> BOOLEAN]
  BY DEF TypeOK, DispTypeOK, CallClose

\* ... and returning from it.
LEMMA ReturnType ==
    ASSUME TypeOK, NEW t \in Threads, ReturnFromClose(t)
    PROVE  /\ closePc' \in [Threads -> {"none", "enter", "unregister", "notify"}]
           /\ disp' \in {"idle", "open", "write", "ack", "closing", "closingAll",
                        "leaving", "returned"}
           /\ pump' \in [Ids -> {"none", "reading", "data", "lastdata", "sending",
                                 "lastsending", "closing", "exited"}]
  BY IdFacts DEF TypeOK, DispTypeOK, StreamTypeOK, ReturnFromClose

-----------------------------------------------------------------------------
(* Types *)

-----------------------------------------------------------------------------
(* Types *)

\* The device, the room and the guest change nothing the owner's goroutines keep.
Elsewhere ==
    /\ UNCHANGED ownerVars
    /\ UNCHANGED device \/ \E i \in Ids : DeviceEnds(i)
    /\ UNCHANGED transport \/ transport' = FALSE

\* A step is one of theirs or a step elsewhere.
LEMMA OtherSteps ==
    ASSUME [Next]_vars
    PROVE  \/ \E t \in Threads : CloseNext(t)
           \/ \E i \in Ids : PumpNext(i)
           \/ DispatchNext
           \/ Elsewhere
  <1>1. ASSUME NEW i \in Ids, DeviceEnds(i) PROVE UNCHANGED <<ownerVars, transport>>
    BY <1>1 DEF DeviceEnds
  <1>2. CASE TransportLost
    BY <1>2 DEF Elsewhere, TransportLost
  <1>3. CASE handleJoinRoom \/ handleClientDisconnected
    BY <1>3 DEF Elsewhere, handleJoinRoom, handleClientDisconnected, roomFrame
  <1>4. ASSUME NEW s \in 1..MaxSessions, handleJoinRequest(s)
        PROVE  UNCHANGED <<ownerVars, device, transport>>
    BY <1>4 DEF handleJoinRequest, roomFrame
  <1>5. CASE roomJoinStep \/ GuestLeaves \/ GuestConnects \/ GuestDisconnects
             \/ GuestDiscards \/ GuestReceives
    BY <1>5 DEF Elsewhere, roomJoinStep, GuestLeaves, GuestConnects,
                GuestDisconnects, GuestDiscards, GuestReceives, roomFrame
  <1>6. ASSUME NEW g \in GuestIds, GuestOpens(g) \/ GuestWrites(g) \/ GuestCloses(g)
        PROVE  UNCHANGED <<ownerVars, device, transport>>
    BY <1>6 DEF GuestOpens, GuestWrites, GuestCloses
  <1>7. CASE UNCHANGED vars
    BY <1>7 DEF Elsewhere, vars, ownerVars, dispVars, closeVars
  <1>. QED
    BY <1>1, <1>2, <1>3, <1>4, <1>5, <1>6, <1>7
       DEF Elsewhere, Next, RoomNext, GuestNext

\* Every step keeps the types of the streams' state,
LEMMA StreamTypeStep ==
    ASSUME TypeOK, CloseInv, MessageInv, [Next]_vars
    PROVE  StreamTypeOK'
  <1>. USE DEF TypeOK, StreamTypeOK, closeVars, dispVars, guestVars
  <1>1. ASSUME NEW t \in Threads, CloseEnter(t) PROVE StreamTypeOK'
    <2>1. closeOf[t] \in Ids
      BY <1>1, IdFacts, AllocatedIds DEF CloseInv, CloseEnter
    <2>2. ReturnFromClose(t) => pump' \in [Ids -> {"none", "reading", "data", "lastdata",
                                   "sending", "lastsending", "closing", "exited"}]
      BY ReturnType
    <2>. QED  BY <1>1, <2>1, <2>2 DEF CloseEnter, StreamTypeOK
  <1>2. ASSUME NEW t \in Threads, CloseUnregister(t) PROVE StreamTypeOK'
    <2>1. closeOf[t] \in Ids
      BY <1>2, IdFacts, AllocatedIds DEF CloseInv, CloseUnregister
    <2>2. ReturnFromClose(t) => pump' \in [Ids -> {"none", "reading", "data", "lastdata",
                                   "sending", "lastsending", "closing", "exited"}]
      BY ReturnType
    <2>. QED  BY <1>2, <2>1, <2>2 DEF CloseUnregister, StreamTypeOK
  <1>3. ASSUME NEW t \in Threads, CloseNotifyGuest(t) PROVE StreamTypeOK'
    <2>1. closeOf[t] \in Ids
      BY <1>3, IdFacts, AllocatedIds DEF CloseInv, CloseNotifyGuest
    <2>2. pump' \in [Ids -> {"none", "reading", "data", "lastdata",
                                   "sending", "lastsending", "closing", "exited"}]
      BY <1>3, ReturnType DEF CloseNotifyGuest
    <2>3. clses' \in [Ids -> Nat]
      BY <1>3, <2>1 DEF CloseNotifyGuest, StreamTypeOK
    <2>4. once' \in [Ids -> {"idle", "running", "done"}]
      BY <1>3, <2>1 DEF CloseNotifyGuest, StreamTypeOK
    <2>. QED  BY <1>3, <2>2, <2>3, <2>4 DEF CloseNotifyGuest, StreamTypeOK
  <1>4. ASSUME NEW i \in Ids, PumpReads(i) PROVE StreamTypeOK'
    BY <1>4 DEF PumpReads, pumpFrame
  <1>5. ASSUME NEW i \in Ids, PumpReadFails(i) PROVE StreamTypeOK'
    BY <1>5 DEF PumpReadFails, pumpFrame, CallClose
  <1>6. ASSUME NEW i \in Ids, PumpTakesPermit(i) PROVE StreamTypeOK'
    BY <1>6 DEF PumpTakesPermit, pumpFrame
  <1>7. ASSUME NEW i \in Ids, PumpSeesDone(i) PROVE StreamTypeOK'
    BY <1>7 DEF PumpSeesDone, pumpFrame
  <1>8. ASSUME NEW i \in Ids, PumpSends(i) PROVE StreamTypeOK'
    BY <1>8 DEF PumpSends, pumpFrame, CallClose, Sent, Msg
  <1>9. ASSUME NEW i \in Ids, PumpSendFails(i) PROVE StreamTypeOK'
    BY <1>9 DEF PumpSendFails, pumpFrame, CallClose, SendFailed
  <1>10. CASE dispatchJoinRoom
    BY <1>10 DEF dispatchJoinRoom, Receives
  <1>11. CASE handleOpen
    BY <1>11 DEF handleOpen, Receives
  <1>12. CASE OpenStreamRefused
    BY <1>12 DEF OpenStreamRefused, Sent, SendFailed, Msg
  <1>13. CASE OpenStreamAccepted
    <2>1. current.arg1 \in GuestIds
      BY <1>13 DEF OpenStreamAccepted, MessageInv, ToOwnerInv, FromGuest
    <2>2. nextId + 1 \in Ids /\ nextId + 1 \in 0..MaxStreams
      BY <1>13, AllocatedIds, StreamBoundAssumption
         DEF OpenStreamAccepted, StreamTypeOK
    <2>3. heard \in 0..MaxSessions
      BY DEF TypeOK, GuestTypeOK
    <2>4. guestOf' \in [Ids -> GuestIds \cup {0}] /\ streams' \in SUBSET Ids
      BY <1>13, <2>1, <2>2 DEF OpenStreamAccepted
    <2>5. permit' \in [Ids -> BOOLEAN]
      BY <1>13, <2>2 DEF OpenStreamAccepted
    <2>6. device' \in [Ids -> {"none", "open", "ended", "closed"}]
      BY <1>13, <2>2 DEF OpenStreamAccepted
    <2>7. pump' \in [Ids -> {"none", "reading", "data", "lastdata", "sending",
                             "lastsending", "closing", "exited"}]
      BY <1>13, <2>2 DEF OpenStreamAccepted
    <2>8. born' \in [Ids -> 0..MaxSessions]
      BY <1>13, <2>2, <2>3 DEF OpenStreamAccepted
    <2>. QED  BY <1>13, <2>2, <2>4, <2>5, <2>6, <2>7, <2>8 DEF OpenStreamAccepted
  <1>14. CASE handleWrite
    BY <1>14 DEF handleWrite, Receives
  <1>15. CASE handleWriteDevice
    BY <1>15 DEF handleWriteDevice, CallClose
  <1>16. CASE handleWriteAck
    BY <1>16 DEF handleWriteAck, Sent, SendFailed, CallClose, Msg
  <1>17. CASE handleOkay
    BY <1>17 DEF handleOkay, Receives
  <1>18. CASE handleClose
    BY <1>18 DEF handleClose, Receives, CallClose
  <1>19. CASE handleGuestLeft
    BY <1>19 DEF handleGuestLeft, Receives
  <1>20. CASE DispatchEnds
    BY <1>20 DEF DispatchEnds
  <1>21. CASE closeAllStreams
    BY <1>21 DEF closeAllStreams, CallClose
  <1>22. CASE Elsewhere
    BY <1>22 DEF Elsewhere, DeviceEnds, ownerVars
  <1>. HIDE DEF TypeOK, StreamTypeOK, closeVars, dispVars, guestVars
  <1>. QED
    BY OtherSteps, <1>1, <1>2, <1>3, <1>4, <1>5, <1>6, <1>7, <1>8, <1>9, <1>10,
       <1>11, <1>12, <1>13, <1>14, <1>15, <1>16, <1>17, <1>18, <1>19, <1>20,
       <1>21, <1>22
       DEF CloseNext, PumpNext, DispatchNext

\* ... of the dispatcher's and the closeStream calls',
LEMMA DispTypeStep ==
    ASSUME TypeOK, MessageInv, [Next]_vars
    PROVE  DispTypeOK'
  <1>. USE DEF TypeOK, DispTypeOK, closeVars, dispVars, guestVars
  <1>1. ASSUME NEW t \in Threads, CloseEnter(t) PROVE DispTypeOK'
    BY <1>1, ReturnType DEF CloseEnter
  <1>2. ASSUME NEW t \in Threads, CloseUnregister(t) PROVE DispTypeOK'
    BY <1>2, ReturnType DEF CloseUnregister
  <1>3. ASSUME NEW t \in Threads, CloseNotifyGuest(t) PROVE DispTypeOK'
    BY <1>3, ReturnType DEF CloseNotifyGuest
  <1>4. ASSUME NEW i \in Ids, PumpReads(i) PROVE DispTypeOK'
    BY <1>4 DEF PumpReads, pumpFrame
  <1>5. ASSUME NEW i \in Ids, PumpReadFails(i) PROVE DispTypeOK'
    BY <1>5, IdFacts, CallCloseType DEF PumpReadFails, pumpFrame
  <1>6. ASSUME NEW i \in Ids, PumpTakesPermit(i) PROVE DispTypeOK'
    BY <1>6 DEF PumpTakesPermit, pumpFrame
  <1>7. ASSUME NEW i \in Ids, PumpSeesDone(i) PROVE DispTypeOK'
    BY <1>7 DEF PumpSeesDone, pumpFrame
  <1>8. ASSUME NEW i \in Ids, PumpSends(i) PROVE DispTypeOK'
    BY <1>8, IdFacts, CallCloseType DEF PumpSends, pumpFrame
  <1>9. ASSUME NEW i \in Ids, PumpSendFails(i) PROVE DispTypeOK'
    BY <1>9, IdFacts, CallCloseType DEF PumpSendFails, pumpFrame
  <1>10. CASE dispatchJoinRoom
    BY <1>10, ReceivesMsg DEF dispatchJoinRoom
  <1>11. CASE handleOpen
    BY <1>11, ReceivesMsg DEF handleOpen
  <1>12. CASE OpenStreamRefused
    BY <1>12 DEF OpenStreamRefused
  <1>13. CASE OpenStreamAccepted
    <2>1. nextId + 1 \in Ids /\ Dispatcher \in Threads
      BY <1>13, AllocatedIds, IdFacts DEF OpenStreamAccepted
    <2>. QED  BY <1>13, <2>1, CallCloseType DEF OpenStreamAccepted
  <1>14. CASE handleWrite
    BY <1>14, ReceivesMsg DEF handleWrite, StreamTypeOK
  <1>15. CASE handleWriteDevice
    <2>1. current.arg2 \in Ids /\ Dispatcher \in Threads
      BY <1>15, AllocatedIds, IdFacts
         DEF handleWriteDevice, MessageInv, RoomInv, ToOwnerInv,
             FromGuest
    <2>. QED  BY <1>15, <2>1, CallCloseType DEF handleWriteDevice
  <1>16. CASE handleWriteAck
    <2>1. current.arg2 \in Ids /\ Dispatcher \in Threads
      BY <1>16, AllocatedIds, IdFacts
         DEF handleWriteAck, MessageInv, RoomInv, ToOwnerInv, FromGuest
    <2>. QED  BY <1>16, <2>1, CallCloseType DEF handleWriteAck
  <1>17. CASE handleOkay
    BY <1>17, ReceivesMsg DEF handleOkay, StreamTypeOK
  <1>18. CASE handleClose
    <2>1. current' \in GuestMsgs
      BY <1>18, ReceivesMsg DEF handleClose
    <2>2. streams \subseteq Ids /\ Dispatcher \in Threads
      BY IdFacts DEF StreamTypeOK
    <2>. QED  BY <1>18, <2>1, <2>2, CallCloseType DEF handleClose
  <1>19. CASE handleGuestLeft
    BY <1>19, ReceivesMsg DEF handleGuestLeft, StreamTypeOK
  <1>20. CASE DispatchEnds
    BY <1>20 DEF DispatchEnds, StreamTypeOK
  <1>21. CASE closeAllStreams
    <2>1. Dispatcher \in Threads
      BY IdFacts
    <2>. QED  BY <1>21, <2>1, CallCloseType DEF closeAllStreams
  <1>22. CASE Elsewhere
    BY <1>22 DEF Elsewhere, ownerVars
  <1>. HIDE DEF TypeOK, DispTypeOK, closeVars, dispVars, guestVars
  <1>. QED
    BY OtherSteps, <1>1, <1>2, <1>3, <1>4, <1>5, <1>6, <1>7, <1>8, <1>9, <1>10,
       <1>11, <1>12, <1>13, <1>14, <1>15, <1>16, <1>17, <1>18, <1>19, <1>20,
       <1>21, <1>22
       DEF CloseNext, PumpNext, DispatchNext

\* The streams of a guest that has just come or is gone.
LEMMA NoStreamsType ==
    NoStreams \in [GuestIds -> [state : {"none", "opening", "open", "closed"},
                               peer : Ids \cup {0}, ready : BOOLEAN]]
  BY DEF NoStreams, NoStream

\* ... and of the queues' and the guests'.
LEMMA GuestTypeStep ==
    ASSUME TypeOK, CloseInv, StreamInv, MessageInv, [Next]_vars
    PROVE  GuestTypeOK'
  <1>. USE DEF TypeOK, GuestTypeOK, vars, closeVars, dispVars, guestVars, joinVars
  <1>1. ASSUME NEW t \in Threads, CloseEnter(t) PROVE GuestTypeOK'
    BY <1>1 DEF CloseEnter, ReturnFromClose
  <1>2. ASSUME NEW t \in Threads, CloseUnregister(t) PROVE GuestTypeOK'
    BY <1>2 DEF CloseUnregister, ReturnFromClose
  <1>3. ASSUME NEW t \in Threads, CloseNotifyGuest(t) PROVE GuestTypeOK'
    <2>1. closeOf[t] \in Ids /\ guestOf[closeOf[t]] \in GuestIds
      BY <1>3, AllocatedIds
         DEF CloseInv, MessageInv, RoomInv, ToOwnerInv, FromGuest,
             CloseNotifyGuest
    <2>. QED
      BY <1>3, <2>1, SentMsg, OwnerMsgType
         DEF CloseNotifyGuest, SendFailed
  <1>4. ASSUME NEW i \in Ids, PumpReads(i) PROVE GuestTypeOK'
    BY <1>4 DEF PumpReads, pumpFrame
  <1>5. ASSUME NEW i \in Ids, PumpReadFails(i) PROVE GuestTypeOK'
    BY <1>5 DEF PumpReadFails, pumpFrame, CallClose
  <1>6. ASSUME NEW i \in Ids, PumpTakesPermit(i) PROVE GuestTypeOK'
    BY <1>6 DEF PumpTakesPermit, pumpFrame
  <1>7. ASSUME NEW i \in Ids, PumpSeesDone(i) PROVE GuestTypeOK'
    BY <1>7 DEF PumpSeesDone, pumpFrame
  <1>8. ASSUME NEW i \in Ids, PumpSends(i) PROVE GuestTypeOK'
    <2>1. i \in Allocated /\ guestOf[i] \in GuestIds
      BY <1>8
         DEF StreamInv, MessageInv, RoomInv, ToOwnerInv, FromGuest,
             PumpSends
    <2>. QED  BY <1>8, <2>1, SentMsg, OwnerMsgType DEF PumpSends, pumpFrame
  <1>9. ASSUME NEW i \in Ids, PumpSendFails(i) PROVE GuestTypeOK'
    BY <1>9 DEF PumpSendFails, pumpFrame, CallClose, SendFailed
  <1>10. ASSUME NEW i \in Ids, DeviceEnds(i) PROVE GuestTypeOK'
    BY <1>10 DEF DeviceEnds, ownerVars
  <1>11. CASE dispatchJoinRoom
    <2>1. current'.arg1 \in 1..MaxSessions /\ toOwner' \in Seq(GuestMsgs)
      BY <1>11, ReceivesMsg, MsgArgs DEF dispatchJoinRoom
    <2>2. heard' = current'.arg1 /\ asks' = asks \cup {current'.arg1}
      BY <1>11 DEF dispatchJoinRoom
    <2>3. heard' \in 0..MaxSessions
      BY <2>1, <2>2, StreamBoundAssumption
    <2>4. asks' \in SUBSET (1..MaxSessions)
      BY <2>1, <2>2
    <2>. QED  BY <1>11, <2>1, <2>3, <2>4 DEF dispatchJoinRoom
  <1>12. CASE handleOpen
    BY <1>12, ReceivesMsg DEF handleOpen
  <1>13. CASE OpenStreamRefused
    <2>1. current.arg1 \in GuestIds
      BY <1>13 DEF OpenStreamRefused, MessageInv, ToOwnerInv, FromGuest
    <2>. QED  BY <1>13, <2>1, SentMsg, RefusalType DEF OpenStreamRefused, SendFailed
  <1>14. CASE OpenStreamAccepted
    <2>1. current.arg1 \in GuestIds
      BY <1>14 DEF OpenStreamAccepted, MessageInv, ToOwnerInv, FromGuest
    <2>2. nextId + 1 \in Ids
      BY <1>14, AllocatedIds DEF OpenStreamAccepted
    <2>3. toGuest' \in Seq(OwnerMsgs)
      <3>1. Msg("OKAY", nextId + 1, current.arg1) \in OwnerMsgs
        BY <2>1, <2>2, OwnerMsgType
      <3>2. Sent(Msg("OKAY", nextId + 1, current.arg1)) \/ UNCHANGED toGuest
        BY <1>14 DEF OpenStreamAccepted, SendFailed
      <3>. QED  BY <3>1, <3>2, SentMsg
    <2>. QED  BY <1>14, <2>3 DEF OpenStreamAccepted
  <1>15. CASE handleWrite
    BY <1>15, ReceivesMsg DEF handleWrite
  <1>16. CASE handleWriteDevice
    BY <1>16 DEF handleWriteDevice, CallClose
  <1>17. CASE handleWriteAck
    <2>1. current.arg1 \in GuestIds /\ current.arg2 \in Ids
      BY <1>17, AllocatedIds
         DEF handleWriteAck, MessageInv, RoomInv, ToOwnerInv, FromGuest
    <2>. QED  BY <1>17, <2>1, SentMsg, OwnerMsgType DEF handleWriteAck, SendFailed
  <1>18. CASE handleOkay
    BY <1>18, ReceivesMsg DEF handleOkay
  <1>19. CASE handleClose
    BY <1>19, ReceivesMsg DEF handleClose
  <1>20. CASE handleGuestLeft
    BY <1>20, ReceivesMsg DEF handleGuestLeft
  <1>21. CASE DispatchEnds
    BY <1>21 DEF DispatchEnds
  <1>22. CASE closeAllStreams
    BY <1>22 DEF closeAllStreams, CallClose
  <1>23. CASE handleJoinRoom
    <2>1. session' \in 1..MaxSessions
      BY <1>23, StreamBoundAssumption DEF handleJoinRoom
    <2>2. JoinRequest(session') \in GuestMsgs
      BY <2>1, JoinTypes
    <2>3. toOwner' \in Seq(GuestMsgs)
      BY <1>23, <2>2 DEF handleJoinRoom
    <2>. QED  BY <1>23, <2>1, <2>3 DEF handleJoinRoom, ownerVars
  <1>24. ASSUME NEW s \in 1..MaxSessions, handleJoinRequest(s) PROVE GuestTypeOK'
    <2>1. Accepted(s) \in OwnerMsgs
      BY JoinTypes
    <2>2. /\ toGuest' \in Seq(OwnerMsgs)
          /\ stage' \in {stage, "none"} /\ guest' \in {guest, NoStreams}
      <3>1. UNCHANGED toGuest \/ toGuest' = <<>> \/ Sent(Accepted(s))
        BY <1>24
           DEF handleJoinRequest, handleJoinRoomResponse, PlaceEmptied,
               SendFailed
      <3>2. toGuest' \in Seq(OwnerMsgs)
        <4>1. toGuest \in Seq(OwnerMsgs) /\ <<>> \in Seq(OwnerMsgs)
          BY EmptySeq
        <4>. HIDE DEF TypeOK, GuestTypeOK
        <4>. QED  BY <2>1, <3>1, <4>1, SentMsg
      <3>. QED  BY <1>24, <3>2
                DEF handleJoinRequest, handleJoinRoomResponse, PlaceEmptied
    <2>3. own' \in BOOLEAN /\ astray' \in BOOLEAN
      BY <1>24, Zenon DEF handleJoinRequest, handleJoinRoomResponse, PlaceEmptied
    <2>4. UNCHANGED <<toOwner, session, heard, writes>> /\ asks' \subseteq asks
      BY <1>24 DEF handleJoinRequest, roomFrame
    <2>. QED  BY <2>2, <2>3, <2>4, NoStreamsType
  <1>25. CASE handleClientDisconnected
    <2>1. toOwner' \in Seq(GuestMsgs)
      BY <1>25, GuestLeftType DEF handleClientDisconnected
    <2>2. /\ toGuest' = <<>> /\ guest' = NoStreams /\ stage' = "none" /\ own' = FALSE
          /\ UNCHANGED <<asks, astray, session, heard, writes>>
      BY <1>25 DEF handleClientDisconnected, PlaceEmptied, roomFrame
    <2>. QED  BY <2>1, <2>2, NoStreamsType, EmptySeq
  <1>26. CASE roomJoinStep
    <2>1. toGuest' \in Seq(OwnerMsgs)
      <3>1. toGuest # <<>> /\ (toGuest' = Tail(toGuest) \/ toGuest' = <<>>)
        BY <1>26 DEF roomJoinStep, GuestEnds
      <3>2. toGuest \in Seq(OwnerMsgs) /\ <<>> \in Seq(OwnerMsgs)
        BY EmptySeq
      <3>. HIDE DEF TypeOK, GuestTypeOK
      <3>. QED  BY <3>1, <3>2, HeadTailProperties
    <2>2. own' \in BOOLEAN
      BY <1>26, Zenon DEF roomJoinStep, GuestEnds
    <2>3. guest' \in {guest, NoStreams} /\ stage' \in {"idle", "gone"}
      BY <1>26 DEF roomJoinStep, GuestEnds
    <2>4. UNCHANGED <<toOwner, asks, astray, session, heard, writes>>
      BY <1>26 DEF roomJoinStep, roomFrame
    <2>. QED  BY <2>1, <2>2, <2>3, <2>4, NoStreamsType
  <1>27. CASE GuestLeaves
    <2>1. /\ toGuest' = <<>> /\ guest' = NoStreams /\ stage' = "gone"
          /\ UNCHANGED <<toOwner, asks, own, astray, session, heard, writes>>
      BY <1>27 DEF GuestLeaves, GuestEnds, roomFrame
    <2>. QED  BY <2>1, NoStreamsType, EmptySeq
  <1>28. CASE GuestConnects
    BY <1>28 DEF GuestConnects, roomFrame, ownerVars
  <1>29. CASE GuestDisconnects
    BY <1>29 DEF GuestDisconnects, roomFrame, ownerVars
  <1>30. CASE GuestDiscards
    BY <1>30, HeadTailProperties DEF GuestDiscards, ownerVars
  <1>31. CASE GuestReceives
    <2>. DEFINE m == Head(toGuest)
    <2>1. m \in OwnerMsgs /\ toGuest' \in Seq(OwnerMsgs)
      BY <1>31, HeadTailProperties DEF GuestReceives
    <2>. HIDE DEF m
    <2>2. m.cmd # "Accepted" => m.arg2 \in GuestIds /\ m.arg1 \in Ids \cup {0}
      BY <2>1, MsgArgs
    <2>. USE DEF m
    <2>3. m.cmd # "Accepted" => Msg("OKAY", m.arg2, m.arg1) \in GuestMsgs
      BY <2>2, GuestMsgType
    <2>4. \/ toOwner' = toOwner
          \/ m.cmd # "Accepted" /\ toOwner' = Append(toOwner, Msg("OKAY", m.arg2, m.arg1))
      BY <1>31 DEF GuestReceives
    <2>5. toOwner' \in Seq(GuestMsgs)
      <3>1. toOwner' = toOwner \/ \E r \in GuestMsgs : toOwner' = Append(toOwner, r)
        BY <2>3, <2>4
      <3>2. toOwner \in Seq(GuestMsgs)
        OBVIOUS
      <3>. HIDE DEF TypeOK, GuestTypeOK
      <3>. QED  BY <3>1, <3>2, AppendProperties
    <2>6. guest' \in [GuestIds -> [state : {"none", "opening", "open", "closed"},
                                   peer : Ids \cup {0}, ready : BOOLEAN]]
      <3>1. \/ UNCHANGED guest
            \/ /\ m.cmd # "Accepted"
               /\ \/ \E v \in [state : {"open"}, peer : Ids \cup {0}, ready : BOOLEAN] :
                        guest' = [guest EXCEPT ![m.arg2] = v]
                  \/ guest' = [guest EXCEPT ![m.arg2].ready = TRUE]
                  \/ guest' = [guest EXCEPT ![m.arg2].state = "closed"]
        BY <1>31, <2>2 DEF GuestReceives
      <3>. HIDE DEF m
      <3>2. CASE UNCHANGED guest
        BY <3>2
      <3>3. ASSUME m.cmd # "Accepted",
                   NEW v \in [state : {"open"}, peer : Ids \cup {0}, ready : BOOLEAN],
                   guest' = [guest EXCEPT ![m.arg2] = v]
            PROVE  guest' \in [GuestIds -> [state : {"none", "opening", "open", "closed"},
                                            peer : Ids \cup {0}, ready : BOOLEAN]]
        BY <2>2, <3>3
      <3>4. CASE m.cmd # "Accepted" /\ guest' = [guest EXCEPT ![m.arg2].ready = TRUE]
        BY <2>2, <3>4
      <3>5. CASE m.cmd # "Accepted" /\ guest' = [guest EXCEPT ![m.arg2].state = "closed"]
        BY <2>2, <3>5
      <3>. QED  BY <3>1, <3>2, <3>3, <3>4, <3>5
    <2>. HIDE DEF m
    <2>. QED  BY <1>31, <2>1, <2>5, <2>6 DEF GuestReceives, ownerVars
  <1>32. ASSUME NEW g \in GuestIds, GuestOpens(g) PROVE GuestTypeOK'
    <2>1. toOwner' \in Seq(GuestMsgs)
      <3>1. Msg("OPEN", g, 0) \in GuestMsgs
        BY GuestMsgType
      <3>. QED  BY <1>32, <3>1 DEF GuestOpens
    <2>2. guest' \in [GuestIds -> [state : {"none", "opening", "open", "closed"},
                                   peer : Ids \cup {0}, ready : BOOLEAN]]
      BY <1>32 DEF GuestOpens, NoStream
    <2>. QED  BY <1>32, <2>1, <2>2, StreamBoundAssumption DEF GuestOpens
  <1>33. ASSUME NEW g \in GuestIds, GuestWrites(g) PROVE GuestTypeOK'
    <2>1. toOwner' \in Seq(GuestMsgs)
      <3>1. Msg("WRTE", g, guest[g].peer) \in GuestMsgs
        BY GuestMsgType
      <3>. QED  BY <1>33, <3>1 DEF GuestWrites
    <2>2. guest' \in [GuestIds -> [state : {"none", "opening", "open", "closed"},
                                   peer : Ids \cup {0}, ready : BOOLEAN]]
      BY <1>33 DEF GuestWrites
    <2>. QED  BY <1>33, <2>1, <2>2, StreamBoundAssumption DEF GuestWrites
  <1>34. ASSUME NEW g \in GuestIds, GuestCloses(g) PROVE GuestTypeOK'
    <2>1. toOwner' \in Seq(GuestMsgs)
      <3>1. Msg("CLSE", g, guest[g].peer) \in GuestMsgs
        BY GuestMsgType
      <3>. QED  BY <1>34, <3>1 DEF GuestCloses
    <2>2. guest' \in [GuestIds -> [state : {"none", "opening", "open", "closed"},
                                   peer : Ids \cup {0}, ready : BOOLEAN]]
      BY <1>34 DEF GuestCloses
    <2>. QED  BY <1>34, <2>1, <2>2, StreamBoundAssumption DEF GuestCloses
  <1>35. CASE TransportLost
    <2>1. /\ toGuest' = <<>> /\ guest' = NoStreams /\ stage' = "none" /\ own' = FALSE
          /\ UNCHANGED <<toOwner, asks, astray, session, heard, writes>>
      BY <1>35 DEF TransportLost, PlaceEmptied
    <2>. QED  BY <2>1, NoStreamsType, EmptySeq
  <1>36. CASE UNCHANGED vars
    BY <1>36 DEF vars
  <1>. QED
    BY <1>1, <1>2, <1>3, <1>4, <1>5, <1>6, <1>7, <1>8, <1>9, <1>10, <1>11,
       <1>12, <1>13, <1>14, <1>15, <1>16, <1>17, <1>18, <1>19, <1>20, <1>21,
       <1>22, <1>23, <1>24, <1>25, <1>26, <1>27, <1>28, <1>29, <1>30, <1>31,
       <1>32, <1>33, <1>34, <1>35, <1>36
       DEF Next, CloseNext, PumpNext, DispatchNext, RoomNext, GuestNext

-----------------------------------------------------------------------------
(* The owner's goroutines *)

\* The functions the goroutines keep are total on streams or threads.
LEMMA Domains ==
    ASSUME TypeOK
    PROVE  /\ DOMAIN closePc = Threads /\ DOMAIN closeOf = Threads
           /\ DOMAIN closeNotify = Threads
           /\ DOMAIN once = Ids /\ DOMAIN pump = Ids /\ DOMAIN device = Ids
           /\ DOMAIN permit = Ids /\ DOMAIN clses = Ids
  BY DEF TypeOK, StreamTypeOK, DispTypeOK

\* closeOnce admits one caller; the dispatcher and a pump wait in their call.
LEMMA CloseStep ==
    ASSUME TypeOK, CloseInv, StreamInv, MessageInv, [Next]_vars
    PROVE  CloseInv'
  <1>. USE DEF CloseInv
  <1>1. ASSUME NEW t \in Threads, CloseEnter(t) PROVE CloseInv'
    BY <1>1, Domains, IdFacts, AllocatedIds
       DEF CloseEnter, ReturnFromClose, dispVars, closeVars, StreamInv
  <1>2. ASSUME NEW t \in Threads, CloseUnregister(t) PROVE CloseInv'
    BY <1>2, Domains, IdFacts, AllocatedIds
       DEF CloseUnregister, ReturnFromClose, dispVars, closeVars, StreamInv
  <1>3. ASSUME NEW t \in Threads, CloseNotifyGuest(t) PROVE CloseInv'
    BY <1>3, Domains, IdFacts, AllocatedIds
       DEF CloseNotifyGuest, ReturnFromClose, Sent, SendFailed, Msg, dispVars,
           closeVars, StreamInv
  <1>4. ASSUME NEW i \in Ids, PumpReads(i) PROVE CloseInv'
    BY <1>4, Domains, IdFacts, AllocatedIds
       DEF PumpReads, pumpFrame, dispVars, closeVars, StreamInv
  <1>5. ASSUME NEW i \in Ids, PumpReadFails(i) PROVE CloseInv'
    BY <1>5, Domains, IdFacts, AllocatedIds
       DEF PumpReadFails, pumpFrame, CallClose, dispVars, closeVars, StreamInv
  <1>6. ASSUME NEW i \in Ids, PumpTakesPermit(i) PROVE CloseInv'
    BY <1>6, Domains, IdFacts, AllocatedIds
       DEF PumpTakesPermit, pumpFrame, dispVars, closeVars, StreamInv
  <1>7. ASSUME NEW i \in Ids, PumpSeesDone(i) PROVE CloseInv'
    BY <1>7, Domains, IdFacts, AllocatedIds
       DEF PumpSeesDone, pumpFrame, dispVars, closeVars, StreamInv
  <1>8. ASSUME NEW i \in Ids, PumpSends(i) PROVE CloseInv'
    BY <1>8, Domains, IdFacts, AllocatedIds
       DEF PumpSends, pumpFrame, CallClose, Sent, Msg, dispVars, closeVars,
           StreamInv
  <1>9. ASSUME NEW i \in Ids, PumpSendFails(i) PROVE CloseInv'
    BY <1>9, Domains, IdFacts, AllocatedIds
       DEF PumpSendFails, pumpFrame, CallClose, SendFailed, dispVars,
           closeVars, StreamInv
  <1>10. CASE dispatchJoinRoom
    BY <1>10, Domains, IdFacts, AllocatedIds
       DEF dispatchJoinRoom, Receives, dispVars, closeVars, StreamInv
  <1>11. CASE handleOpen
    BY <1>11, Domains, IdFacts, AllocatedIds
       DEF handleOpen, Receives, dispVars, closeVars, StreamInv
  <1>12. CASE OpenStreamRefused
    BY <1>12, Domains, IdFacts, AllocatedIds
       DEF OpenStreamRefused, Sent, SendFailed, Msg, dispVars, closeVars,
           StreamInv
  <1>13. CASE OpenStreamAccepted
    BY <1>13, Domains, IdFacts, AllocatedIds
       DEF OpenStreamAccepted, Sent, SendFailed, CallClose, Msg, dispVars,
           closeVars, StreamInv
  <1>14. CASE handleWrite
    BY <1>14, Domains, IdFacts, AllocatedIds
       DEF handleWrite, Receives, dispVars, closeVars, StreamInv
  <1>15. CASE handleWriteDevice
    BY <1>15, Domains, IdFacts, AllocatedIds
       DEF handleWriteDevice, CallClose, dispVars, closeVars, MessageInv,
           ToOwnerInv, FromGuest
  <1>16. CASE handleWriteAck
    BY <1>16, Domains, IdFacts, AllocatedIds
       DEF handleWriteAck, Sent, SendFailed, CallClose, Msg, dispVars,
           closeVars, MessageInv, ToOwnerInv, FromGuest
  <1>17. CASE handleOkay
    BY <1>17, Domains, IdFacts, AllocatedIds
       DEF handleOkay, Receives, dispVars, closeVars, StreamInv
  <1>18. CASE handleClose
    BY <1>18, Domains, IdFacts, AllocatedIds
       DEF handleClose, Receives, CallClose, dispVars, closeVars, StreamInv
  <1>19. CASE handleGuestLeft
    BY <1>19, Domains, IdFacts, AllocatedIds
       DEF handleGuestLeft, Receives, dispVars, closeVars, StreamInv
  <1>20. CASE DispatchEnds
    BY <1>20, Domains, IdFacts, AllocatedIds
       DEF DispatchEnds, dispVars, closeVars, StreamInv
  <1>21. CASE closeAllStreams
    BY <1>21, Domains, IdFacts, AllocatedIds
       DEF closeAllStreams, CallClose, dispVars, closeVars, StreamInv
  <1>22. CASE Elsewhere
    BY <1>22, AllocatedIds DEF Elsewhere, ownerVars, dispVars, closeVars
  <1>. HIDE DEF CloseInv
  <1>. QED
    BY OtherSteps, <1>1, <1>2, <1>3, <1>4, <1>5, <1>6, <1>7, <1>8, <1>9, <1>10,
       <1>11, <1>12, <1>13, <1>14, <1>15, <1>16, <1>17, <1>18, <1>19, <1>20,
       <1>21, <1>22
       DEF CloseNext, PumpNext, DispatchNext

\* A stream is allocated, registered, closed and unregistered, in this order.
LEMMA StreamStep ==
    ASSUME TypeOK, CloseInv, StreamInv, [Next]_vars
    PROVE  StreamInv'
  <1>. USE DEF StreamInv
  <1>1. ASSUME NEW t \in Threads, CloseEnter(t) PROVE StreamInv'
    BY <1>1, Domains, IdFacts, AllocatedIds
       DEF CloseEnter, ReturnFromClose, dispVars, closeVars, CloseInv
  <1>2. ASSUME NEW t \in Threads, CloseUnregister(t) PROVE StreamInv'
    BY <1>2, Domains, IdFacts, AllocatedIds
       DEF CloseUnregister, ReturnFromClose, dispVars, closeVars, CloseInv
  <1>3. ASSUME NEW t \in Threads, CloseNotifyGuest(t) PROVE StreamInv'
    BY <1>3, Domains, IdFacts, AllocatedIds
       DEF CloseNotifyGuest, ReturnFromClose, Sent, SendFailed, Msg, dispVars,
           closeVars, CloseInv
  <1>4. ASSUME NEW i \in Ids, PumpReads(i) PROVE StreamInv'
    BY <1>4, Domains, IdFacts, AllocatedIds
       DEF PumpReads, pumpFrame, dispVars, closeVars, CloseInv
  <1>5. ASSUME NEW i \in Ids, PumpReadFails(i) PROVE StreamInv'
    BY <1>5, Domains, IdFacts, AllocatedIds
       DEF PumpReadFails, pumpFrame, CallClose, dispVars, closeVars, CloseInv
  <1>6. ASSUME NEW i \in Ids, PumpTakesPermit(i) PROVE StreamInv'
    BY <1>6, Domains, IdFacts, AllocatedIds
       DEF PumpTakesPermit, pumpFrame, dispVars, closeVars, CloseInv
  <1>7. ASSUME NEW i \in Ids, PumpSeesDone(i) PROVE StreamInv'
    BY <1>7, Domains, IdFacts, AllocatedIds
       DEF PumpSeesDone, pumpFrame, dispVars, closeVars, CloseInv
  <1>8. ASSUME NEW i \in Ids, PumpSends(i) PROVE StreamInv'
    BY <1>8, Domains, IdFacts, AllocatedIds
       DEF PumpSends, pumpFrame, CallClose, Sent, Msg, dispVars, closeVars,
           CloseInv
  <1>9. ASSUME NEW i \in Ids, PumpSendFails(i) PROVE StreamInv'
    BY <1>9, Domains, IdFacts, AllocatedIds
       DEF PumpSendFails, pumpFrame, CallClose, SendFailed, dispVars,
           closeVars, CloseInv
  <1>10. CASE dispatchJoinRoom
    BY <1>10, Domains, IdFacts, AllocatedIds
       DEF dispatchJoinRoom, Receives, dispVars, closeVars, CloseInv
  <1>11. CASE handleOpen
    BY <1>11, Domains, IdFacts, AllocatedIds
       DEF handleOpen, Receives, dispVars, closeVars, CloseInv
  <1>12. CASE OpenStreamRefused
    BY <1>12, Domains, IdFacts, AllocatedIds
       DEF OpenStreamRefused, Sent, SendFailed, Msg, dispVars, closeVars,
           CloseInv
  <1>13. CASE OpenStreamAccepted
    BY <1>13, Domains, IdFacts, AllocatedIds
       DEF OpenStreamAccepted, Sent, SendFailed, CallClose, Msg, dispVars,
           closeVars, CloseInv
  <1>14. CASE handleWrite
    BY <1>14, Domains, IdFacts, AllocatedIds
       DEF handleWrite, Receives, dispVars, closeVars, CloseInv
  <1>15. CASE handleWriteDevice
    BY <1>15, Domains, IdFacts, AllocatedIds
       DEF handleWriteDevice, CallClose, dispVars, closeVars, CloseInv
  <1>16. CASE handleWriteAck
    BY <1>16, Domains, IdFacts, AllocatedIds
       DEF handleWriteAck, Sent, SendFailed, CallClose, Msg, dispVars,
           closeVars, CloseInv
  <1>17. CASE handleOkay
    BY <1>17, Domains, IdFacts, AllocatedIds
       DEF handleOkay, Receives, dispVars, closeVars, CloseInv
  <1>18. CASE handleClose
    BY <1>18, Domains, IdFacts, AllocatedIds
       DEF handleClose, Receives, CallClose, dispVars, closeVars, CloseInv
  <1>19. CASE handleGuestLeft
    BY <1>19, Domains, IdFacts, AllocatedIds
       DEF handleGuestLeft, Receives, dispVars, closeVars, CloseInv
  <1>20. CASE DispatchEnds
    BY <1>20, Domains, IdFacts, AllocatedIds
       DEF DispatchEnds, dispVars, closeVars, CloseInv
  <1>21. CASE closeAllStreams
    BY <1>21, Domains, IdFacts, AllocatedIds
       DEF closeAllStreams, CallClose, dispVars, closeVars, CloseInv
  <1>22. CASE Elsewhere
    BY <1>22, Domains, IdFacts, AllocatedIds
       DEF Elsewhere, DeviceEnds, ownerVars, dispVars, closeVars
  <1>. HIDE DEF StreamInv
  <1>. QED
    BY OtherSteps, <1>1, <1>2, <1>3, <1>4, <1>5, <1>6, <1>7, <1>8, <1>9, <1>10,
       <1>11, <1>12, <1>13, <1>14, <1>15, <1>16, <1>17, <1>18, <1>19, <1>20,
       <1>21, <1>22
       DEF CloseNext, PumpNext, DispatchNext

\* closeAllStreams gets through all the streams it has copied.
LEMMA CloseAllStep ==
    ASSUME TypeOK, CloseInv, StreamInv, CloseAllInv, [Next]_vars
    PROVE  CloseAllInv'
  <1>. USE DEF CloseAllInv
  <1>1. ASSUME NEW t \in Threads, CloseEnter(t) PROVE CloseAllInv'
    <2>1. CASE once[closeOf[t]] = "idle"
      BY <1>1, <2>1, Domains, IdFacts, AllocatedIds
         DEF CloseEnter, dispVars, CloseInv
    <2>2. CASE once[closeOf[t]] = "done"
      <3>1. closeOf[t] \in Ids /\ closeOf[t] \notin streams
        BY <1>1, <2>2, AllocatedIds DEF CloseEnter, CloseInv, StreamInv
      <3>2. t # Dispatcher => closePc'[Dispatcher] = closePc[Dispatcher] /\ disp' = disp
        BY <1>1, <2>2, Domains, IdFacts DEF CloseEnter, ReturnFromClose
      <3>3. t = Dispatcher => disp' = disp \/ disp' = "idle"
        BY <1>1, <2>2 DEF CloseEnter, ReturnFromClose
      <3>. QED  BY <1>1, <2>2, <3>1, <3>2, <3>3 DEF CloseEnter, CloseInv
    <2>. QED  BY <1>1, <2>1, <2>2 DEF CloseEnter
  <1>2. ASSUME NEW t \in Threads, CloseUnregister(t) PROVE CloseAllInv'
    BY <1>2, Domains, IdFacts, AllocatedIds
       DEF CloseUnregister, ReturnFromClose, dispVars, closeVars, CloseInv,
           StreamInv
  <1>3. ASSUME NEW t \in Threads, CloseNotifyGuest(t) PROVE CloseAllInv'
    BY <1>3, Domains, IdFacts, AllocatedIds
       DEF CloseNotifyGuest, ReturnFromClose, Sent, SendFailed, Msg, dispVars,
           closeVars, CloseInv, StreamInv
  <1>4. ASSUME NEW i \in Ids, PumpReads(i) PROVE CloseAllInv'
    BY <1>4, Domains, IdFacts, AllocatedIds
       DEF PumpReads, pumpFrame, dispVars, closeVars, CloseInv, StreamInv
  <1>5. ASSUME NEW i \in Ids, PumpReadFails(i) PROVE CloseAllInv'
    BY <1>5, Domains, IdFacts, AllocatedIds
       DEF PumpReadFails, pumpFrame, CallClose, dispVars, closeVars, CloseInv,
           StreamInv
  <1>6. ASSUME NEW i \in Ids, PumpTakesPermit(i) PROVE CloseAllInv'
    BY <1>6, Domains, IdFacts, AllocatedIds
       DEF PumpTakesPermit, pumpFrame, dispVars, closeVars, CloseInv, StreamInv
  <1>7. ASSUME NEW i \in Ids, PumpSeesDone(i) PROVE CloseAllInv'
    BY <1>7, Domains, IdFacts, AllocatedIds
       DEF PumpSeesDone, pumpFrame, dispVars, closeVars, CloseInv, StreamInv
  <1>8. ASSUME NEW i \in Ids, PumpSends(i) PROVE CloseAllInv'
    BY <1>8, Domains, IdFacts, AllocatedIds
       DEF PumpSends, pumpFrame, CallClose, Sent, Msg, dispVars, closeVars,
           CloseInv, StreamInv
  <1>9. ASSUME NEW i \in Ids, PumpSendFails(i) PROVE CloseAllInv'
    BY <1>9, Domains, IdFacts, AllocatedIds
       DEF PumpSendFails, pumpFrame, CallClose, SendFailed, dispVars,
           closeVars, CloseInv, StreamInv
  <1>10. CASE dispatchJoinRoom
    BY <1>10, Domains, IdFacts, AllocatedIds
       DEF dispatchJoinRoom, Receives, dispVars, closeVars, CloseInv, StreamInv
  <1>11. CASE handleOpen
    BY <1>11, Domains, IdFacts, AllocatedIds
       DEF handleOpen, Receives, dispVars, closeVars, CloseInv, StreamInv
  <1>12. CASE OpenStreamRefused
    BY <1>12, Domains, IdFacts, AllocatedIds
       DEF OpenStreamRefused, Sent, SendFailed, Msg, dispVars, closeVars,
           CloseInv, StreamInv
  <1>13. CASE OpenStreamAccepted
    BY <1>13, Domains, IdFacts, AllocatedIds
       DEF OpenStreamAccepted, Sent, SendFailed, CallClose, Msg, dispVars,
           closeVars, CloseInv, StreamInv
  <1>14. CASE handleWrite
    BY <1>14, Domains, IdFacts, AllocatedIds
       DEF handleWrite, Receives, dispVars, closeVars, CloseInv, StreamInv
  <1>15. CASE handleWriteDevice
    BY <1>15, Domains, IdFacts, AllocatedIds
       DEF handleWriteDevice, CallClose, dispVars, closeVars, CloseInv,
           StreamInv
  <1>16. CASE handleWriteAck
    BY <1>16, Domains, IdFacts, AllocatedIds
       DEF handleWriteAck, Sent, SendFailed, CallClose, Msg, dispVars,
           closeVars, CloseInv, StreamInv
  <1>17. CASE handleOkay
    BY <1>17, Domains, IdFacts, AllocatedIds
       DEF handleOkay, Receives, dispVars, closeVars, CloseInv, StreamInv
  <1>18. CASE handleClose
    BY <1>18, Domains, IdFacts, AllocatedIds
       DEF handleClose, Receives, CallClose, dispVars, closeVars, CloseInv,
           StreamInv
  <1>19. CASE handleGuestLeft
    BY <1>19, Domains, IdFacts, AllocatedIds
       DEF handleGuestLeft, Receives, dispVars, closeVars, CloseInv, StreamInv
  <1>20. CASE DispatchEnds
    BY <1>20, Domains, IdFacts, AllocatedIds
       DEF DispatchEnds, dispVars, closeVars, CloseInv, StreamInv
  <1>21. CASE closeAllStreams
    BY <1>21, Domains, IdFacts, AllocatedIds
       DEF closeAllStreams, CallClose, dispVars, closeVars, CloseInv, StreamInv
  <1>22. CASE Elsewhere
    BY <1>22, AllocatedIds
       DEF Elsewhere, ownerVars, dispVars, closeVars, CloseInv, StreamInv
  <1>. HIDE DEF CloseAllInv
  <1>. QED
    BY OtherSteps, <1>1, <1>2, <1>3, <1>4, <1>5, <1>6, <1>7, <1>8, <1>9, <1>10,
       <1>11, <1>12, <1>13, <1>14, <1>15, <1>16, <1>17, <1>18, <1>19, <1>20,
       <1>21, <1>22
       DEF CloseNext, PumpNext, DispatchNext

-----------------------------------------------------------------------------
(* Messages and the room *)

\* What the steps below need of the types.
LEMMA GuestDomains ==
    ASSUME TypeOK
    PROVE  /\ DOMAIN guestOf = Ids /\ DOMAIN born = Ids /\ DOMAIN guest = GuestIds
           /\ toOwner \in Seq(GuestMsgs) /\ toGuest \in Seq(OwnerMsgs)
           /\ session \in Nat /\ heard \in Nat /\ transport \in BOOLEAN
           /\ \A i \in Ids : born[i] \in Nat
  BY StreamBoundAssumption DEF TypeOK, StreamTypeOK, GuestTypeOK

\* A guest or the room sends something to the owner.
LEMMA ToOwnerGrows ==
    ASSUME TypeOK, ToOwnerInv, NEW m \in GuestMsgs, FromGuest(m)',
           toOwner' = Append(toOwner, m),
           UNCHANGED <<nextId, guestOf, heard, disp, current>>,
           session' \in Nat, session =< session'
    PROVE  ToOwnerInv'
  <1>1. /\ \A k \in DOMAIN toOwner' :
              toOwner'[k] = m \/ (k \in DOMAIN toOwner /\ toOwner'[k] = toOwner[k])
    BY AppendProperties DEF TypeOK, GuestTypeOK
  <1>2. Allocated' = Allocated
    BY AllocatedIds
  <1>3. ASSUME NEW x, FromGuest(x) PROVE FromGuest(x)'
    BY <1>2, <1>3, GuestDomains DEF FromGuest
  <1>. QED  BY <1>1, <1>3 DEF ToOwnerInv

\* The owner sends something; a stream opened in the same step is a new one.
LEMMA ToGuestGrows ==
    ASSUME TypeOK, ToGuestInv, NEW m \in OwnerMsgs, FromOwner(m)', Sent(m),
           \A i \in Allocated : i \in Allocated' /\ guestOf'[i] = guestOf[i],
           UNCHANGED <<guest, session, heard>>, asks' \subseteq asks,
           astray => astray'
    PROVE  ToGuestInv'
  <1>1. \A k \in DOMAIN toGuest' :
           toGuest'[k] = m \/ (k \in DOMAIN toGuest /\ toGuest'[k] = toGuest[k])
    BY SentMsg DEF TypeOK, GuestTypeOK
  <1>2. ASSUME NEW x, FromOwner(x) PROVE FromOwner(x)'
    BY <1>2 DEF FromOwner
  <1>. QED  BY <1>1, <1>2 DEF ToGuestInv

\* The room's own state: who is in it, what was received from it.
LEMMA RoomStep ==
    ASSUME TypeOK, StreamInv, RoomInv, ToOwnerInv, [Next]_vars
    PROVE  RoomInv'
  <1>. USE DEF RoomInv
  <1>1. ASSUME NEW t \in Threads, CloseEnter(t) PROVE RoomInv'
    BY <1>1, GuestDomains, AllocatedIds
       DEF CloseEnter, ReturnFromClose, dispVars, guestVars, joinVars
  <1>2. ASSUME NEW t \in Threads, CloseUnregister(t) PROVE RoomInv'
    BY <1>2, GuestDomains, AllocatedIds
       DEF CloseUnregister, ReturnFromClose, dispVars, guestVars, joinVars
  <1>3. ASSUME NEW t \in Threads, CloseNotifyGuest(t) PROVE RoomInv'
    BY <1>3, GuestDomains, AllocatedIds
       DEF CloseNotifyGuest, ReturnFromClose, Sent, SendFailed, Msg, dispVars,
           guestVars, joinVars
  <1>4. ASSUME NEW i \in Ids, PumpReads(i) PROVE RoomInv'
    BY <1>4, GuestDomains, AllocatedIds
       DEF PumpReads, pumpFrame, dispVars, guestVars, joinVars
  <1>5. ASSUME NEW i \in Ids, PumpReadFails(i) PROVE RoomInv'
    BY <1>5, GuestDomains, AllocatedIds
       DEF PumpReadFails, pumpFrame, CallClose, dispVars, guestVars, joinVars
  <1>6. ASSUME NEW i \in Ids, PumpTakesPermit(i) PROVE RoomInv'
    BY <1>6, GuestDomains, AllocatedIds
       DEF PumpTakesPermit, pumpFrame, dispVars, guestVars, joinVars
  <1>7. ASSUME NEW i \in Ids, PumpSeesDone(i) PROVE RoomInv'
    BY <1>7, GuestDomains, AllocatedIds
       DEF PumpSeesDone, pumpFrame, dispVars, guestVars, joinVars
  <1>8. ASSUME NEW i \in Ids, PumpSends(i) PROVE RoomInv'
    BY <1>8, GuestDomains, AllocatedIds
       DEF PumpSends, pumpFrame, CallClose, Sent, Msg, dispVars, guestVars,
           joinVars
  <1>9. ASSUME NEW i \in Ids, PumpSendFails(i) PROVE RoomInv'
    BY <1>9, GuestDomains, AllocatedIds
       DEF PumpSendFails, pumpFrame, CallClose, SendFailed, dispVars,
           guestVars, joinVars
  <1>10. ASSUME NEW i \in Ids, DeviceEnds(i) PROVE RoomInv'
    BY <1>10, GuestDomains, AllocatedIds
       DEF DeviceEnds, ownerVars, dispVars, guestVars, joinVars
  <1>11. CASE dispatchJoinRoom
    <2>1. current'.arg1 \in (heard + 1)..session
      BY <1>11, ReceivesFromGuest, ReceivesMsg DEF dispatchJoinRoom, FromGuest
    <2>2. /\ heard' = current'.arg1 /\ asks' = asks \cup {heard'}
          /\ UNCHANGED <<stage, transport, toGuest, guest, session, nextId,
                         guestOf, born>>
      BY <1>11 DEF dispatchJoinRoom
    <2>3. Allocated' = Allocated /\ Allocated \subseteq Ids
      BY <2>2, AllocatedIds
    <2>4. heard' \in Nat /\ heard' =< session /\ heard < heard'
      BY <2>1, <2>2, GuestDomains
    <2>5. asks' \subseteq 1..heard'
      <3>1. asks \subseteq 1..heard /\ heard \in Nat
        BY GuestDomains
      <3>2. 1..heard \subseteq 1..heard' /\ heard' \in 1..heard'
        BY <2>4, <3>1
      <3>. QED  BY <2>2, <3>1, <3>2
    <2>6. \A i \in Allocated : guestOf[i] \in GuestIds /\ born[i] =< heard'
      BY <2>3, <2>4, GuestDomains
    <2>. QED  BY <2>2, <2>3, <2>4, <2>5, <2>6
  <1>12. CASE handleOpen
    BY <1>12, GuestDomains, AllocatedIds
       DEF handleOpen, Receives, dispVars, guestVars, joinVars
  <1>13. CASE OpenStreamRefused
    BY <1>13, GuestDomains, AllocatedIds
       DEF OpenStreamRefused, Sent, SendFailed, Msg, dispVars, guestVars,
           joinVars
  <1>14. CASE OpenStreamAccepted
    <2>1. /\ Allocated' = Allocated \cup {nextId + 1} /\ nextId + 1 \in Ids
          /\ nextId + 1 \notin Allocated /\ Allocated \subseteq Ids
      BY <1>14, AllocatedIds DEF OpenStreamAccepted
    <2>2. current.arg1 \in GuestIds
      BY <1>14 DEF OpenStreamAccepted, ToOwnerInv, FromGuest
    <2>3. /\ UNCHANGED <<stage, transport, guest, session, heard, asks>>
          /\ stage \in {"none", "gone"} => UNCHANGED toGuest
      BY <1>14 DEF OpenStreamAccepted, Sent, SendFailed, guestVars, joinVars
    <2>4. /\ guestOf' = [guestOf EXCEPT ![nextId + 1] = current.arg1]
          /\ born' = [born EXCEPT ![nextId + 1] = heard]
      BY <1>14 DEF OpenStreamAccepted
    <2>5. \A i \in Allocated' : guestOf'[i] \in GuestIds /\ born'[i] =< heard
      BY <2>1, <2>2, <2>4, GuestDomains
    <2>. QED  BY <2>1, <2>3, <2>5
  <1>15. CASE handleWrite
    BY <1>15, GuestDomains, AllocatedIds
       DEF handleWrite, Receives, dispVars, guestVars, joinVars
  <1>16. CASE handleWriteDevice
    BY <1>16, GuestDomains, AllocatedIds
       DEF handleWriteDevice, CallClose, dispVars, guestVars, joinVars
  <1>17. CASE handleWriteAck
    BY <1>17, GuestDomains, AllocatedIds
       DEF handleWriteAck, Sent, SendFailed, CallClose, Msg, dispVars,
           guestVars, joinVars
  <1>18. CASE handleOkay
    BY <1>18, GuestDomains, AllocatedIds
       DEF handleOkay, Receives, dispVars, guestVars, joinVars
  <1>19. CASE handleClose
    BY <1>19, GuestDomains, AllocatedIds
       DEF handleClose, Receives, CallClose, dispVars, guestVars, joinVars
  <1>20. CASE handleGuestLeft
    BY <1>20, GuestDomains, AllocatedIds
       DEF handleGuestLeft, Receives, dispVars, guestVars, joinVars
  <1>21. CASE DispatchEnds
    BY <1>21, GuestDomains, AllocatedIds
       DEF DispatchEnds, dispVars, guestVars, joinVars
  <1>22. CASE closeAllStreams
    BY <1>22, GuestDomains, AllocatedIds
       DEF closeAllStreams, CallClose, dispVars, guestVars, joinVars
  <1>23. CASE handleJoinRoom
    BY <1>23, GuestDomains, AllocatedIds
       DEF handleJoinRoom, ownerVars, JoinRequest, Msg, dispVars, guestVars,
           joinVars
  <1>24. ASSUME NEW s \in 1..MaxSessions, handleJoinRequest(s) PROVE RoomInv'
    BY <1>24, GuestDomains, AllocatedIds
       DEF handleJoinRequest, handleJoinRoomResponse, PlaceEmptied, roomFrame,
           ownerVars, NoStreams, NoStream, Sent, SendFailed, Accepted, Msg,
           dispVars, guestVars, joinVars
  <1>25. CASE handleClientDisconnected
    BY <1>25, GuestDomains, AllocatedIds
       DEF handleClientDisconnected, PlaceEmptied, roomFrame, ownerVars,
           NoStreams, NoStream, GuestLeftMsg, Msg, dispVars, guestVars,
           joinVars
  <1>26. CASE roomJoinStep
    BY <1>26, GuestDomains, AllocatedIds
       DEF roomJoinStep, GuestEnds, roomFrame, ownerVars, NoStreams, NoStream,
           dispVars, guestVars, joinVars
  <1>27. CASE GuestLeaves
    BY <1>27, GuestDomains, AllocatedIds
       DEF GuestLeaves, GuestEnds, roomFrame, ownerVars, NoStreams, NoStream,
           dispVars, guestVars, joinVars
  <1>28. CASE GuestConnects
    BY <1>28, GuestDomains, AllocatedIds
       DEF GuestConnects, roomFrame, ownerVars, dispVars, guestVars, joinVars
  <1>29. CASE GuestDisconnects
    BY <1>29, GuestDomains, AllocatedIds
       DEF GuestDisconnects, roomFrame, ownerVars, dispVars, guestVars,
           joinVars
  <1>30. CASE GuestDiscards
    BY <1>30, GuestDomains, AllocatedIds
       DEF GuestDiscards, ownerVars, dispVars, guestVars, joinVars
  <1>31. CASE GuestReceives
    BY <1>31, GuestDomains, AllocatedIds
       DEF GuestReceives, ownerVars, Matches, Msg, dispVars, guestVars,
           joinVars
  <1>32. ASSUME NEW g \in GuestIds, GuestOpens(g) PROVE RoomInv'
    BY <1>32, GuestDomains, AllocatedIds
       DEF GuestOpens, ownerVars, NoStream, Msg, dispVars, guestVars, joinVars
  <1>33. ASSUME NEW g \in GuestIds, GuestWrites(g) PROVE RoomInv'
    BY <1>33, GuestDomains, AllocatedIds
       DEF GuestWrites, ownerVars, Msg, dispVars, guestVars, joinVars
  <1>34. ASSUME NEW g \in GuestIds, GuestCloses(g) PROVE RoomInv'
    BY <1>34, GuestDomains, AllocatedIds
       DEF GuestCloses, ownerVars, Msg, dispVars, guestVars, joinVars
  <1>35. CASE TransportLost
    BY <1>35, GuestDomains, AllocatedIds
       DEF TransportLost, PlaceEmptied, ownerVars, NoStreams, NoStream,
           dispVars, guestVars, joinVars
  <1>36. CASE UNCHANGED vars
    BY <1>36, AllocatedIds DEF vars, dispVars, guestVars, joinVars
  <1>. QED
    BY <1>1, <1>2, <1>3, <1>4, <1>5, <1>6, <1>7, <1>8, <1>9, <1>10, <1>11,
       <1>12, <1>13, <1>14, <1>15, <1>16, <1>17, <1>18, <1>19, <1>20, <1>21,
       <1>22, <1>23, <1>24, <1>25, <1>26, <1>27, <1>28, <1>29, <1>30, <1>31,
       <1>32, <1>33, <1>34, <1>35, <1>36
       DEF Next, CloseNext, PumpNext, DispatchNext, RoomNext, GuestNext

\* What is on its way to the owner is what may be said to it.
LEMMA ToOwnerStep ==
    ASSUME TypeOK, CloseInv, StreamInv, MessageInv, JoinInv, [Next]_vars
    PROVE  ToOwnerInv'
  <1>. USE DEF ToOwnerInv
  <1>1. ASSUME NEW t \in Threads, CloseEnter(t) PROVE ToOwnerInv'
    BY <1>1, GuestDomains, AllocatedIds, ReceivesMsg, ReceivesFromGuest
       DEF CloseEnter, ReturnFromClose, dispVars, guestVars, joinVars,
           FromGuest, MessageInv
  <1>2. ASSUME NEW t \in Threads, CloseUnregister(t) PROVE ToOwnerInv'
    BY <1>2, GuestDomains, AllocatedIds, ReceivesMsg, ReceivesFromGuest
       DEF CloseUnregister, ReturnFromClose, dispVars, guestVars, joinVars,
           FromGuest, MessageInv
  <1>3. ASSUME NEW t \in Threads, CloseNotifyGuest(t) PROVE ToOwnerInv'
    BY <1>3, GuestDomains, AllocatedIds, ReceivesMsg, ReceivesFromGuest
       DEF CloseNotifyGuest, ReturnFromClose, Sent, SendFailed, Msg, dispVars,
           guestVars, joinVars, FromGuest, MessageInv
  <1>4. ASSUME NEW i \in Ids, PumpReads(i) PROVE ToOwnerInv'
    BY <1>4, GuestDomains, AllocatedIds, ReceivesMsg, ReceivesFromGuest
       DEF PumpReads, pumpFrame, dispVars, guestVars, joinVars, FromGuest,
           MessageInv
  <1>5. ASSUME NEW i \in Ids, PumpReadFails(i) PROVE ToOwnerInv'
    BY <1>5, GuestDomains, AllocatedIds, ReceivesMsg, ReceivesFromGuest
       DEF PumpReadFails, pumpFrame, CallClose, dispVars, guestVars, joinVars,
           FromGuest, MessageInv
  <1>6. ASSUME NEW i \in Ids, PumpTakesPermit(i) PROVE ToOwnerInv'
    BY <1>6, GuestDomains, AllocatedIds, ReceivesMsg, ReceivesFromGuest
       DEF PumpTakesPermit, pumpFrame, dispVars, guestVars, joinVars,
           FromGuest, MessageInv
  <1>7. ASSUME NEW i \in Ids, PumpSeesDone(i) PROVE ToOwnerInv'
    BY <1>7, GuestDomains, AllocatedIds, ReceivesMsg, ReceivesFromGuest
       DEF PumpSeesDone, pumpFrame, dispVars, guestVars, joinVars, FromGuest,
           MessageInv
  <1>8. ASSUME NEW i \in Ids, PumpSends(i) PROVE ToOwnerInv'
    BY <1>8, GuestDomains, AllocatedIds, ReceivesMsg, ReceivesFromGuest
       DEF PumpSends, pumpFrame, CallClose, Sent, Msg, dispVars, guestVars,
           joinVars, FromGuest, MessageInv
  <1>9. ASSUME NEW i \in Ids, PumpSendFails(i) PROVE ToOwnerInv'
    BY <1>9, GuestDomains, AllocatedIds, ReceivesMsg, ReceivesFromGuest
       DEF PumpSendFails, pumpFrame, CallClose, SendFailed, dispVars,
           guestVars, joinVars, FromGuest, MessageInv
  <1>10. ASSUME NEW i \in Ids, DeviceEnds(i) PROVE ToOwnerInv'
    BY <1>10, GuestDomains, AllocatedIds, ReceivesMsg, ReceivesFromGuest
       DEF DeviceEnds, ownerVars, dispVars, guestVars, joinVars, FromGuest,
           MessageInv
  <1>11. CASE dispatchJoinRoom
    <2>1. current'.arg1 \in (heard + 1)..session
      BY <1>11, ReceivesFromGuest, ReceivesMsg
         DEF dispatchJoinRoom, FromGuest, MessageInv
    <2>2. /\ heard' = current'.arg1 /\ disp' = "idle" /\ Allocated' = Allocated
          /\ UNCHANGED <<session, guestOf>>
      BY <1>11, AllocatedIds DEF dispatchJoinRoom, Receives
    <2>3. ASSUME NEW k \in DOMAIN toOwner', NEW m, m = toOwner'[k] PROVE FromGuest(m)'
      <3>1. /\ k \in Nat /\ 1 < k + 1 /\ k + 1 \in DOMAIN toOwner /\ toOwner'[k] = toOwner[k + 1]
            /\ 1 \in DOMAIN toOwner /\ toOwner[1].cmd = "JoinRequest" /\ toOwner[1] = current'
        BY <1>11, <2>3, ReceivesMsg, GuestDomains DEF dispatchJoinRoom
      <3>2. FromGuest(m)
        BY <2>3, <3>1 DEF MessageInv
      <3>3. m.cmd = "JoinRequest" => heard' < m.arg1
        BY <2>2, <2>3, <3>1 DEF JoinInv, RequestOrder
      <3>4. m.cmd = "JoinRequest" => m.arg1 \in (heard' + 1)..session
        <4>1. m.cmd = "JoinRequest" => m.arg1 \in (heard + 1)..session
          BY <3>2 DEF FromGuest
        <4>. QED  BY <2>1, <2>2, <3>3, <4>1, GuestDomains
      <3>. QED  BY <2>2, <3>2, <3>4 DEF FromGuest
    <2>. QED  BY <2>2, <2>3
  <1>12. CASE handleOpen
    BY <1>12, GuestDomains, AllocatedIds, ReceivesMsg, ReceivesFromGuest
       DEF handleOpen, Receives, dispVars, guestVars, joinVars, FromGuest,
           MessageInv
  <1>13. CASE OpenStreamRefused
    BY <1>13, GuestDomains, AllocatedIds, ReceivesMsg, ReceivesFromGuest
       DEF OpenStreamRefused, Sent, SendFailed, Msg, dispVars, guestVars,
           joinVars, FromGuest, MessageInv
  <1>14. CASE OpenStreamAccepted
    <2>1. /\ Allocated' = Allocated \cup {nextId + 1} /\ nextId + 1 \notin Allocated
          /\ Allocated \subseteq Ids
      BY <1>14, AllocatedIds DEF OpenStreamAccepted
    <2>2. /\ UNCHANGED <<toOwner, session, heard>> /\ disp' \in {"idle", "closing"}
          /\ \A i \in Allocated : guestOf'[i] = guestOf[i]
      BY <1>14, <2>1, GuestDomains DEF OpenStreamAccepted, guestVars, joinVars
    <2>. QED  BY <2>1, <2>2 DEF MessageInv, FromGuest
  <1>15. CASE handleWrite
    BY <1>15, GuestDomains, AllocatedIds, ReceivesMsg, ReceivesFromGuest
       DEF handleWrite, Receives, dispVars, guestVars, joinVars, FromGuest,
           MessageInv
  <1>16. CASE handleWriteDevice
    BY <1>16, GuestDomains, AllocatedIds, ReceivesMsg, ReceivesFromGuest
       DEF handleWriteDevice, CallClose, dispVars, guestVars, joinVars,
           FromGuest, MessageInv
  <1>17. CASE handleWriteAck
    BY <1>17, GuestDomains, AllocatedIds, ReceivesMsg, ReceivesFromGuest
       DEF handleWriteAck, Sent, SendFailed, CallClose, Msg, dispVars,
           guestVars, joinVars, FromGuest, MessageInv
  <1>18. CASE handleOkay
    BY <1>18, GuestDomains, AllocatedIds, ReceivesMsg, ReceivesFromGuest
       DEF handleOkay, Receives, dispVars, guestVars, joinVars, FromGuest,
           MessageInv
  <1>19. CASE handleClose
    BY <1>19, GuestDomains, AllocatedIds, ReceivesMsg, ReceivesFromGuest
       DEF handleClose, Receives, CallClose, dispVars, guestVars, joinVars,
           FromGuest, MessageInv
  <1>20. CASE handleGuestLeft
    BY <1>20, GuestDomains, AllocatedIds, ReceivesMsg, ReceivesFromGuest
       DEF handleGuestLeft, Receives, dispVars, guestVars, joinVars, FromGuest,
           MessageInv
  <1>21. CASE DispatchEnds
    BY <1>21, GuestDomains, AllocatedIds, ReceivesMsg, ReceivesFromGuest
       DEF DispatchEnds, dispVars, guestVars, joinVars, FromGuest, MessageInv
  <1>22. CASE closeAllStreams
    BY <1>22, GuestDomains, AllocatedIds, ReceivesMsg, ReceivesFromGuest
       DEF closeAllStreams, CallClose, dispVars, guestVars, joinVars,
           FromGuest, MessageInv
  <1>23. CASE handleJoinRoom
    <2>1. PICK m : m = JoinRequest(session + 1)
      OBVIOUS
    <2>2. session' = session + 1 /\ session' \in 1..MaxSessions /\ session \in Nat
      BY <1>23, GuestDomains, StreamBoundAssumption DEF handleJoinRoom
    <2>3. /\ toOwner' = Append(toOwner, m)
          /\ UNCHANGED <<nextId, guestOf, heard, disp, current>>
      BY <1>23, <2>1, <2>2 DEF handleJoinRoom, ownerVars, dispVars, joinVars
    <2>4. m \in GuestMsgs /\ m.cmd = "JoinRequest" /\ m.arg1 = session'
      BY <2>1, <2>2, JoinTypes
    <2>5. FromGuest(m)'
      BY <2>2, <2>3, <2>4, GuestDomains DEF FromGuest, MessageInv, RoomInv
    <2>. HIDE DEF ToOwnerInv, MessageInv, FromGuest
    <2>. QED  BY <2>2, <2>3, <2>4, <2>5, ToOwnerGrows DEF MessageInv
  <1>24. ASSUME NEW s \in 1..MaxSessions, handleJoinRequest(s) PROVE ToOwnerInv'
    BY <1>24, GuestDomains, AllocatedIds, ReceivesMsg, ReceivesFromGuest
       DEF handleJoinRequest, handleJoinRoomResponse, PlaceEmptied, roomFrame,
           ownerVars, NoStreams, NoStream, Sent, SendFailed, Accepted, Msg,
           dispVars, guestVars, joinVars, FromGuest, MessageInv
  <1>25. CASE handleClientDisconnected
    <2>1. PICK m : m = GuestLeftMsg
      OBVIOUS
    <2>2. m \in GuestMsgs /\ FromGuest(m)'
      BY <2>1, GuestLeftType DEF GuestLeftMsg, Msg, FromGuest
    <2>3. /\ toOwner' = Append(toOwner, m)
          /\ UNCHANGED <<nextId, guestOf, heard, session, disp, current>>
      BY <1>25, <2>1 DEF handleClientDisconnected, roomFrame, ownerVars, dispVars
    <2>4. session \in Nat
      BY GuestDomains
    <2>. HIDE DEF ToOwnerInv, MessageInv, FromGuest
    <2>. QED  BY <2>2, <2>3, <2>4, ToOwnerGrows DEF MessageInv
  <1>26. CASE roomJoinStep
    BY <1>26, GuestDomains, AllocatedIds, ReceivesMsg, ReceivesFromGuest
       DEF roomJoinStep, GuestEnds, roomFrame, ownerVars, NoStreams, NoStream,
           dispVars, guestVars, joinVars, FromGuest, MessageInv
  <1>27. CASE GuestLeaves
    BY <1>27, GuestDomains, AllocatedIds, ReceivesMsg, ReceivesFromGuest
       DEF GuestLeaves, GuestEnds, roomFrame, ownerVars, NoStreams, NoStream,
           dispVars, guestVars, joinVars, FromGuest, MessageInv
  <1>28. CASE GuestConnects
    BY <1>28, GuestDomains, AllocatedIds, ReceivesMsg, ReceivesFromGuest
       DEF GuestConnects, roomFrame, ownerVars, dispVars, guestVars, joinVars,
           FromGuest, MessageInv
  <1>29. CASE GuestDisconnects
    BY <1>29, GuestDomains, AllocatedIds, ReceivesMsg, ReceivesFromGuest
       DEF GuestDisconnects, roomFrame, ownerVars, dispVars, guestVars,
           joinVars, FromGuest, MessageInv
  <1>30. CASE GuestDiscards
    BY <1>30, GuestDomains, AllocatedIds, ReceivesMsg, ReceivesFromGuest
       DEF GuestDiscards, ownerVars, dispVars, guestVars, joinVars, FromGuest,
           MessageInv
  <1>31. CASE GuestReceives
    <2>1. PICK m \in OwnerMsgs : m = Head(toGuest)
      BY <1>31, HeadTailProperties, GuestDomains DEF GuestReceives
    <2>2. m.cmd # "Accepted" => m.arg2 \in GuestIds /\ m.arg1 \in Ids \cup {0}
      BY MsgArgs
    <2>3. UNCHANGED <<nextId, guestOf, session, heard, disp,
                      current>> /\ session \in Nat
      BY <1>31, GuestDomains DEF GuestReceives, ownerVars, dispVars, joinVars
    <2>4. CASE toOwner' = Append(toOwner, Msg("OKAY", m.arg2, m.arg1)) /\ Matches(m)
               /\ m.cmd = "WRTE"
      <3>1. m.arg1 \in Allocated
        BY <1>31, <2>2, <2>4 DEF GuestReceives, Matches, MessageInv, ToGuestInv
      <3>2. PICK r : r = Msg("OKAY", m.arg2, m.arg1)
        OBVIOUS
      <3>3. r \in GuestMsgs
        BY <2>2, <2>4, <3>2, GuestMsgType
      <3>4. r.cmd = "OKAY" /\ r.arg1 = m.arg2 /\ r.arg2 = m.arg1
        BY <3>2 DEF Msg
      <3>5. FromGuest(r)'
        BY <2>2, <2>3, <2>4, <3>1, <3>4, AllocatedIds DEF FromGuest
      <3>6. toOwner' = Append(toOwner, r)
        BY <2>4, <3>2
      <3>. HIDE DEF ToOwnerInv, MessageInv, FromGuest
      <3>. QED  BY <2>3, <3>3, <3>5, <3>6, ToOwnerGrows DEF MessageInv
    <2>5. CASE UNCHANGED toOwner
      <3>1. Allocated' = Allocated
        BY <2>3, AllocatedIds
      <3>. QED  BY <2>3, <2>5, <3>1 DEF FromGuest, MessageInv
    <2>. QED  BY <1>31, <2>1, <2>4, <2>5 DEF GuestReceives
  <1>32. ASSUME NEW g \in GuestIds, GuestOpens(g) PROVE ToOwnerInv'
    <2>1. PICK m : m = Msg("OPEN", g, 0)
      OBVIOUS
    <2>2. m \in GuestMsgs /\ FromGuest(m)
      BY <1>32, <2>1, GuestMsgType, GuestDomains
         DEF GuestOpens, Msg, FromGuest, MessageInv, ToGuestInv, TypeOK, GuestTypeOK
    <2>3. /\ toOwner' = Append(toOwner, m)
          /\ UNCHANGED <<nextId, guestOf, heard, session, disp, current>>
      BY <1>32, <2>1 DEF GuestOpens, ownerVars, dispVars, joinVars
    <2>4. FromGuest(m)'
      BY <2>2, <2>3, AllocatedIds DEF FromGuest
    <2>5. session \in Nat
      BY GuestDomains
    <2>. HIDE DEF ToOwnerInv, MessageInv, FromGuest
    <2>. QED  BY <2>2, <2>3, <2>4, <2>5, ToOwnerGrows DEF MessageInv
  <1>33. ASSUME NEW g \in GuestIds, GuestWrites(g) PROVE ToOwnerInv'
    <2>1. PICK m : m = Msg("WRTE", g, guest[g].peer)
      OBVIOUS
    <2>2. m \in GuestMsgs /\ FromGuest(m)
      BY <1>33, <2>1, GuestMsgType, GuestDomains
         DEF GuestWrites, Msg, FromGuest, MessageInv, ToGuestInv, TypeOK, GuestTypeOK
    <2>3. /\ toOwner' = Append(toOwner, m)
          /\ UNCHANGED <<nextId, guestOf, heard, session, disp, current>>
      BY <1>33, <2>1 DEF GuestWrites, ownerVars, dispVars, joinVars
    <2>4. FromGuest(m)'
      BY <2>2, <2>3, AllocatedIds DEF FromGuest
    <2>5. session \in Nat
      BY GuestDomains
    <2>. HIDE DEF ToOwnerInv, MessageInv, FromGuest
    <2>. QED  BY <2>2, <2>3, <2>4, <2>5, ToOwnerGrows DEF MessageInv
  <1>34. ASSUME NEW g \in GuestIds, GuestCloses(g) PROVE ToOwnerInv'
    <2>1. PICK m : m = Msg("CLSE", g, guest[g].peer)
      OBVIOUS
    <2>2. m \in GuestMsgs /\ FromGuest(m)
      BY <1>34, <2>1, GuestMsgType, GuestDomains
         DEF GuestCloses, Msg, FromGuest, MessageInv, ToGuestInv, TypeOK, GuestTypeOK
    <2>3. /\ toOwner' = Append(toOwner, m)
          /\ UNCHANGED <<nextId, guestOf, heard, session, disp, current>>
      BY <1>34, <2>1 DEF GuestCloses, ownerVars, dispVars, joinVars
    <2>4. FromGuest(m)'
      BY <2>2, <2>3, AllocatedIds DEF FromGuest
    <2>5. session \in Nat
      BY GuestDomains
    <2>. HIDE DEF ToOwnerInv, MessageInv, FromGuest
    <2>. QED  BY <2>2, <2>3, <2>4, <2>5, ToOwnerGrows DEF MessageInv
  <1>35. CASE TransportLost
    BY <1>35, GuestDomains, AllocatedIds, ReceivesMsg, ReceivesFromGuest
       DEF TransportLost, PlaceEmptied, ownerVars, NoStreams, NoStream,
           dispVars, guestVars, joinVars, FromGuest, MessageInv
  <1>36. CASE UNCHANGED vars
    BY <1>36, AllocatedIds
       DEF vars, dispVars, guestVars, joinVars, FromGuest, MessageInv
  <1>. QED
    BY <1>1, <1>2, <1>3, <1>4, <1>5, <1>6, <1>7, <1>8, <1>9, <1>10, <1>11,
       <1>12, <1>13, <1>14, <1>15, <1>16, <1>17, <1>18, <1>19, <1>20, <1>21,
       <1>22, <1>23, <1>24, <1>25, <1>26, <1>27, <1>28, <1>29, <1>30, <1>31,
       <1>32, <1>33, <1>34, <1>35, <1>36
       DEF Next, CloseNext, PumpNext, DispatchNext, RoomNext, GuestNext

\* What is on its way to the guest is what the owner may say.
LEMMA ToGuestStep ==
    ASSUME TypeOK, CloseInv, StreamInv, MessageInv, [Next]_vars
    PROVE  ToGuestInv'
  <1>. USE DEF ToGuestInv
  <1>1. ASSUME NEW t \in Threads, CloseEnter(t) PROVE ToGuestInv'
    BY <1>1, GuestDomains, AllocatedIds, SentMsg, OwnerMsgType, RefusalType
       DEF CloseEnter, ReturnFromClose, dispVars, guestVars, joinVars,
           FromOwner, MessageInv
  <1>2. ASSUME NEW t \in Threads, CloseUnregister(t) PROVE ToGuestInv'
    BY <1>2, GuestDomains, AllocatedIds, SentMsg, OwnerMsgType, RefusalType
       DEF CloseUnregister, ReturnFromClose, dispVars, guestVars, joinVars,
           FromOwner, MessageInv
  <1>3. ASSUME NEW t \in Threads, CloseNotifyGuest(t) PROVE ToGuestInv'
    <2>1. PICK m : m = Msg("CLSE", closeOf[t], guestOf[closeOf[t]])
      OBVIOUS
    <2>2. m \in OwnerMsgs /\ FromOwner(m)
      BY <1>3, <2>1, OwnerMsgType, AllocatedIds
         DEF CloseNotifyGuest, FromOwner, Msg, CloseInv, MessageInv, RoomInv
    <2>3. /\ UNCHANGED <<nextId, guestOf, guest, session, heard, asks, astray>>
          /\ Allocated' = Allocated
      BY <1>3, AllocatedIds DEF CloseNotifyGuest, guestVars, joinVars
    <2>4. FromOwner(m)'
      BY <2>2, <2>3 DEF FromOwner
    <2>5. CASE Sent(m)
      <3>. HIDE DEF ToGuestInv, MessageInv, FromOwner
      <3>. QED  BY <2>2, <2>3, <2>4, <2>5, ToGuestGrows DEF MessageInv
    <2>6. CASE UNCHANGED toGuest
      BY <2>3, <2>6 DEF FromOwner, MessageInv
    <2>. QED  BY <1>3, <2>1, <2>5, <2>6 DEF CloseNotifyGuest, SendFailed
  <1>4. ASSUME NEW i \in Ids, PumpReads(i) PROVE ToGuestInv'
    BY <1>4, GuestDomains, AllocatedIds, SentMsg, OwnerMsgType, RefusalType
       DEF PumpReads, pumpFrame, dispVars, guestVars, joinVars, FromOwner,
           MessageInv
  <1>5. ASSUME NEW i \in Ids, PumpReadFails(i) PROVE ToGuestInv'
    BY <1>5, GuestDomains, AllocatedIds, SentMsg, OwnerMsgType, RefusalType
       DEF PumpReadFails, pumpFrame, CallClose, dispVars, guestVars, joinVars,
           FromOwner, MessageInv
  <1>6. ASSUME NEW i \in Ids, PumpTakesPermit(i) PROVE ToGuestInv'
    BY <1>6, GuestDomains, AllocatedIds, SentMsg, OwnerMsgType, RefusalType
       DEF PumpTakesPermit, pumpFrame, dispVars, guestVars, joinVars,
           FromOwner, MessageInv
  <1>7. ASSUME NEW i \in Ids, PumpSeesDone(i) PROVE ToGuestInv'
    BY <1>7, GuestDomains, AllocatedIds, SentMsg, OwnerMsgType, RefusalType
       DEF PumpSeesDone, pumpFrame, dispVars, guestVars, joinVars, FromOwner,
           MessageInv
  <1>8. ASSUME NEW i \in Ids, PumpSends(i) PROVE ToGuestInv'
    <2>1. PICK m : m = Msg("WRTE", i, guestOf[i])
      OBVIOUS
    <2>2. m \in OwnerMsgs /\ FromOwner(m)
      BY <1>8, <2>1, OwnerMsgType, AllocatedIds
         DEF PumpSends, FromOwner, Msg, StreamInv, MessageInv, RoomInv
    <2>3. /\ UNCHANGED <<nextId, guestOf, guest, session, heard, asks, astray>>
          /\ Allocated' = Allocated
      BY <1>8, AllocatedIds DEF PumpSends, pumpFrame, guestVars, joinVars
    <2>4. FromOwner(m)'
      BY <2>2, <2>3 DEF FromOwner
    <2>5. CASE Sent(m)
      <3>. HIDE DEF ToGuestInv, MessageInv, FromOwner
      <3>. QED  BY <2>2, <2>3, <2>4, <2>5, ToGuestGrows DEF MessageInv
    <2>6. CASE UNCHANGED toGuest
      BY <2>3, <2>6 DEF FromOwner, MessageInv
    <2>. QED  BY <1>8, <2>1, <2>5, <2>6 DEF PumpSends, SendFailed
  <1>9. ASSUME NEW i \in Ids, PumpSendFails(i) PROVE ToGuestInv'
    BY <1>9, GuestDomains, AllocatedIds, SentMsg, OwnerMsgType, RefusalType
       DEF PumpSendFails, pumpFrame, CallClose, SendFailed, dispVars,
           guestVars, joinVars, FromOwner, MessageInv
  <1>10. ASSUME NEW i \in Ids, DeviceEnds(i) PROVE ToGuestInv'
    BY <1>10, GuestDomains, AllocatedIds, SentMsg, OwnerMsgType, RefusalType
       DEF DeviceEnds, ownerVars, dispVars, guestVars, joinVars, FromOwner,
           MessageInv
  <1>11. CASE dispatchJoinRoom
    <2>1. current'.arg1 \in (heard + 1)..session
      BY <1>11, ReceivesFromGuest, ReceivesMsg
         DEF dispatchJoinRoom, FromGuest, MessageInv
    <2>2. /\ heard' = current'.arg1 /\ asks' = asks \cup {heard'}
          /\ UNCHANGED <<toGuest, session, guest, nextId, guestOf, astray>>
      BY <1>11 DEF dispatchJoinRoom
    <2>3. Allocated' = Allocated
      BY <2>2, AllocatedIds
    <2>4. heard' \in Nat /\ heard < heard'
      BY <2>1, <2>2, GuestDomains
    <2>5. ASSUME NEW m \in OwnerMsgs, FromOwner(m) PROVE FromOwner(m)'
      <3>1. m.cmd = "Accepted" => m.arg1 \in Nat
        BY MsgArgs, StreamBoundAssumption
      <3>. QED  BY <2>2, <2>3, <2>4, <2>5, <3>1, GuestDomains DEF FromOwner
    <2>6. \A k \in DOMAIN toGuest : toGuest[k] \in OwnerMsgs
      BY GuestDomains
    <2>. HIDE DEF FromOwner
    <2>. QED  BY <2>2, <2>3, <2>5, <2>6 DEF MessageInv
  <1>12. CASE handleOpen
    BY <1>12, GuestDomains, AllocatedIds, SentMsg, OwnerMsgType, RefusalType
       DEF handleOpen, Receives, dispVars, guestVars, joinVars, FromOwner,
           MessageInv
  <1>13. CASE OpenStreamRefused
    <2>1. PICK m : m = Msg("CLSE", 0, current.arg1)
      OBVIOUS
    <2>2. m \in OwnerMsgs /\ FromOwner(m)
      BY <1>13, <2>1, RefusalType
         DEF OpenStreamRefused, FromOwner, Msg, MessageInv, ToOwnerInv, FromGuest
    <2>3. /\ UNCHANGED <<nextId, guestOf, guest, session, heard, asks, astray>>
          /\ Allocated' = Allocated
      BY <1>13, AllocatedIds DEF OpenStreamRefused, guestVars, joinVars
    <2>4. FromOwner(m)'
      BY <2>2, <2>3 DEF FromOwner
    <2>5. CASE Sent(m)
      <3>. HIDE DEF ToGuestInv, MessageInv, FromOwner
      <3>. QED  BY <2>2, <2>3, <2>4, <2>5, ToGuestGrows DEF MessageInv
    <2>6. CASE UNCHANGED toGuest
      BY <2>3, <2>6 DEF FromOwner, MessageInv
    <2>. QED  BY <1>13, <2>1, <2>5, <2>6 DEF OpenStreamRefused, SendFailed
  <1>14. CASE OpenStreamAccepted
    <2>1. PICK m : m = Msg("OKAY", nextId + 1, current.arg1)
      OBVIOUS
    <2>2. /\ Allocated' = Allocated \cup {nextId + 1} /\ nextId + 1 \in Ids
          /\ nextId + 1 \notin Allocated /\ current.arg1 \in GuestIds
          /\ Allocated \subseteq Ids
      BY <1>14, AllocatedIds
         DEF OpenStreamAccepted, FromGuest, MessageInv, ToOwnerInv
    <2>3. /\ m \in OwnerMsgs /\ m.cmd = "OKAY" /\ m.arg1 = nextId + 1
          /\ m.arg2 = current.arg1
      BY <2>1, <2>2, OwnerMsgType DEF Msg
    <2>4. /\ UNCHANGED <<guest, session, heard, asks, astray>>
          /\ guestOf' = [guestOf EXCEPT ![nextId + 1] = current.arg1]
          /\ \A i \in Allocated : i \in Allocated' /\ guestOf'[i] = guestOf[i]
      BY <1>14, <2>2, GuestDomains DEF OpenStreamAccepted, guestVars, joinVars
    <2>5. FromOwner(m)'
      BY <2>2, <2>3, <2>4, GuestDomains DEF FromOwner
    <2>6. CASE Sent(m)
      <3>. HIDE DEF ToGuestInv, MessageInv, FromOwner
      <3>. QED  BY <2>3, <2>4, <2>5, <2>6, ToGuestGrows DEF MessageInv
    <2>7. CASE UNCHANGED toGuest
      BY <2>2, <2>4, <2>7 DEF FromOwner, MessageInv
    <2>. QED  BY <1>14, <2>1, <2>6, <2>7 DEF OpenStreamAccepted, SendFailed
  <1>15. CASE handleWrite
    BY <1>15, GuestDomains, AllocatedIds, SentMsg, OwnerMsgType, RefusalType
       DEF handleWrite, Receives, dispVars, guestVars, joinVars, FromOwner,
           MessageInv
  <1>16. CASE handleWriteDevice
    BY <1>16, GuestDomains, AllocatedIds, SentMsg, OwnerMsgType, RefusalType
       DEF handleWriteDevice, CallClose, dispVars, guestVars, joinVars,
           FromOwner, MessageInv
  <1>17. CASE handleWriteAck
    <2>1. PICK m : m = Msg("OKAY", current.arg2, current.arg1)
      OBVIOUS
    <2>2. m \in OwnerMsgs /\ FromOwner(m)
      BY <1>17, <2>1, OwnerMsgType, AllocatedIds
         DEF handleWriteAck, FromOwner, Msg, MessageInv, ToOwnerInv, FromGuest
    <2>3. /\ UNCHANGED <<nextId, guestOf, guest, session, heard, asks, astray>>
          /\ Allocated' = Allocated
      BY <1>17, AllocatedIds DEF handleWriteAck, guestVars, joinVars
    <2>4. FromOwner(m)'
      BY <2>2, <2>3 DEF FromOwner
    <2>5. CASE Sent(m)
      <3>. HIDE DEF ToGuestInv, MessageInv, FromOwner
      <3>. QED  BY <2>2, <2>3, <2>4, <2>5, ToGuestGrows DEF MessageInv
    <2>6. CASE UNCHANGED toGuest
      BY <2>3, <2>6 DEF FromOwner, MessageInv
    <2>. QED  BY <1>17, <2>1, <2>5, <2>6 DEF handleWriteAck, SendFailed
  <1>18. CASE handleOkay
    BY <1>18, GuestDomains, AllocatedIds, SentMsg, OwnerMsgType, RefusalType
       DEF handleOkay, Receives, dispVars, guestVars, joinVars, FromOwner,
           MessageInv
  <1>19. CASE handleClose
    BY <1>19, GuestDomains, AllocatedIds, SentMsg, OwnerMsgType, RefusalType
       DEF handleClose, Receives, CallClose, dispVars, guestVars, joinVars,
           FromOwner, MessageInv
  <1>20. CASE handleGuestLeft
    BY <1>20, GuestDomains, AllocatedIds, SentMsg, OwnerMsgType, RefusalType
       DEF handleGuestLeft, Receives, dispVars, guestVars, joinVars, FromOwner,
           MessageInv
  <1>21. CASE DispatchEnds
    BY <1>21, GuestDomains, AllocatedIds, SentMsg, OwnerMsgType, RefusalType
       DEF DispatchEnds, dispVars, guestVars, joinVars, FromOwner, MessageInv
  <1>22. CASE closeAllStreams
    BY <1>22, GuestDomains, AllocatedIds, SentMsg, OwnerMsgType, RefusalType
       DEF closeAllStreams, CallClose, dispVars, guestVars, joinVars,
           FromOwner, MessageInv
  <1>23. CASE handleJoinRoom
    <2>1. toGuest' = <<>> /\ UNCHANGED <<guest, nextId, guestOf>>
      BY <1>23 DEF handleJoinRoom, ownerVars, MessageInv, RoomInv
    <2>2. Allocated' = Allocated
      BY <2>1, AllocatedIds
    <2>. QED  BY <2>1, <2>2 DEF MessageInv
  <1>24. ASSUME NEW s \in 1..MaxSessions, handleJoinRequest(s) PROVE ToGuestInv'
    <2>1. /\ Accepted(s) \in OwnerMsgs /\ Accepted(s).cmd = "Accepted"
          /\ Accepted(s).arg1 = s /\ s \in 1..heard
      BY <1>24, JoinTypes DEF handleJoinRequest, MessageInv, RoomInv
    <2>2. /\ UNCHANGED <<nextId, guestOf, session, heard>> /\ Allocated' = Allocated
          /\ asks' = asks \ {s}
      BY <1>24, AllocatedIds DEF handleJoinRequest, roomFrame, ownerVars
    <2>3. astray => astray'
      BY <1>24, Zenon DEF handleJoinRequest, handleJoinRoomResponse
    <2>4. CASE PlaceEmptied
      BY <2>2, <2>4 DEF PlaceEmptied, NoStreams, NoStream
    <2>5. CASE UNCHANGED <<toGuest, guest>>
      BY <2>2, <2>3, <2>5 DEF FromOwner, MessageInv
    <2>6. CASE Sent(Accepted(s)) /\ UNCHANGED guest /\ (s # session => astray')
      <3>1. FromOwner(Accepted(s))'
        BY <2>1, <2>2, <2>6, GuestDomains DEF FromOwner
      <3>. HIDE DEF ToGuestInv, MessageInv, FromOwner
      <3>. QED  BY <2>1, <2>2, <2>3, <2>6, <3>1, ToGuestGrows DEF MessageInv
    <2>. QED  BY <1>24, <2>4, <2>5, <2>6
              DEF handleJoinRequest, handleJoinRoomResponse, SendFailed
  <1>25. CASE handleClientDisconnected
    BY <1>25, GuestDomains, AllocatedIds, SentMsg, OwnerMsgType, RefusalType
       DEF handleClientDisconnected, PlaceEmptied, roomFrame, ownerVars,
           NoStreams, NoStream, GuestLeftMsg, Msg, dispVars, guestVars,
           joinVars, FromOwner, MessageInv
  <1>26. CASE roomJoinStep
    <2>1. /\ UNCHANGED <<nextId, guestOf, session, heard, asks, astray>>
          /\ Allocated' = Allocated
      BY <1>26, AllocatedIds DEF roomJoinStep, roomFrame, ownerVars
    <2>2. CASE GuestEnds
      BY <2>1, <2>2 DEF GuestEnds, NoStreams, NoStream
    <2>3. CASE toGuest # <<>> /\ toGuest' = Tail(toGuest) /\ UNCHANGED guest
      <3>1. \A k \in DOMAIN toGuest' :
               k + 1 \in DOMAIN toGuest /\ toGuest'[k] = toGuest[k + 1]
        BY <2>3, HeadTailProperties, GuestDomains
      <3>. QED  BY <2>1, <2>3, <3>1 DEF FromOwner, MessageInv
    <2>. QED  BY <1>26, <2>2, <2>3 DEF roomJoinStep
  <1>27. CASE GuestLeaves
    BY <1>27, GuestDomains, AllocatedIds, SentMsg, OwnerMsgType, RefusalType
       DEF GuestLeaves, GuestEnds, roomFrame, ownerVars, NoStreams, NoStream,
           dispVars, guestVars, joinVars, FromOwner, MessageInv
  <1>28. CASE GuestConnects
    BY <1>28, GuestDomains, AllocatedIds, SentMsg, OwnerMsgType, RefusalType
       DEF GuestConnects, roomFrame, ownerVars, dispVars, guestVars, joinVars,
           FromOwner, MessageInv
  <1>29. CASE GuestDisconnects
    BY <1>29, GuestDomains, AllocatedIds, SentMsg, OwnerMsgType, RefusalType
       DEF GuestDisconnects, roomFrame, ownerVars, dispVars, guestVars,
           joinVars, FromOwner, MessageInv
  <1>30. CASE GuestDiscards
    <2>1. /\ UNCHANGED <<nextId, guestOf, guest, session, heard, asks, astray>>
          /\ Allocated' = Allocated /\ toGuest # <<>> /\ toGuest' = Tail(toGuest)
      BY <1>30, AllocatedIds DEF GuestDiscards, ownerVars, guestVars, joinVars
    <2>2. \A k \in DOMAIN toGuest' :
             k + 1 \in DOMAIN toGuest /\ toGuest'[k] = toGuest[k + 1]
      BY <2>1, HeadTailProperties, GuestDomains
    <2>. QED  BY <2>1, <2>2 DEF FromOwner, MessageInv
  <1>31. CASE GuestReceives
    <2>1. PICK m \in OwnerMsgs : m = Head(toGuest) /\ FromOwner(m)
      BY <1>31, HeadTailProperties, GuestDomains DEF GuestReceives, MessageInv
    <2>2. m.cmd # "Accepted" => m.arg2 \in GuestIds /\ m.arg1 \in Ids \cup {0}
      BY MsgArgs
    <2>3. /\ UNCHANGED <<nextId, guestOf, session, heard, asks, astray>>
          /\ Allocated' = Allocated /\ toGuest # <<>> /\ toGuest' = Tail(toGuest)
      BY <1>31, AllocatedIds DEF GuestReceives, ownerVars, joinVars
    <2>4. \A k \in DOMAIN toGuest' :
             k + 1 \in DOMAIN toGuest /\ toGuest'[k] = toGuest[k + 1]
      BY <2>3, HeadTailProperties, GuestDomains
    <2>5. \/ UNCHANGED guest
          \/ /\ m.cmd # "Accepted"
             /\ \A g \in GuestIds : g # m.arg2 => guest'[g] = guest[g]
             /\ \/ guest'[m.arg2].state = guest[m.arg2].state /\ guest'[m.arg2].peer = guest[m.arg2].peer
                \/ guest'[m.arg2].state = "closed"
                \/ m.cmd = "OKAY" /\ guest'[m.arg2].peer = m.arg1
      BY <1>31, <2>1, <2>2, GuestDomains DEF GuestReceives, TypeOK, GuestTypeOK
    <2>6. \A g \in GuestIds : guest'[g].state = "open" =>
             guest'[g].peer \in Allocated /\ guestOf[guest'[g].peer] = g
      BY <2>1, <2>2, <2>5 DEF FromOwner, MessageInv
    <2>. QED  BY <2>3, <2>4, <2>6 DEF FromOwner, MessageInv
  <1>32. ASSUME NEW g \in GuestIds, GuestOpens(g) PROVE ToGuestInv'
    BY <1>32, GuestDomains, AllocatedIds, SentMsg, OwnerMsgType, RefusalType
       DEF GuestOpens, ownerVars, NoStream, Msg, dispVars, guestVars, joinVars,
           FromOwner, MessageInv
  <1>33. ASSUME NEW g \in GuestIds, GuestWrites(g) PROVE ToGuestInv'
    BY <1>33, GuestDomains, AllocatedIds, SentMsg, OwnerMsgType, RefusalType
       DEF GuestWrites, ownerVars, Msg, dispVars, guestVars, joinVars,
           FromOwner, MessageInv
  <1>34. ASSUME NEW g \in GuestIds, GuestCloses(g) PROVE ToGuestInv'
    BY <1>34, GuestDomains, AllocatedIds, SentMsg, OwnerMsgType, RefusalType
       DEF GuestCloses, ownerVars, Msg, dispVars, guestVars, joinVars,
           FromOwner, MessageInv
  <1>35. CASE TransportLost
    BY <1>35, GuestDomains, AllocatedIds, SentMsg, OwnerMsgType, RefusalType
       DEF TransportLost, PlaceEmptied, ownerVars, NoStreams, NoStream,
           dispVars, guestVars, joinVars, FromOwner, MessageInv
  <1>36. CASE UNCHANGED vars
    BY <1>36, AllocatedIds
       DEF vars, dispVars, guestVars, joinVars, FromOwner, MessageInv
  <1>. QED
    BY <1>1, <1>2, <1>3, <1>4, <1>5, <1>6, <1>7, <1>8, <1>9, <1>10, <1>11,
       <1>12, <1>13, <1>14, <1>15, <1>16, <1>17, <1>18, <1>19, <1>20, <1>21,
       <1>22, <1>23, <1>24, <1>25, <1>26, <1>27, <1>28, <1>29, <1>30, <1>31,
       <1>32, <1>33, <1>34, <1>35, <1>36
       DEF Next, CloseNext, PumpNext, DispatchNext, RoomNext, GuestNext

-----------------------------------------------------------------------------
(* Join requests, answers and who is let in *)

\* How the queue to the owner moves: it does not, the dispatcher receives, or
\* something is sent, a join request only by a guest that gets the place.
ToOwnerMoves ==
    \/ UNCHANGED toOwner
    \/ \E cmd : Receives(cmd)
    \/ \E m \in GuestMsgs :
          /\ toOwner' = Append(toOwner, m)
          /\ m.cmd = "JoinRequest"
               => m = JoinRequest(session + 1) /\ session' = session + 1

\* Every step moves it in one of these ways.
LEMMA ToOwnerMovesStep ==
    ASSUME TypeOK, MessageInv, [Next]_vars
    PROVE  ToOwnerMoves
  <1>1. ASSUME NEW t \in Threads, CloseEnter(t) PROVE ToOwnerMoves
    BY <1>1 DEF CloseEnter, ToOwnerMoves
  <1>2. ASSUME NEW t \in Threads, CloseUnregister(t) PROVE ToOwnerMoves
    BY <1>2 DEF CloseUnregister, ToOwnerMoves
  <1>3. ASSUME NEW t \in Threads, CloseNotifyGuest(t) PROVE ToOwnerMoves
    BY <1>3 DEF CloseNotifyGuest, ToOwnerMoves
  <1>4. ASSUME NEW i \in Ids, PumpReads(i) PROVE ToOwnerMoves
    BY <1>4 DEF PumpReads, pumpFrame, ToOwnerMoves
  <1>5. ASSUME NEW i \in Ids, PumpReadFails(i) PROVE ToOwnerMoves
    BY <1>5 DEF PumpReadFails, pumpFrame, ToOwnerMoves
  <1>6. ASSUME NEW i \in Ids, PumpTakesPermit(i) PROVE ToOwnerMoves
    BY <1>6 DEF PumpTakesPermit, pumpFrame, ToOwnerMoves
  <1>7. ASSUME NEW i \in Ids, PumpSeesDone(i) PROVE ToOwnerMoves
    BY <1>7 DEF PumpSeesDone, pumpFrame, ToOwnerMoves
  <1>8. ASSUME NEW i \in Ids, PumpSends(i) PROVE ToOwnerMoves
    BY <1>8 DEF PumpSends, pumpFrame, ToOwnerMoves
  <1>9. ASSUME NEW i \in Ids, PumpSendFails(i) PROVE ToOwnerMoves
    BY <1>9 DEF PumpSendFails, pumpFrame, ToOwnerMoves
  <1>10. ASSUME NEW i \in Ids, DeviceEnds(i) PROVE ToOwnerMoves
    BY <1>10 DEF DeviceEnds, ToOwnerMoves
  <1>11. CASE dispatchJoinRoom
    BY <1>11 DEF dispatchJoinRoom, ToOwnerMoves
  <1>12. CASE handleOpen
    BY <1>12 DEF handleOpen, ToOwnerMoves
  <1>13. CASE OpenStreamRefused
    BY <1>13 DEF OpenStreamRefused, ToOwnerMoves
  <1>14. CASE OpenStreamAccepted
    BY <1>14 DEF OpenStreamAccepted, ToOwnerMoves
  <1>15. CASE handleWrite
    BY <1>15 DEF handleWrite, ToOwnerMoves
  <1>16. CASE handleWriteDevice
    BY <1>16 DEF handleWriteDevice, ToOwnerMoves
  <1>17. CASE handleWriteAck
    BY <1>17 DEF handleWriteAck, ToOwnerMoves
  <1>18. CASE handleOkay
    BY <1>18 DEF handleOkay, ToOwnerMoves
  <1>19. CASE handleClose
    BY <1>19 DEF handleClose, ToOwnerMoves
  <1>20. CASE handleGuestLeft
    BY <1>20 DEF handleGuestLeft, ToOwnerMoves
  <1>21. CASE DispatchEnds
    BY <1>21 DEF DispatchEnds, ToOwnerMoves
  <1>22. CASE closeAllStreams
    BY <1>22 DEF closeAllStreams, ToOwnerMoves
  <1>23. CASE handleJoinRoom
    <2>1. session + 1 \in 1..MaxSessions
      BY <1>23, GuestDomains, StreamBoundAssumption DEF handleJoinRoom
    <2>. QED  BY <1>23, <2>1, JoinTypes DEF handleJoinRoom, ToOwnerMoves
  <1>24. ASSUME NEW s \in 1..MaxSessions, handleJoinRequest(s) PROVE ToOwnerMoves
    BY <1>24 DEF handleJoinRequest, ToOwnerMoves
  <1>25. CASE handleClientDisconnected
    <2>1. GuestLeftMsg.cmd # "JoinRequest"
      BY DEF GuestLeftMsg, Msg
    <2>. QED
      BY <1>25, <2>1, GuestLeftType DEF handleClientDisconnected, ToOwnerMoves
  <1>26. CASE roomJoinStep
    BY <1>26 DEF roomJoinStep, ToOwnerMoves
  <1>27. CASE GuestLeaves
    BY <1>27 DEF GuestLeaves, ToOwnerMoves
  <1>28. CASE GuestConnects
    BY <1>28 DEF GuestConnects, ToOwnerMoves
  <1>29. CASE GuestDisconnects
    BY <1>29 DEF GuestDisconnects, ToOwnerMoves
  <1>30. CASE GuestDiscards
    BY <1>30 DEF GuestDiscards, ToOwnerMoves
  <1>31. CASE GuestReceives
    <2>1. PICK m \in OwnerMsgs : m = Head(toGuest)
      BY <1>31, HeadTailProperties, GuestDomains DEF GuestReceives
    <2>2. m.cmd # "Accepted" => m.arg2 \in GuestIds /\ m.arg1 \in Ids \cup {0}
      BY MsgArgs
    <2>3. CASE toOwner' = Append(toOwner, Msg("OKAY", m.arg2, m.arg1)) /\ m.cmd = "WRTE"
      <3>1. PICK r : r = Msg("OKAY", m.arg2, m.arg1)
        OBVIOUS
      <3>2. r \in GuestMsgs /\ r.cmd # "JoinRequest"
        BY <2>2, <2>3, <3>1, GuestMsgType DEF Msg
      <3>. QED  BY <2>3, <3>1, <3>2 DEF ToOwnerMoves
    <2>4. CASE UNCHANGED toOwner
      BY <2>4 DEF ToOwnerMoves
    <2>. QED  BY <1>31, <2>1, <2>3, <2>4 DEF GuestReceives
  <1>32. ASSUME NEW g \in GuestIds, GuestOpens(g) PROVE ToOwnerMoves
    <2>1. PICK m : m = Msg("OPEN", g, 0)
      OBVIOUS
    <2>2. m \in GuestMsgs /\ m.cmd # "JoinRequest"
      BY <1>32, <2>1, GuestMsgType, GuestDomains
         DEF GuestOpens, Msg, MessageInv, ToGuestInv, TypeOK, GuestTypeOK
    <2>3. toOwner' = Append(toOwner, m)
      BY <1>32, <2>1 DEF GuestOpens
    <2>. QED  BY <2>2, <2>3 DEF ToOwnerMoves
  <1>33. ASSUME NEW g \in GuestIds, GuestWrites(g) PROVE ToOwnerMoves
    <2>1. PICK m : m = Msg("WRTE", g, guest[g].peer)
      OBVIOUS
    <2>2. m \in GuestMsgs /\ m.cmd # "JoinRequest"
      BY <1>33, <2>1, GuestMsgType, GuestDomains
         DEF GuestWrites, Msg, MessageInv, ToGuestInv, TypeOK, GuestTypeOK
    <2>3. toOwner' = Append(toOwner, m)
      BY <1>33, <2>1 DEF GuestWrites
    <2>. QED  BY <2>2, <2>3 DEF ToOwnerMoves
  <1>34. ASSUME NEW g \in GuestIds, GuestCloses(g) PROVE ToOwnerMoves
    <2>1. PICK m : m = Msg("CLSE", g, guest[g].peer)
      OBVIOUS
    <2>2. m \in GuestMsgs /\ m.cmd # "JoinRequest"
      BY <1>34, <2>1, GuestMsgType, GuestDomains
         DEF GuestCloses, Msg, MessageInv, ToGuestInv, TypeOK, GuestTypeOK
    <2>3. toOwner' = Append(toOwner, m)
      BY <1>34, <2>1 DEF GuestCloses
    <2>. QED  BY <2>2, <2>3 DEF ToOwnerMoves
  <1>35. CASE TransportLost
    BY <1>35 DEF TransportLost, ToOwnerMoves
  <1>36. CASE UNCHANGED vars
    BY <1>36 DEF vars, ToOwnerMoves
  <1>. QED
    BY <1>1, <1>2, <1>3, <1>4, <1>5, <1>6, <1>7, <1>8, <1>9, <1>10, <1>11,
       <1>12, <1>13, <1>14, <1>15, <1>16, <1>17, <1>18, <1>19, <1>20, <1>21,
       <1>22, <1>23, <1>24, <1>25, <1>26, <1>27, <1>28, <1>29, <1>30, <1>31,
       <1>32, <1>33, <1>34, <1>35, <1>36
       DEF Next, CloseNext, PumpNext, DispatchNext, RoomNext, GuestNext

\* Requests stay in the order of the sessions: the new one asks for a later
\* session than all before it.
LEMMA RequestOrderStep ==
    ASSUME TypeOK, MessageInv, RequestOrder, [Next]_vars
    PROVE  RequestOrder'
  <1>1. CASE UNCHANGED toOwner
    BY <1>1 DEF RequestOrder
  <1>2. ASSUME NEW cmd, Receives(cmd) PROVE RequestOrder'
    <2>1. /\ toOwner' \in Seq(GuestMsgs)
          /\ \A k \in DOMAIN toOwner' :
                k \in Nat /\ k + 1 \in DOMAIN toOwner /\ toOwner'[k] = toOwner[k + 1]
      BY <1>2, ReceivesMsg
    <2>2. \A j, k \in DOMAIN toOwner' : j < k => j + 1 < k + 1
      BY <2>1
    <2>. QED  BY <2>1, <2>2 DEF RequestOrder
  <1>3. ASSUME NEW m \in GuestMsgs, toOwner' = Append(toOwner, m),
               m.cmd = "JoinRequest" => m = JoinRequest(session + 1) /\ session' = session + 1
        PROVE  RequestOrder'
    <2>1. /\ DOMAIN toOwner = 1..Len(toOwner) /\ Len(toOwner) \in Nat
          /\ DOMAIN toOwner' = 1..(Len(toOwner) + 1)
          /\ toOwner'[Len(toOwner) + 1] = m
          /\ \A k \in DOMAIN toOwner : toOwner'[k] = toOwner[k]
      BY <1>3, AppendProperties, GuestDomains
    <2>2. ASSUME NEW j \in DOMAIN toOwner, toOwner[j].cmd = "JoinRequest", m.cmd = "JoinRequest"
          PROVE  toOwner[j].arg1 < m.arg1
      <3>1. toOwner[j].arg1 \in (heard + 1)..session
        BY <2>2 DEF MessageInv, ToOwnerInv, FromGuest
      <3>2. m.arg1 = session + 1
        BY <1>3, <2>2 DEF JoinRequest, Msg
      <3>. QED  BY <3>1, <3>2, GuestDomains
    <2>3. ASSUME NEW j \in DOMAIN toOwner', NEW k \in DOMAIN toOwner', j < k
          PROVE  j \in DOMAIN toOwner /\ (k \in DOMAIN toOwner \/ k = Len(toOwner) + 1)
      BY <2>1, <2>3
    <2>. QED  BY <2>1, <2>2, <2>3 DEF RequestOrder
  <1>. QED  BY <1>1, <1>2, <1>3, ToOwnerMovesStep DEF ToOwnerMoves

\* The last message of a queue, when the first is received ...
LEMMA LastReceived ==
    ASSUME TypeOK, NEW cmd, Receives(cmd)
    PROVE  \/ Len(toOwner) = 1 /\ toOwner' = <<>> /\ Last(toOwner) = current'
           \/ Len(toOwner) > 1 /\ toOwner' # <<>> /\ Last(toOwner') = Last(toOwner)
  <1>1. /\ toOwner' \in Seq(GuestMsgs) /\ toOwner \in Seq(GuestMsgs)
        /\ 1 \in DOMAIN toOwner /\ Len(toOwner') = Len(toOwner) - 1
        /\ current' = toOwner[1]
        /\ \A k \in DOMAIN toOwner' :
              k + 1 \in DOMAIN toOwner /\ toOwner'[k] = toOwner[k + 1]
    BY ReceivesMsg, GuestDomains
  <1>2. Len(toOwner) \in Nat /\ Len(toOwner) >= 1 /\ DOMAIN toOwner' = 1..(Len(toOwner) - 1)
    BY <1>1
  <1>3. CASE Len(toOwner) = 1
    BY <1>1, <1>2, <1>3, EmptySeq DEF Last
  <1>4. CASE Len(toOwner) > 1
    <2>1. /\ Len(toOwner') \in DOMAIN toOwner' /\ Len(toOwner') + 1 = Len(toOwner)
          /\ toOwner' # <<>>
      BY <1>1, <1>2, <1>4, EmptySeq
    <2>. QED  BY <1>1, <1>4, <2>1 DEF Last
  <1>5. Len(toOwner) = 1 \/ Len(toOwner) > 1
    <2>1. ASSUME NEW n \in Nat, n >= 1 PROVE n = 1 \/ n > 1
      BY <2>1
    <2>. QED  BY <1>2, <2>1
  <1>. QED  BY <1>3, <1>4, <1>5

\* ... and when one is sent.
LEMMA LastSent ==
    ASSUME TypeOK, NEW m \in GuestMsgs, toOwner' = Append(toOwner, m)
    PROVE  toOwner' # <<>> /\ Last(toOwner') = m
  <1>1. Len(toOwner') = Len(toOwner) + 1 /\ toOwner'[Len(toOwner) + 1] = m /\ Len(toOwner) \in Nat
    BY AppendProperties, GuestDomains
  <1>. QED  BY <1>1, EmptySeq DEF Last

\* The dispatcher's receiving anything but a request leaves a newcomer's alone.
LEMMA ArrivalReceived ==
    ASSUME TypeOK, MessageInv, ArrivalInv, NEW cmd, Receives(cmd), cmd # "JoinRequest",
           UNCHANGED <<stage, own, astray, session, heard, nextId, born>>
    PROVE  ArrivalInv'
  <1>1. Allocated' = Allocated
    BY AllocatedIds
  <1>2. current'.cmd = cmd /\ toOwner # <<>>
    BY ReceivesMsg DEF Receives
  <1>3. \/ Last(toOwner) # JoinRequest(session)
        \/ toOwner' # <<>> /\ Last(toOwner') = Last(toOwner)
    BY <1>2, LastReceived DEF JoinRequest, Msg
  <1>4. Newcomer' <=> Newcomer
    BY Zenon DEF Newcomer
  <1>5. heard < session \/ heard = session
    BY GuestDomains DEF MessageInv, RoomInv
  <1>. QED  BY <1>1, <1>2, <1>3, <1>4, <1>5 DEF ArrivalInv

\* A guest that has not been let in stays one that has sent nothing since.
LEMMA ArrivalStep ==
    ASSUME TypeOK, CloseInv, MessageInv, JoinInv, [Next]_vars
    PROVE  ArrivalInv'
  <1>. USE DEF ArrivalInv
  <1>1. ASSUME NEW t \in Threads, CloseEnter(t) PROVE ArrivalInv'
    <2>1. /\ UNCHANGED <<stage, own, astray, session, heard, nextId, born, toOwner>>
          /\ disp \in {"idle", "leaving", "returned"}
               => disp' \in {"idle", "leaving", "returned"}
      BY <1>1
         DEF CloseEnter, ReturnFromClose, CloseInv, dispVars, guestVars,
             joinVars, ownerVars
    <2>2. Newcomer' <=> Newcomer
      BY <2>1, Zenon DEF Newcomer
    <2>. QED  BY <2>1, <2>2, AllocatedIds DEF JoinInv
  <1>2. ASSUME NEW t \in Threads, CloseUnregister(t) PROVE ArrivalInv'
    <2>1. /\ UNCHANGED <<stage, own, astray, session, heard, nextId, born, toOwner>>
          /\ disp \in {"idle", "leaving", "returned"}
               => disp' \in {"idle", "leaving", "returned"}
      BY <1>2
         DEF CloseUnregister, ReturnFromClose, CloseInv, dispVars, guestVars,
             joinVars, ownerVars
    <2>2. Newcomer' <=> Newcomer
      BY <2>1, Zenon DEF Newcomer
    <2>. QED  BY <2>1, <2>2, AllocatedIds DEF JoinInv
  <1>3. ASSUME NEW t \in Threads, CloseNotifyGuest(t) PROVE ArrivalInv'
    <2>1. /\ UNCHANGED <<stage, own, astray, session, heard, nextId, born, toOwner>>
          /\ disp \in {"idle", "leaving", "returned"}
               => disp' \in {"idle", "leaving", "returned"}
      BY <1>3
         DEF CloseNotifyGuest, ReturnFromClose, CloseInv, dispVars, guestVars,
             joinVars, ownerVars
    <2>2. Newcomer' <=> Newcomer
      BY <2>1, Zenon DEF Newcomer
    <2>. QED  BY <2>1, <2>2, AllocatedIds DEF JoinInv
  <1>4. ASSUME NEW i \in Ids, PumpReads(i) PROVE ArrivalInv'
    <2>1. /\ UNCHANGED <<stage, own, astray, session, heard, nextId, born, toOwner>>
          /\ disp \in {"idle", "leaving", "returned"}
               => disp' \in {"idle", "leaving", "returned"}
      BY <1>4
         DEF PumpReads, pumpFrame, CloseInv, dispVars, guestVars, joinVars,
             ownerVars
    <2>2. Newcomer' <=> Newcomer
      BY <2>1, Zenon DEF Newcomer
    <2>. QED  BY <2>1, <2>2, AllocatedIds DEF JoinInv
  <1>5. ASSUME NEW i \in Ids, PumpReadFails(i) PROVE ArrivalInv'
    <2>1. /\ UNCHANGED <<stage, own, astray, session, heard, nextId, born, toOwner>>
          /\ disp \in {"idle", "leaving", "returned"}
               => disp' \in {"idle", "leaving", "returned"}
      BY <1>5
         DEF PumpReadFails, pumpFrame, CloseInv, dispVars, guestVars, joinVars,
             ownerVars
    <2>2. Newcomer' <=> Newcomer
      BY <2>1, Zenon DEF Newcomer
    <2>. QED  BY <2>1, <2>2, AllocatedIds DEF JoinInv
  <1>6. ASSUME NEW i \in Ids, PumpTakesPermit(i) PROVE ArrivalInv'
    <2>1. /\ UNCHANGED <<stage, own, astray, session, heard, nextId, born, toOwner>>
          /\ disp \in {"idle", "leaving", "returned"}
               => disp' \in {"idle", "leaving", "returned"}
      BY <1>6
         DEF PumpTakesPermit, pumpFrame, CloseInv, dispVars, guestVars,
             joinVars, ownerVars
    <2>2. Newcomer' <=> Newcomer
      BY <2>1, Zenon DEF Newcomer
    <2>. QED  BY <2>1, <2>2, AllocatedIds DEF JoinInv
  <1>7. ASSUME NEW i \in Ids, PumpSeesDone(i) PROVE ArrivalInv'
    <2>1. /\ UNCHANGED <<stage, own, astray, session, heard, nextId, born, toOwner>>
          /\ disp \in {"idle", "leaving", "returned"}
               => disp' \in {"idle", "leaving", "returned"}
      BY <1>7
         DEF PumpSeesDone, pumpFrame, CloseInv, dispVars, guestVars, joinVars,
             ownerVars
    <2>2. Newcomer' <=> Newcomer
      BY <2>1, Zenon DEF Newcomer
    <2>. QED  BY <2>1, <2>2, AllocatedIds DEF JoinInv
  <1>8. ASSUME NEW i \in Ids, PumpSends(i) PROVE ArrivalInv'
    <2>1. /\ UNCHANGED <<stage, own, astray, session, heard, nextId, born, toOwner>>
          /\ disp \in {"idle", "leaving", "returned"}
               => disp' \in {"idle", "leaving", "returned"}
      BY <1>8
         DEF PumpSends, pumpFrame, CloseInv, dispVars, guestVars, joinVars,
             ownerVars
    <2>2. Newcomer' <=> Newcomer
      BY <2>1, Zenon DEF Newcomer
    <2>. QED  BY <2>1, <2>2, AllocatedIds DEF JoinInv
  <1>9. ASSUME NEW i \in Ids, PumpSendFails(i) PROVE ArrivalInv'
    <2>1. /\ UNCHANGED <<stage, own, astray, session, heard, nextId, born, toOwner>>
          /\ disp \in {"idle", "leaving", "returned"}
               => disp' \in {"idle", "leaving", "returned"}
      BY <1>9
         DEF PumpSendFails, pumpFrame, CloseInv, dispVars, guestVars, joinVars,
             ownerVars
    <2>2. Newcomer' <=> Newcomer
      BY <2>1, Zenon DEF Newcomer
    <2>. QED  BY <2>1, <2>2, AllocatedIds DEF JoinInv
  <1>10. ASSUME NEW i \in Ids, DeviceEnds(i) PROVE ArrivalInv'
    <2>1. /\ UNCHANGED <<stage, own, astray, session, heard, nextId, born, toOwner>>
          /\ disp \in {"idle", "leaving", "returned"}
               => disp' \in {"idle", "leaving", "returned"}
      BY <1>10 DEF DeviceEnds, CloseInv, dispVars, guestVars, joinVars, ownerVars
    <2>2. Newcomer' <=> Newcomer
      BY <2>1, Zenon DEF Newcomer
    <2>. QED  BY <2>1, <2>2, AllocatedIds DEF JoinInv
  <1>11. CASE dispatchJoinRoom
    <2>1. /\ UNCHANGED <<stage, own, astray, session, nextId, born, disp>>
          /\ heard' = current'.arg1 /\ disp = "idle"
      BY <1>11 DEF dispatchJoinRoom, Receives
    <2>2. (Newcomer' <=> Newcomer) /\ Allocated' = Allocated
      BY <2>1, AllocatedIds, Zenon DEF Newcomer
    <2>3. current'.arg1 \in (heard + 1)..session
      BY <1>11, ReceivesFromGuest, ReceivesMsg
         DEF dispatchJoinRoom, FromGuest, MessageInv
    <2>4. CASE Len(toOwner) = 1 /\ toOwner' = <<>> /\ Last(toOwner) = current'
      <3>1. Newcomer => heard' = session
        BY <2>1, <2>3, <2>4, GuestDomains DEF JoinInv, JoinRequest, Msg
      <3>. QED  BY <2>1, <2>2, <2>4, <3>1, GuestDomains DEF JoinInv
    <2>5. CASE Len(toOwner) > 1 /\ toOwner' # <<>> /\ Last(toOwner') = Last(toOwner)
      <3>1. /\ toOwner[1] = current' /\ 1 \in DOMAIN toOwner /\ Len(toOwner) \in DOMAIN toOwner
            /\ toOwner[1].cmd = "JoinRequest" /\ 1 < Len(toOwner)
        BY <1>11, <2>5, ReceivesMsg, GuestDomains DEF dispatchJoinRoom
      <3>2. heard < session
        BY <2>3, GuestDomains
      <3>3. Newcomer => Last(toOwner) = JoinRequest(session)
        BY <3>2 DEF JoinInv
      <3>4. Newcomer => heard' < session
        BY <2>1, <3>1, <3>3 DEF JoinInv, RequestOrder, Last, JoinRequest, Msg
      <3>5. Newcomer => heard' # session
        BY <3>4, GuestDomains, <2>1, <2>3
      <3>. QED  BY <2>1, <2>2, <2>5, <3>3, <3>4, <3>5 DEF JoinInv
    <2>. QED  BY <1>11, <2>4, <2>5, LastReceived DEF dispatchJoinRoom
  <1>12. CASE handleOpen
    <2>1. Receives("OPEN") /\ UNCHANGED <<stage, own, astray, session, heard,
                                          nextId, born>>
      BY <1>12 DEF handleOpen, guestVars, joinVars
    <2>. HIDE DEF ArrivalInv
    <2>. QED  BY <2>1, ArrivalReceived DEF JoinInv
  <1>13. CASE OpenStreamRefused
    <2>1. /\ UNCHANGED <<stage, own, astray, session, heard, nextId, born, toOwner>>
          /\ disp \in {"idle", "leaving", "returned"}
               => disp' \in {"idle", "leaving", "returned"}
      BY <1>13
         DEF OpenStreamRefused, CloseInv, dispVars, guestVars, joinVars,
             ownerVars
    <2>2. Newcomer' <=> Newcomer
      BY <2>1, Zenon DEF Newcomer
    <2>. QED  BY <2>1, <2>2, AllocatedIds DEF JoinInv
  <1>14. CASE OpenStreamAccepted
    <2>1. /\ UNCHANGED <<stage, own, astray, session, heard,
                         toOwner>> /\ disp = "open"
          /\ born' = [born EXCEPT ![nextId + 1] = heard]
      BY <1>14 DEF OpenStreamAccepted, guestVars, joinVars
    <2>2. Newcomer' <=> Newcomer
      BY <2>1, Zenon DEF Newcomer
    <2>3. Newcomer => heard < session
      BY <2>1, GuestDomains DEF JoinInv, MessageInv, RoomInv
    <2>4. /\ Allocated' = Allocated \cup {nextId + 1} /\ nextId + 1 \notin Allocated
          /\ Allocated \subseteq Ids /\ nextId + 1 \in Ids
      BY <1>14, AllocatedIds DEF OpenStreamAccepted
    <2>5. Newcomer => \A i \in Allocated' : born'[i] < session
      BY <2>1, <2>3, <2>4, GuestDomains DEF JoinInv
    <2>6. Newcomer => heard # session
      BY <2>3, GuestDomains
    <2>. QED  BY <2>1, <2>2, <2>3, <2>5, <2>6 DEF JoinInv
  <1>15. CASE handleWrite
    <2>1. Receives("WRTE") /\ UNCHANGED <<stage, own, astray, session, heard,
                                          nextId, born>>
      BY <1>15 DEF handleWrite, guestVars, joinVars
    <2>. HIDE DEF ArrivalInv
    <2>. QED  BY <2>1, ArrivalReceived DEF JoinInv
  <1>16. CASE handleWriteDevice
    <2>1. /\ UNCHANGED <<stage, own, astray, session, heard, nextId, born, toOwner>>
          /\ disp \in {"idle", "leaving", "returned"}
               => disp' \in {"idle", "leaving", "returned"}
      BY <1>16
         DEF handleWriteDevice, CloseInv, dispVars, guestVars, joinVars,
             ownerVars
    <2>2. Newcomer' <=> Newcomer
      BY <2>1, Zenon DEF Newcomer
    <2>. QED  BY <2>1, <2>2, AllocatedIds DEF JoinInv
  <1>17. CASE handleWriteAck
    <2>1. /\ UNCHANGED <<stage, own, astray, session, heard, nextId, born, toOwner>>
          /\ disp \in {"idle", "leaving", "returned"}
               => disp' \in {"idle", "leaving", "returned"}
      BY <1>17
         DEF handleWriteAck, CloseInv, dispVars, guestVars, joinVars, ownerVars
    <2>2. Newcomer' <=> Newcomer
      BY <2>1, Zenon DEF Newcomer
    <2>. QED  BY <2>1, <2>2, AllocatedIds DEF JoinInv
  <1>18. CASE handleOkay
    <2>1. Receives("OKAY") /\ UNCHANGED <<stage, own, astray, session, heard,
                                          nextId, born>>
      BY <1>18 DEF handleOkay, guestVars, joinVars
    <2>. HIDE DEF ArrivalInv
    <2>. QED  BY <2>1, ArrivalReceived DEF JoinInv
  <1>19. CASE handleClose
    <2>1. Receives("CLSE") /\ UNCHANGED <<stage, own, astray, session, heard,
                                          nextId, born>>
      BY <1>19 DEF handleClose, guestVars, joinVars
    <2>. HIDE DEF ArrivalInv
    <2>. QED  BY <2>1, ArrivalReceived DEF JoinInv
  <1>20. CASE handleGuestLeft
    <2>1. Receives("GuestLeft") /\ UNCHANGED <<stage, own, astray, session,
                                               heard, nextId, born>>
      BY <1>20 DEF handleGuestLeft, guestVars, joinVars
    <2>. HIDE DEF ArrivalInv
    <2>. QED  BY <2>1, ArrivalReceived DEF JoinInv
  <1>21. CASE DispatchEnds
    <2>1. /\ UNCHANGED <<stage, own, astray, session, heard, nextId, born, toOwner>>
          /\ disp \in {"idle", "leaving", "returned"}
               => disp' \in {"idle", "leaving", "returned"}
      BY <1>21 DEF DispatchEnds, CloseInv, dispVars, guestVars, joinVars, ownerVars
    <2>2. Newcomer' <=> Newcomer
      BY <2>1, Zenon DEF Newcomer
    <2>. QED  BY <2>1, <2>2, AllocatedIds DEF JoinInv
  <1>22. CASE closeAllStreams
    <2>1. /\ UNCHANGED <<stage, own, astray, session, heard, nextId, born, toOwner>>
          /\ disp \in {"idle", "leaving", "returned"}
               => disp' \in {"idle", "leaving", "returned"}
      BY <1>22
         DEF closeAllStreams, CloseInv, dispVars, guestVars, joinVars,
             ownerVars
    <2>2. Newcomer' <=> Newcomer
      BY <2>1, Zenon DEF Newcomer
    <2>. QED  BY <2>1, <2>2, AllocatedIds DEF JoinInv
  <1>23. CASE handleJoinRoom
    <2>1. /\ stage = "none" /\ session' = session + 1
          /\ UNCHANGED <<own, heard, nextId, born>>
      BY <1>23 DEF handleJoinRoom, ownerVars, joinVars
    <2>2. own \in BOOLEAN /\ ~own
      BY <2>1 DEF JoinInv, OwnInv, TypeOK, GuestTypeOK
    <2>3. heard' < session' /\ heard' # session'
      BY <2>1, GuestDomains DEF MessageInv, RoomInv
    <2>4. Allocated' = Allocated /\ Allocated \subseteq Ids
      BY <2>1, AllocatedIds
    <2>5. \A i \in Allocated' : born'[i] < session'
      BY <2>1, <2>4, GuestDomains DEF MessageInv, RoomInv
    <2>6. JoinRequest(session') \in GuestMsgs
      BY <1>23, JoinTypes, GuestDomains, StreamBoundAssumption DEF handleJoinRoom
    <2>7. toOwner' # <<>> /\ Last(toOwner') = JoinRequest(session')
      BY <1>23, <2>6, LastSent DEF handleJoinRoom
    <2>. QED  BY <2>1, <2>2, <2>3, <2>5, <2>7
  <1>24. ASSUME NEW s \in 1..MaxSessions, handleJoinRequest(s) PROVE ArrivalInv'
    <2>1. Newcomer' => /\ Newcomer
                       /\ UNCHANGED <<own, session, heard, nextId, born,
                                      toOwner, disp>>
      BY <1>24
         DEF handleJoinRequest, handleJoinRoomResponse, PlaceEmptied, Newcomer,
               roomFrame, ownerVars, dispVars
    <2>. QED  BY <2>1, AllocatedIds DEF JoinInv
  <1>25. CASE handleClientDisconnected
    <2>1. ~Newcomer'
      BY <1>25 DEF Newcomer, handleClientDisconnected, PlaceEmptied
    <2>. QED  BY <2>1
  <1>26. CASE roomJoinStep
    <2>1. Newcomer' => /\ Newcomer
                       /\ UNCHANGED <<own, session, heard, nextId, born,
                                      toOwner, disp>>
      BY <1>26 DEF roomJoinStep, GuestEnds, Newcomer, roomFrame, ownerVars, dispVars
    <2>. QED  BY <2>1, AllocatedIds DEF JoinInv
  <1>27. CASE GuestLeaves
    <2>1. /\ UNCHANGED <<own, astray, session, heard, nextId, born, toOwner, disp>>
          /\ stage = "waiting" \/ Admitted
      BY <1>27 DEF GuestLeaves, roomFrame, ownerVars, dispVars, joinVars, Admitted
    <2>2. Newcomer' => Newcomer
      BY <1>27, <2>1 DEF GuestLeaves, GuestEnds, Newcomer, JoinInv, OwnInv
    <2>. QED  BY <2>1, <2>2, AllocatedIds DEF JoinInv
  <1>28. CASE GuestConnects
    <2>1. ~Newcomer'
      BY <1>28 DEF Newcomer, GuestConnects, guestVars
    <2>. QED  BY <2>1
  <1>29. CASE GuestDisconnects
    <2>1. ~Newcomer'
      BY <1>29 DEF Newcomer, GuestDisconnects, guestVars
    <2>. QED  BY <2>1
  <1>30. CASE GuestDiscards
    <2>1. ~Newcomer'
      BY <1>30 DEF Newcomer, GuestDiscards, guestVars
    <2>. QED  BY <2>1
  <1>31. CASE GuestReceives
    <2>1. ~Newcomer'
      BY <1>31 DEF Newcomer, GuestReceives, guestVars
    <2>. QED  BY <2>1
  <1>32. ASSUME NEW g \in GuestIds, GuestOpens(g) PROVE ArrivalInv'
    <2>1. ~Newcomer'
      BY <1>32 DEF Newcomer, GuestOpens, guestVars
    <2>. QED  BY <2>1
  <1>33. ASSUME NEW g \in GuestIds, GuestWrites(g) PROVE ArrivalInv'
    <2>1. ~Newcomer'
      BY <1>33 DEF Newcomer, GuestWrites, guestVars
    <2>. QED  BY <2>1
  <1>34. ASSUME NEW g \in GuestIds, GuestCloses(g) PROVE ArrivalInv'
    <2>1. ~Newcomer'
      BY <1>34 DEF Newcomer, GuestCloses, guestVars
    <2>. QED  BY <2>1
  <1>35. CASE TransportLost
    <2>1. ~Newcomer'
      BY <1>35 DEF Newcomer, TransportLost, PlaceEmptied
    <2>. QED  BY <2>1
  <1>36. CASE UNCHANGED vars
    <2>1. /\ UNCHANGED <<stage, own, astray, session, heard, nextId, born, toOwner>>
          /\ disp \in {"idle", "leaving", "returned"}
               => disp' \in {"idle", "leaving", "returned"}
      BY <1>36 DEF vars, CloseInv, dispVars, guestVars, joinVars, ownerVars
    <2>2. Newcomer' <=> Newcomer
      BY <2>1, Zenon DEF Newcomer
    <2>. QED  BY <2>1, <2>2, AllocatedIds DEF JoinInv
  <1>. HIDE DEF ArrivalInv
  <1>. QED
    BY <1>1, <1>2, <1>3, <1>4, <1>5, <1>6, <1>7, <1>8, <1>9, <1>10, <1>11,
       <1>12, <1>13, <1>14, <1>15, <1>16, <1>17, <1>18, <1>19, <1>20, <1>21,
       <1>22, <1>23, <1>24, <1>25, <1>26, <1>27, <1>28, <1>29, <1>30, <1>31,
       <1>32, <1>33, <1>34, <1>35, <1>36
       DEF Next, CloseNext, PumpNext, DispatchNext, RoomNext, GuestNext

\* What is sent to a guest, but for an acknowledgement, lets nobody in wrongly.
LEMMA OwnKept ==
    ASSUME TypeOK, OwnInv, UNCHANGED <<stage, own, heard, session>>,
                                       asks' \subseteq asks,
           astray => astray',
           UNCHANGED toGuest \/ \E m \in OwnerMsgs : m.cmd # "OKAY" /\ Sent(m)
    PROVE  OwnInv'
  <1>1. own' => stage' \in {"idle", "relaying", "gone"} /\ heard' = session' /\ session' \notin asks'
    BY Zenon DEF OwnInv
  <1>2. (Admitted /\ ~own => astray)'
    BY Zenon DEF OwnInv, Admitted
  <1>3. ASSUME stage = "waiting", toGuest' # <<>>, Head(toGuest') = Accepted(session),
               NEW k \in DOMAIN toGuest', NEW m \in OwnerMsgs, m.cmd # "OKAY", Sent(m)
        PROVE  toGuest'[k].cmd # "OKAY"
    <2>1. toGuest' = Append(toGuest, m) /\ toGuest \in Seq(OwnerMsgs)
      BY <1>3, GuestDomains DEF Sent
    <2>2. /\ DOMAIN toGuest' = 1..(Len(toGuest) + 1) /\ DOMAIN toGuest = 1..Len(toGuest)
          /\ toGuest'[Len(toGuest) + 1] = m /\ Len(toGuest) \in Nat
          /\ \A l \in DOMAIN toGuest : toGuest'[l] = toGuest[l]
      BY <2>1, AppendProperties
    <2>3. k = Len(toGuest) + 1 \/ k \in DOMAIN toGuest
      BY <2>2
    <2>4. CASE k \in DOMAIN toGuest
      <3>1. Len(toGuest) # 0 /\ 1 \in DOMAIN toGuest
        BY <2>2, <2>4
      <3>2. toGuest # <<>> /\ Head(toGuest) = toGuest[1]
        BY <2>1, <3>1, EmptySeq, HeadTailProperties
      <3>3. Head(toGuest') = toGuest'[1]
        BY <1>3, HeadTailProperties, SentMsg
      <3>. QED  BY <1>3, <2>2, <2>4, <3>1, <3>2, <3>3 DEF OwnInv
    <2>. QED  BY <1>3, <2>2, <2>3, <2>4
  <1>4. /\ stage' = "waiting" /\ toGuest' # <<>> /\ Head(toGuest') = Accepted(session') =>
              \A k \in DOMAIN toGuest' : toGuest'[k].cmd # "OKAY"
    BY <1>3 DEF OwnInv
  <1>. QED  BY <1>1, <1>2, <1>4 DEF OwnInv

\* No acknowledgement is sent while the own answer waits for the guest.
LEMMA OwnAcknowledged ==
    ASSUME TypeOK, MessageInv, JoinInv, disp \in {"open", "ack"},
           UNCHANGED <<stage, own, heard, session, asks, astray>>,
           NEW m \in OwnerMsgs, m.cmd = "OKAY", Sent(m)
    PROVE  OwnInv'
  <1>1. own' => stage' \in {"idle", "relaying", "gone"} /\ heard' = session' /\ session' \notin asks'
    BY Zenon DEF JoinInv, OwnInv
  <1>2. (Admitted /\ ~own => astray)'
    BY Zenon DEF JoinInv, OwnInv, Admitted
  <1>3. ASSUME stage = "waiting", toGuest' # <<>>, Head(toGuest') = Accepted(session)
        PROVE  FALSE
    <2>1. /\ toGuest' = Append(toGuest, m) /\ toGuest \in Seq(OwnerMsgs)
          /\ toGuest' \in Seq(OwnerMsgs)
      BY <1>3, SentMsg, GuestDomains DEF Sent
    <2>2. Accepted(session).cmd = "Accepted" /\ Accepted(session).arg1 = session
      BY DEF Accepted, Msg
    <2>3. Head(toGuest') = toGuest'[1]
      BY <1>3, <2>1, HeadTailProperties
    <2>4. toGuest # <<>>
      BY <1>3, <2>1, <2>2, <2>3
    <2>5. 1 \in DOMAIN toGuest /\ toGuest[1] = Accepted(session)
      BY <1>3, <2>1, <2>3, <2>4, EmptySeq, AppendProperties
    <2>6. session =< heard
      BY <2>2, <2>5 DEF MessageInv, ToGuestInv, FromOwner
    <2>7. heard = session
      BY <2>6, GuestDomains DEF MessageInv, RoomInv
    <2>. QED  BY <1>3, <2>7 DEF JoinInv, ArrivalInv, Newcomer
  <1>. QED  BY <1>1, <1>2, <1>3 DEF OwnInv

\* A guest is let in by its own answer or by one that went astray.
LEMMA OwnStep ==
    ASSUME TypeOK, CloseInv, StreamInv, MessageInv, JoinInv, [Next]_vars
    PROVE  OwnInv'
  <1>1. ASSUME NEW t \in Threads, CloseEnter(t) PROVE OwnInv'
    <2>1. /\ UNCHANGED <<stage, own, heard, session, astray>>
          /\ asks' \subseteq asks
      BY <1>1 DEF CloseEnter, guestVars, joinVars
    <2>2. UNCHANGED toGuest \/ \E m \in OwnerMsgs : m.cmd # "OKAY" /\ Sent(m)
      BY <1>1 DEF CloseEnter
    <2>. QED  BY <2>1, <2>2, OwnKept DEF JoinInv
  <1>2. ASSUME NEW t \in Threads, CloseUnregister(t) PROVE OwnInv'
    <2>1. /\ UNCHANGED <<stage, own, heard, session, astray>>
          /\ asks' \subseteq asks
      BY <1>2 DEF CloseUnregister, guestVars, joinVars
    <2>2. UNCHANGED toGuest \/ \E m \in OwnerMsgs : m.cmd # "OKAY" /\ Sent(m)
      BY <1>2 DEF CloseUnregister
    <2>. QED  BY <2>1, <2>2, OwnKept DEF JoinInv
  <1>3. ASSUME NEW t \in Threads, CloseNotifyGuest(t) PROVE OwnInv'
    <2>1. /\ UNCHANGED <<stage, own, heard, session, astray>>
          /\ asks' \subseteq asks
      BY <1>3 DEF CloseNotifyGuest, guestVars, joinVars
    <2>2. UNCHANGED toGuest \/ \E m \in OwnerMsgs : m.cmd # "OKAY" /\ Sent(m)
      BY <1>3, OwnerMsgType, AllocatedIds
         DEF CloseNotifyGuest, SendFailed, CloseInv, MessageInv, RoomInv, Msg
    <2>. QED  BY <2>1, <2>2, OwnKept DEF JoinInv
  <1>4. ASSUME NEW i \in Ids, PumpReads(i) PROVE OwnInv'
    <2>1. /\ UNCHANGED <<stage, own, heard, session, astray>>
          /\ asks' \subseteq asks
      BY <1>4 DEF PumpReads, pumpFrame, guestVars, joinVars
    <2>2. UNCHANGED toGuest \/ \E m \in OwnerMsgs : m.cmd # "OKAY" /\ Sent(m)
      BY <1>4 DEF PumpReads, pumpFrame, SendFailed
    <2>. QED  BY <2>1, <2>2, OwnKept DEF JoinInv
  <1>5. ASSUME NEW i \in Ids, PumpReadFails(i) PROVE OwnInv'
    <2>1. /\ UNCHANGED <<stage, own, heard, session, astray>>
          /\ asks' \subseteq asks
      BY <1>5 DEF PumpReadFails, pumpFrame, guestVars, joinVars
    <2>2. UNCHANGED toGuest \/ \E m \in OwnerMsgs : m.cmd # "OKAY" /\ Sent(m)
      BY <1>5 DEF PumpReadFails, pumpFrame, SendFailed
    <2>. QED  BY <2>1, <2>2, OwnKept DEF JoinInv
  <1>6. ASSUME NEW i \in Ids, PumpTakesPermit(i) PROVE OwnInv'
    <2>1. /\ UNCHANGED <<stage, own, heard, session, astray>>
          /\ asks' \subseteq asks
      BY <1>6 DEF PumpTakesPermit, pumpFrame, guestVars, joinVars
    <2>2. UNCHANGED toGuest \/ \E m \in OwnerMsgs : m.cmd # "OKAY" /\ Sent(m)
      BY <1>6 DEF PumpTakesPermit, pumpFrame, SendFailed
    <2>. QED  BY <2>1, <2>2, OwnKept DEF JoinInv
  <1>7. ASSUME NEW i \in Ids, PumpSeesDone(i) PROVE OwnInv'
    <2>1. /\ UNCHANGED <<stage, own, heard, session, astray>>
          /\ asks' \subseteq asks
      BY <1>7 DEF PumpSeesDone, pumpFrame, guestVars, joinVars
    <2>2. UNCHANGED toGuest \/ \E m \in OwnerMsgs : m.cmd # "OKAY" /\ Sent(m)
      BY <1>7 DEF PumpSeesDone, pumpFrame, SendFailed
    <2>. QED  BY <2>1, <2>2, OwnKept DEF JoinInv
  <1>8. ASSUME NEW i \in Ids, PumpSends(i) PROVE OwnInv'
    <2>1. /\ UNCHANGED <<stage, own, heard, session, astray>>
          /\ asks' \subseteq asks
      BY <1>8 DEF PumpSends, pumpFrame, guestVars, joinVars
    <2>2. UNCHANGED toGuest \/ \E m \in OwnerMsgs : m.cmd # "OKAY" /\ Sent(m)
      BY <1>8, OwnerMsgType, AllocatedIds
         DEF PumpSends, StreamInv, MessageInv, RoomInv, Msg
    <2>. QED  BY <2>1, <2>2, OwnKept DEF JoinInv
  <1>9. ASSUME NEW i \in Ids, PumpSendFails(i) PROVE OwnInv'
    <2>1. /\ UNCHANGED <<stage, own, heard, session, astray>>
          /\ asks' \subseteq asks
      BY <1>9 DEF PumpSendFails, pumpFrame, guestVars, joinVars
    <2>2. UNCHANGED toGuest \/ \E m \in OwnerMsgs : m.cmd # "OKAY" /\ Sent(m)
      BY <1>9 DEF PumpSendFails, pumpFrame, SendFailed
    <2>. QED  BY <2>1, <2>2, OwnKept DEF JoinInv
  <1>10. ASSUME NEW i \in Ids, DeviceEnds(i) PROVE OwnInv'
    <2>1. /\ UNCHANGED <<stage, own, heard, session, astray>>
          /\ asks' \subseteq asks
      BY <1>10 DEF DeviceEnds, guestVars, joinVars
    <2>2. UNCHANGED toGuest \/ \E m \in OwnerMsgs : m.cmd # "OKAY" /\ Sent(m)
      BY <1>10 DEF DeviceEnds
    <2>. QED  BY <2>1, <2>2, OwnKept DEF JoinInv
  <1>11. CASE dispatchJoinRoom
    <2>1. current'.arg1 \in (heard + 1)..session
      BY <1>11, ReceivesFromGuest, ReceivesMsg
         DEF dispatchJoinRoom, FromGuest, MessageInv
    <2>2. UNCHANGED <<stage, own, session, astray, toGuest>>
      BY <1>11 DEF dispatchJoinRoom
    <2>3. ~own /\ own \in BOOLEAN
      BY <2>1, GuestDomains DEF JoinInv, OwnInv, TypeOK, GuestTypeOK
    <2>4. Admitted' => astray'
      BY <2>2, <2>3, Zenon DEF JoinInv, OwnInv, Admitted
    <2>5. ~own'
      BY <2>2, <2>3
    <2>. QED  BY <2>2, <2>4, <2>5 DEF JoinInv, OwnInv
  <1>12. CASE handleOpen
    <2>1. /\ UNCHANGED <<stage, own, heard, session, astray>>
          /\ asks' \subseteq asks
      BY <1>12 DEF handleOpen, guestVars, joinVars
    <2>2. UNCHANGED toGuest \/ \E m \in OwnerMsgs : m.cmd # "OKAY" /\ Sent(m)
      BY <1>12 DEF handleOpen
    <2>. QED  BY <2>1, <2>2, OwnKept DEF JoinInv
  <1>13. CASE OpenStreamRefused
    <2>1. /\ UNCHANGED <<stage, own, heard, session, astray>>
          /\ asks' \subseteq asks
      BY <1>13 DEF OpenStreamRefused, guestVars, joinVars
    <2>2. UNCHANGED toGuest \/ \E m \in OwnerMsgs : m.cmd # "OKAY" /\ Sent(m)
      BY <1>13, RefusalType
         DEF OpenStreamRefused, SendFailed, MessageInv, ToOwnerInv, FromGuest, Msg
    <2>. QED  BY <2>1, <2>2, OwnKept DEF JoinInv
  <1>14. CASE OpenStreamAccepted
    <2>1. UNCHANGED <<stage, own, heard, session, asks,
                      astray>> /\ disp \in {"open", "ack"}
      BY <1>14 DEF OpenStreamAccepted, guestVars, joinVars
    <2>2. CASE UNCHANGED toGuest
      BY <2>1, <2>2, OwnKept DEF JoinInv
    <2>3. CASE Sent(Msg("OKAY", nextId + 1, current.arg1))
      <3>1. PICK m : m = Msg("OKAY", nextId + 1, current.arg1)
        OBVIOUS
      <3>2. m \in OwnerMsgs /\ m.cmd = "OKAY"
        BY <1>14, <3>1, OwnerMsgType, AllocatedIds
           DEF OpenStreamAccepted, MessageInv, ToOwnerInv, FromGuest, Msg
      <3>. QED  BY <2>1, <2>3, <3>1, <3>2, OwnAcknowledged
    <2>. QED  BY <1>14, <2>2, <2>3 DEF OpenStreamAccepted, SendFailed
  <1>15. CASE handleWrite
    <2>1. /\ UNCHANGED <<stage, own, heard, session, astray>>
          /\ asks' \subseteq asks
      BY <1>15 DEF handleWrite, guestVars, joinVars
    <2>2. UNCHANGED toGuest \/ \E m \in OwnerMsgs : m.cmd # "OKAY" /\ Sent(m)
      BY <1>15 DEF handleWrite
    <2>. QED  BY <2>1, <2>2, OwnKept DEF JoinInv
  <1>16. CASE handleWriteDevice
    <2>1. /\ UNCHANGED <<stage, own, heard, session, astray>>
          /\ asks' \subseteq asks
      BY <1>16 DEF handleWriteDevice, guestVars, joinVars
    <2>2. UNCHANGED toGuest \/ \E m \in OwnerMsgs : m.cmd # "OKAY" /\ Sent(m)
      BY <1>16 DEF handleWriteDevice
    <2>. QED  BY <2>1, <2>2, OwnKept DEF JoinInv
  <1>17. CASE handleWriteAck
    <2>1. UNCHANGED <<stage, own, heard, session, asks,
                      astray>> /\ disp \in {"open", "ack"}
      BY <1>17 DEF handleWriteAck, guestVars, joinVars
    <2>2. CASE UNCHANGED toGuest
      BY <2>1, <2>2, OwnKept DEF JoinInv
    <2>3. CASE Sent(Msg("OKAY", current.arg2, current.arg1))
      <3>1. PICK m : m = Msg("OKAY", current.arg2, current.arg1)
        OBVIOUS
      <3>2. m \in OwnerMsgs /\ m.cmd = "OKAY"
        BY <1>17, <3>1, OwnerMsgType, AllocatedIds
           DEF handleWriteAck, MessageInv, ToOwnerInv, FromGuest, Msg
      <3>. QED  BY <2>1, <2>3, <3>1, <3>2, OwnAcknowledged
    <2>. QED  BY <1>17, <2>2, <2>3 DEF handleWriteAck, SendFailed
  <1>18. CASE handleOkay
    <2>1. /\ UNCHANGED <<stage, own, heard, session, astray>>
          /\ asks' \subseteq asks
      BY <1>18 DEF handleOkay, guestVars, joinVars
    <2>2. UNCHANGED toGuest \/ \E m \in OwnerMsgs : m.cmd # "OKAY" /\ Sent(m)
      BY <1>18 DEF handleOkay
    <2>. QED  BY <2>1, <2>2, OwnKept DEF JoinInv
  <1>19. CASE handleClose
    <2>1. /\ UNCHANGED <<stage, own, heard, session, astray>>
          /\ asks' \subseteq asks
      BY <1>19 DEF handleClose, guestVars, joinVars
    <2>2. UNCHANGED toGuest \/ \E m \in OwnerMsgs : m.cmd # "OKAY" /\ Sent(m)
      BY <1>19 DEF handleClose
    <2>. QED  BY <2>1, <2>2, OwnKept DEF JoinInv
  <1>20. CASE handleGuestLeft
    <2>1. /\ UNCHANGED <<stage, own, heard, session, astray>>
          /\ asks' \subseteq asks
      BY <1>20 DEF handleGuestLeft, guestVars, joinVars
    <2>2. UNCHANGED toGuest \/ \E m \in OwnerMsgs : m.cmd # "OKAY" /\ Sent(m)
      BY <1>20 DEF handleGuestLeft
    <2>. QED  BY <2>1, <2>2, OwnKept DEF JoinInv
  <1>21. CASE DispatchEnds
    <2>1. /\ UNCHANGED <<stage, own, heard, session, astray>>
          /\ asks' \subseteq asks
      BY <1>21 DEF DispatchEnds, guestVars, joinVars
    <2>2. UNCHANGED toGuest \/ \E m \in OwnerMsgs : m.cmd # "OKAY" /\ Sent(m)
      BY <1>21 DEF DispatchEnds
    <2>. QED  BY <2>1, <2>2, OwnKept DEF JoinInv
  <1>22. CASE closeAllStreams
    <2>1. /\ UNCHANGED <<stage, own, heard, session, astray>>
          /\ asks' \subseteq asks
      BY <1>22 DEF closeAllStreams, guestVars, joinVars
    <2>2. UNCHANGED toGuest \/ \E m \in OwnerMsgs : m.cmd # "OKAY" /\ Sent(m)
      BY <1>22 DEF closeAllStreams
    <2>. QED  BY <2>1, <2>2, OwnKept DEF JoinInv
  <1>23. CASE handleJoinRoom
    <2>1. stage = "none" /\ stage' = "waiting" /\ UNCHANGED <<toGuest, own>>
      BY <1>23 DEF handleJoinRoom, joinVars
    <2>2. ~own
      BY <2>1 DEF JoinInv, OwnInv
    <2>3. ~own'
      BY <2>1, <2>2, Zenon
    <2>. QED  BY <2>1, <2>3 DEF OwnInv, Admitted, MessageInv, RoomInv
  <1>24. ASSUME NEW s \in 1..MaxSessions, handleJoinRequest(s) PROVE OwnInv'
    <2>1. CASE PlaceEmptied
      BY <2>1 DEF PlaceEmptied, OwnInv, Admitted
    <2>2. CASE ~PlaceEmptied
      <3>1. /\ UNCHANGED <<stage, own, heard, session>> /\ asks' \subseteq asks
            /\ UNCHANGED toGuest \/ Sent(Accepted(s))
        BY <1>24, <2>2
           DEF handleJoinRequest, handleJoinRoomResponse, roomFrame, SendFailed
      <3>2. astray => astray'
        BY <1>24, Zenon DEF handleJoinRequest, handleJoinRoomResponse
      <3>3. Accepted(s) \in OwnerMsgs /\ Accepted(s).cmd # "OKAY"
        BY JoinTypes
      <3>. QED  BY <3>1, <3>2, <3>3, OwnKept DEF JoinInv
    <2>. QED  BY <2>1, <2>2
  <1>25. CASE handleClientDisconnected
    <2>1. ~own' /\ ~Admitted' /\ stage' # "waiting"
      BY <1>25 DEF handleClientDisconnected, PlaceEmptied, Admitted
    <2>. QED  BY <2>1 DEF OwnInv
  <1>26. CASE roomJoinStep
    <2>1. UNCHANGED <<heard, session, asks,
                      astray>> /\ toGuest # <<>> /\ stage = "waiting"
      BY <1>26 DEF roomJoinStep, roomFrame
    <2>2. PICK m \in OwnerMsgs : m = Head(toGuest) /\ FromOwner(m)
      BY <2>1, HeadTailProperties, GuestDomains DEF MessageInv, ToGuestInv
    <2>3. CASE m.cmd = "Accepted" /\ stage' = "idle" /\ own' = (m = Accepted(session))
      <3>1. m = Accepted(m.arg1) /\ m.arg1 =< heard /\ m.arg1 \in Nat
        BY <2>2, <2>3, MsgArgs, StreamBoundAssumption DEF FromOwner
      <3>2. CASE m.arg1 = session
        <4>1. own' /\ session \notin asks
          BY <2>2, <2>3, <3>1, <3>2 DEF FromOwner
        <4>2. heard = session
          BY <3>1, <3>2, GuestDomains DEF MessageInv, RoomInv
        <4>. QED  BY <2>1, <2>3, <4>1, <4>2 DEF OwnInv
      <3>3. CASE m.arg1 # session
        <4>1. m # Accepted(session) /\ astray
          BY <2>2, <2>3, <3>3 DEF FromOwner, Accepted, Msg
        <4>2. ~own'
          BY <2>3, <4>1
        <4>3. astray'
          BY <2>1, <4>1
        <4>. QED  BY <2>3, <4>2, <4>3 DEF OwnInv
      <3>. QED  BY <3>2, <3>3
    <2>4. CASE stage' = "gone" /\ UNCHANGED own
      <3>1. ~own
        BY <2>1 DEF JoinInv, OwnInv
      <3>2. ~own'
        BY <2>4, <3>1, Zenon
      <3>. QED  BY <2>4, <3>2 DEF OwnInv, Admitted
    <2>. QED  BY <1>26, <2>2, <2>3, <2>4 DEF roomJoinStep, GuestEnds
  <1>27. CASE GuestLeaves
    <2>1. UNCHANGED <<own, heard, session, asks, astray>> /\ stage' = "gone"
      BY <1>27 DEF GuestLeaves, GuestEnds, roomFrame, joinVars
    <2>2. own' => heard' = session' /\ session' \notin asks'
      BY <2>1, Zenon DEF JoinInv, OwnInv
    <2>. QED  BY <2>1, <2>2 DEF OwnInv, Admitted
  <1>28. CASE GuestConnects
    <2>1. /\ UNCHANGED <<own, heard, session, asks, astray>>
          /\ stage \in {"idle", "relaying"} /\ stage' \in {"idle", "relaying"}
      BY <1>28 DEF GuestConnects, roomFrame, guestVars, joinVars
    <2>2. own' => heard' = session' /\ session' \notin asks'
      BY <2>1, Zenon DEF JoinInv, OwnInv
    <2>3. ~own' => astray'
      BY <2>1, Zenon DEF JoinInv, OwnInv, Admitted
    <2>. QED  BY <2>1, <2>2, <2>3 DEF OwnInv
  <1>29. CASE GuestDisconnects
    <2>1. /\ UNCHANGED <<own, heard, session, asks, astray>>
          /\ stage \in {"idle", "relaying"} /\ stage' \in {"idle", "relaying"}
      BY <1>29 DEF GuestDisconnects, roomFrame, guestVars, joinVars
    <2>2. own' => heard' = session' /\ session' \notin asks'
      BY <2>1, Zenon DEF JoinInv, OwnInv
    <2>3. ~own' => astray'
      BY <2>1, Zenon DEF JoinInv, OwnInv, Admitted
    <2>. QED  BY <2>1, <2>2, <2>3 DEF OwnInv
  <1>30. CASE GuestDiscards
    <2>1. /\ UNCHANGED <<own, heard, session, asks, astray>>
          /\ stage \in {"idle", "relaying"} /\ stage' \in {"idle", "relaying"}
      BY <1>30 DEF GuestDiscards, roomFrame, guestVars, joinVars
    <2>2. own' => heard' = session' /\ session' \notin asks'
      BY <2>1, Zenon DEF JoinInv, OwnInv
    <2>3. ~own' => astray'
      BY <2>1, Zenon DEF JoinInv, OwnInv, Admitted
    <2>. QED  BY <2>1, <2>2, <2>3 DEF OwnInv
  <1>31. CASE GuestReceives
    <2>1. /\ UNCHANGED <<own, heard, session, asks, astray>>
          /\ stage \in {"idle", "relaying"} /\ stage' \in {"idle", "relaying"}
      BY <1>31 DEF GuestReceives, roomFrame, guestVars, joinVars
    <2>2. own' => heard' = session' /\ session' \notin asks'
      BY <2>1, Zenon DEF JoinInv, OwnInv
    <2>3. ~own' => astray'
      BY <2>1, Zenon DEF JoinInv, OwnInv, Admitted
    <2>. QED  BY <2>1, <2>2, <2>3 DEF OwnInv
  <1>32. ASSUME NEW g \in GuestIds, GuestOpens(g) PROVE OwnInv'
    <2>1. /\ UNCHANGED <<stage, own, heard, session, astray>>
          /\ asks' \subseteq asks
      BY <1>32 DEF GuestOpens, guestVars, joinVars
    <2>2. UNCHANGED toGuest \/ \E m \in OwnerMsgs : m.cmd # "OKAY" /\ Sent(m)
      BY <1>32 DEF GuestOpens
    <2>. QED  BY <2>1, <2>2, OwnKept DEF JoinInv
  <1>33. ASSUME NEW g \in GuestIds, GuestWrites(g) PROVE OwnInv'
    <2>1. /\ UNCHANGED <<stage, own, heard, session, astray>>
          /\ asks' \subseteq asks
      BY <1>33 DEF GuestWrites, guestVars, joinVars
    <2>2. UNCHANGED toGuest \/ \E m \in OwnerMsgs : m.cmd # "OKAY" /\ Sent(m)
      BY <1>33 DEF GuestWrites
    <2>. QED  BY <2>1, <2>2, OwnKept DEF JoinInv
  <1>34. ASSUME NEW g \in GuestIds, GuestCloses(g) PROVE OwnInv'
    <2>1. /\ UNCHANGED <<stage, own, heard, session, astray>>
          /\ asks' \subseteq asks
      BY <1>34 DEF GuestCloses, guestVars, joinVars
    <2>2. UNCHANGED toGuest \/ \E m \in OwnerMsgs : m.cmd # "OKAY" /\ Sent(m)
      BY <1>34 DEF GuestCloses
    <2>. QED  BY <2>1, <2>2, OwnKept DEF JoinInv
  <1>35. CASE TransportLost
    <2>1. ~own' /\ ~Admitted' /\ stage' # "waiting"
      BY <1>35 DEF TransportLost, PlaceEmptied, Admitted
    <2>. QED  BY <2>1 DEF OwnInv
  <1>36. CASE UNCHANGED vars
    <2>1. UNCHANGED <<stage, own, heard, session, astray, toGuest, asks>>
      BY <1>36 DEF vars, guestVars, joinVars
    <2>. QED  BY <2>1, OwnKept DEF JoinInv
  <1>. QED
    BY <1>1, <1>2, <1>3, <1>4, <1>5, <1>6, <1>7, <1>8, <1>9, <1>10, <1>11,
       <1>12, <1>13, <1>14, <1>15, <1>16, <1>17, <1>18, <1>19, <1>20, <1>21,
       <1>22, <1>23, <1>24, <1>25, <1>26, <1>27, <1>28, <1>29, <1>30, <1>31,
       <1>32, <1>33, <1>34, <1>35, <1>36
       DEF Next, CloseNext, PumpNext, DispatchNext, RoomNext, GuestNext

\* All three together.
LEMMA JoinStep ==
    ASSUME TypeOK, CloseInv, StreamInv, MessageInv, JoinInv, [Next]_vars
    PROVE  JoinInv'
  BY RequestOrderStep, ArrivalStep, OwnStep DEF JoinInv

-----------------------------------------------------------------------------
(* What an earlier guest leaves behind *)

\* Steps that neither send nor receive, and open no stream for another guest.
LEMMA DepartureKept ==
    ASSUME TypeOK, DepartureInv, UNCHANGED <<heard, toOwner>>, astray => astray',
           Settled => Settled',
           \A i \in streams' :
              (i \in streams /\ born'[i] = born[i]) \/ born'[i] = heard,
           stage' = "none" /\ transport' /\ ~astray' =>
              (stage = "none" /\ transport) \/ (toOwner = <<>> /\ Settled),
           Newcomer' /\ heard = session' /\ ~astray' => Newcomer /\ heard = session
    PROVE  DepartureInv'
  <1>. SUFFICES ASSUME ~astray' PROVE DepartureInv'
    BY DEF DepartureInv
  <1>1. ~astray
    OBVIOUS
  <1>2. \A i \in streams' : born'[i] = heard'
    BY <1>1 DEF DepartureInv
  <1>3. \A k \in DOMAIN toOwner' : toOwner'[k].cmd = "JoinRequest" =>
           IF k = 1 THEN Settled' ELSE Between(toOwner'[k - 1])
    BY <1>1 DEF DepartureInv
  <1>4. stage' = "none" /\ transport' =>
           IF toOwner' = <<>> THEN Settled' ELSE Between(Last(toOwner'))
    BY <1>1 DEF DepartureInv
  <1>5. Newcomer' /\ heard' = session' => Settled'
    BY <1>1 DEF DepartureInv
  <1>. QED  BY <1>2, <1>3, <1>4, <1>5 DEF DepartureInv, Between

\* The dispatcher receives; only a departure or a request precedes a request.
LEMMA DepartureReceived ==
    ASSUME TypeOK, MessageInv, JoinInv, DepartureInv, NEW cmd, Receives(cmd),
           UNCHANGED <<stage, own, astray, transport, session, streams, born>>,
           cmd = "GuestLeft" => disp' = "closingAll",
           IF cmd = "JoinRequest" THEN disp' = disp ELSE UNCHANGED heard
    PROVE  DepartureInv'
  <1>. SUFFICES ASSUME ~astray' PROVE DepartureInv'
    BY DEF DepartureInv
  <1>1. ~astray /\ disp = "idle" /\ current'.cmd = cmd /\ toOwner # <<>>
    BY ReceivesMsg DEF Receives
  <1>2. /\ 1 \in DOMAIN toOwner /\ current' = toOwner[1]
        /\ toOwner' \in Seq(GuestMsgs) /\ toOwner \in Seq(GuestMsgs)
        /\ \A k \in DOMAIN toOwner' :
              k + 1 \in DOMAIN toOwner /\ toOwner'[k] = toOwner[k + 1]
    BY ReceivesMsg, GuestDomains
  <1>3. cmd = "JoinRequest" => Settled
    BY <1>1, <1>2 DEF DepartureInv
  <1>4. Between(current') => Settled'
    BY <1>1, <1>3 DEF Between, Settled
  <1>5. \A i \in streams' : born'[i] = heard'
    BY <1>1, <1>3 DEF DepartureInv, Settled
  <1>6. ASSUME NEW k \in DOMAIN toOwner', toOwner'[k].cmd = "JoinRequest"
        PROVE  IF k = 1 THEN Settled' ELSE Between(toOwner'[k - 1])
    <2>1. k \in Nat \ {0} /\ k + 1 # 1 /\ (k + 1) - 1 = k
      BY <1>2
    <2>2. Between(toOwner[k])
      BY <1>1, <1>2, <1>6, <2>1 DEF DepartureInv
    <2>3. CASE k = 1
      BY <1>2, <1>4, <2>2, <2>3
    <2>4. CASE k # 1
      <3>1. k - 1 \in DOMAIN toOwner' /\ (k - 1) + 1 = k
        BY <1>2, <1>6, <2>1, <2>4
      <3>2. toOwner'[k - 1] = toOwner[k]
        BY <1>2, <3>1
      <3>. QED  BY <2>2, <2>4, <3>2
    <2>. QED  BY <2>3, <2>4
  <1>7. ASSUME stage' = "none", transport'
        PROVE  IF toOwner' = <<>> THEN Settled' ELSE Between(Last(toOwner'))
    <2>1. Between(Last(toOwner))
      BY <1>1, <1>7 DEF DepartureInv
    <2>. QED  BY <1>4, <2>1, LastReceived
  <1>8. ASSUME Newcomer', heard' = session' PROVE Settled'
    <2>1. Newcomer
      BY <1>8, Zenon DEF Newcomer
    <2>2. cmd = "JoinRequest"
      BY <1>1, <1>8, <2>1 DEF JoinInv, ArrivalInv
    <2>. QED  BY <1>1, <1>4, <2>2 DEF Between
  <1>. QED  BY <1>5, <1>6, <1>7, <1>8 DEF DepartureInv, Between

\* A guest that has been let in sends something, or its departure is announced.
LEMMA DepartureSent ==
    ASSUME TypeOK, DepartureInv, NEW m \in GuestMsgs, toOwner' = Append(toOwner, m),
           m.cmd # "JoinRequest",
           UNCHANGED <<astray, disp, streams, born, heard>>,
           stage' = "none" => Between(m), ~Newcomer'
    PROVE  DepartureInv'
  <1>. SUFFICES ASSUME ~astray' PROVE DepartureInv'
    BY DEF DepartureInv
  <1>1. ~astray
    OBVIOUS
  <1>2. /\ toOwner' # <<>> /\ Last(toOwner') = m
        /\ \A k \in DOMAIN toOwner' :
              toOwner'[k] = m \/ (k \in DOMAIN toOwner /\ toOwner'[k] = toOwner[k])
        /\ \A k \in DOMAIN toOwner : k \in Nat /\ toOwner'[k] = toOwner[k]
    BY LastSent, AppendProperties, GuestDomains
  <1>3. \A k \in DOMAIN toOwner : k # 1 => k - 1 \in DOMAIN toOwner
    BY GuestDomains
  <1>4. Settled' <=> Settled
    BY DEF Settled
  <1>5. \A i \in streams' : born'[i] = heard'
    BY <1>1 DEF DepartureInv
  <1>6. \A k \in DOMAIN toOwner' : toOwner'[k].cmd = "JoinRequest" =>
           IF k = 1 THEN Settled' ELSE Between(toOwner'[k - 1])
    BY <1>1, <1>2, <1>4, <1>3 DEF DepartureInv
  <1>7. stage' = "none" => Between(Last(toOwner'))
    BY <1>2
  <1>. QED  BY <1>2, <1>5, <1>6, <1>7 DEF DepartureInv, Between

\* As long as no answer goes astray, what an earlier guest leaves is closed before
\* the next one's request is handled.
LEMMA DepartureStep ==
    ASSUME TypeOK, CloseInv, StreamInv, CloseAllInv, MessageInv, JoinInv,
           DepartureInv, [Next]_vars
    PROVE  DepartureInv'
  <1>1. ASSUME NEW t \in Threads, CloseEnter(t) PROVE DepartureInv'
    <2>1. /\ UNCHANGED <<stage, own, astray, transport, heard, session, toOwner,
                         born>>
          /\ streams' \subseteq streams
      BY <1>1
         DEF CloseEnter, ReturnFromClose, guestVars, joinVars, dispVars,
             ownerVars
    <2>2. Settled => Settled'
      BY <1>1
         DEF CloseEnter, ReturnFromClose, guestVars, joinVars, dispVars,
             ownerVars, Settled
    <2>3. Newcomer' <=> Newcomer
      BY <2>1, Zenon DEF Newcomer
    <2>. QED  BY <2>1, <2>2, <2>3, DepartureKept
  <1>2. ASSUME NEW t \in Threads, CloseUnregister(t) PROVE DepartureInv'
    <2>1. /\ UNCHANGED <<stage, own, astray, transport, heard, session, toOwner,
                         born>>
          /\ streams' \subseteq streams
      BY <1>2
         DEF CloseUnregister, ReturnFromClose, guestVars, joinVars, dispVars,
             ownerVars
    <2>2. Settled => Settled'
      BY <1>2
         DEF CloseUnregister, ReturnFromClose, guestVars, joinVars, dispVars,
             ownerVars, Settled
    <2>3. Newcomer' <=> Newcomer
      BY <2>1, Zenon DEF Newcomer
    <2>. QED  BY <2>1, <2>2, <2>3, DepartureKept
  <1>3. ASSUME NEW t \in Threads, CloseNotifyGuest(t) PROVE DepartureInv'
    <2>1. /\ UNCHANGED <<stage, own, astray, transport, heard, session, toOwner,
                         born>>
          /\ streams' \subseteq streams
      BY <1>3
         DEF CloseNotifyGuest, ReturnFromClose, guestVars, joinVars, dispVars,
             ownerVars
    <2>2. Settled => Settled'
      BY <1>3
         DEF CloseNotifyGuest, ReturnFromClose, guestVars, joinVars, dispVars,
             ownerVars, Settled
    <2>3. Newcomer' <=> Newcomer
      BY <2>1, Zenon DEF Newcomer
    <2>. QED  BY <2>1, <2>2, <2>3, DepartureKept
  <1>4. ASSUME NEW i \in Ids, PumpReads(i) PROVE DepartureInv'
    <2>1. /\ UNCHANGED <<stage, own, astray, transport, heard, session, toOwner,
                         born>>
          /\ streams' \subseteq streams
      BY <1>4 DEF PumpReads, pumpFrame, guestVars, joinVars, dispVars, ownerVars
    <2>2. Settled => Settled'
      BY <1>4
         DEF PumpReads, pumpFrame, guestVars, joinVars, dispVars, ownerVars,
             Settled
    <2>3. Newcomer' <=> Newcomer
      BY <2>1, Zenon DEF Newcomer
    <2>. QED  BY <2>1, <2>2, <2>3, DepartureKept
  <1>5. ASSUME NEW i \in Ids, PumpReadFails(i) PROVE DepartureInv'
    <2>1. /\ UNCHANGED <<stage, own, astray, transport, heard, session, toOwner,
                         born>>
          /\ streams' \subseteq streams
      BY <1>5 DEF PumpReadFails, pumpFrame, guestVars, joinVars, dispVars, ownerVars
    <2>2. Settled => Settled'
      BY <1>5
         DEF PumpReadFails, pumpFrame, guestVars, joinVars, dispVars,
             ownerVars, Settled
    <2>3. Newcomer' <=> Newcomer
      BY <2>1, Zenon DEF Newcomer
    <2>. QED  BY <2>1, <2>2, <2>3, DepartureKept
  <1>6. ASSUME NEW i \in Ids, PumpTakesPermit(i) PROVE DepartureInv'
    <2>1. /\ UNCHANGED <<stage, own, astray, transport, heard, session, toOwner,
                         born>>
          /\ streams' \subseteq streams
      BY <1>6
         DEF PumpTakesPermit, pumpFrame, guestVars, joinVars, dispVars,
             ownerVars
    <2>2. Settled => Settled'
      BY <1>6
         DEF PumpTakesPermit, pumpFrame, guestVars, joinVars, dispVars,
             ownerVars, Settled
    <2>3. Newcomer' <=> Newcomer
      BY <2>1, Zenon DEF Newcomer
    <2>. QED  BY <2>1, <2>2, <2>3, DepartureKept
  <1>7. ASSUME NEW i \in Ids, PumpSeesDone(i) PROVE DepartureInv'
    <2>1. /\ UNCHANGED <<stage, own, astray, transport, heard, session, toOwner,
                         born>>
          /\ streams' \subseteq streams
      BY <1>7 DEF PumpSeesDone, pumpFrame, guestVars, joinVars, dispVars, ownerVars
    <2>2. Settled => Settled'
      BY <1>7
         DEF PumpSeesDone, pumpFrame, guestVars, joinVars, dispVars, ownerVars,
             Settled
    <2>3. Newcomer' <=> Newcomer
      BY <2>1, Zenon DEF Newcomer
    <2>. QED  BY <2>1, <2>2, <2>3, DepartureKept
  <1>8. ASSUME NEW i \in Ids, PumpSends(i) PROVE DepartureInv'
    <2>1. /\ UNCHANGED <<stage, own, astray, transport, heard, session, toOwner,
                         born>>
          /\ streams' \subseteq streams
      BY <1>8 DEF PumpSends, pumpFrame, guestVars, joinVars, dispVars, ownerVars
    <2>2. Settled => Settled'
      BY <1>8
         DEF PumpSends, pumpFrame, guestVars, joinVars, dispVars, ownerVars,
             Settled
    <2>3. Newcomer' <=> Newcomer
      BY <2>1, Zenon DEF Newcomer
    <2>. QED  BY <2>1, <2>2, <2>3, DepartureKept
  <1>9. ASSUME NEW i \in Ids, PumpSendFails(i) PROVE DepartureInv'
    <2>1. /\ UNCHANGED <<stage, own, astray, transport, heard, session, toOwner,
                         born>>
          /\ streams' \subseteq streams
      BY <1>9 DEF PumpSendFails, pumpFrame, guestVars, joinVars, dispVars, ownerVars
    <2>2. Settled => Settled'
      BY <1>9
         DEF PumpSendFails, pumpFrame, guestVars, joinVars, dispVars,
             ownerVars, Settled
    <2>3. Newcomer' <=> Newcomer
      BY <2>1, Zenon DEF Newcomer
    <2>. QED  BY <2>1, <2>2, <2>3, DepartureKept
  <1>10. ASSUME NEW i \in Ids, DeviceEnds(i) PROVE DepartureInv'
    <2>1. /\ UNCHANGED <<stage, own, astray, transport, heard, session, toOwner,
                         born>>
          /\ streams' \subseteq streams
      BY <1>10 DEF DeviceEnds, guestVars, joinVars, dispVars, ownerVars
    <2>2. Settled => Settled'
      BY <1>10 DEF DeviceEnds, guestVars, joinVars, dispVars, ownerVars, Settled
    <2>3. Newcomer' <=> Newcomer
      BY <2>1, Zenon DEF Newcomer
    <2>. QED  BY <2>1, <2>2, <2>3, DepartureKept
  <1>11. CASE dispatchJoinRoom
    <2>1. /\ Receives("JoinRequest") /\ UNCHANGED <<stage, own, astray,
                                                    transport, session, streams,
                                                    born>>
          /\ disp' = disp
      BY <1>11 DEF dispatchJoinRoom, guestVars, joinVars
    <2>. QED  BY <2>1, DepartureReceived
  <1>12. CASE handleOpen
    <2>1. /\ Receives("OPEN") /\ UNCHANGED <<stage, own, astray, transport,
                                             session, streams, born>>
          /\ UNCHANGED heard
      BY <1>12 DEF handleOpen, guestVars, joinVars
    <2>. QED  BY <2>1, DepartureReceived
  <1>13. CASE OpenStreamRefused
    <2>1. /\ UNCHANGED <<stage, own, astray, transport, heard, session, toOwner,
                         born>>
          /\ streams' \subseteq streams
      BY <1>13 DEF OpenStreamRefused, guestVars, joinVars, dispVars, ownerVars
    <2>2. Settled => Settled'
      BY <1>13
         DEF OpenStreamRefused, guestVars, joinVars, dispVars, ownerVars,
             Settled
    <2>3. Newcomer' <=> Newcomer
      BY <2>1, Zenon DEF Newcomer
    <2>. QED  BY <2>1, <2>2, <2>3, DepartureKept
  <1>14. CASE OpenStreamAccepted
    <2>1. /\ UNCHANGED <<stage, own, astray, transport, heard, session, toOwner>>
          /\ born' = [born EXCEPT ![nextId + 1] = heard]
          /\ streams' = streams \cup {nextId + 1} /\ ~Settled
      BY <1>14 DEF OpenStreamAccepted, guestVars, joinVars, Settled
    <2>2. nextId + 1 \in Ids /\ nextId + 1 \notin streams /\ streams \subseteq Ids
      BY <1>14, AllocatedIds DEF OpenStreamAccepted, StreamInv
    <2>3. \A i \in streams' :
             (i \in streams /\ born'[i] = born[i]) \/ born'[i] = heard
      BY <2>1, <2>2, GuestDomains
    <2>4. Newcomer' <=> Newcomer
      BY <2>1, Zenon DEF Newcomer
    <2>. QED  BY <2>1, <2>3, <2>4, DepartureKept
  <1>15. CASE handleWrite
    <2>1. /\ Receives("WRTE") /\ UNCHANGED <<stage, own, astray, transport,
                                             session, streams, born>>
          /\ UNCHANGED heard
      BY <1>15 DEF handleWrite, guestVars, joinVars
    <2>. QED  BY <2>1, DepartureReceived
  <1>16. CASE handleWriteDevice
    <2>1. /\ UNCHANGED <<stage, own, astray, transport, heard, session, toOwner,
                         born>>
          /\ streams' \subseteq streams
      BY <1>16 DEF handleWriteDevice, guestVars, joinVars, dispVars, ownerVars
    <2>2. Settled => Settled'
      BY <1>16
         DEF handleWriteDevice, guestVars, joinVars, dispVars, ownerVars,
             Settled
    <2>3. Newcomer' <=> Newcomer
      BY <2>1, Zenon DEF Newcomer
    <2>. QED  BY <2>1, <2>2, <2>3, DepartureKept
  <1>17. CASE handleWriteAck
    <2>1. /\ UNCHANGED <<stage, own, astray, transport, heard, session, toOwner,
                         born>>
          /\ streams' \subseteq streams
      BY <1>17 DEF handleWriteAck, guestVars, joinVars, dispVars, ownerVars
    <2>2. Settled => Settled'
      BY <1>17 DEF handleWriteAck, guestVars, joinVars, dispVars, ownerVars, Settled
    <2>3. Newcomer' <=> Newcomer
      BY <2>1, Zenon DEF Newcomer
    <2>. QED  BY <2>1, <2>2, <2>3, DepartureKept
  <1>18. CASE handleOkay
    <2>1. /\ Receives("OKAY") /\ UNCHANGED <<stage, own, astray, transport,
                                             session, streams, born>>
          /\ UNCHANGED heard
      BY <1>18 DEF handleOkay, guestVars, joinVars
    <2>. QED  BY <2>1, DepartureReceived
  <1>19. CASE handleClose
    <2>1. /\ Receives("CLSE") /\ UNCHANGED <<stage, own, astray, transport,
                                             session, streams, born>>
          /\ UNCHANGED heard
      BY <1>19 DEF handleClose, guestVars, joinVars
    <2>. QED  BY <2>1, DepartureReceived
  <1>20. CASE handleGuestLeft
    <2>1. /\ Receives("GuestLeft") /\ UNCHANGED <<stage, own, astray, transport,
                                                  session, streams, born>>
          /\ UNCHANGED heard /\ disp' = "closingAll"
      BY <1>20 DEF handleGuestLeft, guestVars, joinVars
    <2>. QED  BY <2>1, DepartureReceived
  <1>21. CASE DispatchEnds
    <2>1. /\ UNCHANGED <<stage, own, astray, transport, heard, session, toOwner,
                         born>>
          /\ streams' \subseteq streams
      BY <1>21 DEF DispatchEnds, guestVars, joinVars, dispVars, ownerVars
    <2>2. Settled => Settled'
      BY <1>21 DEF DispatchEnds, guestVars, joinVars, dispVars, ownerVars, Settled
    <2>3. Newcomer' <=> Newcomer
      BY <2>1, Zenon DEF Newcomer
    <2>. QED  BY <2>1, <2>2, <2>3, DepartureKept
  <1>22. CASE closeAllStreams
    <2>1. /\ UNCHANGED <<stage, own, astray, transport, heard, session, toOwner,
                         born>>
          /\ streams' \subseteq streams
      BY <1>22 DEF closeAllStreams, guestVars, joinVars, dispVars, ownerVars
    <2>2. Settled => Settled'
      BY <1>22
         DEF closeAllStreams, guestVars, joinVars, dispVars, ownerVars,
             Settled, CloseAllInv
    <2>3. Newcomer' <=> Newcomer
      BY <2>1, Zenon DEF Newcomer
    <2>. QED  BY <2>1, <2>2, <2>3, DepartureKept
  <1>23. CASE handleJoinRoom
    <2>. SUFFICES ASSUME ~astray' PROVE DepartureInv'
      BY DEF DepartureInv
    <2>1. /\ stage = "none" /\ transport /\ session' = session + 1 /\ stage' = "waiting"
          /\ UNCHANGED <<disp, streams, born, heard>> /\ ~astray
      BY <1>23 DEF handleJoinRoom, ownerVars, dispVars, joinVars
    <2>2. PICK m : m = JoinRequest(session + 1)
      OBVIOUS
    <2>3. m \in GuestMsgs /\ toOwner' = Append(toOwner, m)
      BY <1>23, <2>1, <2>2, JoinTypes, GuestDomains, StreamBoundAssumption
         DEF handleJoinRoom
    <2>4. /\ DOMAIN toOwner' = 1..(Len(toOwner) + 1) /\ DOMAIN toOwner = 1..Len(toOwner)
          /\ Len(toOwner) \in Nat
          /\ \A k \in DOMAIN toOwner : toOwner'[k] = toOwner[k]
      BY <2>3, AppendProperties, GuestDomains
    <2>5. Settled' <=> Settled
      BY <2>1 DEF Settled
    <2>6. ASSUME NEW k \in DOMAIN toOwner', toOwner'[k].cmd = "JoinRequest"
          PROVE  IF k = 1 THEN Settled' ELSE Between(toOwner'[k - 1])
      <3>1. CASE k \in DOMAIN toOwner
        <4>1. k # 1 => k - 1 \in DOMAIN toOwner
          BY <2>4, <3>1
        <4>. QED  BY <2>1, <2>4, <2>5, <2>6, <3>1, <4>1 DEF DepartureInv
      <3>2. CASE k = Len(toOwner) + 1 /\ Len(toOwner) = 0
        <4>1. toOwner = <<>>
          BY <3>2, EmptySeq, GuestDomains
        <4>. QED  BY <2>1, <2>5, <3>2, <4>1 DEF DepartureInv
      <3>3. CASE k = Len(toOwner) + 1 /\ Len(toOwner) # 0
        <4>1. toOwner # <<>>
          BY <3>3
        <4>2. Between(Last(toOwner))
          BY <2>1, <4>1 DEF DepartureInv
        <4>3. k # 1 /\ k - 1 = Len(toOwner) /\ Len(toOwner) \in DOMAIN toOwner
          BY <2>4, <3>3
        <4>. QED  BY <2>4, <4>2, <4>3 DEF Last
      <3>. QED  BY <2>4, <2>6, <3>1, <3>2, <3>3
    <2>7. heard' # session'
      BY <2>1, GuestDomains DEF MessageInv, RoomInv
    <2>8. \A i \in streams' : born'[i] = heard'
      BY <2>1 DEF DepartureInv
    <2>. QED  BY <2>1, <2>6, <2>7, <2>8 DEF DepartureInv, Between
  <1>24. ASSUME NEW s \in 1..MaxSessions, handleJoinRequest(s) PROVE DepartureInv'
    <2>1. /\ UNCHANGED <<toOwner, heard, disp, streams, born, transport, session>>
          /\ s \in asks /\ s \in 1..heard
      BY <1>24
         DEF handleJoinRequest, roomFrame, ownerVars, dispVars, MessageInv,
             RoomInv
    <2>2. astray => astray'
      BY <1>24, Zenon DEF handleJoinRequest, handleJoinRoomResponse
    <2>3. Settled => Settled'
      BY <2>1 DEF Settled
    <2>4. Newcomer' => Newcomer
      BY <1>24, <2>2
         DEF handleJoinRequest, handleJoinRoomResponse, PlaceEmptied, Newcomer
    <2>5. ASSUME stage' = "none", stage # "none", ~astray' PROVE toOwner = <<>> /\ Settled
      <3>1. ~astray /\ s = session
        BY <1>24, <2>2, <2>5
           DEF handleJoinRequest, handleJoinRoomResponse, SendFailed
      <3>2. heard = session /\ ~own
        BY <2>1, <3>1, GuestDomains DEF MessageInv, RoomInv, JoinInv, OwnInv
      <3>3. Newcomer
        BY <2>5, <3>1, <3>2
           DEF JoinInv, OwnInv, Newcomer, Admitted, TypeOK, GuestTypeOK
      <3>. QED  BY <3>1, <3>2, <3>3 DEF JoinInv, ArrivalInv, DepartureInv
    <2>. QED  BY <2>1, <2>2, <2>3, <2>4, <2>5, DepartureKept
  <1>25. CASE handleClientDisconnected
    <2>1. PICK m : m = GuestLeftMsg
      OBVIOUS
    <2>2. m \in GuestMsgs /\ m.cmd # "JoinRequest" /\ Between(m)
      BY <2>1, GuestLeftType DEF GuestLeftMsg, Msg, Between
    <2>3. /\ toOwner' = Append(toOwner, m) /\ ~Newcomer'
          /\ UNCHANGED <<astray, disp, streams, born, heard>>
      BY <1>25, <2>1
         DEF handleClientDisconnected, PlaceEmptied, Newcomer, roomFrame,
                     ownerVars, dispVars
    <2>. QED  BY <2>2, <2>3, DepartureSent
  <1>26. CASE roomJoinStep
    <2>1. UNCHANGED <<toOwner, heard, disp, streams, born, astray>>
      BY <1>26 DEF roomJoinStep, roomFrame, ownerVars, dispVars, guestVars, joinVars
    <2>2. /\ stage' # "none" \/ ~transport'
          /\ Newcomer' /\ ~astray' => Newcomer /\ UNCHANGED session
      BY <1>26, <2>1
         DEF roomJoinStep, GuestEnds, roomFrame, guestVars, Newcomer
    <2>3. Settled => Settled'
      BY <2>1 DEF Settled
    <2>. QED  BY <2>1, <2>2, <2>3, DepartureKept
  <1>27. CASE GuestLeaves
    <2>1. UNCHANGED <<toOwner, heard, disp, streams, born, astray>>
      BY <1>27 DEF GuestLeaves, roomFrame, ownerVars, dispVars, guestVars, joinVars
    <2>2. /\ stage' # "none" \/ ~transport'
          /\ Newcomer' /\ ~astray' => Newcomer /\ UNCHANGED session
      BY <1>27, <2>1
         DEF GuestLeaves, GuestEnds, joinVars, JoinInv, OwnInv, Admitted, roomFrame,
             guestVars, Newcomer
    <2>3. Settled => Settled'
      BY <2>1 DEF Settled
    <2>. QED  BY <2>1, <2>2, <2>3, DepartureKept
  <1>28. CASE GuestConnects
    <2>1. UNCHANGED <<toOwner, heard, disp, streams, born, astray>>
      BY <1>28
         DEF GuestConnects, roomFrame, ownerVars, dispVars, guestVars, joinVars
    <2>2. /\ stage' # "none" \/ ~transport'
          /\ Newcomer' /\ ~astray' => Newcomer /\ UNCHANGED session
      BY <1>28, <2>1
         DEF GuestConnects, roomFrame, guestVars, Newcomer
    <2>3. Settled => Settled'
      BY <2>1 DEF Settled
    <2>. QED  BY <2>1, <2>2, <2>3, DepartureKept
  <1>29. CASE GuestDisconnects
    <2>1. UNCHANGED <<toOwner, heard, disp, streams, born, astray>>
      BY <1>29
         DEF GuestDisconnects, roomFrame, ownerVars, dispVars, guestVars,
             joinVars
    <2>2. /\ stage' # "none" \/ ~transport'
          /\ Newcomer' /\ ~astray' => Newcomer /\ UNCHANGED session
      BY <1>29, <2>1
         DEF GuestDisconnects, roomFrame, guestVars, Newcomer
    <2>3. Settled => Settled'
      BY <2>1 DEF Settled
    <2>. QED  BY <2>1, <2>2, <2>3, DepartureKept
  <1>30. CASE GuestDiscards
    <2>1. UNCHANGED <<toOwner, heard, disp, streams, born, astray>>
      BY <1>30
         DEF GuestDiscards, roomFrame, ownerVars, dispVars, guestVars, joinVars
    <2>2. /\ stage' # "none" \/ ~transport'
          /\ Newcomer' /\ ~astray' => Newcomer /\ UNCHANGED session
      BY <1>30, <2>1
         DEF GuestDiscards, roomFrame, guestVars, Newcomer
    <2>3. Settled => Settled'
      BY <2>1 DEF Settled
    <2>. QED  BY <2>1, <2>2, <2>3, DepartureKept
  <1>31. CASE GuestReceives
    <2>1. PICK m \in OwnerMsgs : m = Head(toGuest)
      BY <1>31, HeadTailProperties, GuestDomains DEF GuestReceives
    <2>2. m.cmd # "Accepted" => m.arg2 \in GuestIds /\ m.arg1 \in Ids \cup {0}
      BY MsgArgs
    <2>3. stage' = "relaying" /\ UNCHANGED <<astray, disp, streams, born, heard>>
      BY <1>31 DEF GuestReceives, ownerVars, dispVars, joinVars
    <2>4. ~Newcomer'
      BY <2>3 DEF Newcomer
    <2>5. CASE toOwner' = Append(toOwner, Msg("OKAY", m.arg2, m.arg1)) /\ m.cmd = "WRTE"
      <3>1. PICK r : r = Msg("OKAY", m.arg2, m.arg1)
        OBVIOUS
      <3>2. r \in GuestMsgs /\ r.cmd # "JoinRequest"
        BY <2>2, <2>5, <3>1, GuestMsgType DEF Msg
      <3>. QED  BY <2>3, <2>4, <2>5, <3>1, <3>2, DepartureSent
    <2>6. CASE UNCHANGED toOwner
      <3>1. Settled => Settled'
        BY <2>3 DEF Settled
      <3>. QED  BY <2>3, <2>4, <2>6, <3>1, DepartureKept
    <2>. QED  BY <1>31, <2>1, <2>5, <2>6 DEF GuestReceives
  <1>32. ASSUME NEW g \in GuestIds, GuestOpens(g) PROVE DepartureInv'
    <2>1. PICK m : m = Msg("OPEN", g, 0)
      OBVIOUS
    <2>2. m \in GuestMsgs /\ m.cmd # "JoinRequest"
      BY <1>32, <2>1, GuestMsgType, GuestDomains
         DEF GuestOpens, Msg, MessageInv, ToGuestInv, TypeOK, GuestTypeOK
    <2>3. /\ toOwner' = Append(toOwner, m) /\ stage' = "relaying"
          /\ UNCHANGED <<astray, disp, streams, born, heard>>
      BY <1>32, <2>1 DEF GuestOpens, ownerVars, dispVars, joinVars
    <2>4. ~Newcomer'
      BY <2>3 DEF Newcomer
    <2>. QED  BY <2>2, <2>3, <2>4, DepartureSent
  <1>33. ASSUME NEW g \in GuestIds, GuestWrites(g) PROVE DepartureInv'
    <2>1. PICK m : m = Msg("WRTE", g, guest[g].peer)
      OBVIOUS
    <2>2. m \in GuestMsgs /\ m.cmd # "JoinRequest"
      BY <1>33, <2>1, GuestMsgType, GuestDomains
         DEF GuestWrites, Msg, MessageInv, ToGuestInv, TypeOK, GuestTypeOK
    <2>3. /\ toOwner' = Append(toOwner, m) /\ stage' = "relaying"
          /\ UNCHANGED <<astray, disp, streams, born, heard>>
      BY <1>33, <2>1 DEF GuestWrites, ownerVars, dispVars, joinVars
    <2>4. ~Newcomer'
      BY <2>3 DEF Newcomer
    <2>. QED  BY <2>2, <2>3, <2>4, DepartureSent
  <1>34. ASSUME NEW g \in GuestIds, GuestCloses(g) PROVE DepartureInv'
    <2>1. PICK m : m = Msg("CLSE", g, guest[g].peer)
      OBVIOUS
    <2>2. m \in GuestMsgs /\ m.cmd # "JoinRequest"
      BY <1>34, <2>1, GuestMsgType, GuestDomains
         DEF GuestCloses, Msg, MessageInv, ToGuestInv, TypeOK, GuestTypeOK
    <2>3. /\ toOwner' = Append(toOwner, m) /\ stage' = "relaying"
          /\ UNCHANGED <<astray, disp, streams, born, heard>>
      BY <1>34, <2>1 DEF GuestCloses, ownerVars, dispVars, joinVars
    <2>4. ~Newcomer'
      BY <2>3 DEF Newcomer
    <2>. QED  BY <2>2, <2>3, <2>4, DepartureSent
  <1>35. CASE TransportLost
    <2>1. UNCHANGED <<toOwner, heard, disp, streams, born, astray>>
      BY <1>35
         DEF TransportLost, roomFrame, ownerVars, dispVars, guestVars, joinVars
    <2>2. /\ stage' # "none" \/ ~transport'
          /\ Newcomer' /\ ~astray' => Newcomer /\ UNCHANGED session
      BY <1>35, <2>1
         DEF TransportLost, PlaceEmptied, roomFrame, guestVars, Newcomer
    <2>3. Settled => Settled'
      BY <2>1 DEF Settled
    <2>. QED  BY <2>1, <2>2, <2>3, DepartureKept
  <1>36. CASE UNCHANGED vars
    <2>1. /\ UNCHANGED <<stage, own, astray, transport, heard, session, toOwner,
                         born>>
          /\ streams' \subseteq streams
      BY <1>36 DEF vars, guestVars, joinVars, dispVars, ownerVars
    <2>2. Settled => Settled'
      BY <1>36 DEF vars, guestVars, joinVars, dispVars, ownerVars, Settled
    <2>3. Newcomer' <=> Newcomer
      BY <2>1, Zenon DEF Newcomer
    <2>. QED  BY <2>1, <2>2, <2>3, DepartureKept
  <1>. QED
    BY <1>1, <1>2, <1>3, <1>4, <1>5, <1>6, <1>7, <1>8, <1>9, <1>10, <1>11,
       <1>12, <1>13, <1>14, <1>15, <1>16, <1>17, <1>18, <1>19, <1>20, <1>21,
       <1>22, <1>23, <1>24, <1>25, <1>26, <1>27, <1>28, <1>29, <1>30, <1>31,
       <1>32, <1>33, <1>34, <1>35, <1>36
       DEF Next, CloseNext, PumpNext, DispatchNext, RoomNext, GuestNext

-----------------------------------------------------------------------------
(* Whose stream a stream is *)

\* A rightful guest's adb and the owner agree on whose stream a stream is.
LEMMA GuestStreamStep ==
    ASSUME TypeOK, CloseInv, StreamInv, MessageInv, JoinInv, GuestStreamInv,
           [Next]_vars
    PROVE  GuestStreamInv'
  <1>. USE DEF GuestStreamInv
  <1>1. ASSUME NEW t \in Threads, CloseEnter(t) PROVE GuestStreamInv'
    BY <1>1, GuestDomains, AllocatedIds, ReceivesMsg
       DEF CloseEnter, ReturnFromClose, Rightful, Admitted, Asked, dispVars,
           guestVars, joinVars
  <1>2. ASSUME NEW t \in Threads, CloseUnregister(t) PROVE GuestStreamInv'
    BY <1>2, GuestDomains, AllocatedIds, ReceivesMsg
       DEF CloseUnregister, ReturnFromClose, Rightful, Admitted, Asked,
           dispVars, guestVars, joinVars
  <1>3. ASSUME NEW t \in Threads, CloseNotifyGuest(t) PROVE GuestStreamInv'
    <2>1. PICK m : m = Msg("CLSE", closeOf[t], guestOf[closeOf[t]])
      OBVIOUS
    <2>2. m \in OwnerMsgs /\ (m.cmd = "OKAY" => disp = "ack" /\ m.arg1 = current.arg2)
      BY <1>3, <2>1, OwnerMsgType, AllocatedIds
         DEF CloseNotifyGuest, CloseInv, MessageInv, RoomInv, Msg
    <2>3. UNCHANGED <<toOwner, current, guest, stage, own, session, born,
                      guestOf, nextId>>
      BY <1>3 DEF CloseNotifyGuest, guestVars, joinVars
    <2>4. disp' \notin {"open", "write", "ack"} \/ disp' = disp
      BY <1>3 DEF CloseNotifyGuest, ReturnFromClose, dispVars
    <2>5. UNCHANGED toGuest \/ Sent(m)
      BY <1>3, <2>1 DEF CloseNotifyGuest, SendFailed
    <2>6. \A k \in DOMAIN toGuest' :
             toGuest'[k] = m \/ (k \in DOMAIN toGuest /\ toGuest'[k] = toGuest[k])
      BY <2>2, <2>5, AppendProperties, GuestDomains DEF Sent
    <2>. QED
      BY <2>2, <2>3, <2>4, <2>6, AllocatedIds, Zenon
         DEF Rightful, Admitted, Asked
  <1>4. ASSUME NEW i \in Ids, PumpReads(i) PROVE GuestStreamInv'
    BY <1>4, GuestDomains, AllocatedIds, ReceivesMsg
       DEF PumpReads, pumpFrame, Rightful, Admitted, Asked, dispVars,
           guestVars, joinVars
  <1>5. ASSUME NEW i \in Ids, PumpReadFails(i) PROVE GuestStreamInv'
    BY <1>5, GuestDomains, AllocatedIds, ReceivesMsg
       DEF PumpReadFails, pumpFrame, CallClose, Rightful, Admitted, Asked,
           dispVars, guestVars, joinVars
  <1>6. ASSUME NEW i \in Ids, PumpTakesPermit(i) PROVE GuestStreamInv'
    BY <1>6, GuestDomains, AllocatedIds, ReceivesMsg
       DEF PumpTakesPermit, pumpFrame, Rightful, Admitted, Asked, dispVars,
           guestVars, joinVars
  <1>7. ASSUME NEW i \in Ids, PumpSeesDone(i) PROVE GuestStreamInv'
    BY <1>7, GuestDomains, AllocatedIds, ReceivesMsg
       DEF PumpSeesDone, pumpFrame, Rightful, Admitted, Asked, dispVars,
           guestVars, joinVars
  <1>8. ASSUME NEW i \in Ids, PumpSends(i) PROVE GuestStreamInv'
    <2>1. PICK m : m = Msg("WRTE", i, guestOf[i])
      OBVIOUS
    <2>2. m \in OwnerMsgs /\ (m.cmd = "OKAY" => disp = "ack" /\ m.arg1 = current.arg2)
      BY <1>8, <2>1, OwnerMsgType, AllocatedIds
         DEF PumpSends, StreamInv, MessageInv, RoomInv, Msg
    <2>3. UNCHANGED <<toOwner, current, guest, stage, own, session, born,
                      guestOf, nextId>>
      BY <1>8 DEF PumpSends, pumpFrame, dispVars, guestVars, joinVars
    <2>4. disp' \notin {"open", "write", "ack"} \/ disp' = disp
      BY <1>8 DEF PumpSends, pumpFrame, dispVars, ReturnFromClose
    <2>5. UNCHANGED toGuest \/ Sent(m)
      BY <1>8, <2>1 DEF PumpSends, SendFailed
    <2>6. \A k \in DOMAIN toGuest' :
             toGuest'[k] = m \/ (k \in DOMAIN toGuest /\ toGuest'[k] = toGuest[k])
      BY <2>2, <2>5, AppendProperties, GuestDomains DEF Sent
    <2>. QED
      BY <2>2, <2>3, <2>4, <2>6, AllocatedIds, Zenon
         DEF Rightful, Admitted, Asked
  <1>9. ASSUME NEW i \in Ids, PumpSendFails(i) PROVE GuestStreamInv'
    BY <1>9, GuestDomains, AllocatedIds, ReceivesMsg
       DEF PumpSendFails, pumpFrame, CallClose, SendFailed, Rightful, Admitted,
           Asked, dispVars, guestVars, joinVars
  <1>10. ASSUME NEW i \in Ids, DeviceEnds(i) PROVE GuestStreamInv'
    BY <1>10, GuestDomains, AllocatedIds, ReceivesMsg
       DEF DeviceEnds, ownerVars, Rightful, Admitted, Asked, dispVars,
           guestVars, joinVars
  <1>11. CASE dispatchJoinRoom
    BY <1>11, GuestDomains, AllocatedIds, ReceivesMsg
       DEF dispatchJoinRoom, Receives, Rightful, Admitted, Asked, dispVars,
           guestVars, joinVars
  <1>12. CASE handleOpen
    BY <1>12, GuestDomains, AllocatedIds, ReceivesMsg
       DEF handleOpen, Receives, Rightful, Admitted, Asked, dispVars,
           guestVars, joinVars
  <1>13. CASE OpenStreamRefused
    <2>1. PICK m : m = Msg("CLSE", 0, current.arg1)
      OBVIOUS
    <2>2. m \in OwnerMsgs /\ (m.cmd = "OKAY" => disp = "ack" /\ m.arg1 = current.arg2)
      BY <1>13, <2>1, RefusalType
         DEF OpenStreamRefused, MessageInv, ToOwnerInv, FromGuest, Msg
    <2>3. UNCHANGED <<toOwner, current, guest, stage, own, session, born,
                      guestOf, nextId>>
      BY <1>13 DEF OpenStreamRefused, guestVars, joinVars
    <2>4. disp' \notin {"open", "write", "ack"} \/ disp' = disp
      BY <1>13 DEF OpenStreamRefused, ReturnFromClose, dispVars
    <2>5. UNCHANGED toGuest \/ Sent(m)
      BY <1>13, <2>1 DEF OpenStreamRefused, SendFailed
    <2>6. \A k \in DOMAIN toGuest' :
             toGuest'[k] = m \/ (k \in DOMAIN toGuest /\ toGuest'[k] = toGuest[k])
      BY <2>2, <2>5, AppendProperties, GuestDomains DEF Sent
    <2>. QED
      BY <2>2, <2>3, <2>4, <2>6, AllocatedIds, Zenon
         DEF Rightful, Admitted, Asked
  <1>14. CASE OpenStreamAccepted
    <2>. SUFFICES ASSUME Rightful' PROVE GuestStreamInv'
      OBVIOUS
    <2>1. PICK m : m = Msg("OKAY", nextId + 1, current.arg1)
      OBVIOUS
    <2>2. /\ Allocated' = Allocated \cup {nextId + 1} /\ nextId + 1 \in Ids
          /\ nextId + 1 \notin Allocated /\ current.arg1 \in GuestIds
          /\ Allocated \subseteq Ids
      BY <1>14, AllocatedIds
         DEF OpenStreamAccepted, FromGuest, MessageInv, ToOwnerInv
    <2>3. /\ UNCHANGED <<toOwner, guest, stage, own, session, heard, current>>
          /\ born' = [born EXCEPT ![nextId + 1] = heard]
          /\ guestOf' = [guestOf EXCEPT ![nextId + 1] = current.arg1]
          /\ disp = "open" /\ disp' \in {"idle", "closing"}
      BY <1>14 DEF OpenStreamAccepted, guestVars, joinVars
    <2>4. Rightful /\ heard = session
      BY <2>3, Zenon DEF Rightful, Admitted, JoinInv, OwnInv
    <2>5. /\ \A i \in Allocated : born'[i] = born[i] /\ guestOf'[i] = guestOf[i]
          /\ born'[nextId + 1] = session' /\ guestOf'[nextId + 1] = current.arg1
      BY <2>2, <2>3, <2>4, GuestDomains
    <2>6. m \in OwnerMsgs /\ m.arg1 = nextId + 1
      BY <2>1, <2>2, OwnerMsgType DEF Msg
    <2>7. UNCHANGED toGuest \/ Sent(m)
      BY <1>14, <2>1 DEF OpenStreamAccepted, SendFailed
    <2>8. \A k \in DOMAIN toGuest' :
             toGuest'[k] = m \/ (k \in DOMAIN toGuest /\ toGuest'[k] = toGuest[k])
      BY <2>6, <2>7, AppendProperties, GuestDomains DEF Sent
    <2>9. \A k \in DOMAIN toOwner' :
             toOwner'[k].cmd = "WRTE" => born'[toOwner'[k].arg2] = session'
      BY <2>3, <2>4, <2>5 DEF MessageInv, ToOwnerInv, FromGuest
    <2>10. \A k \in DOMAIN toGuest' :
              toGuest'[k].cmd = "OKAY" => born'[toGuest'[k].arg1] = session'
      BY <2>3, <2>4, <2>5, <2>6, <2>8 DEF MessageInv, ToGuestInv, FromOwner
    <2>11. \A g \in GuestIds :
              guest'[g].state = "open" => born'[guest'[g].peer] = session'
      BY <2>3, <2>4, <2>5 DEF MessageInv, ToGuestInv
    <2>12. ASSUME NEW g \in GuestIds, guest'[g].state = "none", Asked(g)' PROVE FALSE
      <3>1. ~Asked(g)
        BY <2>3, <2>4, <2>12
      <3>. QED  BY <2>2, <2>3, <2>5, <2>12, <3>1 DEF Asked
    <2>. QED  BY <2>3, <2>9, <2>10, <2>11, <2>12
  <1>15. CASE handleWrite
    BY <1>15, GuestDomains, AllocatedIds, ReceivesMsg
       DEF handleWrite, Receives, Rightful, Admitted, Asked, dispVars,
           guestVars, joinVars
  <1>16. CASE handleWriteDevice
    BY <1>16, GuestDomains, AllocatedIds, ReceivesMsg
       DEF handleWriteDevice, CallClose, Rightful, Admitted, Asked, dispVars,
           guestVars, joinVars
  <1>17. CASE handleWriteAck
    <2>1. PICK m : m = Msg("OKAY", current.arg2, current.arg1)
      OBVIOUS
    <2>2. m \in OwnerMsgs /\ (m.cmd = "OKAY" => disp = "ack" /\ m.arg1 = current.arg2)
      BY <1>17, <2>1, OwnerMsgType, AllocatedIds
         DEF handleWriteAck, MessageInv, ToOwnerInv, FromGuest, Msg
    <2>3. UNCHANGED <<toOwner, current, guest, stage, own, session, born,
                      guestOf, nextId>>
      BY <1>17 DEF handleWriteAck, guestVars, joinVars
    <2>4. disp' \notin {"open", "write", "ack"} \/ disp' = disp
      BY <1>17 DEF handleWriteAck, ReturnFromClose, dispVars
    <2>5. UNCHANGED toGuest \/ Sent(m)
      BY <1>17, <2>1 DEF handleWriteAck, SendFailed
    <2>6. \A k \in DOMAIN toGuest' :
             toGuest'[k] = m \/ (k \in DOMAIN toGuest /\ toGuest'[k] = toGuest[k])
      BY <2>2, <2>5, AppendProperties, GuestDomains DEF Sent
    <2>. QED
      BY <2>2, <2>3, <2>4, <2>6, AllocatedIds, Zenon
         DEF Rightful, Admitted, Asked
  <1>18. CASE handleOkay
    BY <1>18, GuestDomains, AllocatedIds, ReceivesMsg
       DEF handleOkay, Receives, Rightful, Admitted, Asked, dispVars,
           guestVars, joinVars
  <1>19. CASE handleClose
    BY <1>19, GuestDomains, AllocatedIds, ReceivesMsg
       DEF handleClose, Receives, CallClose, Rightful, Admitted, Asked,
           dispVars, guestVars, joinVars
  <1>20. CASE handleGuestLeft
    BY <1>20, GuestDomains, AllocatedIds, ReceivesMsg
       DEF handleGuestLeft, Receives, Rightful, Admitted, Asked, dispVars,
           guestVars, joinVars
  <1>21. CASE DispatchEnds
    BY <1>21, GuestDomains, AllocatedIds, ReceivesMsg
       DEF DispatchEnds, Rightful, Admitted, Asked, dispVars, guestVars,
           joinVars
  <1>22. CASE closeAllStreams
    BY <1>22, GuestDomains, AllocatedIds, ReceivesMsg
       DEF closeAllStreams, CallClose, Rightful, Admitted, Asked, dispVars,
           guestVars, joinVars
  <1>23. CASE handleJoinRoom
    <2>1. ~Rightful'
      BY <1>23 DEF handleJoinRoom, Rightful, Admitted
    <2>. QED  BY <2>1
  <1>24. ASSUME NEW s \in 1..MaxSessions, handleJoinRequest(s) PROVE GuestStreamInv'
    <2>1. CASE PlaceEmptied
      BY <2>1 DEF PlaceEmptied, Rightful, Admitted
    <2>2. CASE ~PlaceEmptied
      <3>1. /\ UNCHANGED <<toOwner, disp, current, guest, stage, own, session,
                           born, guestOf, nextId>>
            /\ UNCHANGED toGuest \/ Sent(Accepted(s))
        BY <1>24, <2>2 DEF handleJoinRequest, handleJoinRoomResponse, roomFrame,
                       ownerVars, dispVars, SendFailed
      <3>2. Accepted(s) \in OwnerMsgs /\ Accepted(s).cmd # "OKAY"
        BY JoinTypes
      <3>3. \A k \in DOMAIN toGuest' : toGuest'[k].cmd = "OKAY" =>
               k \in DOMAIN toGuest /\ toGuest'[k] = toGuest[k]
        <4>1. PICK m \in OwnerMsgs : m = Accepted(s) /\ m.cmd # "OKAY"
          BY <3>2
        <4>2. toGuest' = toGuest \/ toGuest' = Append(toGuest, m)
          BY <3>1, <4>1 DEF Sent
        <4>3. PICK q \in Seq(OwnerMsgs) : q = toGuest
          BY GuestDomains
        <4>4. \A k \in DOMAIN Append(q, m) :
                 \/ k \in DOMAIN q /\ Append(q, m)[k] = q[k]
                 \/ Append(q, m)[k] = m
          BY AppendProperties
        <4>. QED  BY <4>1, <4>2, <4>3, <4>4
      <3>. QED  BY <3>1, <3>3, AllocatedIds, Zenon DEF Rightful, Admitted, Asked
    <2>. QED  BY <2>1, <2>2
  <1>25. CASE handleClientDisconnected
    <2>1. ~Rightful'
      BY <1>25 DEF handleClientDisconnected, PlaceEmptied, Rightful, Admitted
    <2>. QED  BY <2>1
  <1>26. CASE roomJoinStep
    <2>. SUFFICES ASSUME Rightful' PROVE GuestStreamInv'
      OBVIOUS
    <2>1. /\ stage = "waiting" /\ toGuest # <<>> /\ stage' = "idle"
          /\ own' = (Head(toGuest) = Accepted(session)) /\ toGuest' = Tail(toGuest)
          /\ UNCHANGED guest
      BY <1>26 DEF roomJoinStep, GuestEnds, Rightful, Admitted
    <2>2. UNCHANGED <<toOwner, disp, current, session, born, guestOf, nextId>>
      BY <1>26 DEF roomJoinStep, roomFrame, ownerVars, dispVars
    <2>3. Head(toGuest) = Accepted(session)
      BY <2>1 DEF Rightful
    <2>4. heard = session
      <3>1. Head(toGuest) = toGuest[1] /\ 1 \in DOMAIN toGuest
        BY <2>1, HeadTailProperties, EmptySeq, GuestDomains
      <3>2. session =< heard
        BY <2>3, <3>1 DEF MessageInv, ToGuestInv, FromOwner, Accepted, Msg
      <3>. QED  BY <3>2, GuestDomains DEF MessageInv, RoomInv
    <2>5. /\ toOwner = <<>> /\ disp \in {"idle", "leaving", "returned"}
          /\ \A i \in Allocated : born[i] < session
      BY <2>1, <2>4 DEF JoinInv, ArrivalInv, Newcomer
    <2>6. \A i \in Allocated : born[i] # session
      BY <2>5, AllocatedIds, GuestDomains
    <2>7. \A k \in DOMAIN toGuest' : toGuest'[k].cmd # "OKAY"
      <3>1. \A k \in DOMAIN toGuest' :
               k + 1 \in DOMAIN toGuest /\ toGuest'[k] = toGuest[k + 1]
        BY <2>1, HeadTailProperties, GuestDomains
      <3>. QED  BY <2>1, <2>3, <3>1 DEF JoinInv, OwnInv
    <2>8. \A g \in GuestIds : guest[g].state # "open"
      BY <2>1 DEF MessageInv, RoomInv
    <2>9. \A g \in GuestIds : ~Asked(g)'
      BY <2>2, <2>5, <2>6, AllocatedIds DEF Asked
    <2>10. DOMAIN toOwner' = {}
      BY <2>2, <2>5
    <2>. QED  BY <2>1, <2>2, <2>5, <2>7, <2>8, <2>9, <2>10
  <1>27. CASE GuestLeaves
    <2>1. ~Rightful'
      BY <1>27 DEF GuestLeaves, GuestEnds, Rightful, Admitted
    <2>. QED  BY <2>1
  <1>28. CASE GuestConnects
    BY <1>28, GuestDomains, AllocatedIds, ReceivesMsg
       DEF GuestConnects, roomFrame, ownerVars, Rightful, Admitted, Asked,
           dispVars, guestVars, joinVars
  <1>29. CASE GuestDisconnects
    BY <1>29, GuestDomains, AllocatedIds, ReceivesMsg
       DEF GuestDisconnects, roomFrame, ownerVars, Rightful, Admitted, Asked,
           dispVars, guestVars, joinVars
  <1>30. CASE GuestDiscards
    BY <1>30, GuestDomains, AllocatedIds, ReceivesMsg
       DEF GuestDiscards, ownerVars, Rightful, Admitted, Asked, dispVars,
           guestVars, joinVars
  <1>31. CASE GuestReceives
    <2>1. PICK m \in OwnerMsgs : m = Head(toGuest) /\ FromOwner(m)
      BY <1>31, HeadTailProperties, GuestDomains
         DEF GuestReceives, MessageInv, ToGuestInv
    <2>2. m.cmd # "Accepted" => m.arg2 \in GuestIds /\ m.arg1 \in Ids \cup {0}
      BY MsgArgs
    <2>3. /\ UNCHANGED <<disp, current, stage, own, session, born, guestOf, nextId>>
          /\ toGuest # <<>> /\ toGuest' = Tail(toGuest)
      BY <1>31 DEF GuestReceives, ownerVars, dispVars, joinVars
    <2>4. \A k \in DOMAIN toOwner' : toOwner'[k].cmd \in {"OPEN", "WRTE"} =>
             k \in DOMAIN toOwner /\ toOwner'[k] = toOwner[k]
      <3>1. CASE UNCHANGED toOwner
        BY <3>1
      <3>2. CASE toOwner' = Append(toOwner, Msg("OKAY", m.arg2, m.arg1)) /\ m.cmd = "WRTE"
        <4>1. PICK r : r = Msg("OKAY", m.arg2, m.arg1)
          OBVIOUS
        <4>2. r \in GuestMsgs /\ r.cmd = "OKAY"
          BY <2>2, <3>2, <4>1, GuestMsgType DEF Msg
        <4>. QED  BY <3>2, <4>1, <4>2, AppendProperties, GuestDomains
      <3>. QED  BY <1>31, <2>1, <3>1, <3>2 DEF GuestReceives
    <2>5. \/ UNCHANGED guest
          \/ /\ m.cmd # "Accepted"
             /\ \A g \in GuestIds : g # m.arg2 => guest'[g] = guest[g]
             /\ \/ guest'[m.arg2].state = guest[m.arg2].state /\ guest'[m.arg2].peer = guest[m.arg2].peer
                \/ guest'[m.arg2].state = "closed"
                \/ /\ m.cmd = "OKAY" /\ guest'[m.arg2].state = "open"
                   /\ guest'[m.arg2].peer = m.arg1
      BY <1>31, <2>1, <2>2, GuestDomains DEF GuestReceives, TypeOK, GuestTypeOK
    <2>6. Rightful' => Rightful
      BY <2>3, Zenon DEF Rightful, Admitted
    <2>7. /\ \A k \in DOMAIN toGuest' :
                k + 1 \in DOMAIN toGuest /\ toGuest'[k] = toGuest[k + 1]
          /\ toGuest[1] = m /\ 1 \in DOMAIN toGuest
      BY <2>1, <2>3, HeadTailProperties, EmptySeq, GuestDomains
    <2>8. Allocated' = Allocated
      BY <2>3, AllocatedIds
    <2>9. Rightful' => \A g \in GuestIds :
             /\ guest'[g].state = "open" => born[guest'[g].peer] = session
             /\ guest'[g].state = "none" => guest[g].state = "none"
      BY <2>1, <2>5, <2>6, <2>7
    <2>10. \A g \in GuestIds : Asked(g)' => Asked(g)
      BY <2>3, <2>4, <2>8 DEF Asked
    <2>. QED  BY <2>3, <2>4, <2>6, <2>7, <2>9, <2>10
  <1>32. ASSUME NEW g \in GuestIds, GuestOpens(g) PROVE GuestStreamInv'
    <2>1. PICK m : m = Msg("OPEN", g, 0)
      OBVIOUS
    <2>2. m \in GuestMsgs /\ m.arg1 = g /\ m.cmd = "OPEN" /\ m.arg2 \in Ids \cup {0}
      BY <1>32, <2>1, GuestMsgType, GuestDomains
         DEF GuestOpens, Msg, MessageInv, ToGuestInv, TypeOK, GuestTypeOK
    <2>3. /\ toOwner' = Append(toOwner, m)
          /\ UNCHANGED <<toGuest, disp, current, stage, own, session, born,
                         guestOf, nextId>>
          /\ \A h \in GuestIds :
                IF h = g THEN guest'[h].state = "opening" ELSE guest'[h] = guest[h]
      BY <1>32, <2>1, GuestDomains
         DEF GuestOpens, ownerVars, dispVars, joinVars, NoStream, TypeOK, GuestTypeOK, Msg
    <2>4. /\ \A k \in DOMAIN toOwner' :
                toOwner'[k] = m \/ (k \in DOMAIN toOwner /\ toOwner'[k] = toOwner[k])
      BY <2>2, <2>3, AppendProperties, GuestDomains
    <2>5. Rightful' => Rightful
      BY <2>3, Zenon DEF Rightful, Admitted
    <2>6. Allocated' = Allocated
      BY <2>3, AllocatedIds
    <2>. QED  BY <2>2, <2>3, <2>4, <2>5, <2>6 DEF Asked
  <1>33. ASSUME NEW g \in GuestIds, GuestWrites(g) PROVE GuestStreamInv'
    <2>1. PICK m : m = Msg("WRTE", g, guest[g].peer)
      OBVIOUS
    <2>2. m \in GuestMsgs /\ m.arg1 = g /\ m.cmd = "WRTE" /\ m.arg2 \in Ids \cup {0}
      BY <1>33, <2>1, GuestMsgType, GuestDomains
         DEF GuestWrites, Msg, MessageInv, ToGuestInv, TypeOK, GuestTypeOK
    <2>3. /\ toOwner' = Append(toOwner, m)
          /\ UNCHANGED <<toGuest, disp, current, stage, own, session, born,
                         guestOf, nextId>>
          /\ m.arg2 = guest[g].peer /\ guest[g].state = "open"
          /\ \A h \in GuestIds :
                guest'[h].state = guest[h].state /\ guest'[h].peer = guest[h].peer
      BY <1>33, <2>1, GuestDomains
         DEF GuestWrites, ownerVars, dispVars, joinVars, NoStream, TypeOK, GuestTypeOK, Msg
    <2>4. /\ \A k \in DOMAIN toOwner' :
                toOwner'[k] = m \/ (k \in DOMAIN toOwner /\ toOwner'[k] = toOwner[k])
      BY <2>2, <2>3, AppendProperties, GuestDomains
    <2>5. Rightful' => Rightful
      BY <2>3, Zenon DEF Rightful, Admitted
    <2>6. Allocated' = Allocated
      BY <2>3, AllocatedIds
    <2>. QED  BY <2>2, <2>3, <2>4, <2>5, <2>6 DEF Asked
  <1>34. ASSUME NEW g \in GuestIds, GuestCloses(g) PROVE GuestStreamInv'
    <2>1. PICK m : m = Msg("CLSE", g, guest[g].peer)
      OBVIOUS
    <2>2. m \in GuestMsgs /\ m.arg1 = g /\ m.cmd = "CLSE" /\ m.arg2 \in Ids \cup {0}
      BY <1>34, <2>1, GuestMsgType, GuestDomains
         DEF GuestCloses, Msg, MessageInv, ToGuestInv, TypeOK, GuestTypeOK
    <2>3. /\ toOwner' = Append(toOwner, m)
          /\ UNCHANGED <<toGuest, disp, current, stage, own, session, born,
                         guestOf, nextId>>
          /\ \A h \in GuestIds : guest'[h].state = "closed" \/ guest'[h] = guest[h]
      BY <1>34, <2>1, GuestDomains
         DEF GuestCloses, ownerVars, dispVars, joinVars, NoStream, TypeOK, GuestTypeOK, Msg
    <2>4. /\ \A k \in DOMAIN toOwner' :
                toOwner'[k] = m \/ (k \in DOMAIN toOwner /\ toOwner'[k] = toOwner[k])
      BY <2>2, <2>3, AppendProperties, GuestDomains
    <2>5. Rightful' => Rightful
      BY <2>3, Zenon DEF Rightful, Admitted
    <2>6. Allocated' = Allocated
      BY <2>3, AllocatedIds
    <2>. QED  BY <2>2, <2>3, <2>4, <2>5, <2>6 DEF Asked
  <1>35. CASE TransportLost
    <2>1. ~Rightful'
      BY <1>35 DEF TransportLost, PlaceEmptied, Rightful, Admitted
    <2>. QED  BY <2>1
  <1>36. CASE UNCHANGED vars
    BY <1>36, GuestDomains, AllocatedIds, ReceivesMsg
       DEF vars, Rightful, Admitted, Asked, dispVars, guestVars, joinVars
  <1>. HIDE DEF GuestStreamInv
  <1>. QED
    BY <1>1, <1>2, <1>3, <1>4, <1>5, <1>6, <1>7, <1>8, <1>9, <1>10, <1>11,
       <1>12, <1>13, <1>14, <1>15, <1>16, <1>17, <1>18, <1>19, <1>20, <1>21,
       <1>22, <1>23, <1>24, <1>25, <1>26, <1>27, <1>28, <1>29, <1>30, <1>31,
       <1>32, <1>33, <1>34, <1>35, <1>36
       DEF Next, CloseNext, PumpNext, DispatchNext, RoomNext, GuestNext

-----------------------------------------------------------------------------
(* The OKAY that opens a stream *)

\* A message behind the OKAY changes nothing ...
LEMMA OkayAheadAppend ==
    ASSUME NEW T, NEW q \in Seq(T), NEW m \in T, NEW i, OkayAhead(q, i)
    PROVE  OkayAhead(Append(q, m), i)
  <1>1. PICK j \in DOMAIN q :
           /\ q[j].cmd = "OKAY" /\ q[j].arg1 = i
           /\ \A k \in 1..j : ~(q[k].cmd = "WRTE" /\ q[k].arg1 = i)
    BY DEF OkayAhead
  <1>2. /\ DOMAIN q = 1..Len(q) /\ Len(q) \in Nat
        /\ DOMAIN Append(q, m) = 1..(Len(q) + 1)
        /\ \A k \in 1..Len(q) : Append(q, m)[k] = q[k]
    BY AppendProperties
  <1>3. /\ j \in DOMAIN Append(q, m) /\ Append(q, m)[j] = q[j]
        /\ \A k \in 1..j : Append(q, m)[k] = q[k]
    BY <1>2
  <1>. QED  BY <1>1, <1>3 DEF OkayAhead

\* ... nor does taking another one before it.
LEMMA OkayAheadTail ==
    ASSUME NEW T, NEW q \in Seq(T), q # <<>>, NEW i, OkayAhead(q, i),
           ~(Head(q).cmd = "OKAY" /\ Head(q).arg1 = i)
    PROVE  OkayAhead(Tail(q), i)
  <1>1. PICK j \in DOMAIN q :
           /\ q[j].cmd = "OKAY" /\ q[j].arg1 = i
           /\ \A k \in 1..j : ~(q[k].cmd = "WRTE" /\ q[k].arg1 = i)
    BY DEF OkayAhead
  <1>2. /\ DOMAIN q = 1..Len(q) /\ Len(q) \in Nat /\ Head(q) = q[1]
        /\ DOMAIN Tail(q) = 1..(Len(q) - 1)
        /\ \A k \in 1..(Len(q) - 1) : Tail(q)[k] = q[k + 1]
    BY HeadTailProperties
  <1>3. j # 1
    BY <1>1, <1>2
  <1>4. /\ j - 1 \in DOMAIN Tail(q) /\ Tail(q)[j - 1] = q[j]
        /\ \A k \in 1..(j - 1) : k + 1 \in 1..j /\ Tail(q)[k] = q[k + 1]
    BY <1>2, <1>3
  <1>5. /\ Tail(q)[j - 1].cmd = "OKAY" /\ Tail(q)[j - 1].arg1 = i
        /\ \A k \in 1..(j - 1) : ~(Tail(q)[k].cmd = "WRTE" /\ Tail(q)[k].arg1 = i)
    BY <1>1, <1>4
  <1>. QED  BY <1>4, <1>5 DEF OkayAhead

\* The queue to the guest keeps the OKAY when the owner sends,
LEMMA OkayComesSent ==
    ASSUME TypeOK, NEW i, NEW m \in OwnerMsgs, Sent(m), OkayComes(i)
    PROVE  OkayComes(i)'
  <1>1. toGuest \in Seq(OwnerMsgs)
    BY GuestDomains
  <1>2. OkayAhead(Append(toGuest, m), i)
    BY <1>1, OkayAheadAppend DEF OkayComes
  <1>. QED  BY <1>2 DEF OkayComes, Sent

\* ... and when the guest receives something else.
LEMMA OkayComesReceived ==
    ASSUME TypeOK, NEW i, OkayComes(i), toGuest # <<>>, toGuest' = Tail(toGuest),
           ~(Head(toGuest).cmd = "OKAY" /\ Head(toGuest).arg1 = i)
    PROVE  OkayComes(i)'
  <1>1. toGuest \in Seq(OwnerMsgs)
    BY GuestDomains
  <1>2. OkayAhead(Tail(toGuest), i)
    BY <1>1, OkayAheadTail DEF OkayComes
  <1>. QED  BY <1>2 DEF OkayComes

\* What the owner sends for another stream changes nothing for i.
LEMMA OrderSent ==
    ASSUME TypeOK, OrderInv, NEW i \in Allocated, NEW m \in OwnerMsgs,
           Sent(m) \/ UNCHANGED toGuest,
           UNCHANGED <<stage, own, session, guest>>, born'[i] = born[i],
                       guestOf'[i] = guestOf[i],
           stage' = "relaying", own',
           born'[i] = session', guest'[guestOf'[i]].state = "opening"
    PROVE  OkayComes(i)'
  <1>1. OkayComes(i)
    BY DEF OrderInv, Rightful, Admitted
  <1>2. CASE Sent(m)
    BY <1>1, <1>2, OkayComesSent
  <1>3. CASE UNCHANGED toGuest
    BY <1>1, <1>3 DEF OkayComes
  <1>. QED  BY <1>2, <1>3

\* OpenStreamAccepted sends the OKAY before it starts the pump, so a guest that
\* waits for it while it relays will get it.
LEMMA OkayComesStep ==
    ASSUME TypeOK, CloseInv, StreamInv, MessageInv, GuestStreamInv, OrderInv,
           [Next]_vars, NEW i \in Allocated', stage' = "relaying", own',
           born'[i] = session', guest'[guestOf'[i]].state = "opening"
    PROVE  OkayComes(i)'
  <1>1. ASSUME NEW t \in Threads, CloseEnter(t) PROVE OkayComes(i)'
    BY <1>1, GuestDomains, AllocatedIds
       DEF CloseEnter, ReturnFromClose, OrderInv, OkayComes, Rightful,
           Admitted, dispVars, guestVars, joinVars
  <1>2. ASSUME NEW t \in Threads, CloseUnregister(t) PROVE OkayComes(i)'
    BY <1>2, GuestDomains, AllocatedIds
       DEF CloseUnregister, ReturnFromClose, OrderInv, OkayComes, Rightful,
           Admitted, dispVars, guestVars, joinVars
  <1>3. ASSUME NEW t \in Threads, CloseNotifyGuest(t) PROVE OkayComes(i)'
    <2>1. PICK m : m = Msg("CLSE", closeOf[t], guestOf[closeOf[t]])
      OBVIOUS
    <2>2. m \in OwnerMsgs
      BY <1>3, <2>1, OwnerMsgType, AllocatedIds
         DEF CloseNotifyGuest, CloseInv, MessageInv, RoomInv
    <2>3. /\ UNCHANGED <<stage, own, session, guest, born,
                         guestOf>> /\ Allocated' = Allocated
          /\ Sent(m) \/ UNCHANGED toGuest
      BY <1>3, <2>1, AllocatedIds
         DEF CloseNotifyGuest, SendFailed, guestVars, joinVars
    <2>. QED  BY <2>2, <2>3, OrderSent
  <1>4. ASSUME NEW n \in Ids, PumpReads(n) PROVE OkayComes(i)'
    BY <1>4, GuestDomains, AllocatedIds
       DEF PumpReads, pumpFrame, OrderInv, OkayComes, Rightful, Admitted,
           dispVars, guestVars, joinVars
  <1>5. ASSUME NEW n \in Ids, PumpReadFails(n) PROVE OkayComes(i)'
    BY <1>5, GuestDomains, AllocatedIds
       DEF PumpReadFails, pumpFrame, CallClose, OrderInv, OkayComes, Rightful,
           Admitted, dispVars, guestVars, joinVars
  <1>6. ASSUME NEW n \in Ids, PumpTakesPermit(n) PROVE OkayComes(i)'
    BY <1>6, GuestDomains, AllocatedIds
       DEF PumpTakesPermit, pumpFrame, OrderInv, OkayComes, Rightful, Admitted,
           dispVars, guestVars, joinVars
  <1>7. ASSUME NEW n \in Ids, PumpSeesDone(n) PROVE OkayComes(i)'
    BY <1>7, GuestDomains, AllocatedIds
       DEF PumpSeesDone, pumpFrame, OrderInv, OkayComes, Rightful, Admitted,
           dispVars, guestVars, joinVars
  <1>8. ASSUME NEW n \in Ids, PumpSends(n) PROVE OkayComes(i)'
    <2>1. PICK m : m = Msg("WRTE", n, guestOf[n])
      OBVIOUS
    <2>2. m \in OwnerMsgs
      BY <1>8, <2>1, OwnerMsgType, AllocatedIds
         DEF PumpSends, StreamInv, MessageInv, RoomInv
    <2>3. /\ UNCHANGED <<stage, own, session, guest, born,
                         guestOf>> /\ Allocated' = Allocated
          /\ Sent(m) \/ UNCHANGED toGuest
      BY <1>8, <2>1, AllocatedIds
         DEF PumpSends, SendFailed, pumpFrame, guestVars, joinVars
    <2>. QED  BY <2>2, <2>3, OrderSent
  <1>9. ASSUME NEW n \in Ids, PumpSendFails(n) PROVE OkayComes(i)'
    BY <1>9, GuestDomains, AllocatedIds
       DEF PumpSendFails, pumpFrame, CallClose, SendFailed, OrderInv,
           OkayComes, Rightful, Admitted, dispVars, guestVars, joinVars
  <1>10. ASSUME NEW n \in Ids, DeviceEnds(n) PROVE OkayComes(i)'
    BY <1>10, GuestDomains, AllocatedIds
       DEF DeviceEnds, ownerVars, OrderInv, OkayComes, Rightful, Admitted,
           dispVars, guestVars, joinVars
  <1>11. CASE dispatchJoinRoom
    BY <1>11, GuestDomains, AllocatedIds
       DEF dispatchJoinRoom, Receives, OrderInv, OkayComes, Rightful, Admitted,
           dispVars, guestVars, joinVars
  <1>12. CASE handleOpen
    BY <1>12, GuestDomains, AllocatedIds
       DEF handleOpen, Receives, OrderInv, OkayComes, Rightful, Admitted,
           dispVars, guestVars, joinVars
  <1>13. CASE OpenStreamRefused
    <2>1. PICK m : m = Msg("CLSE", 0, current.arg1)
      OBVIOUS
    <2>2. m \in OwnerMsgs
      BY <1>13, <2>1, RefusalType
         DEF OpenStreamRefused, MessageInv, ToOwnerInv, FromGuest
    <2>3. /\ UNCHANGED <<stage, own, session, guest, born,
                         guestOf>> /\ Allocated' = Allocated
          /\ Sent(m) \/ UNCHANGED toGuest
      BY <1>13, <2>1, AllocatedIds
         DEF OpenStreamRefused, SendFailed, guestVars, joinVars
    <2>. QED  BY <2>2, <2>3, OrderSent
  <1>14. CASE OpenStreamAccepted
    <2>1. PICK m : m = Msg("OKAY", nextId + 1, current.arg1)
      OBVIOUS
    <2>2. /\ Allocated' = Allocated \cup {nextId + 1} /\ nextId + 1 \in Ids
          /\ nextId + 1 \notin Allocated /\ current.arg1 \in GuestIds
          /\ Allocated \subseteq Ids
      BY <1>14, AllocatedIds
         DEF OpenStreamAccepted, FromGuest, MessageInv, ToOwnerInv
    <2>3. m \in OwnerMsgs /\ m.cmd = "OKAY" /\ m.arg1 = nextId + 1
      BY <2>1, <2>2, OwnerMsgType DEF Msg
    <2>4. /\ \A k \in Allocated : born'[k] = born[k] /\ guestOf'[k] = guestOf[k]
          /\ UNCHANGED <<stage, own, session, guest>>
      BY <1>14, <2>2, GuestDomains DEF OpenStreamAccepted, guestVars, joinVars
    <2>5. Sent(m) /\ Present
      BY <1>14, <2>1, <2>4
         DEF OpenStreamAccepted, SendFailed, MessageInv, RoomInv, Present
    <2>6. CASE i = nextId + 1
      <3>1. PICK j : j = Len(toGuest')
        OBVIOUS
      <3>2. /\ toGuest' \in Seq(OwnerMsgs) /\ j = Len(toGuest) + 1 /\ toGuest'[j] = m
            /\ \A k \in DOMAIN toGuest : toGuest'[k] = toGuest[k]
        BY <2>3, <2>5, <3>1, SentMsg
      <3>3. /\ Len(toGuest) \in Nat /\ DOMAIN toGuest = 1..Len(toGuest)
            /\ DOMAIN toGuest' = 1..Len(toGuest')
        BY <3>2, GuestDomains
      <3>4. j \in DOMAIN toGuest' /\ \A k \in 1..j : k = j \/ k \in DOMAIN toGuest
        BY <3>1, <3>2, <3>3
      <3>5. \A k \in DOMAIN toGuest :
               ~(toGuest[k].cmd = "WRTE" /\ toGuest[k].arg1 = nextId + 1)
        BY <2>2 DEF MessageInv, ToGuestInv, FromOwner
      <3>6. \A k \in 1..j : ~(toGuest'[k].cmd = "WRTE" /\ toGuest'[k].arg1 = i)
        BY <2>3, <2>6, <3>2, <3>5, <3>4
      <3>. QED  BY <2>3, <2>6, <3>2, <3>4, <3>6 DEF OkayAhead, OkayComes
    <2>7. CASE i \in Allocated
      BY <2>3, <2>4, <2>5, <2>7, OrderSent
    <2>. QED  BY <2>2, <2>6, <2>7
  <1>15. CASE handleWrite
    BY <1>15, GuestDomains, AllocatedIds
       DEF handleWrite, Receives, OrderInv, OkayComes, Rightful, Admitted,
           dispVars, guestVars, joinVars
  <1>16. CASE handleWriteDevice
    BY <1>16, GuestDomains, AllocatedIds
       DEF handleWriteDevice, CallClose, OrderInv, OkayComes, Rightful,
           Admitted, dispVars, guestVars, joinVars
  <1>17. CASE handleWriteAck
    <2>1. PICK m : m = Msg("OKAY", current.arg2, current.arg1)
      OBVIOUS
    <2>2. m \in OwnerMsgs
      BY <1>17, <2>1, OwnerMsgType, AllocatedIds
         DEF handleWriteAck, MessageInv, ToOwnerInv, FromGuest
    <2>3. /\ UNCHANGED <<stage, own, session, guest, born,
                         guestOf>> /\ Allocated' = Allocated
          /\ Sent(m) \/ UNCHANGED toGuest
      BY <1>17, <2>1, AllocatedIds
         DEF handleWriteAck, SendFailed, guestVars, joinVars
    <2>. QED  BY <2>2, <2>3, OrderSent
  <1>18. CASE handleOkay
    BY <1>18, GuestDomains, AllocatedIds
       DEF handleOkay, Receives, OrderInv, OkayComes, Rightful, Admitted,
           dispVars, guestVars, joinVars
  <1>19. CASE handleClose
    BY <1>19, GuestDomains, AllocatedIds
       DEF handleClose, Receives, CallClose, OrderInv, OkayComes, Rightful,
           Admitted, dispVars, guestVars, joinVars
  <1>20. CASE handleGuestLeft
    BY <1>20, GuestDomains, AllocatedIds
       DEF handleGuestLeft, Receives, OrderInv, OkayComes, Rightful, Admitted,
           dispVars, guestVars, joinVars
  <1>21. CASE DispatchEnds
    BY <1>21, GuestDomains, AllocatedIds
       DEF DispatchEnds, OrderInv, OkayComes, Rightful, Admitted, dispVars,
           guestVars, joinVars
  <1>22. CASE closeAllStreams
    BY <1>22, GuestDomains, AllocatedIds
       DEF closeAllStreams, CallClose, OrderInv, OkayComes, Rightful, Admitted,
           dispVars, guestVars, joinVars
  <1>23. CASE handleJoinRoom
    BY <1>23 DEF handleJoinRoom
  <1>24. ASSUME NEW s \in 1..MaxSessions, handleJoinRequest(s) PROVE OkayComes(i)'
    <2>1. /\ UNCHANGED <<stage, own, session, guest, born, guestOf, nextId>>
          /\ Sent(Accepted(s)) \/ UNCHANGED toGuest
      BY <1>24 DEF handleJoinRequest, handleJoinRoomResponse, PlaceEmptied,
               roomFrame, ownerVars, SendFailed
    <2>2. Allocated' = Allocated /\ Accepted(s) \in OwnerMsgs
      BY <2>1, AllocatedIds, JoinTypes
    <2>. QED  BY <2>1, <2>2, OrderSent
  <1>25. CASE handleClientDisconnected
    BY <1>25 DEF handleClientDisconnected, PlaceEmptied
  <1>26. CASE roomJoinStep
    BY <1>26 DEF roomJoinStep, GuestEnds
  <1>27. CASE GuestLeaves
    BY <1>27 DEF GuestLeaves, GuestEnds
  <1>28. CASE GuestConnects
    <2>1. UNCHANGED <<guest, guestOf, nextId>> /\ stage = "idle"
      BY <1>28 DEF GuestConnects, roomFrame, ownerVars
    <2>. QED  BY <2>1, AllocatedIds DEF MessageInv, RoomInv
  <1>29. CASE GuestDisconnects
    BY <1>29 DEF GuestDisconnects
  <1>30. CASE GuestDiscards
    BY <1>30 DEF GuestDiscards, guestVars
  <1>31. CASE GuestReceives
    <2>1. PICK m \in OwnerMsgs : m = Head(toGuest) /\ FromOwner(m)
      BY <1>31, HeadTailProperties, GuestDomains
         DEF GuestReceives, MessageInv, ToGuestInv
    <2>2. m.cmd # "Accepted" => m.arg2 \in GuestIds
      BY MsgArgs
    <2>3. /\ UNCHANGED <<born, guestOf, session, stage,
                         own>> /\ Allocated' = Allocated
          /\ toGuest # <<>> /\ toGuest' = Tail(toGuest)
      BY <1>31, AllocatedIds DEF GuestReceives, ownerVars, joinVars
    <2>4. guestOf[i] \in GuestIds
      BY <2>3 DEF MessageInv, RoomInv
    <2>5. \A g \in GuestIds : guest'[g].state = "opening" =>
             guest[g].state = "opening" /\ ~(m.cmd = "OKAY" /\ m.arg2 = g)
      BY <1>31, <2>1, <2>2, GuestDomains
         DEF GuestReceives, Matches, TypeOK, GuestTypeOK
    <2>6. OkayComes(i)
      BY <2>3, <2>4, <2>5 DEF OrderInv, Rightful, Admitted
    <2>7. ~(Head(toGuest).cmd = "OKAY" /\ Head(toGuest).arg1 = i)
      BY <2>1, <2>3, <2>4, <2>5 DEF FromOwner
    <2>. QED  BY <2>3, <2>6, <2>7, OkayComesReceived
  <1>32. ASSUME NEW g \in GuestIds, GuestOpens(g) PROVE OkayComes(i)'
    <2>1. /\ UNCHANGED <<stage, own, session, born, guestOf,
                         toGuest>> /\ Allocated' = Allocated
          /\ guest[g].state = "none"
          /\ \A h \in GuestIds : h # g => guest'[h] = guest[h]
      BY <1>32, AllocatedIds, GuestDomains DEF GuestOpens, ownerVars, joinVars
    <2>2. guestOf[i] # g /\ guestOf[i] \in GuestIds
      BY <2>1 DEF GuestStreamInv, Asked, MessageInv, RoomInv, Rightful, Admitted
    <2>. QED  BY <2>1, <2>2 DEF OrderInv, OkayComes, Rightful, Admitted
  <1>33. ASSUME NEW g \in GuestIds, GuestWrites(g) PROVE OkayComes(i)'
    <2>1. /\ UNCHANGED <<stage, own, session, born, guestOf,
                         toGuest>> /\ Allocated' = Allocated
          /\ \A h \in GuestIds : guest'[h].state = guest[h].state
      BY <1>33, AllocatedIds, GuestDomains
         DEF GuestWrites, ownerVars, joinVars, TypeOK, GuestTypeOK
    <2>. QED
      BY <2>1 DEF OrderInv, OkayComes, Rightful, Admitted, MessageInv, RoomInv
  <1>34. ASSUME NEW g \in GuestIds, GuestCloses(g) PROVE OkayComes(i)'
    <2>1. /\ UNCHANGED <<stage, own, session, born, guestOf,
                         toGuest>> /\ Allocated' = Allocated
          /\ \A h \in GuestIds :
                guest'[h].state = "opening" => guest[h].state = "opening"
      BY <1>34, AllocatedIds, GuestDomains
         DEF GuestCloses, ownerVars, joinVars, TypeOK, GuestTypeOK
    <2>. QED
      BY <2>1 DEF OrderInv, OkayComes, Rightful, Admitted, MessageInv, RoomInv
  <1>35. CASE TransportLost
    BY <1>35 DEF TransportLost, PlaceEmptied
  <1>36. CASE UNCHANGED vars
    BY <1>36, GuestDomains, AllocatedIds
       DEF vars, OrderInv, OkayComes, Rightful, Admitted, dispVars, guestVars,
           joinVars
  <1>. QED
    BY <1>1, <1>2, <1>3, <1>4, <1>5, <1>6, <1>7, <1>8, <1>9, <1>10, <1>11,
       <1>12, <1>13, <1>14, <1>15, <1>16, <1>17, <1>18, <1>19, <1>20, <1>21,
       <1>22, <1>23, <1>24, <1>25, <1>26, <1>27, <1>28, <1>29, <1>30, <1>31,
       <1>32, <1>33, <1>34, <1>35, <1>36
       DEF Next, CloseNext, PumpNext, DispatchNext, RoomNext, GuestNext

\* A guest that does not relay waits for nothing.
LEMMA OrderStep ==
    ASSUME TypeOK, CloseInv, StreamInv, MessageInv, GuestStreamInv, OrderInv, [Next]_vars
    PROVE  OrderInv'
  <1>1. RoomInv'
    BY RoomStep DEF MessageInv
  <1>2. ASSUME NEW i \in Allocated', born'[i] = session', guest'[guestOf'[i]].state = "opening"
        PROVE  stage' = "relaying"
    BY <1>1, <1>2 DEF RoomInv
  <1>3. Rightful' => own'
    BY DEF Rightful
  <1>. QED  BY <1>2, <1>3, OkayComesStep DEF OrderInv

-----------------------------------------------------------------------------
(* The token *)

\* The messages that carry stream i's token, and the token on the owner's side.
Wrtes(i) == {m \in OwnerMsgs : m.cmd = "WRTE" /\ m.arg1 = i}
Okays(i) == {m \in GuestMsgs : m.cmd = "OKAY" /\ m.arg2 = i}
Held(i) == (IF permit[i] THEN 1 ELSE 0)
           + (IF pump[i] \in {"sending", "lastsending"} THEN 1 ELSE 0)

\* Tokens(i) is the sum of these.
LEMMA TokensCounted ==
    ASSUME TypeOK, TypeOK', NEW i
    PROVE  /\ Tokens(i) = Count(toGuest, Wrtes(i)) + Count(toOwner, Okays(i)) + Held(i)
           /\ Tokens(i)' = Count(toGuest', Wrtes(i)) + Count(toOwner', Okays(i)) + Held(i)'
           /\ Count(toGuest, Wrtes(i)) \in Nat /\ Count(toOwner, Okays(i)) \in Nat
           /\ Count(toGuest', Wrtes(i)) \in Nat /\ Count(toOwner', Okays(i)) \in Nat
           /\ Held(i) \in Nat /\ Held(i)' \in Nat
  <1>1. ASSUME NEW s \in Seq(OwnerMsgs)
        PROVE  /\ Count(s, Wrtes(i)) \in Nat
               /\ Count(s, Wrtes(i))
                     = Cardinality({k \in DOMAIN s : s[k].cmd = "WRTE" /\ s[k].arg1 = i})
    <2>1. Where(s, Wrtes(i)) = {k \in DOMAIN s : s[k].cmd = "WRTE" /\ s[k].arg1 = i}
      BY DEF Where, Wrtes
    <2>. QED  BY <2>1, CountType DEF Count
  <1>2. ASSUME NEW s \in Seq(GuestMsgs)
        PROVE  /\ Count(s, Okays(i)) \in Nat
               /\ Count(s, Okays(i))
                     = Cardinality({k \in DOMAIN s : s[k].cmd = "OKAY" /\ s[k].arg2 = i})
    <2>1. Where(s, Okays(i)) = {k \in DOMAIN s : s[k].cmd = "OKAY" /\ s[k].arg2 = i}
      BY DEF Where, Okays
    <2>. QED  BY <2>1, CountType DEF Count
  <1>3. /\ toGuest \in Seq(OwnerMsgs) /\ toOwner \in Seq(GuestMsgs)
        /\ toGuest' \in Seq(OwnerMsgs) /\ toOwner' \in Seq(GuestMsgs)
    BY DEF TypeOK, GuestTypeOK
  <1>4. Held(i) \in Nat /\ Held(i)' \in Nat
    BY DEF Held
  <1>5. Tokens(i) = Count(toGuest, Wrtes(i)) + Count(toOwner, Okays(i))
           + (IF permit[i] THEN 1 ELSE 0)
           + (IF pump[i] \in {"sending", "lastsending"} THEN 1 ELSE 0)
    BY <1>1, <1>2, <1>3 DEF Tokens
  <1>6. Tokens(i)' = Count(toGuest', Wrtes(i)) + Count(toOwner', Okays(i))
           + (IF permit'[i] THEN 1 ELSE 0)
           + (IF pump'[i] \in {"sending", "lastsending"} THEN 1 ELSE 0)
    BY <1>1, <1>2, <1>3 DEF Tokens
  <1>7. /\ Count(toGuest, Wrtes(i)) \in Nat /\ Count(toOwner, Okays(i)) \in Nat
        /\ Count(toGuest', Wrtes(i)) \in Nat /\ Count(toOwner', Okays(i)) \in Nat
    BY <1>1, <1>2, <1>3
  <1>8. /\ Tokens(i) = Count(toGuest, Wrtes(i)) + Count(toOwner, Okays(i)) + Held(i)
        /\ Tokens(i)' = Count(toGuest', Wrtes(i)) + Count(toOwner', Okays(i)) + Held(i)'
    BY <1>5, <1>6, <1>7 DEF Held
  <1>. QED  BY <1>4, <1>7, <1>8

\* What the dispatcher receives is gone from the queue,
LEMMA ReceivedCount ==
    ASSUME TypeOK, NEW cmd, Receives(cmd), NEW i
    PROVE  Count(toOwner, Okays(i)) = Count(toOwner', Okays(i))
              + (IF cmd = "OKAY" /\ current'.arg2 = i THEN 1 ELSE 0)
  <1>1. /\ toOwner \in Seq(GuestMsgs) /\ toOwner # <<>> /\ toOwner' = Tail(toOwner)
        /\ Head(toOwner) = current' /\ current' \in GuestMsgs /\ current'.cmd = cmd
    BY ReceivesMsg, GuestDomains DEF Receives
  <1>2. Head(toOwner) \in Okays(i) <=> cmd = "OKAY" /\ current'.arg2 = i
    BY <1>1 DEF Okays
  <1>. QED  BY <1>1, <1>2, CountTail

\* ... what the owner sends is in it if there is a guest,
LEMMA SentCount ==
    ASSUME TypeOK, NEW m \in OwnerMsgs, Sent(m), NEW i
    PROVE  Count(toGuest', Wrtes(i)) = Count(toGuest, Wrtes(i))
              + (IF Present /\ m.cmd = "WRTE" /\ m.arg1 = i THEN 1 ELSE 0)
  <1>1. toGuest \in Seq(OwnerMsgs) /\ Count(toGuest, Wrtes(i)) \in Nat
    BY GuestDomains, CountType
  <1>2. m \in Wrtes(i) <=> m.cmd = "WRTE" /\ m.arg1 = i
    BY DEF Wrtes
  <1>3. toGuest' = IF Present THEN Append(toGuest, m) ELSE toGuest
    BY DEF Sent, Present
  <1>. QED  BY <1>1, <1>2, <1>3, CountAppend

\* ... what the guest sends is in it,
LEMMA GuestSentCount ==
    ASSUME TypeOK, NEW m \in GuestMsgs, toOwner' = Append(toOwner, m), NEW i
    PROVE  Count(toOwner', Okays(i)) = Count(toOwner, Okays(i))
              + (IF m.cmd = "OKAY" /\ m.arg2 = i THEN 1 ELSE 0)
  <1>1. toOwner \in Seq(GuestMsgs)
    BY GuestDomains
  <1>2. m \in Okays(i) <=> m.cmd = "OKAY" /\ m.arg2 = i
    BY DEF Okays
  <1>. QED  BY <1>1, <1>2, CountAppend

\* ... and what the guest receives is gone.
LEMMA GuestReceivedCount ==
    ASSUME TypeOK, toGuest # <<>>, toGuest' = Tail(toGuest), NEW i
    PROVE  /\ Head(toGuest) \in OwnerMsgs
           /\ Count(toGuest, Wrtes(i)) = Count(toGuest', Wrtes(i))
                 + (IF Head(toGuest).cmd = "WRTE" /\ Head(toGuest).arg1 = i THEN 1 ELSE 0)
  <1>1. toGuest \in Seq(OwnerMsgs) /\ Head(toGuest) \in OwnerMsgs
    BY GuestDomains, HeadTailProperties
  <1>2. Head(toGuest) \in Wrtes(i) <=> Head(toGuest).cmd = "WRTE" /\ Head(toGuest).arg1 = i
    BY <1>1 DEF Wrtes
  <1>. QED  BY <1>1, <1>2, CountTail

\* The guest receives a WRTE of i that is not for a stream it has open.
Unmatched(i) ==
    /\ GuestReceives
    /\ Head(toGuest).cmd = "WRTE" /\ Head(toGuest).arg1 = i /\ ~Matches(Head(toGuest))

\* What a step does to a stream's token: it keeps it, loses it for one of three
\* reasons, or makes it, when the stream is opened.
TokenMoves(i) ==
    \/ Tokens(i)' = Tokens(i)
    \/ /\ Tokens(i)' =< Tokens(i)
       /\ stage' # "relaying" \/ once[i] # "idle" \/ Unmatched(i)
    \/ Tokens(i) = 0 /\ Tokens(i)' = 1 /\ OpenStreamAccepted /\ i = nextId + 1

\* Opening a stream sends no WRTE and receives no OKAY.
LEMMA OpenCounts ==
    ASSUME TypeOK, TypeOK', MessageInv, OpenStreamAccepted, NEW i
    PROVE  /\ Count(toGuest', Wrtes(i)) = Count(toGuest, Wrtes(i))
           /\ Count(toOwner', Okays(i)) = Count(toOwner, Okays(i))
  <1>1. PICK m : m = Msg("OKAY", nextId + 1, current.arg1)
    OBVIOUS
  <1>2. nextId + 1 \in Ids /\ current.arg1 \in GuestIds /\ UNCHANGED toOwner
    BY AllocatedIds DEF OpenStreamAccepted, ToOwnerInv, FromGuest, MessageInv
  <1>3. m \in OwnerMsgs /\ m.cmd = "OKAY"
    BY <1>1, <1>2, OwnerMsgType DEF Msg
  <1>4. Sent(m) \/ UNCHANGED toGuest
    BY <1>1 DEF OpenStreamAccepted, SendFailed
  <1>. QED  BY <1>2, <1>3, <1>4, SentCount, TokensCounted

\* A new stream's token is in sendPermit, and nowhere else.
LEMMA TokenMade ==
    ASSUME TypeOK, TypeOK', StreamInv, MessageInv, OpenStreamAccepted, NEW i, i = nextId + 1
    PROVE  Tokens(i) = 0 /\ Tokens(i)' = 1
  <1>1. i \in Ids /\ i \notin Allocated
    BY AllocatedIds DEF OpenStreamAccepted
  <1>2. Held(i) = 0 /\ Held(i)' = 1
    BY <1>1, Domains DEF OpenStreamAccepted, CallClose, Held, StreamInv
  <1>3. Where(toGuest, Wrtes(i)) = {} /\ Where(toOwner, Okays(i)) = {}
    BY <1>1
       DEF Where, Wrtes, Okays, MessageInv, ToGuestInv, ToOwnerInv,
           FromOwner, FromGuest
  <1>4. Count(toGuest, Wrtes(i)) = 0 /\ Count(toOwner, Okays(i)) = 0
    BY <1>3, FS_EmptySet DEF Count
  <1>. QED  BY <1>2, <1>4, OpenCounts, TokensCounted

\* Every step treats the token in one of these ways.
LEMMA TokenStep ==
    ASSUME TypeOK, TypeOK', CloseInv, StreamInv, MessageInv,
           OneUnacknowledgedWrite, [Next]_vars, NEW i \in Ids
    PROVE  TokenMoves(i)
  <1>1. ASSUME NEW t \in Threads, CloseEnter(t) PROVE TokenMoves(i)
    <2>1. Held(i)' = Held(i) /\ UNCHANGED <<toGuest, toOwner>>
      BY <1>1, Domains, IdFacts DEF CloseEnter, ReturnFromClose, CloseInv, Held
    <2>. QED  BY <2>1, TokensCounted DEF TokenMoves
  <1>2. ASSUME NEW t \in Threads, CloseUnregister(t) PROVE TokenMoves(i)
    <2>1. Held(i)' = Held(i) /\ UNCHANGED <<toGuest, toOwner>>
      BY <1>2, Domains, IdFacts DEF CloseUnregister, ReturnFromClose, CloseInv, Held
    <2>. QED  BY <2>1, TokensCounted DEF TokenMoves
  <1>3. ASSUME NEW t \in Threads, CloseNotifyGuest(t) PROVE TokenMoves(i)
    <2>1. Held(i)' = Held(i) /\ UNCHANGED toOwner
      BY <1>3, Domains, IdFacts
         DEF CloseNotifyGuest, ReturnFromClose, CloseInv, Held
    <2>2. Count(toGuest', Wrtes(i)) = Count(toGuest, Wrtes(i))
      <3>1. PICK m : m = Msg("CLSE", closeOf[t], guestOf[closeOf[t]])
        OBVIOUS
      <3>2. m \in OwnerMsgs /\ m.cmd = "CLSE"
        BY <1>3, <3>1, OwnerMsgType, AllocatedIds
           DEF CloseNotifyGuest, CloseInv, MessageInv, RoomInv, Msg
      <3>3. Sent(m) \/ UNCHANGED toGuest
        BY <1>3, <3>1 DEF CloseNotifyGuest, SendFailed
      <3>. QED  BY <3>2, <3>3, SentCount, TokensCounted
    <2>. QED  BY <2>1, <2>2, TokensCounted DEF TokenMoves
  <1>4. ASSUME NEW n \in Ids, PumpReads(n) PROVE TokenMoves(i)
    <2>1. Held(i)' = Held(i) /\ UNCHANGED <<toGuest, toOwner>>
      BY <1>4, Domains, IdFacts DEF PumpReads, pumpFrame, Held
    <2>. QED  BY <2>1, TokensCounted DEF TokenMoves
  <1>5. ASSUME NEW n \in Ids, PumpReadFails(n) PROVE TokenMoves(i)
    <2>1. Held(i)' = Held(i) /\ UNCHANGED <<toGuest, toOwner>>
      BY <1>5, Domains, IdFacts DEF PumpReadFails, pumpFrame, CallClose, Held
    <2>. QED  BY <2>1, TokensCounted DEF TokenMoves
  <1>6. ASSUME NEW n \in Ids, PumpTakesPermit(n) PROVE TokenMoves(i)
    <2>1. Held(i)' = Held(i) /\ UNCHANGED <<toGuest, toOwner>>
      BY <1>6, Domains DEF PumpTakesPermit, pumpFrame, Held, TypeOK, StreamTypeOK
    <2>. QED  BY <2>1, TokensCounted DEF TokenMoves
  <1>7. ASSUME NEW n \in Ids, PumpSeesDone(n) PROVE TokenMoves(i)
    <2>1. Held(i)' = Held(i) /\ UNCHANGED <<toGuest, toOwner>>
      BY <1>7, Domains, IdFacts DEF PumpSeesDone, pumpFrame, Held
    <2>. QED  BY <2>1, TokensCounted DEF TokenMoves
  <1>8. ASSUME NEW n \in Ids, PumpSends(n) PROVE TokenMoves(i)
    <2>1. PICK m : m = Msg("WRTE", n, guestOf[n])
      OBVIOUS
    <2>2. m \in OwnerMsgs /\ m.cmd = "WRTE" /\ m.arg1 = n
      BY <1>8, <2>1, OwnerMsgType, AllocatedIds
         DEF PumpSends, StreamInv, MessageInv, RoomInv, Msg
    <2>3. Sent(m) /\ UNCHANGED <<toOwner, stage>>
      BY <1>8, <2>1 DEF PumpSends, pumpFrame, guestVars
    <2>4. Count(toGuest', Wrtes(i)) = Count(toGuest, Wrtes(i)) + (IF Present /\ n = i THEN 1 ELSE 0)
      BY <2>2, <2>3, SentCount
    <2>5. Held(i) = Held(i)' + (IF n = i THEN 1 ELSE 0)
      <3>1. /\ UNCHANGED permit /\ pump[n] \in {"sending", "lastsending"}
            /\ pump'[n] \in {"reading", "closing"} /\ (n # i => pump'[i] = pump[i])
        BY <1>8, Domains DEF PumpSends
      <3>. QED  BY <3>1 DEF Held
    <2>6. Present \/ stage' # "relaying"
      BY <2>3 DEF Present
    <2>7. /\ Tokens(i) = Count(toGuest, Wrtes(i)) + Count(toOwner, Okays(i)) + Held(i)
          /\ Tokens(i)' = Count(toGuest', Wrtes(i)) + Count(toOwner, Okays(i)) + Held(i)'
          /\ Count(toGuest, Wrtes(i)) \in Nat /\ Count(toOwner, Okays(i)) \in Nat
          /\ Held(i) \in Nat /\ Held(i)' \in Nat
      BY <2>3, TokensCounted
    <2>8. CASE Present
      BY <2>4, <2>5, <2>7, <2>8 DEF TokenMoves
    <2>9. CASE ~Present
      BY <2>4, <2>5, <2>6, <2>7, <2>9 DEF TokenMoves
    <2>. QED  BY <2>8, <2>9
  <1>9. ASSUME NEW n \in Ids, PumpSendFails(n) PROVE TokenMoves(i)
    <2>1. Held(i)' =< Held(i) /\ UNCHANGED <<toOwner, toGuest>>
      BY <1>9, Domains DEF PumpSendFails, pumpFrame, SendFailed, Held
    <2>2. stage' # "relaying"
      BY <1>9
         DEF PumpSendFails, pumpFrame, guestVars, SendFailed, MessageInv,
             RoomInv
    <2>. QED  BY <2>1, <2>2, TokensCounted DEF TokenMoves
  <1>10. ASSUME NEW n \in Ids, DeviceEnds(n) PROVE TokenMoves(i)
    <2>1. Held(i)' = Held(i) /\ UNCHANGED <<toGuest, toOwner>>
      BY <1>10, Domains, IdFacts DEF DeviceEnds, ownerVars, Held
    <2>. QED  BY <2>1, TokensCounted DEF TokenMoves
  <1>11. CASE dispatchJoinRoom
    <2>1. Receives("JoinRequest") /\ Held(i)' = Held(i) /\ UNCHANGED toGuest
      BY <1>11 DEF dispatchJoinRoom, Held
    <2>2. Count(toOwner', Okays(i)) = Count(toOwner, Okays(i))
      BY <2>1, ReceivedCount, TokensCounted
    <2>. QED  BY <2>1, <2>2, TokensCounted DEF TokenMoves
  <1>12. CASE handleOpen
    <2>1. Receives("OPEN") /\ Held(i)' = Held(i) /\ UNCHANGED toGuest
      BY <1>12 DEF handleOpen, Held
    <2>2. Count(toOwner', Okays(i)) = Count(toOwner, Okays(i))
      BY <2>1, ReceivedCount, TokensCounted
    <2>. QED  BY <2>1, <2>2, TokensCounted DEF TokenMoves
  <1>13. CASE OpenStreamRefused
    <2>1. PICK m : m = Msg("CLSE", 0, current.arg1)
      OBVIOUS
    <2>2. Held(i)' = Held(i) /\ UNCHANGED toOwner
      BY <1>13 DEF OpenStreamRefused, Held
    <2>3. m \in OwnerMsgs /\ m.cmd = "CLSE"
      BY <1>13, <2>1, RefusalType
         DEF OpenStreamRefused, ToOwnerInv, FromGuest, MessageInv, Msg
    <2>4. Sent(m) \/ UNCHANGED toGuest
      BY <1>13, <2>1 DEF OpenStreamRefused, SendFailed
    <2>5. Count(toGuest', Wrtes(i)) = Count(toGuest, Wrtes(i))
      BY <2>3, <2>4, SentCount, TokensCounted
    <2>. QED  BY <2>2, <2>5, TokensCounted DEF TokenMoves
  <1>14. CASE OpenStreamAccepted
    <2>1. CASE i = nextId + 1
      BY <1>14, <2>1, TokenMade DEF TokenMoves
    <2>2. CASE i # nextId + 1
      <3>1. Held(i)' = Held(i)
        BY <1>14, <2>2, Domains, AllocatedIds
           DEF OpenStreamAccepted, CallClose, Held
      <3>2. /\ Count(toGuest', Wrtes(i)) = Count(toGuest, Wrtes(i))
            /\ Count(toOwner', Okays(i)) = Count(toOwner, Okays(i))
        BY <1>14, OpenCounts
      <3>. QED  BY <3>1, <3>2, TokensCounted DEF TokenMoves
    <2>. QED  BY <2>1, <2>2
  <1>15. CASE handleWrite
    <2>1. Receives("WRTE") /\ Held(i)' = Held(i) /\ UNCHANGED toGuest
      BY <1>15 DEF handleWrite, Held
    <2>2. Count(toOwner', Okays(i)) = Count(toOwner, Okays(i))
      BY <2>1, ReceivedCount, TokensCounted
    <2>. QED  BY <2>1, <2>2, TokensCounted DEF TokenMoves
  <1>16. CASE handleWriteDevice
    <2>1. Held(i)' = Held(i) /\ UNCHANGED <<toGuest, toOwner>>
      BY <1>16, Domains, IdFacts DEF handleWriteDevice, CallClose, Held
    <2>. QED  BY <2>1, TokensCounted DEF TokenMoves
  <1>17. CASE handleWriteAck
    <2>1. PICK m : m = Msg("OKAY", current.arg2, current.arg1)
      OBVIOUS
    <2>2. Held(i)' = Held(i) /\ UNCHANGED toOwner
      BY <1>17 DEF handleWriteAck, Held
    <2>3. m \in OwnerMsgs /\ m.cmd = "OKAY"
      BY <1>17, <2>1, OwnerMsgType, AllocatedIds
         DEF handleWriteAck, FromGuest, MessageInv, ToOwnerInv, Msg
    <2>4. Sent(m) \/ UNCHANGED toGuest
      BY <1>17, <2>1 DEF handleWriteAck, SendFailed
    <2>5. Count(toGuest', Wrtes(i)) = Count(toGuest, Wrtes(i))
      BY <2>3, <2>4, SentCount, TokensCounted
    <2>. QED  BY <2>2, <2>5, TokensCounted DEF TokenMoves
  <1>18. CASE handleOkay
    <2>1. Receives("OKAY") /\ UNCHANGED <<toGuest, pump>>
      BY <1>18 DEF handleOkay
    <2>2. Count(toOwner, Okays(i)) = Count(toOwner', Okays(i)) + (IF current'.arg2 = i THEN 1 ELSE 0)
      BY <2>1, ReceivedCount
    <2>3. Tokens(i) =< 1
      BY DEF OneUnacknowledgedWrite
    <2>4. CASE current'.arg2 = i /\ i \in streams
      <3>1. Held(i) = 0
        BY <2>2, <2>3, <2>4, TokensCounted
      <3>2. Held(i)' = 1
        BY <1>18, <2>1, <2>4, <3>1, Domains DEF handleOkay, Held
      <3>. QED  BY <2>1, <2>2, <2>4, <3>1, <3>2, TokensCounted DEF TokenMoves
    <2>5. CASE current'.arg2 = i /\ i \notin streams
      <3>1. Held(i)' = Held(i)
        BY <1>18, <2>1, <2>5 DEF handleOkay, Held
      <3>2. i \in Allocated
        BY <2>1, <2>5, ReceivesMsg, ReceivesFromGuest DEF FromGuest, MessageInv
      <3>3. once[i] # "idle"
        BY <2>5, <3>2 DEF StreamInv
      <3>. QED  BY <2>1, <2>2, <3>1, <3>3, TokensCounted DEF TokenMoves
    <2>6. CASE current'.arg2 # i
      <3>1. Held(i)' = Held(i)
        BY <1>18, <2>1, <2>6, Domains DEF handleOkay, Held
      <3>. QED  BY <2>1, <2>2, <2>6, <3>1, TokensCounted DEF TokenMoves
    <2>. QED  BY <2>4, <2>5, <2>6
  <1>19. CASE handleClose
    <2>1. Receives("CLSE") /\ Held(i)' = Held(i) /\ UNCHANGED toGuest
      BY <1>19 DEF handleClose, CallClose, Held
    <2>2. Count(toOwner', Okays(i)) = Count(toOwner, Okays(i))
      BY <2>1, ReceivedCount, TokensCounted
    <2>. QED  BY <2>1, <2>2, TokensCounted DEF TokenMoves
  <1>20. CASE handleGuestLeft
    <2>1. Receives("GuestLeft") /\ Held(i)' = Held(i) /\ UNCHANGED toGuest
      BY <1>20 DEF handleGuestLeft, Held
    <2>2. Count(toOwner', Okays(i)) = Count(toOwner, Okays(i))
      BY <2>1, ReceivedCount, TokensCounted
    <2>. QED  BY <2>1, <2>2, TokensCounted DEF TokenMoves
  <1>21. CASE DispatchEnds
    <2>1. Held(i)' = Held(i) /\ UNCHANGED <<toGuest, toOwner>>
      BY <1>21, Domains, IdFacts DEF DispatchEnds, Held
    <2>. QED  BY <2>1, TokensCounted DEF TokenMoves
  <1>22. CASE closeAllStreams
    <2>1. Held(i)' = Held(i) /\ UNCHANGED <<toGuest, toOwner>>
      BY <1>22, Domains, IdFacts DEF closeAllStreams, CallClose, Held
    <2>. QED  BY <2>1, TokensCounted DEF TokenMoves
  <1>23. CASE handleJoinRoom
    <2>1. PICK m : m = JoinRequest(session + 1)
      OBVIOUS
    <2>2. /\ toOwner' = Append(toOwner, m) /\ Held(i)' = Held(i) /\ UNCHANGED toGuest
      BY <1>23, <2>1 DEF handleJoinRoom, ownerVars, Held
    <2>3. session + 1 \in 1..MaxSessions
      BY <1>23, GuestDomains, StreamBoundAssumption DEF handleJoinRoom
    <2>4. m \in GuestMsgs /\ m.cmd # "OKAY"
      BY <2>1, <2>3, JoinTypes
    <2>5. Count(toOwner', Okays(i)) = Count(toOwner, Okays(i))
      BY <2>2, <2>4, GuestSentCount, TokensCounted
    <2>. QED  BY <2>2, <2>5, TokensCounted DEF TokenMoves
  <1>24. ASSUME NEW s \in 1..MaxSessions, handleJoinRequest(s) PROVE TokenMoves(i)
    <2>1. Held(i)' = Held(i) /\ UNCHANGED toOwner
      BY <1>24 DEF handleJoinRequest, roomFrame, ownerVars, Held
    <2>2. CASE PlaceEmptied
      <3>1. Count(toGuest', Wrtes(i)) = 0
        BY <2>2, CountEmpty DEF PlaceEmptied
      <3>. QED  BY <2>1, <2>2, <3>1, TokensCounted DEF TokenMoves, PlaceEmptied
    <2>3. CASE ~PlaceEmptied
      <3>1. PICK m \in OwnerMsgs : m = Accepted(s) /\ m.cmd # "WRTE"
        BY JoinTypes
      <3>2. Sent(m) \/ UNCHANGED toGuest
        BY <1>24, <2>3, <3>1
           DEF handleJoinRequest, handleJoinRoomResponse, SendFailed
      <3>3. Count(toGuest', Wrtes(i)) = Count(toGuest, Wrtes(i))
        BY <3>1, <3>2, SentCount, TokensCounted
      <3>. QED  BY <2>1, <3>3, TokensCounted DEF TokenMoves
    <2>. QED  BY <2>2, <2>3
  <1>25. CASE handleClientDisconnected
    <2>1. /\ Held(i)' = Held(i) /\ toOwner' = Append(toOwner, GuestLeftMsg)
          /\ stage' # "relaying"
      BY <1>25
         DEF handleClientDisconnected, PlaceEmptied, roomFrame, ownerVars, Held
    <2>2. Count(toOwner', Okays(i)) = Count(toOwner, Okays(i))
      <3>1. GuestLeftMsg \in GuestMsgs /\ GuestLeftMsg.cmd # "OKAY"
        BY GuestLeftType DEF GuestLeftMsg, Msg
      <3>2. Count(toOwner', Okays(i)) = Count(toOwner, Okays(i)) + 0
        BY <2>1, <3>1, GuestSentCount
      <3>3. Count(toOwner, Okays(i)) \in Nat
        BY TokensCounted
      <3>. QED  BY <3>2, <3>3
    <2>3. Count(toGuest', Wrtes(i)) = 0
      BY <1>25, CountEmpty DEF handleClientDisconnected, PlaceEmptied
    <2>. QED  BY <2>1, <2>2, <2>3, TokensCounted DEF TokenMoves
  <1>26. CASE roomJoinStep
    <2>1. Held(i)' = Held(i) /\ UNCHANGED toOwner /\ stage' # "relaying" /\ toGuest # <<>>
      BY <1>26 DEF roomJoinStep, GuestEnds, roomFrame, ownerVars, Held
    <2>2. toGuest' = <<>> \/ toGuest' = Tail(toGuest)
      BY <1>26 DEF roomJoinStep, GuestEnds
    <2>3. Count(toGuest', Wrtes(i)) =< Count(toGuest, Wrtes(i))
      <3>1. CASE toGuest' = <<>>
        BY <3>1, CountEmpty, TokensCounted
      <3>2. CASE toGuest' = Tail(toGuest)
        BY <2>1, <3>2, GuestReceivedCount, TokensCounted
      <3>. QED  BY <2>2, <3>1, <3>2
    <2>. QED  BY <2>1, <2>3, TokensCounted DEF TokenMoves
  <1>27. CASE GuestLeaves
    <2>1. Held(i)' = Held(i) /\ UNCHANGED toOwner /\ stage' # "relaying"
      BY <1>27 DEF GuestLeaves, GuestEnds, roomFrame, ownerVars, Held
    <2>2. Count(toGuest', Wrtes(i)) = 0
      BY <1>27, CountEmpty DEF GuestLeaves, GuestEnds, roomFrame
    <2>. QED  BY <2>1, <2>2, TokensCounted DEF TokenMoves
  <1>28. CASE GuestConnects
    <2>1. Held(i)' = Held(i) /\ UNCHANGED <<toGuest, toOwner>>
      BY <1>28, Domains, IdFacts DEF GuestConnects, roomFrame, ownerVars, Held
    <2>. QED  BY <2>1, TokensCounted DEF TokenMoves
  <1>29. CASE GuestDisconnects
    <2>1. Held(i)' = Held(i) /\ UNCHANGED <<toGuest, toOwner>>
      BY <1>29, Domains, IdFacts DEF GuestDisconnects, roomFrame, ownerVars, Held
    <2>. QED  BY <2>1, TokensCounted DEF TokenMoves
  <1>30. CASE GuestDiscards
    <2>1. /\ Held(i)' = Held(i) /\ UNCHANGED toOwner /\ toGuest # <<>> /\ toGuest' = Tail(toGuest)
          /\ stage' # "relaying"
      BY <1>30 DEF GuestDiscards, ownerVars, guestVars, Held
    <2>2. Count(toGuest', Wrtes(i)) =< Count(toGuest, Wrtes(i))
      BY <2>1, GuestReceivedCount, TokensCounted
    <2>. QED  BY <2>1, <2>2, TokensCounted DEF TokenMoves
  <1>31. CASE GuestReceives
    <2>1. PICK m : m = Head(toGuest)
      OBVIOUS
    <2>2. Held(i)' = Held(i) /\ toGuest # <<>> /\ toGuest' = Tail(toGuest)
      BY <1>31 DEF GuestReceives, ownerVars, Held
    <2>3. /\ m \in OwnerMsgs
          /\ Count(toGuest, Wrtes(i)) = Count(toGuest', Wrtes(i))
                + (IF m.cmd = "WRTE" /\ m.arg1 = i THEN 1 ELSE 0)
      BY <2>1, <2>2, GuestReceivedCount
    <2>4. CASE m.cmd = "WRTE" /\ toOwner' = Append(toOwner, Msg("OKAY", m.arg2, m.arg1))
      <3>1. PICK r : r = Msg("OKAY", m.arg2, m.arg1)
        OBVIOUS
      <3>2. r \in GuestMsgs /\ r.cmd = "OKAY" /\ r.arg2 = m.arg1
        BY <2>3, <2>4, <3>1, MsgArgs, GuestMsgType DEF Msg
      <3>3. toOwner' = Append(toOwner, r)
        BY <2>4, <3>1
      <3>4. Count(toOwner', Okays(i)) = Count(toOwner, Okays(i)) + (IF m.arg1 = i THEN 1 ELSE 0)
        BY <3>2, <3>3, GuestSentCount
      <3>. QED  BY <2>2, <2>3, <2>4, <3>4, TokensCounted DEF TokenMoves
    <2>5. CASE UNCHANGED toOwner /\ (m.cmd = "WRTE" => ~Matches(m))
      BY <1>31, <2>1, <2>2, <2>3, <2>5, TokensCounted DEF TokenMoves, Unmatched
    <2>. QED  BY <1>31, <2>1, <2>4, <2>5 DEF GuestReceives
  <1>32. ASSUME NEW g \in GuestIds, GuestOpens(g) PROVE TokenMoves(i)
    <2>1. PICK m : m = Msg("OPEN", g, 0)
      OBVIOUS
    <2>2. /\ toOwner' = Append(toOwner, m) /\ Held(i)' = Held(i) /\ UNCHANGED toGuest
      BY <1>32, <2>1 DEF GuestOpens, ownerVars, Held
    <2>3. m \in GuestMsgs /\ m.cmd # "OKAY"
      BY <1>32, <2>1, GuestMsgType DEF GuestOpens, Msg, TypeOK, GuestTypeOK
    <2>4. Count(toOwner', Okays(i)) = Count(toOwner, Okays(i))
      BY <2>2, <2>3, GuestSentCount, TokensCounted
    <2>. QED  BY <2>2, <2>4, TokensCounted DEF TokenMoves
  <1>33. ASSUME NEW g \in GuestIds, GuestWrites(g) PROVE TokenMoves(i)
    <2>1. PICK m : m = Msg("WRTE", g, guest[g].peer)
      OBVIOUS
    <2>2. /\ toOwner' = Append(toOwner, m) /\ Held(i)' = Held(i) /\ UNCHANGED toGuest
      BY <1>33, <2>1 DEF GuestWrites, ownerVars, Held
    <2>3. m \in GuestMsgs /\ m.cmd # "OKAY"
      BY <1>33, <2>1, GuestMsgType DEF GuestWrites, Msg, TypeOK, GuestTypeOK
    <2>4. Count(toOwner', Okays(i)) = Count(toOwner, Okays(i))
      BY <2>2, <2>3, GuestSentCount, TokensCounted
    <2>. QED  BY <2>2, <2>4, TokensCounted DEF TokenMoves
  <1>34. ASSUME NEW g \in GuestIds, GuestCloses(g) PROVE TokenMoves(i)
    <2>1. PICK m : m = Msg("CLSE", g, guest[g].peer)
      OBVIOUS
    <2>2. /\ toOwner' = Append(toOwner, m) /\ Held(i)' = Held(i) /\ UNCHANGED toGuest
      BY <1>34, <2>1 DEF GuestCloses, ownerVars, Held
    <2>3. m \in GuestMsgs /\ m.cmd # "OKAY"
      BY <1>34, <2>1, GuestMsgType DEF GuestCloses, Msg, TypeOK, GuestTypeOK
    <2>4. Count(toOwner', Okays(i)) = Count(toOwner, Okays(i))
      BY <2>2, <2>3, GuestSentCount, TokensCounted
    <2>. QED  BY <2>2, <2>4, TokensCounted DEF TokenMoves
  <1>35. CASE TransportLost
    <2>1. Held(i)' = Held(i) /\ UNCHANGED toOwner /\ stage' # "relaying"
      BY <1>35 DEF TransportLost, PlaceEmptied, ownerVars, Held
    <2>2. Count(toGuest', Wrtes(i)) = 0
      BY <1>35, CountEmpty DEF TransportLost, PlaceEmptied
    <2>. QED  BY <2>1, <2>2, TokensCounted DEF TokenMoves
  <1>36. CASE UNCHANGED vars
    <2>1. Held(i)' = Held(i) /\ UNCHANGED <<toGuest, toOwner>>
      BY <1>36 DEF vars, Held
    <2>. QED  BY <2>1, TokensCounted DEF TokenMoves
  <1>. QED
    BY <1>1, <1>2, <1>3, <1>4, <1>5, <1>6, <1>7, <1>8, <1>9, <1>10, <1>11,
       <1>12, <1>13, <1>14, <1>15, <1>16, <1>17, <1>18, <1>19, <1>20, <1>21,
       <1>22, <1>23, <1>24, <1>25, <1>26, <1>27, <1>28, <1>29, <1>30, <1>31,
       <1>32, <1>33, <1>34, <1>35, <1>36
       DEF Next, CloseNext, PumpNext, DispatchNext, RoomNext, GuestNext

\* Sending is the only use of a token, and only opening a stream makes one.
LEMMA OneUnacknowledgedWriteStep ==
    ASSUME TypeOK, TypeOK', CloseInv, StreamInv, MessageInv, OneUnacknowledgedWrite,
           [Next]_vars
    PROVE  OneUnacknowledgedWrite'
  <1>1. ASSUME NEW i \in Ids PROVE Tokens(i)' =< 1
    <2>1. TokenMoves(i) /\ Tokens(i) =< 1
      BY TokenStep DEF OneUnacknowledgedWrite
    <2>2. Tokens(i) \in Nat /\ Tokens(i)' \in Nat
      BY TokensCounted
    <2>. QED  BY <2>1, <2>2 DEF TokenMoves
  <1>. QED  BY <1>1 DEF OneUnacknowledgedWrite

\* A stream the guest can claim, because it has it open or waits for its OKAY,
\* it could claim before, unless the owner has just opened it.
LEMMA WantedStep ==
    ASSUME TypeOK, StreamInv, MessageInv, GuestStreamInv, [Next]_vars, NEW i
           \in Allocated, Wanted(i)', stage' = "relaying"
    PROVE  Wanted(i)
  <1>. USE DEF Wanted, Claims, GuestHas, Rightful, Admitted
  <1>1. ASSUME NEW t \in Threads, CloseEnter(t) PROVE Wanted(i)
    BY <1>1, Domains, GuestDomains, AllocatedIds
       DEF CloseEnter, ReturnFromClose, guestVars, joinVars
  <1>2. ASSUME NEW t \in Threads, CloseUnregister(t) PROVE Wanted(i)
    BY <1>2, Domains, GuestDomains, AllocatedIds
       DEF CloseUnregister, ReturnFromClose, guestVars, joinVars
  <1>3. ASSUME NEW t \in Threads, CloseNotifyGuest(t) PROVE Wanted(i)
    BY <1>3, Domains, GuestDomains, AllocatedIds
       DEF CloseNotifyGuest, ReturnFromClose, Sent, SendFailed, Msg, guestVars,
           joinVars
  <1>4. ASSUME NEW n \in Ids, PumpReads(n) PROVE Wanted(i)
    BY <1>4, Domains, GuestDomains, AllocatedIds
       DEF PumpReads, pumpFrame, guestVars, joinVars
  <1>5. ASSUME NEW n \in Ids, PumpReadFails(n) PROVE Wanted(i)
    BY <1>5, Domains, GuestDomains, AllocatedIds
       DEF PumpReadFails, pumpFrame, CallClose, guestVars, joinVars
  <1>6. ASSUME NEW n \in Ids, PumpTakesPermit(n) PROVE Wanted(i)
    BY <1>6, Domains, GuestDomains, AllocatedIds
       DEF PumpTakesPermit, pumpFrame, guestVars, joinVars
  <1>7. ASSUME NEW n \in Ids, PumpSeesDone(n) PROVE Wanted(i)
    BY <1>7, Domains, GuestDomains, AllocatedIds
       DEF PumpSeesDone, pumpFrame, guestVars, joinVars
  <1>8. ASSUME NEW n \in Ids, PumpSends(n) PROVE Wanted(i)
    BY <1>8, Domains, GuestDomains, AllocatedIds
       DEF PumpSends, pumpFrame, CallClose, Sent, Msg, guestVars, joinVars
  <1>9. ASSUME NEW n \in Ids, PumpSendFails(n) PROVE Wanted(i)
    BY <1>9, Domains, GuestDomains, AllocatedIds
       DEF PumpSendFails, pumpFrame, CallClose, SendFailed, guestVars, joinVars
  <1>10. ASSUME NEW n \in Ids, DeviceEnds(n) PROVE Wanted(i)
    BY <1>10, Domains, GuestDomains, AllocatedIds
       DEF DeviceEnds, ownerVars, guestVars, joinVars
  <1>11. CASE dispatchJoinRoom
    BY <1>11, Domains, GuestDomains, AllocatedIds
       DEF dispatchJoinRoom, Receives, guestVars, joinVars
  <1>12. CASE handleOpen
    BY <1>12, Domains, GuestDomains, AllocatedIds
       DEF handleOpen, Receives, guestVars, joinVars
  <1>13. CASE OpenStreamRefused
    BY <1>13, Domains, GuestDomains, AllocatedIds
       DEF OpenStreamRefused, Sent, SendFailed, Msg, guestVars, joinVars
  <1>14. CASE OpenStreamAccepted
    <2>1. /\ UNCHANGED <<guest, session, once, stage, own>>
          /\ born'[i] = born[i] /\ guestOf'[i] = guestOf[i]
      BY <1>14, AllocatedIds, GuestDomains
         DEF OpenStreamAccepted, guestVars, joinVars
    <2>. QED  BY <2>1
  <1>15. CASE handleWrite
    BY <1>15, Domains, GuestDomains, AllocatedIds
       DEF handleWrite, Receives, guestVars, joinVars
  <1>16. CASE handleWriteDevice
    BY <1>16, Domains, GuestDomains, AllocatedIds
       DEF handleWriteDevice, CallClose, guestVars, joinVars
  <1>17. CASE handleWriteAck
    BY <1>17, Domains, GuestDomains, AllocatedIds
       DEF handleWriteAck, Sent, SendFailed, CallClose, Msg, guestVars,
           joinVars
  <1>18. CASE handleOkay
    BY <1>18, Domains, GuestDomains, AllocatedIds
       DEF handleOkay, Receives, guestVars, joinVars
  <1>19. CASE handleClose
    BY <1>19, Domains, GuestDomains, AllocatedIds
       DEF handleClose, Receives, CallClose, guestVars, joinVars
  <1>20. CASE handleGuestLeft
    BY <1>20, Domains, GuestDomains, AllocatedIds
       DEF handleGuestLeft, Receives, guestVars, joinVars
  <1>21. CASE DispatchEnds
    BY <1>21, Domains, GuestDomains, AllocatedIds
       DEF DispatchEnds, guestVars, joinVars
  <1>22. CASE closeAllStreams
    BY <1>22, Domains, GuestDomains, AllocatedIds
       DEF closeAllStreams, CallClose, guestVars, joinVars
  <1>23. CASE handleJoinRoom
    <2>1. stage' # "relaying"
      BY <1>23 DEF handleJoinRoom
    <2>. QED  BY <2>1
  <1>24. ASSUME NEW s \in 1..MaxSessions, handleJoinRequest(s) PROVE Wanted(i)
    <2>1. ~PlaceEmptied
      BY DEF PlaceEmptied
    <2>2. UNCHANGED <<born, guestOf, session, once, stage, own, guest>>
      BY <1>24, <2>1
         DEF handleJoinRequest, handleJoinRoomResponse, roomFrame, ownerVars
    <2>. QED  BY <2>2
  <1>25. CASE handleClientDisconnected
    <2>1. stage' # "relaying"
      BY <1>25 DEF handleClientDisconnected, PlaceEmptied
    <2>. QED  BY <2>1
  <1>26. CASE roomJoinStep
    <2>1. stage' # "relaying"
      BY <1>26 DEF roomJoinStep, GuestEnds
    <2>. QED  BY <2>1
  <1>27. CASE GuestLeaves
    <2>1. stage' # "relaying"
      BY <1>27 DEF GuestLeaves, GuestEnds
    <2>. QED  BY <2>1
  <1>28. CASE GuestConnects
    <2>1. /\ UNCHANGED <<born, guestOf, guest>>
          /\ \A g \in GuestIds : guest[g].state \notin {"opening", "open"}
      BY <1>28 DEF GuestConnects, roomFrame, ownerVars, MessageInv, RoomInv
    <2>2. guestOf[i] \in GuestIds
      BY DEF MessageInv, RoomInv
    <2>. QED  BY <2>1, <2>2
  <1>29. CASE GuestDisconnects
    <2>1. stage' # "relaying"
      BY <1>29 DEF GuestDisconnects
    <2>. QED  BY <2>1
  <1>30. CASE GuestDiscards
    <2>1. stage' # "relaying"
      BY <1>30 DEF GuestDiscards, guestVars
    <2>. QED  BY <2>1
  <1>31. CASE GuestReceives
    <2>1. PICK m \in OwnerMsgs : m = Head(toGuest) /\ FromOwner(m)
      BY <1>31, HeadTailProperties, GuestDomains
         DEF GuestReceives, MessageInv, ToGuestInv
    <2>2. m.cmd # "Accepted" => m.arg2 \in GuestIds
      BY MsgArgs
    <2>3. UNCHANGED <<born, guestOf, session, stage, own, once>>
      BY <1>31 DEF GuestReceives, ownerVars, joinVars
    <2>4. CASE guest' = guest
      BY <2>3, <2>4
    <2>5. CASE guest' # guest
      <3>1. m.cmd # "Accepted"
        BY <1>31, <2>1, <2>5 DEF GuestReceives
      <3>2. \A g \in GuestIds : g # m.arg2 => guest'[g] = guest[g]
        BY <1>31, <2>1, <2>2, <3>1, GuestDomains DEF GuestReceives
      <3>3. \/ guest'[m.arg2].state = guest[m.arg2].state /\ guest'[m.arg2].peer = guest[m.arg2].peer
            \/ guest'[m.arg2].state = "closed"
            \/ /\ m.cmd = "OKAY" /\ guest[m.arg2].state = "opening"
               /\ guest'[m.arg2].state = "open" /\ guest'[m.arg2].peer = m.arg1
        BY <1>31, <2>1, <2>2, <3>1, GuestDomains
           DEF GuestReceives, TypeOK, GuestTypeOK
      <3>4. guestOf[i] \in GuestIds
        BY DEF MessageInv, RoomInv
      <3>. QED  BY <2>1, <2>2, <2>3, <3>1, <3>2, <3>3, <3>4 DEF FromOwner
    <2>. QED  BY <2>4, <2>5
  <1>32. ASSUME NEW g \in GuestIds, GuestOpens(g) PROVE Wanted(i)
    <2>1. /\ UNCHANGED <<born, guestOf, session, stage, own, once>>
          /\ guest[g].state = "none"
          /\ guest'[g].state = "opening"
          /\ \A h \in GuestIds : h # g => guest'[h] = guest[h]
      BY <1>32, GuestDomains DEF GuestOpens, ownerVars, joinVars, NoStream
    <2>2. born[i] = session => guestOf[i] # g
      BY <2>1, Zenon DEF GuestStreamInv, Asked
    <2>. QED  BY <2>1, <2>2 DEF MessageInv, RoomInv
  <1>33. ASSUME NEW g \in GuestIds, GuestWrites(g) PROVE Wanted(i)
    BY <1>33, Domains, GuestDomains, AllocatedIds
       DEF GuestWrites, ownerVars, Msg, guestVars, joinVars
  <1>34. ASSUME NEW g \in GuestIds, GuestCloses(g) PROVE Wanted(i)
    BY <1>34, Domains, GuestDomains, AllocatedIds
       DEF GuestCloses, ownerVars, Msg, guestVars, joinVars
  <1>35. CASE TransportLost
    <2>1. stage' # "relaying"
      BY <1>35 DEF TransportLost, PlaceEmptied
    <2>. QED  BY <2>1
  <1>36. CASE UNCHANGED vars
    BY <1>36, Domains, GuestDomains, AllocatedIds DEF vars, guestVars, joinVars
  <1>. QED
    BY <1>1, <1>2, <1>3, <1>4, <1>5, <1>6, <1>7, <1>8, <1>9, <1>10, <1>11,
       <1>12, <1>13, <1>14, <1>15, <1>16, <1>17, <1>18, <1>19, <1>20, <1>21,
       <1>22, <1>23, <1>24, <1>25, <1>26, <1>27, <1>28, <1>29, <1>30, <1>31,
       <1>32, <1>33, <1>34, <1>35, <1>36
       DEF Next, CloseNext, PumpNext, DispatchNext, RoomNext, GuestNext

\* Only OpenStreamAccepted gives out a stream id.
LEMMA OpensOnly ==
    ASSUME [Next]_vars
    PROVE  nextId' = nextId \/ OpenStreamAccepted
  <1>1. ASSUME NEW t \in Threads, CloseNext(t) PROVE nextId' = nextId
    BY <1>1 DEF CloseNext, CloseEnter, CloseUnregister, CloseNotifyGuest
  <1>2. ASSUME NEW i \in Ids, PumpNext(i) PROVE nextId' = nextId
    BY <1>2 DEF PumpNext, pumpFrame, PumpReads, PumpReadFails, PumpTakesPermit,
                PumpSeesDone, PumpSends, PumpSendFails
  <1>3. ASSUME DispatchNext, ~OpenStreamAccepted PROVE nextId' = nextId
    BY <1>3 DEF DispatchNext, dispatchJoinRoom, handleOpen, OpenStreamRefused,
                handleWrite, handleWriteDevice, handleWriteAck, handleOkay,
                handleClose, handleGuestLeft, DispatchEnds, closeAllStreams
  <1>. QED  BY <1>1, <1>2, <1>3, OtherSteps DEF Elsewhere, ownerVars

\* The token of a stream the guest wants is not lost: no WRTE of it reaches the
\* guest before the guest knows the stream, or while nobody relays.
LEMMA TokenInvStep ==
    ASSUME TypeOK, TypeOK', CloseInv, StreamInv, MessageInv, MessageInv',
           GuestStreamInv, OneUnacknowledgedWrite, OrderInv, TokenInv, [Next]_vars
    PROVE  TokenInv'
  <1>1. SUFFICES ASSUME NEW i \in Allocated', Wanted(i)'
                 PROVE  Tokens(i)' = 1
    BY Zenon DEF TokenInv
  <1>2. i \in Allocated \/ (OpenStreamAccepted /\ i = nextId + 1)
    <2>1. CASE nextId' = nextId
      BY <2>1 DEF Allocated
    <2>2. CASE OpenStreamAccepted
      BY <2>2, AllocatedIds DEF OpenStreamAccepted
    <2>. QED  BY <2>1, <2>2, OpensOnly
  <1>3. CASE OpenStreamAccepted /\ i = nextId + 1
    BY <1>3, TokenMade
  <1>4. ASSUME i \in Allocated PROVE Tokens(i)' = 1
    <2>1. i \in Ids /\ guestOf[i] \in GuestIds
      BY <1>4, AllocatedIds DEF MessageInv, RoomInv
    <2>2. stage' = "relaying"
      BY <1>1 DEF Wanted, Claims, GuestHas, MessageInv, RoomInv
    <2>3. Wanted(i)
      BY <1>1, <1>4, <2>2, WantedStep
    <2>4. Tokens(i) = 1
      BY <1>4, <2>3 DEF TokenInv
    <2>5. TokenMoves(i) /\ Tokens(i)' \in Nat
      BY <2>1, TokenStep, TokensCounted
    <2>6. once[i] = "idle" /\ Rightful /\ born[i] = session /\ Claims(i)
      BY <2>3 DEF Wanted
    <2>7. ASSUME Unmatched(i) PROVE FALSE
      <3>1. PICK m \in OwnerMsgs :
               /\ m = toGuest[1] /\ 1 \in DOMAIN toGuest /\ m = Head(toGuest)
               /\ FromOwner(m)
        BY <2>7, HeadTailProperties, GuestDomains
           DEF Unmatched, GuestReceives, MessageInv, ToGuestInv
      <3>2. m.cmd = "WRTE" /\ m.arg1 = i /\ m.arg2 = guestOf[i] /\ ~Matches(m)
        BY <2>7, <3>1 DEF Unmatched, FromOwner
      <3>3. ~GuestHas(i)
        BY <2>6, <3>2 DEF GuestHas, MessageInv, ToGuestInv, Matches
      <3>4. OkayComes(i)
        BY <1>4, <2>6, <3>3 DEF Claims, OrderInv
      <3>5. PICK j \in DOMAIN toGuest :
               \A k \in 1..j : ~(toGuest[k].cmd = "WRTE" /\ toGuest[k].arg1 = i)
        BY <3>4 DEF OkayComes, OkayAhead
      <3>6. 1 \in 1..j
        BY <3>5, GuestDomains
      <3>. QED  BY <3>1, <3>2, <3>5, <3>6
    <2>. QED  BY <2>2, <2>4, <2>5, <2>6, <2>7 DEF TokenMoves
  <1>. QED  BY <1>2, <1>3, <1>4

-----------------------------------------------------------------------------
(* The inductive invariant *)

\* A room that has just been opened satisfies the invariant,
LEMMA OwnerInit == Init => OwnerInv
  <1>. SUFFICES ASSUME Init PROVE OwnerInv
    OBVIOUS
  <1>1. Allocated = {}
    BY DEF Init, Allocated
  <1>2. StreamTypeOK
    BY StreamBoundAssumption DEF Init, StreamTypeOK
  <1>3. DispTypeOK
    BY GuestLeftType DEF Init, DispTypeOK
  <1>4. GuestTypeOK
    <2>1. toOwner \in Seq(GuestMsgs) /\ toGuest \in Seq(OwnerMsgs)
      BY EmptySeq DEF Init
    <2>2. NoStream \in [state : {"none", "opening", "open", "closed"},
                        peer : Ids \cup {0}, ready : BOOLEAN]
      BY DEF NoStream
    <2>3. guest \in [GuestIds -> [state : {"none", "opening", "open", "closed"},
                                 peer : Ids \cup {0}, ready : BOOLEAN]]
      BY <2>2 DEF Init, NoStreams
    <2>4. session \in 0..MaxSessions /\ heard \in 0..MaxSessions /\ writes \in 0..MaxWrites
      BY StreamBoundAssumption DEF Init
    <2>. QED  BY <2>1, <2>3, <2>4 DEF Init, GuestTypeOK
  <1>5. TypeOK
    BY <1>2, <1>3, <1>4 DEF TypeOK
  <1>6. CloseInv
    BY IdFacts DEF Init, CloseInv
  <1>7. StreamInv /\ CloseAllInv
    BY <1>1 DEF Init, StreamInv, CloseAllInv
  <1>8. toOwner = <<>> /\ toGuest = <<>> /\ DOMAIN toOwner = {} /\ DOMAIN toGuest = {}
    BY DEF Init
  <1>9. MessageInv
    BY <1>1, <1>8
       DEF Init, NoStreams, NoStream, MessageInv, RoomInv, ToOwnerInv, ToGuestInv
  <1>10. JoinInv
    BY <1>8 DEF Init, JoinInv, RequestOrder, ArrivalInv, OwnInv, Newcomer, Admitted
  <1>11. DepartureInv
    BY <1>8 DEF Init, DepartureInv, Newcomer, Settled
  <1>12. GuestStreamInv /\ OrderInv /\ TokenInv
    BY <1>1 DEF Init, GuestStreamInv, OrderInv, TokenInv, Rightful, Admitted
  <1>13. ASSUME NEW i \in Ids PROVE Tokens(i) = 0
    <2>1. /\ {k \in DOMAIN toGuest : toGuest[k].cmd = "WRTE" /\ toGuest[k].arg1 = i} = {}
          /\ {k \in DOMAIN toOwner : toOwner[k].cmd = "OKAY" /\ toOwner[k].arg2 = i} = {}
      BY <1>8
    <2>2. ~permit[i] /\ pump[i] = "none"
      BY DEF Init
    <2>3. Cardinality({}) = 0
      BY FS_EmptySet
    <2>4. Tokens(i) = Cardinality({}) + Cardinality({}) + 0 + 0
      BY <2>1, <2>2 DEF Tokens
    <2>. QED  BY <2>3, <2>4
  <1>14. OneUnacknowledgedWrite
    BY <1>13 DEF OneUnacknowledgedWrite
  <1>. QED
    BY <1>5, <1>6, <1>7, <1>9, <1>10, <1>11, <1>12, <1>14 DEF OwnerInv

\* ... and every step keeps it.
LEMMA OwnerNext == OwnerInv /\ [Next]_vars => OwnerInv'
  <1>. SUFFICES ASSUME OwnerInv, [Next]_vars PROVE OwnerInv'
    OBVIOUS
  <1>1. /\ TypeOK /\ CloseInv /\ StreamInv /\ CloseAllInv
        /\ MessageInv /\ RoomInv /\ ToOwnerInv /\ ToGuestInv
        /\ JoinInv /\ RequestOrder /\ ArrivalInv /\ OwnInv
        /\ DepartureInv /\ GuestStreamInv /\ OrderInv
        /\ OneUnacknowledgedWrite /\ TokenInv
    BY DEF OwnerInv, MessageInv, JoinInv
  <1>2. TypeOK'
    BY <1>1, StreamTypeStep, DispTypeStep, GuestTypeStep DEF TypeOK
  <1>3. CloseInv' /\ StreamInv' /\ CloseAllInv'
    BY <1>1, CloseStep, StreamStep, CloseAllStep
  <1>4. MessageInv'
    BY <1>1, RoomStep, ToOwnerStep, ToGuestStep DEF MessageInv
  <1>5. JoinInv'
    BY <1>1, <1>4, JoinStep
  <1>6. DepartureInv'
    BY <1>1, <1>4, DepartureStep
  <1>7. GuestStreamInv'
    BY <1>1, GuestStreamStep
  <1>8. OrderInv'
    BY <1>1, <1>4, OrderStep
  <1>9. OneUnacknowledgedWrite' /\ TokenInv'
    BY <1>1, <1>2, <1>4, OneUnacknowledgedWriteStep, TokenInvStep
  <1>. QED
    BY <1>2, <1>3, <1>4, <1>5, <1>6, <1>7, <1>8, <1>9 DEF OwnerInv

\* Every reachable state of the owner, the room, its guests and the queues
\* between them satisfies the inductive invariant, whichever guest an answer
\* reaches and whether or not the owner is told of a departure.
THEOREM OwnerInvariant == Spec => []OwnerInv
  BY OwnerInit, OwnerNext, PTL DEF Spec

-----------------------------------------------------------------------------
(* What it implies *)

\* Every variable keeps its type, also where messages of the guest index the
\* owner's arrays (handleWrite, handleOkay, handleClose).
THEOREM TypeCorrect == Spec => []TypeOK
  <1>1. OwnerInv => TypeOK
    BY DEF OwnerInv
  <1>. QED  BY <1>1, OwnerInvariant, PTL

\* sendPermit: never two unacknowledged WRTEs of a stream.
THEOREM FlowControl == Spec => []OneUnacknowledgedWrite
  <1>1. OwnerInv => OneUnacknowledgedWrite
    BY DEF OwnerInv
  <1>. QED  BY <1>1, OwnerInvariant, PTL

\* The right to send is never lost while the owner and a guest that was let in
\* by its own answer have the stream open.
THEOREM TokenIsNotLost == Spec => []TokenNotLost
  <1>1. ASSUME OwnerInv, NEW i \in streams, Rightful, once[i] = "idle", GuestHas(i)
        PROVE  Tokens(i) = 1
    <2>1. i \in Allocated /\ born[i] = session
      BY <1>1 DEF OwnerInv, StreamInv, GuestStreamInv, GuestHas
    <2>. QED  BY <1>1, <2>1 DEF OwnerInv, TokenInv, Wanted, Claims
  <1>2. OwnerInv => TokenNotLost
    BY <1>1 DEF TokenNotLost
  <1>. QED  BY <1>2, OwnerInvariant, PTL

\* closeOnce: whoever calls closeStream, the guest gets at most one CLSE.
THEOREM ClosedOnce == Spec => []OneClosePerStream
  <1>1. OwnerInv => OneClosePerStream
    BY DEF OwnerInv, StreamInv, OneClosePerStream
  <1>. QED  BY <1>1, OwnerInvariant, PTL

\* No connection to the local adb-server outlives its stream or the room, nor
\* its guest as long as no answer went astray: an answer that went to the guest
\* it is about found what its predecessor had left handled.
THEOREM DevicesAreReleased == Spec => []NoDeviceLeak
  <1>1. ASSUME OwnerInv, NEW i \in Allocated
        PROVE  \/ device[i] = "closed"
               \/ /\ i \in streams /\ disp # "returned"
                  /\ Admitted /\ ~astray => born[i] = session
    <2>1. i \in Ids
      BY <1>1, AllocatedIds DEF OwnerInv
    <2>2. i \notin streams => device[i] = "closed"
      BY <1>1, <2>1 DEF OwnerInv, StreamInv
    <2>3. i \in streams => disp # "returned"
      BY <1>1 DEF OwnerInv, CloseAllInv
    <2>4. ASSUME i \in streams, Admitted, ~astray PROVE born[i] = session
      <3>1. born[i] = heard
        BY <1>1, <2>4 DEF OwnerInv, DepartureInv
      <3>2. heard = session
        BY <1>1, <2>4 DEF OwnerInv, JoinInv, OwnInv
      <3>. QED  BY <3>1, <3>2
    <2>. QED  BY <2>2, <2>3, <2>4
  <1>2. OwnerInv => NoDeviceLeak
    BY <1>1 DEF NoDeviceLeak, Allocated
  <1>. QED  BY <1>2, OwnerInvariant, PTL

\* The open streams of a guest that was let in by its own answer were opened for
\* it, under the id it uses, although the streams of a guest let in by another's
\* answer may still be in the map, and their messages under way, while it asked.
THEOREM GuestsAreIsolated == Spec => []SessionIsolation
  <1>1. OwnerInv => SessionIsolation
    BY DEF OwnerInv, GuestStreamInv, MessageInv, ToGuestInv, SessionIsolation
  <1>. QED  BY <1>1, OwnerInvariant, PTL
===============================================================================
