--------------------------- MODULE GuestRelayProofs ---------------------------
(***************************************************************************)
(* Proofs about GuestRelay for any set of local connections, finite or     *)
(* not, and any number of messages.                                        *)
(***************************************************************************)
EXTENDS GuestRelay, FiniteSetTheorems, TLAPS

-----------------------------------------------------------------------------
(* The inductive invariant *)

\* relay.Run is running for current, and only a connection being relayed has
\* pumps that run or is open beyond the hand-over; once Run has cancelled, its
\* connection is closed.
RelayInv ==
    /\ guest = "relaying" <=> current # NoLocal
    /\ \A c \in Locals :
          /\ l2r[c] \notin {"none", "ended"} => current = c
          /\ r2l[c] \notin {"none", "ended"} => current = c
          /\ local[c] \in {"relayed", "gone"} => current = c
          /\ relayCancelled[c] => local[c] = "closed"

\* What JoinAsGuest has set up, and what its deferred calls have undone, by
\* where it is.
CleanUpInv ==
    /\ adbConnected => guest \in {"idle", "relaying", "disconnect"}
    /\ listening => guest \in {"adbConnect", "idle", "relaying", "disconnect",
                               "stop", "stopListener"}
    /\ app \in {"closing", "closed"} => guest = "returned"

\* What the TUI shows by where the guest flow is, until the user quits.
StageInv ==
    app = "running" =>
        /\ guest \in {"join", "joinWait"} => stage = "joiningRoom"
        /\ guest \in {"disconnect", "stop", "stopListener"} => stage = "disconnected"
        /\ guest = "returned" =>
              stage \in FinalStages \/ (stage = "joiningRoom" /\ reader = "ended")

GuestInv ==
    TypeOK /\ RelayInv /\ CleanUpInv /\ StageInv /\ ContainersAccountedFor

-----------------------------------------------------------------------------
(* Counting the pumps that hold a container *)

\* The connections whose pump (f is l2r or r2l) is in state s.
In(f, s) == {c \in Locals : f[c] = s}

\* If only one connection can have a pump in a state, at most one has.
LEMMA AtMostOneIn ==
    ASSUME NEW f, NEW s, NEW x, \A c \in Locals : f[c] = s => c = x
    PROVE  IsFiniteSet(In(f, s)) /\ Cardinality(In(f, s)) \in 0..1
  <1>1. In(f, s) \in SUBSET {x}
    BY DEF In
  <1>2. IsFiniteSet({x}) /\ Cardinality({x}) = 1
    BY FS_Singleton
  <1>3. IsFiniteSet(In(f, s)) /\ Cardinality(In(f, s)) =< Cardinality({x})
    BY <1>1, <1>2, FS_Subset
  <1>4. Cardinality(In(f, s)) \in Nat
    BY <1>3, FS_CardinalityType
  <1>. QED  BY <1>2, <1>3, <1>4

\* The containers the reader and the pumps hold, at most three.
Owed ==
    (IF reader \in {"reading", "holding"} THEN 1 ELSE 0)
    + Cardinality(In(r2l, "writing")) + Cardinality(In(l2r, "sending"))

\* ContainersAccountedFor says that live is what is owed.
LEMMA OwedIsLive == ContainersAccountedFor <=> live = Owed
  BY DEF ContainersAccountedFor, Owed, In

\* At most one pump of each direction holds a container.
LEMMA PumpsInFinite ==
    ASSUME RelayInv
    PROVE  /\ IsFiniteSet(In(r2l, "writing")) /\ Cardinality(In(r2l, "writing")) \in 0..1
           /\ IsFiniteSet(In(l2r, "sending")) /\ Cardinality(In(l2r, "sending")) \in 0..1
  <1>1. /\ \A c \in Locals : r2l[c] = "writing" => c = current
        /\ \A c \in Locals : l2r[c] = "sending" => c = current
    BY DEF RelayInv
  <1>. QED  BY <1>1, AtMostOneIn


-----------------------------------------------------------------------------
(* Every step preserves the invariant *)

\* Every step keeps the types; live is bounded by what ContainersAccountedFor
\* says of it.
LEMMA TypeStep ==
    ASSUME TypeOK, live' \in 0..3, [Next]_vars
    PROVE  TypeOK'
  <1>. USE DEF TypeOK, vars, readerVars, proxyVars, pumpVars, relayVars
  <1>1. CASE ReaderLoops
    BY <1>1 DEF ReaderLoops, guestFrame, ReaderCancelled
  <1>2. CASE ReaderReads
    BY <1>2, MessageBoundAssumption DEF ReaderReads, guestFrame
  <1>3. CASE ReaderFails
    BY <1>3 DEF ReaderFails, guestFrame
  <1>4. CASE ReaderDrops
    BY <1>4 DEF ReaderDrops, guestFrame, ReaderCancelled
  <1>5. CASE SendRequest
    BY <1>5 DEF SendRequest, joinFrame, FlowEnds, Show
  <1>6. CASE HandshakeAnswer
    BY <1>6 DEF HandshakeAnswer, joinFrame, FlowEnds, Show, Receive
  <1>7. CASE HandshakeClosed
    BY <1>7 DEF HandshakeClosed, joinFrame, FlowEnds, Show, ChannelClosed
  <1>8. CASE JoinAnswer
    BY <1>8 DEF JoinAnswer, joinFrame, FlowEnds, Show, Receive
  <1>9. CASE JoinClosed
    BY <1>9 DEF JoinClosed, joinFrame, ChannelClosed
  <1>10. CASE ProxyStart
    <2>1. listening' \in BOOLEAN
      BY <1>10, Zenon DEF ProxyStart
    <2>. QED  BY <1>10, <2>1 DEF ProxyStart, joinFrame, FlowEnds, Show
  <1>11. CASE AdbConnect
    BY <1>11 DEF AdbConnect
  <1>12. CASE AdbDisconnect
    <2>1. adbConnected' \in BOOLEAN
      BY <1>12, Zenon DEF AdbDisconnect
    <2>. QED  BY <1>12, <2>1 DEF AdbDisconnect
  <1>13. CASE ProxyStop
    <2>1. listening' \in BOOLEAN /\ proxyCancelled' \in BOOLEAN
      BY <1>13, Zenon DEF ProxyStop
    <2>. QED  BY <1>13, <2>1 DEF ProxyStop, joinFrame
  <1>14. CASE IdleCancelled
    BY <1>14 DEF IdleCancelled, idleFrame, cancelled
  <1>15. CASE IdleLost
    BY <1>15 DEF IdleLost, idleFrame, ChannelClosed, Show
  <1>16. CASE IdleDiscards
    BY <1>16 DEF IdleDiscards, idleFrame, Receive
  <1>17. ASSUME NEW c \in Locals, IdleConnection(c) PROVE TypeOK'
    BY <1>17 DEF IdleConnection, idleFrame, Show
  <1>18. ASSUME NEW c \in Locals, RunStops(c) PROVE TypeOK'
    BY <1>18 DEF RunStops, relayFrame
  <1>19. ASSUME NEW c \in Locals, RunReturns(c) PROVE TypeOK'
    BY <1>19 DEF RunReturns, AfterRun, Show
  <1>20. ASSUME NEW c \in Locals, L2RLoops(c) PROVE TypeOK'
    BY <1>20 DEF L2RLoops, relayFrame, Result
  <1>21. ASSUME NEW c \in Locals, L2RReads(c) PROVE TypeOK'
    BY <1>21 DEF L2RReads, relayFrame
  <1>22. ASSUME NEW c \in Locals, L2RReadFails(c) PROVE TypeOK'
    BY <1>22 DEF L2RReadFails, relayFrame, Result
  <1>23. ASSUME NEW c \in Locals, L2RSends(c) PROVE TypeOK'
    BY <1>23 DEF L2RSends, relayFrame, Result
  <1>24. ASSUME NEW c \in Locals, R2LDone(c) PROVE TypeOK'
    BY <1>24 DEF R2LDone, relayFrame, Result
  <1>25. ASSUME NEW c \in Locals, R2LClosed(c) PROVE TypeOK'
    BY <1>25 DEF R2LClosed, relayFrame, Result, ChannelClosed
  <1>26. ASSUME NEW c \in Locals, R2LIgnores(c) PROVE TypeOK'
    BY <1>26 DEF R2LIgnores, relayFrame, Receive
  <1>27. ASSUME NEW c \in Locals, R2LTakes(c) PROVE TypeOK'
    BY <1>27 DEF R2LTakes, relayFrame, Receive
  <1>28. ASSUME NEW c \in Locals, R2LWrites(c) PROVE TypeOK'
    BY <1>28 DEF R2LWrites, relayFrame
  <1>29. ASSUME NEW c \in Locals, R2LWriteFails(c) PROVE TypeOK'
    BY <1>29 DEF R2LWriteFails, relayFrame, Result
  <1>30. ASSUME NEW c \in Locals, LocalConnects(c) PROVE TypeOK'
    BY <1>30 DEF LocalConnects, proxyFrame
  <1>31. ASSUME NEW c \in Locals, LocalHandshake(c) PROVE TypeOK'
    BY <1>31 DEF LocalHandshake, proxyFrame
  <1>32. ASSUME NEW c \in Locals, LocalHandshakeFails(c) PROVE TypeOK'
    BY <1>32 DEF LocalHandshakeFails, proxyFrame
  <1>33. ASSUME NEW c \in Locals, HandOverCancelled(c) PROVE TypeOK'
    BY <1>33 DEF HandOverCancelled, proxyFrame
  <1>34. ASSUME NEW c \in Locals, LocalGoes(c) PROVE TypeOK'
    BY <1>34 DEF LocalGoes, proxyFrame
  <1>35. CASE Quit
    BY <1>35 DEF Quit, appFrame
  <1>36. CASE RunConnectReturns
    BY <1>36 DEF RunConnectReturns, appFrame
  <1>37. CASE CloseConnection
    BY <1>37 DEF CloseConnection, appFrame
  <1>38. CASE TransportLost
    BY <1>38 DEF TransportLost, appFrame
  <1>39. CASE UNCHANGED vars
    BY <1>39
  <1>. QED
    BY <1>1, <1>2, <1>3, <1>4, <1>5, <1>6, <1>7, <1>8, <1>9, <1>10, <1>11,
       <1>12, <1>13, <1>14, <1>15, <1>16, <1>17, <1>18, <1>19, <1>20, <1>21,
       <1>22, <1>23, <1>24, <1>25, <1>26, <1>27, <1>28, <1>29, <1>30, <1>31,
       <1>32, <1>33, <1>34, <1>35, <1>36, <1>37, <1>38, <1>39 DEF Next,
       ReaderNext, FlowNext, L2RNext, R2LNext, ProxyNext

\* Run is called with a connection of its own, and returns after both pumps.
LEMMA RelayStep ==
    ASSUME TypeOK, RelayInv, [Next]_vars
    PROVE  RelayInv'
  <1>. USE DEF TypeOK, RelayInv, vars, readerVars, proxyVars, pumpVars, relayVars
  <1>1. CASE ReaderLoops
    BY <1>1 DEF ReaderLoops, guestFrame, ReaderCancelled
  <1>2. CASE ReaderReads
    BY <1>2 DEF ReaderReads, guestFrame
  <1>3. CASE ReaderFails
    BY <1>3 DEF ReaderFails, guestFrame
  <1>4. CASE ReaderDrops
    BY <1>4 DEF ReaderDrops, guestFrame, ReaderCancelled
  <1>5. CASE SendRequest
    BY <1>5 DEF SendRequest, joinFrame, FlowEnds, Show
  <1>6. CASE HandshakeAnswer
    BY <1>6 DEF HandshakeAnswer, joinFrame, FlowEnds, Show, Receive
  <1>7. CASE HandshakeClosed
    BY <1>7 DEF HandshakeClosed, joinFrame, FlowEnds, Show, ChannelClosed
  <1>8. CASE JoinAnswer
    BY <1>8 DEF JoinAnswer, joinFrame, FlowEnds, Show, Receive
  <1>9. CASE JoinClosed
    BY <1>9 DEF JoinClosed, joinFrame, ChannelClosed
  <1>10. CASE ProxyStart
    BY <1>10 DEF ProxyStart, joinFrame, FlowEnds, Show
  <1>11. CASE AdbConnect
    BY <1>11 DEF AdbConnect
  <1>12. CASE AdbDisconnect
    BY <1>12 DEF AdbDisconnect
  <1>13. CASE ProxyStop
    BY <1>13 DEF ProxyStop, joinFrame
  <1>14. CASE IdleCancelled
    BY <1>14 DEF IdleCancelled, idleFrame, cancelled
  <1>15. CASE IdleLost
    BY <1>15 DEF IdleLost, idleFrame, ChannelClosed, Show
  <1>16. CASE IdleDiscards
    BY <1>16 DEF IdleDiscards, idleFrame, Receive
  <1>17. ASSUME NEW c \in Locals, IdleConnection(c) PROVE RelayInv'
    <2>1. current = NoLocal /\ current' = c /\ c # NoLocal /\ guest' = "relaying"
      BY <1>17, NoLocalAssumption DEF IdleConnection
    <2>2. local'[c] = "relayed" /\ relayCancelled'[c] = FALSE
      BY <1>17 DEF IdleConnection
    <2>3. ASSUME NEW d \in Locals, d # c
          PROVE  /\ l2r'[d] \in {"none", "ended"} /\ r2l'[d] \in {"none", "ended"}
                 /\ local'[d] \notin {"relayed", "gone"}
                 /\ relayCancelled'[d] => local'[d] = "closed"
      BY <1>17, <2>1, <2>3, NoLocalAssumption DEF IdleConnection
    <2>. QED  BY <2>1, <2>2, <2>3
  <1>18. ASSUME NEW c \in Locals, RunStops(c) PROVE RelayInv'
    BY <1>18 DEF RunStops, relayFrame
  <1>19. ASSUME NEW c \in Locals, RunReturns(c) PROVE RelayInv'
    BY <1>19 DEF RunReturns, AfterRun, Show
  <1>20. ASSUME NEW c \in Locals, L2RLoops(c) PROVE RelayInv'
    BY <1>20 DEF L2RLoops, relayFrame, Result
  <1>21. ASSUME NEW c \in Locals, L2RReads(c) PROVE RelayInv'
    BY <1>21 DEF L2RReads, relayFrame
  <1>22. ASSUME NEW c \in Locals, L2RReadFails(c) PROVE RelayInv'
    BY <1>22 DEF L2RReadFails, relayFrame, Result
  <1>23. ASSUME NEW c \in Locals, L2RSends(c) PROVE RelayInv'
    BY <1>23 DEF L2RSends, relayFrame, Result
  <1>24. ASSUME NEW c \in Locals, R2LDone(c) PROVE RelayInv'
    BY <1>24 DEF R2LDone, relayFrame, Result
  <1>25. ASSUME NEW c \in Locals, R2LClosed(c) PROVE RelayInv'
    BY <1>25 DEF R2LClosed, relayFrame, Result, ChannelClosed
  <1>26. ASSUME NEW c \in Locals, R2LIgnores(c) PROVE RelayInv'
    BY <1>26 DEF R2LIgnores, relayFrame, Receive
  <1>27. ASSUME NEW c \in Locals, R2LTakes(c) PROVE RelayInv'
    BY <1>27 DEF R2LTakes, relayFrame, Receive
  <1>28. ASSUME NEW c \in Locals, R2LWrites(c) PROVE RelayInv'
    BY <1>28 DEF R2LWrites, relayFrame
  <1>29. ASSUME NEW c \in Locals, R2LWriteFails(c) PROVE RelayInv'
    BY <1>29 DEF R2LWriteFails, relayFrame, Result
  <1>30. ASSUME NEW c \in Locals, LocalConnects(c) PROVE RelayInv'
    BY <1>30 DEF LocalConnects, proxyFrame
  <1>31. ASSUME NEW c \in Locals, LocalHandshake(c) PROVE RelayInv'
    BY <1>31 DEF LocalHandshake, proxyFrame
  <1>32. ASSUME NEW c \in Locals, LocalHandshakeFails(c) PROVE RelayInv'
    BY <1>32 DEF LocalHandshakeFails, proxyFrame
  <1>33. ASSUME NEW c \in Locals, HandOverCancelled(c) PROVE RelayInv'
    BY <1>33 DEF HandOverCancelled, proxyFrame
  <1>34. ASSUME NEW c \in Locals, LocalGoes(c) PROVE RelayInv'
    BY <1>34 DEF LocalGoes, proxyFrame
  <1>35. CASE Quit
    BY <1>35 DEF Quit, appFrame
  <1>36. CASE RunConnectReturns
    BY <1>36 DEF RunConnectReturns, appFrame
  <1>37. CASE CloseConnection
    BY <1>37 DEF CloseConnection, appFrame
  <1>38. CASE TransportLost
    BY <1>38 DEF TransportLost, appFrame
  <1>39. CASE UNCHANGED vars
    BY <1>39
  <1>. QED
    BY <1>1, <1>2, <1>3, <1>4, <1>5, <1>6, <1>7, <1>8, <1>9, <1>10, <1>11,
       <1>12, <1>13, <1>14, <1>15, <1>16, <1>17, <1>18, <1>19, <1>20, <1>21,
       <1>22, <1>23, <1>24, <1>25, <1>26, <1>27, <1>28, <1>29, <1>30, <1>31,
       <1>32, <1>33, <1>34, <1>35, <1>36, <1>37, <1>38, <1>39 DEF Next,
       ReaderNext, FlowNext, L2RNext, R2LNext, ProxyNext

\* The deferred calls undo what has been done before the flow has ended.
LEMMA CleanUpStep ==
    ASSUME TypeOK, RelayInv, CleanUpInv, [Next]_vars
    PROVE  CleanUpInv'
  <1>. USE DEF TypeOK, RelayInv, CleanUpInv, vars, readerVars, proxyVars, pumpVars, relayVars
  <1>1. CASE ReaderLoops
    BY <1>1 DEF ReaderLoops, guestFrame, ReaderCancelled
  <1>2. CASE ReaderReads
    BY <1>2 DEF ReaderReads, guestFrame
  <1>3. CASE ReaderFails
    BY <1>3 DEF ReaderFails, guestFrame
  <1>4. CASE ReaderDrops
    BY <1>4 DEF ReaderDrops, guestFrame, ReaderCancelled
  <1>5. CASE SendRequest
    BY <1>5 DEF SendRequest, joinFrame, FlowEnds, Show
  <1>6. CASE HandshakeAnswer
    BY <1>6 DEF HandshakeAnswer, joinFrame, FlowEnds, Show, Receive
  <1>7. CASE HandshakeClosed
    BY <1>7 DEF HandshakeClosed, joinFrame, FlowEnds, Show, ChannelClosed
  <1>8. CASE JoinAnswer
    BY <1>8 DEF JoinAnswer, joinFrame, FlowEnds, Show, Receive
  <1>9. CASE JoinClosed
    BY <1>9 DEF JoinClosed, joinFrame, ChannelClosed
  <1>10. CASE ProxyStart
    BY <1>10 DEF ProxyStart, joinFrame, FlowEnds, Show
  <1>11. CASE AdbConnect
    BY <1>11 DEF AdbConnect
  <1>12. CASE AdbDisconnect
    BY <1>12 DEF AdbDisconnect
  <1>13. CASE ProxyStop
    BY <1>13 DEF ProxyStop, joinFrame
  <1>14. CASE IdleCancelled
    BY <1>14 DEF IdleCancelled, idleFrame, cancelled
  <1>15. CASE IdleLost
    BY <1>15 DEF IdleLost, idleFrame, ChannelClosed, Show
  <1>16. CASE IdleDiscards
    BY <1>16 DEF IdleDiscards, idleFrame, Receive
  <1>17. ASSUME NEW c \in Locals, IdleConnection(c) PROVE CleanUpInv'
    BY <1>17 DEF IdleConnection, idleFrame, Show
  <1>18. ASSUME NEW c \in Locals, RunStops(c) PROVE CleanUpInv'
    BY <1>18 DEF RunStops, relayFrame
  <1>19. ASSUME NEW c \in Locals, RunReturns(c) PROVE CleanUpInv'
    BY <1>19 DEF RunReturns, AfterRun, Show
  <1>20. ASSUME NEW c \in Locals, L2RLoops(c) PROVE CleanUpInv'
    BY <1>20 DEF L2RLoops, relayFrame, Result
  <1>21. ASSUME NEW c \in Locals, L2RReads(c) PROVE CleanUpInv'
    BY <1>21 DEF L2RReads, relayFrame
  <1>22. ASSUME NEW c \in Locals, L2RReadFails(c) PROVE CleanUpInv'
    BY <1>22 DEF L2RReadFails, relayFrame, Result
  <1>23. ASSUME NEW c \in Locals, L2RSends(c) PROVE CleanUpInv'
    BY <1>23 DEF L2RSends, relayFrame, Result
  <1>24. ASSUME NEW c \in Locals, R2LDone(c) PROVE CleanUpInv'
    BY <1>24 DEF R2LDone, relayFrame, Result
  <1>25. ASSUME NEW c \in Locals, R2LClosed(c) PROVE CleanUpInv'
    BY <1>25 DEF R2LClosed, relayFrame, Result, ChannelClosed
  <1>26. ASSUME NEW c \in Locals, R2LIgnores(c) PROVE CleanUpInv'
    BY <1>26 DEF R2LIgnores, relayFrame, Receive
  <1>27. ASSUME NEW c \in Locals, R2LTakes(c) PROVE CleanUpInv'
    BY <1>27 DEF R2LTakes, relayFrame, Receive
  <1>28. ASSUME NEW c \in Locals, R2LWrites(c) PROVE CleanUpInv'
    BY <1>28 DEF R2LWrites, relayFrame
  <1>29. ASSUME NEW c \in Locals, R2LWriteFails(c) PROVE CleanUpInv'
    BY <1>29 DEF R2LWriteFails, relayFrame, Result
  <1>30. ASSUME NEW c \in Locals, LocalConnects(c) PROVE CleanUpInv'
    BY <1>30 DEF LocalConnects, proxyFrame
  <1>31. ASSUME NEW c \in Locals, LocalHandshake(c) PROVE CleanUpInv'
    BY <1>31 DEF LocalHandshake, proxyFrame
  <1>32. ASSUME NEW c \in Locals, LocalHandshakeFails(c) PROVE CleanUpInv'
    BY <1>32 DEF LocalHandshakeFails, proxyFrame
  <1>33. ASSUME NEW c \in Locals, HandOverCancelled(c) PROVE CleanUpInv'
    BY <1>33 DEF HandOverCancelled, proxyFrame
  <1>34. ASSUME NEW c \in Locals, LocalGoes(c) PROVE CleanUpInv'
    BY <1>34 DEF LocalGoes, proxyFrame
  <1>35. CASE Quit
    BY <1>35 DEF Quit, appFrame
  <1>36. CASE RunConnectReturns
    BY <1>36 DEF RunConnectReturns, appFrame
  <1>37. CASE CloseConnection
    BY <1>37 DEF CloseConnection, appFrame
  <1>38. CASE TransportLost
    BY <1>38 DEF TransportLost, appFrame
  <1>39. CASE UNCHANGED vars
    BY <1>39
  <1>. QED
    BY <1>1, <1>2, <1>3, <1>4, <1>5, <1>6, <1>7, <1>8, <1>9, <1>10, <1>11,
       <1>12, <1>13, <1>14, <1>15, <1>16, <1>17, <1>18, <1>19, <1>20, <1>21,
       <1>22, <1>23, <1>24, <1>25, <1>26, <1>27, <1>28, <1>29, <1>30, <1>31,
       <1>32, <1>33, <1>34, <1>35, <1>36, <1>37, <1>38, <1>39 DEF Next,
       ReaderNext, FlowNext, L2RNext, R2LNext, ProxyNext

\* Every way out of the flow shows a final stage, but for JoinClosed.
LEMMA StageStep ==
    ASSUME TypeOK, StageInv, [Next]_vars
    PROVE  StageInv'
  <1>. USE DEF TypeOK, StageInv, FinalStages, vars, readerVars, proxyVars, pumpVars, relayVars
  <1>1. CASE ReaderLoops
    BY <1>1 DEF ReaderLoops, guestFrame, ReaderCancelled
  <1>2. CASE ReaderReads
    BY <1>2 DEF ReaderReads, guestFrame
  <1>3. CASE ReaderFails
    BY <1>3 DEF ReaderFails, guestFrame
  <1>4. CASE ReaderDrops
    BY <1>4 DEF ReaderDrops, guestFrame, ReaderCancelled
  <1>5. CASE SendRequest
    BY <1>5 DEF SendRequest, joinFrame, FlowEnds, Show
  <1>6. CASE HandshakeAnswer
    BY <1>6 DEF HandshakeAnswer, joinFrame, FlowEnds, Show, Receive
  <1>7. CASE HandshakeClosed
    BY <1>7 DEF HandshakeClosed, joinFrame, FlowEnds, Show, ChannelClosed
  <1>8. CASE JoinAnswer
    BY <1>8 DEF JoinAnswer, joinFrame, FlowEnds, Show, Receive
  <1>9. CASE JoinClosed
    BY <1>9 DEF JoinClosed, joinFrame, ChannelClosed
  <1>10. CASE ProxyStart
    BY <1>10 DEF ProxyStart, joinFrame, FlowEnds, Show
  <1>11. CASE AdbConnect
    BY <1>11 DEF AdbConnect
  <1>12. CASE AdbDisconnect
    BY <1>12 DEF AdbDisconnect
  <1>13. CASE ProxyStop
    BY <1>13 DEF ProxyStop, joinFrame
  <1>14. CASE IdleCancelled
    BY <1>14 DEF IdleCancelled, idleFrame, cancelled
  <1>15. CASE IdleLost
    BY <1>15 DEF IdleLost, idleFrame, ChannelClosed, Show
  <1>16. CASE IdleDiscards
    BY <1>16 DEF IdleDiscards, idleFrame, Receive
  <1>17. ASSUME NEW c \in Locals, IdleConnection(c) PROVE StageInv'
    BY <1>17 DEF IdleConnection, idleFrame, Show
  <1>18. ASSUME NEW c \in Locals, RunStops(c) PROVE StageInv'
    BY <1>18 DEF RunStops, relayFrame
  <1>19. ASSUME NEW c \in Locals, RunReturns(c) PROVE StageInv'
    BY <1>19 DEF RunReturns, AfterRun, Show
  <1>20. ASSUME NEW c \in Locals, L2RLoops(c) PROVE StageInv'
    BY <1>20 DEF L2RLoops, relayFrame, Result
  <1>21. ASSUME NEW c \in Locals, L2RReads(c) PROVE StageInv'
    BY <1>21 DEF L2RReads, relayFrame
  <1>22. ASSUME NEW c \in Locals, L2RReadFails(c) PROVE StageInv'
    BY <1>22 DEF L2RReadFails, relayFrame, Result
  <1>23. ASSUME NEW c \in Locals, L2RSends(c) PROVE StageInv'
    BY <1>23 DEF L2RSends, relayFrame, Result
  <1>24. ASSUME NEW c \in Locals, R2LDone(c) PROVE StageInv'
    BY <1>24 DEF R2LDone, relayFrame, Result
  <1>25. ASSUME NEW c \in Locals, R2LClosed(c) PROVE StageInv'
    BY <1>25 DEF R2LClosed, relayFrame, Result, ChannelClosed
  <1>26. ASSUME NEW c \in Locals, R2LIgnores(c) PROVE StageInv'
    BY <1>26 DEF R2LIgnores, relayFrame, Receive
  <1>27. ASSUME NEW c \in Locals, R2LTakes(c) PROVE StageInv'
    BY <1>27 DEF R2LTakes, relayFrame, Receive
  <1>28. ASSUME NEW c \in Locals, R2LWrites(c) PROVE StageInv'
    BY <1>28 DEF R2LWrites, relayFrame
  <1>29. ASSUME NEW c \in Locals, R2LWriteFails(c) PROVE StageInv'
    BY <1>29 DEF R2LWriteFails, relayFrame, Result
  <1>30. ASSUME NEW c \in Locals, LocalConnects(c) PROVE StageInv'
    BY <1>30 DEF LocalConnects, proxyFrame
  <1>31. ASSUME NEW c \in Locals, LocalHandshake(c) PROVE StageInv'
    BY <1>31 DEF LocalHandshake, proxyFrame
  <1>32. ASSUME NEW c \in Locals, LocalHandshakeFails(c) PROVE StageInv'
    BY <1>32 DEF LocalHandshakeFails, proxyFrame
  <1>33. ASSUME NEW c \in Locals, HandOverCancelled(c) PROVE StageInv'
    BY <1>33 DEF HandOverCancelled, proxyFrame
  <1>34. ASSUME NEW c \in Locals, LocalGoes(c) PROVE StageInv'
    BY <1>34 DEF LocalGoes, proxyFrame
  <1>35. CASE Quit
    BY <1>35 DEF Quit, appFrame
  <1>36. CASE RunConnectReturns
    BY <1>36 DEF RunConnectReturns, appFrame
  <1>37. CASE CloseConnection
    BY <1>37 DEF CloseConnection, appFrame
  <1>38. CASE TransportLost
    BY <1>38 DEF TransportLost, appFrame
  <1>39. CASE UNCHANGED vars
    BY <1>39
  <1>. QED
    BY <1>1, <1>2, <1>3, <1>4, <1>5, <1>6, <1>7, <1>8, <1>9, <1>10, <1>11,
       <1>12, <1>13, <1>14, <1>15, <1>16, <1>17, <1>18, <1>19, <1>20, <1>21,
       <1>22, <1>23, <1>24, <1>25, <1>26, <1>27, <1>28, <1>29, <1>30, <1>31,
       <1>32, <1>33, <1>34, <1>35, <1>36, <1>37, <1>38, <1>39 DEF Next,
       ReaderNext, FlowNext, L2RNext, R2LNext, ProxyNext


\* A container changes hands, or is obtained or disposed of by its holder.
LEMMA ContainersStep ==
    ASSUME TypeOK, RelayInv, ContainersAccountedFor, [Next]_vars
    PROVE  ContainersAccountedFor'
  <1>a. /\ live = Owed
        /\ IsFiniteSet(In(r2l, "writing")) /\ Cardinality(In(r2l, "writing")) \in 0..1
        /\ IsFiniteSet(In(l2r, "sending")) /\ Cardinality(In(l2r, "sending")) \in 0..1
    BY OwedIsLive, PumpsInFinite
  <1>b. SUFFICES live' = Owed'
    BY DEF ContainersAccountedFor, Owed, In
  <1>. USE <1>a DEF Owed, TypeOK, vars, readerVars, proxyVars, pumpVars, relayVars
  <1>1. CASE ReaderLoops
    BY <1>1 DEF ReaderLoops, guestFrame, ReaderCancelled
  <1>2. CASE ReaderReads
    BY <1>2 DEF ReaderReads, guestFrame
  <1>3. CASE ReaderFails
    BY <1>3 DEF ReaderFails, guestFrame
  <1>4. CASE ReaderDrops
    BY <1>4 DEF ReaderDrops, guestFrame, ReaderCancelled
  <1>5. CASE SendRequest
    BY <1>5 DEF SendRequest, joinFrame, FlowEnds, Show
  <1>6. CASE HandshakeAnswer
    BY <1>6 DEF HandshakeAnswer, joinFrame, FlowEnds, Show, Receive
  <1>7. CASE HandshakeClosed
    BY <1>7 DEF HandshakeClosed, joinFrame, FlowEnds, Show, ChannelClosed
  <1>8. CASE JoinAnswer
    BY <1>8 DEF JoinAnswer, joinFrame, FlowEnds, Show, Receive
  <1>9. CASE JoinClosed
    BY <1>9 DEF JoinClosed, joinFrame, ChannelClosed
  <1>10. CASE ProxyStart
    BY <1>10 DEF ProxyStart, joinFrame, FlowEnds, Show
  <1>11. CASE AdbConnect
    BY <1>11 DEF AdbConnect
  <1>12. CASE AdbDisconnect
    BY <1>12 DEF AdbDisconnect
  <1>13. CASE ProxyStop
    BY <1>13 DEF ProxyStop, joinFrame
  <1>14. CASE IdleCancelled
    BY <1>14 DEF IdleCancelled, idleFrame, cancelled
  <1>15. CASE IdleLost
    BY <1>15 DEF IdleLost, idleFrame, ChannelClosed, Show
  <1>16. CASE IdleDiscards
    BY <1>16 DEF IdleDiscards, idleFrame, Receive
  <1>17. ASSUME NEW c \in Locals, IdleConnection(c) PROVE live' = Owed'
    <2>1. l2r[c] # "sending" /\ r2l[c] # "writing"
      BY <1>17, NoLocalAssumption DEF IdleConnection, RelayInv
    <2>2. In(l2r', "sending") = In(l2r, "sending") /\ In(r2l', "writing") = In(r2l, "writing")
      BY <1>17, <2>1 DEF IdleConnection, In
    <2>. QED  BY <1>17, <2>2 DEF IdleConnection, idleFrame
  <1>18. ASSUME NEW c \in Locals, RunStops(c) PROVE live' = Owed'
    BY <1>18 DEF RunStops, relayFrame
  <1>19. ASSUME NEW c \in Locals, RunReturns(c) PROVE live' = Owed'
    BY <1>19 DEF RunReturns, AfterRun, Show
  <1>20. ASSUME NEW c \in Locals, L2RLoops(c) PROVE live' = Owed'
    <2>1. In(l2r', "sending") = In(l2r, "sending")
      BY <1>20 DEF L2RLoops, In
    <2>. QED  BY <1>20, <2>1 DEF L2RLoops, relayFrame, Result
  <1>21. ASSUME NEW c \in Locals, L2RReads(c) PROVE live' = Owed'
    <2>1. In(l2r', "sending") = In(l2r, "sending") \cup {c} /\ c \notin In(l2r, "sending")
      BY <1>21 DEF L2RReads, In
    <2>2. Cardinality(In(l2r', "sending")) = Cardinality(In(l2r, "sending")) + 1
      BY <1>a, <2>1, FS_AddElement
    <2>. QED  BY <1>21, <2>2 DEF L2RReads, relayFrame
  <1>22. ASSUME NEW c \in Locals, L2RReadFails(c) PROVE live' = Owed'
    <2>1. In(l2r', "sending") = In(l2r, "sending")
      BY <1>22 DEF L2RReadFails, In
    <2>. QED  BY <1>22, <2>1 DEF L2RReadFails, relayFrame, Result
  <1>23. ASSUME NEW c \in Locals, L2RSends(c) PROVE live' = Owed'
    <2>1. In(l2r', "sending") = In(l2r, "sending") \ {c} /\ c \in In(l2r, "sending")
      BY <1>23 DEF L2RSends, In
    <2>2. Cardinality(In(l2r', "sending")) = Cardinality(In(l2r, "sending")) - 1
      BY <1>a, <2>1, FS_RemoveElement
    <2>. QED  BY <1>23, <2>2 DEF L2RSends, relayFrame, Result
  <1>24. ASSUME NEW c \in Locals, R2LDone(c) PROVE live' = Owed'
    <2>1. In(r2l', "writing") = In(r2l, "writing")
      BY <1>24 DEF R2LDone, In
    <2>. QED  BY <1>24, <2>1 DEF R2LDone, relayFrame, Result
  <1>25. ASSUME NEW c \in Locals, R2LClosed(c) PROVE live' = Owed'
    <2>1. In(r2l', "writing") = In(r2l, "writing")
      BY <1>25 DEF R2LClosed, In
    <2>. QED  BY <1>25, <2>1 DEF R2LClosed, relayFrame, Result, ChannelClosed
  <1>26. ASSUME NEW c \in Locals, R2LIgnores(c) PROVE live' = Owed'
    BY <1>26 DEF R2LIgnores, relayFrame, Receive
  <1>27. ASSUME NEW c \in Locals, R2LTakes(c) PROVE live' = Owed'
    <2>1. In(r2l', "writing") = In(r2l, "writing") \cup {c} /\ c \notin In(r2l, "writing")
      BY <1>27 DEF R2LTakes, In
    <2>2. Cardinality(In(r2l', "writing")) = Cardinality(In(r2l, "writing")) + 1
      BY <1>a, <2>1, FS_AddElement
    <2>. QED  BY <1>27, <2>2 DEF R2LTakes, relayFrame, Receive
  <1>28. ASSUME NEW c \in Locals, R2LWrites(c) PROVE live' = Owed'
    <2>1. In(r2l', "writing") = In(r2l, "writing") \ {c} /\ c \in In(r2l, "writing")
      BY <1>28 DEF R2LWrites, In
    <2>2. Cardinality(In(r2l', "writing")) = Cardinality(In(r2l, "writing")) - 1
      BY <1>a, <2>1, FS_RemoveElement
    <2>. QED  BY <1>28, <2>2 DEF R2LWrites, relayFrame
  <1>29. ASSUME NEW c \in Locals, R2LWriteFails(c) PROVE live' = Owed'
    <2>1. In(r2l', "writing") = In(r2l, "writing") \ {c} /\ c \in In(r2l, "writing")
      BY <1>29 DEF R2LWriteFails, In
    <2>2. Cardinality(In(r2l', "writing")) = Cardinality(In(r2l, "writing")) - 1
      BY <1>a, <2>1, FS_RemoveElement
    <2>. QED  BY <1>29, <2>2 DEF R2LWriteFails, relayFrame, Result
  <1>30. ASSUME NEW c \in Locals, LocalConnects(c) PROVE live' = Owed'
    BY <1>30 DEF LocalConnects, proxyFrame
  <1>31. ASSUME NEW c \in Locals, LocalHandshake(c) PROVE live' = Owed'
    BY <1>31 DEF LocalHandshake, proxyFrame
  <1>32. ASSUME NEW c \in Locals, LocalHandshakeFails(c) PROVE live' = Owed'
    BY <1>32 DEF LocalHandshakeFails, proxyFrame
  <1>33. ASSUME NEW c \in Locals, HandOverCancelled(c) PROVE live' = Owed'
    BY <1>33 DEF HandOverCancelled, proxyFrame
  <1>34. ASSUME NEW c \in Locals, LocalGoes(c) PROVE live' = Owed'
    BY <1>34 DEF LocalGoes, proxyFrame
  <1>35. CASE Quit
    BY <1>35 DEF Quit, appFrame
  <1>36. CASE RunConnectReturns
    BY <1>36 DEF RunConnectReturns, appFrame
  <1>37. CASE CloseConnection
    BY <1>37 DEF CloseConnection, appFrame
  <1>38. CASE TransportLost
    BY <1>38 DEF TransportLost, appFrame
  <1>39. CASE UNCHANGED vars
    BY <1>39
  <1>. QED
    BY <1>1, <1>2, <1>3, <1>4, <1>5, <1>6, <1>7, <1>8, <1>9, <1>10, <1>11,
       <1>12, <1>13, <1>14, <1>15, <1>16, <1>17, <1>18, <1>19, <1>20, <1>21,
       <1>22, <1>23, <1>24, <1>25, <1>26, <1>27, <1>28, <1>29, <1>30, <1>31,
       <1>32, <1>33, <1>34, <1>35, <1>36, <1>37, <1>38, <1>39 DEF Next,
       ReaderNext, FlowNext, L2RNext, R2LNext, ProxyNext


-----------------------------------------------------------------------------
(* The theorems *)

\* A guest that has just been started satisfies the invariant,
LEMMA GuestInvInit == Init => GuestInv
  <1>. SUFFICES ASSUME Init PROVE GuestInv
    OBVIOUS
  <1>1. TypeOK
    <2>1. adbConnected \in BOOLEAN /\ listening \in BOOLEAN /\ proxyCancelled \in BOOLEAN
      BY Zenon DEF Init
    <2>. QED  BY <2>1, MessageBoundAssumption DEF Init, TypeOK
  <1>2. RelayInv /\ CleanUpInv /\ StageInv
    BY NoLocalAssumption DEF Init, RelayInv, CleanUpInv, StageInv
  <1>3. In(r2l, "writing") = {} /\ In(l2r, "sending") = {}
    BY DEF Init, In
  <1>4. ContainersAccountedFor
    BY <1>3, OwedIsLive, FS_EmptySet DEF Owed, Init
  <1>. QED  BY <1>1, <1>2, <1>4 DEF GuestInv

\* ... and every step keeps it.
LEMMA GuestInvStep == GuestInv /\ [Next]_vars => GuestInv'
  <1>. SUFFICES ASSUME GuestInv, [Next]_vars PROVE GuestInv'
    OBVIOUS
  <1>1. RelayInv' /\ CleanUpInv' /\ StageInv' /\ ContainersAccountedFor'
    BY RelayStep, CleanUpStep, StageStep, ContainersStep DEF GuestInv
  <1>2. live' \in 0..3
    <2>1. live' = Owed'
      BY <1>1 DEF ContainersAccountedFor, Owed, In
    <2>2. /\ \A c \in Locals : r2l'[c] = "writing" => c = current'
          /\ \A c \in Locals : l2r'[c] = "sending" => c = current'
      BY <1>1 DEF RelayInv
    <2>3. Cardinality(In(r2l', "writing")) \in 0..1 /\ Cardinality(In(l2r', "sending")) \in 0..1
      BY <2>2, AtMostOneIn
    <2>. QED  BY <2>1, <2>3 DEF Owed
  <1>. QED  BY <1>1, <1>2, TypeStep DEF GuestInv

\* The relay, the cleanup, the stages of a join and the containers agree in
\* every reachable state.
THEOREM GuestInvariant == Spec => []GuestInv
  BY GuestInvInit, GuestInvStep, PTL DEF Spec

\* The program counters of reader, flow, pumps and proxy and what they share
\* stay in their ranges; no more than three containers are ever in use.
THEOREM TypeCorrect == Spec => []TypeOK
  BY GuestInvariant, PTL DEF GuestInv

\* startReader, handleIncoming and withMessage dispose of every container they
\* obtain: none is lost or disposed of twice in any interleaving.
THEOREM ContainersAreAccountedFor == Spec => []ContainersAccountedFor
  BY GuestInvariant, PTL DEF GuestInv

\* Once RunConnect has returned nothing of the guest flow is left, whenever and
\* wherever it was cancelled.
THEOREM IsCleanedUpBeforeClose == Spec => []CleanedUpBeforeClose
  <1>1. GuestInv => CleanedUpBeforeClose
    BY NoLocalAssumption DEF GuestInv, TypeOK, RelayInv, CleanUpInv, CleanedUpBeforeClose
  <1>. QED  BY <1>1, GuestInvariant, PTL

\* A flow that has ended by itself is shown as ended, except from JoinClosed.
THEOREM EndIsShownAfterJoin == Spec => []EndIsShownOnceJoined
  <1>1. GuestInv => EndIsShownOnceJoined
    BY DEF GuestInv, StageInv, EndIsShownOnceJoined
  <1>. QED  BY <1>1, GuestInvariant, PTL

\* No pump of an earlier relay ever takes a message of the current one.
THEOREM OnlyCurrentRelayTakes == Spec => TakenByCurrentRelay
  <1>1. GuestInv /\ [Next]_vars =>
          [\A c \in Locals :
              r2l[c] = "select" /\ r2l'[c] = "writing" => current = c]_vars
    BY DEF GuestInv, RelayInv
  <1>. QED  BY <1>1, GuestInvariant, PTL DEF Spec, TakenByCurrentRelay
===============================================================================
