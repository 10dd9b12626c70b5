------------------------- MODULE ConnectionManagerProofs -------------------------
(***************************************************************************)
(* Proofs about ConnectionManager for any connections and any capacity of  *)
(* its channels: however the closers race, a connection is announced once  *)
(* and after its socket is closed, as module ClientLink promises.          *)
(***************************************************************************)
EXTENDS ConnectionManager, FiniteSetTheorems, FunctionTheorems, SequenceTheorems,
        TLAPS

-----------------------------------------------------------------------------
(* The inductive invariant *)

\* t runs internalCloseClient for c, inside closeOnce.Do or in its bypass.
Inside(t, c) == closePc[t] \in {"close", "unregister", "notify"} /\ closeOf[t] = c

\* The connections whose run() has been started, however many there will be.
Started == {c \in Conns : reader[c] # "none"}

\* A connection whose run() has not been started is nobody's business yet; the
\* one that Accept returned is next.
StartInv ==
    /\ acceptor = "registering" <=> accepted # NoConn
    /\ accepted # NoConn => reader[accepted] = "none" /\ socket[accepted] \in {"open", "broken"}
    /\ \A c \in Conns :
          /\ socket[c] = "none" => reader[c] = "none" /\ c # accepted
          /\ reader[c] = "none" => c \notin connections /\ c \notin toClose /\ once[c] = "idle"
    /\ \A i \in DOMAIN clientDisconnectedChannel : reader[clientDisconnectedChannel[i]] # "none"
    /\ IsFiniteSet(Started)

\* Who is in a close call: a reader about its own connection, the room manager
\* about one whose messages it received, so one that passed the handshake.
CallInv ==
    /\ \A t \in Threads :
          closePc[t] # "none" => closeOf[t] \in Conns /\ reader[closeOf[t]] # "none"
    /\ \A c \in Conns :
          /\ closePc[c] # "none" <=> reader[c] \in {"closing", "mismatch"}
          /\ closePc[c] # "none" => closeOf[c] = c
          /\ closePc[c] = "enter" => reader[c] = "closing"
    /\ \A c \in known : reader[c] \notin {"none", "handshake", "mismatch"}
    /\ \A i \in DOMAIN clientMessageChannel :
          reader[clientMessageChannel[i]] \notin {"none", "handshake", "mismatch"}
    /\ closePc[RMThread] # "none" => closeOf[RMThread] \in known

\* closeOnce admits one thread; only the version mismatch goes round it.
OnceInv ==
    /\ \A t \in Threads, c \in Conns :
          Inside(t, c) => Bypasses(t) \/ once[c] = "running"
    /\ \A t, u \in Threads, c \in Conns :
          Inside(t, c) /\ Inside(u, c) => t = u \/ Bypasses(t) \/ Bypasses(u)
    /\ \A c \in Conns : once[c] = "done" => c \notin connections

\* The socket is closed before the connection leaves the list, and whoever took
\* it from the list, and nobody else, announces it.
AnnounceInv ==
    /\ \A t \in Threads :
          /\ closePc[t] \in {"unregister", "notify"} => socket[closeOf[t]] = "closed"
          /\ closePc[t] = "notify" => closeOf[t] \notin connections
    /\ \A t, u \in Threads :
          closePc[t] = "notify" /\ closePc[u] = "notify" /\ closeOf[t] = closeOf[u] => t = u

\* What is in ClientDisconnectedChannel was announced once.
ChannelInv ==
    /\ \A i, j \in DOMAIN clientDisconnectedChannel :
          clientDisconnectedChannel[i] = clientDisconnectedChannel[j] => i = j
    /\ \A i \in DOMAIN clientDisconnectedChannel :
          /\ clientDisconnectedChannel[i] \notin connections
          /\ \A t \in Threads :
                closePc[t] = "notify" => closeOf[t] # clientDisconnectedChannel[i]

ConnInv == CMTypeOK /\ StartInv /\ CallInv /\ OnceInv /\ AnnounceInv /\ ChannelInv

-----------------------------------------------------------------------------
(* Queues and threads *)

\* What the steps below need of the types.
LEMMA Domains ==
    ASSUME CMTypeOK
    PROVE  /\ DOMAIN reader = Conns /\ DOMAIN socket = Conns /\ DOMAIN once = Conns
           /\ DOMAIN closePc = Threads /\ DOMAIN closeOf = Threads
           /\ clientDisconnectedChannel \in Seq(Conns)
           /\ clientMessageChannel \in Seq(Conns)
           /\ Conns \subseteq Threads /\ RMThread \in Threads /\ StopThread \in Threads
           /\ RMThread \notin Conns /\ StopThread \notin Conns /\ RMThread # StopThread
           /\ NoConn \notin Conns /\ connections \subseteq Conns /\ known \subseteq Conns
  BY ThreadsAssumption DEF CMTypeOK, Threads

\* A message or announcement goes to the end of its channel,
LEMMA QueuePush ==
    ASSUME NEW S, NEW s \in Seq(S), NEW e \in S
    PROVE  /\ Append(s, e) \in Seq(S)
           /\ Len(s) + 1 \notin DOMAIN s
           /\ \A i \in DOMAIN Append(s, e) :
                 \/ i \in DOMAIN s /\ Append(s, e)[i] = s[i]
                 \/ i = Len(s) + 1 /\ Append(s, e)[i] = e
  <1>1. PICK n \in Nat : n = Len(s)
    OBVIOUS
  <1>2. /\ Append(s, e) \in Seq(S) /\ Len(Append(s, e)) = n + 1
        /\ Append(s, e)[n + 1] = e /\ \A i \in 1..n : Append(s, e)[i] = s[i]
    BY <1>1, AppendProperties
  <1>3. DOMAIN s = 1..n /\ DOMAIN Append(s, e) = 1..(n + 1)
    BY <1>1, <1>2
  <1>. QED  BY <1>1, <1>2, <1>3

\* ... and is received from its head.
LEMMA QueuePop ==
    ASSUME NEW S, NEW s \in Seq(S), s # <<>>
    PROVE  /\ Tail(s) \in Seq(S) /\ Head(s) \in S
           /\ 1 \in DOMAIN s /\ s[1] = Head(s)
           /\ \A i \in DOMAIN Tail(s) :
                 i \in Nat /\ i + 1 \in DOMAIN s /\ Tail(s)[i] = s[i + 1]
  <1>1. PICK n \in Nat \ {0} : n = Len(s)
    BY EmptySeq
  <1>2. /\ Tail(s) \in Seq(S) /\ Len(Tail(s)) = n - 1 /\ Head(s) \in S
        /\ \A i \in 1..(n - 1) : Tail(s)[i] = s[i + 1]
    BY <1>1, HeadTailProperties
  <1>3. DOMAIN s = 1..n /\ DOMAIN Tail(s) = 1..(n - 1) /\ s[1] = Head(s)
    BY <1>1, <1>2
  <1>. QED  BY <1>1, <1>2, <1>3


\* Every step keeps the types.
LEMMA TypeStep ==
    ASSUME CMTypeOK, StartInv, CallInv, [Next]_vars
    PROVE  CMTypeOK'
  <1>1. CASE StartListening
    BY <1>1, Domains
       DEF StartListening, CMTypeOK, MaxCloses, acceptVars, closeVars,
           rmVars, stopVars
  <1>2. CASE StartFails
    BY <1>2, Domains
       DEF StartFails, CMTypeOK, MaxCloses, acceptVars, closeVars, rmVars,
           stopVars
  <1>3. ASSUME NEW c \in Conns, AcceptConn(c) PROVE CMTypeOK'
    BY <1>3, Domains
       DEF AcceptConn, CMTypeOK, MaxCloses, acceptVars, closeVars, rmVars,
           stopVars
  <1>4. CASE RegisterConnection
    <2>1. accepted \in Conns
      BY <1>4 DEF RegisterConnection, StartInv, CMTypeOK
    <2>. QED
      BY <1>4, <2>1
         DEF RegisterConnection, CMTypeOK, closeVars, rmVars, stopVars
  <1>5. CASE ListenerFails
    BY <1>5, Domains
       DEF ListenerFails, CMTypeOK, MaxCloses, acceptVars, closeVars,
           rmVars, stopVars
  <1>6. CASE AcceptErrorReturn
    BY <1>6, Domains
       DEF AcceptErrorReturn, CMTypeOK, MaxCloses, acceptVars, closeVars,
           rmVars, stopVars
  <1>7. CASE AcceptErrorContinue
    BY <1>7, Domains
       DEF AcceptErrorContinue, vars, CMTypeOK, MaxCloses, acceptVars,
           closeVars, rmVars, stopVars
  <1>8. CASE StopCancel
    BY <1>8, Domains
       DEF StopCancel, CMTypeOK, MaxCloses, acceptVars, closeVars, rmVars,
           stopVars
  <1>9. CASE StopSnapshot
    BY <1>9, Domains
       DEF StopSnapshot, CMTypeOK, MaxCloses, acceptVars, closeVars,
           rmVars, stopVars
  <1>10. CASE StopCloseServer
    BY <1>10, Domains
       DEF StopCloseServer, CMTypeOK, MaxCloses, acceptVars, closeVars,
           rmVars, stopVars
  <1>11. ASSUME NEW c \in Conns, StopClose(c) PROVE CMTypeOK'
    BY <1>11, Domains
       DEF StopClose, CallClose, CMTypeOK, MaxCloses, acceptVars,
           closeVars, rmVars, stopVars
  <1>12. CASE StopReturn
    BY <1>12, Domains
       DEF StopReturn, CMTypeOK, MaxCloses, acceptVars, closeVars, rmVars,
           stopVars
  <1>13. ASSUME NEW c \in Conns, HandshakeOk(c) PROVE CMTypeOK'
    BY <1>13, Domains
       DEF HandshakeOk, CMTypeOK, MaxCloses, acceptVars, closeVars, rmVars,
           stopVars
  <1>14. ASSUME NEW c \in Conns, HandshakeFails(c) PROVE CMTypeOK'
    BY <1>14, Domains
       DEF HandshakeFails, CallClose, CMTypeOK, MaxCloses, acceptVars,
           closeVars, rmVars, stopVars
  <1>15. ASSUME NEW c \in Conns, HandshakeMismatch(c) PROVE CMTypeOK'
    BY <1>15, Domains
       DEF HandshakeMismatch, CMTypeOK, MaxCloses, acceptVars, closeVars,
           rmVars, stopVars
  <1>16. ASSUME NEW c \in Conns, ReadMessage(c) PROVE CMTypeOK'
    BY <1>16, Domains
       DEF ReadMessage, CMTypeOK, MaxCloses, acceptVars, closeVars, rmVars,
           stopVars
  <1>17. ASSUME NEW c \in Conns, ReadFails(c) PROVE CMTypeOK'
    BY <1>17, Domains
       DEF ReadFails, CallClose, CMTypeOK, MaxCloses, acceptVars,
           closeVars, rmVars, stopVars
  <1>18. ASSUME NEW c \in Conns, EnqueueMessage(c) PROVE CMTypeOK'
    BY <1>18, Domains
       DEF EnqueueMessage, CMTypeOK, MaxCloses, acceptVars, closeVars,
           rmVars, stopVars
  <1>19. ASSUME NEW c \in Conns, PeerGone(c) PROVE CMTypeOK'
    BY <1>19, Domains
       DEF PeerGone, CMTypeOK, MaxCloses, acceptVars, closeVars, rmVars,
           stopVars
  <1>20. ASSUME NEW t \in Threads, EnterOnce(t) PROVE CMTypeOK'
    <2>1. /\ closePc' \in [Threads -> {"none", "enter", "close", "unregister", "notify"}]
          /\ closeOf' = closeOf
      BY <1>20, Domains DEF EnterOnce, ReturnFromClose, CMTypeOK
    <2>2. reader' \in [Conns -> {"none", "handshake", "reading", "enqueue",
                                 "closing", "mismatch", "exited"}]
      BY <1>20, Domains DEF EnterOnce, ReturnFromClose, CMTypeOK
    <2>3. once' \in [Conns -> {"idle", "running", "done"}]
      BY <1>20, Domains DEF EnterOnce, ReturnFromClose, CMTypeOK
    <2>4. connections' \in SUBSET Conns /\ clientDisconnectedChannel' \in Seq(Conns)
      BY <1>20 DEF EnterOnce, CMTypeOK
    <2>5. UNCHANGED <<acceptVars, socket, stopVars, clientMessageChannel, rmVars, received>>
      BY <1>20 DEF EnterOnce
    <2>. QED
      BY <2>1, <2>2, <2>3, <2>4, <2>5
         DEF CMTypeOK, acceptVars, rmVars, stopVars
  <1>21. ASSUME NEW t \in Threads, CloseSocket(t) PROVE CMTypeOK'
    BY <1>21, Domains
       DEF CloseSocket, CMTypeOK, MaxCloses, acceptVars, closeVars, rmVars,
           stopVars
  <1>22. ASSUME NEW t \in Threads, Unregister(t) PROVE CMTypeOK'
    <2>1. /\ closePc' \in [Threads -> {"none", "enter", "close", "unregister", "notify"}]
          /\ closeOf' = closeOf
      BY <1>22, Domains
         DEF Unregister, FinishClose, ReturnFromClose, Bypasses, CMTypeOK
    <2>2. reader' \in [Conns -> {"none", "handshake", "reading", "enqueue",
                                 "closing", "mismatch", "exited"}]
      BY <1>22, Domains
         DEF Unregister, FinishClose, ReturnFromClose, Bypasses, CMTypeOK
    <2>3. once' \in [Conns -> {"idle", "running", "done"}]
      BY <1>22, Domains
         DEF Unregister, FinishClose, ReturnFromClose, Bypasses, CMTypeOK
    <2>4. connections' \in SUBSET Conns /\ clientDisconnectedChannel' \in Seq(Conns)
      BY <1>22 DEF Unregister, CMTypeOK
    <2>5. UNCHANGED <<acceptVars, socket, stopVars, clientMessageChannel, rmVars, received>>
      BY <1>22 DEF Unregister
    <2>. QED
      BY <2>1, <2>2, <2>3, <2>4, <2>5
         DEF CMTypeOK, acceptVars, rmVars, stopVars
  <1>23. ASSUME NEW t \in Threads, NotifyDisconnected(t) PROVE CMTypeOK'
    <2>1. /\ closePc' \in [Threads -> {"none", "enter", "close", "unregister", "notify"}]
          /\ closeOf' = closeOf
      BY <1>23, Domains
         DEF NotifyDisconnected, FinishClose, ReturnFromClose, Bypasses,
             CMTypeOK
    <2>2. reader' \in [Conns -> {"none", "handshake", "reading", "enqueue",
                                 "closing", "mismatch", "exited"}]
      BY <1>23, Domains
         DEF NotifyDisconnected, FinishClose, ReturnFromClose, Bypasses,
             CMTypeOK
    <2>3. once' \in [Conns -> {"idle", "running", "done"}]
      BY <1>23, Domains
         DEF NotifyDisconnected, FinishClose, ReturnFromClose, Bypasses,
             CMTypeOK
    <2>4. connections' \in SUBSET Conns /\ clientDisconnectedChannel' \in Seq(Conns)
      <3>1. closeOf[t] \in Conns
        BY <1>23 DEF NotifyDisconnected, CallInv
      <3>. QED
        BY <1>23, <3>1, Domains, QueuePush
           DEF NotifyDisconnected, CMTypeOK
    <2>5. UNCHANGED <<acceptVars, socket, stopVars, clientMessageChannel, rmVars, received>>
      BY <1>23 DEF NotifyDisconnected
    <2>. QED
      BY <2>1, <2>2, <2>3, <2>4, <2>5
         DEF CMTypeOK, acceptVars, rmVars, stopVars
  <1>24. CASE RMTakeMessage
    <2>1. Tail(clientMessageChannel) \in Seq(Conns) /\ Head(clientMessageChannel) \in Conns
      BY <1>24, Domains, QueuePop DEF RMTakeMessage
    <2>. QED
      BY <1>24, <2>1
         DEF RMTakeMessage, CMTypeOK, MaxCloses, acceptVars, closeVars,
             stopVars
  <1>25. CASE RMTakeDisconnected
    <2>1. Tail(clientDisconnectedChannel) \in Seq(Conns)
      BY <1>25, Domains, QueuePop DEF RMTakeDisconnected
    <2>. QED
      BY <1>25, <2>1
         DEF RMTakeDisconnected, CMTypeOK, MaxCloses, acceptVars,
             closeVars, stopVars
  <1>26. ASSUME NEW c \in Conns, RMClose(c) PROVE CMTypeOK'
    BY <1>26, Domains
       DEF RMClose, CallClose, CMTypeOK, MaxCloses, acceptVars, closeVars,
           rmVars, stopVars
  <1>27. CASE RMHandled
    BY <1>27, Domains
       DEF RMHandled, CMTypeOK, MaxCloses, acceptVars, closeVars, rmVars,
           stopVars
  <1>28. CASE UNCHANGED vars
    BY <1>28
       DEF vars, CMTypeOK, MaxCloses, acceptVars, closeVars, rmVars,
           stopVars
  <1>. QED
    BY <1>1, <1>2, <1>3, <1>4, <1>5, <1>6, <1>7, <1>8, <1>9, <1>10, <1>11,
       <1>12, <1>13, <1>14, <1>15, <1>16, <1>17, <1>18, <1>19, <1>20, <1>21,
       <1>22, <1>23, <1>24, <1>25, <1>26, <1>27, <1>28 DEF Next, AcceptNext,
       StopNext, ReaderNext, CloseNext, RMNext

\* Nobody but RegisterConnection starts a run().
LEMMA StartedSame ==
    ASSUME \A c \in Conns : reader'[c] = "none" <=> reader[c] = "none"
    PROVE  Started' = Started
  BY DEF Started

\* So far, finitely many have been started.
LEMMA FiniteStep ==
    ASSUME CMTypeOK, StartInv, CallInv, [Next]_vars
    PROVE  IsFiniteSet(Started)'
  <1>1. CASE StartListening
    <2>1. \A d \in Conns : reader'[d] = "none" <=> reader[d] = "none"
      BY <1>1, Domains DEF StartListening, CallInv
    <2>. QED  BY <2>1, StartedSame DEF StartInv
  <1>2. CASE StartFails
    <2>1. \A d \in Conns : reader'[d] = "none" <=> reader[d] = "none"
      BY <1>2, Domains DEF StartFails, CallInv
    <2>. QED  BY <2>1, StartedSame DEF StartInv
  <1>3. ASSUME NEW c \in Conns, AcceptConn(c) PROVE IsFiniteSet(Started)'
    <2>1. \A d \in Conns : reader'[d] = "none" <=> reader[d] = "none"
      BY <1>3, Domains DEF AcceptConn, CallInv
    <2>. QED  BY <2>1, StartedSame DEF StartInv
  <1>4. CASE RegisterConnection
    <2>1. accepted \in Conns
      BY <1>4 DEF RegisterConnection, StartInv, CMTypeOK
    <2>2. Started' = Started \cup {accepted}
      BY <1>4, <2>1, Domains DEF RegisterConnection, Started
    <2>. QED  BY <2>2, FS_AddElement DEF StartInv
  <1>5. CASE ListenerFails
    <2>1. \A d \in Conns : reader'[d] = "none" <=> reader[d] = "none"
      BY <1>5, Domains DEF ListenerFails, CallInv
    <2>. QED  BY <2>1, StartedSame DEF StartInv
  <1>6. CASE AcceptErrorReturn
    <2>1. \A d \in Conns : reader'[d] = "none" <=> reader[d] = "none"
      BY <1>6, Domains DEF AcceptErrorReturn, CallInv
    <2>. QED  BY <2>1, StartedSame DEF StartInv
  <1>7. CASE AcceptErrorContinue
    BY <1>7, StartedSame DEF AcceptErrorContinue, vars, StartInv
  <1>8. CASE StopCancel
    <2>1. \A d \in Conns : reader'[d] = "none" <=> reader[d] = "none"
      BY <1>8, Domains DEF StopCancel, CallInv
    <2>. QED  BY <2>1, StartedSame DEF StartInv
  <1>9. CASE StopSnapshot
    <2>1. \A d \in Conns : reader'[d] = "none" <=> reader[d] = "none"
      BY <1>9, Domains DEF StopSnapshot, CallInv
    <2>. QED  BY <2>1, StartedSame DEF StartInv
  <1>10. CASE StopCloseServer
    <2>1. \A d \in Conns : reader'[d] = "none" <=> reader[d] = "none"
      BY <1>10, Domains DEF StopCloseServer, CallInv
    <2>. QED  BY <2>1, StartedSame DEF StartInv
  <1>11. ASSUME NEW c \in Conns, StopClose(c) PROVE IsFiniteSet(Started)'
    <2>1. \A d \in Conns : reader'[d] = "none" <=> reader[d] = "none"
      BY <1>11, Domains DEF StopClose, CallClose, CallInv
    <2>. QED  BY <2>1, StartedSame DEF StartInv
  <1>12. CASE StopReturn
    <2>1. \A d \in Conns : reader'[d] = "none" <=> reader[d] = "none"
      BY <1>12, Domains DEF StopReturn, CallInv
    <2>. QED  BY <2>1, StartedSame DEF StartInv
  <1>13. ASSUME NEW c \in Conns, HandshakeOk(c) PROVE IsFiniteSet(Started)'
    <2>1. \A d \in Conns : reader'[d] = "none" <=> reader[d] = "none"
      BY <1>13, Domains DEF HandshakeOk, CallInv
    <2>. QED  BY <2>1, StartedSame DEF StartInv
  <1>14. ASSUME NEW c \in Conns, HandshakeFails(c) PROVE IsFiniteSet(Started)'
    <2>1. \A d \in Conns : reader'[d] = "none" <=> reader[d] = "none"
      BY <1>14, Domains DEF HandshakeFails, CallClose, CallInv
    <2>. QED  BY <2>1, StartedSame DEF StartInv
  <1>15. ASSUME NEW c \in Conns, HandshakeMismatch(c) PROVE IsFiniteSet(Started)'
    <2>1. \A d \in Conns : reader'[d] = "none" <=> reader[d] = "none"
      BY <1>15, Domains DEF HandshakeMismatch, CallInv
    <2>. QED  BY <2>1, StartedSame DEF StartInv
  <1>16. ASSUME NEW c \in Conns, ReadMessage(c) PROVE IsFiniteSet(Started)'
    <2>1. \A d \in Conns : reader'[d] = "none" <=> reader[d] = "none"
      BY <1>16, Domains DEF ReadMessage, CallInv
    <2>. QED  BY <2>1, StartedSame DEF StartInv
  <1>17. ASSUME NEW c \in Conns, ReadFails(c) PROVE IsFiniteSet(Started)'
    <2>1. \A d \in Conns : reader'[d] = "none" <=> reader[d] = "none"
      BY <1>17, Domains DEF ReadFails, CallClose, CallInv
    <2>. QED  BY <2>1, StartedSame DEF StartInv
  <1>18. ASSUME NEW c \in Conns, EnqueueMessage(c) PROVE IsFiniteSet(Started)'
    <2>1. \A d \in Conns : reader'[d] = "none" <=> reader[d] = "none"
      BY <1>18, Domains DEF EnqueueMessage, CallInv
    <2>. QED  BY <2>1, StartedSame DEF StartInv
  <1>19. ASSUME NEW c \in Conns, PeerGone(c) PROVE IsFiniteSet(Started)'
    <2>1. \A d \in Conns : reader'[d] = "none" <=> reader[d] = "none"
      BY <1>19, Domains DEF PeerGone, CallInv
    <2>. QED  BY <2>1, StartedSame DEF StartInv
  <1>20. ASSUME NEW t \in Threads, EnterOnce(t) PROVE IsFiniteSet(Started)'
    <2>1. \A d \in Conns : reader'[d] = "none" <=> reader[d] = "none"
      BY <1>20, Domains DEF EnterOnce, ReturnFromClose, CallInv
    <2>. QED  BY <2>1, StartedSame DEF StartInv
  <1>21. ASSUME NEW t \in Threads, CloseSocket(t) PROVE IsFiniteSet(Started)'
    <2>1. \A d \in Conns : reader'[d] = "none" <=> reader[d] = "none"
      BY <1>21, Domains DEF CloseSocket, CallInv
    <2>. QED  BY <2>1, StartedSame DEF StartInv
  <1>22. ASSUME NEW t \in Threads, Unregister(t) PROVE IsFiniteSet(Started)'
    <2>1. \A d \in Conns : reader'[d] = "none" <=> reader[d] = "none"
      BY <1>22, Domains
         DEF Unregister, FinishClose, ReturnFromClose, Bypasses, CallInv
    <2>. QED  BY <2>1, StartedSame DEF StartInv
  <1>23. ASSUME NEW t \in Threads, NotifyDisconnected(t) PROVE IsFiniteSet(Started)'
    <2>1. \A d \in Conns : reader'[d] = "none" <=> reader[d] = "none"
      BY <1>23, Domains
         DEF NotifyDisconnected, FinishClose, ReturnFromClose, Bypasses,
             CallInv
    <2>. QED  BY <2>1, StartedSame DEF StartInv
  <1>24. CASE RMTakeMessage
    <2>1. \A d \in Conns : reader'[d] = "none" <=> reader[d] = "none"
      BY <1>24, Domains DEF RMTakeMessage, CallInv
    <2>. QED  BY <2>1, StartedSame DEF StartInv
  <1>25. CASE RMTakeDisconnected
    <2>1. \A d \in Conns : reader'[d] = "none" <=> reader[d] = "none"
      BY <1>25, Domains DEF RMTakeDisconnected, CallInv
    <2>. QED  BY <2>1, StartedSame DEF StartInv
  <1>26. ASSUME NEW c \in Conns, RMClose(c) PROVE IsFiniteSet(Started)'
    <2>1. \A d \in Conns : reader'[d] = "none" <=> reader[d] = "none"
      BY <1>26, Domains DEF RMClose, CallClose, CallInv
    <2>. QED  BY <2>1, StartedSame DEF StartInv
  <1>27. CASE RMHandled
    <2>1. \A d \in Conns : reader'[d] = "none" <=> reader[d] = "none"
      BY <1>27, Domains DEF RMHandled, CallInv
    <2>. QED  BY <2>1, StartedSame DEF StartInv
  <1>28. CASE UNCHANGED vars
    BY <1>28 DEF vars, StartInv, Started, acceptVars, closeVars, rmVars, stopVars
  <1>. QED
    BY <1>1, <1>2, <1>3, <1>4, <1>5, <1>6, <1>7, <1>8, <1>9, <1>10, <1>11,
       <1>12, <1>13, <1>14, <1>15, <1>16, <1>17, <1>18, <1>19, <1>20, <1>21,
       <1>22, <1>23, <1>24, <1>25, <1>26, <1>27, <1>28 DEF Next, AcceptNext,
       StopNext, ReaderNext, CloseNext, RMNext

\* Nothing happens to a connection before its run() is started.
LEMMA StartStep ==
    ASSUME CMTypeOK, StartInv, CallInv, IsFiniteSet(Started)', [Next]_vars
    PROVE  StartInv'
  <1>1. CASE StartListening
    BY <1>1, Domains
       DEF StartListening, StartInv, CallInv, CMTypeOK, acceptVars,
           closeVars, rmVars, stopVars
  <1>2. CASE StartFails
    BY <1>2, Domains
       DEF StartFails, StartInv, CallInv, CMTypeOK, acceptVars, closeVars,
           rmVars, stopVars
  <1>3. ASSUME NEW c \in Conns, AcceptConn(c) PROVE StartInv'
    BY <1>3, Domains
       DEF AcceptConn, StartInv, CallInv, CMTypeOK, acceptVars, closeVars,
           rmVars, stopVars
  <1>4. CASE RegisterConnection
    <2>1. /\ accepted \in Conns /\ socket[accepted] # "none"
          /\ reader' = [reader EXCEPT ![accepted] = "handshake"]
          /\ acceptor' = "accepting" /\ accepted' = NoConn
          /\ connections' = connections \cup {accepted}
      BY <1>4 DEF RegisterConnection, StartInv, CMTypeOK
    <2>2. UNCHANGED <<socket, toClose, once, clientDisconnectedChannel>>
      BY <1>4 DEF RegisterConnection, closeVars, stopVars
    <2>3. \A d \in Conns : reader'[d] = IF d = accepted THEN "handshake" ELSE reader[d]
      BY <2>1, Domains
    <2>4. \A i \in DOMAIN clientDisconnectedChannel : clientDisconnectedChannel[i] \in Conns
      BY Domains
    <2>5. \A d \in Conns : socket[d] = "none" => reader[d] = "none" /\ d # accepted
      BY DEF StartInv
    <2>. HIDE <2>1
    <2>6. acceptor' = "accepting" /\ accepted' = NoConn /\ accepted \in Conns
          /\ connections' = connections \cup {accepted}
      BY <2>1
    <2>7. /\ \A d \in Conns : socket'[d] = "none" => reader'[d] = "none" /\ d # accepted'
          /\ \A d \in Conns : reader'[d] = "none" => d \notin connections' /\ d \notin toClose' /\ once'[d] = "idle"
      BY <2>2, <2>3, <2>5, <2>6, Domains DEF StartInv
    <2>8. \A i \in DOMAIN clientDisconnectedChannel' : reader'[clientDisconnectedChannel'[i]] # "none"
      BY <2>2, <2>3, <2>4 DEF StartInv
    <2>. QED  BY <2>6, <2>7, <2>8 DEF StartInv
  <1>5. CASE ListenerFails
    BY <1>5, Domains
       DEF ListenerFails, StartInv, CallInv, CMTypeOK, acceptVars,
           closeVars, rmVars, stopVars
  <1>6. CASE AcceptErrorReturn
    BY <1>6, Domains
       DEF AcceptErrorReturn, StartInv, CallInv, CMTypeOK, acceptVars,
           closeVars, rmVars, stopVars
  <1>7. CASE AcceptErrorContinue
    BY <1>7, Domains
       DEF AcceptErrorContinue, vars, StartInv, CallInv, CMTypeOK,
           acceptVars, closeVars, rmVars, stopVars
  <1>8. CASE StopCancel
    BY <1>8, Domains
       DEF StopCancel, StartInv, CallInv, CMTypeOK, acceptVars, closeVars,
           rmVars, stopVars
  <1>9. CASE StopSnapshot
    BY <1>9, Domains
       DEF StopSnapshot, StartInv, CallInv, CMTypeOK, acceptVars,
           closeVars, rmVars, stopVars
  <1>10. CASE StopCloseServer
    BY <1>10, Domains
       DEF StopCloseServer, StartInv, CallInv, CMTypeOK, acceptVars,
           closeVars, rmVars, stopVars
  <1>11. ASSUME NEW c \in Conns, StopClose(c) PROVE StartInv'
    BY <1>11, Domains
       DEF StopClose, CallClose, StartInv, CallInv, CMTypeOK, acceptVars,
           closeVars, rmVars, stopVars
  <1>12. CASE StopReturn
    BY <1>12, Domains
       DEF StopReturn, StartInv, CallInv, CMTypeOK, acceptVars, closeVars,
           rmVars, stopVars
  <1>13. ASSUME NEW c \in Conns, HandshakeOk(c) PROVE StartInv'
    <2>1. \A d \in Conns : reader'[d] = "none" <=> reader[d] = "none"
      BY <1>13, Domains DEF HandshakeOk, CallInv
    <2>2. UNCHANGED <<acceptor, accepted, connections, socket, toClose, clientDisconnectedChannel>>
      BY <1>13 DEF HandshakeOk, acceptVars, closeVars, rmVars, stopVars
    <2>3. \A d \in Conns : once'[d] = once[d] \/ reader[d] # "none"
      BY <1>13, Domains
         DEF HandshakeOk, acceptVars, closeVars, rmVars, stopVars, CallInv
    <2>4. \A i \in DOMAIN clientDisconnectedChannel : clientDisconnectedChannel[i] \in Conns
      BY Domains
    <2>. QED  BY <2>1, <2>2, <2>3, <2>4, Domains DEF StartInv, CMTypeOK
  <1>14. ASSUME NEW c \in Conns, HandshakeFails(c) PROVE StartInv'
    <2>1. \A d \in Conns : reader'[d] = "none" <=> reader[d] = "none"
      BY <1>14, Domains DEF HandshakeFails, CallClose, CallInv
    <2>2. UNCHANGED <<acceptor, accepted, connections, socket, toClose, clientDisconnectedChannel>>
      BY <1>14 DEF HandshakeFails, acceptVars, closeVars, rmVars, stopVars
    <2>3. \A d \in Conns : once'[d] = once[d] \/ reader[d] # "none"
      BY <1>14, Domains
         DEF HandshakeFails, CallClose, acceptVars, closeVars, rmVars,
             stopVars, CallInv
    <2>4. \A i \in DOMAIN clientDisconnectedChannel : clientDisconnectedChannel[i] \in Conns
      BY Domains
    <2>. QED  BY <2>1, <2>2, <2>3, <2>4, Domains DEF StartInv, CMTypeOK
  <1>15. ASSUME NEW c \in Conns, HandshakeMismatch(c) PROVE StartInv'
    <2>1. \A d \in Conns : reader'[d] = "none" <=> reader[d] = "none"
      BY <1>15, Domains DEF HandshakeMismatch, CallInv
    <2>2. UNCHANGED <<acceptor, accepted, connections, socket, toClose, clientDisconnectedChannel>>
      BY <1>15 DEF HandshakeMismatch, acceptVars, closeVars, rmVars, stopVars
    <2>3. \A d \in Conns : once'[d] = once[d] \/ reader[d] # "none"
      BY <1>15, Domains
         DEF HandshakeMismatch, acceptVars, closeVars, rmVars, stopVars,
             CallInv
    <2>4. \A i \in DOMAIN clientDisconnectedChannel : clientDisconnectedChannel[i] \in Conns
      BY Domains
    <2>. QED  BY <2>1, <2>2, <2>3, <2>4, Domains DEF StartInv, CMTypeOK
  <1>16. ASSUME NEW c \in Conns, ReadMessage(c) PROVE StartInv'
    <2>1. \A d \in Conns : reader'[d] = "none" <=> reader[d] = "none"
      BY <1>16, Domains DEF ReadMessage, CallInv
    <2>2. UNCHANGED <<acceptor, accepted, connections, socket, toClose, clientDisconnectedChannel>>
      BY <1>16 DEF ReadMessage, acceptVars, closeVars, rmVars, stopVars
    <2>3. \A d \in Conns : once'[d] = once[d] \/ reader[d] # "none"
      BY <1>16, Domains
         DEF ReadMessage, acceptVars, closeVars, rmVars, stopVars, CallInv
    <2>4. \A i \in DOMAIN clientDisconnectedChannel : clientDisconnectedChannel[i] \in Conns
      BY Domains
    <2>. QED  BY <2>1, <2>2, <2>3, <2>4, Domains DEF StartInv, CMTypeOK
  <1>17. ASSUME NEW c \in Conns, ReadFails(c) PROVE StartInv'
    <2>1. \A d \in Conns : reader'[d] = "none" <=> reader[d] = "none"
      BY <1>17, Domains DEF ReadFails, CallClose, CallInv
    <2>2. UNCHANGED <<acceptor, accepted, connections, socket, toClose, clientDisconnectedChannel>>
      BY <1>17 DEF ReadFails, acceptVars, closeVars, rmVars, stopVars
    <2>3. \A d \in Conns : once'[d] = once[d] \/ reader[d] # "none"
      BY <1>17, Domains
         DEF ReadFails, CallClose, acceptVars, closeVars, rmVars, stopVars,
             CallInv
    <2>4. \A i \in DOMAIN clientDisconnectedChannel : clientDisconnectedChannel[i] \in Conns
      BY Domains
    <2>. QED  BY <2>1, <2>2, <2>3, <2>4, Domains DEF StartInv, CMTypeOK
  <1>18. ASSUME NEW c \in Conns, EnqueueMessage(c) PROVE StartInv'
    <2>1. \A d \in Conns : reader'[d] = "none" <=> reader[d] = "none"
      BY <1>18, Domains DEF EnqueueMessage, CallInv
    <2>2. UNCHANGED <<acceptor, accepted, connections, socket, toClose, clientDisconnectedChannel>>
      BY <1>18 DEF EnqueueMessage, acceptVars, closeVars, rmVars, stopVars
    <2>3. \A d \in Conns : once'[d] = once[d] \/ reader[d] # "none"
      BY <1>18, Domains
         DEF EnqueueMessage, acceptVars, closeVars, rmVars, stopVars,
             CallInv
    <2>4. \A i \in DOMAIN clientDisconnectedChannel : clientDisconnectedChannel[i] \in Conns
      BY Domains
    <2>. QED  BY <2>1, <2>2, <2>3, <2>4, Domains DEF StartInv, CMTypeOK
  <1>19. ASSUME NEW c \in Conns, PeerGone(c) PROVE StartInv'
    BY <1>19, Domains
       DEF PeerGone, StartInv, CallInv, CMTypeOK, acceptVars, closeVars,
           rmVars, stopVars
  <1>20. ASSUME NEW t \in Threads, EnterOnce(t) PROVE StartInv'
    <2>1. \A d \in Conns : reader'[d] = "none" <=> reader[d] = "none"
      BY <1>20, Domains DEF EnterOnce, ReturnFromClose, CallInv
    <2>2. UNCHANGED <<acceptor, accepted, connections, socket, toClose, clientDisconnectedChannel>>
      BY <1>20 DEF EnterOnce, acceptVars, closeVars, rmVars, stopVars
    <2>3. \A d \in Conns : once'[d] = once[d] \/ reader[d] # "none"
      BY <1>20, Domains
         DEF EnterOnce, ReturnFromClose, acceptVars, closeVars, rmVars,
             stopVars, CallInv
    <2>4. \A i \in DOMAIN clientDisconnectedChannel : clientDisconnectedChannel[i] \in Conns
      BY Domains
    <2>. QED  BY <2>1, <2>2, <2>3, <2>4, Domains DEF StartInv, CMTypeOK
  <1>21. ASSUME NEW t \in Threads, CloseSocket(t) PROVE StartInv'
    BY <1>21, Domains
       DEF CloseSocket, StartInv, CallInv, CMTypeOK, acceptVars, closeVars,
           rmVars, stopVars
  <1>22. ASSUME NEW t \in Threads, Unregister(t) PROVE StartInv'
    <2>1. \A d \in Conns : reader'[d] = "none" <=> reader[d] = "none"
      BY <1>22, Domains
         DEF Unregister, FinishClose, ReturnFromClose, Bypasses, CallInv
    <2>2. UNCHANGED <<acceptor, accepted, socket, toClose, clientDisconnectedChannel>>
      BY <1>22 DEF Unregister, acceptVars, closeVars, rmVars, stopVars
    <2>3. \A d \in Conns : once'[d] = once[d] \/ reader[d] # "none"
      BY <1>22, Domains
         DEF Unregister, FinishClose, ReturnFromClose, Bypasses,
             acceptVars, closeVars, rmVars, stopVars, CallInv
    <2>4. \A i \in DOMAIN clientDisconnectedChannel : clientDisconnectedChannel[i] \in Conns
      BY Domains
    <2>5. connections' \subseteq connections
      BY <1>22 DEF Unregister
    <2>. QED  BY <2>5, <2>1, <2>2, <2>3, <2>4, Domains DEF StartInv, CMTypeOK
  <1>23. ASSUME NEW t \in Threads, NotifyDisconnected(t) PROVE StartInv'
    <2>1. \A d \in Conns : reader'[d] = "none" <=> reader[d] = "none"
      BY <1>23, Domains
         DEF NotifyDisconnected, FinishClose, ReturnFromClose, CallInv
    <2>2. UNCHANGED <<acceptor, accepted, connections, socket, toClose>>
      BY <1>23 DEF NotifyDisconnected, acceptVars, stopVars
    <2>3. \A d \in Conns : once'[d] = once[d] \/ reader[d] # "none"
      BY <1>23, Domains DEF NotifyDisconnected, FinishClose, Bypasses, CallInv
    <2>4. closeOf[t] \in Conns /\ reader[closeOf[t]] # "none"
      BY <1>23 DEF NotifyDisconnected, CallInv
    <2>5. clientDisconnectedChannel' = Append(clientDisconnectedChannel, closeOf[t])
      BY <1>23 DEF NotifyDisconnected
    <2>6. \A i \in DOMAIN clientDisconnectedChannel' :
             \/ i \in DOMAIN clientDisconnectedChannel
                  /\ clientDisconnectedChannel'[i] = clientDisconnectedChannel[i]
             \/ clientDisconnectedChannel'[i] = closeOf[t]
      BY <2>4, <2>5, Domains, QueuePush
    <2>. HIDE <2>5
    <2>7. \A i \in DOMAIN clientDisconnectedChannel : clientDisconnectedChannel[i] \in Conns
      BY Domains
    <2>8. \A i \in DOMAIN clientDisconnectedChannel' : reader'[clientDisconnectedChannel'[i]] # "none"
      BY <2>1, <2>4, <2>6, <2>7 DEF StartInv
    <2>. QED  BY <2>1, <2>2, <2>3, <2>8, Domains DEF StartInv, CMTypeOK
  <1>24. CASE RMTakeMessage
    BY <1>24, Domains
       DEF RMTakeMessage, StartInv, CallInv, CMTypeOK, acceptVars,
           closeVars, rmVars, stopVars
  <1>25. CASE RMTakeDisconnected
    BY <1>25, Domains
       DEF RMTakeDisconnected, StartInv, CallInv, CMTypeOK, acceptVars,
           closeVars, rmVars, stopVars
  <1>26. ASSUME NEW c \in Conns, RMClose(c) PROVE StartInv'
    BY <1>26, Domains
       DEF RMClose, CallClose, StartInv, CallInv, CMTypeOK, acceptVars,
           closeVars, rmVars, stopVars
  <1>27. CASE RMHandled
    BY <1>27, Domains
       DEF RMHandled, StartInv, CallInv, CMTypeOK, acceptVars, closeVars,
           rmVars, stopVars
  <1>28. CASE UNCHANGED vars
    BY <1>28
       DEF vars, StartInv, CallInv, CMTypeOK, acceptVars, closeVars,
           rmVars, stopVars
  <1>. QED
    BY <1>1, <1>2, <1>3, <1>4, <1>5, <1>6, <1>7, <1>8, <1>9, <1>10, <1>11,
       <1>12, <1>13, <1>14, <1>15, <1>16, <1>17, <1>18, <1>19, <1>20, <1>21,
       <1>22, <1>23, <1>24, <1>25, <1>26, <1>27, <1>28 DEF Next, AcceptNext,
       StopNext, ReaderNext, CloseNext, RMNext

\* Who is in a close call, and about what.
LEMMA CallStep ==
    ASSUME CMTypeOK, StartInv, CallInv, [Next]_vars
    PROVE  CallInv'
  <1>. USE DEF CallInv
  <1>1. CASE StartListening
    BY <1>1, Domains
       DEF StartListening, StartInv, acceptVars, closeVars, rmVars,
           stopVars
  <1>2. CASE StartFails
    BY <1>2, Domains
       DEF StartFails, StartInv, acceptVars, closeVars, rmVars, stopVars
  <1>3. ASSUME NEW c \in Conns, AcceptConn(c) PROVE CallInv'
    BY <1>3, Domains
       DEF AcceptConn, StartInv, acceptVars, closeVars, rmVars, stopVars
  <1>4. CASE RegisterConnection
    BY <1>4, Domains
       DEF RegisterConnection, StartInv, acceptVars, closeVars, rmVars,
           stopVars
  <1>5. CASE ListenerFails
    BY <1>5, Domains
       DEF ListenerFails, StartInv, acceptVars, closeVars, rmVars, stopVars
  <1>6. CASE AcceptErrorReturn
    BY <1>6, Domains
       DEF AcceptErrorReturn, StartInv, acceptVars, closeVars, rmVars,
           stopVars
  <1>7. CASE AcceptErrorContinue
    BY <1>7, Domains
       DEF AcceptErrorContinue, vars, StartInv, acceptVars, closeVars,
           rmVars, stopVars
  <1>8. CASE StopCancel
    BY <1>8, Domains
       DEF StopCancel, StartInv, acceptVars, closeVars, rmVars, stopVars
  <1>9. CASE StopSnapshot
    BY <1>9, Domains
       DEF StopSnapshot, StartInv, acceptVars, closeVars, rmVars, stopVars
  <1>10. CASE StopCloseServer
    BY <1>10, Domains
       DEF StopCloseServer, StartInv, acceptVars, closeVars, rmVars,
           stopVars
  <1>11. ASSUME NEW c \in Conns, StopClose(c) PROVE CallInv'
    BY <1>11, Domains
       DEF StopClose, CallClose, StartInv, acceptVars, closeVars, rmVars,
           stopVars
  <1>12. CASE StopReturn
    BY <1>12, Domains
       DEF StopReturn, StartInv, acceptVars, closeVars, rmVars, stopVars
  <1>13. ASSUME NEW c \in Conns, HandshakeOk(c) PROVE CallInv'
    BY <1>13, Domains
       DEF HandshakeOk, StartInv, acceptVars, closeVars, rmVars, stopVars
  <1>14. ASSUME NEW c \in Conns, HandshakeFails(c) PROVE CallInv'
    BY <1>14, Domains
       DEF HandshakeFails, CallClose, StartInv, acceptVars, closeVars,
           rmVars, stopVars
  <1>15. ASSUME NEW c \in Conns, HandshakeMismatch(c) PROVE CallInv'
    BY <1>15, Domains
       DEF HandshakeMismatch, StartInv, acceptVars, closeVars, rmVars,
           stopVars
  <1>16. ASSUME NEW c \in Conns, ReadMessage(c) PROVE CallInv'
    BY <1>16, Domains
       DEF ReadMessage, StartInv, acceptVars, closeVars, rmVars, stopVars
  <1>17. ASSUME NEW c \in Conns, ReadFails(c) PROVE CallInv'
    BY <1>17, Domains
       DEF ReadFails, CallClose, StartInv, acceptVars, closeVars, rmVars,
           stopVars
  <1>18. ASSUME NEW c \in Conns, EnqueueMessage(c) PROVE CallInv'
    BY <1>18, Domains
       DEF EnqueueMessage, StartInv, acceptVars, closeVars, rmVars,
           stopVars
  <1>19. ASSUME NEW c \in Conns, PeerGone(c) PROVE CallInv'
    BY <1>19, Domains
       DEF PeerGone, StartInv, acceptVars, closeVars, rmVars, stopVars
  <1>20. ASSUME NEW t \in Threads, EnterOnce(t) PROVE CallInv'
    BY <1>20, Domains
       DEF EnterOnce, ReturnFromClose, StartInv, acceptVars, closeVars,
           rmVars, stopVars
  <1>21. ASSUME NEW t \in Threads, CloseSocket(t) PROVE CallInv'
    BY <1>21, Domains
       DEF CloseSocket, StartInv, acceptVars, closeVars, rmVars, stopVars
  <1>22. ASSUME NEW t \in Threads, Unregister(t) PROVE CallInv'
    BY <1>22, Domains
       DEF Unregister, FinishClose, ReturnFromClose, Bypasses, StartInv,
           acceptVars, closeVars, rmVars, stopVars
  <1>23. ASSUME NEW t \in Threads, NotifyDisconnected(t) PROVE CallInv'
    BY <1>23, Domains
       DEF NotifyDisconnected, FinishClose, ReturnFromClose, Bypasses,
           StartInv, acceptVars, closeVars, rmVars, stopVars
  <1>24. CASE RMTakeMessage
    BY <1>24, Domains
       DEF RMTakeMessage, StartInv, acceptVars, closeVars, rmVars, stopVars
  <1>25. CASE RMTakeDisconnected
    BY <1>25, Domains
       DEF RMTakeDisconnected, StartInv, acceptVars, closeVars, rmVars,
           stopVars
  <1>26. ASSUME NEW c \in Conns, RMClose(c) PROVE CallInv'
    BY <1>26, Domains
       DEF RMClose, CallClose, StartInv, acceptVars, closeVars, rmVars,
           stopVars
  <1>27. CASE RMHandled
    BY <1>27, Domains
       DEF RMHandled, StartInv, acceptVars, closeVars, rmVars, stopVars
  <1>28. CASE UNCHANGED vars
    BY <1>28 DEF vars, StartInv, acceptVars, closeVars, rmVars, stopVars
  <1>. QED
    BY <1>1, <1>2, <1>3, <1>4, <1>5, <1>6, <1>7, <1>8, <1>9, <1>10, <1>11,
       <1>12, <1>13, <1>14, <1>15, <1>16, <1>17, <1>18, <1>19, <1>20, <1>21,
       <1>22, <1>23, <1>24, <1>25, <1>26, <1>27, <1>28 DEF Next, AcceptNext,
       StopNext, ReaderNext, CloseNext, RMNext

\* One thread at a time runs internalCloseClient in closeOnce.Do.
LEMMA OnceStep ==
    ASSUME CMTypeOK, StartInv, CallInv, OnceInv, AnnounceInv, [Next]_vars
    PROVE  OnceInv'
  <1>. USE DEF OnceInv, Inside, Bypasses
  <1>1. CASE StartListening
    BY <1>1, Domains
       DEF StartListening, CallInv, StartInv, acceptVars, closeVars,
           rmVars, stopVars
  <1>2. CASE StartFails
    BY <1>2, Domains
       DEF StartFails, CallInv, StartInv, acceptVars, closeVars, rmVars,
           stopVars
  <1>3. ASSUME NEW c \in Conns, AcceptConn(c) PROVE OnceInv'
    BY <1>3, Domains
       DEF AcceptConn, CallInv, StartInv, acceptVars, closeVars, rmVars,
           stopVars
  <1>4. CASE RegisterConnection
    BY <1>4, Domains
       DEF RegisterConnection, CallInv, StartInv, acceptVars, closeVars,
           rmVars, stopVars
  <1>5. CASE ListenerFails
    BY <1>5, Domains
       DEF ListenerFails, CallInv, StartInv, acceptVars, closeVars, rmVars,
           stopVars
  <1>6. CASE AcceptErrorReturn
    BY <1>6, Domains
       DEF AcceptErrorReturn, CallInv, StartInv, acceptVars, closeVars,
           rmVars, stopVars
  <1>7. CASE AcceptErrorContinue
    BY <1>7, Domains
       DEF AcceptErrorContinue, vars, CallInv, StartInv, acceptVars,
           closeVars, rmVars, stopVars
  <1>8. CASE StopCancel
    BY <1>8, Domains
       DEF StopCancel, CallInv, StartInv, acceptVars, closeVars, rmVars,
           stopVars
  <1>9. CASE StopSnapshot
    BY <1>9, Domains
       DEF StopSnapshot, CallInv, StartInv, acceptVars, closeVars, rmVars,
           stopVars
  <1>10. CASE StopCloseServer
    BY <1>10, Domains
       DEF StopCloseServer, CallInv, StartInv, acceptVars, closeVars,
           rmVars, stopVars
  <1>11. ASSUME NEW c \in Conns, StopClose(c) PROVE OnceInv'
    BY <1>11, Domains
       DEF StopClose, CallClose, CallInv, StartInv, acceptVars, closeVars,
           rmVars, stopVars
  <1>12. CASE StopReturn
    BY <1>12, Domains
       DEF StopReturn, CallInv, StartInv, acceptVars, closeVars, rmVars,
           stopVars
  <1>13. ASSUME NEW c \in Conns, HandshakeOk(c) PROVE OnceInv'
    BY <1>13, Domains
       DEF HandshakeOk, CallInv, StartInv, acceptVars, closeVars, rmVars,
           stopVars
  <1>14. ASSUME NEW c \in Conns, HandshakeFails(c) PROVE OnceInv'
    BY <1>14, Domains
       DEF HandshakeFails, CallClose, CallInv, StartInv, acceptVars,
           closeVars, rmVars, stopVars
  <1>15. ASSUME NEW c \in Conns, HandshakeMismatch(c) PROVE OnceInv'
    BY <1>15, Domains
       DEF HandshakeMismatch, CallInv, StartInv, acceptVars, closeVars,
           rmVars, stopVars
  <1>16. ASSUME NEW c \in Conns, ReadMessage(c) PROVE OnceInv'
    BY <1>16, Domains
       DEF ReadMessage, CallInv, StartInv, acceptVars, closeVars, rmVars,
           stopVars
  <1>17. ASSUME NEW c \in Conns, ReadFails(c) PROVE OnceInv'
    BY <1>17, Domains
       DEF ReadFails, CallClose, CallInv, StartInv, acceptVars, closeVars,
           rmVars, stopVars
  <1>18. ASSUME NEW c \in Conns, EnqueueMessage(c) PROVE OnceInv'
    BY <1>18, Domains
       DEF EnqueueMessage, CallInv, StartInv, acceptVars, closeVars,
           rmVars, stopVars
  <1>19. ASSUME NEW c \in Conns, PeerGone(c) PROVE OnceInv'
    BY <1>19, Domains
       DEF PeerGone, CallInv, StartInv, acceptVars, closeVars, rmVars,
           stopVars
  <1>20. ASSUME NEW t \in Threads, EnterOnce(t) PROVE OnceInv'
    BY <1>20, Domains
       DEF EnterOnce, ReturnFromClose, CallInv, StartInv, acceptVars,
           closeVars, rmVars, stopVars
  <1>21. ASSUME NEW t \in Threads, CloseSocket(t) PROVE OnceInv'
    BY <1>21, Domains
       DEF CloseSocket, CallInv, StartInv, acceptVars, closeVars, rmVars,
           stopVars
  <1>22. ASSUME NEW t \in Threads, Unregister(t) PROVE OnceInv'
    BY <1>22, Domains
       DEF Unregister, FinishClose, ReturnFromClose, Bypasses, CallInv,
           StartInv, acceptVars, closeVars, rmVars, stopVars
  <1>23. ASSUME NEW t \in Threads, NotifyDisconnected(t) PROVE OnceInv'
    <2>1. PICK c \in Conns : c = closeOf[t] /\ c \notin connections
      BY <1>23 DEF NotifyDisconnected, CallInv, AnnounceInv
    <2>2. /\ closePc[t] = "notify" /\ closePc'[t] = "none" /\ UNCHANGED <<closeOf, connections>>
          /\ \A u \in Threads : u # t => closePc'[u] = closePc[u]
          /\ \A u \in Conns : u # t => reader'[u] = reader[u]
      BY <1>23, Domains DEF NotifyDisconnected, FinishClose, ReturnFromClose
    <2>3. /\ \A d \in Conns : d # c => once'[d] = once[d]
          /\ once'[c] = once[c] \/ (once'[c] = "done" /\ ~Bypasses(t))
      BY <1>23, <2>1, Domains DEF NotifyDisconnected, FinishClose
    <2>. QED  BY <2>1, <2>2, <2>3
  <1>24. CASE RMTakeMessage
    BY <1>24, Domains
       DEF RMTakeMessage, CallInv, StartInv, acceptVars, closeVars, rmVars,
           stopVars
  <1>25. CASE RMTakeDisconnected
    BY <1>25, Domains
       DEF RMTakeDisconnected, CallInv, StartInv, acceptVars, closeVars,
           rmVars, stopVars
  <1>26. ASSUME NEW c \in Conns, RMClose(c) PROVE OnceInv'
    BY <1>26, Domains
       DEF RMClose, CallClose, CallInv, StartInv, acceptVars, closeVars,
           rmVars, stopVars
  <1>27. CASE RMHandled
    BY <1>27, Domains
       DEF RMHandled, CallInv, StartInv, acceptVars, closeVars, rmVars,
           stopVars
  <1>28. CASE UNCHANGED vars
    BY <1>28 DEF vars, CallInv, StartInv, acceptVars, closeVars, rmVars, stopVars
  <1>. QED
    BY <1>1, <1>2, <1>3, <1>4, <1>5, <1>6, <1>7, <1>8, <1>9, <1>10, <1>11,
       <1>12, <1>13, <1>14, <1>15, <1>16, <1>17, <1>18, <1>19, <1>20, <1>21,
       <1>22, <1>23, <1>24, <1>25, <1>26, <1>27, <1>28 DEF Next, AcceptNext,
       StopNext, ReaderNext, CloseNext, RMNext

\* Only who took a connection from the list announces it.
LEMMA AnnounceStep ==
    ASSUME CMTypeOK, StartInv, CallInv, AnnounceInv, [Next]_vars
    PROVE  AnnounceInv'
  <1>. USE DEF AnnounceInv
  <1>1. CASE StartListening
    BY <1>1, Domains
       DEF StartListening, CallInv, StartInv, acceptVars, closeVars,
           rmVars, stopVars
  <1>2. CASE StartFails
    BY <1>2, Domains
       DEF StartFails, CallInv, StartInv, acceptVars, closeVars, rmVars,
           stopVars
  <1>3. ASSUME NEW c \in Conns, AcceptConn(c) PROVE AnnounceInv'
    BY <1>3, Domains
       DEF AcceptConn, CallInv, StartInv, acceptVars, closeVars, rmVars,
           stopVars
  <1>4. CASE RegisterConnection
    BY <1>4, Domains
       DEF RegisterConnection, CallInv, StartInv, acceptVars, closeVars,
           rmVars, stopVars
  <1>5. CASE ListenerFails
    BY <1>5, Domains
       DEF ListenerFails, CallInv, StartInv, acceptVars, closeVars, rmVars,
           stopVars
  <1>6. CASE AcceptErrorReturn
    BY <1>6, Domains
       DEF AcceptErrorReturn, CallInv, StartInv, acceptVars, closeVars,
           rmVars, stopVars
  <1>7. CASE AcceptErrorContinue
    BY <1>7, Domains
       DEF AcceptErrorContinue, vars, CallInv, StartInv, acceptVars,
           closeVars, rmVars, stopVars
  <1>8. CASE StopCancel
    BY <1>8, Domains
       DEF StopCancel, CallInv, StartInv, acceptVars, closeVars, rmVars,
           stopVars
  <1>9. CASE StopSnapshot
    BY <1>9, Domains
       DEF StopSnapshot, CallInv, StartInv, acceptVars, closeVars, rmVars,
           stopVars
  <1>10. CASE StopCloseServer
    BY <1>10, Domains
       DEF StopCloseServer, CallInv, StartInv, acceptVars, closeVars,
           rmVars, stopVars
  <1>11. ASSUME NEW c \in Conns, StopClose(c) PROVE AnnounceInv'
    BY <1>11, Domains
       DEF StopClose, CallClose, CallInv, StartInv, acceptVars, closeVars,
           rmVars, stopVars
  <1>12. CASE StopReturn
    BY <1>12, Domains
       DEF StopReturn, CallInv, StartInv, acceptVars, closeVars, rmVars,
           stopVars
  <1>13. ASSUME NEW c \in Conns, HandshakeOk(c) PROVE AnnounceInv'
    BY <1>13, Domains
       DEF HandshakeOk, CallInv, StartInv, acceptVars, closeVars, rmVars,
           stopVars
  <1>14. ASSUME NEW c \in Conns, HandshakeFails(c) PROVE AnnounceInv'
    BY <1>14, Domains
       DEF HandshakeFails, CallClose, CallInv, StartInv, acceptVars,
           closeVars, rmVars, stopVars
  <1>15. ASSUME NEW c \in Conns, HandshakeMismatch(c) PROVE AnnounceInv'
    BY <1>15, Domains
       DEF HandshakeMismatch, CallInv, StartInv, acceptVars, closeVars,
           rmVars, stopVars
  <1>16. ASSUME NEW c \in Conns, ReadMessage(c) PROVE AnnounceInv'
    BY <1>16, Domains
       DEF ReadMessage, CallInv, StartInv, acceptVars, closeVars, rmVars,
           stopVars
  <1>17. ASSUME NEW c \in Conns, ReadFails(c) PROVE AnnounceInv'
    BY <1>17, Domains
       DEF ReadFails, CallClose, CallInv, StartInv, acceptVars, closeVars,
           rmVars, stopVars
  <1>18. ASSUME NEW c \in Conns, EnqueueMessage(c) PROVE AnnounceInv'
    BY <1>18, Domains
       DEF EnqueueMessage, CallInv, StartInv, acceptVars, closeVars,
           rmVars, stopVars
  <1>19. ASSUME NEW c \in Conns, PeerGone(c) PROVE AnnounceInv'
    BY <1>19, Domains
       DEF PeerGone, CallInv, StartInv, acceptVars, closeVars, rmVars,
           stopVars
  <1>20. ASSUME NEW t \in Threads, EnterOnce(t) PROVE AnnounceInv'
    BY <1>20, Domains
       DEF EnterOnce, ReturnFromClose, CallInv, StartInv, acceptVars,
           closeVars, rmVars, stopVars
  <1>21. ASSUME NEW t \in Threads, CloseSocket(t) PROVE AnnounceInv'
    BY <1>21, Domains
       DEF CloseSocket, CallInv, StartInv, acceptVars, closeVars, rmVars,
           stopVars
  <1>22. ASSUME NEW t \in Threads, Unregister(t) PROVE AnnounceInv'
    BY <1>22, Domains
       DEF Unregister, FinishClose, ReturnFromClose, Bypasses, CallInv,
           StartInv, acceptVars, closeVars, rmVars, stopVars
  <1>23. ASSUME NEW t \in Threads, NotifyDisconnected(t) PROVE AnnounceInv'
    BY <1>23, Domains
       DEF NotifyDisconnected, FinishClose, ReturnFromClose, Bypasses,
           CallInv, StartInv, acceptVars, closeVars, rmVars, stopVars
  <1>24. CASE RMTakeMessage
    BY <1>24, Domains
       DEF RMTakeMessage, CallInv, StartInv, acceptVars, closeVars, rmVars,
           stopVars
  <1>25. CASE RMTakeDisconnected
    BY <1>25, Domains
       DEF RMTakeDisconnected, CallInv, StartInv, acceptVars, closeVars,
           rmVars, stopVars
  <1>26. ASSUME NEW c \in Conns, RMClose(c) PROVE AnnounceInv'
    BY <1>26, Domains
       DEF RMClose, CallClose, CallInv, StartInv, acceptVars, closeVars,
           rmVars, stopVars
  <1>27. CASE RMHandled
    BY <1>27, Domains
       DEF RMHandled, CallInv, StartInv, acceptVars, closeVars, rmVars,
           stopVars
  <1>28. CASE UNCHANGED vars
    BY <1>28 DEF vars, CallInv, StartInv, acceptVars, closeVars, rmVars, stopVars
  <1>. QED
    BY <1>1, <1>2, <1>3, <1>4, <1>5, <1>6, <1>7, <1>8, <1>9, <1>10, <1>11,
       <1>12, <1>13, <1>14, <1>15, <1>16, <1>17, <1>18, <1>19, <1>20, <1>21,
       <1>22, <1>23, <1>24, <1>25, <1>26, <1>27, <1>28 DEF Next, AcceptNext,
       StopNext, ReaderNext, CloseNext, RMNext

\* A connection is announced once.
LEMMA ChannelStep ==
    ASSUME CMTypeOK, StartInv, CallInv, AnnounceInv, ChannelInv, [Next]_vars
    PROVE  ChannelInv'
  <1>. USE DEF ChannelInv
  <1>1. CASE StartListening
    BY <1>1, Domains
       DEF StartListening, CallInv, StartInv, AnnounceInv, acceptVars,
           closeVars, rmVars, stopVars
  <1>2. CASE StartFails
    BY <1>2, Domains
       DEF StartFails, CallInv, StartInv, AnnounceInv, acceptVars,
           closeVars, rmVars, stopVars
  <1>3. ASSUME NEW c \in Conns, AcceptConn(c) PROVE ChannelInv'
    BY <1>3, Domains
       DEF AcceptConn, CallInv, StartInv, AnnounceInv, acceptVars,
           closeVars, rmVars, stopVars
  <1>4. CASE RegisterConnection
    BY <1>4, Domains
       DEF RegisterConnection, CallInv, StartInv, AnnounceInv, acceptVars,
           closeVars, rmVars, stopVars
  <1>5. CASE ListenerFails
    BY <1>5, Domains
       DEF ListenerFails, CallInv, StartInv, AnnounceInv, acceptVars,
           closeVars, rmVars, stopVars
  <1>6. CASE AcceptErrorReturn
    BY <1>6, Domains
       DEF AcceptErrorReturn, CallInv, StartInv, AnnounceInv, acceptVars,
           closeVars, rmVars, stopVars
  <1>7. CASE AcceptErrorContinue
    BY <1>7, Domains
       DEF AcceptErrorContinue, vars, CallInv, StartInv, AnnounceInv,
           acceptVars, closeVars, rmVars, stopVars
  <1>8. CASE StopCancel
    BY <1>8, Domains
       DEF StopCancel, CallInv, StartInv, AnnounceInv, acceptVars,
           closeVars, rmVars, stopVars
  <1>9. CASE StopSnapshot
    BY <1>9, Domains
       DEF StopSnapshot, CallInv, StartInv, AnnounceInv, acceptVars,
           closeVars, rmVars, stopVars
  <1>10. CASE StopCloseServer
    BY <1>10, Domains
       DEF StopCloseServer, CallInv, StartInv, AnnounceInv, acceptVars,
           closeVars, rmVars, stopVars
  <1>11. ASSUME NEW c \in Conns, StopClose(c) PROVE ChannelInv'
    BY <1>11, Domains
       DEF StopClose, CallClose, CallInv, StartInv, AnnounceInv,
           acceptVars, closeVars, rmVars, stopVars
  <1>12. CASE StopReturn
    BY <1>12, Domains
       DEF StopReturn, CallInv, StartInv, AnnounceInv, acceptVars,
           closeVars, rmVars, stopVars
  <1>13. ASSUME NEW c \in Conns, HandshakeOk(c) PROVE ChannelInv'
    BY <1>13, Domains
       DEF HandshakeOk, CallInv, StartInv, AnnounceInv, acceptVars,
           closeVars, rmVars, stopVars
  <1>14. ASSUME NEW c \in Conns, HandshakeFails(c) PROVE ChannelInv'
    BY <1>14, Domains
       DEF HandshakeFails, CallClose, CallInv, StartInv, AnnounceInv,
           acceptVars, closeVars, rmVars, stopVars
  <1>15. ASSUME NEW c \in Conns, HandshakeMismatch(c) PROVE ChannelInv'
    BY <1>15, Domains
       DEF HandshakeMismatch, CallInv, StartInv, AnnounceInv, acceptVars,
           closeVars, rmVars, stopVars
  <1>16. ASSUME NEW c \in Conns, ReadMessage(c) PROVE ChannelInv'
    BY <1>16, Domains
       DEF ReadMessage, CallInv, StartInv, AnnounceInv, acceptVars,
           closeVars, rmVars, stopVars
  <1>17. ASSUME NEW c \in Conns, ReadFails(c) PROVE ChannelInv'
    BY <1>17, Domains
       DEF ReadFails, CallClose, CallInv, StartInv, AnnounceInv,
           acceptVars, closeVars, rmVars, stopVars
  <1>18. ASSUME NEW c \in Conns, EnqueueMessage(c) PROVE ChannelInv'
    BY <1>18, Domains
       DEF EnqueueMessage, CallInv, StartInv, AnnounceInv, acceptVars,
           closeVars, rmVars, stopVars
  <1>19. ASSUME NEW c \in Conns, PeerGone(c) PROVE ChannelInv'
    BY <1>19, Domains
       DEF PeerGone, CallInv, StartInv, AnnounceInv, acceptVars, closeVars,
           rmVars, stopVars
  <1>20. ASSUME NEW t \in Threads, EnterOnce(t) PROVE ChannelInv'
    BY <1>20, Domains
       DEF EnterOnce, ReturnFromClose, CallInv, StartInv, AnnounceInv,
           acceptVars, closeVars, rmVars, stopVars
  <1>21. ASSUME NEW t \in Threads, CloseSocket(t) PROVE ChannelInv'
    BY <1>21, Domains
       DEF CloseSocket, CallInv, StartInv, AnnounceInv, acceptVars,
           closeVars, rmVars, stopVars
  <1>22. ASSUME NEW t \in Threads, Unregister(t) PROVE ChannelInv'
    BY <1>22, Domains
       DEF Unregister, FinishClose, ReturnFromClose, Bypasses, CallInv,
           StartInv, AnnounceInv, acceptVars, closeVars, rmVars, stopVars
  <1>23. ASSUME NEW t \in Threads, NotifyDisconnected(t) PROVE ChannelInv'
    BY <1>23, Domains
       DEF NotifyDisconnected, FinishClose, ReturnFromClose, Bypasses,
           CallInv, StartInv, AnnounceInv, acceptVars, closeVars, rmVars,
           stopVars
  <1>24. CASE RMTakeMessage
    BY <1>24, Domains
       DEF RMTakeMessage, CallInv, StartInv, AnnounceInv, acceptVars,
           closeVars, rmVars, stopVars
  <1>25. CASE RMTakeDisconnected
    BY <1>25, Domains
       DEF RMTakeDisconnected, CallInv, StartInv, AnnounceInv, acceptVars,
           closeVars, rmVars, stopVars
  <1>26. ASSUME NEW c \in Conns, RMClose(c) PROVE ChannelInv'
    BY <1>26, Domains
       DEF RMClose, CallClose, CallInv, StartInv, AnnounceInv, acceptVars,
           closeVars, rmVars, stopVars
  <1>27. CASE RMHandled
    BY <1>27, Domains
       DEF RMHandled, CallInv, StartInv, AnnounceInv, acceptVars,
           closeVars, rmVars, stopVars
  <1>28. CASE UNCHANGED vars
    BY <1>28
       DEF vars, CallInv, StartInv, AnnounceInv, acceptVars, closeVars,
           rmVars, stopVars
  <1>. QED
    BY <1>1, <1>2, <1>3, <1>4, <1>5, <1>6, <1>7, <1>8, <1>9, <1>10, <1>11,
       <1>12, <1>13, <1>14, <1>15, <1>16, <1>17, <1>18, <1>19, <1>20, <1>21,
       <1>22, <1>23, <1>24, <1>25, <1>26, <1>27, <1>28 DEF Next, AcceptNext,
       StopNext, ReaderNext, CloseNext, RMNext

-----------------------------------------------------------------------------
(* The theorems *)

\* A transporter that has just been created satisfies the invariant,
LEMMA ConnInvInit ==
    ASSUME Init
    PROVE  ConnInv
  <1>1. CMTypeOK
    <2>1. /\ <<>> \in Seq(Conns) /\ 0 \in 0..MaxCloses /\ 0 \in Nat
          /\ {} \in SUBSET Conns /\ FALSE \in BOOLEAN
      BY EmptySeq DEF MaxCloses
    <2>. QED  BY <2>1 DEF Init, CMTypeOK
  <1>2. Started = {}
    BY DEF Init, Started
  <1>3. StartInv
    BY <1>2, ThreadsAssumption, FS_EmptySet DEF Init, StartInv
  <1>4. CallInv
    BY ThreadsAssumption DEF Init, CallInv, Threads
  <1>5. OnceInv
    BY DEF Init, OnceInv, Inside
  <1>6. AnnounceInv /\ ChannelInv
    BY DEF Init, AnnounceInv, ChannelInv
  <1>. QED  BY <1>1, <1>3, <1>4, <1>5, <1>6 DEF ConnInv

\* ... and every step keeps it.
LEMMA ConnInvStep ==
    ASSUME ConnInv, [Next]_vars
    PROVE  ConnInv'
  <1>1. CMTypeOK /\ StartInv /\ CallInv /\ OnceInv /\ AnnounceInv /\ ChannelInv
    BY DEF ConnInv
  <1>2. CMTypeOK' /\ CallInv' /\ OnceInv' /\ AnnounceInv' /\ ChannelInv'
    BY <1>1, TypeStep, CallStep, OnceStep, AnnounceStep, ChannelStep
  <1>3. StartInv'
    BY <1>1, FiniteStep, StartStep
  <1>. QED  BY <1>2, <1>3 DEF ConnInv

\* Acceptor, readers, closers, Stop and the two channels agree in every
\* reachable state.
THEOREM ConnInvariant == Spec => []ConnInv
  <1>1. Init => ConnInv
    BY ConnInvInit
  <1>2. ConnInv /\ [Next]_vars => ConnInv'
    BY ConnInvStep
  <1>. QED  BY <1>1, <1>2, PTL DEF Spec

\* Every variable keeps its type.
THEOREM TypeCorrect == Spec => []CMTypeOK
  <1>1. ConnInv => CMTypeOK
    BY DEF ConnInv
  <1>. QED  BY <1>1, ConnInvariant, PTL

-----------------------------------------------------------------------------
(* A full channel *)

\* A set that has one element besides all of a sequence without repetitions.
LEMMA LargerThanSequence ==
    ASSUME NEW S, NEW s \in Seq(S), NEW U, IsFiniteSet(U), NEW x \in U,
           \A i, j \in DOMAIN s : s[i] = s[j] => i = j,
           \A i \in DOMAIN s : s[i] \in U /\ s[i] # x
    PROVE  Cardinality(U) \in Nat /\ Cardinality(U) > Len(s)
  <1>1. PICK n \in Nat : n = Len(s) /\ DOMAIN s = 1..n
    OBVIOUS
  <1>2. IsFiniteSet(U \ {x}) /\ Cardinality(U \ {x}) = Cardinality(U) - 1
    BY FS_RemoveElement
  <1>3. s \in [1..n -> U \ {x}]
    <2>1. s = [i \in 1..n |-> s[i]]
      BY <1>1
    <2>. QED  BY <1>1, <2>1
  <1>4. s \in Injection(1..n, U \ {x})
    BY <1>1, <1>3, Fun_IsInj
  <1>5. Cardinality(1..n) =< Cardinality(U \ {x})
    BY <1>2, <1>4, FS_Injection
  <1>6. Cardinality(1..n) = n
    BY FS_Interval
  <1>7. Cardinality(U) \in Nat /\ Cardinality(U \ {x}) \in Nat
    BY <1>2, FS_CardinalityType
  <1>. QED  BY <1>1, <1>2, <1>5, <1>6, <1>7

\* The room manager cannot hang on the announcement of a connection before more
\* than ConnectionPoolSize of them wait to be received.
THEOREM BlocksPastPoolSize == Spec => []BlocksOnlyPastPoolSize
  <1>1. ASSUME ConnInv, NEW t \in Threads, closePc[t] = "notify",
               Len(clientDisconnectedChannel) >= ConnectionPoolSize
        PROVE  Cardinality(Unreaped) > ConnectionPoolSize
    <2>1. CMTypeOK /\ StartInv /\ CallInv /\ ChannelInv
      BY <1>1 DEF ConnInv
    <2>2. PICK q \in Seq(Conns) : q = clientDisconnectedChannel
      BY <2>1, Domains
    <2>3. PICK c \in Conns : c = closeOf[t]
      BY <1>1, <2>1 DEF CallInv
    <2>4. c \in Unreaped /\ \A i \in DOMAIN q : q[i] \in Unreaped
      BY <1>1, <2>2, <2>3 DEF Unreaped, Announcing
    <2>5. Unreaped \subseteq Started
      <3>1. connections \subseteq Started
        BY <2>1, Domains DEF StartInv, Started
      <3>2. {d \in Conns : Announcing(d)} \subseteq Started
        BY <2>1 DEF CallInv, Announcing, Started
      <3>3. \A i \in 1..Len(q) : q[i] \in Started
        BY <2>1, <2>2 DEF StartInv, Started
      <3>. QED  BY <2>2, <3>1, <3>2, <3>3 DEF Unreaped
    <2>6. IsFiniteSet(Unreaped)
      BY <2>1, <2>5, FS_Subset DEF StartInv
    <2>7. /\ \A i, j \in DOMAIN q : q[i] = q[j] => i = j
          /\ \A i \in DOMAIN q : q[i] # c
      BY <1>1, <2>1, <2>2, <2>3 DEF ChannelInv
    <2>8. Cardinality(Unreaped) \in Nat /\ Cardinality(Unreaped) > Len(q)
      BY <2>4, <2>6, <2>7, LargerThanSequence
    <2>. QED  BY <1>1, <2>2, <2>8, CapacityAssumption
  <1>2. ConnInv => BlocksOnlyPastPoolSize
    BY <1>1 DEF BlocksOnlyPastPoolSize
  <1>. QED  BY <1>2, ConnInvariant, PTL

-----------------------------------------------------------------------------
(* A close call that returns *)


\* A close call of the room manager returns in one of three places.
LEMMA ReturnsWhere ==
    ASSUME CMTypeOK, closePc[RMThread] # "none", closePc'[RMThread] = "none", [Next]_vars
    PROVE  EnterOnce(RMThread) \/ Unregister(RMThread) \/ NotifyDisconnected(RMThread)
  <1>1. CASE StartListening
    BY <1>1, Domains DEF StartListening, acceptVars, closeVars, rmVars, stopVars
  <1>2. CASE StartFails
    BY <1>2, Domains DEF StartFails, acceptVars, closeVars, rmVars, stopVars
  <1>3. ASSUME NEW c \in Conns, AcceptConn(c) PROVE EnterOnce(RMThread) \/ Unregister(RMThread) \/ NotifyDisconnected(RMThread)
    BY <1>3, Domains DEF AcceptConn, acceptVars, closeVars, rmVars, stopVars
  <1>4. CASE RegisterConnection
    BY <1>4, Domains
       DEF RegisterConnection, acceptVars, closeVars, rmVars, stopVars
  <1>5. CASE ListenerFails
    BY <1>5, Domains DEF ListenerFails, acceptVars, closeVars, rmVars, stopVars
  <1>6. CASE AcceptErrorReturn
    BY <1>6, Domains
       DEF AcceptErrorReturn, acceptVars, closeVars, rmVars, stopVars
  <1>7. CASE AcceptErrorContinue
    BY <1>7, Domains
       DEF AcceptErrorContinue, vars, acceptVars, closeVars, rmVars,
           stopVars
  <1>8. CASE StopCancel
    BY <1>8, Domains DEF StopCancel, acceptVars, closeVars, rmVars, stopVars
  <1>9. CASE StopSnapshot
    BY <1>9, Domains DEF StopSnapshot, acceptVars, closeVars, rmVars, stopVars
  <1>10. CASE StopCloseServer
    BY <1>10, Domains DEF StopCloseServer, acceptVars, closeVars, rmVars, stopVars
  <1>11. ASSUME NEW c \in Conns, StopClose(c) PROVE EnterOnce(RMThread) \/ Unregister(RMThread) \/ NotifyDisconnected(RMThread)
    BY <1>11, Domains
       DEF StopClose, CallClose, acceptVars, closeVars, rmVars, stopVars
  <1>12. CASE StopReturn
    BY <1>12, Domains DEF StopReturn, acceptVars, closeVars, rmVars, stopVars
  <1>13. ASSUME NEW c \in Conns, HandshakeOk(c) PROVE EnterOnce(RMThread) \/ Unregister(RMThread) \/ NotifyDisconnected(RMThread)
    BY <1>13, Domains DEF HandshakeOk, acceptVars, closeVars, rmVars, stopVars
  <1>14. ASSUME NEW c \in Conns, HandshakeFails(c) PROVE EnterOnce(RMThread) \/ Unregister(RMThread) \/ NotifyDisconnected(RMThread)
    BY <1>14, Domains
       DEF HandshakeFails, CallClose, acceptVars, closeVars, rmVars,
           stopVars
  <1>15. ASSUME NEW c \in Conns, HandshakeMismatch(c) PROVE EnterOnce(RMThread) \/ Unregister(RMThread) \/ NotifyDisconnected(RMThread)
    BY <1>15, Domains
       DEF HandshakeMismatch, acceptVars, closeVars, rmVars, stopVars
  <1>16. ASSUME NEW c \in Conns, ReadMessage(c) PROVE EnterOnce(RMThread) \/ Unregister(RMThread) \/ NotifyDisconnected(RMThread)
    BY <1>16, Domains DEF ReadMessage, acceptVars, closeVars, rmVars, stopVars
  <1>17. ASSUME NEW c \in Conns, ReadFails(c) PROVE EnterOnce(RMThread) \/ Unregister(RMThread) \/ NotifyDisconnected(RMThread)
    BY <1>17, Domains
       DEF ReadFails, CallClose, acceptVars, closeVars, rmVars, stopVars
  <1>18. ASSUME NEW c \in Conns, EnqueueMessage(c) PROVE EnterOnce(RMThread) \/ Unregister(RMThread) \/ NotifyDisconnected(RMThread)
    BY <1>18, Domains DEF EnqueueMessage, acceptVars, closeVars, rmVars, stopVars
  <1>19. ASSUME NEW c \in Conns, PeerGone(c) PROVE EnterOnce(RMThread) \/ Unregister(RMThread) \/ NotifyDisconnected(RMThread)
    BY <1>19, Domains DEF PeerGone, acceptVars, closeVars, rmVars, stopVars
  <1>20. ASSUME NEW t \in Threads, EnterOnce(t) PROVE EnterOnce(RMThread) \/ Unregister(RMThread) \/ NotifyDisconnected(RMThread)
    BY <1>20, Domains
       DEF EnterOnce, ReturnFromClose, acceptVars, closeVars, rmVars,
           stopVars
  <1>21. ASSUME NEW t \in Threads, CloseSocket(t) PROVE EnterOnce(RMThread) \/ Unregister(RMThread) \/ NotifyDisconnected(RMThread)
    BY <1>21, Domains DEF CloseSocket, acceptVars, closeVars, rmVars, stopVars
  <1>22. ASSUME NEW t \in Threads, Unregister(t) PROVE EnterOnce(RMThread) \/ Unregister(RMThread) \/ NotifyDisconnected(RMThread)
    BY <1>22, Domains
       DEF Unregister, FinishClose, ReturnFromClose, Bypasses, acceptVars,
           closeVars, rmVars, stopVars
  <1>23. ASSUME NEW t \in Threads, NotifyDisconnected(t) PROVE EnterOnce(RMThread) \/ Unregister(RMThread) \/ NotifyDisconnected(RMThread)
    BY <1>23, Domains
       DEF NotifyDisconnected, FinishClose, ReturnFromClose, Bypasses,
           acceptVars, closeVars, rmVars, stopVars
  <1>24. CASE RMTakeMessage
    BY <1>24, Domains DEF RMTakeMessage, acceptVars, closeVars, rmVars, stopVars
  <1>25. CASE RMTakeDisconnected
    BY <1>25, Domains
       DEF RMTakeDisconnected, acceptVars, closeVars, rmVars, stopVars
  <1>26. ASSUME NEW c \in Conns, RMClose(c) PROVE EnterOnce(RMThread) \/ Unregister(RMThread) \/ NotifyDisconnected(RMThread)
    BY <1>26, Domains
       DEF RMClose, CallClose, acceptVars, closeVars, rmVars, stopVars
  <1>27. CASE RMHandled
    BY <1>27, Domains DEF RMHandled, acceptVars, closeVars, rmVars, stopVars
  <1>28. CASE UNCHANGED vars
    BY <1>28 DEF vars, acceptVars, closeVars, rmVars, stopVars
  <1>. QED
    BY <1>1, <1>2, <1>3, <1>4, <1>5, <1>6, <1>7, <1>8, <1>9, <1>10, <1>11,
       <1>12, <1>13, <1>14, <1>15, <1>16, <1>17, <1>18, <1>19, <1>20, <1>21,
       <1>22, <1>23, <1>24, <1>25, <1>26, <1>27, <1>28 DEF Next, AcceptNext,
       StopNext, ReaderNext, CloseNext, RMNext

\* In each of them closeOnce is done.
LEMMA ReturnsDone ==
    ASSUME ConnInv, [Next]_vars, NEW c \in Conns,
           closePc[RMThread] # "none", closeOf[RMThread] = c, closePc'[RMThread] = "none"
    PROVE  once'[c] = "done" /\ known' = known
  <1>1. CMTypeOK
    BY DEF ConnInv
  <1>2. EnterOnce(RMThread) \/ Unregister(RMThread) \/ NotifyDisconnected(RMThread)
    BY <1>1, ReturnsWhere
  <1>3. RMThread \notin Conns
    BY <1>1, Domains
  <1>4. CASE EnterOnce(RMThread)
    BY <1>1, <1>4, Domains DEF EnterOnce, rmVars
  <1>5. CASE Unregister(RMThread)
    BY <1>1, <1>3, <1>5, Domains DEF Unregister, FinishClose, Bypasses, rmVars
  <1>6. CASE NotifyDisconnected(RMThread)
    BY <1>1, <1>3, <1>6, Domains
       DEF NotifyDisconnected, FinishClose, Bypasses, rmVars
  <1>. QED  BY <1>2, <1>4, <1>5, <1>6

\* Once it is done, a connection that passed the handshake is announced.
LEMMA DoneIsAnnounced ==
    ASSUME ConnInv', NEW c \in known', once'[c] = "done"
    PROVE  LinkOf(c)' = "closed"
  <1>1. CMTypeOK' /\ CallInv' /\ OnceInv'
    BY DEF ConnInv
  <1>2. c \in Conns /\ c \notin connections'
    BY <1>1 DEF CMTypeOK, OnceInv
  <1>3. reader'[c] \notin {"none", "mismatch"}
    BY <1>1 DEF CallInv
  <1>4. ASSUME NEW t \in Threads, closePc'[t] = "notify", closeOf'[t] = c
        PROVE  FALSE
    <2>1. Bypasses(t)'
      BY <1>1, <1>2, <1>4 DEF OnceInv, Inside
    <2>2. t \in Conns /\ reader'[t] = "mismatch"
      BY <2>1 DEF Bypasses
    <2>3. closeOf'[t] = t
      BY <1>1, <1>4, <2>2 DEF CallInv
    <2>. QED  BY <1>3, <1>4, <2>2, <2>3
  <1>. QED  BY <1>2, <1>3, <1>4 DEF LinkOf, Announcing

\* When Close returns to the room manager, the connection's socket is closed
\* and its announcement sent, also if somebody else closed it.
THEOREM CloseIsComplete == Spec => CloseReturnsAnnounced
  <1>1. ASSUME ConnInv, [Next]_vars, NEW c \in Conns,
               closePc[RMThread] # "none", closeOf[RMThread] = c, closePc'[RMThread] = "none"
        PROVE  LinkOf(c)' = "closed"
    <2>1. once'[c] = "done" /\ known' = known
      BY <1>1, ReturnsDone
    <2>2. c \in known
      BY <1>1 DEF ConnInv, CallInv
    <2>3. ConnInv'
      BY <1>1, ConnInvStep
    <2>. QED  BY <2>1, <2>2, <2>3, DoneIsAnnounced
  <1>2. ConnInv /\ [Next]_vars
           => [\A c \in Conns :
                 /\ closePc[RMThread] # "none"
                 /\ closeOf[RMThread] = c
                 /\ closePc'[RMThread] = "none"
                 => LinkOf(c)' = "closed"]_vars
    BY <1>1
  <1>. QED  BY <1>2, ConnInvariant, PTL DEF Spec, CloseReturnsAnnounced


-----------------------------------------------------------------------------
(* The connection manager implements module ClientLink *)

\* Steps that leave the life cycle of c alone.
LEMMA LinkKept ==
    ASSUME NEW c \in Conns,
           reader'[c] = "none" <=> reader[c] = "none",
           c \in connections' <=> c \in connections,
           c \in connections => socket'[c] = socket[c],
           Announcing(c)' <=> Announcing(c)
    PROVE  LinkOf(c)' = LinkOf(c)
  BY DEF LinkOf

\* ... and its announcement.
LEMMA AnnouncingKept ==
    ASSUME \A t \in Threads : closePc'[t] = "notify" <=> closePc[t] = "notify",
           \A t \in Threads : closePc[t] = "notify" => closeOf'[t] = closeOf[t]
    PROVE  \A c \in Conns : Announcing(c)' <=> Announcing(c)
  BY DEF Announcing

\* The steps of ClientLink, said with LinkOf: registering a connection,
LEMMA IsAccept ==
    ASSUME NEW c \in Conns, LinkOf(c) = "absent", LinkOf(c)' \in {"open", "broken"},
           \A d \in Conns : d # c => LinkOf(d)' = LinkOf(d),
           UNCHANGED clientDisconnectedChannel
    PROVE  CL!Accept(c)
  BY DEF CL!Accept

\* ... losing the peer,
LEMMA IsPeerGone ==
    ASSUME NEW c \in Conns, LinkOf(c) = "open", LinkOf(c)' = "broken",
           \A d \in Conns : d # c => LinkOf(d)' = LinkOf(d),
           UNCHANGED clientDisconnectedChannel
    PROVE  CL!PeerGone(c)
  BY DEF CL!PeerGone

\* ... closing the socket,
LEMMA IsBeginClose ==
    ASSUME NEW c \in Conns, LinkOf(c) \in {"open", "broken"}, LinkOf(c)' = "closing",
           \A d \in Conns : d # c => LinkOf(d)' = LinkOf(d),
           UNCHANGED clientDisconnectedChannel
    PROVE  CL!BeginClose(c)
  BY DEF CL!BeginClose

\* ... and announcing it.
LEMMA IsNotify ==
    ASSUME NEW c \in Conns, LinkOf(c) = "closing", LinkOf(c)' = "closed",
           \A d \in Conns : d # c => LinkOf(d)' = LinkOf(d),
           Len(clientDisconnectedChannel) < ConnectionPoolSize,
           clientDisconnectedChannel' = Append(clientDisconnectedChannel, c)
    PROVE  CL!Notify(c)
  BY DEF CL!Notify

\* A step of ClientLink, or none.
LinkStep ==
    \/ CL!LinkNext
    \/ /\ \A c \in Conns : LinkOf(c)' = LinkOf(c)
       /\ UNCHANGED clientDisconnectedChannel

\* RegisterConnection is Accept: the link appears as its socket is.
LEMMA RegisterRefines ==
    ASSUME ConnInv, RegisterConnection
    PROVE  LinkStep
  <1>1. CMTypeOK /\ StartInv /\ CallInv
    BY DEF ConnInv
  <1>2. PICK c \in Conns : c = accepted
    BY <1>1 DEF RegisterConnection, StartInv, CMTypeOK
  <1>3. reader[c] = "none" /\ socket[c] \in {"open", "broken"}
    BY <1>1, <1>2, Domains DEF StartInv
  <1>4. /\ reader' = [reader EXCEPT ![c] = "handshake"]
        /\ connections' = connections \cup {c} /\ UNCHANGED clientDisconnectedChannel
        /\ UNCHANGED socket /\ UNCHANGED closePc /\ UNCHANGED closeOf
    BY <1>2 DEF RegisterConnection, closeVars
  <1>5. \A d \in Conns : Announcing(d)' <=> Announcing(d)
    BY <1>4, AnnouncingKept
  <1>6. \A d \in Conns : d # c => LinkOf(d)' = LinkOf(d)
    BY <1>1, <1>4, <1>5, Domains, LinkKept
  <1>7. LinkOf(c) = "absent" /\ LinkOf(c)' \in {"open", "broken"}
    BY <1>1, <1>3, <1>4, Domains DEF LinkOf
  <1>8. CL!Accept(c)
    BY <1>4, <1>6, <1>7, IsAccept
  <1>. QED  BY <1>8 DEF LinkStep, CL!LinkNext

\* A peer that goes: seen only while the connection is in the list.
LEMMA PeerGoneRefines ==
    ASSUME ConnInv, NEW c \in Conns, PeerGone(c)
    PROVE  LinkStep
  <1>1. CMTypeOK /\ StartInv
    BY DEF ConnInv
  <1>2. /\ UNCHANGED reader /\ UNCHANGED connections /\ UNCHANGED clientDisconnectedChannel
        /\ UNCHANGED closePc /\ UNCHANGED closeOf
        /\ socket' = [socket EXCEPT ![c] = "broken"] /\ socket[c] = "open"
    BY DEF PeerGone, closeVars
  <1>3. \A d \in Conns : Announcing(d)' <=> Announcing(d)
    BY <1>2, AnnouncingKept
  <1>4. \A d \in Conns : d # c \/ c \notin connections => LinkOf(d)' = LinkOf(d)
    BY <1>1, <1>2, <1>3, Domains, LinkKept
  <1>5. CASE c \in connections
    <2>1. reader[c] # "none"
      BY <1>1, <1>5 DEF StartInv
    <2>2. LinkOf(c) = "open" /\ LinkOf(c)' = "broken"
      BY <1>1, <1>2, <1>5, <2>1, Domains DEF LinkOf
    <2>3. CL!PeerGone(c)
      BY <1>2, <1>4, <2>2, IsPeerGone
    <2>. QED  BY <2>3 DEF LinkStep, CL!LinkNext
  <1>6. CASE c \notin connections
    BY <1>2, <1>4, <1>6 DEF LinkStep
  <1>. QED  BY <1>5, <1>6

\* connection.Close() begins to close a connection in the list, and is without
\* effect if its socket was closed before or it was taken from the list.
LEMMA CloseSocketRefines ==
    ASSUME ConnInv, NEW t \in Threads, CloseSocket(t)
    PROVE  LinkStep
  <1>1. CMTypeOK /\ StartInv /\ CallInv
    BY DEF ConnInv
  <1>2. PICK c \in Conns : c = closeOf[t] /\ reader[c] # "none"
    BY <1>1 DEF CloseSocket, CallInv
  <1>3. /\ UNCHANGED reader /\ UNCHANGED connections /\ UNCHANGED clientDisconnectedChannel
        /\ UNCHANGED closeOf /\ closePc' = [closePc EXCEPT ![t] = "unregister"]
        /\ closePc[t] = "close" /\ socket' = [socket EXCEPT ![c] = "closed"]
    BY <1>2 DEF CloseSocket
  <1>4. \A d \in Conns : Announcing(d)' <=> Announcing(d)
    BY <1>1, <1>3, AnnouncingKept, Domains
  <1>5. \A d \in Conns : d # c \/ c \notin connections \/ socket[c] = "closed"
                            => LinkOf(d)' = LinkOf(d)
    BY <1>1, <1>3, <1>4, Domains, LinkKept
  <1>6. socket[c] \in {"open", "broken", "closed"}
    BY <1>1, <1>2 DEF StartInv, CMTypeOK
  <1>7. CASE c \in connections /\ socket[c] # "closed"
    <2>1. LinkOf(c) \in {"open", "broken"} /\ LinkOf(c)' = "closing"
      BY <1>1, <1>2, <1>3, <1>6, <1>7, Domains DEF LinkOf
    <2>2. CL!BeginClose(c)
      BY <1>3, <1>5, <2>1, IsBeginClose
    <2>. QED  BY <2>2 DEF LinkStep, CL!LinkNext
  <1>8. CASE ~(c \in connections /\ socket[c] # "closed")
    BY <1>3, <1>5, <1>8 DEF LinkStep
  <1>. QED  BY <1>7, <1>8

\* Taking it from the list changes who is about to announce it, no more.
LEMMA UnregisterRefines ==
    ASSUME ConnInv, NEW t \in Threads, Unregister(t)
    PROVE  LinkStep
  <1>1. CMTypeOK /\ StartInv /\ CallInv /\ AnnounceInv
    BY DEF ConnInv
  <1>2. PICK c \in Conns : c = closeOf[t] /\ reader[c] # "none" /\ socket[c] = "closed"
    BY <1>1 DEF Unregister, CallInv, AnnounceInv
  <1>3. /\ UNCHANGED socket /\ UNCHANGED clientDisconnectedChannel /\ UNCHANGED closeOf
        /\ connections' = connections \ {c} /\ closePc[t] = "unregister"
        /\ closePc' = [closePc EXCEPT ![t] = IF c \in connections THEN "notify" ELSE "none"]
    BY <1>2 DEF Unregister, FinishClose, ReturnFromClose
  <1>4. \A d \in Conns : reader'[d] = "none" <=> reader[d] = "none"
    BY <1>1, Domains DEF Unregister, FinishClose, ReturnFromClose, CallInv
  <1>5. CASE c \notin connections
    <2>1. \A d \in Conns : Announcing(d)' <=> Announcing(d)
      BY <1>1, <1>3, <1>5, AnnouncingKept, Domains
    <2>2. \A d \in Conns : LinkOf(d)' = LinkOf(d)
      BY <1>3, <1>4, <1>5, <2>1, LinkKept
    <2>. QED  BY <1>3, <2>2 DEF LinkStep
  <1>6. CASE c \in connections
    <2>1. closePc'[t] = "notify" /\ \A u \in Threads : u # t => closePc'[u] = closePc[u]
      BY <1>1, <1>3, <1>6, Domains
    <2>2. \A d \in Conns : d # c => (Announcing(d)' <=> Announcing(d))
      BY <1>2, <1>3, <2>1 DEF Announcing
    <2>3. \A d \in Conns : d # c => LinkOf(d)' = LinkOf(d)
      BY <1>3, <1>4, <2>2, LinkKept
    <2>4. Announcing(c)'
      BY <1>2, <1>3, <2>1 DEF Announcing
    <2>5. LinkOf(c) = "closing" /\ LinkOf(c)' = "closing"
      BY <1>2, <1>3, <1>4, <1>6, <2>4 DEF LinkOf
    <2>. QED  BY <1>3, <2>3, <2>5 DEF LinkStep
  <1>. QED  BY <1>5, <1>6

\* The announcement, by the only one that announces it.
LEMMA NotifyRefines ==
    ASSUME ConnInv, NEW t \in Threads, NotifyDisconnected(t)
    PROVE  LinkStep
  <1>1. CMTypeOK /\ CallInv /\ AnnounceInv
    BY DEF ConnInv
  <1>2. PICK c \in Conns : c = closeOf[t] /\ reader[c] # "none" /\ c \notin connections
    BY <1>1 DEF NotifyDisconnected, CallInv, AnnounceInv
  <1>3. /\ UNCHANGED socket /\ UNCHANGED connections /\ UNCHANGED closeOf
        /\ Len(clientDisconnectedChannel) < ConnectionPoolSize
        /\ clientDisconnectedChannel' = Append(clientDisconnectedChannel, c)
        /\ closePc[t] = "notify" /\ closePc' = [closePc EXCEPT ![t] = "none"]
    BY <1>2 DEF NotifyDisconnected, FinishClose, ReturnFromClose
  <1>4. \A d \in Conns : reader'[d] = "none" <=> reader[d] = "none"
    BY <1>1, Domains DEF NotifyDisconnected, FinishClose, ReturnFromClose, CallInv
  <1>5. closePc'[t] = "none" /\ \A u \in Threads : u # t => closePc'[u] = closePc[u]
    BY <1>1, <1>3, Domains
  <1>6. Announcing(c) /\ ~Announcing(c)'
    BY <1>1, <1>2, <1>3, <1>5 DEF Announcing, AnnounceInv
  <1>7. \A d \in Conns : d # c => (Announcing(d)' <=> Announcing(d))
    BY <1>2, <1>3, <1>5 DEF Announcing
  <1>8. \A d \in Conns : d # c => LinkOf(d)' = LinkOf(d)
    BY <1>3, <1>4, <1>7, LinkKept
  <1>9. LinkOf(c) = "closing" /\ LinkOf(c)' = "closed"
    BY <1>2, <1>3, <1>4, <1>6 DEF LinkOf
  <1>10. CL!Notify(c)
    BY <1>3, <1>8, <1>9, IsNotify
  <1>. QED  BY <1>10 DEF LinkStep, CL!LinkNext

\* The room manager receives an announcement.
LEMMA TakeRefines ==
    ASSUME ConnInv, RMTakeDisconnected
    PROVE  LinkStep
  <1>1. /\ UNCHANGED <<reader, connections, socket, closePc, closeOf>>
        /\ clientDisconnectedChannel # <<>>
        /\ clientDisconnectedChannel' = Tail(clientDisconnectedChannel)
    BY DEF RMTakeDisconnected, closeVars
  <1>2. \A d \in Conns : LinkOf(d)' = LinkOf(d)
    BY <1>1 DEF LinkOf, Announcing
  <1>3. CL!TakeDisconnected
    BY <1>1, <1>2 DEF CL!TakeDisconnected
  <1>. QED  BY <1>3 DEF LinkStep, CL!LinkNext


\* Everything else goes on behind the link.
LEMMA LinkUnchanged ==
    ASSUME \A d \in Conns : reader'[d] = "none" <=> reader[d] = "none",
           UNCHANGED connections, UNCHANGED clientDisconnectedChannel,
           \A d \in Conns : d \in connections => socket'[d] = socket[d],
           \A t \in Threads : closePc'[t] = "notify" <=> closePc[t] = "notify",
           \A t \in Threads : closePc[t] = "notify" => closeOf'[t] = closeOf[t]
    PROVE  LinkStep
  <1>1. \A d \in Conns : LinkOf(d)' = LinkOf(d)
    BY AnnouncingKept, LinkKept
  <1>. QED  BY <1>1 DEF LinkStep

\* Every step is one of ClientLink or leaves the link alone.
LEMMA StepRefines ==
    ASSUME ConnInv, CMTypeOK, StartInv, CallInv, [Next]_vars
    PROVE  LinkStep
  <1>1. CASE StartListening
    <2>1. /\ \A d \in Conns : reader'[d] = "none" <=> reader[d] = "none"
          /\ UNCHANGED connections /\ UNCHANGED clientDisconnectedChannel
          /\ \A d \in Conns : d \in connections => socket'[d] = socket[d]
          /\ \A u \in Threads : closePc'[u] = "notify" <=> closePc[u] = "notify"
          /\ \A u \in Threads : closePc[u] = "notify" => closeOf'[u] = closeOf[u]
      BY <1>1, Domains
         DEF StartListening, acceptVars, closeVars, rmVars, stopVars,
             CallInv, StartInv
    <2>. QED  BY <2>1, LinkUnchanged
  <1>2. CASE StartFails
    <2>1. /\ \A d \in Conns : reader'[d] = "none" <=> reader[d] = "none"
          /\ UNCHANGED connections /\ UNCHANGED clientDisconnectedChannel
          /\ \A d \in Conns : d \in connections => socket'[d] = socket[d]
          /\ \A u \in Threads : closePc'[u] = "notify" <=> closePc[u] = "notify"
          /\ \A u \in Threads : closePc[u] = "notify" => closeOf'[u] = closeOf[u]
      BY <1>2, Domains
         DEF StartFails, acceptVars, closeVars, rmVars, stopVars, CallInv,
             StartInv
    <2>. QED  BY <2>1, LinkUnchanged
  <1>3. ASSUME NEW c \in Conns, AcceptConn(c) PROVE LinkStep
    <2>1. /\ \A d \in Conns : reader'[d] = "none" <=> reader[d] = "none"
          /\ UNCHANGED connections /\ UNCHANGED clientDisconnectedChannel
          /\ \A d \in Conns : d \in connections => socket'[d] = socket[d]
          /\ \A u \in Threads : closePc'[u] = "notify" <=> closePc[u] = "notify"
          /\ \A u \in Threads : closePc[u] = "notify" => closeOf'[u] = closeOf[u]
      BY <1>3, Domains
         DEF AcceptConn, acceptVars, closeVars, rmVars, stopVars, CallInv,
             StartInv
    <2>. QED  BY <2>1, LinkUnchanged
  <1>4. CASE RegisterConnection
    BY <1>4, RegisterRefines
  <1>5. CASE ListenerFails
    <2>1. /\ \A d \in Conns : reader'[d] = "none" <=> reader[d] = "none"
          /\ UNCHANGED connections /\ UNCHANGED clientDisconnectedChannel
          /\ \A d \in Conns : d \in connections => socket'[d] = socket[d]
          /\ \A u \in Threads : closePc'[u] = "notify" <=> closePc[u] = "notify"
          /\ \A u \in Threads : closePc[u] = "notify" => closeOf'[u] = closeOf[u]
      BY <1>5, Domains
         DEF ListenerFails, acceptVars, closeVars, rmVars, stopVars,
             CallInv, StartInv
    <2>. QED  BY <2>1, LinkUnchanged
  <1>6. CASE AcceptErrorReturn
    <2>1. /\ \A d \in Conns : reader'[d] = "none" <=> reader[d] = "none"
          /\ UNCHANGED connections /\ UNCHANGED clientDisconnectedChannel
          /\ \A d \in Conns : d \in connections => socket'[d] = socket[d]
          /\ \A u \in Threads : closePc'[u] = "notify" <=> closePc[u] = "notify"
          /\ \A u \in Threads : closePc[u] = "notify" => closeOf'[u] = closeOf[u]
      BY <1>6, Domains
         DEF AcceptErrorReturn, acceptVars, closeVars, rmVars, stopVars,
             CallInv, StartInv
    <2>. QED  BY <2>1, LinkUnchanged
  <1>7. CASE AcceptErrorContinue
    <2>1. /\ \A d \in Conns : reader'[d] = "none" <=> reader[d] = "none"
          /\ UNCHANGED connections /\ UNCHANGED clientDisconnectedChannel
          /\ \A d \in Conns : d \in connections => socket'[d] = socket[d]
          /\ \A u \in Threads : closePc'[u] = "notify" <=> closePc[u] = "notify"
          /\ \A u \in Threads : closePc[u] = "notify" => closeOf'[u] = closeOf[u]
      BY <1>7, Domains
         DEF AcceptErrorContinue, vars, acceptVars, closeVars, rmVars,
             stopVars, CallInv, StartInv
    <2>. QED  BY <2>1, LinkUnchanged
  <1>8. CASE StopCancel
    <2>1. /\ \A d \in Conns : reader'[d] = "none" <=> reader[d] = "none"
          /\ UNCHANGED connections /\ UNCHANGED clientDisconnectedChannel
          /\ \A d \in Conns : d \in connections => socket'[d] = socket[d]
          /\ \A u \in Threads : closePc'[u] = "notify" <=> closePc[u] = "notify"
          /\ \A u \in Threads : closePc[u] = "notify" => closeOf'[u] = closeOf[u]
      BY <1>8, Domains
         DEF StopCancel, acceptVars, closeVars, rmVars, stopVars, CallInv,
             StartInv
    <2>. QED  BY <2>1, LinkUnchanged
  <1>9. CASE StopSnapshot
    <2>1. /\ \A d \in Conns : reader'[d] = "none" <=> reader[d] = "none"
          /\ UNCHANGED connections /\ UNCHANGED clientDisconnectedChannel
          /\ \A d \in Conns : d \in connections => socket'[d] = socket[d]
          /\ \A u \in Threads : closePc'[u] = "notify" <=> closePc[u] = "notify"
          /\ \A u \in Threads : closePc[u] = "notify" => closeOf'[u] = closeOf[u]
      BY <1>9, Domains
         DEF StopSnapshot, acceptVars, closeVars, rmVars, stopVars,
             CallInv, StartInv
    <2>. QED  BY <2>1, LinkUnchanged
  <1>10. CASE StopCloseServer
    <2>1. /\ \A d \in Conns : reader'[d] = "none" <=> reader[d] = "none"
          /\ UNCHANGED connections /\ UNCHANGED clientDisconnectedChannel
          /\ \A d \in Conns : d \in connections => socket'[d] = socket[d]
          /\ \A u \in Threads : closePc'[u] = "notify" <=> closePc[u] = "notify"
          /\ \A u \in Threads : closePc[u] = "notify" => closeOf'[u] = closeOf[u]
      BY <1>10, Domains
         DEF StopCloseServer, acceptVars, closeVars, rmVars, stopVars,
             CallInv, StartInv
    <2>. QED  BY <2>1, LinkUnchanged
  <1>11. ASSUME NEW c \in Conns, StopClose(c) PROVE LinkStep
    <2>1. /\ \A d \in Conns : reader'[d] = "none" <=> reader[d] = "none"
          /\ UNCHANGED connections /\ UNCHANGED clientDisconnectedChannel
          /\ \A d \in Conns : d \in connections => socket'[d] = socket[d]
          /\ \A u \in Threads : closePc'[u] = "notify" <=> closePc[u] = "notify"
          /\ \A u \in Threads : closePc[u] = "notify" => closeOf'[u] = closeOf[u]
      BY <1>11, Domains
         DEF StopClose, CallClose, acceptVars, closeVars, rmVars, stopVars,
             CallInv, StartInv
    <2>. QED  BY <2>1, LinkUnchanged
  <1>12. CASE StopReturn
    <2>1. /\ \A d \in Conns : reader'[d] = "none" <=> reader[d] = "none"
          /\ UNCHANGED connections /\ UNCHANGED clientDisconnectedChannel
          /\ \A d \in Conns : d \in connections => socket'[d] = socket[d]
          /\ \A u \in Threads : closePc'[u] = "notify" <=> closePc[u] = "notify"
          /\ \A u \in Threads : closePc[u] = "notify" => closeOf'[u] = closeOf[u]
      BY <1>12, Domains
         DEF StopReturn, acceptVars, closeVars, rmVars, stopVars, CallInv,
             StartInv
    <2>. QED  BY <2>1, LinkUnchanged
  <1>13. ASSUME NEW c \in Conns, HandshakeOk(c) PROVE LinkStep
    <2>1. /\ \A d \in Conns : reader'[d] = "none" <=> reader[d] = "none"
          /\ UNCHANGED connections /\ UNCHANGED clientDisconnectedChannel
          /\ \A d \in Conns : d \in connections => socket'[d] = socket[d]
          /\ \A u \in Threads : closePc'[u] = "notify" <=> closePc[u] = "notify"
          /\ \A u \in Threads : closePc[u] = "notify" => closeOf'[u] = closeOf[u]
      BY <1>13, Domains
         DEF HandshakeOk, acceptVars, closeVars, rmVars, stopVars, CallInv,
             StartInv
    <2>. QED  BY <2>1, LinkUnchanged
  <1>14. ASSUME NEW c \in Conns, HandshakeFails(c) PROVE LinkStep
    <2>1. /\ \A d \in Conns : reader'[d] = "none" <=> reader[d] = "none"
          /\ UNCHANGED connections /\ UNCHANGED clientDisconnectedChannel
          /\ \A d \in Conns : d \in connections => socket'[d] = socket[d]
          /\ \A u \in Threads : closePc'[u] = "notify" <=> closePc[u] = "notify"
          /\ \A u \in Threads : closePc[u] = "notify" => closeOf'[u] = closeOf[u]
      BY <1>14, Domains
         DEF HandshakeFails, CallClose, acceptVars, closeVars, rmVars,
             stopVars, CallInv, StartInv
    <2>. QED  BY <2>1, LinkUnchanged
  <1>15. ASSUME NEW c \in Conns, HandshakeMismatch(c) PROVE LinkStep
    <2>1. /\ \A d \in Conns : reader'[d] = "none" <=> reader[d] = "none"
          /\ UNCHANGED connections /\ UNCHANGED clientDisconnectedChannel
          /\ \A d \in Conns : d \in connections => socket'[d] = socket[d]
          /\ \A u \in Threads : closePc'[u] = "notify" <=> closePc[u] = "notify"
          /\ \A u \in Threads : closePc[u] = "notify" => closeOf'[u] = closeOf[u]
      BY <1>15, Domains
         DEF HandshakeMismatch, acceptVars, closeVars, rmVars, stopVars,
             CallInv, StartInv
    <2>. QED  BY <2>1, LinkUnchanged
  <1>16. ASSUME NEW c \in Conns, ReadMessage(c) PROVE LinkStep
    <2>1. /\ \A d \in Conns : reader'[d] = "none" <=> reader[d] = "none"
          /\ UNCHANGED connections /\ UNCHANGED clientDisconnectedChannel
          /\ \A d \in Conns : d \in connections => socket'[d] = socket[d]
          /\ \A u \in Threads : closePc'[u] = "notify" <=> closePc[u] = "notify"
          /\ \A u \in Threads : closePc[u] = "notify" => closeOf'[u] = closeOf[u]
      BY <1>16, Domains
         DEF ReadMessage, acceptVars, closeVars, rmVars, stopVars, CallInv,
             StartInv
    <2>. QED  BY <2>1, LinkUnchanged
  <1>17. ASSUME NEW c \in Conns, ReadFails(c) PROVE LinkStep
    <2>1. /\ \A d \in Conns : reader'[d] = "none" <=> reader[d] = "none"
          /\ UNCHANGED connections /\ UNCHANGED clientDisconnectedChannel
          /\ \A d \in Conns : d \in connections => socket'[d] = socket[d]
          /\ \A u \in Threads : closePc'[u] = "notify" <=> closePc[u] = "notify"
          /\ \A u \in Threads : closePc[u] = "notify" => closeOf'[u] = closeOf[u]
      BY <1>17, Domains
         DEF ReadFails, CallClose, acceptVars, closeVars, rmVars, stopVars,
             CallInv, StartInv
    <2>. QED  BY <2>1, LinkUnchanged
  <1>18. ASSUME NEW c \in Conns, EnqueueMessage(c) PROVE LinkStep
    <2>1. /\ \A d \in Conns : reader'[d] = "none" <=> reader[d] = "none"
          /\ UNCHANGED connections /\ UNCHANGED clientDisconnectedChannel
          /\ \A d \in Conns : d \in connections => socket'[d] = socket[d]
          /\ \A u \in Threads : closePc'[u] = "notify" <=> closePc[u] = "notify"
          /\ \A u \in Threads : closePc[u] = "notify" => closeOf'[u] = closeOf[u]
      BY <1>18, Domains
         DEF EnqueueMessage, acceptVars, closeVars, rmVars, stopVars,
             CallInv, StartInv
    <2>. QED  BY <2>1, LinkUnchanged
  <1>19. ASSUME NEW c \in Conns, PeerGone(c) PROVE LinkStep
    BY <1>19, PeerGoneRefines
  <1>20. ASSUME NEW t \in Threads, EnterOnce(t) PROVE LinkStep
    <2>1. /\ \A d \in Conns : reader'[d] = "none" <=> reader[d] = "none"
          /\ UNCHANGED connections /\ UNCHANGED clientDisconnectedChannel
          /\ \A d \in Conns : d \in connections => socket'[d] = socket[d]
          /\ \A u \in Threads : closePc'[u] = "notify" <=> closePc[u] = "notify"
          /\ \A u \in Threads : closePc[u] = "notify" => closeOf'[u] = closeOf[u]
      BY <1>20, Domains
         DEF EnterOnce, ReturnFromClose, acceptVars, closeVars, rmVars,
             stopVars, CallInv, StartInv
    <2>. QED  BY <2>1, LinkUnchanged
  <1>21. ASSUME NEW t \in Threads, CloseSocket(t) PROVE LinkStep
    BY <1>21, CloseSocketRefines
  <1>22. ASSUME NEW t \in Threads, Unregister(t) PROVE LinkStep
    BY <1>22, UnregisterRefines
  <1>23. ASSUME NEW t \in Threads, NotifyDisconnected(t) PROVE LinkStep
    BY <1>23, NotifyRefines
  <1>24. CASE RMTakeMessage
    <2>1. /\ \A d \in Conns : reader'[d] = "none" <=> reader[d] = "none"
          /\ UNCHANGED connections /\ UNCHANGED clientDisconnectedChannel
          /\ \A d \in Conns : d \in connections => socket'[d] = socket[d]
          /\ \A u \in Threads : closePc'[u] = "notify" <=> closePc[u] = "notify"
          /\ \A u \in Threads : closePc[u] = "notify" => closeOf'[u] = closeOf[u]
      BY <1>24, Domains
         DEF RMTakeMessage, acceptVars, closeVars, rmVars, stopVars,
             CallInv, StartInv
    <2>. QED  BY <2>1, LinkUnchanged
  <1>25. CASE RMTakeDisconnected
    BY <1>25, TakeRefines
  <1>26. ASSUME NEW c \in Conns, RMClose(c) PROVE LinkStep
    <2>1. /\ \A d \in Conns : reader'[d] = "none" <=> reader[d] = "none"
          /\ UNCHANGED connections /\ UNCHANGED clientDisconnectedChannel
          /\ \A d \in Conns : d \in connections => socket'[d] = socket[d]
          /\ \A u \in Threads : closePc'[u] = "notify" <=> closePc[u] = "notify"
          /\ \A u \in Threads : closePc[u] = "notify" => closeOf'[u] = closeOf[u]
      BY <1>26, Domains
         DEF RMClose, CallClose, acceptVars, closeVars, rmVars, stopVars,
             CallInv, StartInv
    <2>. QED  BY <2>1, LinkUnchanged
  <1>27. CASE RMHandled
    <2>1. /\ \A d \in Conns : reader'[d] = "none" <=> reader[d] = "none"
          /\ UNCHANGED connections /\ UNCHANGED clientDisconnectedChannel
          /\ \A d \in Conns : d \in connections => socket'[d] = socket[d]
          /\ \A u \in Threads : closePc'[u] = "notify" <=> closePc[u] = "notify"
          /\ \A u \in Threads : closePc[u] = "notify" => closeOf'[u] = closeOf[u]
      BY <1>27, Domains
         DEF RMHandled, acceptVars, closeVars, rmVars, stopVars, CallInv,
             StartInv
    <2>. QED  BY <2>1, LinkUnchanged
  <1>28. CASE UNCHANGED vars
    BY <1>28
       DEF vars, LinkStep, LinkOf, Announcing, acceptVars, closeVars,
           rmVars, stopVars
  <1>. QED
    BY <1>1, <1>2, <1>3, <1>4, <1>5, <1>6, <1>7, <1>8, <1>9, <1>10, <1>11,
       <1>12, <1>13, <1>14, <1>15, <1>16, <1>17, <1>18, <1>19, <1>20, <1>21,
       <1>22, <1>23, <1>24, <1>25, <1>26, <1>27, <1>28 DEF Next, AcceptNext,
       StopNext, ReaderNext, CloseNext, RMNext

\* Whatever closers race for a connection, it is announced once, after its
\* socket is closed, and never comes back.
THEOREM Implements == Spec => ImplementsClientLink
  <1>1. Init => CL!LinkInit
    BY DEF Init, CL!LinkInit, LinkOf
  <1>2. ASSUME ConnInv, [Next]_vars
        PROVE  CL!LinkNext \/ UNCHANGED CL!linkVars
    <2>1. LinkStep
      BY <1>2, StepRefines DEF ConnInv
    <2>. QED  BY <2>1 DEF LinkStep, CL!linkVars
  <1>3. ConnInv /\ [Next]_vars => [CL!LinkNext]_(CL!linkVars)
    BY <1>2
  <1>. QED
    BY <1>1, <1>3, ConnInvariant, PTL
       DEF Spec, ImplementsClientLink, CL!LinkSpec
===============================================================================
