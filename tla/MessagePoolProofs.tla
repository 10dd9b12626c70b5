---------------------------- MODULE MessagePoolProofs ----------------------------
(***************************************************************************)
(* Proofs about MessagePool for any connections, any number of buffers and *)
(* any number of messages: no buffer leaks or is shared, and a message     *)
(* keeps its payload from the read to the write.                           *)
(***************************************************************************)
EXTENDS MessagePool, FiniteSetTheorems, SequenceTheorems, TLAPS

-----------------------------------------------------------------------------
(* The inductive invariant *)

\* A buffer is held in the parts of a call that need one and only there; a
\* reader sends its own message only while it reports a version mismatch.
HoldInv ==
    /\ \A r \in Readers : readBuf[r].container = NoContainer <=> readPc[r] \in {"idle", "ended"}
    /\ \A r \in Readers : readPc[r] \in {"idle", "ended"} => readBuf[r] = Idle
    /\ \A t \in Threads : sendBuf[t].container = NoContainer <=> sendPc[t] = "idle"
    /\ \A r \in Readers : sendPc[r] # "idle" => readPc[r] = "mismatch"
    /\ \A i \in DOMAIN channel : channel[i].container # NoContainer
    /\ handling # Idle => handling.container # NoContainer

\* No buffer is in two places.
Exclusive ==
    /\ \A r, q \in Readers :
          readBuf[r].container = readBuf[q].container
             => r = q \/ readBuf[r].container = NoContainer
    /\ \A t, u \in Threads :
          sendBuf[t].container = sendBuf[u].container
             => t = u \/ sendBuf[t].container = NoContainer
    /\ \A i, j \in DOMAIN channel : channel[i].container = channel[j].container => i = j
    /\ \A r \in Readers, t \in Threads :
          readBuf[r].container = sendBuf[t].container => readBuf[r].container = NoContainer
    /\ \A i \in DOMAIN channel :
          /\ \A r \in Readers : readBuf[r].container # channel[i].container
          /\ \A t \in Threads : sendBuf[t].container # channel[i].container
          /\ handling.container # channel[i].container
    /\ handling # Idle =>
          /\ \A r \in Readers : readBuf[r].container # handling.container
          /\ \A t \in Threads : sendBuf[t].container # handling.container

\* Buffer c is somewhere.
Held(c) ==
    \/ \E r \in Readers : readBuf[r].container = c
    \/ \E t \in Threads : sendBuf[t].container = c
    \/ \E i \in DOMAIN channel : channel[i].container = c
    \/ handling.container = c

\* The pool counts one reference to it then, and none otherwise.
CountInv == \A c \in Containers : inUse[c] = IF Held(c) THEN 1 ELSE 0

\* What a buffer holds that will be handed over or written.
ContentInv ==
    /\ HandedOverIntact
    /\ \A r \in Readers :
          readPc[r] = "enqueue" => content[readBuf[r].container] = readBuf[r].sent
    /\ \A t \in Threads :
          sendPc[t] = "payload" => content[sendBuf[t].container] = sendBuf[t].sent
    /\ PayloadAsMeant

BufferInv == TypeOK /\ HoldInv /\ Exclusive /\ CountInv /\ ContentInv

-----------------------------------------------------------------------------
(* Buffers and queues *)

\* What the steps below need of the types.
LEMMA Domains ==
    ASSUME TypeOK
    PROVE  /\ DOMAIN readBuf = Readers /\ DOMAIN readPc = Readers
           /\ DOMAIN sendBuf = Threads /\ DOMAIN sendPc = Threads
           /\ DOMAIN inUse = Containers /\ DOMAIN content = Containers
           /\ \A r \in Readers : readBuf[r] \in Carried
           /\ \A t \in Threads : sendBuf[t] \in Carried
           /\ channel \in Seq(Carried) /\ handling \in Carried
           /\ Readers \subseteq Threads /\ RoomManager \in Threads
           /\ RoomManager \notin Readers /\ NoContainer \notin Containers
  BY PayloadsAssumption DEF TypeOK, PoolTypeOK, Threads

\* A message without its payload or container is one still.
LEMMA CarriedType ==
    ASSUME NEW b \in Carried
    PROVE  /\ DOMAIN b = {"container", "sent"}
           /\ b.container \in Containers \cup {NoContainer} /\ b.sent \in Payloads
           /\ \A c \in Containers : [b EXCEPT !.container = c] \in Carried
           /\ \A n \in Payloads : [b EXCEPT !.sent = n] \in Carried
           /\ \A c : [b EXCEPT !.container = c].container = c
           /\ \A c : [b EXCEPT !.container = c].sent = b.sent
           /\ \A n : [b EXCEPT !.sent = n].sent = n
           /\ \A n : [b EXCEPT !.sent = n].container = b.container
           /\ Idle \in Carried /\ Idle.container = NoContainer
  BY PayloadsAssumption DEF Carried, Idle, Payloads

\* A message goes to the end of the queue,
LEMMA QueuePush ==
    ASSUME NEW S, NEW s \in Seq(S), NEW e \in S
    PROVE  /\ Append(s, e) \in Seq(S)
           /\ \A i \in DOMAIN s : i \in DOMAIN Append(s, e) /\ Append(s, e)[i] = s[i]
           /\ \E k \in DOMAIN Append(s, e) : Append(s, e)[k] = e
           /\ \A i \in DOMAIN Append(s, e) :
                 \/ i \in DOMAIN s /\ Append(s, e)[i] = s[i]
                 \/ i = Len(s) + 1 /\ Append(s, e)[i] = e
  <1>1. PICK n \in Nat : n = Len(s)
    OBVIOUS
  <1>2. /\ Append(s, e) \in Seq(S) /\ Len(Append(s, e)) = n + 1
        /\ Append(s, e)[n + 1] = e /\ \A i \in 1..n : Append(s, e)[i] = s[i]
    BY <1>1, AppendProperties
  <1>3. DOMAIN s = 1..n /\ DOMAIN Append(s, e) = 1..(n + 1)
    BY <1>1, <1>2
  <1>. QED  BY <1>1, <1>2, <1>3

\* ... and its head comes off.
LEMMA QueuePop ==
    ASSUME NEW S, NEW s \in Seq(S), s # <<>>
    PROVE  /\ Tail(s) \in Seq(S) /\ Head(s) \in S
           /\ 1 \in DOMAIN s /\ s[1] = Head(s)
           /\ \A i \in DOMAIN Tail(s) :
                 i \in Nat /\ i + 1 \in DOMAIN s /\ i + 1 # 1 /\ Tail(s)[i] = s[i + 1]
           /\ \A i \in DOMAIN s : i = 1 \/ (i - 1 \in DOMAIN Tail(s) /\ Tail(s)[i - 1] = s[i])
  <1>1. PICK n \in Nat \ {0} : n = Len(s)
    BY EmptySeq
  <1>2. /\ Tail(s) \in Seq(S) /\ Len(Tail(s)) = n - 1 /\ Head(s) \in S
        /\ \A i \in 1..(n - 1) : Tail(s)[i] = s[i + 1]
    BY <1>1, HeadTailProperties
  <1>3. DOMAIN s = 1..n /\ DOMAIN Tail(s) = 1..(n - 1) /\ s[1] = Head(s)
    BY <1>1, <1>2
  <1>. QED  BY <1>1, <1>2, <1>3


\* A thread's buffer is set field by field.
LEMMA FieldSet ==
    ASSUME NEW T, NEW f \in [T -> Carried], NEW x \in T
    PROVE  /\ \A c \in Containers :
                 /\ [f EXCEPT ![x].container = c] \in [T -> Carried]
                 /\ [f EXCEPT ![x].container = c][x].container = c
                 /\ \A y \in T : y # x => [f EXCEPT ![x].container = c][y] = f[y]
           /\ \A n \in Payloads :
                 /\ [f EXCEPT ![x].sent = n] \in [T -> Carried]
                 /\ [f EXCEPT ![x].sent = n][x].container = f[x].container
                 /\ [f EXCEPT ![x].sent = n][x].sent = n
                 /\ \A y \in T : y # x => [f EXCEPT ![x].sent = n][y] = f[y]
  <1>1. f[x] \in Carried
    OBVIOUS
  <1>. QED  BY <1>1, CarriedType

-----------------------------------------------------------------------------
(* Every step keeps the types *)

\* The types of what is read and written,
ContentType ==
    /\ inUse \in [Containers -> Nat]
    /\ content \in [Containers -> Payloads \cup {Oversize}]
    /\ wire \in [kind : {"nothing", "payload", "bare"},
                 payload : Payloads \cup {Oversize}, meant : Payloads]
    /\ produced \in Payloads

\* ... of the program counters,
PcType ==
    /\ connected \in SUBSET Readers
    /\ readPc \in [Readers -> {"idle", "reading", "handshake", "mismatch",
                               "enqueue", "dispose", "ended"}]
    /\ sendPc \in [Threads -> {"idle", "obtained", "payload", "bare", "dispose"}]

\* ... and of the buffers in use.
BufType ==
    /\ readBuf \in [Readers -> Carried]
    /\ channel \in Seq(Carried)
    /\ handling \in Carried
    /\ sendBuf \in [Threads -> Carried]

\* ... make up TypeOK.
LEMMA Types == TypeOK <=> ContentType /\ PcType /\ BufType
  BY DEF TypeOK, ContentType, PcType, BufType, PoolTypeOK

\* A produced payload has the next number.
LEMMA NextPayload ==
    ASSUME TypeOK, produced < MaxPayloads
    PROVE  produced + 1 \in Payloads
  BY PayloadsAssumption DEF TypeOK, Payloads

\* What is written comes from a buffer.
LEMMA WireType ==
    ASSUME TypeOK, NEW k \in {"payload", "bare"}, NEW b \in Carried,
           b.container \in Containers, WriteMessage(k, b)
    PROVE  wire' \in [kind : {"nothing", "payload", "bare"},
                      payload : Payloads \cup {Oversize}, meant : Payloads]
  <1>1. content[b.container] \in Payloads \cup {Oversize} /\ b.sent \in Payloads
    BY CarriedType DEF TypeOK
  <1>. QED  BY <1>1 DEF WriteMessage, TypeOK

\* The buffers in use are buffers.
LEMMA Buffers ==
    ASSUME TypeOK, HoldInv
    PROVE  /\ \A r \in Readers : readPc[r] \notin {"idle", "ended"}
                                    => readBuf[r].container \in Containers
           /\ \A t \in Threads : sendPc[t] # "idle" => sendBuf[t].container \in Containers
           /\ \A i \in DOMAIN channel : channel[i].container \in Containers
           /\ handling # Idle => handling.container \in Containers
  <1>1. \A i \in DOMAIN channel : channel[i] \in Carried
    BY Domains
  <1>. QED  BY <1>1, Domains, CarriedType DEF HoldInv


\* Every step keeps the types of what is read and written,
LEMMA ContentTypeStep ==
    ASSUME TypeOK, HoldInv, [Next]_vars
    PROVE  ContentType'
  <1>1. ASSUME NEW r \in Readers, NEW c \in Containers, ReaderObtain(r, c) PROVE ContentType'
    <2>. USE DEF TypeOK, PoolTypeOK, ContentType
    <2>. QED  BY <1>1 DEF ReaderObtain, Obtain, sendVars
  <1>2. ASSUME NEW r \in Readers, Read(r) PROVE ContentType'
    <2>1. 0 \in Payloads
      BY PayloadsAssumption DEF Payloads
    <2>. QED
      BY <1>2, <2>1, NextPayload
         DEF Read, Produce, sendVars, TypeOK, PoolTypeOK, ContentType
  <1>3. ASSUME NEW r \in Readers, ReadFails(r) PROVE ContentType'
    <2>. QED
      BY <1>3, NextPayload
         DEF ReadFails, Produce, sendVars, TypeOK, PoolTypeOK, ContentType
  <1>4. ASSUME NEW r \in Readers, Enqueue(r) PROVE ContentType'
    <2>. USE DEF TypeOK, PoolTypeOK, ContentType
    <2>. QED  BY <1>4 DEF Enqueue, sendVars
  <1>5. ASSUME NEW r \in Readers, ReaderDispose(r) PROVE ContentType'
    <2>1. /\ readBuf[r].container \in Containers
          /\ Dispose(readBuf[r].container)
          /\ UNCHANGED <<content, wire, produced>>
      BY <1>5, Buffers DEF ReaderDispose, HoldInv
    <2>2. inUse' \in [Containers -> Nat]
      BY <2>1 DEF Dispose, TypeOK, PoolTypeOK
    <2>. QED  BY <2>1, <2>2 DEF ContentType, TypeOK
  <1>6. ASSUME NEW r \in Readers, HandshakeAnswer(r) PROVE ContentType'
    <2>1. /\ produced' = produced + 1 /\ produced + 1 \in Payloads
          /\ UNCHANGED inUse
      BY <1>6, NextPayload DEF HandshakeAnswer, Produce
    <2>2. content' \in [Containers -> Payloads \cup {Oversize}]
      BY <1>6, NextPayload DEF HandshakeAnswer, Produce, TypeOK
    <2>3. wire' \in [kind : {"nothing", "payload", "bare"},
                     payload : Payloads \cup {Oversize}, meant : Payloads]
      BY <1>6, <2>1 DEF HandshakeAnswer
    <2>. QED  BY <2>1, <2>2, <2>3 DEF ContentType, TypeOK, PoolTypeOK
  <1>7. ASSUME NEW r \in Readers, HandshakeFails(r) PROVE ContentType'
    <2>. USE DEF TypeOK, PoolTypeOK, ContentType
    <2>. QED  BY <1>7 DEF HandshakeFails, sendVars
  <1>8. ASSUME NEW r \in Readers, HandshakeMismatch(r) PROVE ContentType'
    <2>. USE DEF TypeOK, PoolTypeOK, ContentType
    <2>. QED  BY <1>8 DEF HandshakeMismatch, sendVars
  <1>9. ASSUME NEW t \in Threads, NEW c \in Containers, SendObtain(t, c) PROVE ContentType'
    <2>. USE DEF TypeOK, PoolTypeOK, ContentType
    <2>. QED  BY <1>9 DEF SendObtain, Obtain, MaySend, readerVars
  <1>10. ASSUME NEW t \in Threads, SetPayload(t) PROVE ContentType'
    <2>. QED
      BY <1>10, NextPayload
         DEF SetPayload, Produce, readerVars, TypeOK, PoolTypeOK,
             ContentType
  <1>11. ASSUME NEW t \in Threads, SetPayloadFails(t) PROVE ContentType'
    <2>. USE DEF TypeOK, PoolTypeOK, ContentType
    <2>. QED  BY <1>11 DEF SetPayloadFails, Answers, readerVars
  <1>12. ASSUME NEW t \in Threads, SetDirectCommand(t) PROVE ContentType'
    <2>. USE DEF TypeOK, PoolTypeOK, ContentType
    <2>. QED  BY <1>12 DEF SetDirectCommand, Answers, readerVars
  <1>13. ASSUME NEW t \in Threads, SendWrite(t) PROVE ContentType'
    <2>1. WriteMessage(sendPc[t], sendBuf[t]) /\ UNCHANGED <<inUse, content, produced>>
      BY <1>13 DEF SendWrite
    <2>2. sendPc[t] \in {"payload", "bare"} /\ sendBuf[t] \in Carried
      BY <1>13, Domains DEF SendWrite
    <2>3. sendBuf[t].container \in Containers
      BY <1>13, Buffers DEF SendWrite
    <2>4. wire' \in [kind : {"nothing", "payload", "bare"},
                     payload : Payloads \cup {Oversize}, meant : Payloads]
      BY <2>1, <2>2, <2>3, WireType
    <2>. QED  BY <2>1, <2>4 DEF ContentType, TypeOK, PoolTypeOK
  <1>14. ASSUME NEW t \in Threads, SendDispose(t) PROVE ContentType'
    <2>1. /\ sendBuf[t].container \in Containers
          /\ Dispose(sendBuf[t].container)
          /\ UNCHANGED <<content, wire, produced>>
      BY <1>14, Buffers DEF SendDispose, HoldInv
    <2>2. inUse' \in [Containers -> Nat]
      BY <2>1 DEF Dispose, TypeOK, PoolTypeOK
    <2>. QED  BY <2>1, <2>2 DEF ContentType, TypeOK
  <1>15. CASE Take
    <2>. USE DEF TypeOK, PoolTypeOK, ContentType
    <2>. QED  BY <1>15 DEF Take, readerVars, sendVars
  <1>16. CASE Forward
    <2>1. WriteMessage("payload", handling) /\ UNCHANGED <<inUse, content, produced>>
      BY <1>16 DEF Forward
    <2>2. handling \in Carried /\ handling.container \in Containers
      BY <1>16, Domains, Buffers DEF Forward
    <2>3. wire' \in [kind : {"nothing", "payload", "bare"},
                     payload : Payloads \cup {Oversize}, meant : Payloads]
      BY <2>1, <2>2, WireType
    <2>. QED  BY <2>1, <2>3 DEF ContentType, TypeOK, PoolTypeOK
  <1>17. CASE HandledDispose
    <2>1. /\ handling.container \in Containers
          /\ Dispose(handling.container)
          /\ UNCHANGED <<content, wire, produced>>
      BY <1>17, Buffers DEF HandledDispose, HoldInv
    <2>2. inUse' \in [Containers -> Nat]
      BY <2>1 DEF Dispose, TypeOK, PoolTypeOK
    <2>. QED  BY <2>1, <2>2 DEF ContentType, TypeOK
  <1>18. CASE UNCHANGED vars
    BY <1>18 DEF vars, ContentType, TypeOK, PoolTypeOK
  <1>. QED
    BY <1>1, <1>2, <1>3, <1>4, <1>5, <1>6, <1>7, <1>8, <1>9, <1>10, <1>11,
       <1>12, <1>13, <1>14, <1>15, <1>16, <1>17, <1>18 DEF Next, Step

\* ... of the program counters,
LEMMA PcTypeStep ==
    ASSUME TypeOK, [Next]_vars
    PROVE  PcType'
  <1>1. ASSUME NEW r \in Readers, NEW c \in Containers, ReaderObtain(r, c) PROVE PcType'
    BY <1>1, Domains DEF ReaderObtain, Obtain, sendVars, PcType, TypeOK
  <1>2. ASSUME NEW r \in Readers, Read(r) PROVE PcType'
    BY <1>2, Domains DEF Read, Produce, sendVars, PcType, TypeOK
  <1>3. ASSUME NEW r \in Readers, ReadFails(r) PROVE PcType'
    BY <1>3, Domains DEF ReadFails, Produce, sendVars, PcType, TypeOK
  <1>4. ASSUME NEW r \in Readers, Enqueue(r) PROVE PcType'
    BY <1>4, Domains DEF Enqueue, sendVars, PcType, TypeOK
  <1>5. ASSUME NEW r \in Readers, ReaderDispose(r) PROVE PcType'
    BY <1>5, Domains DEF ReaderDispose, Dispose, sendVars, PcType, TypeOK
  <1>6. ASSUME NEW r \in Readers, HandshakeAnswer(r) PROVE PcType'
    BY <1>6, Domains DEF HandshakeAnswer, Produce, sendVars, PcType, TypeOK
  <1>7. ASSUME NEW r \in Readers, HandshakeFails(r) PROVE PcType'
    BY <1>7, Domains DEF HandshakeFails, sendVars, PcType, TypeOK
  <1>8. ASSUME NEW r \in Readers, HandshakeMismatch(r) PROVE PcType'
    BY <1>8, Domains DEF HandshakeMismatch, sendVars, PcType, TypeOK
  <1>9. ASSUME NEW t \in Threads, NEW c \in Containers, SendObtain(t, c) PROVE PcType'
    BY <1>9, Domains DEF SendObtain, Obtain, MaySend, readerVars, PcType, TypeOK
  <1>10. ASSUME NEW t \in Threads, SetPayload(t) PROVE PcType'
    BY <1>10, Domains DEF SetPayload, Produce, Answers, readerVars, PcType, TypeOK
  <1>11. ASSUME NEW t \in Threads, SetPayloadFails(t) PROVE PcType'
    BY <1>11, Domains DEF SetPayloadFails, Answers, readerVars, PcType, TypeOK
  <1>12. ASSUME NEW t \in Threads, SetDirectCommand(t) PROVE PcType'
    BY <1>12, Domains DEF SetDirectCommand, Answers, readerVars, PcType, TypeOK
  <1>13. ASSUME NEW t \in Threads, SendWrite(t) PROVE PcType'
    BY <1>13, Domains DEF SendWrite, WriteMessage, readerVars, PcType, TypeOK
  <1>14. ASSUME NEW t \in Threads, SendDispose(t) PROVE PcType'
    BY <1>14, Domains DEF SendDispose, Dispose, PcType, TypeOK
  <1>15. CASE Take
    BY <1>15, Domains DEF Take, readerVars, sendVars, PcType, TypeOK
  <1>16. CASE Forward
    BY <1>16, Domains
       DEF Forward, WriteMessage, readerVars, sendVars, PcType, TypeOK
  <1>17. CASE HandledDispose
    BY <1>17, Domains
       DEF HandledDispose, Dispose, readerVars, sendVars, PcType, TypeOK
  <1>18. CASE UNCHANGED vars
    BY <1>18 DEF vars, PcType, TypeOK
  <1>. QED
    BY <1>1, <1>2, <1>3, <1>4, <1>5, <1>6, <1>7, <1>8, <1>9, <1>10, <1>11,
       <1>12, <1>13, <1>14, <1>15, <1>16, <1>17, <1>18 DEF Next, Step

\* ... and of the buffers in use.
LEMMA BufTypeStep ==
    ASSUME TypeOK, HoldInv, [Next]_vars
    PROVE  BufType'
  <1>1. ASSUME NEW r \in Readers, NEW c \in Containers, ReaderObtain(r, c) PROVE BufType'
    <2>1. readBuf \in [Readers -> Carried] /\ readBuf' = [readBuf EXCEPT ![r].container = c]
      BY <1>1 DEF ReaderObtain, TypeOK
    <2>2. readBuf' \in [Readers -> Carried]
      BY <2>1, FieldSet
    <2>. QED  BY <1>1, <2>2 DEF ReaderObtain, Obtain, sendVars, TypeOK, BufType
  <1>2. ASSUME NEW r \in Readers, Read(r) PROVE BufType'
    <2>1. PICK n \in Payloads : readBuf' = [readBuf EXCEPT ![r].sent = n]
      BY <1>2, NextPayload, PayloadsAssumption DEF Read, Produce, Payloads
    <2>2. readBuf' \in [Readers -> Carried]
      BY <2>1, FieldSet DEF TypeOK
    <2>. QED  BY <1>2, <2>2 DEF Read, sendVars, TypeOK, BufType
  <1>3. ASSUME NEW r \in Readers, ReadFails(r) PROVE BufType'
    BY <1>3, Domains, CarriedType
       DEF ReadFails, Produce, sendVars, BufType, TypeOK
  <1>4. ASSUME NEW r \in Readers, Enqueue(r) PROVE BufType'
    <2>1. channel' = Append(channel, readBuf[r]) /\ readBuf[r] \in Carried
      BY <1>4, Domains DEF Enqueue
    <2>2. channel' \in Seq(Carried)
      BY <2>1, Domains, QueuePush
    <2>. QED
      BY <1>4, <2>2, CarriedType, Domains
         DEF Enqueue, sendVars, TypeOK, BufType
  <1>5. ASSUME NEW r \in Readers, ReaderDispose(r) PROVE BufType'
    BY <1>5, Domains, CarriedType
       DEF ReaderDispose, Dispose, sendVars, BufType, TypeOK
  <1>6. ASSUME NEW r \in Readers, HandshakeAnswer(r) PROVE BufType'
    <2>1. /\ readBuf \in [Readers -> Carried]
          /\ readBuf' = [readBuf EXCEPT ![r].sent = produced + 1]
          /\ produced + 1 \in Payloads
      BY <1>6, NextPayload DEF HandshakeAnswer, Produce, TypeOK
    <2>2. readBuf' \in [Readers -> Carried]
      BY <2>1, FieldSet
    <2>. QED
      BY <1>6, <2>2
         DEF HandshakeAnswer, Produce, sendVars, TypeOK, BufType
  <1>7. ASSUME NEW r \in Readers, HandshakeFails(r) PROVE BufType'
    BY <1>7, Domains, CarriedType DEF HandshakeFails, sendVars, BufType, TypeOK
  <1>8. ASSUME NEW r \in Readers, HandshakeMismatch(r) PROVE BufType'
    BY <1>8, Domains, CarriedType DEF HandshakeMismatch, sendVars, BufType, TypeOK
  <1>9. ASSUME NEW t \in Threads, NEW c \in Containers, SendObtain(t, c) PROVE BufType'
    <2>1. sendBuf \in [Threads -> Carried] /\ sendBuf' = [sendBuf EXCEPT ![t].container = c]
      BY <1>9 DEF SendObtain, TypeOK
    <2>2. sendBuf' \in [Threads -> Carried]
      BY <2>1, FieldSet
    <2>. QED
      BY <1>9, <2>2
         DEF SendObtain, Obtain, MaySend, readerVars, TypeOK, BufType
  <1>10. ASSUME NEW t \in Threads, SetPayload(t) PROVE BufType'
    <2>1. /\ sendBuf \in [Threads -> Carried]
          /\ sendBuf' = [sendBuf EXCEPT ![t].sent = produced + 1]
          /\ produced + 1 \in Payloads
      BY <1>10, NextPayload DEF SetPayload, Produce, TypeOK
    <2>2. sendBuf' \in [Threads -> Carried]
      BY <2>1, FieldSet
    <2>. QED
      BY <1>10, <2>2
         DEF SetPayload, Produce, Answers, readerVars, TypeOK, BufType
  <1>11. ASSUME NEW t \in Threads, SetPayloadFails(t) PROVE BufType'
    BY <1>11, Domains, CarriedType
       DEF SetPayloadFails, Answers, readerVars, BufType, TypeOK
  <1>12. ASSUME NEW t \in Threads, SetDirectCommand(t) PROVE BufType'
    BY <1>12, Domains, CarriedType
       DEF SetDirectCommand, Answers, readerVars, BufType, TypeOK
  <1>13. ASSUME NEW t \in Threads, SendWrite(t) PROVE BufType'
    BY <1>13, Domains, CarriedType
       DEF SendWrite, WriteMessage, readerVars, BufType, TypeOK
  <1>14. ASSUME NEW t \in Threads, SendDispose(t) PROVE BufType'
    BY <1>14, Domains, CarriedType DEF SendDispose, Dispose, BufType, TypeOK
  <1>15. CASE Take
    <2>1. channel' = Tail(channel) /\ handling' = Head(channel) /\ channel # <<>>
      BY <1>15 DEF Take
    <2>2. channel' \in Seq(Carried) /\ handling' \in Carried
      BY <2>1, Domains, QueuePop
    <2>. QED  BY <1>15, <2>2 DEF Take, readerVars, sendVars, TypeOK, BufType
  <1>16. CASE Forward
    BY <1>16, Domains, CarriedType
       DEF Forward, WriteMessage, readerVars, sendVars, BufType, TypeOK
  <1>17. CASE HandledDispose
    BY <1>17, Domains, CarriedType
       DEF HandledDispose, Dispose, readerVars, sendVars, BufType, TypeOK
  <1>18. CASE UNCHANGED vars
    BY <1>18 DEF vars, BufType, TypeOK
  <1>. QED
    BY <1>1, <1>2, <1>3, <1>4, <1>5, <1>6, <1>7, <1>8, <1>9, <1>10, <1>11,
       <1>12, <1>13, <1>14, <1>15, <1>16, <1>17, <1>18 DEF Next, Step

\* Together: every step keeps the types.
LEMMA TypeStep ==
    ASSUME TypeOK, HoldInv, [Next]_vars
    PROVE  TypeOK'
  <1>1. ContentType' /\ PcType' /\ BufType'
    BY ContentTypeStep, PcTypeStep, BufTypeStep
  <1>. QED  BY <1>1 DEF TypeOK, PoolTypeOK, ContentType, PcType, BufType

\* Buffers are held where they are needed.
LEMMA HoldStep ==
    ASSUME TypeOK, HoldInv, [Next]_vars
    PROVE  HoldInv'
  <1>. USE DEF HoldInv
  <1>1. ASSUME NEW r \in Readers, NEW c \in Containers, ReaderObtain(r, c) PROVE HoldInv'
    BY <1>1, Domains, CarriedType DEF ReaderObtain, Obtain, sendVars
  <1>2. ASSUME NEW r \in Readers, Read(r) PROVE HoldInv'
    BY <1>2, Domains, CarriedType DEF Read, Produce, sendVars
  <1>3. ASSUME NEW r \in Readers, ReadFails(r) PROVE HoldInv'
    BY <1>3, Domains, CarriedType DEF ReadFails, Produce, sendVars
  <1>4. ASSUME NEW r \in Readers, Enqueue(r) PROVE HoldInv'
    BY <1>4, Domains, CarriedType DEF Enqueue, sendVars
  <1>5. ASSUME NEW r \in Readers, ReaderDispose(r) PROVE HoldInv'
    BY <1>5, Domains, CarriedType DEF ReaderDispose, Dispose, sendVars
  <1>6. ASSUME NEW r \in Readers, HandshakeAnswer(r) PROVE HoldInv'
    BY <1>6, Domains, CarriedType DEF HandshakeAnswer, Produce, sendVars
  <1>7. ASSUME NEW r \in Readers, HandshakeFails(r) PROVE HoldInv'
    BY <1>7, Domains, CarriedType DEF HandshakeFails, sendVars
  <1>8. ASSUME NEW r \in Readers, HandshakeMismatch(r) PROVE HoldInv'
    BY <1>8, Domains, CarriedType DEF HandshakeMismatch, sendVars
  <1>9. ASSUME NEW t \in Threads, NEW c \in Containers, SendObtain(t, c) PROVE HoldInv'
    BY <1>9, Domains, CarriedType DEF SendObtain, Obtain, MaySend, readerVars
  <1>10. ASSUME NEW t \in Threads, SetPayload(t) PROVE HoldInv'
    BY <1>10, Domains, CarriedType DEF SetPayload, Produce, Answers, readerVars
  <1>11. ASSUME NEW t \in Threads, SetPayloadFails(t) PROVE HoldInv'
    BY <1>11, Domains, CarriedType DEF SetPayloadFails, Answers, readerVars
  <1>12. ASSUME NEW t \in Threads, SetDirectCommand(t) PROVE HoldInv'
    BY <1>12, Domains, CarriedType DEF SetDirectCommand, Answers, readerVars
  <1>13. ASSUME NEW t \in Threads, SendWrite(t) PROVE HoldInv'
    BY <1>13, Domains, CarriedType DEF SendWrite, WriteMessage, readerVars
  <1>14. ASSUME NEW t \in Threads, SendDispose(t) PROVE HoldInv'
    BY <1>14, Domains, CarriedType DEF SendDispose, Dispose
  <1>15. CASE Take
    BY <1>15, Domains, CarriedType DEF Take, readerVars, sendVars
  <1>16. CASE Forward
    BY <1>16, Domains, CarriedType DEF Forward, WriteMessage, readerVars, sendVars
  <1>17. CASE HandledDispose
    BY <1>17, Domains, CarriedType
       DEF HandledDispose, Dispose, readerVars, sendVars
  <1>18. CASE UNCHANGED vars
    BY <1>18 DEF vars
  <1>. QED
    BY <1>1, <1>2, <1>3, <1>4, <1>5, <1>6, <1>7, <1>8, <1>9, <1>10, <1>11,
       <1>12, <1>13, <1>14, <1>15, <1>16, <1>17, <1>18 DEF Next, Step


-----------------------------------------------------------------------------
(* No buffer is in two places and the pool counts the places *)

\* How the pool's counter follows the places: it does not change,
LEMMA CountSame ==
    ASSUME CountInv, UNCHANGED inUse, \A d \in Containers : Held(d)' <=> Held(d)
    PROVE  CountInv'
  BY DEF CountInv

\* ... it counts a buffer that is handed out,
LEMMA CountObtained ==
    ASSUME TypeOK, CountInv, NEW c \in Containers, Obtain(c), Held(c)',
           \A d \in Containers : d # c => (Held(d)' <=> Held(d))
    PROVE  CountInv'
  BY Domains DEF CountInv, Obtain

\* ... and not any more what is given back.
LEMMA CountDisposed ==
    ASSUME TypeOK, CountInv, NEW c \in Containers, Dispose(c), Held(c), ~Held(c)',
           \A d \in Containers : d # c => (Held(d)' <=> Held(d))
    PROVE  CountInv'
  <1>1. inUse[c] = 1 /\ inUse'[c] = inUse[c] - 1
    BY Domains DEF CountInv, Dispose
  <1>2. \A d \in Containers : d # c => inUse'[d] = inUse[d]
    BY Domains DEF Dispose
  <1>. QED  BY <1>1, <1>2 DEF CountInv

\* A buffer that can be handed out is nowhere.
LEMMA FreeIsNowhere ==
    ASSUME TypeOK, CountInv, NEW c \in Containers, Obtain(c)
    PROVE  /\ ~Held(c) /\ c # NoContainer
           /\ \A r \in Readers : readBuf[r].container # c
           /\ \A t \in Threads : sendBuf[t].container # c
           /\ \A i \in DOMAIN channel : channel[i].container # c
           /\ handling.container # c
  <1>1. ~Held(c)
    BY DEF CountInv, Obtain
  <1>. QED  BY <1>1, Domains DEF Held

\* Steps that move no buffer.
LEMMA NothingMoves ==
    ASSUME Exclusive, CountInv, UNCHANGED <<channel, handling, inUse>>,
           \A r \in Readers : readBuf'[r].container = readBuf[r].container,
           \A t \in Threads : sendBuf'[t].container = sendBuf[t].container
    PROVE  Exclusive' /\ CountInv'
  <1>1. Exclusive'
    BY DEF Exclusive
  <1>2. \A d \in Containers : Held(d)' <=> Held(d)
    BY DEF Held
  <1>. QED  BY <1>1, <1>2, CountSame

\* Obtain: a reader gets a buffer, or a Send call,
LEMMA ReaderGets ==
    ASSUME TypeOK, HoldInv, Exclusive, CountInv, NEW r \in Readers, NEW c \in Containers,
           ReaderObtain(r, c)
    PROVE  Exclusive' /\ CountInv'
  <1>1. /\ Obtain(c) /\ UNCHANGED <<channel, handling, sendBuf>>
        /\ readBuf' = [readBuf EXCEPT ![r].container = c] /\ readBuf[r].container = NoContainer
    BY DEF ReaderObtain, sendVars, HoldInv
  <1>2. readBuf \in [Readers -> Carried]
    BY DEF TypeOK
  <1>3. readBuf'[r].container = c /\ \A q \in Readers : q # r => readBuf'[q] = readBuf[q]
    BY <1>1, <1>2, FieldSet
  <1>4. /\ ~Held(c) /\ c # NoContainer
        /\ \A q \in Readers : readBuf[q].container # c
        /\ \A t \in Threads : sendBuf[t].container # c
        /\ \A i \in DOMAIN channel : channel[i].container # c
        /\ handling.container # c
    BY <1>1, FreeIsNowhere
  <1>5. UNCHANGED channel /\ UNCHANGED handling /\ UNCHANGED sendBuf
    BY <1>1
  <1>6. Exclusive'
    BY <1>3, <1>4, <1>5 DEF Exclusive
  <1>7. Held(c)' /\ \A d \in Containers : d # c => (Held(d)' <=> Held(d))
    BY <1>1, <1>3, <1>5, Domains DEF Held
  <1>. QED  BY <1>1, <1>6, <1>7, CountObtained

\* ... for a message of its own.
LEMMA SenderGets ==
    ASSUME TypeOK, HoldInv, Exclusive, CountInv, NEW t \in Threads, NEW c \in Containers,
           SendObtain(t, c)
    PROVE  Exclusive' /\ CountInv'
  <1>1. /\ Obtain(c) /\ UNCHANGED <<channel, handling, readBuf>>
        /\ sendBuf' = [sendBuf EXCEPT ![t].container = c] /\ sendBuf[t].container = NoContainer
    BY DEF SendObtain, readerVars, HoldInv
  <1>2. sendBuf \in [Threads -> Carried]
    BY DEF TypeOK
  <1>3. sendBuf'[t].container = c /\ \A u \in Threads : u # t => sendBuf'[u] = sendBuf[u]
    BY <1>1, <1>2, FieldSet
  <1>4. /\ ~Held(c) /\ c # NoContainer
        /\ \A q \in Readers : readBuf[q].container # c
        /\ \A u \in Threads : sendBuf[u].container # c
        /\ \A i \in DOMAIN channel : channel[i].container # c
        /\ handling.container # c
    BY <1>1, FreeIsNowhere
  <1>5. UNCHANGED channel /\ UNCHANGED handling /\ UNCHANGED readBuf
    BY <1>1
  <1>6. Exclusive'
    BY <1>3, <1>4, <1>5 DEF Exclusive
  <1>7. Held(c)' /\ \A d \in Containers : d # c => (Held(d)' <=> Held(d))
    BY <1>1, <1>3, <1>5, Domains DEF Held
  <1>. QED  BY <1>1, <1>6, <1>7, CountObtained

\* Dispose: a reader's buffer goes back,
LEMMA ReaderGives ==
    ASSUME TypeOK, HoldInv, Exclusive, CountInv, NEW r \in Readers, ReaderDispose(r)
    PROVE  Exclusive' /\ CountInv'
  <1>1. PICK c \in Containers : c = readBuf[r].container
    BY Buffers DEF ReaderDispose
  <1>2. /\ Dispose(c) /\ UNCHANGED channel /\ UNCHANGED handling /\ UNCHANGED sendBuf
        /\ readBuf' = [readBuf EXCEPT ![r] = Idle] /\ c # NoContainer
    BY <1>1, Domains DEF ReaderDispose, sendVars
  <1>3. /\ readBuf'[r].container = NoContainer
        /\ \A q \in Readers : q # r => readBuf'[q] = readBuf[q]
    BY <1>2, Domains DEF Idle
  <1>4. /\ \A q \in Readers : q # r => readBuf[q].container # c
        /\ \A t \in Threads : sendBuf[t].container # c
        /\ \A i \in DOMAIN channel : channel[i].container # c
        /\ handling.container # c
    BY <1>1, <1>2, Domains DEF Exclusive, Idle
  <1>5. UNCHANGED channel /\ UNCHANGED handling /\ UNCHANGED sendBuf
    BY <1>2
  <1>6. Exclusive'
    <2>1. /\ \A i \in DOMAIN channel : channel[i].container # NoContainer
          /\ handling # Idle => handling.container # NoContainer
      BY DEF HoldInv
    <2>. QED  BY <1>3, <1>4, <1>5, <2>1 DEF Exclusive
  <1>7. /\ Held(c) /\ ~Held(c)'
        /\ \A d \in Containers : d # c => (Held(d)' <=> Held(d))
    BY <1>1, <1>3, <1>4, <1>5, Domains DEF Held
  <1>. QED  BY <1>2, <1>6, <1>7, CountDisposed

\* ... the Send call's,
LEMMA SenderGives ==
    ASSUME TypeOK, HoldInv, Exclusive, CountInv, NEW t \in Threads, SendDispose(t)
    PROVE  Exclusive' /\ CountInv'
  <1>1. PICK c \in Containers : c = sendBuf[t].container
    BY Buffers DEF SendDispose
  <1>2. /\ Dispose(c) /\ UNCHANGED channel /\ UNCHANGED handling /\ UNCHANGED readBuf
        /\ sendBuf' = [sendBuf EXCEPT ![t] = Idle] /\ c # NoContainer
    BY <1>1, Domains DEF SendDispose
  <1>3. /\ sendBuf'[t].container = NoContainer
        /\ \A u \in Threads : u # t => sendBuf'[u] = sendBuf[u]
    BY <1>2, Domains DEF Idle
  <1>4. /\ \A q \in Readers : readBuf[q].container # c
        /\ \A u \in Threads : u # t => sendBuf[u].container # c
        /\ \A i \in DOMAIN channel : channel[i].container # c
        /\ handling.container # c
    BY <1>1, <1>2, Domains DEF Exclusive, Idle
  <1>5. UNCHANGED channel /\ UNCHANGED handling /\ UNCHANGED readBuf
    BY <1>2
  <1>6. Exclusive'
    <2>1. /\ \A i \in DOMAIN channel : channel[i].container # NoContainer
          /\ handling # Idle => handling.container # NoContainer
      BY DEF HoldInv
    <2>. QED  BY <1>3, <1>4, <1>5, <2>1 DEF Exclusive
  <1>7. /\ Held(c) /\ ~Held(c)'
        /\ \A d \in Containers : d # c => (Held(d)' <=> Held(d))
    BY <1>1, <1>3, <1>4, <1>5, Domains DEF Held
  <1>. QED  BY <1>2, <1>6, <1>7, CountDisposed

\* ... and that of the message dispatchMessage has handled.
LEMMA HandlerGives ==
    ASSUME TypeOK, HoldInv, Exclusive, CountInv, HandledDispose
    PROVE  Exclusive' /\ CountInv'
  <1>1. PICK c \in Containers : c = handling.container
    BY Buffers DEF HandledDispose
  <1>2. /\ Dispose(c) /\ UNCHANGED channel /\ UNCHANGED readBuf /\ UNCHANGED sendBuf
        /\ handling' = Idle /\ handling # Idle
    BY <1>1, Domains DEF HandledDispose, readerVars, sendVars
  <1>3. handling'.container = NoContainer
    BY <1>2, Domains DEF Idle
  <1>4. /\ \A q \in Readers : readBuf[q].container # c
        /\ \A u \in Threads : sendBuf[u].container # c
        /\ \A i \in DOMAIN channel : channel[i].container # c
    BY <1>1, <1>2, Domains DEF Exclusive
  <1>5. \A i \in DOMAIN channel : channel[i].container # NoContainer
    BY DEF HoldInv
  <1>6. Exclusive'
    BY <1>2, <1>3, <1>4, <1>5 DEF Exclusive
  <1>7. /\ Held(c) /\ ~Held(c)'
        /\ \A d \in Containers : d # c => (Held(d)' <=> Held(d))
    BY <1>1, <1>2, <1>3, <1>4, Domains DEF Held
  <1>. QED  BY <1>2, <1>6, <1>7, CountDisposed

\* Handing over: the reader's buffer goes on the queue,
LEMMA HandedOver ==
    ASSUME TypeOK, HoldInv, Exclusive, CountInv, NEW r \in Readers, Enqueue(r)
    PROVE  Exclusive' /\ CountInv'
  <1>1. PICK b \in Carried : b = readBuf[r]
    BY Domains
  <1>2. b.container \in Containers /\ b.container # NoContainer
    BY <1>1, Buffers, Domains DEF Enqueue
  <1>3. /\ UNCHANGED inUse /\ UNCHANGED handling /\ UNCHANGED sendBuf
        /\ readBuf' = [readBuf EXCEPT ![r] = Idle] /\ channel' = Append(channel, b)
    BY <1>1 DEF Enqueue, sendVars
  <1>4. /\ readBuf'[r].container = NoContainer
        /\ \A q \in Readers : q # r => readBuf'[q] = readBuf[q]
    BY <1>3, Domains DEF Idle
  <1>5. /\ \A q \in Readers : q # r => readBuf[q].container # b.container
        /\ \A t \in Threads : sendBuf[t].container # b.container
        /\ \A i \in DOMAIN channel : channel[i].container # b.container
        /\ handling.container # b.container
    BY <1>1, <1>2, Domains DEF Exclusive, Idle
  <1>6. PICK k \in DOMAIN channel' :
           /\ channel'[k] = b
           /\ \A i \in DOMAIN channel : i \in DOMAIN channel' /\ channel'[i] = channel[i]
           /\ \A i \in DOMAIN channel' : i = k \/ (i \in DOMAIN channel /\ channel'[i] = channel[i])
    <2>1. channel \in Seq(Carried)
      BY Domains
    <2>2. PICK k \in DOMAIN Append(channel, b) : k = Len(channel) + 1 /\ Append(channel, b)[k] = b
      BY <2>1, AppendProperties
    <2>3. /\ \A i \in DOMAIN channel :
                i \in DOMAIN Append(channel, b) /\ Append(channel, b)[i] = channel[i]
          /\ \A i \in DOMAIN Append(channel, b) :
                \/ i \in DOMAIN channel /\ Append(channel, b)[i] = channel[i]
                \/ i = Len(channel) + 1
      BY <2>1, QueuePush
    <2>. QED  BY <1>3, <2>2, <2>3
  <1>7. /\ \A i \in DOMAIN channel : channel[i].container # NoContainer
        /\ handling # Idle => handling.container # NoContainer
    BY DEF HoldInv
  <1>. HIDE <1>3
  <1>8. UNCHANGED inUse /\ UNCHANGED handling /\ UNCHANGED sendBuf
    BY <1>3
  <1>9. Exclusive'
    BY <1>2, <1>4, <1>5, <1>6, <1>7, <1>8 DEF Exclusive
  <1>10. \A d \in Containers : Held(d)' <=> Held(d)
    BY <1>1, <1>4, <1>6, <1>8, Domains DEF Held
  <1>. QED  BY <1>8, <1>9, <1>10, CountSame

\* ... and from there to the room manager.
LEMMA TakenOver ==
    ASSUME TypeOK, HoldInv, Exclusive, CountInv, Take
    PROVE  Exclusive' /\ CountInv'
  <1>1. /\ UNCHANGED inUse /\ UNCHANGED readBuf /\ UNCHANGED sendBuf
        /\ handling = Idle /\ handling' = Head(channel) /\ channel' = Tail(channel)
        /\ channel # <<>> /\ channel \in Seq(Carried)
    BY Domains DEF Take, readerVars, sendVars
  <1>2. /\ 1 \in DOMAIN channel /\ handling' = channel[1]
        /\ \A i \in DOMAIN channel' :
              i \in Nat /\ i + 1 \in DOMAIN channel /\ i + 1 # 1 /\ channel'[i] = channel[i + 1]
        /\ \A i \in DOMAIN channel : i = 1 \/ (i - 1 \in DOMAIN channel' /\ channel'[i - 1] = channel[i])
    BY <1>1, QueuePop
  <1>3. UNCHANGED inUse /\ UNCHANGED readBuf /\ UNCHANGED sendBuf /\ handling.container = NoContainer
    BY <1>1 DEF Idle
  <1>. HIDE <1>1
  <1>4. \A i, j \in DOMAIN channel : channel[i].container = channel[j].container => i = j
    BY DEF Exclusive
  <1>5. \A i \in DOMAIN channel :
          /\ channel[i].container # NoContainer
          /\ \A r \in Readers : readBuf[r].container # channel[i].container
          /\ \A t \in Threads : sendBuf[t].container # channel[i].container
    BY DEF Exclusive, HoldInv
  <1>6. \A i, j \in DOMAIN channel' : channel'[i].container = channel'[j].container => i = j
    BY <1>2, <1>4
  <1>7. \A i \in DOMAIN channel' :
          /\ \A r \in Readers : readBuf'[r].container # channel'[i].container
          /\ \A t \in Threads : sendBuf'[t].container # channel'[i].container
          /\ handling'.container # channel'[i].container
    BY <1>2, <1>3, <1>4, <1>5
  <1>8. /\ \A r \in Readers : readBuf'[r].container # handling'.container
        /\ \A t \in Threads : sendBuf'[t].container # handling'.container
    BY <1>2, <1>3, <1>5
  <1>9. Exclusive'
    BY <1>3, <1>6, <1>7, <1>8 DEF Exclusive
  <1>10. ASSUME NEW d \in Containers PROVE Held(d)' <=> Held(d)
    <2>1. d # NoContainer
      BY Domains
    <2>2. (\E i \in DOMAIN channel : channel[i].container = d)
             <=> \/ handling'.container = d
                 \/ \E i \in DOMAIN channel' : channel'[i].container = d
      BY <1>2
    <2>. QED  BY <1>3, <2>1, <2>2 DEF Held
  <1>. QED  BY <1>3, <1>9, <1>10, CountSame


\* Every step keeps each buffer in one place and counted.
LEMMA PlaceStep ==
    ASSUME TypeOK, HoldInv, Exclusive, CountInv, [Next]_vars
    PROVE  Exclusive' /\ CountInv'
  <1>1. ASSUME NEW r \in Readers, NEW c \in Containers, ReaderObtain(r, c) PROVE Exclusive' /\ CountInv'
    BY <1>1, ReaderGets
  <1>2. ASSUME NEW r \in Readers, Read(r) PROVE Exclusive' /\ CountInv'
    <2>1. UNCHANGED <<channel, handling, inUse, sendBuf>>
      BY <1>2 DEF Read, Produce, sendVars
    <2>2. PICK n \in Payloads : readBuf' = [readBuf EXCEPT ![r].sent = n]
      BY <1>2, NextPayload, PayloadsAssumption DEF Read, Produce, Payloads
    <2>3. \A q \in Readers : readBuf'[q].container = readBuf[q].container
      BY <2>2, FieldSet DEF TypeOK
    <2>. QED  BY <2>1, <2>3, NothingMoves
  <1>3. ASSUME NEW r \in Readers, ReadFails(r) PROVE Exclusive' /\ CountInv'
    <2>1. UNCHANGED <<channel, handling, inUse, readBuf, sendBuf>>
      BY <1>3 DEF ReadFails, Produce, sendVars
    <2>. QED  BY <2>1, NothingMoves
  <1>4. ASSUME NEW r \in Readers, Enqueue(r) PROVE Exclusive' /\ CountInv'
    BY <1>4, HandedOver
  <1>5. ASSUME NEW r \in Readers, ReaderDispose(r) PROVE Exclusive' /\ CountInv'
    BY <1>5, ReaderGives
  <1>6. ASSUME NEW r \in Readers, HandshakeAnswer(r) PROVE Exclusive' /\ CountInv'
    <2>1. UNCHANGED <<channel, handling, inUse, sendBuf>>
      BY <1>6 DEF HandshakeAnswer, Produce, sendVars
    <2>2. PICK n \in Payloads : readBuf' = [readBuf EXCEPT ![r].sent = n]
      BY <1>6, NextPayload DEF HandshakeAnswer, Produce
    <2>3. \A q \in Readers : readBuf'[q].container = readBuf[q].container
      BY <2>2, FieldSet DEF TypeOK
    <2>. QED  BY <2>1, <2>3, NothingMoves
  <1>7. ASSUME NEW r \in Readers, HandshakeFails(r) PROVE Exclusive' /\ CountInv'
    <2>1. UNCHANGED <<channel, handling, inUse, readBuf, sendBuf>>
      BY <1>7 DEF HandshakeFails, sendVars
    <2>. QED  BY <2>1, NothingMoves
  <1>8. ASSUME NEW r \in Readers, HandshakeMismatch(r) PROVE Exclusive' /\ CountInv'
    <2>1. UNCHANGED <<channel, handling, inUse, readBuf, sendBuf>>
      BY <1>8 DEF HandshakeMismatch, sendVars
    <2>. QED  BY <2>1, NothingMoves
  <1>9. ASSUME NEW t \in Threads, NEW c \in Containers, SendObtain(t, c) PROVE Exclusive' /\ CountInv'
    BY <1>9, SenderGets
  <1>10. ASSUME NEW t \in Threads, SetPayload(t) PROVE Exclusive' /\ CountInv'
    <2>1. UNCHANGED <<channel, handling, inUse, readBuf>>
      BY <1>10 DEF SetPayload, Produce, Answers, readerVars
    <2>2. PICK n \in Payloads : sendBuf' = [sendBuf EXCEPT ![t].sent = n]
      BY <1>10, NextPayload DEF SetPayload, Produce
    <2>3. \A u \in Threads : sendBuf'[u].container = sendBuf[u].container
      BY <2>2, FieldSet DEF TypeOK
    <2>. QED  BY <2>1, <2>3, NothingMoves
  <1>11. ASSUME NEW t \in Threads, SetPayloadFails(t) PROVE Exclusive' /\ CountInv'
    <2>1. UNCHANGED <<channel, handling, inUse, readBuf, sendBuf>>
      BY <1>11 DEF SetPayloadFails, Answers, readerVars
    <2>. QED  BY <2>1, NothingMoves
  <1>12. ASSUME NEW t \in Threads, SetDirectCommand(t) PROVE Exclusive' /\ CountInv'
    <2>1. UNCHANGED <<channel, handling, inUse, readBuf, sendBuf>>
      BY <1>12 DEF SetDirectCommand, Answers, readerVars
    <2>. QED  BY <2>1, NothingMoves
  <1>13. ASSUME NEW t \in Threads, SendWrite(t) PROVE Exclusive' /\ CountInv'
    <2>1. UNCHANGED <<channel, handling, inUse, readBuf, sendBuf>>
      BY <1>13 DEF SendWrite, WriteMessage, readerVars
    <2>. QED  BY <2>1, NothingMoves
  <1>14. ASSUME NEW t \in Threads, SendDispose(t) PROVE Exclusive' /\ CountInv'
    BY <1>14, SenderGives
  <1>15. CASE Take
    BY <1>15, TakenOver
  <1>16. CASE Forward
    <2>1. UNCHANGED <<channel, handling, inUse, readBuf, sendBuf>>
      BY <1>16 DEF Forward, WriteMessage, readerVars, sendVars
    <2>. QED  BY <2>1, NothingMoves
  <1>17. CASE HandledDispose
    BY <1>17, HandlerGives
  <1>18. CASE UNCHANGED vars
    BY <1>18, NothingMoves DEF vars
  <1>. QED
    BY <1>1, <1>2, <1>3, <1>4, <1>5, <1>6, <1>7, <1>8, <1>9, <1>10, <1>11,
       <1>12, <1>13, <1>14, <1>15, <1>16, <1>17, <1>18 DEF Next, Step


-----------------------------------------------------------------------------
(* What a buffer holds that is handed over or written *)

\* Writing one buffer leaves what is queued and handled alone, ...
LEMMA QueueKept ==
    ASSUME TypeOK, HoldInv, HandedOverIntact, NEW c \in Containers,
           UNCHANGED channel, UNCHANGED handling,
           \A d \in Containers : d # c => content'[d] = content[d],
           \A i \in DOMAIN channel : channel[i].container # c,
           handling # Idle => handling.container # c
    PROVE  HandedOverIntact'
  <1>1. \A i \in DOMAIN channel : content'[channel[i].container] = channel[i].sent
    BY Buffers DEF HandedOverIntact
  <1>2. handling # Idle => content'[handling.container] = handling.sent
    BY Buffers DEF HandedOverIntact
  <1>. QED  BY <1>1, <1>2 DEF HandedOverIntact

\* ... what the other readers hand over and what is about to be written.
LEMMA ReaderKept ==
    ASSUME TypeOK, HoldInv, Exclusive, ContentInv, NEW r \in Readers, NEW c \in Containers,
           c = readBuf[r].container, UNCHANGED <<channel, handling, sendPc, sendBuf>>,
           \A d \in Containers : d # c => content'[d] = content[d],
           \A q \in Readers : q # r => readBuf'[q] = readBuf[q] /\ readPc'[q] = readPc[q],
           readPc'[r] = "enqueue" => content'[readBuf'[r].container] = readBuf'[r].sent,
           PayloadAsMeant'
    PROVE  ContentInv'
  <1>1. c # NoContainer
    BY Domains
  <1>2. /\ \A q \in Readers : q # r => readBuf[q].container # c
        /\ \A t \in Threads : sendBuf[t].container # c
        /\ \A i \in DOMAIN channel : channel[i].container # c
        /\ handling # Idle => handling.container # c
    BY <1>1 DEF Exclusive
  <1>3. HandedOverIntact'
    BY <1>2, QueueKept DEF ContentInv
  <1>4. ASSUME NEW q \in Readers, readPc'[q] = "enqueue"
        PROVE  content'[readBuf'[q].container] = readBuf'[q].sent
    <2>1. CASE q # r
      <3>1. readBuf[q].container \in Containers /\ readPc[q] = "enqueue"
        BY <1>4, <2>1, Buffers
      <3>. QED  BY <1>2, <2>1, <3>1 DEF ContentInv
    <2>. QED  BY <1>4, <2>1
  <1>5. ASSUME NEW t \in Threads, sendPc'[t] = "payload"
        PROVE  content'[sendBuf'[t].container] = sendBuf'[t].sent
    <2>1. sendPc[t] = "payload" /\ sendBuf'[t] = sendBuf[t]
      BY <1>5
    <2>2. sendBuf[t].container \in Containers
      BY <2>1, Buffers
    <2>. QED  BY <1>2, <2>1, <2>2 DEF ContentInv
  <1>. QED  BY <1>3, <1>4, <1>5 DEF ContentInv

\* ... also when a Send call writes it.
LEMMA SenderKept ==
    ASSUME TypeOK, HoldInv, Exclusive, ContentInv, NEW t \in Threads, NEW c \in Containers,
           c = sendBuf[t].container, UNCHANGED <<channel, handling, readPc, readBuf, wire>>,
           \A d \in Containers : d # c => content'[d] = content[d],
           \A u \in Threads : u # t => sendBuf'[u] = sendBuf[u] /\ sendPc'[u] = sendPc[u],
           sendPc'[t] = "payload" => content'[sendBuf'[t].container] = sendBuf'[t].sent
    PROVE  ContentInv'
  <1>1. c # NoContainer
    BY Domains
  <1>2. /\ \A q \in Readers : readBuf[q].container # c
        /\ \A u \in Threads : u # t => sendBuf[u].container # c
        /\ \A i \in DOMAIN channel : channel[i].container # c
        /\ handling # Idle => handling.container # c
    BY <1>1 DEF Exclusive
  <1>3. HandedOverIntact'
    BY <1>2, QueueKept DEF ContentInv
  <1>4. ASSUME NEW q \in Readers, readPc'[q] = "enqueue"
        PROVE  content'[readBuf'[q].container] = readBuf'[q].sent
    <2>1. readPc[q] = "enqueue" /\ readBuf'[q] = readBuf[q]
      BY <1>4
    <2>2. readBuf[q].container \in Containers
      BY <2>1, Buffers
    <2>. QED  BY <1>2, <2>1, <2>2 DEF ContentInv
  <1>5. ASSUME NEW u \in Threads, sendPc'[u] = "payload"
        PROVE  content'[sendBuf'[u].container] = sendBuf'[u].sent
    <2>1. CASE u # t
      <3>1. sendBuf[u].container \in Containers /\ sendPc[u] = "payload"
        BY <1>5, <2>1, Buffers
      <3>. QED  BY <1>2, <2>1, <3>1 DEF ContentInv
    <2>. QED  BY <1>5, <2>1
  <1>6. PayloadAsMeant'
    BY DEF ContentInv, PayloadAsMeant
  <1>. QED  BY <1>3, <1>4, <1>5, <1>6 DEF ContentInv


\* A message keeps its payload, and what is written has the payload meant.
LEMMA ContentStep ==
    ASSUME TypeOK, HoldInv, Exclusive, ContentInv, [Next]_vars
    PROVE  ContentInv'
  <1>1. ASSUME NEW r \in Readers, NEW c \in Containers, ReaderObtain(r, c) PROVE ContentInv'
    <2>1. UNCHANGED <<content, channel, handling, wire>>
      BY <1>1 DEF ReaderObtain, Obtain, sendVars
    <2>2. /\ \A q \in Readers : readPc'[q] = "enqueue" => readPc[q] = "enqueue" /\ readBuf'[q] = readBuf[q]
          /\ \A u \in Threads : sendPc'[u] = "payload" => sendPc[u] = "payload" /\ sendBuf'[u] = sendBuf[u]
      BY <1>1, Domains DEF ReaderObtain, Obtain, sendVars
    <2>. QED  BY <2>1, <2>2 DEF ContentInv, HandedOverIntact, PayloadAsMeant
  <1>2. ASSUME NEW r \in Readers, Read(r) PROVE ContentInv'
    <2>1. PICK c \in Containers : c = readBuf[r].container
      BY <1>2, Buffers DEF Read
    <2>2. \A d \in Containers : d # c => content'[d] = content[d]
      BY <1>2, <2>1, Domains DEF Read, Produce
    <2>3. UNCHANGED channel /\ UNCHANGED handling /\ UNCHANGED sendPc /\ UNCHANGED sendBuf
      BY <1>2 DEF Read, sendVars
    <2>4. \A q \in Readers : q # r => readBuf'[q] = readBuf[q] /\ readPc'[q] = readPc[q]
      BY <1>2, Domains DEF Read
    <2>5. PICK n \in Payloads : /\ readBuf' = [readBuf EXCEPT ![r].sent = n]
                                /\ content'[c] = n
      BY <1>2, <2>1, NextPayload, PayloadsAssumption, Domains
         DEF Read, Produce, Payloads
    <2>6. content'[readBuf'[r].container] = readBuf'[r].sent
      BY <2>1, <2>5, FieldSet DEF TypeOK
    <2>7. PayloadAsMeant'
      BY <1>2 DEF Read, ContentInv, PayloadAsMeant
    <2>. QED  BY <2>1, <2>2, <2>3, <2>4, <2>6, <2>7, ReaderKept
  <1>3. ASSUME NEW r \in Readers, ReadFails(r) PROVE ContentInv'
    <2>1. PICK c \in Containers : c = readBuf[r].container
      BY <1>3, Buffers DEF ReadFails
    <2>2. \A d \in Containers : d # c => content'[d] = content[d]
      BY <1>3, <2>1, Domains DEF ReadFails, Produce
    <2>3. UNCHANGED channel /\ UNCHANGED handling /\ UNCHANGED sendPc /\ UNCHANGED sendBuf
      BY <1>3 DEF ReadFails, sendVars
    <2>4. \A q \in Readers : q # r => readBuf'[q] = readBuf[q] /\ readPc'[q] = readPc[q]
      BY <1>3, Domains DEF ReadFails
    <2>5. readPc'[r] # "enqueue"
      BY <1>3, Domains DEF ReadFails
    <2>6. PayloadAsMeant'
      BY <1>3 DEF ReadFails, ContentInv, PayloadAsMeant
    <2>. QED  BY <2>1, <2>2, <2>3, <2>4, <2>5, <2>6, ReaderKept
  <1>4. ASSUME NEW r \in Readers, Enqueue(r) PROVE ContentInv'
    <2>2. /\ \A q \in Readers : readPc'[q] = "enqueue" => readPc[q] = "enqueue" /\ readBuf'[q] = readBuf[q]
          /\ \A u \in Threads : sendPc'[u] = "payload" => sendPc[u] = "payload" /\ sendBuf'[u] = sendBuf[u]
      BY <1>4, Domains DEF Enqueue, sendVars
    <2>3. UNCHANGED content /\ UNCHANGED handling /\ UNCHANGED wire
      BY <1>4 DEF Enqueue
    <2>4. /\ readBuf[r] \in Carried /\ channel \in Seq(Carried)
          /\ channel' = Append(channel, readBuf[r])
          /\ content[readBuf[r].container] = readBuf[r].sent
      BY <1>4, Domains DEF Enqueue, ContentInv
    <2>5. \A i \in DOMAIN channel' :
             \/ i \in DOMAIN channel /\ channel'[i] = channel[i]
             \/ channel'[i] = readBuf[r]
      BY <2>4, QueuePush
    <2>6. \A i \in DOMAIN channel' : content[channel'[i].container] = channel'[i].sent
      BY <2>4, <2>5 DEF ContentInv, HandedOverIntact
    <2>. QED  BY <2>2, <2>3, <2>6 DEF ContentInv, HandedOverIntact, PayloadAsMeant
  <1>5. ASSUME NEW r \in Readers, ReaderDispose(r) PROVE ContentInv'
    <2>1. UNCHANGED <<content, channel, handling, wire>>
      BY <1>5 DEF ReaderDispose, Dispose, sendVars
    <2>2. /\ \A q \in Readers : readPc'[q] = "enqueue" => readPc[q] = "enqueue" /\ readBuf'[q] = readBuf[q]
          /\ \A u \in Threads : sendPc'[u] = "payload" => sendPc[u] = "payload" /\ sendBuf'[u] = sendBuf[u]
      BY <1>5, Domains DEF ReaderDispose, Dispose, sendVars
    <2>. QED  BY <2>1, <2>2 DEF ContentInv, HandedOverIntact, PayloadAsMeant
  <1>6. ASSUME NEW r \in Readers, HandshakeAnswer(r) PROVE ContentInv'
    <2>1. PICK c \in Containers : c = readBuf[r].container
      BY <1>6, Buffers DEF HandshakeAnswer
    <2>2. \A d \in Containers : d # c => content'[d] = content[d]
      BY <1>6, <2>1, Domains DEF HandshakeAnswer, Produce
    <2>3. UNCHANGED channel /\ UNCHANGED handling /\ UNCHANGED sendPc /\ UNCHANGED sendBuf
      BY <1>6 DEF HandshakeAnswer, sendVars
    <2>4. \A q \in Readers : q # r => readBuf'[q] = readBuf[q] /\ readPc'[q] = readPc[q]
      BY <1>6, Domains DEF HandshakeAnswer
    <2>5. readPc'[r] # "enqueue"
      BY <1>6, Domains DEF HandshakeAnswer
    <2>6. PayloadAsMeant'
      BY <1>6 DEF HandshakeAnswer, PayloadAsMeant
    <2>. QED  BY <2>1, <2>2, <2>3, <2>4, <2>5, <2>6, ReaderKept
  <1>7. ASSUME NEW r \in Readers, HandshakeFails(r) PROVE ContentInv'
    <2>1. UNCHANGED <<content, channel, handling, wire>>
      BY <1>7 DEF HandshakeFails, sendVars
    <2>2. /\ \A q \in Readers : readPc'[q] = "enqueue" => readPc[q] = "enqueue" /\ readBuf'[q] = readBuf[q]
          /\ \A u \in Threads : sendPc'[u] = "payload" => sendPc[u] = "payload" /\ sendBuf'[u] = sendBuf[u]
      BY <1>7, Domains DEF HandshakeFails, sendVars
    <2>. QED  BY <2>1, <2>2 DEF ContentInv, HandedOverIntact, PayloadAsMeant
  <1>8. ASSUME NEW r \in Readers, HandshakeMismatch(r) PROVE ContentInv'
    <2>1. UNCHANGED <<content, channel, handling, wire>>
      BY <1>8 DEF HandshakeMismatch, sendVars
    <2>2. /\ \A q \in Readers : readPc'[q] = "enqueue" => readPc[q] = "enqueue" /\ readBuf'[q] = readBuf[q]
          /\ \A u \in Threads : sendPc'[u] = "payload" => sendPc[u] = "payload" /\ sendBuf'[u] = sendBuf[u]
      BY <1>8, Domains DEF HandshakeMismatch, sendVars
    <2>. QED  BY <2>1, <2>2 DEF ContentInv, HandedOverIntact, PayloadAsMeant
  <1>9. ASSUME NEW t \in Threads, NEW c \in Containers, SendObtain(t, c) PROVE ContentInv'
    <2>1. UNCHANGED <<content, channel, handling, wire>>
      BY <1>9 DEF SendObtain, Obtain, MaySend, readerVars
    <2>2. /\ \A q \in Readers : readPc'[q] = "enqueue" => readPc[q] = "enqueue" /\ readBuf'[q] = readBuf[q]
          /\ \A u \in Threads : sendPc'[u] = "payload" => sendPc[u] = "payload" /\ sendBuf'[u] = sendBuf[u]
      BY <1>9, Domains DEF SendObtain, Obtain, MaySend, readerVars
    <2>. QED  BY <2>1, <2>2 DEF ContentInv, HandedOverIntact, PayloadAsMeant
  <1>10. ASSUME NEW t \in Threads, SetPayload(t) PROVE ContentInv'
    <2>1. PICK c \in Containers : c = sendBuf[t].container
      BY <1>10, Buffers DEF SetPayload
    <2>2. /\ \A d \in Containers : d # c => content'[d] = content[d]
          /\ content'[c] = produced + 1 /\ produced + 1 \in Payloads
      BY <1>10, <2>1, NextPayload, Domains DEF SetPayload, Produce
    <2>3. UNCHANGED <<channel, handling, readPc, readBuf, wire>>
      BY <1>10 DEF SetPayload, readerVars
    <2>4. \A u \in Threads : u # t => sendBuf'[u] = sendBuf[u] /\ sendPc'[u] = sendPc[u]
      BY <1>10, Domains DEF SetPayload
    <2>5. sendBuf' = [sendBuf EXCEPT ![t].sent = produced + 1]
      BY <1>10 DEF SetPayload
    <2>6. content'[sendBuf'[t].container] = sendBuf'[t].sent
      BY <2>1, <2>2, <2>5, FieldSet DEF TypeOK
    <2>. QED  BY <2>1, <2>2, <2>3, <2>4, <2>6, SenderKept
  <1>11. ASSUME NEW t \in Threads, SetPayloadFails(t) PROVE ContentInv'
    <2>1. UNCHANGED <<content, channel, handling, wire>>
      BY <1>11 DEF SetPayloadFails, Answers, readerVars
    <2>2. /\ \A q \in Readers : readPc'[q] = "enqueue" => readPc[q] = "enqueue" /\ readBuf'[q] = readBuf[q]
          /\ \A u \in Threads : sendPc'[u] = "payload" => sendPc[u] = "payload" /\ sendBuf'[u] = sendBuf[u]
      BY <1>11, Domains DEF SetPayloadFails, Answers, readerVars
    <2>. QED  BY <2>1, <2>2 DEF ContentInv, HandedOverIntact, PayloadAsMeant
  <1>12. ASSUME NEW t \in Threads, SetDirectCommand(t) PROVE ContentInv'
    <2>1. UNCHANGED <<content, channel, handling, wire>>
      BY <1>12 DEF SetDirectCommand, Answers, readerVars
    <2>2. /\ \A q \in Readers : readPc'[q] = "enqueue" => readPc[q] = "enqueue" /\ readBuf'[q] = readBuf[q]
          /\ \A u \in Threads : sendPc'[u] = "payload" => sendPc[u] = "payload" /\ sendBuf'[u] = sendBuf[u]
      BY <1>12, Domains DEF SetDirectCommand, Answers, readerVars
    <2>. QED  BY <2>1, <2>2 DEF ContentInv, HandedOverIntact, PayloadAsMeant
  <1>13. ASSUME NEW t \in Threads, SendWrite(t) PROVE ContentInv'
    <2>2. /\ \A q \in Readers : readPc'[q] = "enqueue" => readPc[q] = "enqueue" /\ readBuf'[q] = readBuf[q]
          /\ \A u \in Threads : sendPc'[u] = "payload" => sendPc[u] = "payload" /\ sendBuf'[u] = sendBuf[u]
      BY <1>13, Domains DEF SendWrite, readerVars
    <2>3. UNCHANGED <<content, channel, handling>>
      BY <1>13 DEF SendWrite
    <2>4. PayloadAsMeant'
      BY <1>13 DEF SendWrite, WriteMessage, ContentInv, PayloadAsMeant
    <2>. QED  BY <2>2, <2>3, <2>4 DEF ContentInv, HandedOverIntact
  <1>14. ASSUME NEW t \in Threads, SendDispose(t) PROVE ContentInv'
    <2>1. UNCHANGED <<content, channel, handling, wire>>
      BY <1>14 DEF SendDispose, Dispose
    <2>2. /\ \A q \in Readers : readPc'[q] = "enqueue" => readPc[q] = "enqueue" /\ readBuf'[q] = readBuf[q]
          /\ \A u \in Threads : sendPc'[u] = "payload" => sendPc[u] = "payload" /\ sendBuf'[u] = sendBuf[u]
      BY <1>14, Domains DEF SendDispose, Dispose
    <2>. QED  BY <2>1, <2>2 DEF ContentInv, HandedOverIntact, PayloadAsMeant
  <1>15. CASE Take
    <2>2. /\ \A q \in Readers : readPc'[q] = "enqueue" => readPc[q] = "enqueue" /\ readBuf'[q] = readBuf[q]
          /\ \A u \in Threads : sendPc'[u] = "payload" => sendPc[u] = "payload" /\ sendBuf'[u] = sendBuf[u]
      BY <1>15, Domains DEF Take, readerVars, sendVars
    <2>3. UNCHANGED content /\ UNCHANGED wire
      BY <1>15 DEF Take
    <2>4. /\ channel \in Seq(Carried) /\ channel # <<>>
          /\ channel' = Tail(channel) /\ handling' = Head(channel)
      BY <1>15, Domains DEF Take
    <2>5. /\ 1 \in DOMAIN channel /\ channel[1] = handling'
          /\ \A i \in DOMAIN channel' : i + 1 \in DOMAIN channel /\ channel'[i] = channel[i + 1]
      BY <2>4, QueuePop
    <2>6. \A i \in DOMAIN channel : content[channel[i].container] = channel[i].sent
      BY DEF ContentInv, HandedOverIntact
    <2>7. /\ \A i \in DOMAIN channel' : content[channel'[i].container] = channel'[i].sent
          /\ content[handling'.container] = handling'.sent
      BY <2>5, <2>6
    <2>. QED  BY <2>2, <2>3, <2>7 DEF ContentInv, HandedOverIntact, PayloadAsMeant
  <1>16. CASE Forward
    <2>2. /\ \A q \in Readers : readPc'[q] = "enqueue" => readPc[q] = "enqueue" /\ readBuf'[q] = readBuf[q]
          /\ \A u \in Threads : sendPc'[u] = "payload" => sendPc[u] = "payload" /\ sendBuf'[u] = sendBuf[u]
      BY <1>16, Domains DEF Forward, readerVars, sendVars
    <2>3. UNCHANGED <<content, channel, handling>>
      BY <1>16 DEF Forward
    <2>4. PayloadAsMeant'
      BY <1>16
         DEF Forward, WriteMessage, ContentInv, HandedOverIntact,
             PayloadAsMeant
    <2>. QED  BY <2>2, <2>3, <2>4 DEF ContentInv, HandedOverIntact
  <1>17. CASE HandledDispose
    <2>2. /\ \A q \in Readers : readPc'[q] = "enqueue" => readPc[q] = "enqueue" /\ readBuf'[q] = readBuf[q]
          /\ \A u \in Threads : sendPc'[u] = "payload" => sendPc[u] = "payload" /\ sendBuf'[u] = sendBuf[u]
      BY <1>17, Domains DEF HandledDispose, readerVars, sendVars
    <2>3. UNCHANGED <<content, channel, wire>> /\ handling' = Idle
      BY <1>17 DEF HandledDispose
    <2>. QED  BY <2>2, <2>3 DEF ContentInv, HandedOverIntact, PayloadAsMeant
  <1>18. CASE UNCHANGED vars
    BY <1>18 DEF vars, ContentInv, HandedOverIntact, PayloadAsMeant
  <1>. QED
    BY <1>1, <1>2, <1>3, <1>4, <1>5, <1>6, <1>7, <1>8, <1>9, <1>10, <1>11,
       <1>12, <1>13, <1>14, <1>15, <1>16, <1>17, <1>18 DEF Next, Step

-----------------------------------------------------------------------------
(* The theorems *)

\* A transporter that nobody is connected to satisfies the invariant,
LEMMA BufferInvInit ==
    ASSUME Init
    PROVE  BufferInv
  <1>. USE DEF Init, PoolInit
  <1>1. 0 \in Payloads /\ Idle \in Carried /\ Idle.container = NoContainer /\ <<>> \in Seq(Carried)
    BY PayloadsAssumption, EmptySeq DEF Payloads, Idle, Carried
  <1>2. ContentType
    BY <1>1 DEF ContentType
  <1>3. PcType /\ BufType
    BY <1>1 DEF PcType, BufType
  <1>4. TypeOK
    BY <1>2, <1>3, Types
  <1>5. ContentInv
    BY DEF ContentInv, HandedOverIntact, PayloadAsMeant
  <1>6. /\ \A r \in Readers : readBuf[r] = Idle /\ readPc[r] = "idle" /\ r \in Threads
        /\ \A t \in Threads : sendBuf[t] = Idle /\ sendPc[t] = "idle"
        /\ DOMAIN channel = {} /\ handling = Idle /\ \A c \in Containers : inUse[c] = 0
    BY DEF Threads
  <1>. HIDE DEF Init, PoolInit
  <1>7. HoldInv /\ Exclusive
    BY <1>1, <1>6 DEF HoldInv, Exclusive
  <1>8. \A c \in Containers : ~Held(c)
    BY <1>1, <1>6, PayloadsAssumption DEF Held
  <1>9. CountInv
    BY <1>6, <1>8 DEF CountInv
  <1>. QED  BY <1>4, <1>5, <1>7, <1>9 DEF BufferInv

\* ... and every step keeps it.
LEMMA BufferInvStep ==
    ASSUME BufferInv, [Next]_vars
    PROVE  BufferInv'
  <1>1. TypeOK /\ HoldInv /\ Exclusive /\ CountInv /\ ContentInv
    BY DEF BufferInv
  <1>. QED  BY <1>1, TypeStep, HoldStep, PlaceStep, ContentStep DEF BufferInv

\* Each buffer is in one place, counted there, and holds what it should.
THEOREM BufferInvariant == Spec => []BufferInv
  <1>1. Init => BufferInv
    BY BufferInvInit
  <1>2. BufferInv /\ [Next]_vars => BufferInv'
    BY BufferInvStep
  <1>. QED  BY <1>1, <1>2, PTL DEF Spec

\* Every variable keeps its type.
THEOREM TypeCorrect == Spec => []TypeOK
  <1>1. BufferInv => TypeOK
    BY DEF BufferInv
  <1>. QED  BY <1>1, BufferInvariant, PTL

\* A buffer that is somewhere is in one place, so Uses counts what Held says.
LEMMA UsesCount ==
    ASSUME TypeOK, HoldInv, Exclusive, NEW c \in Containers
    PROVE  Cardinality(Uses(c)) = IF Held(c) THEN 1 ELSE 0
  <1>1. c # NoContainer
    BY Domains
  <1>2. CASE ~Held(c)
    <2>1. Uses(c) = {}
      BY <1>2 DEF Uses, Held
    <2>. QED  BY <1>2, <2>1, FS_EmptySet
  <1>3. ASSUME NEW p, Uses(c) = {p}, Held(c)
        PROVE  Cardinality(Uses(c)) = IF Held(c) THEN 1 ELSE 0
    BY <1>3, FS_Singleton
  <1>4. CASE \E r \in Readers : readBuf[r].container = c
    <2>1. PICK r \in Readers : readBuf[r].container = c
      BY <1>4
    <2>2. /\ {x \in Readers : readBuf[x].container = c} = {r}
          /\ {x \in Threads : sendBuf[x].container = c} = {}
          /\ {x \in DOMAIN channel : channel[x].container = c} = {}
          /\ {handling.container} \cap {c} = {}
      BY <1>1, <2>1 DEF Exclusive, Idle
    <2>3. Uses(c) = {<<"reader", r>>}
      BY <2>2 DEF Uses
    <2>. QED  BY <1>3, <1>4, <2>3 DEF Held
  <1>5. CASE \E t \in Threads : sendBuf[t].container = c
    <2>1. PICK t \in Threads : sendBuf[t].container = c
      BY <1>5
    <2>2. /\ {x \in Readers : readBuf[x].container = c} = {}
          /\ {x \in Threads : sendBuf[x].container = c} = {t}
          /\ {x \in DOMAIN channel : channel[x].container = c} = {}
          /\ {handling.container} \cap {c} = {}
      BY <1>1, <2>1 DEF Exclusive, Idle
    <2>3. Uses(c) = {<<"send", t>>}
      BY <2>2 DEF Uses
    <2>. QED  BY <1>3, <1>5, <2>3 DEF Held
  <1>6. CASE \E i \in DOMAIN channel : channel[i].container = c
    <2>1. PICK i \in DOMAIN channel : channel[i].container = c
      BY <1>6
    <2>2. /\ {x \in Readers : readBuf[x].container = c} = {}
          /\ {x \in Threads : sendBuf[x].container = c} = {}
          /\ {x \in DOMAIN channel : channel[x].container = c} = {i}
          /\ {handling.container} \cap {c} = {}
      BY <1>1, <2>1 DEF Exclusive, Idle
    <2>3. Uses(c) = {<<"channel", i>>}
      BY <2>2 DEF Uses
    <2>. QED  BY <1>3, <1>6, <2>3 DEF Held
  <1>7. CASE handling.container = c
    <2>1. handling # Idle
      BY <1>1, <1>7 DEF Idle
    <2>2. /\ {x \in Readers : readBuf[x].container = c} = {}
          /\ {x \in Threads : sendBuf[x].container = c} = {}
          /\ {x \in DOMAIN channel : channel[x].container = c} = {}
          /\ {handling.container} \cap {c} = {c}
      BY <1>1, <1>7, <2>1 DEF Exclusive
    <2>3. Uses(c) = {<<"handling", c>>}
      BY <2>2 DEF Uses
    <2>. QED  BY <1>3, <1>7, <2>3 DEF Held
  <1>. QED  BY <1>2, <1>4, <1>5, <1>6, <1>7 DEF Held

\* Whatever way a read, a handshake, a handler or a Send call ends, its buffer
\* is disposed of once: no buffer leaks and none is given back twice.
THEOREM NoBufferLeaks == Spec => []BuffersAccountedFor
  <1>1. ASSUME BufferInv, NEW c \in Containers
        PROVE  inUse[c] = Cardinality(Uses(c))
    BY <1>1, UsesCount DEF BufferInv, CountInv
  <1>2. BufferInv => BuffersAccountedFor
    BY <1>1 DEF BuffersAccountedFor
  <1>. QED  BY <1>2, BufferInvariant, PTL

\* A message that is queued or handled has the payload it was read with.
THEOREM MessagesStayIntact == Spec => []HandedOverIntact
  <1>1. BufferInv => HandedOverIntact
    BY DEF BufferInv, ContentInv
  <1>. QED  BY <1>1, BufferInvariant, PTL

\* A forwarded message or an answer is written with the payload meant for it.
THEOREM PayloadIsTheOneMeant == Spec => []PayloadAsMeant
  <1>1. BufferInv => PayloadAsMeant
    BY DEF BufferInv, ContentInv
  <1>. QED  BY <1>1, BufferInvariant, PTL
===============================================================================
