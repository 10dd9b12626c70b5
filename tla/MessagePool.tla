------------------------------ MODULE MessagePool ------------------------------
(***************************************************************************)
(* The life of the transporter's pooled message buffers: every connection  *)
(* reads into one, answers the handshake in it or hands it to the room     *)
(* manager, which forwards it or writes its own message from another one.  *)
(* The pool is that of Pool: a buffer keeps what its last user left in it. *)
(*                                                                         *)
(* A buffer's content is the payload its length field claims: every        *)
(* payload produced has its own number, 0 is no payload, and Oversize is a *)
(* length beyond the buffer.  The command field is always written before   *)
(* it matters and is left out.                                             *)
(***************************************************************************)
EXTENDS Pool, Sequences, FiniteSets

CONSTANTS Readers,      \* the connections, each with its reader goroutine
          RoomManager,  \* the room manager goroutine
          MaxPayloads,  \* bound: payloads produced in all
          NoContainer,  \* no container
          Oversize      \* the content after a refused oversize header

Threads == Readers \cup {RoomManager}

ASSUME PayloadsAssumption ==
    /\ MaxPayloads \in Nat
    /\ RoomManager \notin Readers
    /\ NoContainer \notin Containers
    /\ Oversize \notin Nat

Payloads == 0..MaxPayloads

VARIABLES
    content,   \* the payload each container's message holds
    connected, \* the connections whose handshake is done
    readPc,    \* where every reader is
    readBuf,   \* the container it reads into
    channel,   \* ClientMessageChannel: container, and the payload it came with
    handling,  \* the same of the message the room manager handles
    sendPc,    \* where every thread is in a Send... call
    sendBuf,   \* the container of that call
    wire,      \* the last message written: its payload, and the one meant
    produced   \* payloads produced so far

vars == <<inUse, content, connected, readPc, readBuf, channel, handling, sendPc,
          sendBuf, wire, produced>>

Carried == [container : Containers \cup {NoContainer}, sent : Payloads]
Idle == [container |-> NoContainer, sent |-> 0]

TypeOK ==
    /\ PoolTypeOK
    /\ content \in [Containers -> Payloads \cup {Oversize}]
    /\ connected \in SUBSET Readers
    /\ readPc \in [Readers -> {"idle", "reading", "handshake", "mismatch",
                               "enqueue", "dispose", "ended"}]
    /\ readBuf \in [Readers -> Carried]
    /\ channel \in Seq(Carried)
    /\ handling \in Carried
    /\ sendPc \in [Threads -> {"idle", "obtained", "payload", "bare", "dispose"}]
    /\ sendBuf \in [Threads -> Carried]
    /\ wire \in [kind : {"nothing", "payload", "bare"},
                 payload : Payloads \cup {Oversize}, meant : Payloads]
    /\ produced \in Payloads

Init ==
    /\ PoolInit
    /\ content = [c \in Containers |-> 0]
    /\ connected = {}
    /\ readPc = [r \in Readers |-> "idle"]
    /\ readBuf = [r \in Readers |-> Idle]
    /\ channel = <<>>
    /\ handling = Idle
    /\ sendPc = [t \in Threads |-> "idle"]
    /\ sendBuf = [t \in Threads |-> Idle]
    /\ wire = [kind |-> "nothing", payload |-> 0, meant |-> 0]
    /\ produced = 0

\* A new payload is put into container c by its user, who means it.
Produce(c) ==
    /\ produced < MaxPayloads
    /\ produced' = produced + 1
    /\ content' = [content EXCEPT ![c] = produced + 1]

\* message.Write of container b to some connection; it may fail.  An oversize
\* length makes it panic after the header.
WriteMessage(kind, b) ==
    \/ wire' = [kind |-> kind, payload |-> content[b.container], meant |-> b.sent]
    \/ UNCHANGED wire

-----------------------------------------------------------------------------
(* The readers: performHandshake and readNextMessage *)

readerVars == <<connected, readPc, readBuf>>
sendVars == <<sendPc, sendBuf>>

ReaderObtain(r, c) ==
    /\ readPc[r] = "idle"
    /\ Obtain(c)
    /\ readPc' = [readPc EXCEPT ![r] = "reading"]
    /\ readBuf' = [readBuf EXCEPT ![r].container = c]
    /\ UNCHANGED <<content, connected, channel, handling, sendVars, wire, produced>>

\* TransporterMessage.Read succeeds, with a payload or with none.
Read(r) ==
    /\ readPc[r] = "reading"
    /\ LET c == readBuf[r].container IN
          \/ /\ Produce(c)
             /\ readBuf' = [readBuf EXCEPT ![r].sent = produced + 1]
          \/ /\ content' = [content EXCEPT ![c] = 0]
             /\ readBuf' = [readBuf EXCEPT ![r].sent = 0]
             /\ UNCHANGED produced
    /\ readPc' = [readPc EXCEPT ![r] = IF r \in connected THEN "enqueue" ELSE "handshake"]
    /\ UNCHANGED <<inUse, connected, channel, handling, sendVars, wire>>

\* MUTANT: a failed read returns without Dispose.
ReadFailsLeaks(r) ==
    /\ readPc[r] = "reading"
    /\ connected' = connected \ {r}
    /\ readBuf' = [readBuf EXCEPT ![r] = Idle]
    /\ readPc' = [readPc EXCEPT ![r] = "ended"]
    /\ UNCHANGED <<inUse, content, channel, handling, sendVars, wire, produced>>

\* TransporterMessage.Read fails: before, or after it took the header over.
ReadFails(r) ==
    /\ readPc[r] = "reading"
    /\ LET c == readBuf[r].container IN
          \/ UNCHANGED <<content, produced>>
          \/ Produce(c)
          \/ content' = [content EXCEPT ![c] = Oversize] /\ UNCHANGED produced
    /\ connected' = connected \ {r}
    /\ readPc' = [readPc EXCEPT ![r] = "dispose"]
    /\ UNCHANGED <<inUse, readBuf, channel, handling, sendVars, wire>>

\* handleConnectHandshake answers in the container it has read.
HandshakeAnswer(r) ==
    /\ readPc[r] = "handshake"
    /\ Produce(readBuf[r].container)
    /\ readBuf' = [readBuf EXCEPT ![r].sent = produced + 1]
    /\ wire' = [kind |-> "payload", payload |-> produced + 1, meant |-> produced + 1]
    /\ connected' = connected \cup {r}
    /\ readPc' = [readPc EXCEPT ![r] = "dispose"]
    /\ UNCHANGED <<inUse, channel, handling, sendVars>>

\* Every other end of the handshake, the failed answer included.
HandshakeFails(r) ==
    /\ readPc[r] = "handshake"
    /\ readPc' = [readPc EXCEPT ![r] = "dispose"]
    /\ UNCHANGED <<inUse, content, connected, readBuf, channel, handling,
                   sendVars, wire, produced>>

\* handleProtocolMismatchError: the error goes out from a second container
\* (SendObtain and so on, below) before the first one is disposed of.
HandshakeMismatch(r) ==
    /\ readPc[r] = "handshake"
    /\ readPc' = [readPc EXCEPT ![r] = "mismatch"]
    /\ UNCHANGED <<inUse, content, connected, readBuf, channel, handling,
                   sendVars, wire, produced>>

\* MUTANT: the reader disposes of what it hands over.
EnqueueDisposes(r) ==
    /\ readPc[r] = "enqueue"
    /\ Dispose(readBuf[r].container)
    /\ channel' = Append(channel, readBuf[r])
    /\ readBuf' = [readBuf EXCEPT ![r] = Idle]
    /\ readPc' = [readPc EXCEPT ![r] = "idle"]
    /\ UNCHANGED <<content, connected, handling, sendVars, wire, produced>>

\* The container changes hands.
Enqueue(r) ==
    /\ readPc[r] = "enqueue"
    /\ channel' = Append(channel, readBuf[r])
    /\ readBuf' = [readBuf EXCEPT ![r] = Idle]
    /\ readPc' = [readPc EXCEPT ![r] = "idle"]
    /\ UNCHANGED <<inUse, content, connected, handling, sendVars, wire, produced>>

ReaderDispose(r) ==
    /\ readPc[r] = "dispose"
    /\ Dispose(readBuf[r].container)
    /\ readBuf' = [readBuf EXCEPT ![r] = Idle]
    /\ readPc' = [readPc EXCEPT ![r] = IF r \in connected THEN "idle" ELSE "ended"]
    /\ UNCHANGED <<content, connected, channel, handling, sendVars, wire, produced>>

-----------------------------------------------------------------------------
(* The Send... methods of ClientConnection *)

\* Who may call one: the room manager at any time, also while it handles a
\* message, and a reader for the mismatch error.
MaySend(t) == t = RoomManager \/ (t \in Readers /\ readPc[t] = "mismatch")

SendObtain(t, c) ==
    /\ MaySend(t)
    /\ sendPc[t] = "idle"
    /\ Obtain(c)
    /\ sendPc' = [sendPc EXCEPT ![t] = "obtained"]
    /\ sendBuf' = [sendBuf EXCEPT ![t].container = c]
    /\ UNCHANGED <<content, readerVars, channel, handling, wire, produced>>

\* The room manager sends GuestLeft outside, everything else inside the
\* handling of a message.
Answers(t) == t = RoomManager => handling # Idle

\* MUTANT: updatePayloadMetadata is forgotten.
SetPayloadOnly(t) ==
    /\ sendPc[t] = "obtained"
    /\ Answers(t)
    /\ produced < MaxPayloads
    /\ produced' = produced + 1
    /\ sendBuf' = [sendBuf EXCEPT ![t].sent = produced + 1]
    /\ sendPc' = [sendPc EXCEPT ![t] = "payload"]
    /\ UNCHANGED <<inUse, content, readerVars, channel, handling, wire>>

\* SetResponseCommand and one of the SetPayload... methods.
SetPayload(t) ==
    /\ sendPc[t] = "obtained"
    /\ Answers(t)
    /\ Produce(sendBuf[t].container)
    /\ sendBuf' = [sendBuf EXCEPT ![t].sent = produced + 1]
    /\ sendPc' = [sendPc EXCEPT ![t] = "payload"]
    /\ UNCHANGED <<inUse, readerVars, channel, handling, wire>>

\* A payload that does not fit: the call returns without writing.
SetPayloadFails(t) ==
    /\ sendPc[t] = "obtained"
    /\ Answers(t)
    /\ sendPc' = [sendPc EXCEPT ![t] = "dispose"]
    /\ UNCHANGED <<inUse, content, readerVars, channel, handling, sendBuf, wire,
                   produced>>

\* SendGuestLeft: SetDirectCommand and nothing else.
SetDirectCommand(t) ==
    /\ ~Answers(t)
    /\ sendPc[t] = "obtained"
    /\ sendPc' = [sendPc EXCEPT ![t] = "bare"]
    /\ UNCHANGED <<inUse, content, readerVars, channel, handling, sendBuf, wire,
                   produced>>

SendWrite(t) ==
    /\ sendPc[t] \in {"payload", "bare"}
    /\ WriteMessage(sendPc[t], sendBuf[t])
    /\ sendPc' = [sendPc EXCEPT ![t] = "dispose"]
    /\ UNCHANGED <<inUse, content, readerVars, channel, handling, sendBuf, produced>>

\* The deferred Dispose; after the mismatch error the reader disposes of the
\* container it has read into.
SendDispose(t) ==
    /\ sendPc[t] = "dispose"
    /\ Dispose(sendBuf[t].container)
    /\ sendPc' = [sendPc EXCEPT ![t] = "idle"]
    /\ sendBuf' = [sendBuf EXCEPT ![t] = Idle]
    /\ readPc' = IF t \in Readers THEN [readPc EXCEPT ![t] = "dispose"] ELSE readPc
    /\ UNCHANGED <<content, connected, readBuf, channel, handling, wire, produced>>

-----------------------------------------------------------------------------
(* The room manager: dispatchMessage *)

Take ==
    /\ handling = Idle
    /\ sendPc[RoomManager] = "idle"
    /\ channel # <<>>
    /\ handling' = Head(channel)
    /\ channel' = Tail(channel)
    /\ UNCHANGED <<inUse, content, readerVars, sendVars, wire, produced>>

\* handleAdbTransport writes the container it received to the other side.  A
\* handler may combine forwards and Send calls at will here.
Forward ==
    /\ handling # Idle
    /\ sendPc[RoomManager] = "idle"
    /\ WriteMessage("payload", handling)
    /\ UNCHANGED <<inUse, content, readerVars, channel, handling, sendVars, produced>>

\* dispatchMessage's deferred Dispose, whatever the handler did.
HandledDispose ==
    /\ handling # Idle
    /\ sendPc[RoomManager] = "idle"
    /\ Dispose(handling.container)
    /\ handling' = Idle
    /\ UNCHANGED <<content, readerVars, channel, sendVars, wire, produced>>

\* The room manager's disconnect handling has no recover: a Write that panics
\* there ends the process.
Running == wire.payload # Oversize

Step ==
    \/ \E r \in Readers :
          \/ \E c \in Containers : ReaderObtain(r, c)
          \/ Read(r) \/ ReadFails(r) \/ Enqueue(r) \/ ReaderDispose(r)
          \/ HandshakeAnswer(r) \/ HandshakeFails(r) \/ HandshakeMismatch(r)
    \/ \E t \in Threads :
          \/ \E c \in Containers : SendObtain(t, c)
          \/ SetPayload(t) \/ SetPayloadFails(t) \/ SetDirectCommand(t)
          \/ SendWrite(t) \/ SendDispose(t)
    \/ Take \/ Forward \/ HandledDispose

Next == Running /\ Step

Spec == Init /\ [][Next]_vars

-----------------------------------------------------------------------------
(* Properties *)

\* Everything that refers to container c.
Uses(c) ==
    {<<"reader", r>> : r \in {x \in Readers : readBuf[x].container = c}}
      \cup {<<"send", t>> : t \in {x \in Threads : sendBuf[x].container = c}}
      \cup {<<"channel", i>> : i \in {x \in DOMAIN channel : channel[x].container = c}}
      \cup {<<"handling", x>> : x \in {handling.container} \cap {c}}

\* Every buffer that is out of the pool belongs to exactly one reader, queued
\* message, handler or Send call, and none is forgotten: each path through
\* them, the failing ones included, disposes of it once.
BuffersAccountedFor == \A c \in Containers : inUse[c] = Cardinality(Uses(c))

\* A message keeps its payload from the read to the end of its handling while
\* other goroutines obtain, fill and give back buffers.
HandedOverIntact ==
    /\ \A i \in DOMAIN channel : content[channel[i].container] = channel[i].sent
    /\ handling # Idle => content[handling.container] = handling.sent

\* A forwarded message, and every answer with a payload, goes out with the
\* payload meant for it.
PayloadAsMeant == wire.kind = "payload" => wire.payload = wire.meant

\* CommandGuestLeft has "no payload".
NoPayloadWhenNoneMeant == wire.kind = "bare" => wire.payload = 0
===============================================================================
