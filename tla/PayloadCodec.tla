----------------------------- MODULE PayloadCodec -----------------------------
(***************************************************************************)
(* shared/protocol/payload.definition.go and message.definition.go with    *)
(* client/adb/adbMessage.go: typed payloads and embedded ADB messages in a *)
(* pooled TransporterMessage, whose buffer keeps what earlier uses left.   *)
(*                                                                         *)
(* A cell of the buffer stands for a byte of a string as well as for the   *)
(* four bytes of an integer, so a length field is one cell; offsets and    *)
(* lengths are unsigned words of Modulus values and wrap as uint32 does.   *)
(* The CRC32 of a payload is the payload itself.  An ADB header has one    *)
(* cell for command, arguments and magic, and one for the data length.     *)
(***************************************************************************)
EXTENDS Naturals, Sequences, SequencesExt

CONSTANTS Modulus,           \* 2^32
          MaxPayloadSize,    \* cells of payloadBuffer
          MaxPayloadLength,  \* cells of data of an ADB message
          Words,             \* the values a cell may have
          Bytes,             \* ... and a byte of a string that is sent
          MaxString,         \* bound: length of the strings that are sent
          MaxUses            \* bound: uses of the message, one after the other

HeaderSize == 2  \* cells of an ADB header
ValidCommand == 1  \* the header cell that validateCommand and validateMagic pass

\* A string in memory is far shorter than 2^32 bytes, and an ADB message fits
\* into a payload: 0x0018 + 0x8000 <= 0xF000.
ASSUME WordAssumption ==
    /\ {Modulus, MaxPayloadSize, MaxPayloadLength, MaxString, MaxUses} \subseteq Nat
    /\ Words \subseteq 0..(Modulus - 1)
    /\ Bytes \subseteq Words
    /\ 0..MaxString \subseteq Words
    /\ 0..MaxPayloadLength \subseteq Words
    /\ ValidCommand \in Words
    /\ MaxPayloadSize + 1 + MaxString < Modulus
ASSUME EmbeddingAssumption == HeaderSize + MaxPayloadLength <= MaxPayloadSize

Add(a, b) == (a + b) % Modulus

Cells == [1..MaxPayloadSize -> Words]
Strings == SeqOf(Bytes, MaxString)
Ints == {<<1>>, <<Modulus + 1>>}  \* as sequences of one; a Go int has 64 bits

VARIABLES
    payloadBuffer,  \* the payload cells of the message, its stale ones included
    payloadLength,  \* the length field of its header
    payloadCrc32,   \* the checksum field of its header
    last,           \* what was last done with it
    uses            \* how often it has been used

vars == <<payloadBuffer, payloadLength, payloadCrc32, last, uses>>

-----------------------------------------------------------------------------
(* The payloads: the fields that each pair of Set and Get uses, in order *)

ErrorFields             == <<"int", "string">>
ConnectFields           == <<"int">>
ConnectResponseFields   == <<"string">>
CreateRoomFields        == <<"string">>
ConnectRoomFields       == <<"string", "string", "string">>
ConnectRoomResultFields == <<"int", "string", "string">>

Shapes == {ErrorFields, ConnectFields, ConnectResponseFields, CreateRoomFields,
           ConnectRoomFields, ConnectRoomResultFields}

\* The values the program may put into a payload of the given fields.
Values(fields) ==
    {v \in [DOMAIN fields -> Ints \cup Strings] :
        \A k \in DOMAIN fields : v[k] \in IF fields[k] = "int" THEN Ints ELSE Strings}

Payloads == UNION {{[fields |-> f, values |-> v] : v \in Values(f)} : f \in Shapes}

-----------------------------------------------------------------------------
(* Writing.  A writer is [buffer, offset, ok]; after an error nothing more *)
(* is written, but what was written stays in the buffer.                   *)

\* copy(buffer[offset:], s).
Overwrite(buffer, offset, s) ==
    [i \in DOMAIN buffer |->
        IF i > offset /\ i <= offset + Len(s) THEN s[i - offset] ELSE buffer[i]]

WriteCells(w, s) ==
    LET newOffset == Add(w.offset, Len(s)) IN
    IF ~w.ok \/ MaxPayloadSize < newOffset
    THEN [w EXCEPT !.ok = FALSE]
    ELSE [buffer |-> Overwrite(w.buffer, w.offset, s), offset |-> newOffset,
          ok |-> TRUE]

writeInt(w, value) == WriteCells(w, <<value[1] % Modulus>>)

writeString(w, value) == WriteCells(w, <<Len(value)>> \o value)

WriteFields(buffer, p) ==
    FoldLeft(LAMBDA w, k : IF p.fields[k] = "int" THEN writeInt(w, p.values[k])
                                                  ELSE writeString(w, p.values[k]),
             [buffer |-> buffer, offset |-> 0, ok |-> TRUE],
             [k \in DOMAIN p.fields |-> k])

\* MUTANT: the checksum is not brought up to date.
updateLengthOnly(buffer, length) ==
    /\ payloadLength' = length
    /\ UNCHANGED payloadCrc32

updatePayloadMetadata(buffer, length) ==
    /\ payloadLength' = length
    /\ payloadCrc32' = SubSeq(buffer, 1, length)

-----------------------------------------------------------------------------
(* Reading.  A message is [buffer, length]; a parser is [offset, values,   *)
(* result] with result "ok", "error" or "panic" (a slice out of range).    *)

ParserError(r) == [r EXCEPT !.result = "error"]

\* buffer[from:to] is appended to the values.
Slice(r, buffer, from, to) ==
    IF from <= to /\ to <= Len(buffer)
    THEN [offset |-> to, values |-> Append(r.values, SubSeq(buffer, from + 1, to)),
          result |-> "ok"]
    ELSE [r EXCEPT !.result = "panic"]

readInt(r, m) ==
    LET newOffset == Add(r.offset, 1) IN
    IF m.length < newOffset
    THEN ParserError(r)
    ELSE [offset |-> newOffset, result |-> "ok",
          values |-> Append(r.values, <<m.buffer[newOffset]>>)]

\* MUTANT: the end of the string is computed first and compared then.
readStringNaive(r, m) ==
    LET dataOffset == Add(r.offset, 1)
        newOffset  == Add(dataOffset, m.buffer[dataOffset]) IN
    IF m.length < dataOffset \/ m.length < newOffset
    THEN ParserError(r)
    ELSE Slice(r, m.buffer, dataOffset, newOffset)

\* The declared length is compared with what is left of the payload.
readString(r, m) ==
    LET dataOffset == Add(r.offset, 1) IN
    IF \/ m.length < dataOffset
       \/ m.buffer[dataOffset] > m.length - dataOffset
    THEN ParserError(r)
    ELSE Slice(r, m.buffer, dataOffset, Add(dataOffset, m.buffer[dataOffset]))

\* Get...: the fields one after the other, up to the first error.
GetPayload(fields, m) ==
    FoldLeft(LAMBDA r, f : IF r.result # "ok" THEN r
                           ELSE IF f = "int" THEN readInt(r, m) ELSE readString(r, m),
             [offset |-> 0, values |-> <<>>, result |-> "ok"],
             fields)

-----------------------------------------------------------------------------
(* The wire *)

Payload == SubSeq(payloadBuffer, 1, payloadLength)

\* What a message that Write puts on the wire becomes in a buffer of the
\* receiver's pool, and whether Read accepts it.
Received(stale) ==
    [buffer |-> Overwrite(stale, 0, Payload), length |-> payloadLength]
Accepted ==
    /\ payloadLength <= MaxPayloadSize
    /\ payloadLength > 0 => payloadCrc32 = Payload

-----------------------------------------------------------------------------
(* ADB messages *)

\* AdbMessage.Bytes of a buffer: header and as much data as it declares.
AdbBytes(buffer) == SubSeq(buffer, 1, Add(HeaderSize, buffer[2]))

\* AdbMessage.Read over what earlier messages left in the pump's buffer:
\* [buffer, ok].  The data is not read if too much of it is declared.
AdbRead(stale, command, dataLength, data) ==
    LET header == Overwrite(stale, 0, <<command, dataLength>>)
        ok == command = ValidCommand /\ dataLength <= MaxPayloadLength IN
    [ok |-> ok,
     buffer |-> IF ok THEN Overwrite(header, HeaderSize, SubSeq(data, 1, dataLength))
                      ELSE header]

\* AdbMessage.Set: a message of the multiplexer or the proxy.
AdbSet(stale, data) ==
    [ok |-> Len(data) <= MaxPayloadLength,
     buffer |-> IF Len(data) <= MaxPayloadLength
                THEN Overwrite(stale, 0, <<ValidCommand, Len(data)>> \o data)
                ELSE stale]

\* DecodeMessage accepts the bytes p.
DecodeMessage(p) ==
    /\ Len(p) >= HeaderSize
    /\ p[1] = ValidCommand
    /\ Add(HeaderSize, p[2]) <= Len(p)

\* Its sum wraps: the declared length is within HeaderSize of 2^32.
SumWraps(p) == HeaderSize + p[2] >= Modulus

\* Data and DataString of a message decoded in the payload buffer: a slice of
\* what lies behind the header, which may reach to the end of the buffer.
AdbData(buffer) ==
    Slice([offset |-> HeaderSize, values |-> <<>>, result |-> "ok"],
          buffer, HeaderSize, HeaderSize + buffer[2])

-----------------------------------------------------------------------------
Init ==
    /\ payloadBuffer = [i \in 1..MaxPayloadSize |-> 0]
    /\ payloadLength = 0
    /\ payloadCrc32 = <<>>
    /\ last = [op |-> "none"]
    /\ uses = 0

\* One of the Set... functions.
SetPayload(p) ==
    LET w == WriteFields(payloadBuffer, p) IN
    /\ payloadBuffer' = w.buffer
    /\ \/ /\ w.ok
          /\ updatePayloadMetadata(w.buffer, w.offset)
          /\ last' = [op |-> "set", payload |-> p]
       \/ /\ ~w.ok
          /\ last' = [op |-> "failed"]
          /\ UNCHANGED <<payloadLength, payloadCrc32>>

\* SetRawPayload of SendAdbMessage; what it is given always fits.
SetRawPayload(bytes) ==
    LET buffer == Overwrite(payloadBuffer, 0, bytes) IN
    /\ Len(bytes) <= MaxPayloadSize
    /\ payloadBuffer' = buffer
    /\ updatePayloadMetadata(buffer, Len(bytes))

\* Contents an ADB buffer may be left with.
StaleAdb == {[i \in 1..(HeaderSize + MaxPayloadLength) |-> b] : b \in Bytes}

\* pumpLocalToRemote forwards a message it has read (a failed read ends it).
ForwardAdb ==
    \E stale \in StaleAdb, command \in Words, dataLength \in Words :
        \E data \in [1..MaxPayloadLength -> Bytes] :
            LET a == AdbRead(stale, command, dataLength, data) IN
            /\ a.ok
            /\ SetRawPayload(AdbBytes(a.buffer))
            /\ last' = [op |-> "adb",
                        bytes |-> <<command, dataLength>> \o SubSeq(data, 1, dataLength)]

\* The multiplexer sends a message of its own.
SendAdb ==
    \E stale \in StaleAdb, data \in SeqOf(Bytes, MaxPayloadLength + 1) :
        LET a == AdbSet(stale, data) IN
        /\ a.ok
        /\ SetRawPayload(AdbBytes(a.buffer))
        /\ last' = [op |-> "adb", bytes |-> <<ValidCommand, Len(data)>> \o data]

\* TransporterMessage.Read of whatever a peer sends: the header stays as it
\* was read even if the length or the checksum is then refused.
Read(length, content) ==
    /\ payloadLength' = length
    /\ payloadBuffer' = Overwrite(payloadBuffer, 0, content)
    /\ \/ /\ length <= MaxPayloadSize
          /\ Len(content) = length
          /\ payloadCrc32' = content
          /\ last' = [op |-> "read"]
       \/ /\ length <= MaxPayloadSize
          /\ Len(content) <= length
          /\ payloadCrc32' = <<>>
          /\ last' = [op |-> "failed"]
       \/ /\ length > MaxPayloadSize
          /\ content = <<>>
          /\ payloadCrc32' = <<>>
          /\ last' = [op |-> "failed"]

\* The pool hands the message out again with whatever it holds.
Next ==
    /\ uses < MaxUses
    /\ uses' = uses + 1
    /\ \/ \E p \in Payloads : SetPayload(p)
       \/ ForwardAdb
       \/ SendAdb
       \/ \E length \in Words \cup 0..MaxPayloadSize,
             content \in SeqOf(Words, MaxPayloadSize) : Read(length, content)

Spec == Init /\ [][Next]_vars

-----------------------------------------------------------------------------
(* Properties *)

TypeOK ==
    /\ payloadBuffer \in Cells
    /\ payloadLength \in Words \cup 0..MaxPayloadSize
    /\ payloadCrc32 \in SeqOf(Words, MaxPayloadSize)
    /\ uses \in 0..MaxUses

\* The reference: values are encoded by putting the fields one after the
\* other, a string behind its length, and a payload holds them if it begins
\* with their encoding.
Encode(fields, values) ==
    FlattenSeq([k \in DOMAIN fields |->
        IF fields[k] = "int" THEN values[k] ELSE <<Len(values[k])>> \o values[k]])

Candidates(fields, p) ==
    {v \in [DOMAIN fields -> SubSeqs(p)] :
        \A k \in DOMAIN fields : fields[k] = "int" => Len(v[k]) = 1}

Holds(fields, p) == {v \in Candidates(fields, p) : IsPrefix(Encode(fields, v), p)}

\* For every payload a peer may send, whatever lengths it declares and
\* whatever the pooled buffer held before, each Get... returns the values the
\* payload holds, or an error if it holds none: nothing stale, no slice out of
\* range, no length that wraps (readInt, readString).
GetMatchesReference ==
    last.op = "read" =>
        \A f \in Shapes :
            LET r == GetPayload(f, [buffer |-> payloadBuffer, length |-> payloadLength])
                held == Holds(f, Payload) IN
            IF held = {} THEN r.result = "error"
                         ELSE r.result = "ok" /\ held = {r.values}

\* DecodeMessage of whatever a peer sends accepts a valid header if all the data
\* it declares is there, and what is then written is what was sent; but it
\* accepts one whose length sum wraps, too.  Of what it accepted, Data returns
\* exactly the data that was sent if the sum does not wrap, and panics if it does.
DecodeMatchesReference ==
    last.op = "read" /\ payloadLength >= HeaderSize =>
        LET end == HeaderSize + Payload[2]
            data == AdbData(payloadBuffer) IN
        /\ DecodeMessage(Payload)
              <=> Payload[1] = ValidCommand /\ (end <= payloadLength \/ SumWraps(Payload))
        /\ SumWraps(Payload) => data.result = "panic"
        /\ DecodeMessage(Payload) /\ ~SumWraps(Payload)
              => /\ IsPrefix(AdbBytes(Payload), Payload)
                 /\ Len(AdbBytes(Payload)) = end
                 /\ data.result = "ok"
                 /\ data.values = <<SubSeq(Payload, HeaderSize + 1, end)>>

\* Whatever a peer sends, over whatever the pooled buffer held before, both
\* parsers agree with the reference, except for the one wrap named above.
ParsersMatchReference == GetMatchesReference /\ DecodeMatchesReference

\* A payload that a Set... function accepted: the receiver's Read accepts it
\* and its Get returns the values, integers reduced to their 32 bits.
PayloadIsReceived ==
    last.op = "set" =>
        /\ Accepted
        /\ \A stale \in Cells :
              LET r == GetPayload(last.payload.fields, Received(stale)) IN
              /\ r.result = "ok"
              /\ \A k \in DOMAIN r.values :
                    r.values[k] = IF last.payload.fields[k] = "int"
                                  THEN <<last.payload.values[k][1] % Modulus>>
                                  ELSE last.payload.values[k]

\* An ADB message that a pump or the multiplexer sends is decoded at the other
\* end and written to the local connection or the device byte for byte.
AdbRelayedVerbatim ==
    last.op = "adb" =>
        /\ Accepted
        /\ \A stale \in Cells :
              LET m == Received(stale)
                  p == SubSeq(m.buffer, 1, m.length) IN
              DecodeMessage(p) /\ AdbBytes(p) = last.bytes

\* What the program sends arrives as it was meant, whatever both pooled buffers
\* held before.
SentIsReceived == PayloadIsReceived /\ AdbRelayedVerbatim

-----------------------------------------------------------------------------
(* What comments and errors say and the code does not do; see the README. *)

\* DecodeMessage refuses a message whose "declared data length exceeds the
\* available buffer": of what it accepts, the data can be taken.
DecodedDataIsThere ==
    last.op = "read" /\ DecodeMessage(Payload) => AdbData(payloadBuffer).result = "ok"

\* DecodeMessage takes "a self-contained byte slice (header + data, with no
\* trailing bytes)": what it accepts it represents completely.
DecodedIsWhole ==
    last.op = "read" /\ DecodeMessage(Payload) => AdbBytes(Payload) = Payload
===============================================================================
