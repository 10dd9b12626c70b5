-------------------------- MODULE PayloadCodecProofs --------------------------
(***************************************************************************)
(* Theorems about PayloadCodec, for payloads, words and strings of any     *)
(* size: what is sent is received, and the parsers agree with the          *)
(* reference.                                                              *)
(*                                                                         *)
(* Set... and Get... are folds over the fields of a payload.  FoldExists   *)
(* and FoldSteps turn a fold over 1..n into its n steps, by induction over *)
(* n; Laid then says where each value lies in the buffer.  Writing lays    *)
(* values out (WriteLays), reading finds those that are laid out           *)
(* (LaidIsRead) and no others (ReadIsLaid), and the reference describes    *)
(* the same (HoldsIsLaid).                                                 *)
(***************************************************************************)
EXTENDS PayloadCodec, SequenceTheorems, WellFoundedInduction, TLAPS

\* The equation of a fold.
FoldEquation(F, n, base, step) ==
    F = [s \in SUBSET (1..n) |->
            IF s = {} THEN base ELSE step[Max(s)][F[s \ {Max(s)}]]]

\* Every set of numbers that is not empty has a least one.
LEMMA LeastNumber ==
    ASSUME NEW S, S \subseteq Nat, S # {}
    PROVE  \E m \in S : \A k \in S : m <= k
  <1>1. PICK m \in S : \A k \in S : ~(<<k, m>> \in OpToRel(<, Nat))
    BY WFMin, NatLessThanWellFounded
  <1>2. ASSUME NEW k \in S  PROVE m <= k
    <2>. DEFINE q == <<k, m>>
    <2>1. q \in Nat \X Nat /\ q[1] = k /\ q[2] = m
      OBVIOUS
    <2>2. ~ (q \in {ss \in Nat \X Nat : ss[1] < ss[2]})
      BY <1>1 DEF OpToRel
    <2>. HIDE DEF q
    <2>3. ~ (k < m)
      BY <2>1, <2>2
    <2>. QED  BY <2>3
  <1>. QED  BY <1>2

\* The greatest of a set that has n and nothing above it is n.
LEMMA MaxIsLast ==
    ASSUME NEW n \in Nat, NEW s, s \subseteq 1..n, n \in s
    PROVE  Max(s) = n
  <1>1. \A x \in s : (\A y \in s : x >= y) <=> x = n
    OBVIOUS
  <1>. QED  BY <1>1, Zenon DEF Max

\* Every fold over 1..n has a function of its own.
LEMMA FoldExists ==
    ASSUME NEW n \in Nat, NEW A, NEW base \in A, NEW step \in [1..n -> [A -> A]]
    PROVE  \E F \in [SUBSET (1..n) -> A] : FoldEquation(F, n, base, step)
  <1>. DEFINE Val(F, s) == IF s = {} THEN base ELSE step[Max(s)][F[s \ {Max(s)}]]
              P(m) == \E F \in [SUBSET (1..m) -> A] :
                        \A s \in SUBSET (1..m) : F[s] = Val(F, s)
              Bad == {m \in 0..n : ~P(m)}
  <1>1. P(n)
    <2>. SUFFICES ASSUME ~P(n)  PROVE FALSE
      OBVIOUS
    <2>1. Bad \subseteq Nat /\ Bad # {}
      <3>. HIDE DEF P
      <3>1. n \in Bad
        OBVIOUS
      <3>. QED  BY <3>1
    <2>2. PICK m \in Bad : \A k \in Bad : m <= k
      <3>. HIDE DEF Bad
      <3>. QED  BY <2>1, LeastNumber
    <2>4. m # 0
      <3>. SUFFICES ASSUME m = 0  PROVE P(m)
        BY <2>2
      <3>1. SUBSET (1..m) = {{}}
        OBVIOUS
      <3>. DEFINE F == [s \in {{}} |-> base]
      <3>2. F \in [SUBSET (1..m) -> A] /\ \A s \in SUBSET (1..m) : F[s] = Val(F, s)
        BY <3>1
      <3>. QED  BY <3>2
    <2>5. m \in 1..n /\ m - 1 \in 0..n
      BY <2>4
    <2>6. P(m - 1)
      <3>. HIDE DEF P
      <3>1. m - 1 \notin Bad
        BY <2>2, <2>5
      <3>. QED  BY <2>5, <3>1
    <2>7. PICK G \in [SUBSET (1..(m - 1)) -> A] :
             \A s \in SUBSET (1..(m - 1)) : G[s] = Val(G, s)
      BY <2>6
    <2>. DEFINE F == [s \in SUBSET (1..m) |->
                        IF m \in s THEN step[m][G[s \ {m}]] ELSE G[s]]
    <2>8. \A s \in SUBSET (1..m) : s \ {m} \in SUBSET (1..(m - 1))
      BY <2>5
    <2>9. F \in [SUBSET (1..m) -> A]
      <3>1. ASSUME NEW s \in SUBSET (1..m)
            PROVE  (IF m \in s THEN step[m][G[s \ {m}]] ELSE G[s]) \in A
        <4>1. G[s \ {m}] \in A /\ (m \notin s => s \ {m} = s)
          BY <2>7, <2>8
        <4>2. step[m] \in [A -> A]
          BY <2>5
        <4>. QED  BY <4>1, <4>2
      <3>. QED  BY <3>1
    <2>10. ASSUME NEW s \in SUBSET (1..m)  PROVE F[s] = Val(F, s)
      <3>1. CASE m \in s
        <4>1. Max(s) = m
          <5>1. m \in Nat /\ s \subseteq 1..m
            BY <2>5
          <5>. HIDE DEF Bad
          <5>. QED  BY <3>1, <5>1, MaxIsLast, Zenon
        <4>2. F[s \ {m}] = G[s \ {m}]
          BY <2>8
        <4>. QED  BY <3>1, <4>1, <4>2
      <3>2. CASE m \notin s
        <4>1. s \in SUBSET (1..(m - 1))
          BY <2>8, <3>2
        <4>2. F[s] = G[s] /\ G[s] = Val(G, s)
          BY <2>7, <3>2, <4>1
        <4>3. F[s \ {Max(s)}] = G[s \ {Max(s)}]
          BY <3>2
        <4>. QED  BY <4>2, <4>3
      <3>. QED  BY <3>1, <3>2
    <2>11. P(m)
      BY <2>9, <2>10
    <2>. QED  BY <2>2, <2>11
  <1>2. PICK F \in [SUBSET (1..n) -> A] : \A s \in SUBSET (1..n) : F[s] = Val(F, s)
    BY <1>1
  <1>3. F = [s \in SUBSET (1..n) |-> Val(F, s)]
    BY <1>2
  <1>. QED  BY <1>3 DEF FoldEquation

\* A set of positions that is not empty has a greatest one.
LEMMA MaxType ==
    ASSUME NEW n \in Nat, NEW s, s \subseteq 1..n, s # {}
    PROVE  Max(s) \in s
  <1>. DEFINE D == {n - x : x \in s}
  <1>1. PICK d \in D : \A e \in D : d <= e
    <2>1. D \subseteq Nat /\ D # {}
      <3>1. \A x \in s : n - x \in Nat
        OBVIOUS
      <3>2. PICK x \in s : TRUE
        OBVIOUS
      <3>3. n - x \in D
        BY <3>2
      <3>. QED  BY <3>1, <3>3
    <2>. HIDE DEF D
    <2>. QED  BY <2>1, LeastNumber
  <1>2. PICK x \in s : d = n - x
    OBVIOUS
  <1>3. \A y \in s : x >= y
    <2>. SUFFICES ASSUME NEW y \in s  PROVE x >= y
      OBVIOUS
    <2>1. n - x <= n - y
      BY <1>1, <1>2
    <2>. QED  BY <2>1
  <1>. QED  BY <1>2, <1>3, Zenon DEF Max

\* It takes the elements in their order.
LEMMA FoldSteps ==
    ASSUME NEW n \in Nat, NEW base, NEW step, NEW F, FoldEquation(F, n, base, step)
    PROVE  /\ F[1..0] = base
           /\ \A k \in 1..n : F[1..k] = step[k][F[1..(k - 1)]]
  <1>1. F[1..0] = base
    <2>1. 1..0 = {}
      OBVIOUS
    <2>. QED  BY <2>1 DEF FoldEquation
  <1>2. ASSUME NEW k \in 1..n  PROVE F[1..k] = step[k][F[1..(k - 1)]]
    <2>1. Max(1..k) = k
      BY MaxIsLast
    <2>2. 1..k \in SUBSET (1..n) /\ 1..k # {} /\ (1..k) \ {k} = 1..(k - 1)
      OBVIOUS
    <2>3. F[1..k] = step[Max(1..k)][F[(1..k) \ {Max(1..k)}]]
      BY <2>2 DEF FoldEquation
    <2>. QED  BY <2>1, <2>2, <2>3
  <1>. QED  BY <1>1, <1>2

\* Induction over 0..n, for a set of the numbers that have the property.
LEMMA Upwards ==
    ASSUME NEW n \in Nat, NEW S, 0 \in S, \A k \in 1..n : k - 1 \in S => k \in S
    PROVE  0..n \subseteq S
  <1>. DEFINE Bad == {k \in 0..n : k \notin S}
  <1>. SUFFICES ASSUME Bad # {}  PROVE FALSE
    OBVIOUS
  <1>1. PICK m \in Bad : \A k \in Bad : m <= k
    <2>1. Bad \subseteq Nat
      OBVIOUS
    <2>. HIDE DEF Bad
    <2>. QED  BY <2>1, LeastNumber
  <1>2. m \in 1..n /\ m - 1 \in 0..n
    OBVIOUS
  <1>3. m - 1 \in S
    BY <1>1, <1>2
  <1>. QED  BY <1>2, <1>3

-----------------------------------------------------------------------------
(* Fields *)

Types == {"int", "string"}

\* What a field of a payload looks like in the buffer.
Enc(type, v) == IF type = "int" THEN v ELSE <<Len(v)>> \o v

\* What a value is on the other side: an integer loses all but 32 bits.
Reduced(type, v) == IF type = "int" THEN <<v[1] % Modulus>> ELSE v

\* The first len cells of b hold the field v behind the first o.
FieldAt(b, len, o, type, v) ==
    /\ type = "int" => Len(v) = 1
    /\ o + Len(Enc(type, v)) <= len
    /\ \A j \in 1..Len(Enc(type, v)) : b[o + j] = Enc(type, v)[j]

\* They hold all the values, one after the other: the k-th ends at O[k].
Laid(fields, v, O, b, len) ==
    /\ O[0] = 0
    /\ \A k \in 1..Len(fields) :
          /\ FieldAt(b, len, O[k - 1], fields[k], v[k])
          /\ O[k] = O[k - 1] + Len(Enc(fields[k], v[k]))

\* The constants are numbers, and no offset that is looked at wraps.
LEMMA Constants ==
    /\ Modulus \in Nat /\ MaxPayloadSize \in Nat /\ MaxPayloadLength \in Nat
    /\ MaxString \in Nat /\ MaxUses \in Nat
    /\ Words \subseteq Nat /\ \A x \in Words : x < Modulus
    /\ 2 + MaxPayloadLength <= MaxPayloadSize
    /\ MaxPayloadSize + 1 + MaxString < Modulus
  BY WordAssumption, EmbeddingAssumption DEF HeaderSize

\* Words below the modulus are their own remainder.
LEMMA NoWrap ==
    ASSUME NEW a \in Nat, NEW b \in Nat, a + b < Modulus
    PROVE  Add(a, b) = a + b
  BY Constants DEF Add

\* A sequence behind one more element.
LEMMA Prepend ==
    ASSUME NEW S, NEW a \in S, NEW v \in Seq(S)
    PROVE  /\ <<a>> \o v \in Seq(S)
           /\ Len(<<a>> \o v) = Len(v) + 1
           /\ (<<a>> \o v)[1] = a
           /\ \A j \in 1..Len(v) : (<<a>> \o v)[j + 1] = v[j]
  <1>1. PICK h : h = <<a>>
    OBVIOUS
  <1>2. h \in Seq(S) /\ Len(h) = 1 /\ h[1] = a
    BY <1>1
  <1>3. PICK n \in Nat : n = Len(v)
    OBVIOUS
  <1>4. /\ h \o v \in Seq(S) /\ Len(h \o v) = 1 + n
        /\ \A i \in 1..(1 + n) : (h \o v)[i] = IF i <= 1 THEN h[i] ELSE v[i - 1]
    <2>1. /\ h \o v \in Seq(S) /\ Len(h \o v) = Len(h) + Len(v)
          /\ \A i \in 1..(Len(h) + Len(v)) :
                (h \o v)[i] = IF i <= Len(h) THEN h[i] ELSE v[i - Len(h)]
      BY <1>2, ConcatProperties, Zenon
    <2>. QED  BY <1>2, <1>3, <2>1
  <1>5. \A j \in 1..n : j + 1 \in 1..(1 + n) /\ ~(j + 1 <= 1) /\ (j + 1) - 1 = j
    OBVIOUS
  <1>6. 1 \in 1..(1 + n) /\ 1 <= 1
    OBVIOUS
  <1>7. (h \o v)[1] = a
    BY <1>2, <1>4, <1>6
  <1>8. \A j \in 1..n : (h \o v)[j + 1] = v[j]
    BY <1>4, <1>5
  <1>. QED  BY <1>1, <1>3, <1>4, <1>7, <1>8

\* Cells hold numbers.
LEMMA NumberCells ==
    ASSUME NEW v \in Seq(Words)
    PROVE  v \in Seq(Nat)
  <1>1. Len(v) \in Nat /\ v \in [1..Len(v) -> Words]
    BY LenProperties
  <1>2. v \in [1..Len(v) -> Nat]
    BY <1>1, Constants
  <1>. QED  BY <1>1, <1>2

\* The encoding of a field is a sequence of cells, at least one of them.
LEMMA EncType ==
    ASSUME NEW type \in Types, NEW v \in Seq(Nat), type = "int" => Len(v) = 1
    PROVE  /\ Enc(type, v) \in Seq(Nat)
           /\ Len(Enc(type, v)) = Len(v) + (IF type = "int" THEN 0 ELSE 1)
           /\ Len(Enc(type, v)) \in Nat \ {0}
           /\ type = "string" => /\ Enc(type, v)[1] = Len(v)
                                 /\ \A j \in 1..Len(v) : Enc(type, v)[j + 1] = v[j]
  <1>1. Len(v) \in Nat
    OBVIOUS
  <1>. DEFINE c == <<Len(v)>> \o v
  <1>2. /\ c \in Seq(Nat) /\ Len(c) = Len(v) + 1 /\ c[1] = Len(v)
        /\ \A j \in 1..Len(v) : c[j + 1] = v[j]
    BY <1>1, Prepend
  <1>3. Enc(type, v) = IF type = "int" THEN v ELSE c
    BY DEF Enc
  <1>. HIDE DEF c
  <1>4. CASE type = "int"
    BY <1>1, <1>3, <1>4
  <1>5. CASE type = "string"
    BY <1>1, <1>2, <1>3, <1>5
  <1>. QED  BY <1>4, <1>5 DEF Types

-----------------------------------------------------------------------------
(* Writing *)

Writers == [buffer : Cells, offset : 0..MaxPayloadSize, ok : BOOLEAN]

WriteField(w, type, v) ==
    IF type = "int" THEN writeInt(w, v) ELSE writeString(w, v)

\* copy changes the cells it covers and no other.
LEMMA OverwriteCells ==
    ASSUME NEW b \in Cells, NEW o \in Nat, NEW s \in Seq(Words)
    PROVE  /\ Overwrite(b, o, s) \in Cells
           /\ \A i \in 1..MaxPayloadSize :
                 Overwrite(b, o, s)[i] =
                    IF i > o /\ i <= o + Len(s) THEN s[i - o] ELSE b[i]
  <1>1. DOMAIN b = 1..MaxPayloadSize
    BY DEF Cells
  <1>2. ASSUME NEW i \in 1..MaxPayloadSize, i > o, i <= o + Len(s)
        PROVE  s[i - o] \in Words
    <2>1. i - o \in 1..Len(s)
      BY <1>2, Constants
    <2>. QED  BY <2>1
  <1>. QED  BY <1>1, <1>2 DEF Overwrite, Cells

\* Cells that are written lie behind what was written before.
LEMMA WriteCellsStep ==
    ASSUME NEW w \in Writers, NEW s \in Seq(Words), Len(s) <= MaxString + 1
    PROVE  LET x == WriteCells(w, s) IN
           /\ x \in Writers
           /\ x.ok => /\ w.ok
                      /\ x.offset = w.offset + Len(s)
                      /\ \A i \in 1..w.offset : x.buffer[i] = w.buffer[i]
                      /\ \A j \in 1..Len(s) : x.buffer[w.offset + j] = s[j]
  <1>. DEFINE n == Len(s)
              o == w.offset
  <1>1. n \in Nat /\ o \in 0..MaxPayloadSize /\ w.buffer \in Cells /\ w.ok \in BOOLEAN
    BY DEF Writers
  <1>2. Add(o, n) = o + n
    <2>1. o \in Nat /\ o + n < Modulus
      BY <1>1, Constants
    <2>. QED  BY <1>1, <2>1, NoWrap
  <1>3. CASE ~w.ok \/ MaxPayloadSize < o + n
    <2>1. WriteCells(w, s) = [w EXCEPT !.ok = FALSE]
      BY <1>2, <1>3 DEF WriteCells
    <2>. QED  BY <2>1 DEF Writers
  <1>4. CASE w.ok /\ ~(MaxPayloadSize < o + n)
    <2>1. WriteCells(w, s) = [buffer |-> Overwrite(w.buffer, o, s), offset |-> o + n,
                              ok |-> TRUE]
      BY <1>2, <1>4 DEF WriteCells
    <2>2. o + n \in 0..MaxPayloadSize /\ o \in Nat
      BY <1>1, <1>4, Constants
    <2>3. /\ Overwrite(w.buffer, o, s) \in Cells
          /\ \A i \in 1..MaxPayloadSize :
                Overwrite(w.buffer, o, s)[i] =
                   IF i > o /\ i <= o + n THEN s[i - o] ELSE w.buffer[i]
      BY <1>1, <2>2, OverwriteCells
    <2>4. \A i \in 1..o : Overwrite(w.buffer, o, s)[i] = w.buffer[i]
      BY <1>1, <2>2, <2>3, Constants
    <2>5. \A j \in 1..n : Overwrite(w.buffer, o, s)[o + j] = s[j]
      <3>1. \A j \in 1..n : /\ o + j \in 1..MaxPayloadSize /\ o + j > o
                            /\ o + j <= o + n /\ (o + j) - o = j
        BY <1>1, <2>2, Constants
      <3>. QED  BY <2>3, <3>1
    <2>. QED  BY <1>4, <2>1, <2>2, <2>3, <2>4, <2>5 DEF Writers
  <1>. QED  BY <1>1, <1>3, <1>4

\* The six payloads have at least one field each, of the two types.
LEMMA ShapeTypes ==
    ASSUME NEW f \in Shapes
    PROVE  f \in Seq(Types) /\ f # <<>>
  <1>1. "int" \in Types /\ "string" \in Types
    BY DEF Types
  <1>2. \A a, b, c \in Types : /\ <<a>> \in Seq(Types) /\ Len(<<a>>) = 1
                              /\ <<a, b>> \in Seq(Types) /\ Len(<<a, b>>) = 2
                              /\ <<a, b, c>> \in Seq(Types) /\ Len(<<a, b, c>>) = 3
    OBVIOUS
  <1>3. \/ f \in {<<"int">>, <<"string">>} \/ f = <<"int", "string">>
        \/ f \in {<<"string", "string", "string">>, <<"int", "string", "string">>}
    BY DEF Shapes, ErrorFields, ConnectFields, ConnectResponseFields,
           CreateRoomFields, ConnectRoomFields, ConnectRoomResultFields
  <1>4. \E a, b, c \in Types : f \in {<<a>>, <<a, b>>, <<a, b, c>>}
    <2>. DEFINE Is(a, b, c) == f \in {<<a>>, <<a, b>>, <<a, b, c>>}
    <2>1. \/ Is("int", "string", "string") \/ Is("string", "string", "string")
      BY <1>3
    <2>. HIDE DEF Is
    <2>2. \E a, b, c \in Types : Is(a, b, c)
      BY <1>1, <2>1
    <2>. QED  BY <2>2 DEF Is
  <1>5. f \in Seq(Types) /\ Len(f) \in {1, 2, 3}
    BY <1>2, <1>4
  <1>. QED  BY <1>5, EmptySeq

\* The payloads have fields of the two types, and values for them.
LEMMA PayloadTypes ==
    ASSUME NEW p \in Payloads
    PROVE  /\ p.fields \in Seq(Types) /\ p.fields # <<>>
           /\ \A k \in 1..Len(p.fields) :
                 p.values[k] \in IF p.fields[k] = "int" THEN Ints ELSE Strings
  <1>1. p.fields \in Shapes /\ p.values \in Values(p.fields)
    BY DEF Payloads
  <1>2. p.fields \in Seq(Types) /\ p.fields # <<>>
    BY <1>1, ShapeTypes
  <1>3. DOMAIN p.fields = 1..Len(p.fields)
    BY <1>2
  <1>. QED  BY <1>1, <1>2, <1>3 DEF Values

\* Strings and integers, as they are written.
LEMMA SentFieldType ==
    ASSUME NEW type \in Types, NEW v \in IF type = "int" THEN Ints ELSE Strings
    PROVE  /\ Reduced(type, v) \in Seq(Words)
           /\ type = "int" => Len(Reduced(type, v)) = 1
           /\ Enc(type, Reduced(type, v)) \in Seq(Words)
           /\ Len(Enc(type, Reduced(type, v))) <= MaxString + 1
           /\ \A w : WriteField(w, type, v) = WriteCells(w, Enc(type, Reduced(type, v)))
  <1>1. CASE type = "int"
    <2>1. v[1] \in {1, Modulus + 1} /\ 1 < Modulus
      BY <1>1, Constants DEF Ints
    <2>2. v[1] % Modulus = 1
      BY <2>1, Constants
    <2>3. 1 \in Words
      BY WordAssumption DEF ValidCommand
    <2>4. Reduced(type, v) = <<1>>
      BY <1>1, <2>2 DEF Reduced
    <2>5. <<1>> \in Seq(Words) /\ Len(<<1>>) = 1
      BY <2>3
    <2>6. Enc(type, <<1>>) = <<1>> /\ Len(<<1>>) <= MaxString + 1
      BY <1>1, <2>5, Constants DEF Enc
    <2>7. \A w : WriteField(w, type, v) = WriteCells(w, <<1>>)
      BY <1>1, <2>2 DEF WriteField, writeInt
    <2>. QED  BY <2>4, <2>5, <2>6, <2>7
  <1>2. CASE type = "string"
    <2>1. PICK m \in 0..MaxString : v \in [1..m -> Bytes]
      BY <1>2 DEF Strings, SeqOf
    <2>2. v \in Seq(Words) /\ Len(v) = m /\ m \in Words
      <3>1. m \in Nat /\ m \in Words /\ Bytes \subseteq Words
        BY WordAssumption, Constants
      <3>2. v \in [1..m -> Words]
        BY <2>1, <3>1
      <3>. QED  BY <3>1, <3>2
    <2>. DEFINE c == <<Len(v)>> \o v
    <2>3. c \in Seq(Words) /\ Len(c) = m + 1
      BY <2>2, Prepend
    <2>4. type # "int"
      BY <1>2
    <2>5. Reduced(type, v) = v /\ Enc(type, v) = c
      BY <2>4 DEF Reduced, Enc
    <2>6. \A w : WriteField(w, type, v) = WriteCells(w, c)
      BY <2>4 DEF WriteField, writeString
    <2>7. m + 1 <= MaxString + 1
      BY Constants
    <2>. HIDE DEF c
    <2>. QED  BY <2>2, <2>3, <2>4, <2>5, <2>6, <2>7
  <1>. QED  BY <1>1, <1>2 DEF Types

\* W[k] is the writer after k fields of p.
Writing(W, b, p) ==
    /\ W[0] = [buffer |-> b, offset |-> 0, ok |-> TRUE]
    /\ \A k \in 1..Len(p.fields) :
          W[k] = WriteField(W[k - 1], p.fields[k], p.values[k])
    /\ WriteFields(b, p) = W[Len(p.fields)]

\* WriteFields writes the fields in their order.
LEMMA WriteUnfolds ==
    ASSUME NEW b \in Cells, NEW p \in Payloads
    PROVE  \E W : Writing(W, b, p)
  <1>. DEFINE n == Len(p.fields)
              base == [buffer |-> b, offset |-> 0, ok |-> TRUE]
              step == [k \in 1..n |-> [w \in Writers |->
                         WriteField(w, p.fields[k], p.values[k])]]
              id == [k \in DOMAIN p.fields |-> k]
              Eq(G) == G = [s \in SUBSET DOMAIN id |->
                          IF s = {} THEN base
                          ELSE IF p.fields[id[Max(s)]] = "int"
                               THEN writeInt(G[s \ {Max(s)}], p.values[id[Max(s)]])
                               ELSE writeString(G[s \ {Max(s)}], p.values[id[Max(s)]])]
              iter == CHOOSE G : Eq(G)
  <1>1. n \in Nat /\ DOMAIN p.fields = 1..n /\ p.fields \in Seq(Types)
    BY PayloadTypes
  <1>2. base \in Writers
    BY Constants DEF Writers
  <1>3. step \in [1..n -> [Writers -> Writers]]
    <2>1. ASSUME NEW k \in 1..n, NEW w \in Writers
          PROVE  WriteField(w, p.fields[k], p.values[k]) \in Writers
      <3>. DEFINE t == p.fields[k]
                  v == p.values[k]
                  s == Enc(t, Reduced(t, v))
      <3>1. t \in Types /\ v \in IF t = "int" THEN Ints ELSE Strings
        BY <1>1, PayloadTypes
      <3>2. s \in Seq(Words) /\ Len(s) <= MaxString + 1 /\ WriteField(w, t, v) = WriteCells(w, s)
        <4>. HIDE DEF t, v
        <4>. QED  BY <3>1, SentFieldType
      <3>. HIDE DEF s
      <3>. QED  BY <3>2, WriteCellsStep
    <2>. QED  BY <2>1
  <1>4. PICK F \in [SUBSET (1..n) -> Writers] : FoldEquation(F, n, base, step)
    <2>. HIDE DEF n, base, step
    <2>. QED  BY <1>1, <1>2, <1>3, FoldExists
  <1>5. ASSUME NEW s \in SUBSET (1..n), s # {}
        PROVE  /\ Max(s) \in 1..n
               /\ s \ {Max(s)} \in SUBSET (1..n)
    BY <1>1, <1>5, MaxType
  <1>6. Eq(F)
    <2>1. ASSUME NEW s \in SUBSET (1..n), s # {}
          PROVE  step[Max(s)][F[s \ {Max(s)}]]
                   = WriteField(F[s \ {Max(s)}], p.fields[id[Max(s)]], p.values[id[Max(s)]])
      BY <1>1, <1>5, <2>1
    <2>2. DOMAIN id = 1..n
      BY <1>1
    <2>. HIDE DEF n, base, step, id
    <2>. QED  BY <1>4, <2>1, <2>2 DEF FoldEquation, WriteField
  <1>7. Eq(iter)
    <2>. HIDE DEF Eq
    <2>. QED  BY <1>6
  <1>8. WriteFields(b, p) = iter[DOMAIN id]
    BY DEF WriteFields, FoldLeft, MapThenFoldSet
  <1>9. ASSUME NEW k \in 1..n
        PROVE  iter[1..k] = WriteField(iter[1..(k - 1)], p.fields[k], p.values[k])
    <2>1. Max(1..k) = k
      BY <1>1, MaxIsLast
    <2>2. 1..k \in SUBSET DOMAIN id /\ 1..k # {} /\ (1..k) \ {k} = 1..(k - 1) /\ id[k] = k
      BY <1>1
    <2>3. p.fields[id[Max(1..k)]] = p.fields[k] /\ p.values[id[Max(1..k)]] = p.values[k]
      BY <2>1, <2>2, Zenon
    <2>4. iter[1..k] = IF p.fields[k] = "int"
                       THEN writeInt(iter[(1..k) \ {Max(1..k)}], p.values[k])
                       ELSE writeString(iter[(1..k) \ {Max(1..k)}], p.values[k])
      <3>. HIDE DEF iter, id, base, n
      <3>. QED  BY <1>7, <2>2, <2>3
    <2>. HIDE DEF iter, id, base, n
    <2>. QED  BY <2>1, <2>2, <2>4, Zenon DEF WriteField
  <1>10. iter[1..0] = base
    <2>1. 1..0 = {}
      OBVIOUS
    <2>. HIDE DEF iter, id, base, n
    <2>. QED  BY <1>7, <2>1
  <1>. DEFINE W == [k \in 0..n |-> iter[1..k]]
  <1>11. W[0] = base /\ \A k \in 1..n : W[k] = WriteField(W[k - 1], p.fields[k], p.values[k])
    <2>. HIDE DEF iter, base, n
    <2>. QED  BY <1>1, <1>9, <1>10
  <1>12. WriteFields(b, p) = W[n]
    <2>. HIDE DEF iter, n
    <2>. QED  BY <1>1, <1>8
  <1>. QED  BY <1>11, <1>12 DEF Writing

\* The values of p as they arrive.
Sent(p) == [k \in DOMAIN p.fields |-> Reduced(p.fields[k], p.values[k])]

\* A Set... that succeeds lays its values out, one after the other, and the
\* offset it ends with is their end: later writes leave earlier fields alone.
LEMMA WriteLays ==
    ASSUME NEW b \in Cells, NEW p \in Payloads
    PROVE  LET w == WriteFields(b, p) IN
           /\ w \in Writers
           /\ w.ok => \E O : Laid(p.fields, Sent(p), O, w.buffer, w.offset)
  <1>. DEFINE n == Len(p.fields)
              enc(k) == Enc(p.fields[k], Sent(p)[k])
  <1>0. PICK W : Writing(W, b, p)
    BY WriteUnfolds
  <1>1. /\ W[0] = [buffer |-> b, offset |-> 0, ok |-> TRUE]
        /\ \A k \in 1..n : W[k] = WriteField(W[k - 1], p.fields[k], p.values[k])
        /\ WriteFields(b, p) = W[n]
    BY <1>0 DEF Writing
  <1>2. n \in Nat /\ DOMAIN p.fields = 1..n /\ p.fields \in Seq(Types)
    BY PayloadTypes
  <1>3. ASSUME NEW k \in 1..n
        PROVE  /\ enc(k) \in Seq(Words) /\ Len(enc(k)) <= MaxString + 1
               /\ p.fields[k] = "int" => Len(Sent(p)[k]) = 1
               /\ W[k] = WriteCells(W[k - 1], enc(k))
    <2>. DEFINE t == p.fields[k]
                v == p.values[k]
    <2>1. t \in Types /\ v \in IF t = "int" THEN Ints ELSE Strings
      BY <1>2, PayloadTypes
    <2>2. Sent(p)[k] = Reduced(t, v) /\ W[k] = WriteField(W[k - 1], t, v)
      BY <1>1, <1>2 DEF Sent
    <2>. HIDE DEF t, v
    <2>3. /\ Enc(t, Reduced(t, v)) \in Seq(Words)
          /\ Len(Enc(t, Reduced(t, v))) <= MaxString + 1
          /\ t = "int" => Len(Reduced(t, v)) = 1
          /\ WriteField(W[k - 1], t, v) = WriteCells(W[k - 1], Enc(t, Reduced(t, v)))
      BY <2>1, SentFieldType
    <2>4. enc(k) = Enc(t, Reduced(t, v))
      BY <2>2 DEF t
    <2>. HIDE DEF enc
    <2>. QED  BY <2>2, <2>3, <2>4 DEF t
  <1>. HIDE DEF n, enc
  <1>4. W[0] \in Writers
    BY <1>1, Constants DEF Writers
  <1>5. ASSUME NEW k \in 1..n, W[k - 1] \in Writers
        PROVE  /\ W[k] \in Writers
               /\ W[k].ok =>
                    /\ W[k - 1].ok
                    /\ W[k].offset = W[k - 1].offset + Len(enc(k))
                    /\ \A i \in 1..W[k - 1].offset : W[k].buffer[i] = W[k - 1].buffer[i]
                    /\ \A j \in 1..Len(enc(k)) :
                          W[k].buffer[W[k - 1].offset + j] = enc(k)[j]
    BY <1>3, <1>5, WriteCellsStep
  <1>6. \A k \in 0..n : W[k] \in Writers
    <2>. DEFINE S == {k \in 0..n : W[k] \in Writers}
    <2>1. 0 \in S
      BY <1>2, <1>4
    <2>2. \A k \in 1..n : k - 1 \in S => k \in S
      BY <1>2, <1>5
    <2>. HIDE DEF S
    <2>3. 0..n \subseteq S
      BY <1>2, <2>1, <2>2, Upwards
    <2>. QED  BY <2>3 DEF S
  <1>7. n \in 0..n /\ \A k \in 1..n : k - 1 \in 0..n /\ k \in 0..n
    BY <1>2
  <1>8. \A k \in 0..n : W[k].offset \in 0..MaxPayloadSize
    BY <1>6 DEF Writers
  <1>9. ASSUME NEW k \in 1..n  PROVE Len(enc(k)) \in Nat
    BY <1>3
  <1>10. ASSUME W[n].ok  PROVE \E O : Laid(p.fields, Sent(p), O, W[n].buffer, W[n].offset)
    <2>. DEFINE Kept(k) == /\ W[k].ok /\ W[k].offset <= W[n].offset
                           /\ \A i \in 1..W[k].offset : W[n].buffer[i] = W[k].buffer[i]
                S == {j \in 0..n : Kept(n - j)}
                O == [k \in 0..n |-> W[k].offset]
    <2>1. 0 \in S
      <3>1. Kept(n)
        BY <1>7, <1>8, <1>10, Constants
      <3>2. n - 0 = n
        BY <1>2
      <3>. QED  BY <1>2, <3>1, <3>2
    <2>2. ASSUME NEW k \in 1..n, Kept(k)  PROVE Kept(k - 1)
      <3>1. W[k - 1] \in Writers
        BY <1>6, <1>7
      <3>2. PICK x, y, e \in Nat : /\ x = W[k - 1].offset /\ y = W[k].offset
                                   /\ e = Len(enc(k)) /\ W[n].offset \in Nat
        <4>1. /\ W[k - 1].offset \in Nat /\ W[k].offset \in Nat /\ Len(enc(k)) \in Nat
              /\ W[n].offset \in Nat
          BY <1>7, <1>8, <1>9, Constants
        <4>. QED  BY <4>1, Zenon
      <3>3. W[k - 1].ok /\ y = x + e
        BY <1>5, <2>2, <3>1, <3>2
      <3>4. \A i \in 1..x : i \in 1..y
        BY <3>3
      <3>5. \A i \in 1..x : W[n].buffer[i] = W[k - 1].buffer[i]
        BY <1>5, <2>2, <3>1, <3>2, <3>4
      <3>6. x <= W[n].offset
        BY <2>2, <3>2, <3>3
      <3>. QED  BY <3>2, <3>3, <3>5, <3>6
    <2>3. ASSUME NEW j \in 1..n, j - 1 \in S  PROVE j \in S
      <3>1. n - (j - 1) \in 1..n /\ (n - (j - 1)) - 1 = n - j
        BY <1>2
      <3>. HIDE DEF Kept
      <3>2. Kept(n - (j - 1))
        BY <2>3
      <3>3. Kept((n - (j - 1)) - 1)
        BY <2>2, <3>1, <3>2
      <3>. QED  BY <3>1, <3>3
    <2>4. 0..n \subseteq S
      <3>. HIDE DEF S
      <3>. QED  BY <1>2, <2>1, <2>3, Upwards
    <2>5. ASSUME NEW k \in 0..n  PROVE Kept(k)
      <3>1. n - k \in 0..n /\ n - (n - k) = k
        BY <1>2
      <3>. HIDE DEF Kept
      <3>. QED  BY <2>4, <3>1
    <2>6. ASSUME NEW k \in 1..n
          PROVE  /\ FieldAt(W[n].buffer, W[n].offset, O[k - 1], p.fields[k], Sent(p)[k])
                 /\ O[k] = O[k - 1] + Len(enc(k))
      <3>1. W[k - 1] \in Writers /\ Kept(k)
        BY <1>6, <1>7, <2>5
      <3>2. PICK x, y, e \in Nat : /\ x = W[k - 1].offset /\ y = W[k].offset
                                   /\ e = Len(enc(k)) /\ W[n].offset \in Nat
        <4>1. /\ W[k - 1].offset \in Nat /\ W[k].offset \in Nat /\ Len(enc(k)) \in Nat
              /\ W[n].offset \in Nat
          BY <1>7, <1>8, <1>9, Constants
        <4>. QED  BY <4>1, Zenon
      <3>3. y = x + e /\ y <= W[n].offset
        BY <1>5, <3>1, <3>2
      <3>4. O[k - 1] = x /\ O[k] = y
        BY <1>7, <3>2
      <3>5. \A j \in 1..e : x + j \in 1..y
        BY <3>3
      <3>6. \A j \in 1..e : W[n].buffer[x + j] = enc(k)[j]
        BY <1>5, <3>1, <3>2, <3>5
      <3>7. FieldAt(W[n].buffer, W[n].offset, x, p.fields[k], Sent(p)[k])
        BY <1>3, <3>2, <3>3, <3>6 DEF FieldAt, enc
      <3>. HIDE DEF O
      <3>. QED  BY <3>2, <3>3, <3>4, <3>7
    <2>7. O[0] = 0
      BY <1>1, <1>2
    <2>. HIDE DEF O
    <2>8. Laid(p.fields, Sent(p), O, W[n].buffer, W[n].offset)
      BY <2>6, <2>7 DEF Laid, n, enc
    <2>. QED  BY <2>8
  <1>11. W[n] \in Writers
    BY <1>6, <1>7
  <1>. QED  BY <1>1, <1>10, <1>11

-----------------------------------------------------------------------------
(* Reading *)

Readers(len) == [offset : 0..len, values : Seq(Seq(Words)),
                 result : {"ok", "error", "panic"}]

ReadField(r, m, type) ==
    IF r.result # "ok" THEN r ELSE IF type = "int" THEN readInt(r, m) ELSE readString(r, m)

\* s[x:y], a slice in range.
LEMMA PartOf ==
    ASSUME NEW T, NEW b, NEW x \in Nat, NEW y \in Nat, x <= y,
           \A i \in (x + 1)..y : b[i] \in T
    PROVE  /\ SubSeq(b, x + 1, y) \in Seq(T)
           /\ Len(SubSeq(b, x + 1, y)) = y - x
           /\ \A j \in 1..(y - x) : SubSeq(b, x + 1, y)[j] = b[x + j]
  <1>1. PICK s : s = SubSeq(b, x + 1, y)
    OBVIOUS
  <1>2. /\ s \in Seq(T)
        /\ Len(s) = IF x + 1 <= y THEN y - (x + 1) + 1 ELSE 0
        /\ \A i \in 1..(y - (x + 1) + 1) : s[i] = b[(x + 1) + i - 1]
    BY <1>1, SubSeqProperties
  <1>3. (IF x + 1 <= y THEN y - (x + 1) + 1 ELSE 0) = y - x
    OBVIOUS
  <1>4. \A j \in 1..(y - x) : j \in 1..(y - (x + 1) + 1) /\ (x + 1) + j - 1 = x + j
    OBVIOUS
  <1>. QED  BY <1>1, <1>2, <1>3, <1>4

\* A part of the buffer.
LEMMA Part ==
    ASSUME NEW b \in Cells, NEW x \in Nat, NEW y \in Nat, x <= y, y <= MaxPayloadSize
    PROVE  /\ SubSeq(b, x + 1, y) \in Seq(Words)
           /\ Len(SubSeq(b, x + 1, y)) = y - x
           /\ \A j \in 1..(y - x) : SubSeq(b, x + 1, y)[j] = b[x + j]
  <1>1. \A i \in (x + 1)..y : b[i] \in Words
    BY Constants DEF Cells
  <1>. QED  BY <1>1, PartOf

\* The payload: the first len cells of the buffer.
LEMMA PayloadCells ==
    ASSUME NEW b \in Cells, NEW len \in 0..MaxPayloadSize
    PROVE  /\ SubSeq(b, 1, len) \in Seq(Words)
           /\ Len(SubSeq(b, 1, len)) = len
           /\ \A i \in 1..len : SubSeq(b, 1, len)[i] = b[i]
  <1>1. len \in Nat /\ 0 <= len /\ len <= MaxPayloadSize /\ 0 + 1 = 1 /\ len - 0 = len
    BY Constants
  <1>2. \A i \in 1..len : 0 + i = i
    BY <1>1
  <1>3. /\ SubSeq(b, 0 + 1, len) \in Seq(Words)
        /\ Len(SubSeq(b, 0 + 1, len)) = len - 0
        /\ \A j \in 1..(len - 0) : SubSeq(b, 0 + 1, len)[j] = b[0 + j]
    BY <1>1, Part
  <1>. QED  BY <1>1, <1>2, <1>3

\* The readers are made of offset, values and result.
LEMMA ReaderType ==
    ASSUME NEW len
    PROVE  /\ \A o \in 0..len, v \in Seq(Seq(Words)), res \in {"ok", "error", "panic"} :
                 [offset |-> o, values |-> v, result |-> res] \in Readers(len)
           /\ \A r \in Readers(len) : /\ [r EXCEPT !.result = "error"] \in Readers(len)
                                      /\ [r EXCEPT !.result = "error"].result = "error"
  BY DEF Readers

\* readInt returns the next cell, or an error at the end of the payload.
LEMMA ReadIntStep ==
    ASSUME NEW b \in Cells, NEW len \in 0..MaxPayloadSize, NEW r \in Readers(len),
           r.result = "ok"
    PROVE  LET x == readInt(r, [buffer |-> b, length |-> len]) IN
           /\ x \in Readers(len)
           /\ r.offset + 1 > len => x.result = "error"
           /\ r.offset + 1 <= len =>
                x = [offset |-> r.offset + 1, values |-> Append(r.values, <<b[r.offset + 1]>>),
                     result |-> "ok"]
  <1>. DEFINE m == [buffer |-> b, length |-> len]
  <1>1. PICK o \in Nat : o = r.offset /\ o <= len /\ len \in Nat
    BY Constants DEF Readers
  <1>2. Add(o, 1) = o + 1
    <2>1. o + 1 < Modulus
      BY <1>1, Constants
    <2>. QED  BY <2>1, NoWrap
  <1>3. CASE o + 1 > len
    <2>1. readInt(r, m) = [r EXCEPT !.result = "error"]
      BY <1>1, <1>2, <1>3 DEF readInt, ParserError
    <2>2. readInt(r, m).result = "error" /\ readInt(r, m) \in Readers(len)
      BY <2>1, ReaderType
    <2>3. ~(o + 1 <= len)
      BY <1>1, <1>3
    <2>. QED  BY <1>1, <2>2, <2>3
  <1>4. CASE o + 1 <= len
    <2>1. readInt(r, m) = [offset |-> o + 1, values |-> Append(r.values, <<b[o + 1]>>),
                           result |-> "ok"]
      <3>1. m.buffer = b /\ m.length = len /\ r.offset = o /\ ~(len < o + 1)
        BY <1>1, <1>4
      <3>. HIDE DEF m
      <3>. QED  BY <1>2, <3>1 DEF readInt
    <2>2. o + 1 \in 1..MaxPayloadSize /\ o + 1 \in 0..len
      BY <1>1, <1>4, Constants
    <2>3. <<b[o + 1]>> \in Seq(Words)
      BY <2>2 DEF Cells
    <2>4. Append(r.values, <<b[o + 1]>>) \in Seq(Seq(Words))
      <3>1. r.values \in Seq(Seq(Words))
        BY DEF Readers
      <3>. QED  BY <2>3, <3>1, AppendProperties
    <2>5. readInt(r, m) \in Readers(len)
      BY <2>1, <2>2, <2>4, ReaderType
    <2>. QED  BY <1>1, <1>4, <2>1, <2>5
  <1>. QED  BY <1>1, <1>3, <1>4

\* readString returns the string behind the next cell, or an error if the
\* payload is shorter than that cell declares: it never slices out of range.
LEMMA ReadStringStep ==
    ASSUME NEW b \in Cells, NEW len \in 0..MaxPayloadSize, NEW r \in Readers(len),
           r.result = "ok"
    PROVE  LET x == readString(r, [buffer |-> b, length |-> len])
               d == r.offset + 1 IN
           /\ x \in Readers(len)
           /\ d > len \/ d + b[d] > len => x.result = "error"
           /\ d <= len => b[d] \in Words
           /\ d <= len /\ d + b[d] <= len =>
                x = [offset |-> d + b[d],
                     values |-> Append(r.values, SubSeq(b, d + 1, d + b[d])),
                     result |-> "ok"]
  <1>. DEFINE m == [buffer |-> b, length |-> len]
  <1>1. PICK o \in Nat : o = r.offset /\ o <= len /\ len \in Nat
    BY Constants DEF Readers
  <1>2. PICK d \in Nat : d = o + 1
    OBVIOUS
  <1>3. Add(o, 1) = d
    <2>1. o + 1 < Modulus
      BY <1>1, Constants
    <2>. QED  BY <1>2, <2>1, NoWrap
  <1>4. d <= len => b[d] \in Words /\ b[d] \in Nat
    <2>1. d <= len => d \in 1..MaxPayloadSize
      BY <1>1, <1>2, Constants
    <2>. QED  BY <2>1, Constants DEF Cells
  <1>5. CASE d > len \/ (d <= len /\ d + b[d] > len)
    <2>1. len < d \/ b[d] > len - d
      BY <1>1, <1>4, <1>5
    <2>2. readString(r, m) = [r EXCEPT !.result = "error"]
      BY <1>1, <1>3, <2>1 DEF readString, ParserError
    <2>3. readString(r, m).result = "error" /\ readString(r, m) \in Readers(len)
      BY <2>2, ReaderType
    <2>4. ~(d <= len /\ d + b[d] <= len)
      BY <1>1, <1>4, <1>5
    <2>. QED  BY <1>1, <1>2, <1>4, <2>3, <2>4
  <1>6. CASE d <= len /\ d + b[d] <= len
    <2>1. PICK y \in Nat : y = d + b[d] /\ y <= len /\ d <= y
      BY <1>4, <1>6
    <2>2. ~(len < d) /\ ~(b[d] > len - d)
      BY <1>1, <1>4, <1>6
    <2>3. Add(d, b[d]) = y
      <3>1. d + b[d] < Modulus
        BY <1>1, <2>1, Constants
      <3>. QED  BY <1>4, <1>6, <2>1, <3>1, NoWrap
    <2>4. y <= Len(b)
      <3>1. Len(b) = MaxPayloadSize
        BY Constants DEF Cells
      <3>. QED  BY <1>1, <2>1, <3>1, Constants
    <2>5. readString(r, m) = [offset |-> y, values |-> Append(r.values, SubSeq(b, d + 1, y)),
                              result |-> "ok"]
      BY <1>1, <1>3, <2>1, <2>2, <2>3, <2>4 DEF readString, Slice
    <2>6. SubSeq(b, d + 1, y) \in Seq(Words)
      <3>1. y <= MaxPayloadSize
        BY <1>1, <2>1, Constants
      <3>. QED  BY <2>1, <3>1, Part
    <2>7. Append(r.values, SubSeq(b, d + 1, y)) \in Seq(Seq(Words))
      <3>1. r.values \in Seq(Seq(Words))
        BY DEF Readers
      <3>. QED  BY <2>6, <3>1, AppendProperties
    <2>8. readString(r, m) \in Readers(len)
      <3>1. y \in 0..len
        BY <1>1, <2>1
      <3>. QED  BY <2>5, <2>7, <3>1, ReaderType
    <2>9. ~(d > len \/ d + b[d] > len)
      BY <1>1, <1>4, <1>6
    <2>. HIDE DEF m
    <2>. QED  BY <1>1, <1>2, <1>4, <1>6, <2>1, <2>5, <2>8, <2>9 DEF m
  <1>. QED  BY <1>1, <1>4, <1>5, <1>6

\* A field that is there is read, and nothing else is: what readInt and
\* readString return is the field behind the offset, or an error if there is none.
LEMMA ReadFieldStep ==
    ASSUME NEW b \in Cells, NEW len \in 0..MaxPayloadSize, NEW r \in Readers(len),
           r.result = "ok", NEW type \in Types
    PROVE  LET x == ReadField(r, [buffer |-> b, length |-> len], type) IN
           /\ x \in Readers(len) /\ x.result \in {"ok", "error"}
           /\ \A v \in Seq(Words) :
                 FieldAt(b, len, r.offset, type, v) =>
                    x = [offset |-> r.offset + Len(Enc(type, v)),
                         values |-> Append(r.values, v), result |-> "ok"]
           /\ x.result = "ok" => \E v \in Seq(Words) : FieldAt(b, len, r.offset, type, v)
  <1>. DEFINE m == [buffer |-> b, length |-> len]
              x == ReadField(r, m, type)
  <1>1. PICK o \in Nat : o = r.offset /\ o <= len /\ len \in Nat /\ len <= MaxPayloadSize
    BY Constants DEF Readers
  <1>2. PICK d \in Nat : d = o + 1
    OBVIOUS
  <1>3. d <= len => b[d] \in Words /\ b[d] \in Nat
    <2>1. d <= len => d \in 1..MaxPayloadSize
      BY <1>1, <1>2, Constants
    <2>. QED  BY <2>1, Constants DEF Cells
  <1>4. CASE type = "int"
    <2>1. /\ x \in Readers(len)
          /\ d > len => x.result = "error"
          /\ d <= len => x = [offset |-> d, values |-> Append(r.values, <<b[d]>>),
                              result |-> "ok"]
      <3>1. x = readInt(r, m)
        BY <1>4 DEF ReadField
      <3>. QED  BY <1>1, <1>2, <3>1, ReadIntStep
    <2>2. x.result \in {"ok", "error"}
      BY <1>1, <2>1
    <2>3. ASSUME NEW v \in Seq(Words), FieldAt(b, len, o, type, v)
          PROVE  x = [offset |-> o + Len(Enc(type, v)), values |-> Append(r.values, v),
                      result |-> "ok"]
      <3>0. Enc(type, v) = v
        BY <1>4 DEF Enc
      <3>1. Enc(type, v) = v /\ Len(v) = 1 /\ o + Len(v) <= len /\ b[o + 1] = v[1]
        <4>1. /\ Len(v) = 1 /\ o + Len(v) <= len
              /\ \A j \in 1..Len(v) : b[o + j] = v[j]
          BY <1>4, <2>3, <3>0 DEF FieldAt
        <4>2. 1 \in 1..Len(v)
          BY <4>1
        <4>. QED  BY <3>0, <4>1, <4>2
      <3>2. v = <<b[d]>> /\ d <= len /\ o + Len(Enc(type, v)) = d
        BY <1>1, <1>2, <3>1
      <3>. HIDE DEF x
      <3>. QED  BY <2>1, <3>2
    <2>4. ASSUME x.result = "ok"  PROVE \E v \in Seq(Words) : FieldAt(b, len, o, type, v)
      <3>1. d <= len
        BY <1>1, <2>1, <2>4
      <3>2. PICK v : v = <<b[d]>>
        OBVIOUS
      <3>3. v \in Seq(Words) /\ Len(v) = 1 /\ v[1] = b[o + 1] /\ Enc(type, v) = v
        BY <1>2, <1>3, <1>4, <3>1, <3>2 DEF Enc
      <3>4. FieldAt(b, len, o, type, v)
        <4>1. o + 1 <= len /\ \A j \in 1..1 : b[o + j] = v[j]
          BY <1>2, <3>1, <3>3
        <4>. QED  BY <3>3, <4>1 DEF FieldAt
      <3>. QED  BY <3>3, <3>4
    <2>. HIDE DEF x
    <2>5. QED  BY <1>1, <2>1, <2>2, <2>3, <2>4 DEF x
  <1>5. CASE type = "string"
    <2>1. /\ x \in Readers(len)
          /\ d > len \/ d + b[d] > len => x.result = "error"
          /\ d <= len /\ d + b[d] <= len =>
               x = [offset |-> d + b[d],
                    values |-> Append(r.values, SubSeq(b, d + 1, d + b[d])),
                    result |-> "ok"]
      <3>1. x = readString(r, m)
        BY <1>5 DEF ReadField
      <3>2. PICK y : y = readString(r, m)
        OBVIOUS
      <3>3. d = r.offset + 1
        BY <1>1, <1>2
      <3>4. /\ y \in Readers(len)
            /\ d > len \/ d + b[d] > len => y.result = "error"
            /\ d <= len /\ d + b[d] <= len =>
                 y = [offset |-> d + b[d],
                      values |-> Append(r.values, SubSeq(b, d + 1, d + b[d])),
                      result |-> "ok"]
        BY <3>2, <3>3, ReadStringStep, Zenon
      <3>. HIDE DEF x
      <3>. QED  BY <3>1, <3>2, <3>4, Zenon
    <2>2. x.result \in {"ok", "error"}
      BY <1>1, <1>3, <2>1
    <2>3. ASSUME d <= len, d + b[d] <= len
          PROVE  /\ SubSeq(b, d + 1, d + b[d]) \in Seq(Words)
                 /\ Len(SubSeq(b, d + 1, d + b[d])) = b[d]
                 /\ \A j \in 1..b[d] : SubSeq(b, d + 1, d + b[d])[j] = b[d + j]
      <3>1. PICK y \in Nat : y = d + b[d] /\ d <= y /\ y - d = b[d] /\ y <= MaxPayloadSize
        BY <1>1, <1>3, <2>3, Constants
      <3>. QED  BY <3>1, Part
    <2>4. ASSUME NEW v \in Seq(Words), FieldAt(b, len, o, type, v)
          PROVE  x = [offset |-> o + Len(Enc(type, v)), values |-> Append(r.values, v),
                      result |-> "ok"]
      <3>1. PICK n \in Nat : n = Len(v)
        OBVIOUS
      <3>2. v \in Seq(Nat)
        BY NumberCells
      <3>3. /\ Len(Enc(type, v)) = n + 1 /\ Enc(type, v)[1] = n
            /\ \A j \in 1..n : Enc(type, v)[j + 1] = v[j]
        BY <1>5, <3>1, <3>2, EncType
      <3>4. /\ o + (n + 1) <= len
            /\ \A j \in 1..(n + 1) : b[o + j] = Enc(type, v)[j]
        BY <2>4, <3>3 DEF FieldAt
      <3>5. b[d] = n
        <4>1. 1 \in 1..(n + 1)
          OBVIOUS
        <4>. QED  BY <1>2, <3>3, <3>4, <4>1
      <3>6. \A j \in 1..n : b[d + j] = v[j]
        <4>1. \A j \in 1..n : j + 1 \in 1..(n + 1) /\ o + (j + 1) = d + j
          BY <1>2
        <4>. QED  BY <3>3, <3>4, <4>1
      <3>7. d <= len /\ d + b[d] <= len /\ o + Len(Enc(type, v)) = d + b[d]
        <4>1. o + (n + 1) <= len
          BY <3>4
        <4>2. d <= len /\ d + n <= len /\ o + (n + 1) = d + n
          <5>1. n \in Nat /\ o \in Nat /\ d = o + 1 /\ len \in Nat
            BY <1>1, <1>2, <3>1
          <5>. HIDE DEF x, m
          <5>. QED  BY <4>1, <5>1
        <4>. QED  BY <3>3, <3>5, <4>2
      <3>8. SubSeq(b, d + 1, d + b[d]) = v
        BY <2>3, <3>1, <3>5, <3>6, <3>7, SeqEqual
      <3>. HIDE DEF x
      <3>. QED  BY <2>1, <3>7, <3>8
    <2>5. ASSUME x.result = "ok"  PROVE \E v \in Seq(Words) : FieldAt(b, len, o, type, v)
      <3>1. d <= len /\ d + b[d] <= len
        BY <1>1, <1>3, <2>1, <2>5
      <3>2. PICK n \in Nat : n = b[d]
        BY <1>3, <3>1
      <3>3. PICK v : v = SubSeq(b, d + 1, d + b[d])
        OBVIOUS
      <3>4. v \in Seq(Words) /\ Len(v) = n /\ \A j \in 1..n : v[j] = b[d + j]
        BY <2>3, <3>1, <3>2, <3>3
      <3>5. v \in Seq(Nat)
        BY <3>4, NumberCells
      <3>6. /\ Len(Enc(type, v)) = n + 1 /\ Enc(type, v)[1] = n
            /\ \A j \in 1..n : Enc(type, v)[j + 1] = v[j]
        BY <1>5, <3>4, <3>5, EncType
      <3>7. o + (n + 1) <= len
        BY <1>1, <1>2, <3>1, <3>2
      <3>8. ASSUME NEW j \in 1..(n + 1)  PROVE b[o + j] = Enc(type, v)[j]
        <4>1. CASE j = 1
          BY <1>2, <3>2, <3>6, <4>1
        <4>2. CASE j # 1
          <5>1. j - 1 \in 1..n /\ (j - 1) + 1 = j /\ d + (j - 1) = o + j
            BY <1>2, <4>2
          <5>. QED  BY <3>4, <3>6, <5>1
        <4>. QED  BY <4>1, <4>2
      <3>9. FieldAt(b, len, o, type, v)
        BY <1>5, <3>6, <3>7, <3>8 DEF FieldAt
      <3>. QED  BY <3>4, <3>9
    <2>. HIDE DEF x
    <2>6. QED  BY <1>1, <2>1, <2>2, <2>4, <2>5 DEF x
  <1>. QED  BY <1>4, <1>5 DEF Types

\* R[k] is the parser after k fields.
Reading(R, fields, m) ==
    /\ R[0] = [offset |-> 0, values |-> <<>>, result |-> "ok"]
    /\ \A k \in 1..Len(fields) : R[k] = ReadField(R[k - 1], m, fields[k])
    /\ GetPayload(fields, m) = R[Len(fields)]

\* A field is read without leaving the payload, whatever it holds.
LEMMA ReadFieldType ==
    ASSUME NEW b \in Cells, NEW len \in 0..MaxPayloadSize, NEW r \in Readers(len),
           NEW type \in Types
    PROVE  /\ ReadField(r, [buffer |-> b, length |-> len], type) \in Readers(len)
           /\ r.result # "ok" => ReadField(r, [buffer |-> b, length |-> len], type) = r
  <1>1. CASE r.result = "ok"
    BY <1>1, ReadFieldStep
  <1>2. CASE r.result # "ok"
    BY <1>2 DEF ReadField
  <1>. QED  BY <1>1, <1>2

\* Get... reads the fields in their order.
LEMMA ReadUnfolds ==
    ASSUME NEW b \in Cells, NEW len \in 0..MaxPayloadSize, NEW fields \in Seq(Types)
    PROVE  \E R : Reading(R, fields, [buffer |-> b, length |-> len])
  <1>. DEFINE n == Len(fields)
              m == [buffer |-> b, length |-> len]
              base == [offset |-> 0, values |-> <<>>, result |-> "ok"]
              step == [k \in 1..n |-> [r \in Readers(len) |-> ReadField(r, m, fields[k])]]
              Eq(G) == G = [s \in SUBSET DOMAIN fields |->
                          IF s = {} THEN base
                          ELSE IF G[s \ {Max(s)}].result # "ok" THEN G[s \ {Max(s)}]
                               ELSE IF fields[Max(s)] = "int"
                                    THEN readInt(G[s \ {Max(s)}], m)
                                    ELSE readString(G[s \ {Max(s)}], m)]
              iter == CHOOSE G : Eq(G)
  <1>1. n \in Nat /\ DOMAIN fields = 1..n
    OBVIOUS
  <1>2. base \in Readers(len)
    <2>1. 0 \in 0..len /\ <<>> \in Seq(Seq(Words))
      BY Constants
    <2>. QED  BY <2>1, ReaderType
  <1>3. step \in [1..n -> [Readers(len) -> Readers(len)]]
    <2>1. ASSUME NEW k \in 1..n, NEW r \in Readers(len)
          PROVE  ReadField(r, m, fields[k]) \in Readers(len)
      BY <1>1, ReadFieldType
    <2>. QED  BY <2>1
  <1>4. PICK F \in [SUBSET (1..n) -> Readers(len)] : FoldEquation(F, n, base, step)
    <2>. HIDE DEF n, base, step
    <2>. QED  BY <1>1, <1>2, <1>3, FoldExists
  <1>5. ASSUME NEW s \in SUBSET (1..n), s # {}
        PROVE  /\ Max(s) \in 1..n
               /\ s \ {Max(s)} \in SUBSET (1..n)
    BY <1>1, <1>5, MaxType
  <1>6. Eq(F)
    <2>1. ASSUME NEW s \in SUBSET (1..n), s # {}
          PROVE  step[Max(s)][F[s \ {Max(s)}]] = ReadField(F[s \ {Max(s)}], m, fields[Max(s)])
      BY <1>1, <1>5, <2>1
    <2>. HIDE DEF n, base, step, m
    <2>. QED  BY <1>1, <1>4, <2>1 DEF FoldEquation, ReadField
  <1>7. Eq(iter)
    <2>. HIDE DEF Eq
    <2>. QED  BY <1>6
  <1>8. GetPayload(fields, m) = iter[DOMAIN fields]
    BY DEF GetPayload, FoldLeft, MapThenFoldSet
  <1>9. ASSUME NEW k \in 1..n
        PROVE  iter[1..k] = ReadField(iter[1..(k - 1)], m, fields[k])
    <2>1. Max(1..k) = k
      BY <1>1, MaxIsLast
    <2>2. 1..k \in SUBSET DOMAIN fields /\ 1..k # {} /\ (1..k) \ {k} = 1..(k - 1)
      <3>. HIDE DEF iter, base, step, m, n, Eq
      <3>1. k \in Nat /\ 1 <= k /\ k <= n /\ k \in 1..k
        BY <1>1
      <3>2. (1..k) \ {k} = 1..(k - 1)
        BY <3>1
      <3>3. 1..k \in SUBSET (1..n)
        BY <1>1, <3>1
      <3>. QED  BY <1>1, <3>1, <3>2, <3>3
    <2>3. iter[1..k] = ReadField(iter[(1..k) \ {Max(1..k)}], m, fields[Max(1..k)])
      <3>. HIDE DEF iter, base, n, m
      <3>. QED  BY <1>7, <2>2 DEF ReadField
    <2>. HIDE DEF iter, base, n, m
    <2>. QED  BY <2>1, <2>2, <2>3, Zenon
  <1>10. iter[1..0] = base
    <2>1. 1..0 = {}
      OBVIOUS
    <2>. HIDE DEF iter, base, n
    <2>. QED  BY <1>7, <2>1
  <1>. DEFINE R == [k \in 0..n |-> iter[1..k]]
  <1>11. R[0] = base /\ \A k \in 1..n : R[k] = ReadField(R[k - 1], m, fields[k])
    <2>. HIDE DEF iter, base, n, m
    <2>. QED  BY <1>1, <1>9, <1>10
  <1>12. GetPayload(fields, m) = R[n]
    <2>. HIDE DEF iter, n, m
    <2>. QED  BY <1>1, <1>8
  <1>. QED  BY <1>11, <1>12 DEF Reading

\* Values that are there are read, in their order: Get... returns them.
LEMMA LaidIsRead ==
    ASSUME NEW b \in Cells, NEW len \in 0..MaxPayloadSize, NEW fields \in Seq(Types),
           NEW v \in [1..Len(fields) -> Seq(Words)],
           NEW O, Laid(fields, v, O, b, len)
    PROVE  LET r == GetPayload(fields, [buffer |-> b, length |-> len]) IN
           r.result = "ok" /\ r.values = v
  <1>. DEFINE n == Len(fields)
              m == [buffer |-> b, length |-> len]
  <1>1. PICK R : Reading(R, fields, m)
    BY ReadUnfolds
  <1>2. /\ R[0] = [offset |-> 0, values |-> <<>>, result |-> "ok"]
        /\ \A k \in 1..n : R[k] = ReadField(R[k - 1], m, fields[k])
        /\ GetPayload(fields, m) = R[n]
    BY <1>1 DEF Reading
  <1>3. n \in Nat /\ \A k \in 1..n : fields[k] \in Types /\ k - 1 \in 0..n
    OBVIOUS
  <1>4. /\ O[0] = 0
        /\ \A k \in 1..n : /\ FieldAt(b, len, O[k - 1], fields[k], v[k])
                           /\ O[k] = O[k - 1] + Len(Enc(fields[k], v[k]))
    BY DEF Laid
  <1>. DEFINE Good(k) == /\ R[k] \in Readers(len) /\ R[k].result = "ok"
                         /\ R[k].offset = O[k] /\ Len(R[k].values) = k
                         /\ \A i \in 1..k : R[k].values[i] = v[i]
              S == {k \in 0..n : Good(k)}
  <1>5. 0 \in S
    <2>1. R[0] \in Readers(len) /\ R[0].values = <<>> /\ R[0].offset = 0 /\ R[0].result = "ok"
      <3>1. 0 \in 0..len /\ <<>> \in Seq(Seq(Words))
        BY Constants
      <3>2. [offset |-> 0, values |-> <<>>, result |-> "ok"] \in Readers(len)
        BY <3>1, ReaderType
      <3>. QED  BY <1>2, <3>2
    <2>2. Len(<<>>) = 0 /\ 1..0 = {}
      OBVIOUS
    <2>. QED  BY <1>3, <1>4, <2>1, <2>2
  <1>6. ASSUME NEW k \in 1..n, k - 1 \in S  PROVE k \in S
    <2>1. PICK r \in Readers(len) : r = R[k - 1]
      BY <1>6
    <2>2. PICK q \in Nat : q = k - 1 /\ k = q + 1
      BY <1>3
    <2>3. /\ r.result = "ok" /\ r.offset = O[k - 1] /\ Len(r.values) = q
          /\ \A i \in 1..q : r.values[i] = v[i]
      BY <1>6, <2>1, <2>2
    <2>4. R[k] = [offset |-> O[k], values |-> Append(r.values, v[k]), result |-> "ok"]
      <3>1. R[k] = ReadField(r, m, fields[k])
        BY <1>2, <2>1
      <3>2. /\ FieldAt(b, len, r.offset, fields[k], v[k]) /\ v[k] \in Seq(Words)
            /\ O[k] = r.offset + Len(Enc(fields[k], v[k])) /\ fields[k] \in Types
        BY <1>3, <1>4, <2>3
      <3>3. \A u \in Seq(Words) : FieldAt(b, len, r.offset, fields[k], u) =>
               ReadField(r, m, fields[k]) = [offset |-> r.offset + Len(Enc(fields[k], u)),
                                             values |-> Append(r.values, u), result |-> "ok"]
        BY <2>3, <3>2, ReadFieldStep
      <3>. HIDE DEF m
      <3>. QED  BY <3>1, <3>2, <3>3
    <2>5. R[k] \in Readers(len)
      BY <1>2, <1>3, <2>1, ReadFieldType
    <2>6. r.values \in Seq(Seq(Words)) /\ v[k] \in Seq(Words)
      BY DEF Readers
    <2>7. /\ Len(Append(r.values, v[k])) = k
          /\ \A i \in 1..q : Append(r.values, v[k])[i] = v[i]
          /\ Append(r.values, v[k])[k] = v[k]
      BY <2>2, <2>3, <2>6, AppendProperties
    <2>8. \A i \in 1..k : i \in 1..q \/ i = k
      BY <2>2
    <2>9. Good(k)
      <3>1. /\ R[k].result = "ok" /\ R[k].offset = O[k]
            /\ R[k].values = Append(r.values, v[k])
        BY <2>4
      <3>2. \A i \in 1..k : Append(r.values, v[k])[i] = v[i]
        BY <2>7, <2>8
      <3>. QED  BY <2>5, <2>7, <3>1, <3>2
    <2>. QED  BY <1>3, <2>9
  <1>7. Good(n)
    <2>1. n \in S
      <3>. HIDE DEF S, n
      <3>1. 0..n \subseteq S
        BY <1>3, <1>5, <1>6, Upwards
      <3>. QED  BY <1>3, <3>1
    <2>. QED  BY <2>1
  <1>8. R[n].values = v
    <2>1. R[n].values \in Seq(Seq(Words))
      BY <1>7 DEF Readers
    <2>2. R[n].values \in [1..n -> Seq(Words)]
      BY <1>7, <2>1
    <2>. QED  BY <1>7, <2>2
  <1>. QED  BY <1>2, <1>7, <1>8

\* What is read was there: a Get... that succeeds returns values that the
\* payload holds one after the other, and one that does not reports an error.
LEMMA ReadIsLaid ==
    ASSUME NEW b \in Cells, NEW len \in 0..MaxPayloadSize, NEW fields \in Seq(Types)
    PROVE  LET r == GetPayload(fields, [buffer |-> b, length |-> len]) IN
           /\ r.result \in {"ok", "error"}
           /\ r.result = "ok" => /\ r.values \in [1..Len(fields) -> Seq(Words)]
                                 /\ \E O : Laid(fields, r.values, O, b, len)
  <1>. DEFINE n == Len(fields)
              m == [buffer |-> b, length |-> len]
  <1>1. PICK R : Reading(R, fields, m)
    BY ReadUnfolds
  <1>2. /\ R[0] = [offset |-> 0, values |-> <<>>, result |-> "ok"]
        /\ \A k \in 1..n : R[k] = ReadField(R[k - 1], m, fields[k])
        /\ GetPayload(fields, m) = R[n]
    BY <1>1 DEF Reading
  <1>3. n \in Nat /\ \A k \in 1..n : fields[k] \in Types /\ k - 1 \in 0..n
    OBVIOUS
  <1>. DEFINE At(i, u) == /\ FieldAt(b, len, R[i - 1].offset, fields[i], u)
                          /\ R[i].offset = R[i - 1].offset + Len(Enc(fields[i], u))
              Good(k) == /\ R[k] \in Readers(len) /\ R[k].result \in {"ok", "error"}
                         /\ R[k].result = "ok" =>
                              /\ Len(R[k].values) = k
                              /\ \A i \in 1..k : At(i, R[k].values[i])
              S == {k \in 0..n : Good(k)}
  <1>4. 0 \in S
    <2>1. [offset |-> 0, values |-> <<>>, result |-> "ok"] \in Readers(len)
      <3>1. 0 \in 0..len /\ <<>> \in Seq(Seq(Words))
        BY Constants
      <3>. QED  BY <3>1, ReaderType
    <2>2. R[0] \in Readers(len) /\ R[0].values = <<>> /\ R[0].result = "ok"
      BY <1>2, <2>1
    <2>3. Len(<<>>) = 0 /\ 1..0 = {}
      OBVIOUS
    <2>. HIDE DEF At
    <2>. QED  BY <1>3, <2>2, <2>3
  <1>5. ASSUME NEW k \in 1..n, k - 1 \in S  PROVE k \in S
    <2>. HIDE DEF At
    <2>1. PICK r \in Readers(len) : r = R[k - 1] /\ r.result \in {"ok", "error"}
      BY <1>5
    <2>2. PICK q \in Nat : q = k - 1 /\ k = q + 1
      BY <1>3
    <2>3. r.result = "ok" => Len(r.values) = q /\ \A i \in 1..q : At(i, r.values[i])
      BY <1>5, <2>1, <2>2
    <2>4. R[k] = ReadField(r, m, fields[k]) /\ R[k] \in Readers(len)
      BY <1>2, <1>3, <2>1, ReadFieldType
    <2>5. CASE r.result # "ok"
      <3>1. R[k] = r
        BY <1>3, <2>4, <2>5, ReadFieldType
      <3>. QED  BY <1>3, <2>1, <2>4, <2>5, <3>1
    <2>6. CASE r.result = "ok"
      <3>1. fields[k] \in Types
        BY <1>3
      <3>2. /\ R[k].result \in {"ok", "error"}
            /\ \A v \in Seq(Words) : FieldAt(b, len, r.offset, fields[k], v) =>
                  R[k] = [offset |-> r.offset + Len(Enc(fields[k], v)),
                          values |-> Append(r.values, v), result |-> "ok"]
            /\ R[k].result = "ok" =>
                  \E v \in Seq(Words) : FieldAt(b, len, r.offset, fields[k], v)
        BY <2>4, <2>6, <3>1, ReadFieldStep
      <3>3. ASSUME R[k].result = "ok"
            PROVE  Len(R[k].values) = k /\ \A i \in 1..k : At(i, R[k].values[i])
        <4>1. PICK v \in Seq(Words) : FieldAt(b, len, r.offset, fields[k], v)
          BY <3>2, <3>3
        <4>2. /\ R[k].offset = r.offset + Len(Enc(fields[k], v))
              /\ R[k].values = Append(r.values, v)
          <5>1. R[k] = [offset |-> r.offset + Len(Enc(fields[k], v)),
                        values |-> Append(r.values, v), result |-> "ok"]
            BY <3>2, <4>1
          <5>. QED  BY <5>1
        <4>3. At(k, v)
          BY <2>1, <4>1, <4>2 DEF At
        <4>4. r.values \in Seq(Seq(Words))
          BY DEF Readers
        <4>5. /\ Len(Append(r.values, v)) = k
              /\ \A i \in 1..q : Append(r.values, v)[i] = r.values[i]
              /\ Append(r.values, v)[k] = v
          BY <2>2, <2>3, <2>6, <4>4, AppendProperties
        <4>6. \A i \in 1..k : i \in 1..q \/ i = k
          BY <2>2
        <4>7. ASSUME NEW i \in 1..k  PROVE At(i, R[k].values[i])
          <5>1. CASE i \in 1..q
            <6>1. R[k].values[i] = r.values[i]
              BY <4>2, <4>5, <5>1
            <6>. QED  BY <2>3, <2>6, <5>1, <6>1
          <5>2. CASE i = k
            <6>1. R[k].values[i] = v
              BY <4>2, <4>5, <5>2
            <6>. QED  BY <4>3, <5>2, <6>1
          <5>. QED  BY <4>6, <5>1, <5>2
        <4>. QED  BY <4>2, <4>5, <4>7
      <3>. QED  BY <1>3, <2>4, <3>2, <3>3
    <2>. QED  BY <2>5, <2>6
  <1>6. Good(n)
    <2>1. n \in S
      <3>. HIDE DEF S, n
      <3>1. 0..n \subseteq S
        BY <1>3, <1>4, <1>5, Upwards
      <3>. QED  BY <1>3, <3>1
    <2>. HIDE DEF Good
    <2>. QED  BY <2>1
  <1>7. ASSUME R[n].result = "ok"
        PROVE  /\ R[n].values \in [1..n -> Seq(Words)]
               /\ \E O : Laid(fields, R[n].values, O, b, len)
    <2>1. R[n].values \in Seq(Seq(Words)) /\ Len(R[n].values) = n
      <3>. HIDE DEF At
      <3>. QED  BY <1>6, <1>7 DEF Readers
    <2>2. R[n].values \in [1..n -> Seq(Words)]
      BY <2>1
    <2>. DEFINE O == [k \in 0..n |-> R[k].offset]
    <2>3. O[0] = 0
      BY <1>2, <1>3
    <2>4. ASSUME NEW k \in 1..n
          PROVE  /\ FieldAt(b, len, O[k - 1], fields[k], R[n].values[k])
                 /\ O[k] = O[k - 1] + Len(Enc(fields[k], R[n].values[k]))
      <3>1. At(k, R[n].values[k])
        <4>. HIDE DEF At
        <4>. QED  BY <1>6, <1>7
      <3>2. O[k - 1] = R[k - 1].offset /\ O[k] = R[k].offset
        BY <1>3
      <3>. HIDE DEF O
      <3>. QED  BY <3>1, <3>2
    <2>. HIDE DEF O
    <2>5. Laid(fields, R[n].values, O, b, len)
      BY <2>3, <2>4 DEF Laid
    <2>. QED  BY <2>2, <2>5
  <1>8. R[n].result \in {"ok", "error"}
    <2>. HIDE DEF At
    <2>. QED  BY <1>6
  <1>. QED  BY <1>2, <1>7, <1>8

-----------------------------------------------------------------------------
(* The reference: Encode and what a payload holds *)

\* Flattening puts the sequences one behind the other.
LEMMA FlattenUnfolds ==
    ASSUME NEW T, NEW seqs \in Seq(Seq(T)), seqs # <<>>
    PROVE  \E E : /\ E[0] = <<>>
                  /\ \A k \in 1..Len(seqs) : E[k] = E[k - 1] \o seqs[k]
                  /\ FlattenSeq(seqs) = E[Len(seqs)]
  <1>. DEFINE n == Len(seqs)
              Eq(m, G) == G = [i \in 1..m |-> IF i = 1 THEN seqs[i] ELSE G[i - 1] \o seqs[i]]
              S == {m \in 0..n : \E G : Eq(m, G)}
              flatten == CHOOSE G : Eq(n, G)
  <1>1. n \in Nat \ {0}
    BY EmptySeq
  <1>2. 0 \in S
    <2>. DEFINE G == [i \in 1..0 |-> <<>>]
    <2>1. Eq(0, G)
      OBVIOUS
    <2>2. \E X : Eq(0, X)
      <3>. HIDE DEF Eq, G
      <3>. QED  BY <2>1
    <2>. HIDE DEF Eq
    <2>. QED  BY <1>1, <2>2
  <1>3. ASSUME NEW m \in 1..n, m - 1 \in S  PROVE m \in S
    <2>1. PICK G : Eq(m - 1, G)
      BY <1>3
    <2>. DEFINE H == [i \in 1..m |-> IF i = m THEN (IF m = 1 THEN seqs[m] ELSE G[m - 1] \o seqs[m])
                                     ELSE G[i]]
    <2>2. ASSUME NEW i \in 1..m
          PROVE  H[i] = IF i = 1 THEN seqs[i] ELSE H[i - 1] \o seqs[i]
      <3>1. CASE i = m
        BY <3>1
      <3>2. CASE i # m
        <4>1. i \in 1..(m - 1) /\ (i # 1 => i - 1 \in 1..(m - 1) /\ i - 1 # m /\ i - 1 \in 1..m)
          BY <3>2
        <4>2. G[i] = IF i = 1 THEN seqs[i] ELSE G[i - 1] \o seqs[i]
          BY <2>1, <4>1
        <4>. QED  BY <3>2, <4>1, <4>2
      <3>. QED  BY <3>1, <3>2
    <2>3. Eq(m, H)
      BY <2>2
    <2>4. \E X : Eq(m, X)
      <3>. HIDE DEF Eq, H
      <3>. QED  BY <2>3
    <2>. HIDE DEF Eq
    <2>. QED  BY <1>1, <2>4
  <1>4. Eq(n, flatten)
    <2>1. \E G : Eq(n, G)
      <3>1. n \in S
        <4>. HIDE DEF S, n
        <4>1. 0..n \subseteq S
          BY <1>1, <1>2, <1>3, Upwards
        <4>. QED  BY <1>1, <4>1
      <3>. HIDE DEF Eq
      <3>. QED  BY <3>1
    <2>. HIDE DEF Eq
    <2>. QED  BY <2>1
  <1>5. FlattenSeq(seqs) = flatten[n]
    BY <1>1 DEF FlattenSeq
  <1>. DEFINE E == [k \in 0..n |-> IF k = 0 THEN <<>> ELSE flatten[k]]
  <1>6. ASSUME NEW k \in 1..n  PROVE E[k] = E[k - 1] \o seqs[k]
    <2>. HIDE DEF flatten, n
    <2>1. flatten[k] = IF k = 1 THEN seqs[k] ELSE flatten[k - 1] \o seqs[k]
      BY <1>4
    <2>2. seqs[k] \in Seq(T)
      BY DEF n
    <2>3. <<>> \o seqs[k] = seqs[k]
      BY <2>2, ConcatEmptySeq
    <2>4. E[k] = flatten[k] /\ E[k - 1] = IF k = 1 THEN <<>> ELSE flatten[k - 1]
      BY <1>1
    <2>. QED  BY <2>1, <2>3, <2>4
  <1>7. E[0] = <<>> /\ FlattenSeq(seqs) = E[n]
    <2>. HIDE DEF flatten, n
    <2>. QED  BY <1>1, <1>5
  <1>. QED  BY <1>6, <1>7

\* The sequence p begins with s, element by element; and s is in p behind its
\* first elements, as many as e has.
Begins(s, p) == Len(s) <= Len(p) /\ \A i \in 1..Len(s) : p[i] = s[i]
Behind(e, s, p) ==
    /\ Len(e) + Len(s) <= Len(p)
    /\ \A j \in 1..Len(s) : p[Len(e) + j] = s[j]

\* A prefix agrees with the sequence as far as it goes.
LEMMA PrefixElements ==
    ASSUME NEW T, NEW s \in Seq(T), NEW p \in Seq(T)
    PROVE  IsPrefix(s, p) <=> Begins(s, p)
  <1>1. Len(s) \in Nat /\ Len(p) \in Nat
    OBVIOUS
  <1>2. ASSUME NEW q \in Seq(T), NEW n \in Nat, n <= Len(q)
        PROVE  /\ SubSeq(q, 1, n) \in Seq(T) /\ Len(SubSeq(q, 1, n)) = n
               /\ \A i \in 1..n : SubSeq(q, 1, n)[i] = q[i]
    <2>1. 0 + 1 = 1 /\ n - 0 = n /\ \A i \in 1..n : q[i] \in T /\ 0 + i = i
      BY <1>2
    <2>2. \A i \in (0 + 1)..n : q[i] \in T
      BY <2>1
    <2>3. /\ SubSeq(q, 0 + 1, n) \in Seq(T) /\ Len(SubSeq(q, 0 + 1, n)) = n - 0
          /\ \A j \in 1..(n - 0) : SubSeq(q, 0 + 1, n)[j] = q[0 + j]
      BY <2>2, PartOf
    <2>. QED  BY <2>1, <2>3
  <1>3. CASE Len(s) <= Len(p)
    <2>1. PICK u, w : u = SubSeq(s, 1, Len(s)) /\ w = SubSeq(p, 1, Len(s))
      OBVIOUS
    <2>2. /\ u \in Seq(T) /\ Len(u) = Len(s) /\ \A i \in 1..Len(s) : u[i] = s[i]
          /\ w \in Seq(T) /\ Len(w) = Len(s) /\ \A i \in 1..Len(s) : w[i] = p[i]
      BY <1>1, <1>2, <1>3, <2>1
    <2>3. u = w <=> \A i \in 1..Len(s) : p[i] = s[i]
      BY <2>2, SeqEqual
    <2>. QED  BY <1>3, <2>1, <2>3 DEF IsPrefix, Begins
  <1>4. CASE ~(Len(s) <= Len(p))
    BY <1>4 DEF IsPrefix, Begins
  <1>. QED  BY <1>3, <1>4

\* A longer prefix is a shorter one and what comes behind it.
LEMMA PrefixStep ==
    ASSUME NEW T, NEW e \in Seq(T), NEW s \in Seq(T), NEW p \in Seq(T)
    PROVE  IsPrefix(e \o s, p) <=> IsPrefix(e, p) /\ Behind(e, s, p)
  <1>1. PICK x, y, z \in Nat : x = Len(e) /\ y = Len(s) /\ z = Len(p)
    <2>1. Len(e) \in Nat /\ Len(s) \in Nat /\ Len(p) \in Nat
      OBVIOUS
    <2>. QED  BY <2>1, Zenon
  <1>2. PICK c : c = e \o s
    OBVIOUS
  <1>3. /\ c \in Seq(T) /\ Len(c) = x + y
        /\ \A i \in 1..(x + y) : c[i] = IF i <= x THEN e[i] ELSE s[i - x]
    BY <1>1, <1>2, ConcatProperties
  <1>4. /\ IsPrefix(e, p) <=> x <= z /\ \A i \in 1..x : p[i] = e[i]
        /\ IsPrefix(c, p) <=> x + y <= z /\ \A i \in 1..(x + y) : p[i] = c[i]
    <2>1. IsPrefix(e, p) <=> Begins(e, p)
      BY PrefixElements, Zenon
    <2>2. c \in Seq(T)
      BY <1>3
    <2>3. IsPrefix(c, p) <=> Begins(c, p)
      BY <2>2, PrefixElements, Zenon
    <2>. QED  BY <1>1, <1>3, <2>1, <2>3 DEF Begins
  <1>5. ASSUME IsPrefix(c, p)
        PROVE  x <= z /\ (\A i \in 1..x : p[i] = e[i]) /\ \A j \in 1..y : p[x + j] = s[j]
    <2>1. \A i \in 1..x : i \in 1..(x + y) /\ i <= x
      OBVIOUS
    <2>2. \A j \in 1..y : x + j \in 1..(x + y) /\ ~(x + j <= x) /\ (x + j) - x = j
      OBVIOUS
    <2>3. x + y <= z /\ \A i \in 1..(x + y) : p[i] = c[i]
      BY <1>4, <1>5
    <2>4. x <= z
      BY <2>3
    <2>5. \A i \in 1..x : p[i] = e[i]
      BY <1>3, <2>1, <2>3
    <2>6. \A j \in 1..y : p[x + j] = s[j]
      BY <1>3, <2>2, <2>3
    <2>. QED  BY <2>4, <2>5, <2>6
  <1>6. ASSUME x + y <= z, \A i \in 1..x : p[i] = e[i], \A j \in 1..y : p[x + j] = s[j]
        PROVE  \A i \in 1..(x + y) : p[i] = c[i]
    <2>. SUFFICES ASSUME NEW i \in 1..(x + y)  PROVE p[i] = c[i]
      OBVIOUS
    <2>1. CASE i <= x
      <3>1. i \in 1..x
        BY <2>1
      <3>. QED  BY <1>3, <1>6, <2>1, <3>1
    <2>2. CASE ~(i <= x)
      <3>1. i - x \in 1..y /\ x + (i - x) = i
        BY <2>2
      <3>. QED  BY <1>3, <1>6, <2>2, <3>1
    <2>. QED  BY <2>1, <2>2
  <1>7. IsPrefix(c, p) <=> /\ IsPrefix(e, p) /\ x + y <= z
                           /\ \A j \in 1..y : p[x + j] = s[j]
    BY <1>4, <1>5, <1>6
  <1>. QED  BY <1>1, <1>2, <1>7 DEF Behind

\* The encoding of values, field by field.
Encoding(E, fields, v) ==
    /\ E[0] = <<>>
    /\ \A k \in 1..Len(fields) : E[k] = E[k - 1] \o Enc(fields[k], v[k])
    /\ \A k \in 0..Len(fields) : E[k] \in Seq(Nat)
    /\ Encode(fields, v) = E[Len(fields)]

\* Encode puts the fields one behind the other.
LEMMA EncodeUnfolds ==
    ASSUME NEW fields \in Seq(Types), fields # <<>>,
           NEW v \in [1..Len(fields) -> Seq(Words)],
           \A k \in 1..Len(fields) : fields[k] = "int" => Len(v[k]) = 1
    PROVE  \E E : Encoding(E, fields, v)
  <1>. DEFINE n == Len(fields)
              seqs == [k \in DOMAIN fields |-> IF fields[k] = "int" THEN v[k]
                                               ELSE <<Len(v[k])>> \o v[k]]
  <1>1. n \in Nat \ {0} /\ DOMAIN fields = 1..n
    BY EmptySeq
  <1>2. ASSUME NEW k \in 1..n
        PROVE  seqs[k] = Enc(fields[k], v[k]) /\ seqs[k] \in Seq(Nat)
    <2>1. fields[k] \in Types /\ v[k] \in Seq(Nat) /\ (fields[k] = "int" => Len(v[k]) = 1)
      BY <1>1, NumberCells
    <2>2. seqs[k] = Enc(fields[k], v[k])
      BY <1>1 DEF Enc
    <2>. HIDE DEF seqs
    <2>. QED  BY <2>1, <2>2, EncType
  <1>3. seqs \in [1..n -> Seq(Nat)]
    <2>1. DOMAIN seqs = 1..n /\ seqs = [k \in 1..n |-> seqs[k]]
      BY <1>1
    <2>. HIDE DEF seqs
    <2>. QED  BY <1>2, <2>1
  <1>. HIDE DEF n, seqs
  <1>4. seqs \in Seq(Seq(Nat)) /\ Len(seqs) = n /\ seqs # <<>>
    <2>1. seqs \in Seq(Seq(Nat)) /\ Len(seqs) = n
      BY <1>1, <1>3
    <2>. QED  BY <1>1, <2>1
  <1>5. PICK E : /\ E[0] = <<>>
                 /\ \A k \in 1..n : E[k] = E[k - 1] \o seqs[k]
                 /\ FlattenSeq(seqs) = E[n]
    <2>1. \E E : /\ E[0] = <<>>
                 /\ \A k \in 1..Len(seqs) : E[k] = E[k - 1] \o seqs[k]
                 /\ FlattenSeq(seqs) = E[Len(seqs)]
      BY <1>4, FlattenUnfolds
    <2>. QED  BY <1>4, <2>1
  <1>6. \A k \in 0..n : E[k] \in Seq(Nat)
    <2>. DEFINE S == {k \in 0..n : E[k] \in Seq(Nat)}
    <2>1. 0 \in S
      <3>1. E[0] \in Seq(Nat)
        BY <1>5, EmptySeq
      <3>2. 0 \in 0..n
        BY <1>1
      <3>. QED  BY <3>1, <3>2
    <2>2. ASSUME NEW k \in 1..n, k - 1 \in S  PROVE k \in S
      <3>1. E[k - 1] \in Seq(Nat) /\ seqs[k] \in Seq(Nat)
        BY <1>2, <2>2
      <3>2. E[k - 1] \o seqs[k] \in Seq(Nat)
        BY <3>1, ConcatProperties
      <3>3. E[k] \in Seq(Nat)
        BY <1>5, <3>2
      <3>4. k \in 0..n
        BY <1>1
      <3>. QED  BY <3>3, <3>4
    <2>. HIDE DEF S
    <2>3. 0..n \subseteq S
      BY <1>1, <2>1, <2>2, Upwards
    <2>. QED  BY <2>3 DEF S
  <1>7. Encode(fields, v) = FlattenSeq(seqs)
    BY DEF Encode, seqs
  <1>8. Encoding(E, fields, v)
    BY <1>2, <1>5, <1>6, <1>7 DEF Encoding, n
  <1>. QED  BY <1>8

\* A payload begins with the encoding of values if and only if it holds them
\* one after the other.
LEMMA PrefixIsLaid ==
    ASSUME NEW fields \in Seq(Types), fields # <<>>,
           NEW v \in [1..Len(fields) -> Seq(Words)],
           \A k \in 1..Len(fields) : fields[k] = "int" => Len(v[k]) = 1,
           NEW b \in Cells, NEW len \in 0..MaxPayloadSize
    PROVE  IsPrefix(Encode(fields, v), SubSeq(b, 1, len))
              <=> \E O \in [0..Len(fields) -> Nat] : Laid(fields, v, O, b, len)
  <1>. DEFINE n == Len(fields)
              p == SubSeq(b, 1, len)
              enc(k) == Enc(fields[k], v[k])
  <1>1. n \in Nat /\ n \in 0..n /\ \A k \in 1..n : k - 1 \in 0..n /\ k \in 0..n
    OBVIOUS
  <1>2. PICK E : Encoding(E, fields, v)
    BY EncodeUnfolds
  <1>3. /\ E[0] = <<>>
        /\ \A k \in 1..n : E[k] = E[k - 1] \o enc(k)
        /\ \A k \in 0..n : E[k] \in Seq(Nat)
        /\ Encode(fields, v) = E[n]
    BY <1>2 DEF Encoding
  <1>4. p \in Seq(Nat) /\ Len(p) = len /\ \A i \in 1..len : p[i] = b[i]
    BY PayloadCells, NumberCells
  <1>5. len \in Nat
    BY Constants
  <1>6. \A k \in 1..n : /\ enc(k) \in Seq(Nat) /\ Len(enc(k)) \in Nat
                        /\ fields[k] = "int" => Len(v[k]) = 1
    <2>1. ASSUME NEW k \in 1..n
          PROVE  /\ enc(k) \in Seq(Nat) /\ Len(enc(k)) \in Nat
                 /\ fields[k] = "int" => Len(v[k]) = 1
      <3>1. fields[k] \in Types /\ v[k] \in Seq(Nat) /\ (fields[k] = "int" => Len(v[k]) = 1)
        BY NumberCells
      <3>. QED  BY <3>1, EncType
    <2>. QED  BY <2>1
  <1>. HIDE DEF n, p, enc
  <1>. DEFINE Pre(k) == IsPrefix(E[k], p)
              O == [k \in 0..n |-> Len(E[k])]
  <1>7. O \in [0..n -> Nat]
    BY <1>3
  <1>8. Pre(0)
    <2>1. Len(<<>>) = 0 /\ E[0] \in Seq(Nat) /\ E[0] = <<>>
      BY <1>1, <1>3
    <2>2. p \in Seq(Nat)
      BY <1>4
    <2>3. PICK e \in Seq(Nat) : e = E[0] /\ Len(e) = 0
      BY <2>1, Zenon
    <2>4. IsPrefix(e, p) <=> Len(e) <= Len(p) /\ \A i \in 1..Len(e) : p[i] = e[i]
      BY <2>2, PrefixElements DEF Begins
    <2>5. 1..0 = {}
      OBVIOUS
    <2>. QED  BY <1>4, <1>5, <2>3, <2>4, <2>5
  <1>9. ASSUME NEW k \in 1..n
        PROVE  /\ Pre(k) <=> Pre(k - 1) /\ FieldAt(b, len, O[k - 1], fields[k], v[k])
               /\ O[k] = O[k - 1] + Len(enc(k))
    <2>1. E[k - 1] \in Seq(Nat) /\ enc(k) \in Seq(Nat) /\ E[k] = E[k - 1] \o enc(k)
      BY <1>1, <1>3, <1>6
    <2>2. PICK x, y \in Nat : x = Len(E[k - 1]) /\ y = Len(enc(k)) /\ x = O[k - 1]
      <3>1. Len(E[k - 1]) \in Nat /\ Len(enc(k)) \in Nat /\ O[k - 1] = Len(E[k - 1])
        BY <1>1, <2>1
      <3>. QED  BY <3>1, Zenon
    <2>3. Pre(k) <=> Pre(k - 1) /\ x + y <= len /\ \A j \in 1..y : p[x + j] = enc(k)[j]
      <3>1. IsPrefix(E[k - 1] \o enc(k), p) <=>
               /\ IsPrefix(E[k - 1], p)
               /\ Len(E[k - 1]) + Len(enc(k)) <= Len(p)
               /\ \A j \in 1..Len(enc(k)) : p[Len(E[k - 1]) + j] = enc(k)[j]
        <4>1. PICK e \in Seq(Nat), s \in Seq(Nat) : e = E[k - 1] /\ s = enc(k)
          BY <2>1, Zenon
        <4>2. p \in Seq(Nat)
          BY <1>4
        <4>3. IsPrefix(e \o s, p) <=> IsPrefix(e, p) /\ Behind(e, s, p)
          BY <4>2, PrefixStep, Zenon
        <4>. QED  BY <4>1, <4>3, Zenon DEF Behind
      <3>. QED  BY <1>4, <2>1, <2>2, <3>1
    <2>4. x + y <= len => \A j \in 1..y : x + j \in 1..len
      BY <1>5
    <2>5. FieldAt(b, len, x, fields[k], v[k]) <=>
             x + y <= len /\ \A j \in 1..y : b[x + j] = enc(k)[j]
      <3>1. Enc(fields[k], v[k]) = enc(k)
        BY DEF enc
      <3>. QED  BY <1>6, <2>2, <3>1 DEF FieldAt
    <2>6. x + y <= len => \A j \in 1..y : p[x + j] = b[x + j]
      BY <1>4, <2>4
    <2>7. Pre(k) <=> Pre(k - 1) /\ FieldAt(b, len, x, fields[k], v[k])
      <3>. HIDE DEF Pre
      <3>. QED  BY <2>3, <2>5, <2>6
    <2>8. O[k] = x + y
      <3>1. Len(E[k - 1] \o enc(k)) = Len(E[k - 1]) + Len(enc(k))
        BY <2>1, ConcatProperties
      <3>. QED  BY <1>1, <2>1, <2>2, <3>1
    <2>. HIDE DEF Pre, O
    <2>. QED  BY <2>2, <2>7, <2>8
  <1>. HIDE DEF Pre, O
  <1>10. ASSUME Pre(n)  PROVE Laid(fields, v, O, b, len)
    <2>. DEFINE S == {j \in 0..n : Pre(n - j)}
    <2>1. 0 \in S
      <3>1. n - 0 = n /\ 0 \in 0..n
        BY <1>1
      <3>. QED  BY <1>10, <3>1
    <2>2. ASSUME NEW j \in 1..n, j - 1 \in S  PROVE j \in S
      <3>1. n - (j - 1) \in 1..n /\ (n - (j - 1)) - 1 = n - j /\ j \in 0..n
        BY <1>1
      <3>2. Pre(n - (j - 1))
        BY <2>2
      <3>. QED  BY <1>9, <3>1, <3>2
    <2>3. 0..n \subseteq S
      <3>. HIDE DEF S
      <3>. QED  BY <1>1, <2>1, <2>2, Upwards
    <2>4. ASSUME NEW k \in 1..n  PROVE Pre(k)
      <3>1. n - k \in 0..n /\ n - (n - k) = k
        BY <1>1
      <3>. QED  BY <2>3, <3>1
    <2>5. O[0] = 0
      <3>1. Len(<<>>) = 0 /\ 0 \in 0..n
        BY <1>1
      <3>. QED  BY <1>3, <3>1 DEF O
    <2>. QED  BY <1>9, <2>4, <2>5 DEF Laid, n, enc
  <1>11. ASSUME NEW Q, Laid(fields, v, Q, b, len)  PROVE Pre(n)
    <2>1. /\ Q[0] = 0
          /\ \A k \in 1..n : /\ FieldAt(b, len, Q[k - 1], fields[k], v[k])
                             /\ Q[k] = Q[k - 1] + Len(enc(k))
      BY <1>11 DEF Laid, n, enc
    <2>. DEFINE S == {k \in 0..n : Pre(k) /\ Q[k] = O[k]}
    <2>2. 0 \in S
      <3>1. Len(<<>>) = 0 /\ 0 \in 0..n
        BY <1>1
      <3>2. O[0] = 0
        BY <1>3, <3>1 DEF O
      <3>. QED  BY <1>8, <2>1, <3>1, <3>2
    <2>3. ASSUME NEW k \in 1..n, k - 1 \in S  PROVE k \in S
      <3>1. Pre(k - 1) /\ Q[k - 1] = O[k - 1]
        BY <2>3
      <3>2. FieldAt(b, len, O[k - 1], fields[k], v[k]) /\ Q[k] = O[k - 1] + Len(enc(k))
        BY <2>1, <3>1
      <3>3. Pre(k) /\ Q[k] = O[k]
        BY <1>9, <3>1, <3>2
      <3>. QED  BY <1>1, <3>3
    <2>. HIDE DEF S
    <2>4. 0..n \subseteq S
      BY <1>1, <2>2, <2>3, Upwards
    <2>. QED  BY <1>1, <2>4 DEF S
  <1>12. Pre(n) <=> IsPrefix(Encode(fields, v), SubSeq(b, 1, len))
    BY <1>3 DEF Pre, p
  <1>13. O \in [0..Len(fields) -> Nat]
    BY <1>7 DEF n
  <1>. QED  BY <1>10, <1>11, <1>12, <1>13

\* A field is a part of the payload.
LEMMA FieldIsPart ==
    ASSUME NEW type \in Types, NEW v \in Seq(Words), NEW o \in Nat,
           NEW b \in Cells, NEW len \in 0..MaxPayloadSize, FieldAt(b, len, o, type, v)
    PROVE  v \in SubSeqs(SubSeq(b, 1, len))
  <1>1. PICK p : p = SubSeq(b, 1, len)
    OBVIOUS
  <1>2. p \in Seq(Words) /\ Len(p) = len /\ \A i \in 1..len : p[i] = b[i]
    BY <1>1, PayloadCells
  <1>3. len \in Nat
    BY Constants
  <1>4. PICK n \in Nat : n = Len(v)
    OBVIOUS
  <1>5. ASSUME NEW x \in Nat, x + n <= len, \A j \in 1..n : b[x + j] = v[j]
        PROVE  v \in SubSeqs(p)
    <2>1. PICK y \in Nat : y = x + n /\ x <= y /\ y - x = n /\ y <= len
      BY <1>5
    <2>2. \A i \in (x + 1)..y : p[i] \in Words
      <3>1. \A i \in (x + 1)..y : i \in 1..len
        BY <1>3, <2>1
      <3>. QED  BY <1>2, <3>1
    <2>3. PICK s : s = SubSeq(p, x + 1, y)
      OBVIOUS
    <2>4. s \in Seq(Words) /\ Len(s) = n /\ \A j \in 1..n : s[j] = p[x + j]
      BY <2>1, <2>2, <2>3, PartOf
    <2>5. \A j \in 1..n : x + j \in 1..len
      BY <1>3, <1>5
    <2>6. \A j \in 1..n : s[j] = v[j]
      BY <1>2, <1>5, <2>4, <2>5
    <2>7. s = v
      BY <1>4, <2>4, <2>6, SeqEqual
    <2>8. x \in 0..Len(p) /\ y \in 0..Len(p)
      BY <1>2, <1>3, <2>1
    <2>. QED  BY <2>3, <2>7, <2>8 DEF SubSeqs
  <1>6. CASE type = "int"
    <2>1. Enc(type, v) = v
      BY <1>6 DEF Enc
    <2>2. o + n <= len /\ \A j \in 1..n : b[o + j] = v[j]
      BY <1>4, <2>1 DEF FieldAt
    <2>. QED  BY <1>1, <1>5, <2>2
  <1>7. CASE type = "string"
    <2>1. v \in Seq(Nat)
      BY NumberCells
    <2>2. Len(Enc(type, v)) = n + 1 /\ \A j \in 1..n : Enc(type, v)[j + 1] = v[j]
      BY <1>4, <1>7, <2>1, EncType
    <2>3. o + (n + 1) <= len /\ \A j \in 1..(n + 1) : b[o + j] = Enc(type, v)[j]
      BY <2>2 DEF FieldAt
    <2>4. \A j \in 1..n : j + 1 \in 1..(n + 1) /\ o + (j + 1) = (o + 1) + j
      OBVIOUS
    <2>5. \A j \in 1..n : b[(o + 1) + j] = v[j]
      BY <2>2, <2>3, <2>4
    <2>6. o + 1 \in Nat /\ (o + 1) + n <= len
      BY <1>3, <2>3
    <2>. QED  BY <1>1, <1>5, <2>5, <2>6
  <1>. QED  BY <1>6, <1>7 DEF Types

\* What the reference says a payload holds is what is laid out in it.
LEMMA HoldsIsLaid ==
    ASSUME NEW fields \in Seq(Types), fields # <<>>,
           NEW b \in Cells, NEW len \in 0..MaxPayloadSize
    PROVE  LET held == Holds(fields, SubSeq(b, 1, len)) IN
           /\ \A v \in held : /\ v \in [1..Len(fields) -> Seq(Words)]
                              /\ \E O : Laid(fields, v, O, b, len)
           /\ \A v \in [1..Len(fields) -> Seq(Words)] :
                 (\E O : Laid(fields, v, O, b, len)) => v \in held
  <1>. DEFINE n == Len(fields)
              p == SubSeq(b, 1, len)
              Typed(v) == /\ v \in [1..n -> Seq(Words)]
                          /\ \A k \in 1..n : fields[k] = "int" => Len(v[k]) = 1
  <1>1. n \in Nat /\ DOMAIN fields = 1..n
    OBVIOUS
  <1>2. p \in Seq(Words) /\ Len(p) = len /\ len \in Nat
    BY PayloadCells, Constants
  <1>3. \A s \in SubSeqs(p) : s \in Seq(Words)
    <2>. HIDE DEF p
    <2>. SUFFICES ASSUME NEW s \in SubSeqs(p)  PROVE s \in Seq(Words)
      OBVIOUS
    <2>0. PICK i \in 0..Len(p), j \in 0..Len(p) : s = SubSeq(p, i + 1, j)
      BY SMT DEF SubSeqs
    <2>1. \A k \in (i + 1)..j : k \in 1..Len(p)
      BY <1>2
    <2>2. \A k \in (i + 1)..j : p[k] \in Words
      BY <1>2, <2>1
    <2>3. i + 1 \in Int /\ j \in Int
      BY <1>2
    <2>. QED  BY <2>0, <2>2, <2>3, SubSeqProperties
  <1>4. \A v : Typed(v) =>
           (IsPrefix(Encode(fields, v), p) <=> \E O \in [0..n -> Nat] : Laid(fields, v, O, b, len))
    BY PrefixIsLaid
  <1>5. ASSUME NEW v \in Holds(fields, p)
        PROVE  v \in [1..n -> Seq(Words)] /\ \E O : Laid(fields, v, O, b, len)
    <2>. HIDE DEF n, p
    <2>1. /\ v \in [1..n -> SubSeqs(p)] /\ IsPrefix(Encode(fields, v), p)
          /\ \A k \in 1..n : fields[k] = "int" => Len(v[k]) = 1
      BY <1>1 DEF Holds, Candidates
    <2>2. Typed(v)
      BY <1>3, <2>1
    <2>. HIDE DEF Typed
    <2>3. \E O \in [0..n -> Nat] : Laid(fields, v, O, b, len)
      BY <1>4, <2>1, <2>2
    <2>. QED  BY <2>2, <2>3 DEF Typed
  <1>6. ASSUME NEW v \in [1..n -> Seq(Words)], NEW Q, Laid(fields, v, Q, b, len)
        PROVE  v \in Holds(fields, p)
    <2>1. \A k \in 1..n : FieldAt(b, len, Q[k - 1], fields[k], v[k])
      BY <1>6 DEF Laid
    <2>2. Typed(v)
      BY <1>6, <2>1 DEF FieldAt
    <2>3. \A k \in 1..n : Q[k] = Q[k - 1] + Len(Enc(fields[k], v[k]))
      BY <1>6 DEF Laid
    <2>4. \A k \in 1..n : fields[k] \in Types /\ v[k] \in Seq(Words) /\ v[k] \in Seq(Nat)
      BY <1>1, NumberCells
    <2>5. \A k \in 1..n : Len(Enc(fields[k], v[k])) \in Nat
      BY <2>2, <2>4, EncType
    <2>6. \A k \in 0..n : Q[k] \in Nat
      <3>. DEFINE S == {k \in 0..n : Q[k] \in Nat}
      <3>1. 0 \in S
        BY <1>1, <1>6 DEF Laid
      <3>2. ASSUME NEW k \in 1..n, k - 1 \in S  PROVE k \in S
        <4>. HIDE DEF n
        <4>1. Q[k - 1] \in Nat /\ Len(Enc(fields[k], v[k])) \in Nat /\ k \in 0..n
          BY <1>1, <2>5, <3>2
        <4>. QED  BY <2>3, <4>1
      <3>. HIDE DEF S, n
      <3>3. 0..n \subseteq S
        BY <1>1, <3>1, <3>2, Upwards
      <3>. QED  BY <3>3 DEF S
    <2>7. ASSUME NEW k \in 1..n  PROVE v[k] \in SubSeqs(p)
      <3>1. Q[k - 1] \in Nat
        BY <1>1, <2>6
      <3>. QED  BY <2>1, <2>4, <3>1, FieldIsPart
    <2>8. v \in [1..n -> SubSeqs(p)]
      BY <2>7
    <2>9. IsPrefix(Encode(fields, v), p)
      <3>. DEFINE O == [k \in 0..n |-> Q[k]]
      <3>1. O \in [0..n -> Nat]
        BY <2>6
      <3>2. Laid(fields, v, O, b, len)
        <4>1. \A k \in 1..n : O[k] = Q[k] /\ O[k - 1] = Q[k - 1]
          BY <1>1
        <4>2. O[0] = 0
          BY <1>1, <1>6 DEF Laid
        <4>. HIDE DEF O
        <4>. QED  BY <2>1, <2>3, <4>1, <4>2 DEF Laid
      <3>. HIDE DEF O, Typed, p
      <3>. QED  BY <1>4, <2>2, <3>1, <3>2
    <2>. HIDE DEF n, p
    <2>. QED  BY <1>1, <2>2, <2>8, <2>9 DEF Holds, Candidates
  <1>. QED  BY <1>5, <1>6

\* Get... of whatever a payload holds: the one list of values that it holds, or
\* an error if it holds none.
LEMMA GetIsReference ==
    ASSUME NEW b \in Cells, NEW len \in 0..MaxPayloadSize, NEW f \in Shapes
    PROVE  LET r == GetPayload(f, [buffer |-> b, length |-> len])
               held == Holds(f, SubSeq(b, 1, len)) IN
           IF held = {} THEN r.result = "error"
                        ELSE r.result = "ok" /\ held = {r.values}
  <1>. DEFINE r == GetPayload(f, [buffer |-> b, length |-> len])
              held == Holds(f, SubSeq(b, 1, len))
  <1>1. f \in Seq(Types) /\ f # <<>>
    BY ShapeTypes
  <1>2. ASSUME NEW v \in held  PROVE r.result = "ok" /\ r.values = v
    <2>1. v \in [1..Len(f) -> Seq(Words)] /\ \E O : Laid(f, v, O, b, len)
      BY <1>1, HoldsIsLaid
    <2>. QED  BY <1>1, <2>1, LaidIsRead
  <1>3. r.result \in {"ok", "error"}
    BY <1>1, ReadIsLaid
  <1>4. ASSUME r.result = "ok"  PROVE r.values \in held
    <2>1. r.values \in [1..Len(f) -> Seq(Words)] /\ \E O : Laid(f, r.values, O, b, len)
      BY <1>1, <1>4, ReadIsLaid
    <2>. HIDE DEF r
    <2>. QED  BY <1>1, <2>1, HoldsIsLaid
  <1>. HIDE DEF r, held
  <1>5. IF held = {} THEN r.result = "error" ELSE r.result = "ok" /\ held = {r.values}
    BY <1>2, <1>3, <1>4
  <1>. QED  BY <1>5 DEF r, held

-----------------------------------------------------------------------------
(* ADB messages *)

\* Where an ADB message is kept by the pumps and the multiplexer.
AdbBuffers == [1..(HeaderSize + MaxPayloadLength) -> Words]

\* A whole ADB message: a valid header, and the data that it declares.
WholeAdb(bytes) ==
    /\ bytes \in Seq(Words)
    /\ Len(bytes) \in HeaderSize..(HeaderSize + MaxPayloadLength)
    /\ bytes[1] = ValidCommand
    /\ bytes[2] + HeaderSize = Len(bytes)

\* The header and the data, in the two ways they are put together.
LEMMA Framed ==
    ASSUME NEW n \in 0..MaxPayloadLength, NEW d \in Seq(Words), Len(d) = n
    PROVE  /\ WholeAdb(<<ValidCommand, n>> \o d)
           /\ Len(<<ValidCommand, n>> \o d) = n + 2
           /\ (<<ValidCommand, n>> \o d)[1] = ValidCommand
           /\ (<<ValidCommand, n>> \o d)[2] = n
           /\ \A j \in 1..n : (<<ValidCommand, n>> \o d)[2 + j] = d[j]
  <1>1. n \in Nat /\ n \in Words /\ ValidCommand \in Words /\ n <= MaxPayloadLength
    BY WordAssumption, Constants
  <1>2. PICK h : h = <<ValidCommand, n>>
    OBVIOUS
  <1>3. h \in Seq(Words) /\ Len(h) = 2 /\ h[1] = ValidCommand /\ h[2] = n
    BY <1>1, <1>2
  <1>4. PICK c : c = h \o d
    OBVIOUS
  <1>5. /\ c \in Seq(Words) /\ Len(c) = Len(h) + Len(d)
        /\ \A i \in 1..(Len(h) + Len(d)) :
              c[i] = IF i <= Len(h) THEN h[i] ELSE d[i - Len(h)]
    BY <1>3, <1>4, ConcatProperties
  <1>6. /\ c \in Seq(Words) /\ Len(c) = n + 2
        /\ \A i \in 1..(n + 2) : c[i] = IF i <= 2 THEN h[i] ELSE d[i - 2]
    BY <1>1, <1>3, <1>5
  <1>7. /\ 1 \in 1..(n + 2) /\ 1 <= 2 /\ 2 \in 1..(n + 2) /\ 2 <= 2
        /\ \A j \in 1..n : 2 + j \in 1..(n + 2) /\ ~(2 + j <= 2) /\ (2 + j) - 2 = j
    BY <1>1
  <1>8. c[1] = ValidCommand /\ c[2] = n /\ \A j \in 1..n : c[2 + j] = d[j]
    BY <1>3, <1>6, <1>7
  <1>9. n + 2 \in 2..(2 + MaxPayloadLength)
    BY <1>1, Constants
  <1>10. WholeAdb(c)
    BY <1>6, <1>8, <1>9 DEF WholeAdb, HeaderSize
  <1>. QED  BY <1>2, <1>4, <1>6, <1>8, <1>10

\* AdbMessage.Bytes of a buffer that has a message in front of what is stale.
LEMMA AdbBytesOf ==
    ASSUME NEW n \in 0..MaxPayloadLength, NEW d \in Seq(Words), Len(d) = n,
           NEW b \in AdbBuffers, b[1] = ValidCommand, b[2] = n,
           \A j \in 1..n : b[2 + j] = d[j]
    PROVE  AdbBytes(b) = <<ValidCommand, n>> \o d
  <1>1. n \in Nat /\ n <= MaxPayloadLength /\ MaxPayloadLength \in Nat
    BY Constants
  <1>2. Add(HeaderSize, b[2]) = n + 2
    <2>1. HeaderSize \in Nat /\ n \in Nat /\ HeaderSize + n < Modulus /\ HeaderSize + n = n + 2
      BY <1>1, Constants DEF HeaderSize
    <2>. QED  BY <2>1, NoWrap
  <1>3. PICK s : s = SubSeq(b, 1, n + 2)
    OBVIOUS
  <1>4. s \in Seq(Words) /\ Len(s) = n + 2 /\ \A i \in 1..(n + 2) : s[i] = b[i]
    <2>1. \A i \in 1..(n + 2) : b[i] \in Words
      <3>1. \A i \in 1..(n + 2) : i \in 1..(2 + MaxPayloadLength)
        BY <1>1
      <3>. QED  BY <3>1 DEF AdbBuffers, HeaderSize
    <2>2. 0 + 1 = 1 /\ (n + 2) - 0 = n + 2 /\ 0 <= n + 2 /\ n + 2 \in Nat
      BY <1>1
    <2>3. \A i \in (0 + 1)..(n + 2) : b[i] \in Words
      BY <2>1, <2>2
    <2>4. /\ SubSeq(b, 0 + 1, n + 2) \in Seq(Words)
          /\ Len(SubSeq(b, 0 + 1, n + 2)) = (n + 2) - 0
          /\ \A j \in 1..((n + 2) - 0) : SubSeq(b, 0 + 1, n + 2)[j] = b[0 + j]
      BY <2>2, <2>3, PartOf
    <2>5. \A i \in 1..(n + 2) : 0 + i = i
      BY <1>1
    <2>. QED  BY <1>3, <2>2, <2>4, <2>5
  <1>5. PICK c : c = <<ValidCommand, n>> \o d
    OBVIOUS
  <1>6. /\ c \in Seq(Words) /\ Len(c) = n + 2 /\ c[1] = ValidCommand /\ c[2] = n
        /\ \A j \in 1..n : c[2 + j] = d[j]
    BY <1>5, Framed DEF WholeAdb
  <1>7. ASSUME NEW i \in 1..(n + 2)  PROVE s[i] = c[i]
    <2>1. CASE i = 1 \/ i = 2
      BY <1>4, <1>6, <2>1
    <2>2. CASE ~(i = 1 \/ i = 2)
      <3>1. i - 2 \in 1..n /\ 2 + (i - 2) = i
        BY <1>1, <2>2
      <3>2. b[i] = d[i - 2] /\ c[i] = d[i - 2]
        BY <1>6, <3>1
      <3>. QED  BY <1>4, <3>2
    <2>. QED  BY <2>1, <2>2
  <1>8. s = c
    BY <1>4, <1>6, <1>7, SeqEqual
  <1>. QED  BY <1>2, <1>3, <1>5, <1>8 DEF AdbBytes

\* AdbMessage.Read and Bytes: what the pump forwards is what it has read, and
\* nothing of what its buffer held before.
LEMMA ForwardedBytes ==
    ASSUME NEW stale \in StaleAdb, NEW command \in Words, NEW dataLength \in Words,
           NEW data \in [1..MaxPayloadLength -> Bytes],
           AdbRead(stale, command, dataLength, data).ok
    PROVE  LET bytes == AdbBytes(AdbRead(stale, command, dataLength, data).buffer) IN
           /\ bytes = <<command, dataLength>> \o SubSeq(data, 1, dataLength)
           /\ WholeAdb(bytes)
  <1>. DEFINE a == AdbRead(stale, command, dataLength, data)
              h == <<command, dataLength>>
              header == Overwrite(stale, 0, h)
              d == SubSeq(data, 1, dataLength)
              buffer == Overwrite(header, HeaderSize, d)
  <1>1. /\ command = ValidCommand /\ dataLength \in 0..MaxPayloadLength
        /\ a.buffer = buffer
    <2>1. command = ValidCommand /\ dataLength <= MaxPayloadLength
      BY DEF AdbRead
    <2>2. a.buffer = buffer
      BY DEF AdbRead
    <2>. QED  BY <2>1, <2>2, Constants
  <1>2. PICK n \in 0..MaxPayloadLength : n = dataLength
    BY <1>1
  <1>3. d \in Seq(Words) /\ Len(d) = n /\ n \in Nat /\ MaxPayloadLength \in Nat
    <2>1. n \in Nat /\ MaxPayloadLength \in Nat /\ n <= MaxPayloadLength
      BY Constants
    <2>2. \A i \in (0 + 1)..n : data[i] \in Words
      <3>1. \A i \in (0 + 1)..n : i \in 1..MaxPayloadLength
        BY <2>1
      <3>. QED  BY <3>1, WordAssumption
    <2>3. SubSeq(data, 0 + 1, n) \in Seq(Words) /\ Len(SubSeq(data, 0 + 1, n)) = n - 0
      BY <2>1, <2>2, PartOf
    <2>4. 0 + 1 = 1 /\ n - 0 = n
      BY <2>1
    <2>. QED  BY <1>2, <2>1, <2>3, <2>4
  <1>4. PICK x \in Bytes : stale = [i \in 1..(HeaderSize + MaxPayloadLength) |-> x]
    BY DEF StaleAdb
  <1>5. x \in Words
    BY WordAssumption
  <1>6. h[1] = command /\ h[2] = dataLength /\ Len(h) = 2
    OBVIOUS
  <1>. HIDE DEF a, h, d
  <1>7. DOMAIN header = 1..(2 + MaxPayloadLength) /\ DOMAIN buffer = 1..(2 + MaxPayloadLength)
    BY <1>4 DEF Overwrite, HeaderSize
  <1>8. /\ header \in AdbBuffers /\ header[1] = ValidCommand /\ header[2] = n
    <2>1. ASSUME NEW i \in 1..(2 + MaxPayloadLength)
          PROVE  header[i] = IF i <= 2 THEN h[i] ELSE x
      <3>1. i > 0 /\ 0 + Len(h) = 2 /\ i - 0 = i
        BY <1>3, <1>6
      <3>. QED  BY <1>4, <3>1 DEF Overwrite, HeaderSize
    <2>2. \A i \in 1..(2 + MaxPayloadLength) : i <= 2 => i = 1 \/ i = 2
      BY <1>3
    <2>3. \A i \in 1..(2 + MaxPayloadLength) : header[i] \in Words
      BY <1>5, <1>6, <2>1, <2>2
    <2>4. 1 \in 1..(2 + MaxPayloadLength) /\ 2 \in 1..(2 + MaxPayloadLength)
      BY <1>3
    <2>5. header = [i \in 1..(2 + MaxPayloadLength) |-> header[i]]
      BY <1>4 DEF Overwrite, HeaderSize
    <2>. HIDE DEF header
    <2>. QED  BY <1>1, <1>2, <1>6, <2>1, <2>3, <2>4, <2>5 DEF AdbBuffers, HeaderSize
  <1>9. /\ buffer \in AdbBuffers /\ buffer[1] = ValidCommand /\ buffer[2] = n
        /\ \A j \in 1..n : buffer[2 + j] = d[j]
    <2>. HIDE DEF header
    <2>1. ASSUME NEW i \in 1..(2 + MaxPayloadLength)
          PROVE  buffer[i] = IF i > 2 /\ i <= 2 + n THEN d[i - 2] ELSE header[i]
      BY <1>3, <1>7 DEF Overwrite, HeaderSize
    <2>2. ASSUME NEW i \in 1..(2 + MaxPayloadLength)  PROVE buffer[i] \in Words
      <3>1. header[i] \in Words
        BY <1>8 DEF AdbBuffers, HeaderSize
      <3>2. i > 2 /\ i <= 2 + n => i - 2 \in 1..n
        BY <1>3
      <3>3. i > 2 /\ i <= 2 + n => d[i - 2] \in Words
        BY <1>3, <3>2
      <3>. HIDE DEF buffer
      <3>. QED  BY <2>1, <3>1, <3>3
    <2>3. buffer = [i \in 1..(2 + MaxPayloadLength) |-> buffer[i]]
      BY <1>7 DEF Overwrite
    <2>. HIDE DEF buffer
    <2>4. buffer \in AdbBuffers
      BY <2>2, <2>3 DEF AdbBuffers, HeaderSize
    <2>5. 1 \in 1..(2 + MaxPayloadLength) /\ 2 \in 1..(2 + MaxPayloadLength)
      BY <1>3
    <2>6. \A j \in 1..n : /\ 2 + j \in 1..(2 + MaxPayloadLength)
                          /\ 2 + j > 2 /\ 2 + j <= 2 + n /\ (2 + j) - 2 = j
      BY <1>3
    <2>7. \A j \in 1..n : buffer[2 + j] = d[j]
      BY <2>1, <2>6
    <2>. QED  BY <1>8, <2>1, <2>4, <2>5, <2>7
  <1>10. AdbBytes(buffer) = <<ValidCommand, n>> \o d
    <2>. HIDE DEF buffer
    <2>. QED  BY <1>3, <1>9, AdbBytesOf
  <1>11. WholeAdb(<<ValidCommand, n>> \o d)
    BY <1>3, Framed
  <1>12. AdbBytes(a.buffer) = <<command, dataLength>> \o d
    BY <1>1, <1>2, <1>10
  <1>. QED  BY <1>1, <1>2, <1>11, <1>12 DEF a, d

\* AdbMessage.Set and Bytes: likewise for a message of the multiplexer.
LEMMA OwnBytes ==
    ASSUME NEW stale \in StaleAdb, NEW data \in Seq(Bytes), AdbSet(stale, data).ok
    PROVE  LET bytes == AdbBytes(AdbSet(stale, data).buffer) IN
           /\ bytes = <<ValidCommand, Len(data)>> \o data
           /\ WholeAdb(bytes)
  <1>1. PICK n \in 0..MaxPayloadLength : n = Len(data)
    <2>1. Len(data) \in Nat
      OBVIOUS
    <2>2. Len(data) <= MaxPayloadLength
      BY Zenon DEF AdbSet
    <2>. QED  BY <2>1, <2>2, Constants
  <1>2. n \in Nat /\ MaxPayloadLength \in Nat /\ n <= MaxPayloadLength
    BY Constants
  <1>3. data \in Seq(Words)
    <2>1. Bytes \subseteq Words
      BY WordAssumption
    <2>. QED  BY <2>1, SeqMonotonic
  <1>4. PICK c : c = <<ValidCommand, n>> \o data
    OBVIOUS
  <1>5. /\ WholeAdb(c) /\ Len(c) = n + 2 /\ c[1] = ValidCommand /\ c[2] = n
        /\ \A j \in 1..n : c[2 + j] = data[j]
    BY <1>1, <1>3, <1>4, Framed
  <1>6. c \in Seq(Words)
    BY <1>5 DEF WholeAdb
  <1>. DEFINE buffer == Overwrite(stale, 0, c)
  <1>7. AdbSet(stale, data).buffer = buffer
    BY <1>1, <1>2, <1>4 DEF AdbSet
  <1>8. PICK x \in Bytes : stale = [i \in 1..(HeaderSize + MaxPayloadLength) |-> x]
    BY DEF StaleAdb
  <1>9. x \in Words
    BY WordAssumption
  <1>10. ASSUME NEW i \in 1..(2 + MaxPayloadLength)
         PROVE  buffer[i] = IF i <= n + 2 THEN c[i] ELSE x
    <2>1. i > 0 /\ 0 + Len(c) = n + 2 /\ i - 0 = i
      BY <1>2, <1>5
    <2>. QED  BY <1>8, <2>1 DEF Overwrite, HeaderSize
  <1>11. buffer = [i \in 1..(2 + MaxPayloadLength) |-> buffer[i]]
    BY <1>8 DEF Overwrite, HeaderSize
  <1>. HIDE DEF buffer
  <1>12. buffer \in AdbBuffers
    <2>1. ASSUME NEW i \in 1..(2 + MaxPayloadLength)  PROVE buffer[i] \in Words
      <3>1. i <= n + 2 => i \in 1..Len(c)
        BY <1>2, <1>5
      <3>2. i <= n + 2 => c[i] \in Words
        BY <1>6, <3>1
      <3>. QED  BY <1>9, <1>10, <3>2
    <2>. QED  BY <1>11, <2>1 DEF AdbBuffers, HeaderSize
  <1>13. buffer[1] = ValidCommand /\ buffer[2] = n /\ \A j \in 1..n : buffer[2 + j] = data[j]
    <2>1. /\ 1 \in 1..(2 + MaxPayloadLength) /\ 2 \in 1..(2 + MaxPayloadLength)
          /\ 1 <= n + 2 /\ 2 <= n + 2
          /\ \A j \in 1..n : 2 + j \in 1..(2 + MaxPayloadLength) /\ 2 + j <= n + 2
      BY <1>2
    <2>. QED  BY <1>5, <1>10, <2>1
  <1>14. AdbBytes(buffer) = <<ValidCommand, n>> \o data
    BY <1>1, <1>3, <1>12, <1>13, AdbBytesOf
  <1>. QED  BY <1>1, <1>4, <1>5, <1>7, <1>14

\* What a receiver has of a message: the payload behind nothing else.
LEMMA ReceivedCells ==
    ASSUME NEW b \in Cells, NEW len \in 0..MaxPayloadSize, NEW stale \in Cells
    PROVE  /\ Overwrite(stale, 0, SubSeq(b, 1, len)) \in Cells
           /\ SubSeq(Overwrite(stale, 0, SubSeq(b, 1, len)), 1, len) = SubSeq(b, 1, len)
  <1>1. PICK p : p = SubSeq(b, 1, len)
    OBVIOUS
  <1>2. p \in Seq(Words) /\ Len(p) = len
    BY <1>1, PayloadCells
  <1>3. PICK c : c = Overwrite(stale, 0, p)
    OBVIOUS
  <1>4. len \in Nat /\ len <= MaxPayloadSize /\ MaxPayloadSize \in Nat /\ 0 \in Nat
    BY Constants
  <1>5. /\ c \in Cells
        /\ \A i \in 1..MaxPayloadSize :
              c[i] = IF i > 0 /\ i <= 0 + Len(p) THEN p[i - 0] ELSE stale[i]
    BY <1>2, <1>3, <1>4, OverwriteCells
  <1>6. \A i \in 1..len : /\ i \in 1..MaxPayloadSize /\ i > 0 /\ i <= 0 + Len(p)
                          /\ i - 0 = i
    BY <1>2, <1>4
  <1>7. \A i \in 1..len : c[i] = p[i]
    BY <1>5, <1>6
  <1>8. PICK q : q = SubSeq(c, 1, len)
    OBVIOUS
  <1>9. q \in Seq(Words) /\ Len(q) = len /\ \A i \in 1..len : q[i] = c[i]
    BY <1>5, <1>8, PayloadCells
  <1>10. q = p
    BY <1>2, <1>7, <1>9, SeqEqual
  <1>. QED  BY <1>1, <1>3, <1>5, <1>8, <1>10

-----------------------------------------------------------------------------
(* The invariant *)

\* What was last sent is what the message holds: a payload as WriteFields has
\* left it, or a whole ADB message; the checksum is that of the payload.
SetIsWritten ==
    last.op = "set" =>
        \E b \in Cells, p \in Payloads :
            /\ last.payload = p
            /\ WriteFields(b, p).ok
            /\ payloadBuffer = WriteFields(b, p).buffer
            /\ payloadLength = WriteFields(b, p).offset
            /\ payloadCrc32 = Payload

AdbIsWritten ==
    last.op = "adb" => /\ WholeAdb(last.bytes)
                       /\ payloadLength = Len(last.bytes)
                       /\ Payload = last.bytes
                       /\ payloadCrc32 = Payload

\* A message that Read accepts fits into its buffer.
ReadFits == last.op = "read" => payloadLength \in 0..MaxPayloadSize

Inv == TypeOK /\ SetIsWritten /\ AdbIsWritten /\ ReadFits

\* Bounded sequences.
LEMMA SeqOfType ==
    ASSUME NEW T, NEW n \in Nat
    PROVE  /\ \A s \in Seq(T) : Len(s) <= n => s \in SeqOf(T, n)
           /\ \A s \in SeqOf(T, n) : s \in Seq(T) /\ Len(s) <= n
  <1>1. ASSUME NEW s \in Seq(T), Len(s) <= n  PROVE s \in SeqOf(T, n)
    <2>1. Len(s) \in 0..n /\ s \in [1..Len(s) -> T]
      BY <1>1, LenProperties
    <2>. QED  BY <2>1 DEF SeqOf
  <1>2. ASSUME NEW s \in SeqOf(T, n)  PROVE s \in Seq(T) /\ Len(s) <= n
    <2>1. PICK m \in 0..n : s \in [1..m -> T]
      BY DEF SeqOf
    <2>2. m \in Nat /\ m <= n
      OBVIOUS
    <2>3. s \in Seq(T) /\ Len(s) = m
      BY <2>1, <2>2
    <2>. QED  BY <2>2, <2>3
  <1>. QED  BY <1>1, <1>2

\* Initially nothing is sent, and the buffer is all zeroes.
LEMMA InitInv == Init => Inv
  <1>. SUFFICES ASSUME Init  PROVE Inv
    OBVIOUS
  <1>1. 0 \in Words /\ 0 \in 0..MaxPayloadSize /\ 0 \in 0..MaxUses
    BY WordAssumption, Constants
  <1>2. payloadBuffer \in Cells
    BY <1>1 DEF Init, Cells
  <1>3. payloadCrc32 \in SeqOf(Words, MaxPayloadSize)
    <2>1. <<>> \in Seq(Words) /\ Len(<<>>) = 0 /\ 0 <= MaxPayloadSize /\ MaxPayloadSize \in Nat
      BY Constants
    <2>2. <<>> \in SeqOf(Words, MaxPayloadSize)
      BY <2>1, SeqOfType
    <2>. QED  BY <2>2 DEF Init
  <1>4. last.op = "none"
    BY DEF Init
  <1>5. payloadLength = 0 /\ uses = 0
    BY DEF Init
  <1>. QED  BY <1>1, <1>2, <1>3, <1>4, <1>5
            DEF Inv, TypeOK, SetIsWritten, AdbIsWritten, ReadFits

\* One of the Set... functions leaves its payload, or its error.
LEMMA SetPayloadKeepsInv ==
    ASSUME Inv, NEW p \in Payloads, SetPayload(p), uses' \in 0..MaxUses
    PROVE  Inv'
  <1>1. payloadBuffer \in Cells
    BY DEF Inv, TypeOK
  <1>2. PICK w \in Writers : w = WriteFields(payloadBuffer, p)
    BY <1>1, WriteLays
  <1>3. w.buffer \in Cells /\ w.offset \in 0..MaxPayloadSize /\ w.ok \in BOOLEAN
    BY DEF Writers
  <1>4. payloadBuffer' = w.buffer
    BY <1>2 DEF SetPayload
  <1>5. CASE w.ok
    <2>1. /\ payloadLength' = w.offset
          /\ payloadCrc32' = SubSeq(w.buffer, 1, w.offset)
          /\ last' = [op |-> "set", payload |-> p]
      BY <1>2, <1>5 DEF SetPayload, updatePayloadMetadata
    <2>2. SubSeq(w.buffer, 1, w.offset) \in SeqOf(Words, MaxPayloadSize)
      <3>1. /\ SubSeq(w.buffer, 1, w.offset) \in Seq(Words)
            /\ Len(SubSeq(w.buffer, 1, w.offset)) = w.offset
        BY <1>3, PayloadCells
      <3>2. w.offset <= MaxPayloadSize /\ MaxPayloadSize \in Nat
        BY <1>3, Constants
      <3>. QED  BY <3>1, <3>2, SeqOfType
    <2>3. TypeOK'
      BY <1>3, <1>4, <2>1, <2>2 DEF TypeOK
    <2>4. last'.op = "set" /\ last'.payload = p
      BY <2>1
    <2>5. SetIsWritten'
      <3>1. payloadCrc32' = Payload'
        BY <1>4, <2>1 DEF Payload
      <3>. QED  BY <1>1, <1>2, <1>4, <1>5, <2>1, <2>4, <3>1 DEF SetIsWritten
    <2>. QED  BY <2>3, <2>4, <2>5 DEF Inv, AdbIsWritten, ReadFits
  <1>6. CASE ~w.ok
    <2>1. /\ last' = [op |-> "failed"]
          /\ UNCHANGED <<payloadLength, payloadCrc32>>
      BY <1>2, <1>6 DEF SetPayload
    <2>2. TypeOK'
      BY <1>3, <1>4, <2>1 DEF Inv, TypeOK
    <2>3. last'.op = "failed"
      BY <2>1
    <2>. QED  BY <2>2, <2>3 DEF Inv, SetIsWritten, AdbIsWritten, ReadFits
  <1>. QED  BY <1>3, <1>5, <1>6

\* A whole ADB message is put into the payload.
LEMMA AdbKeepsInv ==
    ASSUME Inv, NEW bytes, WholeAdb(bytes), SetRawPayload(bytes),
           last' = [op |-> "adb", bytes |-> bytes], uses' \in 0..MaxUses
    PROVE  Inv'
  <1>1. /\ bytes \in Seq(Words)
        /\ Len(bytes) \in HeaderSize..(HeaderSize + MaxPayloadLength)
    BY DEF WholeAdb
  <1>2. PICK n \in Nat : n = Len(bytes)
    BY <1>1
  <1>3. n <= MaxPayloadSize /\ n \in 0..MaxPayloadSize /\ MaxPayloadSize \in Nat
    <2>1. n <= MaxPayloadSize
      BY <1>2 DEF SetRawPayload
    <2>. QED  BY <2>1, Constants
  <1>4. payloadBuffer \in Cells
    BY DEF Inv, TypeOK
  <1>5. PICK b : b = Overwrite(payloadBuffer, 0, bytes)
    OBVIOUS
  <1>6. payloadBuffer' = b /\ payloadLength' = n /\ payloadCrc32' = SubSeq(b, 1, n)
    BY <1>2, <1>5 DEF SetRawPayload, updatePayloadMetadata
  <1>7. /\ b \in Cells
        /\ \A i \in 1..MaxPayloadSize :
              b[i] = IF i > 0 /\ i <= 0 + Len(bytes) THEN bytes[i - 0] ELSE payloadBuffer[i]
    <2>1. 0 \in Nat
      OBVIOUS
    <2>. QED  BY <1>1, <1>4, <1>5, <2>1, OverwriteCells
  <1>8. PICK s : s = SubSeq(b, 1, n)
    OBVIOUS
  <1>9. s \in Seq(Words) /\ Len(s) = n /\ \A i \in 1..n : s[i] = b[i]
    BY <1>3, <1>7, <1>8, PayloadCells
  <1>10. \A i \in 1..n : b[i] = bytes[i]
    <2>1. \A i \in 1..n : /\ i \in 1..MaxPayloadSize /\ i > 0 /\ i <= 0 + Len(bytes)
                          /\ i - 0 = i
      BY <1>2, <1>3
    <2>. QED  BY <1>7, <2>1
  <1>11. s = bytes
    BY <1>1, <1>2, <1>9, <1>10, SeqEqual
  <1>12. s \in SeqOf(Words, MaxPayloadSize)
    BY <1>3, <1>9, SeqOfType
  <1>13. TypeOK'
    BY <1>3, <1>6, <1>7, <1>8, <1>12 DEF TypeOK
  <1>14. last'.op = "adb" /\ last'.bytes = bytes
    OBVIOUS
  <1>15. Payload' = bytes
    BY <1>6, <1>8, <1>11 DEF Payload
  <1>16. AdbIsWritten'
    BY <1>2, <1>6, <1>8, <1>11, <1>14, <1>15 DEF AdbIsWritten, WholeAdb
  <1>. QED  BY <1>13, <1>14, <1>16 DEF Inv, SetIsWritten, ReadFits

\* A message that is read.
LEMMA ReadKeepsInv ==
    ASSUME Inv, NEW length \in Words \cup 0..MaxPayloadSize,
           NEW content \in SeqOf(Words, MaxPayloadSize), Read(length, content),
           uses' \in 0..MaxUses
    PROVE  Inv'
  <1>1. content \in Seq(Words) /\ payloadBuffer \in Cells /\ 0 \in Nat
    BY SeqOfType, Constants DEF Inv, TypeOK
  <1>2. payloadLength' = length /\ payloadBuffer' \in Cells
    BY <1>1, OverwriteCells DEF Read
  <1>3. <<>> \in SeqOf(Words, MaxPayloadSize)
    <2>1. <<>> \in Seq(Words) /\ Len(<<>>) = 0 /\ 0 <= MaxPayloadSize /\ MaxPayloadSize \in Nat
      BY Constants
    <2>. QED  BY <2>1, SeqOfType
  <1>4. payloadCrc32' \in SeqOf(Words, MaxPayloadSize)
    BY <1>3 DEF Read
  <1>5. TypeOK'
    BY <1>2, <1>4 DEF TypeOK
  <1>6. \/ last' = [op |-> "read"] /\ length <= MaxPayloadSize
        \/ last' = [op |-> "failed"]
    BY DEF Read
  <1>7. last'.op \in {"read", "failed"} /\ (last'.op = "read" => length <= MaxPayloadSize)
    BY <1>6
  <1>8. length \in Nat
    BY Constants
  <1>9. ReadFits'
    BY <1>2, <1>7, <1>8, Constants DEF ReadFits
  <1>. QED  BY <1>5, <1>7, <1>9 DEF Inv, SetIsWritten, AdbIsWritten

\* Every step keeps the invariant.
LEMMA NextInv == Inv /\ [Next]_vars => Inv'
  <1>. SUFFICES ASSUME Inv, [Next]_vars  PROVE Inv'
    OBVIOUS
  <1>1. CASE UNCHANGED vars
    BY <1>1 DEF vars, Inv, TypeOK, SetIsWritten, AdbIsWritten, ReadFits, Payload
  <1>2. CASE Next
    <2>1. uses' \in 0..MaxUses
      BY <1>2, Constants DEF Next, Inv, TypeOK
    <2>2. ASSUME NEW p \in Payloads, SetPayload(p)  PROVE Inv'
      BY <2>1, <2>2, SetPayloadKeepsInv
    <2>3. CASE ForwardAdb
      <3>1. PICK stale \in StaleAdb, command \in Words, dataLength \in Words,
                 data \in [1..MaxPayloadLength -> Bytes] :
               LET a == AdbRead(stale, command, dataLength, data) IN
               /\ a.ok
               /\ SetRawPayload(AdbBytes(a.buffer))
               /\ last' = [op |-> "adb",
                           bytes |-> <<command, dataLength>> \o SubSeq(data, 1, dataLength)]
        BY <2>3 DEF ForwardAdb
      <3>2. PICK bytes : bytes = AdbBytes(AdbRead(stale, command, dataLength, data).buffer)
        OBVIOUS
      <3>3. /\ WholeAdb(bytes) /\ SetRawPayload(bytes)
            /\ last' = [op |-> "adb", bytes |-> bytes]
        BY <3>1, <3>2, ForwardedBytes
      <3>. QED  BY <2>1, <3>3, AdbKeepsInv
    <2>4. CASE SendAdb
      <3>1. PICK stale \in StaleAdb, data \in SeqOf(Bytes, MaxPayloadLength + 1) :
               LET a == AdbSet(stale, data) IN
               /\ a.ok
               /\ SetRawPayload(AdbBytes(a.buffer))
               /\ last' = [op |-> "adb", bytes |-> <<ValidCommand, Len(data)>> \o data]
        BY <2>4 DEF SendAdb
      <3>2. PICK bytes : bytes = AdbBytes(AdbSet(stale, data).buffer)
        OBVIOUS
      <3>3. data \in Seq(Bytes)
        <4>1. MaxPayloadLength + 1 \in Nat
          BY Constants
        <4>. QED  BY <4>1, SeqOfType
      <3>4. /\ WholeAdb(bytes) /\ SetRawPayload(bytes)
            /\ last' = [op |-> "adb", bytes |-> bytes]
        BY <3>1, <3>2, <3>3, OwnBytes
      <3>. QED  BY <2>1, <3>4, AdbKeepsInv
    <2>5. ASSUME NEW length \in Words \cup 0..MaxPayloadSize,
                 NEW content \in SeqOf(Words, MaxPayloadSize), Read(length, content)
          PROVE  Inv'
      BY <2>1, <2>5, ReadKeepsInv
    <2>. QED  BY <1>2, <2>2, <2>3, <2>4, <2>5 DEF Next
  <1>. QED  BY <1>1, <1>2

\* The types of the message's fields, and what was last sent with it.
LEMMA Invariant == Spec => []Inv
  BY InitInv, NextInv, PTL DEF Spec

\* The buffer, the length and the checksum keep their types: no operation writes
\* outside the buffer (writeInt, writeString, copy).
THEOREM TypeCorrect == Spec => []TypeOK
  <1>1. Inv => TypeOK
    BY DEF Inv
  <1>. QED  BY <1>1, Invariant, PTL

-----------------------------------------------------------------------------
(* What is sent is received *)

\* Values laid out in a buffer are read from every buffer with the same payload.
LEMMA SamePayloadIsRead ==
    ASSUME NEW b \in Cells, NEW c \in Cells, NEW len \in 0..MaxPayloadSize,
           SubSeq(b, 1, len) = SubSeq(c, 1, len),
           NEW fields \in Seq(Types), fields # <<>>,
           NEW v \in [1..Len(fields) -> Seq(Words)], NEW O, Laid(fields, v, O, b, len)
    PROVE  LET r == GetPayload(fields, [buffer |-> c, length |-> len]) IN
           r.result = "ok" /\ r.values = v
  <1>1. v \in Holds(fields, SubSeq(b, 1, len))
    BY HoldsIsLaid
  <1>2. v \in Holds(fields, SubSeq(c, 1, len))
    BY <1>1
  <1>3. \E Q : Laid(fields, v, Q, c, len)
    BY <1>2, HoldsIsLaid
  <1>. QED  BY <1>3, LaidIsRead

\* The receiver of a payload reads what the sender has written.
LEMMA InvPayloadIsReceived == Inv => PayloadIsReceived
  <1>. SUFFICES ASSUME Inv, last.op = "set"
                PROVE  /\ Accepted
                       /\ \A stale \in Cells :
                             LET r == GetPayload(last.payload.fields, Received(stale)) IN
                             /\ r.result = "ok"
                             /\ \A k \in DOMAIN r.values :
                                   r.values[k] = IF last.payload.fields[k] = "int"
                                                 THEN <<last.payload.values[k][1] % Modulus>>
                                                 ELSE last.payload.values[k]
    BY DEF PayloadIsReceived
  <1>1. PICK b \in Cells, p \in Payloads :
            /\ last.payload = p
            /\ WriteFields(b, p).ok
            /\ payloadBuffer = WriteFields(b, p).buffer
            /\ payloadLength = WriteFields(b, p).offset
            /\ payloadCrc32 = Payload
    BY DEF Inv, SetIsWritten
  <1>2. PICK w \in Writers : w = WriteFields(b, p) /\ w.ok
    BY <1>1, WriteLays
  <1>3. PICK O : Laid(p.fields, Sent(p), O, w.buffer, w.offset)
    BY <1>2, WriteLays
  <1>4. /\ payloadBuffer = w.buffer /\ payloadLength = w.offset
        /\ w.buffer \in Cells /\ w.offset \in 0..MaxPayloadSize
    BY <1>1, <1>2 DEF Writers
  <1>5. Accepted
    BY <1>1, <1>4, Constants DEF Accepted
  <1>6. /\ p.fields \in Seq(Types) /\ p.fields # <<>>
        /\ DOMAIN p.fields = 1..Len(p.fields)
    BY PayloadTypes
  <1>7. Sent(p) \in [1..Len(p.fields) -> Seq(Words)]
    <2>1. ASSUME NEW k \in 1..Len(p.fields)
          PROVE  Reduced(p.fields[k], p.values[k]) \in Seq(Words)
      <3>1. /\ p.fields[k] \in Types
            /\ p.values[k] \in IF p.fields[k] = "int" THEN Ints ELSE Strings
        BY <1>6, PayloadTypes
      <3>. QED  BY <3>1, SentFieldType
    <2>. QED  BY <1>6, <2>1 DEF Sent
  <1>8. ASSUME NEW stale \in Cells
        PROVE  LET r == GetPayload(p.fields, Received(stale)) IN
               r.result = "ok" /\ r.values = Sent(p)
    <2>1. PICK c : c = Overwrite(stale, 0, SubSeq(w.buffer, 1, w.offset))
      OBVIOUS
    <2>2. Received(stale) = [buffer |-> c, length |-> w.offset]
      BY <1>4, <2>1 DEF Received, Payload
    <2>3. c \in Cells /\ SubSeq(w.buffer, 1, w.offset) = SubSeq(c, 1, w.offset)
      BY <1>4, <2>1, ReceivedCells
    <2>4. PICK b0 \in Cells, len \in 0..MaxPayloadSize : b0 = w.buffer /\ len = w.offset
      BY <1>4, Zenon
    <2>5. SubSeq(b0, 1, len) = SubSeq(c, 1, len) /\ Laid(p.fields, Sent(p), O, b0, len)
      BY <1>3, <2>3, <2>4
    <2>6. LET r == GetPayload(p.fields, [buffer |-> c, length |-> len]) IN
          r.result = "ok" /\ r.values = Sent(p)
      <3>1. PICK fs \in Seq(Types) : fs = p.fields /\ fs # <<>>
        BY <1>6, Zenon
      <3>2. PICK v \in [1..Len(fs) -> Seq(Words)] : v = Sent(p)
        BY <1>7, <3>1, Zenon
      <3>3. Laid(fs, v, O, b0, len)
        BY <2>5, <3>1, <3>2
      <3>4. LET r == GetPayload(fs, [buffer |-> c, length |-> len]) IN
            r.result = "ok" /\ r.values = v
        BY <2>3, <2>5, <3>1, <3>3, SamePayloadIsRead
      <3>. QED  BY <3>1, <3>2, <3>4, Zenon
    <2>. QED  BY <2>2, <2>4, <2>6, Zenon
  <1>9. ASSUME NEW stale \in Cells
        PROVE  LET r == GetPayload(p.fields, Received(stale)) IN
               \A k \in DOMAIN r.values :
                  r.values[k] = IF p.fields[k] = "int" THEN <<p.values[k][1] % Modulus>>
                                ELSE p.values[k]
    <2>1. PICK r : r = GetPayload(p.fields, Received(stale)) /\ r.values = Sent(p)
      BY <1>8
    <2>2. \A k \in DOMAIN Sent(p) :
             Sent(p)[k] = IF p.fields[k] = "int" THEN <<p.values[k][1] % Modulus>>
                          ELSE p.values[k]
      BY DEF Sent, Reduced
    <2>. QED  BY <2>1, <2>2
  <1>. QED  BY <1>1, <1>5, <1>8, <1>9

\* The receiver of an ADB message decodes what the sender has embedded.
LEMMA InvAdbRelayedVerbatim == Inv => AdbRelayedVerbatim
  <1>. SUFFICES ASSUME Inv, last.op = "adb"
                PROVE  /\ Accepted
                       /\ \A stale \in Cells :
                             LET m == Received(stale)
                                 p == SubSeq(m.buffer, 1, m.length) IN
                             DecodeMessage(p) /\ AdbBytes(p) = last.bytes
    BY DEF AdbRelayedVerbatim
  <1>1. PICK bytes : bytes = last.bytes
    OBVIOUS
  <1>2. /\ WholeAdb(bytes) /\ payloadLength = Len(bytes) /\ Payload = bytes
        /\ payloadCrc32 = Payload
    BY <1>1 DEF Inv, AdbIsWritten
  <1>3. PICK n \in Nat : n = Len(bytes) /\ n >= 2 /\ n <= 2 + MaxPayloadLength
    BY <1>2, Constants DEF WholeAdb, HeaderSize
  <1>4. n \in 0..MaxPayloadSize /\ n <= MaxPayloadSize
    BY <1>3, Constants
  <1>5. Accepted
    BY <1>2, <1>3, <1>4 DEF Accepted
  <1>6. /\ bytes \in Seq(Words) /\ bytes[1] = ValidCommand /\ bytes[2] + 2 = n
        /\ bytes[2] \in Nat
    <2>1. bytes \in Seq(Words) /\ bytes[1] = ValidCommand /\ bytes[2] + 2 = n
      BY <1>2, <1>3 DEF WholeAdb, HeaderSize
    <2>2. bytes[2] \in Words
      BY <1>3, <2>1
    <2>. QED  BY <2>1, <2>2, Constants
  <1>7. Add(HeaderSize, bytes[2]) = n
    <2>1. HeaderSize \in Nat /\ HeaderSize + bytes[2] = n /\ n < Modulus
      BY <1>4, <1>6, Constants DEF HeaderSize
    <2>. QED  BY <1>6, <2>1, NoWrap
  <1>8. DecodeMessage(bytes)
    BY <1>3, <1>6, <1>7 DEF DecodeMessage, HeaderSize
  <1>9. AdbBytes(bytes) = bytes
    <2>1. SubSeq(bytes, 1, Len(bytes)) = bytes
      BY <1>6, SubSeqFull
    <2>. QED  BY <1>3, <1>7, <2>1 DEF AdbBytes
  <1>10. ASSUME NEW stale \in Cells
         PROVE  SubSeq(Received(stale).buffer, 1, Received(stale).length) = bytes
    <2>1. payloadBuffer \in Cells
      BY DEF Inv, TypeOK
    <2>2. bytes = SubSeq(payloadBuffer, 1, n)
      BY <1>2, <1>3 DEF Payload
    <2>3. SubSeq(Overwrite(stale, 0, bytes), 1, n) = bytes
      BY <1>4, <2>1, <2>2, ReceivedCells
    <2>4. /\ Received(stale).buffer = Overwrite(stale, 0, bytes)
          /\ Received(stale).length = n
      BY <1>2, <1>3 DEF Received
    <2>. QED  BY <2>3, <2>4
  <1>. QED  BY <1>1, <1>5, <1>8, <1>9, <1>10

\* What a Set... function or SendAdbMessage puts on the wire arrives as it was
\* meant, over whatever both pooled buffers held before.
THEOREM SentArrives == Spec => []SentIsReceived
  <1>1. Inv => SentIsReceived
    BY InvPayloadIsReceived, InvAdbRelayedVerbatim DEF SentIsReceived
  <1>. QED  BY <1>1, Invariant, PTL

-----------------------------------------------------------------------------
(* The parsers and the reference *)

\* Get... of what was read agrees with the reference.
LEMMA InvGetMatchesReference == Inv => GetMatchesReference
  <1>. SUFFICES ASSUME Inv, last.op = "read", NEW f \in Shapes
                PROVE  LET r == GetPayload(f, [buffer |-> payloadBuffer,
                                               length |-> payloadLength])
                           held == Holds(f, Payload) IN
                       IF held = {} THEN r.result = "error"
                                    ELSE r.result = "ok" /\ held = {r.values}
    BY DEF GetMatchesReference
  <1>1. payloadBuffer \in Cells /\ payloadLength \in 0..MaxPayloadSize
    BY DEF Inv, TypeOK, ReadFits
  <1>. QED  BY <1>1, GetIsReference DEF Payload

\* DecodeMessage of what was read agrees with the reference.
LEMMA InvDecodeMatchesReference == Inv => DecodeMatchesReference
  <1>. SUFFICES ASSUME Inv, last.op = "read", payloadLength >= HeaderSize
                PROVE  LET end == HeaderSize + Payload[2]
                           data == AdbData(payloadBuffer) IN
                       /\ DecodeMessage(Payload)
                             <=> (/\ Payload[1] = ValidCommand
                                  /\ end <= payloadLength \/ SumWraps(Payload))
                       /\ SumWraps(Payload) => data.result = "panic"
                       /\ DecodeMessage(Payload) /\ ~SumWraps(Payload)
                             => /\ IsPrefix(AdbBytes(Payload), Payload)
                                /\ Len(AdbBytes(Payload)) = end
                                /\ data.result = "ok"
                                /\ data.values = <<SubSeq(Payload, HeaderSize + 1, end)>>
    BY DEF DecodeMatchesReference
  <1>1. payloadBuffer \in Cells /\ payloadLength \in 0..MaxPayloadSize
    BY DEF Inv, TypeOK, ReadFits
  <1>2. PICK len \in Nat : len = payloadLength /\ len >= 2 /\ len <= MaxPayloadSize
    BY <1>1, Constants DEF HeaderSize
  <1>3. PICK p : p = Payload
    OBVIOUS
  <1>4. p \in Seq(Words) /\ Len(p) = len /\ \A i \in 1..len : p[i] = payloadBuffer[i]
    BY <1>1, <1>2, <1>3, PayloadCells DEF Payload
  <1>5. PICK n \in Nat : n = payloadBuffer[2] /\ n = p[2]
    <2>1. 2 \in 1..len /\ 2 \in 1..MaxPayloadSize
      BY <1>2, Constants
    <2>2. payloadBuffer[2] \in Words
      BY <1>1, <2>1 DEF Cells
    <2>. QED  BY <1>4, <2>1, <2>2, Constants
  <1>6. SumWraps(p) <=> 2 + n >= Modulus
    BY <1>5 DEF SumWraps, HeaderSize
  <1>7. ASSUME 2 + n < Modulus
        PROVE  Add(HeaderSize, p[2]) = 2 + n
    <2>1. HeaderSize \in Nat /\ HeaderSize + n < Modulus /\ HeaderSize + n = 2 + n
      BY <1>7 DEF HeaderSize
    <2>. QED  BY <1>5, <2>1, NoWrap
  <1>8. ASSUME 2 + n >= Modulus
        PROVE  Add(HeaderSize, p[2]) \in Nat /\ Add(HeaderSize, p[2]) < 2
    <2>1. n < Modulus /\ Modulus \in Nat
      <3>1. 2 \in 1..MaxPayloadSize
        BY <1>2, Constants
      <3>2. payloadBuffer[2] \in Words
        BY <1>1, <3>1 DEF Cells
      <3>. QED  BY <1>5, <3>2, Constants
    <2>. QED  BY <1>5, <1>8, <2>1 DEF Add, HeaderSize
  <1>9. DecodeMessage(p) <=> p[1] = ValidCommand /\ (2 + n <= len \/ SumWraps(p))
    <2>1. CASE 2 + n < Modulus
      BY <1>2, <1>4, <1>6, <1>7, <2>1, Constants DEF DecodeMessage, HeaderSize
    <2>2. CASE 2 + n >= Modulus
      BY <1>2, <1>4, <1>6, <1>8, <2>2, Constants DEF DecodeMessage, HeaderSize
    <2>. QED  BY <2>1, <2>2, Constants
  <1>10. ASSUME n + 2 <= len, 2 + n < Modulus
        PROVE  IsPrefix(AdbBytes(p), p) /\ Len(AdbBytes(p)) = 2 + n
    <2>1. PICK s : s = SubSeq(p, 1, n + 2)
      OBVIOUS
    <2>2. 0 + 1 = 1 /\ (n + 2) - 0 = n + 2 /\ 0 <= n + 2 /\ n + 2 \in Nat
      OBVIOUS
    <2>3. \A i \in (0 + 1)..(n + 2) : p[i] \in Words
      <3>1. \A i \in (0 + 1)..(n + 2) : i \in 1..len
        BY <1>10
      <3>. QED  BY <1>4, <3>1
    <2>4. /\ SubSeq(p, 0 + 1, n + 2) \in Seq(Words)
          /\ Len(SubSeq(p, 0 + 1, n + 2)) = (n + 2) - 0
          /\ \A j \in 1..((n + 2) - 0) : SubSeq(p, 0 + 1, n + 2)[j] = p[0 + j]
      BY <2>2, <2>3, PartOf
    <2>5. \A i \in 1..(n + 2) : 0 + i = i
      OBVIOUS
    <2>6. s \in Seq(Words) /\ Len(s) = n + 2 /\ \A i \in 1..(n + 2) : s[i] = p[i]
      BY <2>1, <2>2, <2>4, <2>5
    <2>7. IsPrefix(s, p) <=> Len(s) <= Len(p) /\ \A i \in 1..Len(s) : p[i] = s[i]
      BY <1>4, <2>6, PrefixElements DEF Begins
    <2>8. AdbBytes(p) = s
      BY <1>7, <1>10, <2>1 DEF AdbBytes
    <2>. QED  BY <1>4, <1>10, <2>6, <2>7, <2>8
  <1>11. ASSUME n + 2 <= len
         PROVE  /\ AdbData(payloadBuffer).result = "ok"
                /\ AdbData(payloadBuffer).values = <<SubSeq(p, HeaderSize + 1, 2 + n)>>
    <2>1. PICK b \in Cells : b = payloadBuffer
      BY <1>1
    <2>2. PICK y \in Nat : y = 2 + n /\ 2 <= y /\ y - 2 = n /\ y <= len /\ y <= MaxPayloadSize
      BY <1>2, <1>11, Constants
    <2>3. PICK u : u = SubSeq(b, 2 + 1, y)
      OBVIOUS
    <2>4. PICK w : w = SubSeq(p, 2 + 1, y)
      OBVIOUS
    <2>5. u \in Seq(Words) /\ Len(u) = n /\ \A j \in 1..n : u[j] = b[2 + j]
      BY <2>2, <2>3, Part
    <2>6. \A i \in (2 + 1)..y : p[i] \in Words
      <3>1. \A i \in (2 + 1)..y : i \in 1..len
        BY <2>2
      <3>. QED  BY <1>4, <3>1
    <2>7. w \in Seq(Words) /\ Len(w) = n /\ \A j \in 1..n : w[j] = p[2 + j]
      BY <2>2, <2>4, <2>6, PartOf
    <2>8. \A j \in 1..n : 2 + j \in 1..len
      BY <2>2
    <2>9. u = w
      BY <1>4, <2>1, <2>5, <2>7, <2>8, SeqEqual
    <2>10. Len(b) = MaxPayloadSize
      BY Constants DEF Cells
    <2>11. AdbData(b) = [offset |-> y, values |-> Append(<<>>, u), result |-> "ok"]
      BY <1>5, <2>1, <2>2, <2>3, <2>10 DEF AdbData, Slice, HeaderSize
    <2>12. Append(<<>>, u) = <<u>>
      BY <2>5
    <2>13. SubSeq(p, HeaderSize + 1, 2 + n) = u
      BY <2>2, <2>4, <2>9 DEF HeaderSize
    <2>14. AdbData(payloadBuffer) = [offset |-> y, values |-> <<u>>, result |-> "ok"]
      BY <2>1, <2>11, <2>12, Zenon
    <2>15. AdbData(payloadBuffer).result = "ok" /\ AdbData(payloadBuffer).values = <<u>>
      BY <2>14
    <2>. QED  BY <2>13, <2>15, Zenon
  <1>12. ASSUME 2 + n >= Modulus
         PROVE  AdbData(payloadBuffer).result = "panic"
    <2>1. Len(payloadBuffer) = MaxPayloadSize
      BY <1>1, Constants DEF Cells
    <2>2. ~(2 + n <= MaxPayloadSize)
      BY <1>12, Constants
    <2>. QED  BY <1>5, <2>1, <2>2 DEF AdbData, Slice, HeaderSize
  <1>. QED  BY <1>2, <1>3, <1>5, <1>6, <1>9, <1>10, <1>11, <1>12, Constants DEF HeaderSize

\* Whatever a peer sends, Get... returns what the payload holds, or an error if
\* it holds nothing of the kind; DecodeMessage and Data do the same, unless the
\* declared length is within HeaderSize of 2^32, when the one accepts and the
\* other panics.
THEOREM ParsersAgree == Spec => []ParsersMatchReference
  <1>1. Inv => ParsersMatchReference
    BY InvGetMatchesReference, InvDecodeMatchesReference DEF ParsersMatchReference
  <1>. QED  BY <1>1, Invariant, PTL
===============================================================================
