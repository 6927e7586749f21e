--------------------------- MODULE ExchangeProofs ---------------------------
(***************************************************************************)
(* Proofs about an exchange on its way from the client to the page of the  *)
(* admin UI, for any rule table, any texts of rules, any bodies and any    *)
(* lengths of payloads.                                                    *)
(***************************************************************************)
EXTENDS Exchange, AppLemmas

-----------------------------------------------------------------------------
(* Frames: what writeWSFrame writes is what a reader takes it to be.       *)

Opcodes == {1, 8, 10}

\* The header h of a frame of n bytes: its shape, and the length in it.
Shape(h, op, n) ==
    /\ h \in Seq(Byte) /\ h[1] = FinOp + op
    /\ \/ Len(h) = 2 /\ h[2] = n /\ n < 126
       \/ Len(h) = 4 /\ h[2] = 126 /\ Uint16(h, 3) = n /\ n >= 126
       \/ Len(h) = 10 /\ h[2] = 127 /\ Uint64(h, 3) = n /\ n >= Word

\* Words and bytes, without their ranges.
IsWord(w) == w \in Nat /\ w < 65536

LEMMA ByteRange == \A b : b \in Byte <=> b \in Nat /\ b < 256
BY DEF Byte

LEMMA WordBound == Word = 65536
BY DEF Word

\* Division with a remainder, by a byte and by a word.
LEMMA DivByte ==
    ASSUME NEW w \in Nat
    PROVE  High(w) \in Nat /\ Low(w) \in Byte /\ High(w) * 256 + Low(w) = w
<1>1. PICK d \in Int : d = w \div 256
  OBVIOUS
<1>2. PICK r \in Int : r = w % 256
  OBVIOUS
<1>3. 0 <= r /\ r < 256 /\ d * 256 + r = w
  BY <1>1, <1>2
<1>4. d \in Nat /\ r \in Nat
  BY <1>3
<1> QED BY <1>1, <1>2, <1>3, <1>4, ByteRange DEF High, Low

LEMMA DivWord ==
    ASSUME NEW n \in Nat
    PROVE  /\ n \div Word \in Nat /\ IsWord(n % Word)
           /\ (n \div Word) * 65536 + (n % Word) = n
<1>1. PICK d \in Int : d = n \div 65536
  OBVIOUS
<1>2. PICK r \in Int : r = n % 65536
  OBVIOUS
<1>3. 0 <= r /\ r < 65536 /\ d * 65536 + r = n
  BY <1>1, <1>2
<1>4. d \in Nat /\ r \in Nat
  BY <1>3
<1> QED BY <1>1, <1>2, <1>3, <1>4, WordBound DEF IsWord

\* A word is two bytes.
LEMMA WordBytes ==
    ASSUME NEW w, IsWord(w)
    PROVE  High(w) \in Byte /\ Low(w) \in Byte /\ High(w) * 256 + Low(w) = w
<1>1. w \in Nat /\ w < 65536
  BY DEF IsWord
<1>2. PICK d \in Nat : d = High(w)
  BY <1>1, DivByte
<1>3. PICK r \in Nat : r = Low(w) /\ r < 256 /\ r \in Byte
  BY <1>1, DivByte, ByteRange
<1>4. d * 256 + r = w
  BY <1>1, <1>2, <1>3, DivByte
<1>5. d < 256
  BY <1>1, <1>3, <1>4
<1> QED BY <1>2, <1>3, <1>4, <1>5, ByteRange

\* A length is four words, the first one below 2^15.
LEMMA LengthWords ==
    ASSUME NEW n, IsLength(n)
    PROVE  /\ IsWord(Fourth(n)) /\ IsWord(Third(n)) /\ IsWord(Second(n)) /\ IsWord(First(n))
           /\ ((Fourth(n) * 65536 + Third(n)) * 65536 + Second(n)) * 65536 + First(n) = n
<1>1. n \in Nat /\ Fourth(n) < 32768
  BY DEF IsLength
<1>2. PICK p \in Nat : p = n \div Word
  BY <1>1, DivWord
<1>3. PICK q \in Nat : q = p \div Word
  BY DivWord
<1>4. PICK t \in Nat : t = q \div Word
  BY DivWord
<1>5. /\ IsWord(q % Word) /\ IsWord(p % Word) /\ IsWord(n % Word)
      /\ t * 65536 + (q % Word) = q
      /\ q * 65536 + (p % Word) = p
      /\ p * 65536 + (n % Word) = n
  BY <1>1, <1>2, <1>3, <1>4, DivWord
<1>6. /\ Fourth(n) = t /\ Third(n) = q % Word
      /\ Second(n) = p % Word /\ First(n) = n % Word
  BY <1>2, <1>3, <1>4 DEF Fourth, Third, Second, First
<1>7. IsWord(t)
  BY <1>1, <1>6 DEF IsWord
<1> QED BY <1>5, <1>6, <1>7

LEMMA HeaderByte ==
    ASSUME NEW op \in Opcodes
    PROVE  FinOp + op \in Byte /\ (FinOp + op) % 16 = op
BY ByteRange DEF FinOp, Opcodes

LEMMA ShortShape ==
    ASSUME NEW op \in Opcodes, NEW n \in Nat, n < 126
    PROVE  Shape(Header(op, n), op, n)
<1>1. Header(op, n) = <<FinOp + op, n>>
  BY DEF Header
<1>2. FinOp + op \in Byte /\ n \in Byte
  BY HeaderByte, ByteRange
<1>3. <<FinOp + op, n>> \in Seq(Byte)
  BY <1>2
<1> QED BY <1>1, <1>3 DEF Shape

LEMMA WordShape ==
    ASSUME NEW op \in Opcodes, NEW n \in Nat, n >= 126, n < 65536
    PROVE  Shape(Header(op, n), op, n)
<1>1. Header(op, n) = <<FinOp + op, 126, High(n), Low(n)>>
  BY WordBound DEF Header
<1>2. FinOp + op \in Byte /\ 126 \in Byte
  BY HeaderByte, ByteRange
<1>3. PICK a \in Byte, b \in Byte : a = High(n) /\ b = Low(n) /\ a * 256 + b = n
  BY WordBytes DEF IsWord
<1>4. PICK h : h = Header(op, n)
  OBVIOUS
<1>5. h = <<FinOp + op, 126, a, b>>
  BY <1>1, <1>3, <1>4
<1>6. h \in Seq(Byte) /\ Len(h) = 4
  BY <1>2, <1>5
<1>7. h[1] = FinOp + op /\ h[2] = 126 /\ h[3] = a /\ h[4] = b
  BY <1>5
<1>8. At(h, 3) = a /\ At(h, 3 + 1) = b
  BY <1>6, <1>7 DEF At
<1>9. Uint16(h, 3) = n
  BY <1>3, <1>8 DEF Uint16
<1>10. Shape(h, op, n)
  BY <1>6, <1>7, <1>9 DEF Shape
<1> QED BY <1>4, <1>10

LEMMA LongShape ==
    ASSUME NEW op \in Opcodes, NEW n, IsLength(n), n >= 65536
    PROVE  Shape(Header(op, n), op, n)
<1>0. n \in Nat
  BY DEF IsLength
<1>1. PICK a, b, c, d :
          /\ a = Fourth(n) /\ b = Third(n) /\ c = Second(n) /\ d = First(n)
          /\ IsWord(a) /\ IsWord(b) /\ IsWord(c) /\ IsWord(d)
          /\ ((a * 65536 + b) * 65536 + c) * 65536 + d = n
  BY LengthWords
<1>2. ~(n < 126) /\ ~(n < 65536)
  BY <1>0
<1>3. Header(op, n) = LongHeader(op, n)
  BY <1>2, WordBound DEF Header
<1>4. FinOp + op \in Byte /\ 127 \in Byte
  BY HeaderByte, ByteRange
<1>5. \A w \in {a, b, c, d} :
          High(w) \in Byte /\ Low(w) \in Byte /\ High(w) * 256 + Low(w) = w
  BY <1>1, WordBytes
<1>6. PICK h : h = Header(op, n)
  OBVIOUS
<1>7. h = <<FinOp + op, 127, High(a), Low(a), High(b), Low(b),
            High(c), Low(c), High(d), Low(d)>>
  BY <1>1, <1>3, <1>6 DEF LongHeader
<1>8. h \in Seq(Byte) /\ Len(h) = 10
  BY <1>4, <1>5, <1>7
<1>9. /\ h[1] = FinOp + op /\ h[2] = 127
      /\ h[3] = High(a) /\ h[4] = Low(a) /\ h[5] = High(b) /\ h[6] = Low(b)
      /\ h[7] = High(c) /\ h[8] = Low(c) /\ h[9] = High(d) /\ h[10] = Low(d)
  BY <1>7
<1>10. \A i \in 1..10 : At(h, i) = h[i]
  BY <1>8 DEF At
<1>11. /\ Uint16(h, 3) = High(a) * 256 + Low(a)
       /\ Uint16(h, 3 + 2) = High(b) * 256 + Low(b)
       /\ Uint16(h, 3 + 4) = High(c) * 256 + Low(c)
       /\ Uint16(h, 3 + 6) = High(d) * 256 + Low(d)
  BY <1>9, <1>10 DEF Uint16
<1>12. /\ Uint16(h, 3) = a /\ Uint16(h, 3 + 2) = b
       /\ Uint16(h, 3 + 4) = c /\ Uint16(h, 3 + 6) = d
  BY <1>5, <1>11
<1>13. Uint64(h, 3) = n
  BY <1>1, <1>12, WordBound DEF Uint64
<1>14. Shape(h, op, n)
  BY <1>0, <1>2, <1>8, <1>9, <1>13, WordBound DEF Shape
<1> QED BY <1>6, <1>14

\* The header of a frame, at every length and at every change of its form.
LEMMA HeaderShape ==
    ASSUME NEW op \in Opcodes, NEW n, IsLength(n)
    PROVE  Shape(Header(op, n), op, n)
<1>1. n \in Nat
  BY DEF IsLength
<1> QED BY <1>1, ShortShape, WordShape, LongShape

\* A reader is in step after such a header, and a browser accepts it.
LEMMA ShapeInStep ==
    ASSUME NEW h, NEW op \in Opcodes, NEW n, IsLength(n), Shape(h, op, n)
    PROVE  InStep(h, n) /\ BrowserAccepts(h, n)
<1>1. CASE Len(h) = 2 /\ h[2] = n /\ n < 126
  <2>1. n \in Nat /\ h[2] % 128 = n /\ Extended(n) = 0 /\ ~(h[2] >= 128)
    BY <1>1 DEF IsLength, Extended
  <2> QED BY <1>1, <2>1 DEF InStep, readHeader, ReadLength, BrowserAccepts
<1>2. CASE Len(h) = 4 /\ h[2] = 126 /\ Uint16(h, 3) = n /\ n >= 126
  <2>1. h[2] % 128 = 126 /\ Extended(126) = 2 /\ ~(h[2] >= 128)
    BY <1>2 DEF Extended
  <2> QED BY <1>2, <2>1 DEF InStep, readHeader, ReadLength, BrowserAccepts
<1>3. CASE Len(h) = 10 /\ h[2] = 127 /\ Uint64(h, 3) = n /\ n >= Word
  <2>1. h[2] % 128 = 127 /\ Extended(127) = 8 /\ ~(h[2] >= 128)
    BY <1>3 DEF Extended
  <2> QED BY <1>3, <2>1 DEF InStep, readHeader, ReadLength, BrowserAccepts
<1> QED BY <1>1, <1>2, <1>3 DEF Shape

\* The browser's frames: the mask adds four bytes, and handleWS skips them.
LEMMA MaskedInStep ==
    ASSUME NEW op \in Opcodes, NEW n, IsLength(n)
    PROVE  LET m == MaskedHeader(op, n, MaskKey)
           IN  /\ m \in Seq(Byte) /\ m # <<>> /\ Len(m) \in {6, 8, 14}
               /\ InStep(m, n) /\ readHeader(m).op = op
<1>1. PICK h : h = Header(op, n) /\ Shape(h, op, n)
  BY HeaderShape
<1>2. PICK m : m = MaskedHeader(op, n, MaskKey)
  OBVIOUS
<1>3. m = [i \in 1..(Len(h) + 4) |->
              IF i > Len(h) THEN MaskKey[i - Len(h)] ELSE IF i = 2 THEN h[2] + 128 ELSE h[i]]
  BY <1>1, <1>2 DEF MaskedHeader
<1>4. /\ h \in Seq(Byte) /\ Len(h) \in {2, 4, 10} /\ h[2] \in Nat /\ h[2] < 128
      /\ n \in Nat
  BY <1>1 DEF Shape, IsLength
<1>5. \A i \in 1..4 : MaskKey[i] \in Byte
  BY ExchangeAssumption
<1>6. \A i \in 1..(Len(h) + 4) : m[i] \in Byte
  <2>1. \A i \in 1..Len(h) : h[i] \in Byte
    BY <1>4
  <2>2. h[2] + 128 \in Byte
    <3>1. h[2] + 128 \in Nat /\ h[2] + 128 < 256
      BY <1>4
    <3> QED BY <3>1, ByteRange
  <2>3. \A i \in 1..(Len(h) + 4) : i > Len(h) => i - Len(h) \in 1..4
    BY <1>4
  <2>4. \A i \in 1..(Len(h) + 4) : ~(i > Len(h)) => i \in 1..Len(h)
    BY <1>4
  <2> QED BY <1>3, <1>5, <2>1, <2>2, <2>3, <2>4
<1>7. /\ m \in Seq(Byte) /\ Len(m) = Len(h) + 4 /\ m[2] = h[2] + 128
      /\ \A i \in 1..Len(h) : i # 2 => m[i] = h[i]
  <2>1. Len(h) + 4 \in Nat
    BY <1>4
  <2>2. m \in Seq(Byte) /\ Len(m) = Len(h) + 4
    BY <1>3, <1>6, <2>1
  <2> QED BY <1>3, <1>4, <2>2
<1>8. m[1] = FinOp + op /\ m[2] >= 128 /\ m[2] % 128 = h[2]
  <2>1. h[1] = FinOp + op /\ 1 \in 1..Len(h) /\ 1 # 2
    BY <1>1, <1>4 DEF Shape
  <2>2. m[1] = FinOp + op
    BY <1>7, <2>1
  <2>3. PICK b \in Nat : b = h[2] /\ b < 128
    BY <1>4
  <2>4. b + 128 >= 128 /\ (b + 128) % 128 = b
    BY <2>3
  <2> QED BY <1>7, <2>2, <2>3, <2>4
<1>9. InStep(m, n)
  <2>1. CASE Len(h) = 2 /\ h[2] = n /\ n < 126
    <3>1. Extended(h[2]) = 0
      BY <1>4, <2>1 DEF Extended
    <3> QED BY <1>4, <1>7, <1>8, <2>1, <3>1 DEF InStep, readHeader, ReadLength
  <2>2. CASE Len(h) = 4 /\ h[2] = 126 /\ Uint16(h, 3) = n
    <3>1. Extended(h[2]) = 2
      BY <2>2 DEF Extended
    <3>2. Uint16(m, 3) = Uint16(h, 3)
      BY <1>4, <1>7, <2>2 DEF Uint16, At
    <3> QED BY <1>7, <1>8, <2>2, <3>1, <3>2 DEF InStep, readHeader, ReadLength
  <2>3. CASE Len(h) = 10 /\ h[2] = 127 /\ Uint64(h, 3) = n
    <3>1. Extended(h[2]) = 8
      BY <2>3 DEF Extended
    <3>2. \A i \in {3, 4, 5, 6, 7, 8, 9, 10} : At(m, i) = At(h, i)
      BY <1>4, <1>7, <2>3 DEF At
    <3>3. Uint64(m, 3) = Uint64(h, 3)
      BY <3>2 DEF Uint64, Uint16
    <3> QED BY <1>7, <1>8, <2>3, <3>1, <3>3 DEF InStep, readHeader, ReadLength
  <2> QED BY <1>1, <2>1, <2>2, <2>3 DEF Shape
<1>10. readHeader(m).op = op
  BY <1>8, HeaderByte DEF readHeader
<1>11. Len(m) \in {6, 8, 14}
  <2>1. Len(h) = 2 => Len(m) = 6
    BY <1>7
  <2>2. Len(h) = 4 => Len(m) = 8
    BY <1>7
  <2>3. Len(h) = 10 => Len(m) = 14
    BY <1>7
  <2> QED BY <1>4, <2>1, <2>2, <2>3
<1>12. m # <<>>
  BY <1>11
<1> QED BY <1>2, <1>7, <1>9, <1>10, <1>11, <1>12

-----------------------------------------------------------------------------
(* Rules: what they make of their texts.                                   *)

LEMMA SeqMap ==
    ASSUME NEW S, NEW T, NEW s \in Seq(S), NEW f \in [DOMAIN s -> T]
    PROVE  f \in Seq(T) /\ DOMAIN f = DOMAIN s
OBVIOUS

LEMMA SeqAsFunction ==
    ASSUME NEW S, NEW s \in Seq(S)
    PROVE  s = [j \in DOMAIN s |-> s[j]]
OBVIOUS

LEMMA TextPieces ==
    ASSUME NEW t \in Text, NEW i \in DOMAIN t
    PROVE  t[i] \in Seq(Piece) /\ \A j \in DOMAIN t[i] : t[i][j] \in Piece
<1>1. t[i] \in Seq(Piece)
  BY DEF Text
<1> QED BY <1>1

\* What the replacer and the template make of one piece.
LEMMA PieceFacts ==
    ASSUME NEW p \in Piece, NEW q
    PROVE  /\ Dot(p) \in Piece /\ Value(Dot(p), q) \in Piece
           /\ p # Marker => Dot(p) # Marker /\ Value(Dot(p), q) \notin Unresolved
           /\ p \in Literals => Value(Dot(p), q) = p
<1>1. Dot(p) = IF p = "{{path}}" THEN "{{.path}}"
               ELSE IF p = "{{host}}" THEN "{{.host}}"
               ELSE IF p = "{{query.q}}" THEN "{{.query.q}}" ELSE p
  BY DEF Dot
<1>2. \A y : Value(y, q) = IF y = "{{.path}}" THEN "PATH"
                           ELSE IF y = "{{.host}}" THEN "HOST"
                           ELSE IF y = "{{.query.q}}" THEN IF q THEN "Q" ELSE "<no value>"
                           ELSE y
  BY DEF Value
<1>3. Dot(p) \in Piece /\ Value(Dot(p), q) \in Piece
  BY <1>1, <1>2 DEF Piece, Dotted, Values
<1>4. p # Marker => Dot(p) # Marker /\ Value(Dot(p), q) \notin Unresolved
  BY <1>1, <1>2 DEF Unresolved, Templates, Dotted, Marker
<1>5. p \in Literals => Value(Dot(p), q) = p
  BY <1>1, <1>2, RuleEvalAssumption DEF Templates, Dotted
<1> QED BY <1>3, <1>4, <1>5

\* applyTpl works on each piece for itself.
LEMMA TplFacts ==
    ASSUME NEW t \in Text, NEW q
    PROVE  /\ applyTpl(t, q) \in Text
           /\ DOMAIN applyTpl(t, q) = DOMAIN t
           /\ \A i \in DOMAIN t : DOMAIN applyTpl(t, q)[i] = DOMAIN t[i]
           /\ \A i \in DOMAIN t : \A j \in DOMAIN t[i] :
                  \/ applyTpl(t, q)[i][j] = Dot(t[i][j])
                  \/ applyTpl(t, q)[i][j] = Value(Dot(t[i][j]), q)
           /\ ~Holds(t, Rejected) =>
                 \A i \in DOMAIN t : \A j \in DOMAIN t[i] :
                     applyTpl(t, q)[i][j] = Value(Dot(t[i][j]), q)
<1> DEFINE d == [i \in DOMAIN t |-> [j \in DOMAIN t[i] |-> Dot(t[i][j])]]
           v == [i \in DOMAIN t |-> [j \in DOMAIN t[i] |-> Value(Dot(t[i][j]), q)]]
<1>1. applyTpl(t, q) = IF Holds(t, Rejected) THEN d ELSE v
  BY DEF applyTpl, Replace
<1>2. ASSUME NEW i \in DOMAIN t PROVE t[i] \in Seq(Piece)
  BY TextPieces
<1>3. ASSUME NEW i \in DOMAIN t PROVE d[i] \in Seq(Piece) /\ v[i] \in Seq(Piece)
  <2>1. \A j \in DOMAIN t[i] : t[i][j] \in Piece
    BY <1>2
  <2>2. d[i] \in [DOMAIN t[i] -> Piece] /\ v[i] \in [DOMAIN t[i] -> Piece]
    BY <2>1, PieceFacts
  <2> QED BY <1>2, <2>2, SeqMap
<1>4. d \in [DOMAIN t -> Seq(Piece)] /\ v \in [DOMAIN t -> Seq(Piece)]
  BY <1>3
<1>5. d \in Text /\ v \in Text
  BY <1>4, SeqMap DEF Text
<1>6. /\ DOMAIN d = DOMAIN t /\ DOMAIN v = DOMAIN t
      /\ \A i \in DOMAIN t : DOMAIN d[i] = DOMAIN t[i] /\ DOMAIN v[i] = DOMAIN t[i]
      /\ \A i \in DOMAIN t : \A j \in DOMAIN t[i] :
            d[i][j] = Dot(t[i][j]) /\ v[i][j] = Value(Dot(t[i][j]), q)
  OBVIOUS
<1> HIDE DEF d, v
<1> QED BY <1>1, <1>5, <1>6

LEMMA MarkersType ==
    ASSUME NEW s \in RuleText, NEW out \in RuleText, NEW F
    PROVE  evalMarkers(s, out, F) \in Text
<1>1. Marker \in Piece
  BY DEF Piece
<1>2. ASSUME NEW i \in DOMAIN s
      PROVE  evalMarkers(s, out, F)[i] \in Seq(Piece)
  <2>1. s[i] \in Piece
    BY DEF RuleText
  <2>2. <<Marker>> \in Seq(Piece) /\ <<s[i]>> \in Seq(Piece)
    BY <1>1, <2>1
  <2> QED BY <2>2 DEF evalMarkers, evalExpr, RuleText
<1>3. evalMarkers(s, out, F) \in [DOMAIN s -> Seq(Piece)]
  BY <1>2 DEF evalMarkers
<1> QED BY <1>3, SeqMap DEF RuleText, Text

LEMMA EvalBodyType ==
    ASSUME NEW s \in RuleText, NEW out \in RuleText, NEW whole, NEW F, NEW q
    PROVE  evalBody(s, whole, out, F, q) \in Text
<1>1. <<runProgram(s, out, F)>> \in Text
  <2>1. runProgram(s, out, F) \in Seq(Piece)
    BY DEF runProgram, RuleText
  <2> QED BY <2>1 DEF Text
<1>2. CASE whole
  BY <1>1, <1>2, TplFacts DEF evalBody
<1>3. CASE ~whole
  BY <1>3, MarkersType, TplFacts DEF evalBody
<1> QED BY <1>2, <1>3

LEMMA JSONValueType ==
    ASSUME NEW v \in RuleText, NEW out \in RuleText, NEW F, NEW q
    PROVE  evalJSONValue(v, out, F, q) \in Text
<1>1. <<evalExpr(v, 1, out, F)>> \in Text
  <2>1. evalExpr(v, 1, out, F) \in Seq(Piece)
    BY DEF evalExpr, RuleText
  <2> QED BY <2>1 DEF Text
<1> QED BY <1>1, EvalBodyType DEF evalJSONValue

LEMMA ContentFields ==
    ASSUME NEW k \in Content
    PROVE  /\ k.body \in RuleText /\ k.rewriteBody \in RuleText /\ k.script \in RuleText
           /\ k.out \in RuleText /\ k.rewriteJSON \in [Keys -> {NoValue} \cup RuleText]
BY DEF Content, Object

LEMMA EmptyText == <<>> \in Text /\ NoKeys \in Object(Text)
BY DEF Text, NoKeys, Object

LEMMA NoBodyType == NoBody \in Body
BY EmptyText DEF NoBody, Body

\* A mock response and a replaced request have a text.
LEMMA RenderedType ==
    ASSUME NEW k \in Content, NEW s \in RuleText, NEW F, NEW q
    PROVE  Rendered(s, k, F, q) \in Body
<1>1. PICK t \in Text : Rendered(s, k, F, q) = TextBody(t)
  BY ContentFields, EvalBodyType DEF Rendered
<1> QED BY <1>1, EmptyText DEF TextBody, Body

\* What reading JSON into an any and writing it again does to a value.
LEMMA DecodedFacts ==
    ASSUME NEW v \in {NoValue} \cup Text, ~Overflows(v)
    PROVE  LET d == DecodedValue(v)
           IN  /\ d \in {NoValue} \cup Text
               /\ d = NoValue <=> v = NoValue
               /\ v # NoValue /\ Exact(v) => d = v
<1>1. CASE v = NoValue
  BY <1>1 DEF DecodedValue
<1>2. CASE v # NoValue
  <2>1. v \in Text /\ DecodedValue(v) = Replace(v, Decoded)
    BY <1>2 DEF DecodedValue
  <2>2. ASSUME NEW i \in DOMAIN v
        PROVE  /\ v[i] \in Seq(Piece)
               /\ [j \in DOMAIN v[i] |-> Decoded(v[i][j])] \in Seq(Piece)
    <3>1. v[i] \in Seq(Piece) /\ \A j \in DOMAIN v[i] : v[i][j] \in Piece
      BY <2>1, TextPieces
    <3>2. ASSUME NEW j \in DOMAIN v[i] PROVE Decoded(v[i][j]) \in Piece
      <4>1. Decoded(v[i][j]) # NoFloat
        BY <1>2 DEF Overflows
      <4> QED BY <3>1, <4>1, RuleEvalAssumption DEF Decoded, Piece
    <3> QED BY <3>1, <3>2, SeqMap
  <2>3. PICK d : d = [i \in DOMAIN v |-> [j \in DOMAIN v[i] |-> Decoded(v[i][j])]]
    OBVIOUS
  <2>4. d = DecodedValue(v)
    BY <2>1, <2>3 DEF Replace
  <2>5. d \in Text
    <3>1. v \in Seq(Seq(Piece)) /\ d \in [DOMAIN v -> Seq(Piece)]
      BY <2>1, <2>2, <2>3 DEF Text
    <3> QED BY <3>1, SeqMap DEF Text
  <2>6. Exact(v) => d = v
    <3> SUFFICES ASSUME Exact(v) PROVE d = v
      OBVIOUS
    <3>1. ASSUME NEW i \in DOMAIN v PROVE d[i] = v[i]
      <4>1. d[i] = [j \in DOMAIN v[i] |-> Decoded(v[i][j])]
        BY <2>3
      <4>2. \A j \in DOMAIN v[i] : Decoded(v[i][j]) = v[i][j]
        BY DEF Exact
      <4>3. v[i] \in Seq(Piece)
        BY <2>2
      <4>4. v[i] = [j \in DOMAIN v[i] |-> v[i][j]]
        BY <4>3, SeqAsFunction
      <4> QED BY <4>1, <4>2, <4>4
    <3>2. v = [i \in DOMAIN v |-> v[i]]
      BY <2>1 DEF Text
    <3> QED BY <2>3, <3>1, <3>2
  <2>7. NoValue \notin Text
    BY RuleEvalAssumption
  <2> QED BY <1>2, <2>4, <2>5, <2>6, <2>7
<1> QED BY <1>1, <1>2

LEMMA MergeType ==
    ASSUME NEW b \in Body, NEW k \in Content, NEW F, NEW q
    PROVE  Merge(b, k, F, q) \in Body
<1>1. b.obj \in Object(Text)
  BY DEF Body
<1>2. Unmarshal(b) \in [Keys -> {NoValue} \cup Text]
  <2>1. CASE Decodes(b)
    <3>1. \A n \in Keys : DecodedValue(b.obj[n]) \in {NoValue} \cup Text
      BY <1>1, <2>1, DecodedFacts DEF Decodes, Object
    <3> QED BY <2>1, <3>1 DEF Unmarshal
  <2>2. CASE ~Decodes(b)
    BY <2>2, EmptyText DEF Unmarshal, Object
  <2> QED BY <2>1, <2>2
<1>3. \A n \in Named(k.rewriteJSON) : k.rewriteJSON[n] \in RuleText
  BY ContentFields DEF Named
<1>4. \A n \in Named(k.rewriteJSON) :
          evalJSONValue(k.rewriteJSON[n], k.out, F, q) \in Text
  BY <1>3, ContentFields, JSONValueType
<1>5. PICK o \in [Keys -> {NoValue} \cup Text] : Merge(b, k, F, q) = JsonBody(o)
  BY <1>2, <1>4 DEF Merge
<1> QED BY <1>5, EmptyText DEF JsonBody, Body, Object

LEMMA MessageTypes ==
    ASSUME NEW b \in Body, NEW k \in Content, NEW F, NEW q
    PROVE  renderRule(k, F, q) \in Body /\ applyRewrite(b, k, F, q) \in Body
<1>2. Rendered(k.body, k, F, q) \in Body /\ Rendered(k.rewriteBody, k, F, q) \in Body
  BY ContentFields, RenderedType
<1>3. Merge(b, k, F, q) \in Body
  BY MergeType
<1> QED BY <1>2, <1>3 DEF renderRule, applyRewrite

-----------------------------------------------------------------------------
(* The inductive invariant.                                                *)

Stages    == {"none", "asked", "answered"}
Exchanges == [stage: Stages, body: Body, q: BOOLEAN, fails: SUBSET (1..MaxFails),
              msg: Body, flow: FlowBodies]

\* The message that stands for the request y, for the outcome of OnRequest.
Made(out, y) ==
    IF out.kind = "mock" THEN renderRule(ContentOf[out.rule.id], y.fails, y.q)
    ELSE IF out.kind = "rewrite"
         THEN applyRewrite(y.body, ContentOf[out.rule.id], y.fails, y.q)
         ELSE y.body

\* A rule that was chosen has an id, so it has its texts.
Chosen(o)  == o.kind # "forward" => o.rule.id \in RuleIDs
ChosenOK   == \A c \in Conns : Chosen(conn[c].out)
MadeOK     == \A c \in Conns :
                  x[c].stage = "answered" => /\ conn[c].pc = "flow"
                                             /\ x[c].msg = Made(conn[c].out, x[c])
ExchangeOK == rules = Table /\ x \in [Conns -> Exchanges] /\ ChosenOK /\ MadeOK

\* Frames as Publish makes them, in step with the flows they are to show.
Frame(n, f) == [hdr |-> Header(1, n), len |-> n, view |-> flowView(f)]
Frames      == {Frame(n, f) : n \in Lengths, f \in FlowBodies}
FramesOK ==
    /\ frames \in Seq(Frames) /\ flown \in Seq(FlowBodies)
    /\ Len(frames) = Len(flown)
    /\ \A i \in 1..Len(frames) : frames[i].view = flowView(flown[i])

ShownOK == shown \in FlowBodies /\ shownOf \in FlowBodies /\ ShownIsRecorded

\* Frames of the browser, before and after handleWS has read them.
Sent(op, n, r) == [hdr |-> MaskedHeader(op, n, MaskKey), len |-> n, op |-> op,
                   read |-> r]
Ends(op, n) == {"no"} \cup IF n <= MaxAlloc THEN {IF op = 8 THEN "left" ELSE "loop"}
                                            ELSE {"panic", "fatal"}
InboundOK ==
    \/ inbound = NoInbound
    \/ \E op \in Opcodes, n \in Lengths : \E r \in Ends(op, n) :
           inbound = Sent(op, n, r)

BaseOK == AppTypeOK /\ RegistryTypeOK /\ RuleTypeOK

IInv == BaseOK /\ ExchangeOK /\ FramesOK /\ ShownOK /\ InboundOK

LEMMA NoExchangeType == NoExchange \in Exchanges /\ NoFlow \in FlowBodies
<1>1. NoFlow \in FlowBodies
  BY NoBodyType DEF NoFlow, FlowBodies
<1> QED BY <1>1, NoBodyType DEF NoExchange, Exchanges, Stages

LEMMA MadeType ==
    ASSUME NEW out, Chosen(out), NEW y, y.body \in Body
    PROVE  Made(out, y) \in Body
<1>1. CASE out.kind \in {"mock", "rewrite"}
  <2>1. out.rule.id \in RuleIDs
    BY <1>1 DEF Chosen
  <2>2. PICK k \in Content : k = ContentOf[out.rule.id]
    BY <2>1, ExchangeAssumption
  <2> QED BY <1>1, <2>2, MessageTypes DEF Made
<1>2. CASE out.kind \notin {"mock", "rewrite"}
  BY <1>2 DEF Made
<1> QED BY <1>1, <1>2

LEMMA InitBase == ASSUME Init PROVE BaseOK /\ ChosenOK
<1>1. RegistryTypeOK
  <2>1. PICK s \in Promoted : states = [h \in Hosts |-> s]
    BY DEF Init
  <2>2. states \in StateMap
    BY <2>1, StateFacts DEF StateMap
  <2>3. hits \in [Hosts -> Nat] /\ flows = [h \in Hosts |-> <<>>]
    BY DEF Init
  <2> QED BY <2>2, <2>3, RingNPositive DEF RegistryTypeOK
<1>2. RuleTypeOK
  BY ExchangeAssumption DEF Init, RuleTypeOK
<1>3. AppTypeOK /\ ChosenOK
  BY IdleType DEF Init, AppInit, AppTypeOK, ChosenOK, Chosen, Idle, Forward
<1> QED BY <1>1, <1>2, <1>3 DEF BaseOK

LEMMA InitIInv == ASSUME Init PROVE IInv
<1>1. BaseOK /\ ChosenOK
  BY InitBase
<1>2. ExchangeOK
  BY <1>1, NoExchangeType DEF Init, ExchangeOK, MadeOK, NoExchange
<1>3. FramesOK
  BY DEF Init, FramesOK
<1>4. ShownOK
  BY NoExchangeType DEF Init, ShownOK, ShownIsRecorded
<1>5. InboundOK
  BY DEF Init, InboundOK
<1> QED BY <1>1, <1>2, <1>3, <1>4, <1>5 DEF IInv

\* matchRule finds a rule that has an id, and so its texts, or none.
LEMMA MatchHasId ==
    ASSUME rules = Table, NEW h, NEW req, NEW r \in matchRule(h, req), r # NoRule
    PROVE  r.id \in RuleIDs
<1>1. PICK e \in Table : e.rule = r
  BY DEF matchRule, FirstMatch
<1>2. e \in Entry /\ e.rule.id # NoId
  BY ExchangeAssumption
<1>3. r \in Rule /\ r.id # NoId
  BY <1>1, <1>2 DEF Entry
<1> QED BY <1>3 DEF Rule

\* A step of a connection that decides does so before the flow, touches no
\* other connection, and chooses rules that have their texts.
LEMMA DecideFacts ==
    ASSUME AppTypeOK, rules = Table, ChosenOK, NEW c \in Conns, Decide(c)
    PROVE  /\ conn[c].pc # "flow" /\ rules' = rules
           /\ \A d \in Conns \ {c} : conn'[d] = conn[d]
           /\ ChosenOK'
<1>0. conn \in [Conns -> Conn] /\ conn[c] \in Conn /\ Chosen(conn[c].out) /\ Chosen(Forward)
  BY DEF AppTypeOK, ChosenOK, Chosen, Forward
<1>1. ASSUME NEW k, conn' = [conn EXCEPT ![c] = k], Chosen(k.out)
      PROVE  (\A d \in Conns \ {c} : conn'[d] = conn[d]) /\ ChosenOK'
  BY <1>0, <1>1 DEF ChosenOK
<1>2. ASSUME NEW out, Decided(c, out), Chosen(out)
      PROVE  (\A d \in Conns \ {c} : conn'[d] = conn[d]) /\ ChosenOK'
  BY <1>0, <1>2 DEF ChosenOK, Decided, Conn
<1>3. CASE \E h \in Hosts : Accept(c, h)
  BY <1>0, <1>3 DEF Accept, ChosenOK, Conn
<1>4. CASE Close(c)
  <2>1. Chosen(Idle.out)
    BY <1>0 DEF Idle
  <2> QED BY <1>1, <1>4, <2>1 DEF Close
<1>5. CASE OnConnectObserve(c)
  BY <1>0, <1>5 DEF OnConnectObserve, ChosenOK, Conn
<1>6. CASE OnConnectState(c)
  BY <1>0, <1>6 DEF OnConnectState, ChosenOK, Conn
<1>7. CASE OnRequestState(c)
  BY <1>0, <1>7 DEF OnRequestState, ChosenOK, Conn
<1>8. CASE OnRequestMatch(c)
  <2>1. PICK r \in matchRule(conn[c].host, conn[c].req) :
            \/ IsRewrite(r) /\ \E o \in {[kind |-> "rewrite", rule |-> r], Forward} :
                                   Decided(c, o)
            \/ Decided(c, Forward)
            \/ conn' = [conn EXCEPT ![c].pc = "mock"]
    BY <1>8 DEF OnRequestMatch
  <2>2. IsRewrite(r) => Chosen([kind |-> "rewrite", rule |-> r])
    BY <2>1, MatchHasId DEF IsRewrite, Chosen
  <2>3. CASE conn' = [conn EXCEPT ![c].pc = "mock"]
    BY <1>0, <1>8, <2>3 DEF OnRequestMatch, ChosenOK, Conn
  <2> QED BY <1>0, <1>2, <1>8, <2>1, <2>2, <2>3 DEF OnRequestMatch
<1>9. CASE OnRequestMock(c)
  <2>1. PICK r \in matchRule(conn[c].host, conn[c].req) :
            \/ Decided(c, Forward)
            \/ r # NoRule /\ Decided(c, [kind |-> "mock", rule |-> r])
    BY <1>9 DEF OnRequestMock
  <2>2. r # NoRule => Chosen([kind |-> "mock", rule |-> r])
    BY <2>1, MatchHasId DEF Chosen
  <2> QED BY <1>0, <1>2, <1>9, <2>1, <2>2 DEF OnRequestMock
<1> QED BY <1>3, <1>4, <1>5, <1>6, <1>7, <1>8, <1>9 DEF Decide

\* Steps of a connection in Exchange are steps of App.
LEMMA DecideIsConnStep ==
    ASSUME NEW c \in Conns, Decide(c) PROVE ConnStep(c)
BY DEF Decide, ConnStep

-----------------------------------------------------------------------------
(* Each action preserves it.                                               *)

\* What an exchange leaves alone.
LEMMA SamePage ==
    ASSUME FramesOK, ShownOK, InboundOK, UNCHANGED <<frames, flown, shown, shownOf, inbound>>
    PROVE  FramesOK' /\ ShownOK' /\ InboundOK'
BY DEF FramesOK, ShownOK, ShownIsRecorded, InboundOK

LEMMA SameBase ==
    ASSUME BaseOK, UNCHANGED <<regVars, rules, conn>>
    PROVE  BaseOK'
BY DEF BaseOK, AppTypeOK, RegistryTypeOK, RuleTypeOK, regVars

LEMMA DecideInv == ASSUME IInv, NEW c \in Conns, Decide(c) PROVE IInv'
<1>1. BaseOK'
  BY DecideIsConnStep, ConnStepType DEF IInv, BaseOK
<1>2. /\ conn[c].pc # "flow" /\ rules' = rules
      /\ \A d \in Conns \ {c} : conn'[d] = conn[d]
      /\ ChosenOK'
  BY DecideFacts DEF IInv, BaseOK, ExchangeOK
<1>3. UNCHANGED exVars
  BY DEF Decide
<1>4. x' = x
  BY <1>3 DEF exVars
<1>5. MadeOK'
  <2>1. ASSUME NEW d \in Conns, x'[d].stage = "answered"
        PROVE  conn'[d] = conn[d] /\ x'[d] = x[d] /\ x[d].stage = "answered"
    BY <1>2, <1>4, <2>1 DEF IInv, ExchangeOK, MadeOK
  <2> QED BY <2>1 DEF IInv, ExchangeOK, MadeOK
<1>6. ExchangeOK'
  BY <1>2, <1>4, <1>5 DEF IInv, ExchangeOK
<1>7. FramesOK' /\ ShownOK' /\ InboundOK'
  BY <1>3, SamePage DEF IInv, exVars
<1> QED BY <1>1, <1>6, <1>7 DEF IInv

\* A step that gives connection c the exchange y, of which nothing is sent.
LEMMA StoreExchange ==
    ASSUME IInv, NEW c \in Conns, NEW y \in Exchanges, x' = [x EXCEPT ![c] = y],
           rules' = rules, ChosenOK',
           \A d \in Conns \ {c} : conn'[d] = conn[d],
           y.stage = "answered" => conn'[c].pc = "flow" /\ y.msg = Made(conn'[c].out, y)
    PROVE  ExchangeOK'
<1>1. x \in [Conns -> Exchanges] /\ rules = Table /\ MadeOK
  BY DEF IInv, ExchangeOK
<1>2. x' \in [Conns -> Exchanges] /\ x'[c] = y /\ \A d \in Conns \ {c} : x'[d] = x[d]
  BY <1>1
<1>3. MadeOK'
  BY <1>1, <1>2 DEF MadeOK
<1> QED BY <1>1, <1>2, <1>3 DEF ExchangeOK

LEMMA AskInv ==
    ASSUME IInv, NEW c \in Conns, NEW req \in Requests, NEW b \in ReqBodies,
           NEW q \in BOOLEAN, Ask(c, req, b, q)
    PROVE  IInv'
<1>1. ClientRequest(c, req)
  BY DEF Ask
<1>2. BaseOK'
  <2>1. ConnStep(c)
    BY <1>1 DEF ConnStep
  <2> QED BY <2>1, ConnStepType DEF IInv, BaseOK
<1>3. PICK y : y = [NoExchange EXCEPT !.stage = "asked", !.body = b, !.q = q]
  OBVIOUS
<1>4. y \in Exchanges /\ y.stage = "asked"
  <2>1. b \in Body
    BY ExchangeAssumption
  <2>2. y = [stage |-> "asked", body |-> b, q |-> q, fails |-> NoExchange.fails,
             msg |-> NoExchange.msg, flow |-> NoExchange.flow]
    BY <1>3 DEF NoExchange
  <2>3. NoExchange.fails \in SUBSET (1..MaxFails) /\ NoExchange.msg \in Body
        /\ NoExchange.flow \in FlowBodies
    BY NoExchangeType DEF Exchanges
  <2> QED BY <2>1, <2>2, <2>3 DEF Exchanges, Stages
<1>5. x' = [x EXCEPT ![c] = y]
  BY <1>3 DEF Ask
<1>6. /\ rules' = rules /\ ChosenOK'
      /\ \A d \in Conns \ {c} : conn'[d] = conn[d]
  <2>1. conn \in [Conns -> Conn] /\ ChosenOK
    BY DEF IInv, BaseOK, AppTypeOK, ExchangeOK
  <2> QED BY <1>1, <2>1 DEF ClientRequest, ChosenOK, Conn
<1>7. ExchangeOK'
  BY <1>4, <1>5, <1>6, StoreExchange
<1>8. FramesOK' /\ ShownOK' /\ InboundOK'
  BY SamePage DEF IInv, Ask
<1> QED BY <1>2, <1>7, <1>8 DEF IInv

LEMMA AnswerInv ==
    ASSUME IInv, NEW c \in Conns, NEW F \in ScriptFailures(MaxFails),
           NEW r \in ResBodies, Answer(c, F, r)
    PROVE  IInv'
<1>1. UNCHANGED <<regVars, rules, conn>>
  BY DEF Answer
<1>2. BaseOK'
  BY <1>1, SameBase DEF IInv
<1>3. PICK y \in Exchanges : y = x[c]
  BY DEF IInv, ExchangeOK
<1>4. PICK out : out = conn[c].out /\ Chosen(out) /\ out.kind \in {"mock", "rewrite", "forward"}
  BY DEF IInv, BaseOK, AppTypeOK, Conn, Outcome, ExchangeOK, ChosenOK
<1>5. PICK w : w = [y EXCEPT !.fails = F]
  OBVIOUS
<1>6. w.body = y.body /\ w.q = y.q /\ w.fails = F /\ y.body \in Body
  BY <1>3, <1>5 DEF Exchanges
<1>7. PICK m \in Body : m = Made(out, w)
  BY <1>4, <1>6, MadeType
<1>8. r \in Body
  BY ExchangeAssumption
<1>9. PICK f \in FlowBodies :
          f = IF out.kind = "mock" THEN [req |-> y.body, res |-> m]
                                   ELSE [req |-> m, res |-> r]
  <2>2. /\ [req |-> y.body, res |-> m] \in FlowBodies
        /\ [req |-> m, res |-> r] \in FlowBodies
    BY <1>6, <1>7, <1>8 DEF FlowBodies
  <2>3. CASE out.kind = "mock"
    BY <2>2, <2>3
  <2>4. CASE out.kind # "mock"
    BY <2>2, <2>4
  <2> QED BY <2>3, <2>4
<1>10. PICK z : z = [y EXCEPT !.stage = "answered", !.fails = F, !.msg = m, !.flow = f]
  OBVIOUS
<1>11. z \in Exchanges
  BY <1>3, <1>7, <1>9, <1>10 DEF Exchanges, Stages, ScriptFailures
<1>12. z.stage = "answered" /\ z.msg = Made(out, z)
  <2>1. z.msg = m /\ z.body = y.body /\ z.q = y.q /\ z.fails = F /\ z.stage = "answered"
    BY <1>3, <1>10 DEF Exchanges
  <2> QED BY <1>6, <1>7, <2>1 DEF Made
<1>13. m = CASE out.kind = "mock" -> renderRule(ContentOf[out.rule.id], F, y.q)
             [] out.kind = "rewrite" -> applyRewrite(y.body, ContentOf[out.rule.id], F, y.q)
             [] out.kind = "forward" -> y.body
  BY <1>4, <1>6, <1>7 DEF Made
<1>14. x' = [x EXCEPT ![c] = z]
  <2>1. x \in [Conns -> Exchanges]
    BY DEF IInv, ExchangeOK
  <2>2. x' = [x EXCEPT ![c].stage = "answered", ![c].fails = F, ![c].msg = m,
                       ![c].flow = f]
    BY <1>3, <1>4, <1>9, <1>13 DEF Answer
  <2> QED BY <1>3, <1>10, <2>1, <2>2
<1>15. conn' = conn /\ rules' = rules /\ conn[c].pc = "flow" /\ ChosenOK'
  BY <1>1 DEF Answer, IInv, ExchangeOK, ChosenOK
<1>16. ExchangeOK'
  BY <1>4, <1>11, <1>12, <1>14, <1>15, StoreExchange
<1>17. FramesOK' /\ ShownOK' /\ InboundOK'
  BY SamePage DEF IInv, Answer
<1> QED BY <1>2, <1>16, <1>17 DEF IInv

\* The frame that Publish appends, and the one that the page takes.
LEMMA FrameAppended ==
    ASSUME FramesOK, NEW n \in Lengths, NEW f \in FlowBodies,
           frames' = Append(frames, Frame(n, f)), flown' = Append(flown, f)
    PROVE  FramesOK'
<1>1. PICK g \in Frames : g = Frame(n, f) /\ g.view = flowView(f)
  BY DEF Frames, Frame
<1>2. frames' = Append(frames, g)
  BY <1>1
<1>3. /\ frames \in Seq(Frames) /\ flown \in Seq(FlowBodies) /\ Len(frames) = Len(flown)
      /\ \A i \in 1..Len(frames) : frames[i].view = flowView(flown[i])
  BY DEF FramesOK
<1>4. /\ frames' \in Seq(Frames) /\ flown' \in Seq(FlowBodies)
      /\ Len(frames') = Len(frames) + 1 /\ Len(flown') = Len(flown) + 1
  BY <1>2, <1>3
<1>5. ASSUME NEW i \in 1..Len(frames') PROVE frames'[i].view = flowView(flown'[i])
  <2>1. CASE i = Len(frames) + 1
    <3>1. frames'[i] = g /\ flown'[i] = f
      BY <1>2, <1>3, <2>1
    <3> QED BY <1>1, <3>1
  <2>2. CASE i # Len(frames) + 1
    <3>1. i \in 1..Len(frames)
      BY <1>3, <1>4, <2>2
    <3>2. frames'[i] = frames[i] /\ flown'[i] = flown[i]
      BY <1>2, <1>3, <3>1
    <3> QED BY <1>3, <3>1, <3>2
  <2> QED BY <2>1, <2>2
<1>6. Len(frames') = Len(flown')
  BY <1>3, <1>4
<1> QED BY <1>4, <1>5, <1>6 DEF FramesOK

LEMMA FrameTaken ==
    ASSUME FramesOK, frames # <<>>
    PROVE  /\ Head(frames).view = flowView(Head(flown)) /\ Head(flown) \in FlowBodies
           /\ frames' = Tail(frames) /\ flown' = Tail(flown) => FramesOK'
<1>1. /\ frames \in Seq(Frames) /\ flown \in Seq(FlowBodies) /\ Len(frames) = Len(flown)
      /\ \A i \in 1..Len(frames) : frames[i].view = flowView(flown[i])
  BY DEF FramesOK
<1>2. Len(frames) \in Nat /\ Len(frames) > 0 /\ flown # <<>>
  BY <1>1
<1>3. Head(frames) = frames[1] /\ Head(flown) = flown[1] /\ 1 \in 1..Len(frames)
  BY <1>1, <1>2
<1>4. Head(flown) \in FlowBodies
  BY <1>1, <1>2
<1>5. ASSUME frames' = Tail(frames), flown' = Tail(flown) PROVE FramesOK'
  <2>1. /\ frames' \in Seq(Frames) /\ flown' \in Seq(FlowBodies)
        /\ Len(frames') = Len(frames) - 1 /\ Len(flown') = Len(frames) - 1
    BY <1>1, <1>2, <1>5
  <2>2. ASSUME NEW i \in 1..Len(frames') PROVE frames'[i].view = flowView(flown'[i])
    <3>1. i + 1 \in 1..Len(frames)
      BY <1>2, <2>1
    <3>2. frames'[i] = frames[i + 1] /\ flown'[i] = flown[i + 1]
      BY <1>1, <1>2, <1>5, <2>1
    <3> QED BY <1>1, <3>1, <3>2
  <2> QED BY <2>1, <2>2 DEF FramesOK
<1> QED BY <1>1, <1>3, <1>4, <1>5

LEMMA PublishInv ==
    ASSUME IInv, NEW c \in Conns, NEW n \in Lengths, Publish(c, n)
    PROVE  IInv'
<1>1. OnFlow(c)
  BY DEF Publish
<1>2. BaseOK'
  <2>1. ConnStep(c)
    BY <1>1 DEF ConnStep
  <2> QED BY <2>1, ConnStepType DEF IInv, BaseOK
<1>3. x' = [x EXCEPT ![c] = NoExchange]
  BY DEF Publish
<1>4. /\ rules' = rules /\ ChosenOK'
      /\ \A d \in Conns \ {c} : conn'[d] = conn[d]
  <2>1. conn \in [Conns -> Conn] /\ ChosenOK
    BY DEF IInv, BaseOK, AppTypeOK, ExchangeOK
  <2>2. PICK k : k = [Idle EXCEPT !.pc = "ready", !.host = conn[c].host]
    OBVIOUS
  <2>3. k.out = Forward
    BY <2>2 DEF Idle
  <2>4. conn' = [conn EXCEPT ![c] = k] /\ Chosen(k.out)
    BY <1>1, <2>2, <2>3 DEF OnFlow, Chosen, Forward
  <2> QED BY <1>1, <2>1, <2>4 DEF OnFlow, ChosenOK
<1>5. ExchangeOK'
  <2>1. NoExchange.stage # "answered"
    BY DEF NoExchange
  <2> QED BY <1>3, <1>4, <2>1, NoExchangeType, StoreExchange
<1>6. PICK f \in FlowBodies : f = x[c].flow
  BY DEF IInv, ExchangeOK, Exchanges
<1>7. frames' = Append(frames, Frame(n, f)) /\ flown' = Append(flown, f)
  BY <1>6 DEF Publish, Frame
<1>8. FramesOK'
  BY <1>6, <1>7, FrameAppended DEF IInv
<1>9. ShownOK' /\ InboundOK'
  BY DEF IInv, Publish, ShownOK, ShownIsRecorded, InboundOK
<1> QED BY <1>2, <1>5, <1>8, <1>9 DEF IInv

\* The page reads a body as the engine recorded it, or none for an empty one.
Same(a, b) == a = b \/ (IsEmpty(a) /\ IsEmpty(b))

LEMMA ParsedIsSame ==
    ASSUME NEW b \in Body
    PROVE  Parsed(encodeBody(b)) \in Body /\ Same(Parsed(encodeBody(b)), b)
<1>1. NoBody \in Body /\ IsEmpty(NoBody)
  BY NoBodyType DEF NoBody, IsEmpty
<1>2. CASE IsEmpty(b)
  <2>1. Parsed(encodeBody(b)) = NoBody
    BY <1>2 DEF Parsed, encodeBody
  <2> QED BY <1>1, <1>2, <2>1 DEF Same
<1>3. CASE ~IsEmpty(b)
  <2>1. Parsed(encodeBody(b)) = b
    BY <1>3 DEF Parsed, encodeBody, Invalid, Nul
  <2> QED BY <2>1 DEF Same
<1> QED BY <1>2, <1>3

LEMMA PageReadInv == ASSUME IInv, PageRead PROVE IInv'
<1>1. PICK f \in FlowBodies : f = Head(flown) /\ Head(frames).view = flowView(f)
  BY FrameTaken DEF IInv, PageRead
<1>2. f.req \in Body /\ f.res \in Body
  BY <1>1 DEF FlowBodies
<1>3. shown' = [req |-> Parsed(encodeBody(f.req)), res |-> Parsed(encodeBody(f.res))]
  BY <1>1 DEF PageRead, flowView
<1>4. shownOf' = f
  BY <1>1 DEF PageRead
<1>5. ShownOK'
  <2>1. PICK a \in Body, b \in Body :
            /\ a = Parsed(encodeBody(f.req)) /\ b = Parsed(encodeBody(f.res))
            /\ Same(a, f.req) /\ Same(b, f.res)
    BY <1>2, ParsedIsSame
  <2>2. shown' = [req |-> a, res |-> b]
    BY <1>3, <2>1
  <2> QED BY <1>4, <2>1, <2>2 DEF ShownOK, ShownIsRecorded, Same, FlowBodies
<1>6. FramesOK'
  BY FrameTaken DEF IInv, PageRead
<1>7. BaseOK'
  BY SameBase DEF IInv, PageRead
<1>8. ExchangeOK' /\ InboundOK'
  BY DEF IInv, PageRead, ExchangeOK, ChosenOK, MadeOK, InboundOK
<1> QED BY <1>5, <1>6, <1>7, <1>8 DEF IInv

LEMMA BrowserSendInv ==
    ASSUME IInv, NEW op \in Opcodes, NEW n \in Lengths, BrowserSend(op, n)
    PROVE  IInv'
<1>1. inbound' = Sent(op, n, "no") /\ "no" \in Ends(op, n)
  BY DEF BrowserSend, Sent, Ends
<1>2. InboundOK'
  BY <1>1 DEF InboundOK
<1>3. BaseOK'
  BY SameBase DEF IInv, BrowserSend
<1>4. ExchangeOK' /\ FramesOK' /\ ShownOK'
  BY DEF IInv, BrowserSend, ExchangeOK, ChosenOK, MadeOK, FramesOK, ShownOK, ShownIsRecorded
<1> QED BY <1>2, <1>3, <1>4 DEF IInv

LEMMA HandleWSReadInv == ASSUME IInv, handleWSRead PROVE IInv'
<1>1. PICK op \in Opcodes, n \in Lengths : \E r \in Ends(op, n) : inbound = Sent(op, n, r)
  BY DEF IInv, InboundOK, handleWSRead, NoInbound
<1>2. PICK g : g = readHeader(inbound.hdr) /\ g.op = op /\ g.fits = (n <= MaxAlloc)
  <2>1. inbound.hdr = MaskedHeader(op, n, MaskKey)
    BY <1>1 DEF Sent
  <2>2. readHeader(inbound.hdr).op = op /\ readHeader(inbound.hdr).n = n
    BY <2>1, MaskedInStep, ExchangeAssumption DEF InStep
  <2>3. readHeader(inbound.hdr).fits = (ReadLength(inbound.hdr) <= MaxAlloc)
    BY DEF readHeader
  <2>4. ReadLength(inbound.hdr) = n
    BY <2>2 DEF readHeader
  <2> QED BY <2>2, <2>3, <2>4
<1>3. PICK end \in ReadEnds(g) : inbound' = [inbound EXCEPT !.read = end]
  BY <1>2 DEF handleWSRead
<1>4. inbound' = Sent(op, n, end)
  BY <1>1, <1>3 DEF Sent
<1>5. end \in Ends(op, n)
  BY <1>2, <1>3 DEF ReadEnds, Ends
<1>8. InboundOK'
  BY <1>4, <1>5 DEF InboundOK
<1>6. BaseOK'
  BY SameBase DEF IInv, handleWSRead
<1>7. ExchangeOK' /\ FramesOK' /\ ShownOK'
  BY DEF IInv, handleWSRead, ExchangeOK, ChosenOK, MadeOK, FramesOK, ShownOK, ShownIsRecorded
<1> QED BY <1>6, <1>7, <1>8 DEF IInv

\* IInv holds in every state, for every table, content, body and length.
LEMMA InvariantHolds == Spec => []IInv
<1>1. Init => IInv
  BY InitIInv
<1>2. IInv /\ [Next]_vars => IInv'
  <2> SUFFICES ASSUME IInv, [Next]_vars PROVE IInv'
    OBVIOUS
  <2>1. CASE Next
    BY <2>1, DecideInv, AskInv, AnswerInv, PublishInv, PageReadInv, BrowserSendInv,
       HandleWSReadInv DEF Next, Opcodes
  <2>2. CASE UNCHANGED vars
    <3>1. BaseOK'
      BY <2>2, SameBase DEF IInv, vars
    <3>2. FramesOK' /\ ShownOK' /\ InboundOK'
      BY <2>2, SamePage DEF IInv, vars, exVars
    <3>3. ExchangeOK'
      BY <2>2 DEF IInv, vars, exVars, ExchangeOK, ChosenOK, MadeOK
    <3> QED BY <3>1, <3>2, <3>3 DEF IInv
  <2> QED BY <2>1, <2>2
<1> QED BY <1>1, <1>2, PTL DEF Spec

-----------------------------------------------------------------------------
(* What follows from it.                                                   *)

LEMMA FrameShape ==
    ASSUME FramesOK, NEW i \in DOMAIN frames
    PROVE  Shape(frames[i].hdr, 1, frames[i].len) /\ IsLength(frames[i].len)
<1>1. frames[i] \in Frames
  BY DEF FramesOK
<1>2. PICK n \in Lengths, f \in FlowBodies : frames[i] = Frame(n, f)
  BY <1>1 DEF Frames
<1>3. frames[i].hdr = Header(1, n) /\ frames[i].len = n
  BY <1>2 DEF Frame
<1>4. IsLength(n) /\ 1 \in Opcodes
  BY ExchangeAssumption DEF Opcodes
<1> QED BY <1>3, <1>4, HeaderShape

LEMMA InboundFacts ==
    ASSUME InboundOK
    PROVE  /\ inbound.hdr \in Seq(Byte) /\ Len(inbound.hdr) \in {0, 6, 8, 14}
           /\ inbound.read \in {"no", "loop", "left", "panic", "fatal"}
           /\ ClientFramesRead
<1>1. CASE inbound = NoInbound
  BY <1>1 DEF NoInbound, ClientFramesRead
<1>2. CASE inbound # NoInbound
  <2>1. PICK op \in Opcodes, n \in Lengths : \E r \in Ends(op, n) :
            inbound = Sent(op, n, r)
    BY <1>2 DEF InboundOK
  <2>2. PICK m : /\ m = MaskedHeader(op, n, MaskKey) /\ m \in Seq(Byte)
                 /\ InStep(m, n) /\ Len(m) \in {6, 8, 14}
    BY MaskedInStep, ExchangeAssumption
  <2>3. inbound.hdr = m /\ inbound.len = n /\ inbound.op = op
    BY <2>1, <2>2 DEF Sent
  <2>4. inbound.read \in Ends(op, n)
    BY <2>1 DEF Sent
  <2>5. /\ n <= MaxAlloc => inbound.read \in {"no", IF op = 8 THEN "left" ELSE "loop"}
        /\ n > MaxAlloc => inbound.read \in {"no", "panic", "fatal"}
    <3>1. n \in Nat /\ MaxAlloc \in Nat
      BY ExchangeAssumption DEF IsLength
    <3> QED BY <2>4, <3>1 DEF Ends
  <2>6. n <= MaxAlloc \/ n > MaxAlloc
    BY ExchangeAssumption DEF IsLength
  <2> QED BY <2>2, <2>3, <2>5, <2>6 DEF ClientFramesRead
<1> QED BY <1>1, <1>2

\* The types of all variables; every header that SkyTap or the browser sends
\* is made of bytes and has the room for its length and its mask, at every
\* length below 2^63.
THEOREM TypeCorrect == Spec => []TypeOK
<1>1. IInv => TypeOK
  <2> SUFFICES ASSUME IInv PROVE TypeOK
    OBVIOUS
  <2>1. \A c \in Conns : /\ x[c].stage \in {"none", "asked", "answered"}
                         /\ x[c].msg \in Body /\ x[c].flow \in FlowBodies
    BY DEF IInv, ExchangeOK, Exchanges, Stages
  <2>2. \A i \in DOMAIN frames : /\ frames[i].hdr \in Seq(Byte)
                                 /\ Len(frames[i].hdr) \in {2, 4, 10}
    BY FrameShape DEF IInv, Shape
  <2>3. /\ inbound.hdr \in Seq(Byte) /\ Len(inbound.hdr) \in {0, 6, 8, 14}
        /\ inbound.read \in {"no", "loop", "left", "panic", "fatal"}
        /\ shown \in FlowBodies
    BY InboundFacts DEF IInv, ShownOK
  <2> QED BY <2>1, <2>2, <2>3 DEF TypeOK, IInv, BaseOK
<1> QED BY <1>1, InvariantHolds, PTL

\* Whatever the flow's JSON is long, the page reads each frame of writeWSFrame
\* to its end and no further.
THEOREM FramesAreDelimited == Spec => []FramesDelimited
<1>1. IInv => FramesDelimited
  <2>1. 1 \in Opcodes
    BY DEF Opcodes
  <2> QED BY <2>1, FrameShape, ShapeInStep DEF IInv, FramesDelimited
<1> QED BY <1>1, InvariantHolds, PTL

\* handleWS finds the end of each masked frame of the browser, at every length
\* below 2^63, and ends its loop exactly after a close frame or for want of
\* memory.
THEOREM ClientFramesAreRead == Spec => []ClientFramesRead
<1>1. IInv => ClientFramesRead
  BY InboundFacts DEF IInv
<1> QED BY <1>1, InvariantHolds, PTL

\* Every body that the engine recorded reaches the page as it is, whatever
\* bodies clients and origins send and rules make: what encodeBody calls utf8
\* is never something that json.Marshal would change.
THEOREM RecordedIsShown == Spec => []ShownIsRecorded
<1>1. IInv => ShownIsRecorded
  BY DEF IInv, ShownOK
<1> QED BY <1>1, InvariantHolds, PTL

-----------------------------------------------------------------------------
(* What a rule makes when its scripts succeed.                             *)

\* The text s of the rule k with what its scripts yield in their place.
Scripted(s, k) ==
    IF k.script # <<>> THEN <<k.out>>
    ELSE [i \in DOMAIN s |-> IF s[i] = Marker THEN k.out ELSE <<s[i]>>]

LEMMA ScriptedType ==
    ASSUME NEW k \in Content, NEW s \in RuleText
    PROVE  Scripted(s, k) \in Text
<1>1. k.out \in Seq(Piece)
  BY ContentFields DEF RuleText
<1>2. <<k.out>> \in Text
  BY <1>1 DEF Text
<1>3. evalMarkers(s, k.out, {}) = [i \in DOMAIN s |-> IF s[i] = Marker THEN k.out ELSE <<s[i]>>]
  BY DEF evalMarkers, evalExpr
<1>4. evalMarkers(s, k.out, {}) \in Text
  BY ContentFields, MarkersType
<1> QED BY <1>2, <1>3, <1>4 DEF Scripted

\* evalBody runs the templates on the text in which the scripts have left
\* what they yield.
LEMMA RenderedText ==
    ASSUME NEW k \in Content, NEW s \in RuleText, NEW F, F = {}, NEW q
    PROVE  Rendered(s, k, F, q) = TextBody(applyTpl(Scripted(s, k), q))
<1>1. CASE k.script # <<>>
  BY <1>1 DEF Rendered, evalBody, runProgram, Scripted
<1>2. CASE k.script = <<>>
  <2>1. evalMarkers(s, k.out, F) = Scripted(s, k)
    BY <1>2 DEF evalMarkers, evalExpr, Scripted
  <2>2. Rendered(s, k, F, q) = TextBody(evalBody(s, FALSE, k.out, F, q))
    BY <1>2 DEF Rendered
  <2>3. evalBody(s, FALSE, k.out, F, q) = applyTpl(evalMarkers(s, k.out, F), q)
    BY DEF evalBody
  <2> QED BY <2>1, <2>2, <2>3
<1> QED BY <1>1, <1>2

\* A text that the template parser accepts is replaced piece by piece.
LEMMA TemplateInFull ==
    ASSUME NEW s \in Text, NEW q, ~Holds(s, Rejected)
    PROVE  LET t == applyTpl(s, q)
           IN  /\ ~Holds(t, Unresolved)
               /\ DOMAIN t = DOMAIN s
               /\ \A i \in DOMAIN s :
                     /\ DOMAIN t[i] = DOMAIN s[i]
                     /\ \A j \in DOMAIN s[i] : s[i][j] \in Literals => t[i][j] = s[i][j]
<1>1. PICK t \in Text : t = applyTpl(s, q)
  BY TplFacts
<1>2. /\ DOMAIN t = DOMAIN s /\ \A i \in DOMAIN s : DOMAIN t[i] = DOMAIN s[i]
      /\ \A i \in DOMAIN s : \A j \in DOMAIN s[i] : t[i][j] = Value(Dot(s[i][j]), q)
  BY <1>1, TplFacts
<1>3. ASSUME NEW i \in DOMAIN s, NEW j \in DOMAIN s[i]
      PROVE  s[i][j] \in Piece /\ s[i][j] # Marker
  <2>1. s[i][j] \in Piece
    BY TextPieces
  <2>2. s[i][j] \notin Rejected
    BY DEF Holds
  <2> QED BY <2>1, <2>2 DEF Rejected
<1>4. ASSUME NEW i \in DOMAIN s, NEW j \in DOMAIN s[i]
      PROVE  t[i][j] \notin Unresolved /\ (s[i][j] \in Literals => t[i][j] = s[i][j])
  BY <1>2, <1>3, PieceFacts
<1>5. ~Holds(t, Unresolved)
  BY <1>2, <1>4 DEF Holds
<1> QED BY <1>1, <1>2, <1>4, <1>5

\* For every rule and every mixture of markers and templates in it: a mock
\* response and a rewritten body have nothing left to be replaced if no script
\* fails and the template parses, and keep their literals in their place.
THEOREM RendersInFull == Spec => []RenderedInFull
<1>1. IInv => RenderedInFull
  <2> SUFFICES ASSUME IInv, NEW c \in Conns, x[c].stage = "answered", MakesBody(c),
                      x[c].fails = {}, ~Holds(Source(c), Rejected)
               PROVE  LET s == Source(c)
                          t == x[c].msg.text
                      IN  /\ x[c].msg.form = "text"
                          /\ ~Holds(t, Unresolved)
                          /\ DOMAIN t = DOMAIN s
                          /\ \A i \in DOMAIN s :
                                /\ DOMAIN t[i] = DOMAIN s[i]
                                /\ \A j \in DOMAIN s[i] :
                                      s[i][j] \in Literals => t[i][j] = s[i][j]
    BY DEF RenderedInFull
  <2>1. x[c].msg = Made(conn[c].out, x[c]) /\ Chosen(conn[c].out)
    BY DEF IInv, ExchangeOK, MadeOK, ChosenOK
  <2>2. PICK k \in Content : k = ContentOf[conn[c].out.rule.id] /\ k = Applied(c)
    BY <2>1, ExchangeAssumption DEF Chosen, MakesBody, Applied
  <2>3. PICK u \in RuleText : u = IF conn[c].out.kind = "mock" THEN k.body ELSE k.rewriteBody
    <3>1. k.body \in RuleText /\ k.rewriteBody \in RuleText
      BY ContentFields
    <3> QED BY <3>1
  <2>4. x[c].msg = Rendered(u, k, x[c].fails, x[c].q)
    BY <2>1, <2>2, <2>3 DEF Made, renderRule, applyRewrite, MakesBody
  <2>5. x[c].msg = TextBody(applyTpl(Scripted(u, k), x[c].q))
    BY <2>4, RenderedText
  <2>6. Source(c) = Scripted(u, k)
    BY <2>2, <2>3 DEF Source, Scripted
  <2>7. Scripted(u, k) \in Text /\ ~Holds(Scripted(u, k), Rejected)
    BY <2>6, ScriptedType
  <2>8. x[c].msg.form = "text" /\ x[c].msg.text = applyTpl(Source(c), x[c].q)
    BY <2>5, <2>6 DEF TextBody
  <2> QED BY <2>6, <2>7, <2>8, TemplateInFull
<1> QED BY <1>1, InvariantHolds, PTL

\* The value of a key: no marker is left in it, and no expression.
LEMMA JSONValueDone ==
    ASSUME NEW v \in RuleText, NEW out \in RuleText, NEW q, ~Holds(<<out>>, {Marker, "="})
    PROVE  /\ ~Holds(evalJSONValue(v, out, {}, q), {Marker})
           /\ IsExpr(v) => ~Holds(evalJSONValue(v, out, {}, q), {"="})
<1>1. \A j \in DOMAIN out : out[j] # Marker /\ out[j] # "="
  BY DEF Holds
<1>2. CASE IsExpr(v)
  <2>1. evalJSONValue(v, out, {}, q) = <<out>>
    BY <1>2 DEF evalJSONValue, evalExpr
  <2>2. ~Holds(<<out>>, {Marker}) /\ ~Holds(<<out>>, {"="})
    BY <1>1 DEF Holds
  <2> QED BY <2>1, <2>2
<1>3. CASE ~IsExpr(v)
  <2>1. PICK s \in Text : s = evalMarkers(v, out, {})
    BY MarkersType
  <2>2. evalJSONValue(v, out, {}, q) = applyTpl(s, q)
    BY <1>3, <2>1 DEF evalJSONValue, evalBody
  <2>3. ASSUME NEW i \in DOMAIN s, NEW j \in DOMAIN s[i]
        PROVE  s[i][j] \in Piece /\ s[i][j] # Marker
    <3>1. s[i] = IF v[i] = Marker THEN out ELSE <<v[i]>>
      BY <2>1 DEF evalMarkers, evalExpr
    <3>2. s[i][j] \in Piece
      BY TextPieces
    <3>3. CASE v[i] = Marker
      BY <1>1, <3>1, <3>2, <3>3
    <3>4. CASE v[i] # Marker
      BY <3>1, <3>2, <3>4
    <3> QED BY <3>3, <3>4
  <2>4. PICK t \in Text : t = applyTpl(s, q)
    BY TplFacts
  <2>5. /\ DOMAIN t = DOMAIN s /\ \A i \in DOMAIN s : DOMAIN t[i] = DOMAIN s[i]
        /\ \A i \in DOMAIN s : \A j \in DOMAIN s[i] :
               t[i][j] = Dot(s[i][j]) \/ t[i][j] = Value(Dot(s[i][j]), q)
    BY <2>4, TplFacts
  <2>6. ASSUME NEW i \in DOMAIN s, NEW j \in DOMAIN s[i] PROVE t[i][j] # Marker
    <3>1. Dot(s[i][j]) # Marker /\ Value(Dot(s[i][j]), q) \notin Unresolved
      BY <2>3, PieceFacts
    <3> QED BY <2>5, <3>1 DEF Unresolved
  <2>7. ~Holds(t, {Marker})
    BY <2>5, <2>6 DEF Holds
  <2> QED BY <1>3, <2>2, <2>4, <2>7
<1> QED BY <1>2, <1>3

\* For every rewrite_json rule and every body: the keys that it names are set;
\* if the body could be read as an object, the others are the ones it had, with
\* the values they had but for numbers that a float64 does not hold.
THEOREM MergeKeepsKeys == Spec => []MergeKeeps
<1>1. IInv => MergeKeeps
  <2> SUFFICES ASSUME IInv, NEW c \in Conns, x[c].stage = "answered",
                      conn[c].out.kind = "rewrite", ~Replaces(Applied(c)),
                      Named(Applied(c).rewriteJSON) # {}
               PROVE  LET k    == Applied(c)
                          made == x[c].msg.obj
                          was  == x[c].body
                      IN  /\ x[c].msg.form = "json"
                          /\ \A n \in Named(k.rewriteJSON) :
                                /\ n \in Named(made)
                                /\ x[c].fails = {} /\ ~Holds(<<k.out>>, {Marker, "="}) =>
                                      /\ ~Holds(made[n], {Marker})
                                      /\ IsExpr(k.rewriteJSON[n]) => ~Holds(made[n], {"="})
                          /\ Decodes(was) =>
                                \A n \in Keys \ Named(k.rewriteJSON) :
                                    /\ n \in Named(made) <=> n \in Named(was.obj)
                                    /\ n \in Named(made) /\ Exact(was.obj[n]) =>
                                          made[n] = was.obj[n]
                          /\ ~Decodes(was) => Named(made) = Named(k.rewriteJSON)
    BY DEF MergeKeeps
  <2>1. x[c].msg = Made(conn[c].out, x[c]) /\ Chosen(conn[c].out)
    BY DEF IInv, ExchangeOK, MadeOK, ChosenOK
  <2>2. PICK k \in Content : k = ContentOf[conn[c].out.rule.id] /\ k = Applied(c)
    BY <2>1, ExchangeAssumption DEF Chosen, Applied
  <2>3. PICK F, q, b : F = x[c].fails /\ q = x[c].q /\ b = x[c].body
    OBVIOUS
  <2>4. PICK o : o = [n \in Keys |->
                         IF n \in Named(k.rewriteJSON)
                         THEN evalJSONValue(k.rewriteJSON[n], k.out, F, q)
                         ELSE Unmarshal(b)[n]]
    OBVIOUS
  <2>5. x[c].msg = Merge(b, k, F, q)
    BY <2>1, <2>2, <2>3 DEF Made, applyRewrite
  <2>6. x[c].msg = JsonBody(o)
    BY <2>4, <2>5 DEF Merge
  <2>7. x[c].msg.form = "json" /\ x[c].msg.obj = o
    BY <2>6 DEF JsonBody
  <2>8. ASSUME NEW n \in Named(k.rewriteJSON)
        PROVE  /\ n \in Named(o)
               /\ F = {} /\ ~Holds(<<k.out>>, {Marker, "="}) =>
                      /\ ~Holds(o[n], {Marker})
                      /\ IsExpr(k.rewriteJSON[n]) => ~Holds(o[n], {"="})
    <3>1. n \in Keys /\ k.rewriteJSON[n] \in RuleText /\ k.out \in RuleText
      BY ContentFields DEF Named
    <3>2. o[n] = evalJSONValue(k.rewriteJSON[n], k.out, F, q)
      BY <2>4, <3>1
    <3>3. o[n] \in Text
      BY <3>1, <3>2, JSONValueType
    <3>4. n \in Named(o)
      BY <3>1, <3>3, RuleEvalAssumption DEF Named
    <3> QED BY <3>1, <3>2, <3>4, JSONValueDone
  <2>9. ASSUME Decodes(b), NEW n \in Keys \ Named(k.rewriteJSON)
        PROVE  /\ n \in Named(o) <=> n \in Named(b.obj)
               /\ n \in Named(o) /\ Exact(b.obj[n]) => o[n] = b.obj[n]
    <3>1. o[n] = DecodedValue(b.obj[n])
      BY <2>4, <2>9 DEF Unmarshal
    <3>2. b.obj[n] \in {NoValue} \cup Text /\ ~Overflows(b.obj[n])
      <4>1. b \in Body
        BY <2>3 DEF IInv, ExchangeOK, Exchanges
      <4> QED BY <4>1, <2>9 DEF Body, Object, Decodes
    <3>3. /\ o[n] = NoValue <=> b.obj[n] = NoValue
          /\ b.obj[n] # NoValue /\ Exact(b.obj[n]) => o[n] = b.obj[n]
      BY <3>1, <3>2, DecodedFacts
    <3> QED BY <3>3 DEF Named
  <2>10. ASSUME ~Decodes(b) PROVE Named(o) = Named(k.rewriteJSON)
    <3>1. Unmarshal(b) = NoKeys
      BY <2>10 DEF Unmarshal
    <3>2. ASSUME NEW n \in Keys \ Named(k.rewriteJSON) PROVE o[n] = NoValue
      BY <2>4, <3>1 DEF NoKeys
    <3>3. \A n \in Keys : n \in Named(o) => n \in Named(k.rewriteJSON)
      BY <3>2 DEF Named
    <3>4. \A n \in Named(k.rewriteJSON) : n \in Named(o)
      BY <2>8
    <3> QED BY <3>3, <3>4 DEF Named
  <2> QED BY <2>2, <2>3, <2>7, <2>8, <2>9, <2>10
<1> QED BY <1>1, InvariantHolds, PTL

=============================================================================
