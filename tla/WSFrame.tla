------------------------------ MODULE WSFrame ------------------------------
(***************************************************************************)
(* WebSocket frames (ws.go): the header that writeWSFrame puts before a    *)
(* payload of n bytes, and what readWSFrame takes a header to mean.  A     *)
(* frame is its header, as bytes, and the true length of its payload; a    *)
(* reader is in step with the writer if it takes the whole header and no   *)
(* more, and the right length.                                             *)
(***************************************************************************)
EXTENDS Integers, Sequences

CONSTANT MaxAlloc  \* the longest payload that make([]byte, n) can allocate

Byte  == 0..255
FinOp == 128    \* 0x80: the last fragment, or a masked payload
Word  == 65536

\* The bytes of a word and the words of a length, the most significant first
\* (binary.BigEndian).
High(w)   == w \div 256
Low(w)    == w % 256
Fourth(n) == ((n \div Word) \div Word) \div Word
Third(n)  == ((n \div Word) \div Word) % Word
Second(n) == (n \div Word) % Word
First(n)  == n % Word

\* A length is a Go int that is not negative, below 2^63.
IsLength(n) == n \in Nat /\ Fourth(n) < 32768

\* Fault variant: the length is written as a uint32.
LongHeader32(op, n) ==
    <<FinOp + op, 127,
      High(Second(n)), Low(Second(n)), High(First(n)), Low(First(n))>>

LongHeader(op, n) ==
    <<FinOp + op, 127,
      High(Fourth(n)), Low(Fourth(n)), High(Third(n)), Low(Third(n)),
      High(Second(n)), Low(Second(n)), High(First(n)), Low(First(n))>>

\* Fault variant: 126 is written as a length, not as the sign of one.
HeaderOffByOne(op, n) ==
    IF n <= 126 THEN <<FinOp + op, n>>
    ELSE IF n < Word THEN <<FinOp + op, 126, High(n), Low(n)>>
    ELSE LongHeader(op, n)

\* writeWSFrame
Header(op, n) ==
    IF n < 126 THEN <<FinOp + op, n>>
    ELSE IF n < Word THEN <<FinOp + op, 126, High(n), Low(n)>>
    ELSE LongHeader(op, n)

\* Byte i of what is read; beyond the header a reader takes bytes of the
\* payload.
At(h, i) == IF i \in DOMAIN h THEN h[i] ELSE 0

Uint16(h, i) == At(h, i) * 256 + At(h, i + 1)
Uint64(h, i) ==
    ((Uint16(h, i) * Word + Uint16(h, i + 2)) * Word + Uint16(h, i + 4)) * Word
        + Uint16(h, i + 6)

\* How many bytes of length follow a second byte whose low bits are n, and
\* the length they or these bits give.
Extended(n) == IF n = 126 THEN 2 ELSE IF n = 127 THEN 8 ELSE 0

ReadLength(h) ==
    LET n == h[2] % 128
    IN  IF n = 126 THEN Uint16(h, 3) ELSE IF n = 127 THEN Uint64(h, 3) ELSE n

\* Fault variant: the masking key is taken for payload.
readHeaderUnmasked(h) ==
    [op |-> h[1] % 16, n |-> ReadLength(h), used |-> 2 + Extended(h[2] % 128),
     fits |-> ReadLength(h) <= MaxAlloc]

\* readWSFrame: the opcode, the length, how many bytes come before the
\* payload, and whether there is the memory to read it into.
readHeader(h) ==
    [op   |-> h[1] % 16,
     n    |-> ReadLength(h),
     used |-> 2 + Extended(h[2] % 128) + (IF h[2] >= 128 THEN 4 ELSE 0),
     fits |-> ReadLength(h) <= MaxAlloc]

InStep(h, n) == readHeader(h).used = Len(h) /\ readHeader(h).n = n

-----------------------------------------------------------------------------
(* The browser (external), by RFC 6455: it masks what it sends, and refuses *)
(* a masked frame and a length that is not in its shortest form.            *)

MaskedHeader(op, n, key) ==
    LET h == Header(op, n)
    IN  [i \in 1..(Len(h) + 4) |->
            IF i > Len(h) THEN key[i - Len(h)] ELSE IF i = 2 THEN h[2] + 128 ELSE h[i]]

BrowserAccepts(h, n) ==
    LET x == Len(h) - 2 IN
    /\ h[2] < 128
    /\ \/ x = 0 /\ h[2] = n /\ n < 126
       \/ x = 2 /\ h[2] = 126 /\ n = Uint16(h, 3) /\ n >= 126
       \/ x = 8 /\ h[2] = 127 /\ n = Uint64(h, 3) /\ n >= Word

=============================================================================
