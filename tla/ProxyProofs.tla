---------------------------- MODULE ProxyProofs ----------------------------
(***************************************************************************)
(* Proofs about one connection to the explicit proxies, for every script a *)
(* client may send, any number of pieces an origin sends and any size of   *)
(* the sockets' buffers.                                                   *)
(***************************************************************************)
EXTENDS Proxy, SequenceTheorems, TLAPS

-----------------------------------------------------------------------------
(* The inductive invariants.                                               *)

Pieces == 1..MaxResp
Pcs == HandshakePcs \cup {"engine", "dial", "write", "tunnel", "close", "done"}

\* Every buffer between the two ends is a sequence of pieces, a copying
\* goroutine holds at most one, and there is none before the request is
\* written.
BuffersOK ==
    /\ outS \in Seq(Tokens) /\ held \in Seq(Tokens) /\ got \in Seq(Tokens)
    /\ inS \in Seq(Pieces) /\ outC \in Seq(Pieces) /\ back \in Seq(Pieces)
    /\ seen \in Seq(Pieces)
    /\ Len(back) <= 1
    /\ c2up # "none" => Len(held) <= 1 /\ pc \in {"tunnel", "done"}
    /\ pc \in Pcs

\* What has been read and answered at each place of the handshakes.
Requests == {<<"GET">>, <<"POST">>}
Then(m, r) == m \o r
Greetings == {<<"v5", "methods">>, <<"v5none">>}
Addresses == {<<"connect4", "addr">>, <<"connect6", "addr">>,
              <<"connectName", "len", "name">>, <<"connectName", "len0">>}
ReadAt(l) ==
    CASE l \in {"request", "hdr"} -> {<<>>}
      [] l = "methods" -> {<<"v5">>}
      [] l = "req"     -> Greetings
      [] l = "addr"    -> {Then(m, <<c>>) : m \in Greetings,
                                        c \in {"connect4", "connect6"}}
      [] l = "len"     -> {m \o <<"connectName">> : m \in Greetings}
      [] l = "name"    -> {m \o <<"connectName", "len">> : m \in Greetings}
      [] l = "port"    -> {Then(m, r) : m \in Greetings, r \in Addresses}
      [] l = "engine"  -> Complete
      [] OTHER         -> Requests
AnsweredAt(l) ==
    CASE l \in {"req", "addr", "len", "name", "port"} -> <<"method">>
      [] l = "engine" -> IF kind = "http" THEN <<"200">> ELSE <<"method", "ok">>
      [] OTHER        -> <<>>

HandshakeInv ==
    /\ pc \notin {"close", "done"} =>
           consumed \in ReadAt(pc) /\ replies = AnsweredAt(pc)
    /\ pc = "request" => kind = "http"
    /\ pc \in HandshakePcs \ {"request"} => kind = "socks"
    /\ up # "none" => consumed \in Requests
    /\ pc \in HandshakePcs \cup {"engine", "dial"} => up = "none"
    /\ c2up # "none" => consumed \in Requests /\ pc \in {"tunnel", "done"}

\* Nothing is on its way to an origin before it is dialled, its connection is
\* open while something may be written to it, nothing has been delivered
\* before the handshake is over, and what was read first is what the client
\* sent first.
TunnelInv ==
    /\ up = "none" => outS = <<>> /\ held = <<>> /\ send = "open" /\ c2up = "none"
    /\ pc = "write" \/ c2up \in {"read", "write", "close"} => up = "open"
    /\ pc # "write" /\ c2up # "write" => held = <<>>
    /\ pc \in HandshakePcs \cup {"dial"} => got = <<>>
    /\ consumed # <<>> => script # <<>> /\ Head(consumed) = Head(script)

\* One sequence after another; a piece that moves from the front of b to the
\* end of a; and a piece that is added to a.
Cat(a, b)           == a \o b
Moved(a, b, a1, b1) == b # <<>> /\ a1 = Append(a, Head(b)) /\ b1 = Tail(b)
Added(a, x, a1)     == a1 = Append(a, x)

\* All that lies between what the client sent and what the other end has: the
\* handshake or the request until its origin is dialled, what was delivered,
\* what is on its way to the origin, and, while it can still be written, what
\* is on its way to SkyTap.
Closing(copy) == copy \in {"close", "done"}
Stopped  == Closing(c2up) \/ send = "gone" \/ up = "closed"
SentUp   == SubSeq(script, 1, sent)
LeadUp   == IF up = "none" THEN consumed ELSE <<>>
RestUp   == IF Stopped THEN <<>> ELSE Cat(held, Cat(br, wire))
StreamUp == Cat(LeadUp, Cat(got, Cat(outS, RestUp)))

\* What the client sent is what is there, in order; something at its end is
\* missing only once the client has ended or nothing more can be written.
StreamUpInv ==
    /\ \E lost \in Seq(Tokens) : SentUp = Cat(StreamUp, lost)
    /\ cend = "open" /\ ~Stopped => SentUp = StreamUp

\* The same for what the origin sends back.
SentDown   == [i \in 1..(MaxResp - resp) |-> i]
StoppedDown == Closing(up2c) \/ csock = "closed" \/ cend = "gone"
RestDown   == IF StoppedDown THEN <<>> ELSE Cat(back, inS)
StreamDown == Cat(seen, Cat(outC, RestDown))

StreamDownInv ==
    /\ \E lost \in Seq(Pieces) : SentDown = Cat(StreamDown, lost)
    /\ send = "open" /\ ~StoppedDown => SentDown = StreamDown
    /\ up2c # "write" => back = <<>>

\* The second goroutine is the handler itself, from the request on, and the
\* handler closes the client's connection last.
DownAlone ==
    /\ up2c # "none" => pc \in {"tunnel", "done"}
    /\ pc # "done" => csock = "open"

-----------------------------------------------------------------------------
(* Facts about sequences *)

LEMMA NoPieces ==
    ASSUME NEW S
    PROVE  <<>> \in Seq(S) /\ Len(<<>>) = 0
  OBVIOUS

LEMMA OnePiece ==
    ASSUME NEW S, NEW x \in S
    PROVE  <<x>> \in Seq(S) /\ Len(<<x>>) = 1 /\ <<x>>[1] = x
  OBVIOUS

\* The first piece of a buffer is taken.
LEMMA TakeFirst ==
    ASSUME NEW S, NEW s \in Seq(S), s # <<>>
    PROVE  /\ Head(s) \in S /\ Tail(s) \in Seq(S) /\ Len(Tail(s)) = Len(s) - 1
           /\ <<Head(s)>> \in Seq(S) /\ Len(<<Head(s)>>) = 1
           /\ s = <<Head(s)>> \o Tail(s)
<1>1. Head(s) \in S /\ Tail(s) \in Seq(S) /\ Len(Tail(s)) = Len(s) - 1
  OBVIOUS
<1>2. <<Head(s)>> \in Seq(S) /\ Len(<<Head(s)>>) = 1 /\ <<Head(s)>>[1] = Head(s)
  BY <1>1, OnePiece
<1>3. s = <<Head(s)>> \o Tail(s)
  <2>1. <<Head(s)>> \o Tail(s) \in Seq(S)
    BY <1>1, <1>2, ConcatProperties
  <2>2. Len(<<Head(s)>> \o Tail(s)) = Len(s)
    BY <1>1, <1>2, ConcatProperties
  <2>3. ASSUME NEW i \in 1..Len(s)
        PROVE  s[i] = (<<Head(s)>> \o Tail(s))[i]
    BY <1>1, <1>2, ConcatProperties, HeadTailProperties
  <2>4. QED
    BY <2>1, <2>2, <2>3, SeqEqual
<1>4. QED
  BY <1>1, <1>2, <1>3

\* The first piece of a buffer of at most n is moved behind another's.
LEMMA MoveFirst ==
    ASSUME NEW S, NEW a \in Seq(S), NEW s \in Seq(S), s # <<>>
    PROVE  /\ Append(a, Head(s)) \in Seq(S) /\ Tail(s) \in Seq(S)
           /\ \A n \in Nat : Len(s) <= n => Len(Tail(s)) <= n
<1>1. Head(s) \in S /\ Tail(s) \in Seq(S) /\ Len(Tail(s)) = Len(s) - 1
  BY TakeFirst
<1>2. Len(s) \in Nat
  OBVIOUS
<1>3. \A n \in Nat : Len(s) <= n => Len(Tail(s)) <= n
  BY <1>1, <1>2
<1>4. Append(a, Head(s)) \in Seq(S)
  BY <1>1
<1> QED BY <1>1, <1>3, <1>4

\* A piece is added at the end of the last buffer.
LEMMA AppendLast ==
    ASSUME NEW S, NEW a \in Seq(S), NEW b \in Seq(S), NEW x \in S
    PROVE  a \o Append(b, x) = Append(a \o b, x)
<1>1. <<x>> \in Seq(S) /\ a \o b \in Seq(S)
  BY OnePiece, ConcatProperties
<1>2. Append(b, x) = b \o <<x>>
  BY AppendIsConcat
<1>3. Append(a \o b, x) = (a \o b) \o <<x>>
  BY <1>1, AppendIsConcat
<1>4. QED
  BY <1>1, <1>2, <1>3, ConcatAssociative

\* The piece that follows what has been delivered.
LEMMA NextPiece ==
    ASSUME NEW S, NEW a \in Seq(S), NEW b \in Seq(S), NEW c \in Seq(S), b # <<>>
    PROVE  /\ Len(a) < Len(a \o (b \o c))
           /\ (a \o (b \o c))[Len(a) + 1] = Head(b)
<1> DEFINE d == b \o c
<1>1. Len(b) \in Nat \ {0} /\ Len(c) \in Nat /\ Len(a) \in Nat /\ b[1] = Head(b)
  OBVIOUS
<1>2. d \in Seq(S) /\ Len(d) = Len(b) + Len(c)
  BY ConcatProperties
<1>3. d[1] = b[1]
  <2>1. 1 \in 1..(Len(b) + Len(c)) /\ 1 <= Len(b)
    BY <1>1
  <2>2. QED
    BY <2>1, ConcatProperties
<1> HIDE DEF d
<1>4. Len(a) + 1 \in 1..(Len(a) + Len(d)) /\ ~(Len(a) + 1 <= Len(a))
  BY <1>1, <1>2
<1>5. (a \o d)[Len(a) + 1] = d[1] /\ Len(a) < Len(a \o d)
  BY <1>1, <1>2, <1>4, ConcatProperties
<1>6. QED
  BY <1>1, <1>3, <1>5 DEF d

\* The same facts about Cat, Moved and Added, whose definitions the provers
\* need not expand.
LEMMA CatType ==
    ASSUME NEW S, NEW a \in Seq(S), NEW b \in Seq(S)
    PROVE  Cat(a, b) \in Seq(S)
  BY ConcatProperties DEF Cat

LEMMA CatAssoc ==
    ASSUME NEW S, NEW a \in Seq(S), NEW b \in Seq(S), NEW c \in Seq(S)
    PROVE  Cat(Cat(a, b), c) = Cat(a, Cat(b, c))
  BY ConcatAssociative DEF Cat

LEMMA CatEmpty ==
    ASSUME NEW S, NEW a \in Seq(S)
    PROVE  Cat(a, <<>>) = a /\ Cat(<<>>, a) = a
  BY ConcatEmptySeq DEF Cat

LEMMA CatMoved ==
    ASSUME NEW S, NEW a \in Seq(S), NEW b \in Seq(S), NEW c \in Seq(S),
           NEW a1, NEW b1, Moved(a, b, a1, b1)
    PROVE  /\ a1 \in Seq(S) /\ b1 \in Seq(S)
           /\ Cat(a1, Cat(b1, c)) = Cat(a, Cat(b, c))
<1>1. /\ Head(b) \in S /\ b1 \in Seq(S) /\ a1 = Append(a, Head(b))
      /\ <<Head(b)>> \in Seq(S) /\ b = <<Head(b)>> \o b1
  BY TakeFirst DEF Moved
<1>2. PICK h \in Seq(S) : h = <<Head(b)>>
  BY <1>1
<1>3. a1 = Cat(a, h) /\ b = Cat(h, b1)
  BY <1>1, <1>2, AppendIsConcat DEF Cat
<1>4. b1 \in Seq(S) /\ a1 \in Seq(S)
  BY <1>1, <1>3, CatType
<1>5. QED
  BY <1>3, <1>4, CatType, CatAssoc

LEMMA CatAdded ==
    ASSUME NEW S, NEW a \in Seq(S), NEW b \in Seq(S), NEW x \in S,
           NEW b1, Added(b, x, b1)
    PROVE  b1 \in Seq(S) /\ Added(Cat(a, b), x, Cat(a, b1))
<1>1. b1 \in Seq(S)
  BY DEF Added
<1>2. a \o Append(b, x) = Append(a \o b, x)
  BY AppendLast
<1>3. QED
  BY <1>1, <1>2 DEF Added, Cat

LEMMA CatNext ==
    ASSUME NEW S, NEW a \in Seq(S), NEW b \in Seq(S), NEW c \in Seq(S), b # <<>>
    PROVE  /\ Len(a) < Len(Cat(a, Cat(b, c)))
           /\ Cat(a, Cat(b, c))[Len(a) + 1] = Head(b)
  BY NextPiece DEF Cat

\* What a reset leaves of a sequence is the beginning of it.
LEMMA CutIs ==
    ASSUME NEW S, NEW s \in Seq(S), NEW t \in Cut(s)
    PROVE  /\ t \in Seq(S) /\ Len(t) \in Nat /\ Len(t) <= Len(s)
           /\ \E rest \in Seq(S) : s = Cat(t, rest)
<1>1. PICK n \in 0..Len(s) : t = SubSeq(s, 1, n)
  BY DEF Cut
<1>2. Len(s) \in Nat /\ n \in Nat /\ \A i \in 1..Len(s) : s[i] \in S
  OBVIOUS
<1>3. t \in Seq(S) /\ Len(t) = n
  <2>1. \A i \in 1..n : s[i] \in S
    BY <1>2
  <2>2. SubSeq(s, 1, n) \in Seq(S) /\ Len(SubSeq(s, 1, n)) = IF 1 <= n THEN n - 1 + 1 ELSE 0
    BY <1>2, <2>1, SubSeqProperties
  <2> QED BY <1>1, <1>2, <2>2
<1>4. SubSeq(s, n + 1, Len(s)) \in Seq(S)
  <2>1. n + 1 \in Int /\ Len(s) \in Int /\ \A i \in (n + 1)..Len(s) : s[i] \in S
    BY <1>2
  <2> QED BY <2>1, SubSeqProperties
<1>5. SubSeq(s, 1, n) \o SubSeq(s, n + 1, Len(s)) = s
  <2>1. /\ 1 \in 1..Len(s) + 1 /\ n \in 1 - 1..Len(s) /\ Len(s) \in n..Len(s)
    BY <1>2
  <2>2. SubSeq(s, 1, n) \o SubSeq(s, n + 1, Len(s)) = SubSeq(s, 1, Len(s))
    BY <2>1, ConcatAdjacentSubSeq
  <2> QED BY <2>2, SubSeqFull
<1>6. PICK rest \in Seq(S) : rest = SubSeq(s, n + 1, Len(s))
  BY <1>4
<1>7. s = Cat(t, rest)
  BY <1>1, <1>5, <1>6 DEF Cat
<1>8. Len(t) \in Nat /\ Len(t) <= Len(s)
  BY <1>2, <1>3
<1> QED BY <1>3, <1>7, <1>8

LEMMA CutWhole ==
    ASSUME NEW S, NEW s \in Seq(S)
    PROVE  s \in Cut(s)
<1>1. SubSeq(s, 1, Len(s)) = s /\ Len(s) \in 0..Len(s)
  BY SubSeqFull
<1> QED BY <1>1 DEF Cut

LEMMA LeftCut ==
    ASSUME NEW S, NEW s \in Seq(S), NEW u, NEW t \in Left(s, u)
    PROVE  t \in Cut(s)
  BY CutWhole DEF Left

\* Tuples are the sequences that appending makes.
LEMMA PairIs ==
    ASSUME NEW S, NEW a \in S, NEW b \in S, NEW t \in Seq(S),
           Len(t) = 2, t[1] = a, t[2] = b
    PROVE  t = <<a, b>>
  OBVIOUS

LEMMA TripleIs ==
    ASSUME NEW S, NEW a \in S, NEW b \in S, NEW c \in S, NEW t \in Seq(S),
           Len(t) = 3, t[1] = a, t[2] = b, t[3] = c
    PROVE  t = <<a, b, c>>
  OBVIOUS

LEMMA AppendToOne ==
    ASSUME NEW a, NEW b
    PROVE  Append(<<a>>, b) = <<a, b>>
<1>a. PICK S : S = {a, b}
  OBVIOUS
<1>b. a \in S /\ b \in S
  BY <1>a
<1>1. ASSUME NEW s \in Seq(S)
      PROVE  Len(s) = 1 /\ s[1] = a => Append(s, b) = <<a, b>>
  <2> DEFINE t == Append(s, b)
  <2>1. /\ t \in Seq(S) /\ Len(t) = Len(s) + 1
        /\ (\A i \in 1..Len(s) : t[i] = s[i]) /\ t[Len(s) + 1] = b
    BY <1>b
  <2> HIDE DEF t
  <2>2. ASSUME Len(s) = 1, s[1] = a PROVE t = <<a, b>>
    <3>1. t \in Seq(S) /\ Len(t) = 2 /\ t[1] = a /\ t[2] = b
      BY <2>1, <2>2
    <3>2. QED
      BY ONLY <3>1, PairIs, <1>b, ZenonT(30)
  <2>3. QED
    BY <2>2 DEF t
<1>2. <<a>> \in Seq(S) /\ Len(<<a>>) = 1 /\ <<a>>[1] = a
  BY <1>b
<1>3. QED
  BY <1>1, <1>2, Zenon

LEMMA AppendToTwo ==
    ASSUME NEW a, NEW b, NEW c
    PROVE  Append(<<a, b>>, c) = <<a, b, c>>
<1>a. PICK S : S = {a, b, c}
  OBVIOUS
<1>b. a \in S /\ b \in S /\ c \in S
  BY <1>a
<1>1. ASSUME NEW s \in Seq(S)
      PROVE  Len(s) = 2 /\ s[1] = a /\ s[2] = b => Append(s, c) = <<a, b, c>>
  <2> DEFINE t == Append(s, c)
  <2>1. /\ t \in Seq(S) /\ Len(t) = Len(s) + 1
        /\ (\A i \in 1..Len(s) : t[i] = s[i]) /\ t[Len(s) + 1] = c
    BY <1>b
  <2> HIDE DEF t
  <2>2. ASSUME Len(s) = 2, s[1] = a, s[2] = b PROVE t = <<a, b, c>>
    <3>1. t \in Seq(S) /\ Len(t) = 3 /\ t[1] = a /\ t[2] = b /\ t[3] = c
      BY <2>1, <2>2
    <3>2. QED
      BY ONLY <3>1, TripleIs, <1>b, ZenonT(30)
  <2>3. QED
    BY <2>2 DEF t
<1>2. /\ <<a, b>> \in Seq(S) /\ Len(<<a, b>>) = 2
      /\ <<a, b>>[1] = a /\ <<a, b>>[2] = b
  BY <1>b
<1>3. QED
  BY <1>1, <1>2, Zenon

LEMMA JoinTwo ==
    ASSUME NEW a, NEW b
    PROVE  <<a>> \o <<b>> = <<a, b>>
<1>a. PICK S : S = {a, b}
  OBVIOUS
<1>b. a \in S /\ b \in S
  BY <1>a
<1>1. <<a>> \in Seq(S)
  BY <1>b
<1>2. <<a>> \o <<b>> = Append(<<a>>, b)
  BY <1>b, <1>1, AppendIsConcat, Zenon
<1>3. QED
  BY <1>2, AppendToOne, Zenon

-----------------------------------------------------------------------------
(* Types *)

\* One token of a handshake: it is taken off the buffer, and answered and
\* followed as Transitions says, or the connection is closed.
LEMMA HandshakeStep ==
    ASSUME Handshake
    PROVE  /\ pc \in HandshakePcs /\ br # <<>>
           /\ consumed' = Append(consumed, Head(br)) /\ br' = Tail(br)
           /\ \/ \E x \in Transitions :
                     /\ x[1] = pc /\ x[2] = Head(br)
                     /\ replies' = replies \o x[3] /\ pc' = x[4]
              \/ pc' = "close"
           /\ UNCHANGED <<client, wire, csock, up, origin, tunnel, ends>>
<1>1. CASE Leads(Head(br)) = {}
  BY <1>1 DEF Handshake, Take, Goto
<1>2. CASE \E x \in Leads(Head(br)) :
              /\ Take(x[4])
              /\ \/ replies' = replies \o x[3] /\ Goto(x[4])
                 \/ /\ cend = "gone" /\ x[3] = <<"method">>
                    /\ Goto("close") /\ UNCHANGED replies
  BY <1>2 DEF Handshake, Take, Goto, Leads
<1>3. QED
  BY <1>1, <1>2 DEF Handshake

\* The transitions, one by one.
Is(x, from, tok, ans, to) == x[1] = from /\ x[2] = tok /\ x[3] = ans /\ x[4] = to

LEMMA TransitionsAre ==
    ASSUME NEW x \in Transitions
    PROVE  \/ Is(x, "request", "CONNECT", <<"200">>, "engine")
           \/ Is(x, "request", "GET", <<>>, "dial")
           \/ Is(x, "request", "POST", <<>>, "dial")
           \/ Is(x, "hdr", "v5", <<>>, "methods")
           \/ Is(x, "hdr", "v5none", <<"method">>, "req")
           \/ Is(x, "methods", "methods", <<"method">>, "req")
           \/ Is(x, "req", "connect4", <<>>, "addr")
           \/ Is(x, "req", "connect6", <<>>, "addr")
           \/ Is(x, "req", "connectName", <<>>, "len")
           \/ Is(x, "addr", "addr", <<>>, "port")
           \/ Is(x, "len", "len", <<>>, "name")
           \/ Is(x, "len", "len0", <<>>, "port")
           \/ Is(x, "name", "name", <<>>, "port")
           \/ Is(x, "port", "port", <<"ok">>, "engine")
           \/ Is(x, "req", "badcmd", <<"unsupported command">>, "close")
           \/ Is(x, "req", "badtype", <<"unsupported type">>, "close")
<1>1. ASSUME NEW a, NEW b, NEW c, NEW d, x = <<a, b, c, d>>
      PROVE  Is(x, a, b, c, d)
  BY <1>1 DEF Is
<1>2. \/ x = <<"request", "CONNECT", <<"200">>, "engine">>
      \/ x = <<"request", "GET", <<>>, "dial">>
      \/ x = <<"request", "POST", <<>>, "dial">>
      \/ x = <<"hdr", "v5", <<>>, "methods">>
      \/ x = <<"hdr", "v5none", <<"method">>, "req">>
      \/ x = <<"methods", "methods", <<"method">>, "req">>
      \/ x = <<"req", "connect4", <<>>, "addr">>
      \/ x = <<"req", "connect6", <<>>, "addr">>
      \/ x = <<"req", "connectName", <<>>, "len">>
      \/ x = <<"addr", "addr", <<>>, "port">>
      \/ x = <<"len", "len", <<>>, "name">>
      \/ x = <<"len", "len0", <<>>, "port">>
      \/ x = <<"name", "name", <<>>, "port">>
      \/ x = <<"port", "port", <<"ok">>, "engine">>
      \/ x = <<"req", "badcmd", <<"unsupported command">>, "close">>
      \/ x = <<"req", "badtype", <<"unsupported type">>, "close">>
  BY Zenon DEF Transitions, Accepts
<1>3. QED
  BY <1>1, <1>2

LEMMA TransitionsTo ==
    ASSUME NEW x \in Transitions
    PROVE  x[4] \in HandshakePcs \cup {"engine", "dial", "close"}
  BY TransitionsAre DEF Is, HandshakePcs

LEMMA ScriptType ==
    ASSUME TypeOK
    PROVE  /\ script \in Seq(Tokens) /\ Len(script) \in Nat /\ sent \in Nat
           /\ Cap \in Nat \ {0} /\ MaxResp \in Nat /\ resp \in Nat
           /\ Body \in Nat
  BY ProxyAssumption DEF TypeOK

LEMMA InitType == Init => TypeOK /\ BuffersOK
<1> SUFFICES ASSUME Init PROVE TypeOK /\ BuffersOK
  OBVIOUS
<1>1. script \in Seq(Tokens) /\ sent \in 0..Len(script) /\ resp \in 0..MaxResp
  BY ProxyAssumption DEF Init, Kinds
<1>2. pc \in HandshakePcs /\ body \in 0..Body
  BY ProxyAssumption DEF Init, HandshakePcs, Kinds
<1>3. pc # "tunnel" /\ pc \in Pcs
  BY <1>2 DEF HandshakePcs, Pcs
<1>4. BuffersOK
  BY <1>3 DEF Init, BuffersOK
<1>5. QED
  <2>1. /\ wire \in Seq(Tokens) /\ br \in Seq(Tokens) /\ consumed \in Seq(Tokens)
        /\ Len(wire) <= Cap /\ Len(outS) <= Cap /\ Len(inS) <= Cap /\ Len(outC) <= Cap
    BY ProxyAssumption, NoPieces DEF Init
  <2>2. QED
    BY <1>1, <1>2, <1>3, <1>4, <2>1 DEF Init, TypeOK

LEMMA NextType == ASSUME TypeOK, BuffersOK, Next PROVE TypeOK' /\ BuffersOK'
<1> USE ScriptType DEF client, origin, tunnel, ends
<1>a. /\ outS \in Seq(Tokens) /\ held \in Seq(Tokens) /\ got \in Seq(Tokens)
      /\ br \in Seq(Tokens) /\ inS \in Seq(Pieces) /\ outC \in Seq(Pieces)
      /\ back \in Seq(Pieces) /\ seen \in Seq(Pieces)
  BY DEF TypeOK, BuffersOK
<1>b. /\ Cap \in Nat \ {0} /\ Len(back) <= 1
      /\ Len(outS) <= Cap /\ Len(inS) <= Cap /\ Len(outC) <= Cap
  BY DEF TypeOK, BuffersOK
<1>c. /\ \A t \in Cut(outS) : t \in Seq(Tokens) /\ Len(t) <= Cap
      /\ \A t \in Cut(wire) : t \in Seq(Tokens) /\ Len(t) <= Cap
      /\ \A t \in Cut(outC) : t \in Seq(Pieces) /\ Len(t) <= Cap
      /\ \A t \in Cut(inS) : t \in Seq(Pieces) /\ Len(t) <= Cap
  <2>1. ASSUME NEW S, NEW s \in Seq(S), Len(s) <= Cap, NEW t \in Cut(s)
        PROVE  t \in Seq(S) /\ Len(t) <= Cap
    <3>1. t \in Seq(S) /\ Len(t) \in Nat /\ Len(t) <= Len(s) /\ Len(s) \in Nat
      BY <2>1, CutIs
    <3> QED BY <1>b, <2>1, <3>1
  <2>2. wire \in Seq(Tokens) /\ Len(wire) <= Cap
    BY DEF TypeOK
  <2> QED BY <1>a, <1>b, <2>1, <2>2
<1>1. CASE ClientSend
  <2>1. script[sent + 1] \in Tokens
    BY <1>1 DEF ClientSend, TypeOK
  <2>2. wire' \in Seq(Tokens) /\ Len(wire') <= Cap /\ sent' \in 0..Len(script)
    BY <1>1, <2>1 DEF ClientSend, TypeOK
  <2>3. outC' \in Seq(Pieces) /\ Len(outC') <= Cap
    BY <1>1, <1>a, <1>b, <1>c DEF ClientSend
  <2>4. QED
    BY <1>1, <2>2, <2>3 DEF ClientSend, TypeOK, BuffersOK
<1>2. CASE ClientEnd
  <2>1. /\ cend' \in {"open", "fin", "gone"} /\ creset' \in BOOLEAN
        /\ wire' \in Seq(Tokens) /\ Len(wire') <= Cap
    BY <1>2, <1>c DEF ClientEnd, TypeOK
  <2>2. QED
    BY <1>2, <2>1 DEF ClientEnd, TypeOK, BuffersOK
<1>3. CASE ClientRead
  <2>1. seen' \in Seq(Pieces) /\ outC' \in Seq(Pieces) /\ Len(outC') <= Cap
    <3>1. outC # <<>> /\ seen' = Append(seen, Head(outC)) /\ outC' = Tail(outC)
      BY <1>3 DEF ClientRead
    <3> QED BY <1>a, <1>b, <3>1, MoveFirst
  <2>2. QED
    BY <1>3, <2>1 DEF ClientRead, TypeOK, BuffersOK
<1>4. CASE ClientStall
  BY <1>4 DEF ClientStall, TypeOK, BuffersOK
<1>5. CASE ServerSend
  <2>1. resp' \in 0..MaxResp /\ MaxResp - resp' \in Pieces
    <3>1. resp \in Nat /\ MaxResp \in Nat /\ resp <= MaxResp
      BY ScriptType DEF TypeOK
    <3>2. resp > 0 /\ resp' = resp - 1
      BY <1>5 DEF ServerSend
    <3>3. QED
      BY <3>1, <3>2 DEF Pieces
  <2>2. inS' \in Seq(Pieces) /\ Len(inS') <= Cap
    BY <1>5, <2>1 DEF ServerSend, TypeOK, BuffersOK
  <2>3. outS' \in Seq(Tokens) /\ Len(outS') <= Cap
    BY <1>5, <1>a, <1>b, <1>c DEF ServerSend
  <2>4. QED
    BY <1>5, <2>1, <2>2, <2>3 DEF ServerSend, TypeOK, BuffersOK
<1>6. CASE ServerRead
  <2>1. got' \in Seq(Tokens) /\ outS' \in Seq(Tokens) /\ Len(outS') <= Cap
    <3>1. outS # <<>> /\ got' = Append(got, Head(outS)) /\ outS' = Tail(outS)
      BY <1>6 DEF ServerRead
    <3> QED BY <1>a, <1>b, <3>1, MoveFirst
  <2>2. QED
    BY <1>6, <2>1 DEF ServerRead, TypeOK, BuffersOK
<1>7. CASE ServerEnd \/ ServerStall
  <2>1. /\ send' \in {"open", "fin", "gone"} /\ sstall' \in BOOLEAN
        /\ sreset' \in BOOLEAN /\ inS' \in Seq(Pieces) /\ Len(inS') <= Cap
    BY <1>7, <1>a, <1>b, <1>c DEF ServerEnd, ServerStall, TypeOK
  <2>2. UNCHANGED <<client, wire, br, pc, consumed, replies, csock, up, resp, outS,
                    outC, up2c, c2up, body, held, back, ends>>
    BY <1>7 DEF ServerEnd, ServerStall
  <2>3. QED
    BY <2>1, <2>2 DEF TypeOK, BuffersOK
<1>8. CASE EngineRead
  <2>1. got' \in Seq(Tokens) /\ br' \in Seq(Tokens)
    <3>1. br # <<>> /\ got' = Append(got, Head(br)) /\ br' = Tail(br)
      BY <1>8 DEF EngineRead
    <3> QED BY <1>a, <3>1, MoveFirst
  <2>2. QED
    BY <1>8, <2>1 DEF EngineRead, TypeOK, BuffersOK
<1>9. CASE EngineReturn \/ CloseClient
  <2>1. /\ pc \in {"engine", "close"} /\ pc' = "done" /\ csock' = "closed"
        /\ UNCHANGED <<client, wire, br, consumed, replies, up, origin, tunnel, ends>>
    BY <1>9 DEF EngineReturn, CloseClient, Goto
  <2>2. pc # "tunnel" /\ pc' # "tunnel" /\ pc' \in Pcs
    BY <2>1 DEF Pcs
  <2>3. QED
    BY <2>1, <2>2 DEF TypeOK, BuffersOK
<1>10. CASE Fill
  <2>1. br' \in Seq(Tokens) /\ wire' \in Seq(Tokens) /\ Len(wire') <= Cap
    BY <1>10, <1>b, NoPieces DEF Fill, TypeOK
  <2> QED BY <1>10, <2>1 DEF Fill, TypeOK, BuffersOK
<1>11. CASE Handshake
  <2>1. /\ pc \in HandshakePcs /\ pc' \in HandshakePcs \cup {"engine", "dial", "close"}
        /\ consumed' = Append(consumed, Head(br)) /\ br' = Tail(br) /\ br # <<>>
        /\ UNCHANGED <<client, wire, csock, up, origin, tunnel, ends>>
    BY <1>11, HandshakeStep, TransitionsTo
  <2>2. consumed' \in Seq(Tokens) /\ br' \in Seq(Tokens)
    BY <2>1 DEF TypeOK
  <2>3. pc \notin {"tunnel", "done"} /\ pc' # "tunnel" /\ pc' \in Pcs
    BY <2>1 DEF HandshakePcs, Pcs
  <2>4. c2up = "none"
    BY <2>3 DEF BuffersOK
  <2>5. QED
    BY <2>1, <2>2, <2>3, <2>4 DEF TypeOK, BuffersOK
<1>12. CASE HandshakeFails
  BY <1>12 DEF HandshakeFails, Goto, TypeOK, BuffersOK, Pcs, HandshakePcs
<1>13. CASE Dial
  <2>1. /\ up' \in {"none", "open", "closed"} /\ pc' \in {"write", "close"}
        /\ held' \in Seq(Tokens) /\ body' \in 0..Body
    <3>1. consumed \in Seq(Tokens) /\ held \in Seq(Tokens)
      BY <1>a DEF TypeOK
    <3>2. body \in 0..Body /\ Body \in 0..Body /\ 0 \in 0..Body
      BY ScriptType DEF TypeOK
    <3>3. up \in {"none", "open", "closed"}
      BY DEF TypeOK
    <3> QED BY <1>13, <3>1, <3>2, <3>3 DEF Dial, Goto
  <2>2. QED
    <3>1. /\ pc = "dial"
          /\ UNCHANGED <<client, wire, br, consumed, csock, origin, inS, outS, outC,
                         up2c, c2up, back, ends>>
      BY <1>13 DEF Dial
    <3>2. pc # "tunnel" /\ pc' # "tunnel" /\ pc' \in Pcs
      BY <2>1, <3>1 DEF Pcs
    <3>3. c2up = "none"
      BY <3>1 DEF BuffersOK
    <3>4. QED
      BY <2>1, <3>1, <3>2, <3>3 DEF TypeOK, BuffersOK, client, origin, ends
<1>14. CASE Forward
  <2>1. /\ held = <<>> /\ pc' = "tunnel" /\ c2up' = "read" /\ up2c' = "read"
        /\ UNCHANGED <<client, wire, br, consumed, replies, csock, up, origin, inS,
                       outS, outC, body, held, back, ends>>
    BY <1>14 DEF Forward, Goto
  <2>2. pc' \in Pcs /\ Len(held') <= 1
    BY <2>1, NoPieces DEF Pcs
  <2>3. QED
    BY <2>1, <2>2 DEF TypeOK, BuffersOK, client, origin, ends
<1>22. CASE BodyRead
  <2>1. /\ held' \in Seq(Tokens) /\ br' \in Seq(Tokens) /\ pc = "write"
    <3>1. br # <<>> /\ held' = Append(held, Head(br)) /\ br' = Tail(br) /\ pc = "write"
      BY <1>22 DEF BodyRead
    <3> QED BY <1>a, <3>1, MoveFirst
  <2>2. body' \in 0..Body
    <3>1. body > 0 /\ body' = body - 1
      BY <1>22 DEF BodyRead
    <3>2. body \in 0..Body /\ Body \in Nat
      BY ScriptType DEF TypeOK
    <3> QED BY <3>1, <3>2
  <2>3. c2up = "none"
    BY <2>1 DEF BuffersOK
  <2> QED BY <1>22, <2>1, <2>2, <2>3 DEF BodyRead, TypeOK, BuffersOK
<1>23. CASE BodyWrite
  <2>1. pc = "write" /\ held # <<>> /\ held' = Tail(held)
    BY <1>23 DEF BodyWrite
  <2>2. c2up = "none" /\ held' \in Seq(Tokens)
    BY <1>a, <2>1, TakeFirst DEF BuffersOK
  <2>3. outS' \in Seq(Tokens) /\ Len(outS') <= Cap
    <3>1. CASE outS' = Append(outS, Head(held)) /\ Len(outS) < Cap
      <4>1. Head(held) \in Tokens /\ Len(outS) \in Nat
        BY <1>a, <2>1, TakeFirst
      <4> QED BY <1>a, <1>b, <3>1, <4>1
    <3>2. CASE outS' = outS
      BY <1>a, <1>b, <3>2
    <3> QED BY <1>23, <3>1, <3>2 DEF BodyWrite
  <2>4. inS' \in Seq(Pieces) /\ Len(inS') <= Cap /\ sreset' \in BOOLEAN
    BY <1>23, <1>a, <1>b, <1>c DEF BodyWrite, TypeOK
  <2> QED BY <1>23, <2>2, <2>3, <2>4 DEF BodyWrite, TypeOK, BuffersOK
<1>24. CASE ForwardFails
  <2>1. /\ pc = "write" /\ pc' = "close" /\ held' = <<>> /\ up' = "closed"
        /\ UNCHANGED <<client, wire, br, consumed, replies, csock, send, sstall, resp,
                       inS, outC, up2c, c2up, body, back, ends>>
    BY <1>24 DEF ForwardFails, Goto
  <2>2. sreset' \in BOOLEAN
    BY <1>24 DEF ForwardFails, TypeOK
  <2>3. outS' \in Seq(Tokens) /\ Len(outS') <= Cap
    BY <1>24, <1>a, <1>c, LeftCut DEF ForwardFails
  <2>4. c2up = "none" /\ held' \in Seq(Tokens) /\ pc' \in Pcs
    BY <2>1, NoPieces DEF BuffersOK, Pcs
  <2> QED BY <2>1, <2>2, <2>3, <2>4 DEF TypeOK, BuffersOK, client, ends
<1>15. CASE UpRead
  <2>1. held' \in Seq(Tokens) /\ Len(held') <= 1 /\ br' \in Seq(Tokens)
    <3>1. CASE br # <<>> /\ held' = <<Head(br)>> /\ br' = Tail(br)
      BY <1>a, <3>1, TakeFirst
    <3>2. CASE UNCHANGED <<held, br>>
      <4>1. c2up # "none"
        BY <1>15 DEF UpRead
      <4> QED BY <1>a, <3>2, <4>1 DEF BuffersOK
    <3>3. QED
      BY <1>15, <3>1, <3>2 DEF UpRead
  <2>2. QED
    BY <1>15, <2>1 DEF UpRead, TypeOK, BuffersOK
<1>16. CASE UpWrite
  <2>1. outS' \in Seq(Tokens) /\ Len(outS') <= Cap
    <3>1. CASE outS' = outS \o held /\ Len(outS) < Cap
      <4>1. outS' \in Seq(Tokens) /\ Len(outS') = Len(outS) + Len(held)
        BY <1>a, <3>1, ConcatProperties
      <4>2. Len(outS) \in Nat /\ Len(held) \in Nat /\ Len(held) <= 1
        BY <1>16, <1>a DEF UpWrite, BuffersOK
      <4> QED BY <1>b, <3>1, <4>1, <4>2
    <3>2. CASE outS' = outS
      BY <3>2 DEF TypeOK, BuffersOK
    <3>3. QED
      BY <1>16, <3>1, <3>2 DEF UpWrite
  <2>2. inS' \in Seq(Pieces) /\ Len(inS') <= Cap /\ sreset' \in BOOLEAN
    BY <1>16, <1>a, <1>b, <1>c DEF UpWrite, TypeOK
  <2>3. held' \in Seq(Tokens) /\ Len(held') <= 1
    BY <1>16, NoPieces DEF UpWrite
  <2>4. /\ c2up = "write" /\ c2up' \in {"read", "close"}
        /\ UNCHANGED <<client, wire, br, pc, consumed, replies, csock, up, send,
                       sstall, resp, outC, up2c, body, back, ends>>
    BY <1>16 DEF UpWrite
  <2>5. QED
    BY <2>1, <2>2, <2>3, <2>4 DEF TypeOK, BuffersOK
<1>17. CASE UpClose
  <2>1. outS' \in Seq(Tokens) /\ Len(outS') <= Cap
    BY <1>17, <1>a, <1>c, LeftCut DEF UpClose
  <2> QED BY <1>17, <2>1 DEF UpClose, TypeOK, BuffersOK
<1>18. CASE DownRead
  <2>1. /\ back' \in Seq(Pieces) /\ Len(back') <= 1
        /\ inS' \in Seq(Pieces) /\ Len(inS') <= Cap
    <3>1. CASE inS # <<>> /\ back' = <<Head(inS)>> /\ inS' = Tail(inS)
      <4>1. /\ <<Head(inS)>> \in Seq(Pieces) /\ Len(<<Head(inS)>>) = 1
            /\ Tail(inS) \in Seq(Pieces)
        BY <1>a, <3>1, TakeFirst
      <4>2. Len(Tail(inS)) <= Cap
        BY <1>a, <1>b, <3>1, MoveFirst
      <4> QED BY <3>1, <4>1, <4>2
    <3>2. CASE UNCHANGED <<inS, back>>
      BY <3>2 DEF TypeOK, BuffersOK
    <3>3. QED
      BY <1>18, <3>1, <3>2 DEF DownRead
  <2>2. QED
    BY <1>18, <2>1 DEF DownRead, TypeOK, BuffersOK
<1>19. CASE DownWrite
  <2>1. outC' \in Seq(Pieces) /\ Len(outC') <= Cap
    <3>1. CASE outC' = outC \o back /\ Len(outC) < Cap
      <4>1. outC' \in Seq(Pieces) /\ Len(outC') = Len(outC) + Len(back)
        BY <1>a, <3>1, ConcatProperties
      <4>2. Len(outC) \in Nat /\ Len(back) \in Nat
        BY <1>a
      <4> QED BY <1>b, <3>1, <4>1, <4>2
    <3>2. CASE outC' = outC
      BY <3>2 DEF TypeOK, BuffersOK
    <3>3. QED
      BY <1>19, <3>1, <3>2 DEF DownWrite
  <2>2. wire' \in Seq(Tokens) /\ Len(wire') <= Cap /\ creset' \in BOOLEAN
    BY <1>19, <1>c DEF DownWrite, TypeOK
  <2>3. back' \in Seq(Pieces) /\ Len(back') <= 1
    BY <1>19, NoPieces DEF DownWrite
  <2>4. QED
    BY <1>19, <2>1, <2>2, <2>3 DEF DownWrite, TypeOK, BuffersOK
<1>20. CASE DownClose
  <2>1. outC' \in Seq(Pieces) /\ Len(outC') <= Cap
    BY <1>20, <1>a, <1>c, LeftCut DEF DownClose
  <2> QED BY <1>20, <2>1 DEF DownClose, Goto, TypeOK, BuffersOK, Pcs
<1>21. QED
  BY <1>1, <1>2, <1>3, <1>4, <1>5, <1>6, <1>7, <1>8, <1>9, <1>10, <1>11,
     <1>12, <1>13, <1>14, <1>15, <1>16, <1>17, <1>18, <1>19, <1>20,
     <1>22, <1>23, <1>24
     DEF Next, Handler, Up, Down

LEMMA BuffersCorrect == Spec => [](TypeOK /\ BuffersOK)
<1>1. TypeOK /\ BuffersOK /\ UNCHANGED vars => TypeOK' /\ BuffersOK'
  BY DEF vars, client, origin, tunnel, ends, TypeOK, BuffersOK
<1>2. TypeOK /\ BuffersOK /\ [Next]_vars => TypeOK' /\ BuffersOK'
  BY <1>1, NextType
<1>3. QED
  BY <1>2, InitType, PTL DEF Spec

\* The variables of a connection keep their types: no buffer of a socket grows
\* beyond its size, and the handler is in a tunnel exactly while the goroutine
\* that copies the response runs.
THEOREM ProxyTypeCorrect == Spec => []TypeOK
  BY BuffersCorrect, PTL

-----------------------------------------------------------------------------
(* The handshakes *)

LEMMA GreetingType ==
    ASSUME NEW m \in Greetings
    PROVE  m \in Seq(Tokens)
<1>1. CASE m = <<"v5", "methods">>
  BY <1>1 DEF Tokens
<1>2. CASE m = <<"v5none">>
  BY <1>2 DEF Tokens
<1>3. QED
  BY <1>1, <1>2 DEF Greetings

\* Reading one more token of what follows a greeting.
LEMMA AppendToGreeting ==
    ASSUME NEW m \in Greetings, NEW r \in Seq(Tokens), NEW x \in Tokens
    PROVE  Append(m \o r, x) = m \o Append(r, x)
<1>1. m \in Seq(Tokens)
  BY GreetingType
<1>2. <<x>> \in Seq(Tokens)
  BY OnePiece
<1>3. Append(m \o r, x) = (m \o r) \o <<x>>
  BY <1>1, ConcatProperties, AppendIsConcat
<1>4. Append(r, x) = r \o <<x>>
  BY AppendIsConcat
<1>5. QED
  BY <1>1, <1>2, <1>3, <1>4, ConcatAssociative

\* The places after the greeting, one by one.
LEMMA ReadAtIs ==
    /\ ReadAt("addr") = {Then(m, <<c>>) : m \in Greetings, c \in {"connect4", "connect6"}}
    /\ ReadAt("len") = {m \o <<"connectName">> : m \in Greetings}
    /\ ReadAt("name") = {m \o <<"connectName", "len">> : m \in Greetings}
    /\ ReadAt("port") = {Then(m, r) : m \in Greetings, r \in Addresses}
    /\ ReadAt("engine") = Complete
  BY DEF ReadAt

LEMMA AddressRead ==
    ASSUME NEW m \in Greetings
    PROVE  /\ \A c \in {"connect4", "connect6"} : m \o <<c>> \in ReadAt("addr")
           /\ m \o <<"connectName", "len">> \in ReadAt("name")
           /\ \A r \in Addresses : m \o r \in ReadAt("port")
<1>1. ASSUME NEW c \in {"connect4", "connect6"}
      PROVE  Then(m, <<c>>) \in ReadAt("addr")
  BY ReadAtIs
<1>2. m \o <<"connectName", "len">> \in ReadAt("name")
  BY ReadAtIs
<1>3. ASSUME NEW r \in Addresses PROVE Then(m, r) \in ReadAt("port")
  BY ReadAtIs
<1>4. QED
  BY <1>1, <1>2, <1>3 DEF Then

LEMMA CompleteIs ==
    ASSUME NEW m \in Greetings, NEW r \in Addresses
    PROVE  (m \o r) \o <<"port">> \in Complete
<1>1. Complete = {<<"CONNECT">>} \cup {Socks(n, q) : n \in Greetings, q \in Addresses}
  BY DEF Complete, Greetings, Addresses
<1>2. Socks(m, r) \in Complete
  BY <1>1
<1>3. QED
  BY <1>2 DEF Socks

\* What has been read after one more token is what belongs to the next place.
LEMMA ReadNext ==
    ASSUME NEW x \in Transitions, NEW s \in ReadAt(x[1]), x[4] # "close"
    PROVE  Append(s, x[2]) \in ReadAt(x[4])
<1>1. \A c \in Tokens : <<c>> \in Seq(Tokens)
  BY OnePiece
<1>2. CASE Is(x, "request", "CONNECT", <<"200">>, "engine")
  BY <1>2 DEF Is, ReadAt, Complete
<1>3. CASE Is(x, "request", "GET", <<>>, "dial") \/ Is(x, "request", "POST", <<>>, "dial")
  <2>1. s = <<>> /\ x[2] \in {"GET", "POST"} /\ x[4] = "dial"
    BY <1>3 DEF Is, ReadAt
  <2>2. Append(<<>>, x[2]) = <<x[2]>>
    BY <2>1
  <2>3. <<x[2]>> \in Requests /\ ReadAt("dial") = Requests
    BY <2>1 DEF Requests, ReadAt
  <2> QED BY <2>1, <2>2, <2>3
<1>4. CASE Is(x, "hdr", "v5", <<>>, "methods")
  BY <1>4 DEF Is, ReadAt
<1>5. CASE Is(x, "hdr", "v5none", <<"method">>, "req")
  BY <1>5 DEF Is, ReadAt, Greetings
<1>6. CASE Is(x, "methods", "methods", <<"method">>, "req")
  <2>1. s = <<"v5">>
    BY <1>6 DEF Is, ReadAt
  <2>2. Append(<<"v5">>, "methods") = <<"v5", "methods">>
    BY AppendToOne
  <2>3. QED
    BY <1>6, <2>1, <2>2 DEF Is, ReadAt, Greetings
<1>7. CASE \/ Is(x, "req", "connect4", <<>>, "addr")
          \/ Is(x, "req", "connect6", <<>>, "addr")
  <2>1. s \in Greetings
    BY <1>7 DEF Is, ReadAt
  <2>2. s \in Seq(Tokens) /\ x[2] \in Tokens
    BY <1>7, <2>1, GreetingType DEF Is, Tokens
  <2>3. Append(s, x[2]) = s \o <<x[2]>>
    BY <2>2, AppendIsConcat
  <2>4. s \o <<x[2]>> \in ReadAt("addr")
    BY <1>7, <2>1, AddressRead DEF Is
  <2>5. QED
    BY <1>7, <2>3, <2>4 DEF Is
<1>8. CASE Is(x, "req", "connectName", <<>>, "len")
  <2>1. s \in Greetings
    BY <1>8 DEF Is, ReadAt
  <2>2. s \in Seq(Tokens) /\ "connectName" \in Tokens
    BY <2>1, GreetingType DEF Tokens
  <2>3. Append(s, "connectName") = s \o <<"connectName">>
    BY <2>2, AppendIsConcat
  <2>4. QED
    BY <1>8, <2>1, <2>3 DEF Is, ReadAt
<1>9. CASE Is(x, "addr", "addr", <<>>, "port")
  <2>1. PICK m \in Greetings, c \in {"connect4", "connect6"} : s = m \o <<c>>
    BY <1>9, ReadAtIs DEF Is, Then
  <2>2. <<c>> \in Seq(Tokens) /\ "addr" \in Tokens
    BY DEF Tokens
  <2>3. Append(s, "addr") = m \o Append(<<c>>, "addr")
    BY <2>1, <2>2, AppendToGreeting
  <2>4. Append(<<c>>, "addr") = <<c, "addr">>
    BY AppendToOne
  <2>5. QED
    <3>1. <<c, "addr">> \in Addresses
      BY DEF Addresses
    <3>2. QED
      BY <1>9, <2>3, <2>4, <3>1, AddressRead DEF Is
<1>10. CASE \/ Is(x, "len", "len", <<>>, "name")
           \/ Is(x, "len", "len0", <<>>, "port")
  <2>1. PICK m \in Greetings : s = m \o <<"connectName">>
    <3>1. x[1] = "len"
      BY <1>10 DEF Is
    <3>2. QED
      BY <3>1, ReadAtIs
  <2>2. <<"connectName">> \in Seq(Tokens) /\ x[2] \in Tokens
    BY <1>10 DEF Is, Tokens
  <2>3. Append(s, x[2]) = m \o Append(<<"connectName">>, x[2])
    BY <2>1, <2>2, AppendToGreeting
  <2>4. Append(<<"connectName">>, x[2]) = <<"connectName", x[2]>>
    BY AppendToOne
  <2>5. CASE x[2] = "len" /\ x[4] = "name"
    <3>1. m \o <<"connectName", "len">> \in ReadAt("name")
      BY AddressRead
    <3>2. QED
      BY <2>3, <2>4, <2>5, <3>1
  <2>6. CASE x[2] = "len0" /\ x[4] = "port"
    <3>1. m \o <<"connectName", "len0">> \in ReadAt("port")
      BY AddressRead DEF Addresses
    <3>2. QED
      BY <2>3, <2>4, <2>6, <3>1
  <2>7. QED
    BY <1>10, <2>5, <2>6 DEF Is
<1>11. CASE Is(x, "name", "name", <<>>, "port")
  <2>1. PICK m \in Greetings : s = m \o <<"connectName", "len">>
    <3>1. s \in ReadAt("name")
      BY <1>11 DEF Is
    <3>2. s \in {m \o <<"connectName", "len">> : m \in Greetings}
      BY <3>1, ReadAtIs
    <3> QED BY <3>2
  <2>2. <<"connectName", "len">> \in Seq(Tokens) /\ "name" \in Tokens
    BY DEF Tokens
  <2>3. Append(s, "name") = m \o Append(<<"connectName", "len">>, "name")
    BY <2>1, <2>2, AppendToGreeting
  <2>4. Append(<<"connectName", "len">>, "name") = <<"connectName", "len", "name">>
    BY AppendToTwo
  <2>5. QED
    <3>1. m \o <<"connectName", "len", "name">> \in ReadAt("port")
      BY AddressRead DEF Addresses
    <3>2. QED
      BY <1>11, <2>3, <2>4, <3>1 DEF Is
<1>12. CASE Is(x, "port", "port", <<"ok">>, "engine")
  <2>1. PICK m \in Greetings, r \in Addresses : s = m \o r
    <3>1. s \in ReadAt("port")
      BY <1>12 DEF Is
    <3>2. s \in {Then(m, r) : m \in Greetings, r \in Addresses}
      BY <3>1, ReadAtIs
    <3>3. PICK m \in Greetings, r \in Addresses : s = Then(m, r)
      BY <3>2
    <3> QED BY <3>3 DEF Then
  <2>2. m \in Seq(Tokens) /\ r \in Seq(Tokens) /\ "port" \in Tokens
    <3>1. CASE r = <<"connect4", "addr">>
      BY <3>1, GreetingType DEF Tokens
    <3>2. CASE r = <<"connect6", "addr">>
      BY <3>2, GreetingType DEF Tokens
    <3>3. CASE r = <<"connectName", "len", "name">>
      BY <3>3, GreetingType DEF Tokens
    <3>4. CASE r = <<"connectName", "len0">>
      BY <3>4, GreetingType DEF Tokens
    <3>5. QED
      BY <3>1, <3>2, <3>3, <3>4 DEF Addresses
  <2>3. Append(s, "port") = (m \o r) \o <<"port">>
    BY <2>1, <2>2, ConcatProperties, AppendIsConcat
  <2>4. Append(s, "port") \in Complete
    BY <2>3, CompleteIs
  <2>5. QED
    BY <1>12, <2>4 DEF Is, ReadAt
<1>13. ~Is(x, "req", "badcmd", <<"unsupported command">>, "close")
  BY DEF Is
<1>14. ~Is(x, "req", "badtype", <<"unsupported type">>, "close")
  BY DEF Is
<1>15. QED
  BY <1>2, <1>3, <1>4, <1>5, <1>6, <1>7, <1>8, <1>9, <1>10, <1>11, <1>12,
     <1>13, <1>14, TransitionsAre

\* So is what has been answered.
LEMMA AnsweredNext ==
    ASSUME NEW x \in Transitions, x[4] # "close",
           x[1] = "request" => kind = "http",
           x[1] = "port" => kind = "socks"
    PROVE  AnsweredAt(x[1]) \o x[3] = AnsweredAt(x[4])
<1>1. CASE Is(x, "request", "CONNECT", <<"200">>, "engine")
  <2>1. <<>> \o <<"200">> = <<"200">>
    OBVIOUS
  <2>2. QED
    BY <1>1, <2>1 DEF Is, AnsweredAt
<1>2. CASE x[3] = <<>> /\ x[1] \in {"request", "hdr"} /\ x[4] \in {"dial", "methods"}
  BY <1>2 DEF AnsweredAt
<1>3. CASE x[3] = <<"method">> /\ x[1] \in {"hdr", "methods"} /\ x[4] = "req"
  <2>1. <<>> \o <<"method">> = <<"method">>
    OBVIOUS
  <2>2. QED
    BY <1>3, <2>1 DEF AnsweredAt
<1>4. CASE /\ x[3] = <<>> /\ x[1] \in {"req", "addr", "len", "name"}
           /\ x[4] \in {"addr", "len", "name", "port"}
  <2>1. <<"method">> \o <<>> = <<"method">>
    OBVIOUS
  <2>2. QED
    BY <1>4, <2>1 DEF AnsweredAt
<1>5. CASE Is(x, "port", "port", <<"ok">>, "engine")
  <2>1. <<"method">> \o <<"ok">> = <<"method", "ok">>
    BY JoinTwo
  <2>2. QED
    BY <1>5, <2>1 DEF Is, AnsweredAt
<1>6. QED
  BY <1>1, <1>2, <1>3, <1>4, <1>5, TransitionsAre DEF Is

\* Where a token leads from one of the two protocols.
LEMMA TransitionKinds ==
    ASSUME NEW x \in Transitions
    PROVE  /\ x[1] = "request" => x[4] \in {"engine", "dial", "close"}
           /\ x[4] # "request"
           /\ x[4] = "dial" => x[1] = "request"
  BY TransitionsAre DEF Is

LEMMA NextHandshake ==
    ASSUME TypeOK, BuffersOK, HandshakeInv, Next
    PROVE  HandshakeInv'
<1> USE DEF client, origin, tunnel, ends
<1>1. CASE Handshake
  <2>1. /\ pc \in HandshakePcs /\ consumed' = Append(consumed, Head(br))
        /\ UNCHANGED <<kind, up, c2up>>
    BY <1>1, HandshakeStep
  <2>2. up = "none" /\ c2up = "none" /\ consumed \in ReadAt(pc) /\ replies = AnsweredAt(pc)
        /\ (pc = "request" => kind = "http") /\ (pc # "request" => kind = "socks")
    BY <2>1 DEF HandshakeInv, HandshakePcs
  <2>3. CASE pc' = "close"
    BY <2>1, <2>2, <2>3 DEF HandshakeInv, HandshakePcs
  <2>4. ASSUME NEW x \in Transitions, x[1] = pc, x[2] = Head(br), x[4] # "close",
               replies' = replies \o x[3], pc' = x[4]
        PROVE  HandshakeInv'
    <3>1. consumed' \in ReadAt(pc')
      BY <2>1, <2>2, <2>4, ReadNext
    <3>2. replies' = AnsweredAt(pc')
      BY <2>2, <2>4, AnsweredNext
    <3>3. AnsweredAt(pc)' = AnsweredAt(pc')
      BY <2>1 DEF AnsweredAt
    <3>4. ReadAt(pc)' = ReadAt(pc')
      BY DEF ReadAt
    <3>5. /\ pc' # "request"
          /\ pc' \in HandshakePcs => pc # "request"
      BY <2>4, TransitionKinds DEF HandshakePcs
    <3>6. QED
      BY <2>1, <2>2, <3>1, <3>2, <3>3, <3>4, <3>5 DEF HandshakeInv
  <2>5. QED
    BY <1>1, <2>3, <2>4, HandshakeStep
<1>2. CASE HandshakeFails
  BY <1>2 DEF HandshakeFails, Goto, HandshakeInv, HandshakePcs
<1>3. CASE CloseClient \/ EngineReturn
  BY <1>3 DEF CloseClient, EngineReturn, Goto, HandshakeInv, HandshakePcs
<1>4. CASE Dial
  <2>1. /\ pc = "dial" /\ pc' \in {"write", "close"} /\ consumed' = consumed
        /\ pc' = "write" => replies' = replies
        /\ pc' = "close" => up' = up
        /\ UNCHANGED c2up
    BY <1>4 DEF Dial, Goto
  <2>2. consumed \in Requests /\ replies = <<>> /\ c2up = "none"
    BY <2>1 DEF HandshakeInv, ReadAt, AnsweredAt
  <2>3. (consumed \in ReadAt(pc) /\ replies = AnsweredAt(pc))' \/ pc' = "close"
    BY <2>1, <2>2 DEF ReadAt, AnsweredAt
  <2>4. QED
    BY <2>1, <2>2, <2>3 DEF HandshakeInv, HandshakePcs
<1>5. CASE Forward \/ ForwardFails
  <2>1. /\ pc = "write" /\ pc' \in {"tunnel", "close"}
        /\ UNCHANGED <<consumed, replies>>
        /\ pc' = "close" => UNCHANGED c2up
    BY <1>5 DEF Forward, ForwardFails, Goto
  <2>2. consumed \in Requests /\ replies = <<>> /\ c2up = "none"
    BY <2>1 DEF HandshakeInv, ReadAt, AnsweredAt
  <2>3. (consumed \in ReadAt(pc) /\ replies = AnsweredAt(pc))' \/ pc' = "close"
    BY <2>1, <2>2 DEF ReadAt, AnsweredAt
  <2>4. QED
    BY <2>1, <2>2, <2>3 DEF HandshakeInv, HandshakePcs
<1>6. CASE UpClose
  <2>1. /\ c2up = "close" /\ up' = "closed"
        /\ UNCHANGED <<kind, pc, consumed, replies>>
    BY <1>6 DEF UpClose
  <2>2. consumed \in Requests /\ pc \in {"tunnel", "done"}
    BY <2>1 DEF HandshakeInv
  <2>3. pc \notin HandshakePcs \cup {"request", "engine", "dial"}
    BY <2>2 DEF HandshakePcs
  <2>4. AnsweredAt(pc)' = AnsweredAt(pc)
    BY <2>1 DEF AnsweredAt
  <2>5. QED
    BY <2>1, <2>2, <2>3, <2>4 DEF HandshakeInv
<1>7. CASE DownClose
  BY <1>7 DEF DownClose, Goto, HandshakeInv, HandshakePcs
<1>8. CASE ClientSend \/ ClientEnd \/ ClientRead \/ ClientStall
           \/ ServerSend \/ ServerRead \/ ServerEnd \/ ServerStall
           \/ EngineRead \/ Fill \/ UpRead \/ UpWrite \/ DownRead \/ DownWrite
           \/ BodyRead \/ BodyWrite
  <2>1. UNCHANGED <<kind, pc, consumed, replies, up>> /\ (c2up' = "none" <=> c2up = "none")
    BY <1>8 DEF ClientSend, ClientEnd, ClientRead, ClientStall, ServerSend,
                ServerRead, ServerEnd, ServerStall, EngineRead, Fill, UpRead,
                UpWrite, DownRead, DownWrite, BodyRead, BodyWrite
  <2>2. QED
    BY <2>1 DEF HandshakeInv, AnsweredAt
<1>9. QED
  BY <1>1, <1>2, <1>3, <1>4, <1>5, <1>6, <1>7, <1>8 DEF Next, Handler, Up, Down

LEMMA HandshakeCorrect == Spec => []HandshakeInv
<1>1. Init => HandshakeInv
  <2> SUFFICES ASSUME Init PROVE HandshakeInv
    OBVIOUS
  <2>1. consumed \in ReadAt(pc) /\ replies = AnsweredAt(pc)
    BY DEF Init, Kinds, ReadAt, AnsweredAt
  <2>2. QED
    BY <2>1 DEF Init, Kinds, HandshakeInv, HandshakePcs
<1>2. HandshakeInv /\ UNCHANGED vars => HandshakeInv'
  BY DEF HandshakeInv, AnsweredAt, vars, client, tunnel
<1>3. TypeOK /\ BuffersOK /\ HandshakeInv /\ [Next]_vars => HandshakeInv'
  BY <1>2, NextHandshake
<1>4. QED
  BY <1>1, <1>3, BuffersCorrect, PTL DEF Spec

\* The engine gets a connection, and an origin is dialled, only after a
\* complete handshake that was answered in full; a refused or broken one ends
\* in neither, at whatever byte it breaks.
THEOREM HandedOverAlways == Spec => []HandedOverAfterHandshake
<1>1. HandshakeInv => HandedOverAfterHandshake
  BY ReadAtIs DEF HandshakeInv, HandedOverAfterHandshake, AnsweredAt, Requests, Plain
<1>2. QED
  BY <1>1, HandshakeCorrect, PTL

-----------------------------------------------------------------------------
(* What the client sends *)

LEMMA UpTypes ==
    ASSUME TypeOK, BuffersOK
    PROVE  /\ consumed \in Seq(Tokens) /\ got \in Seq(Tokens) /\ outS \in Seq(Tokens)
           /\ held \in Seq(Tokens) /\ br \in Seq(Tokens) /\ wire \in Seq(Tokens)
           /\ LeadUp \in Seq(Tokens) /\ RestUp \in Seq(Tokens)
           /\ StreamUp \in Seq(Tokens) /\ SentUp \in Seq(Tokens)
           /\ <<>> \in Seq(Tokens)
<1>1. /\ consumed \in Seq(Tokens) /\ got \in Seq(Tokens) /\ outS \in Seq(Tokens)
      /\ held \in Seq(Tokens) /\ br \in Seq(Tokens) /\ wire \in Seq(Tokens)
      /\ <<>> \in Seq(Tokens)
  BY NoPieces DEF TypeOK, BuffersOK
<1>2. LeadUp \in Seq(Tokens) /\ RestUp \in Seq(Tokens)
  BY <1>1, CatType DEF LeadUp, RestUp
<1>3. StreamUp \in Seq(Tokens)
  BY <1>1, <1>2, CatType DEF StreamUp
<1>4. SentUp \in Seq(Tokens)
  BY ScriptType DEF SentUp, TypeOK
<1>5. QED
  BY <1>1, <1>2, <1>3, <1>4

\* A step that leaves the stream as it is, and one that cuts off its end.
LEMMA SameStream ==
    ASSUME StreamUpInv, SentUp' = SentUp, StreamUp' = StreamUp,
           cend' = "open" => cend = "open", Stopped => Stopped'
    PROVE  StreamUpInv'
  BY DEF StreamUpInv

LEMMA ShorterStream ==
    ASSUME StreamUpInv, SentUp' = SentUp,
           NEW rest \in Seq(Tokens), StreamUp' \in Seq(Tokens),
           StreamUp = Cat(StreamUp', rest),
           cend' # "open" \/ Stopped'
    PROVE  StreamUpInv'
<1>1. PICK lost \in Seq(Tokens) : SentUp = Cat(StreamUp, lost)
  BY DEF StreamUpInv
<1>2. Cat(rest, lost) \in Seq(Tokens) /\ SentUp' = Cat(StreamUp', Cat(rest, lost))
  BY <1>1, CatType, CatAssoc
<1>3. QED
  BY <1>2 DEF StreamUpInv

\* The client sends one more token.
LEMMA SendsOne ==
    ASSUME TypeOK, BuffersOK, ClientSend
    PROVE  \E x \in Tokens : Added(SentUp, x, SentUp') /\ Added(wire, x, wire')
<1>1. PICK x \in Tokens : x = script[sent + 1]
  BY ScriptType DEF ClientSend, TypeOK
<1>2. /\ sent' = sent + 1 /\ Added(wire, x, wire') /\ UNCHANGED script
  BY <1>1 DEF ClientSend, Added
<1>3. Added(SentUp, x, SentUp')
  <2>1. sent + 1 \in 1..Len(script) /\ 1 \in 1..Len(script) /\ script \in Seq(Tokens)
    BY ScriptType DEF ClientSend, TypeOK
  <2>2. SubSeq(script, 1, sent + 1)
             = SubSeq(script, 1, (sent + 1) - 1) \o <<script[sent + 1]>>
    BY <2>1, SubSeqRecursiveSecond
  <2>3. (sent + 1) - 1 = sent
    BY ScriptType
  <2>4. SubSeq(script, 1, sent + 1) = SubSeq(script, 1, sent) \o <<x>>
    BY <1>1, <2>2, <2>3
  <2>5. Append(SentUp, x) = SentUp \o <<x>>
    BY UpTypes, AppendIsConcat
  <2>6. QED
    BY <1>2, <2>4, <2>5 DEF SentUp, Added
<1>4. QED
  BY <1>2, <1>3

LEMMA SendUp ==
    ASSUME TypeOK, BuffersOK, StreamUpInv, ClientSend
    PROVE  StreamUpInv'
<1>1. PICK x \in Tokens : Added(SentUp, x, SentUp') /\ Added(wire, x, wire')
  BY SendsOne
<1>2. /\ cend = "open"
      /\ UNCHANGED <<script, cend, br, consumed, up, send, c2up, held, got, outS>>
  BY DEF ClientSend, origin, ends
<1>3. Stopped' = Stopped
  BY <1>2 DEF Stopped
<1>4. CASE Stopped
  <2>1. StreamUp' = StreamUp
    BY <1>2, <1>3, <1>4 DEF StreamUp, LeadUp, RestUp
  <2>2. PICK lost \in Seq(Tokens) : SentUp = Cat(StreamUp, lost)
    BY DEF StreamUpInv
  <2>3. PICK more \in Seq(Tokens) : Added(lost, x, more)
    <3>1. Append(lost, x) \in Seq(Tokens)
      OBVIOUS
    <3>2. QED
      BY <3>1 DEF Added
  <2>4. Added(SentUp, x, Cat(StreamUp, more))
    BY <2>2, <2>3, UpTypes, CatAdded
  <2>5. SentUp' = Cat(StreamUp, more)
    BY <1>1, <2>4 DEF Added
  <2>6. QED
    BY <1>3, <1>4, <2>1, <2>5 DEF StreamUpInv
<1>5. CASE ~Stopped
  <2>1. SentUp = StreamUp
    BY <1>2, <1>5 DEF StreamUpInv
  <2>2. RestUp = Cat(held, Cat(br, wire)) /\ RestUp' = Cat(held, Cat(br, wire'))
    BY <1>2, <1>3, <1>5 DEF RestUp
  <2>3. wire' \in Seq(Tokens) /\ Added(Cat(br, wire), x, Cat(br, wire'))
    BY <1>1, UpTypes, CatAdded
  <2>4. RestUp' \in Seq(Tokens) /\ Added(RestUp, x, RestUp')
    BY <2>2, <2>3, UpTypes, CatType, CatAdded
  <2>5. StreamUp' = Cat(LeadUp, Cat(got, Cat(outS, RestUp')))
    BY <1>2 DEF StreamUp, LeadUp
  <2>6. Added(Cat(outS, RestUp), x, Cat(outS, RestUp'))
    BY <2>4, UpTypes, CatAdded
  <2>7. Added(Cat(got, Cat(outS, RestUp)), x, Cat(got, Cat(outS, RestUp')))
    BY <2>6, UpTypes, CatType, CatAdded
  <2>8. Added(StreamUp, x, StreamUp')
    BY <2>5, <2>7, UpTypes, CatType, CatAdded DEF StreamUp
  <2>9. SentUp' = StreamUp' /\ StreamUp' \in Seq(Tokens)
    BY <1>1, <2>1, <2>4, <2>5, <2>8, UpTypes, CatType DEF Added
  <2>10. SentUp' = Cat(StreamUp', <<>>) /\ <<>> \in Seq(Tokens)
    BY <2>9, CatEmpty, NoPieces
  <2>11. QED
    BY <2>9, <2>10 DEF StreamUpInv
<1>6. QED
  BY <1>4, <1>5

\* The client ends, or is written to after it has gone: what it had sent may
\* be lost, from some piece on.
LEMMA EndUp ==
    ASSUME TypeOK, BuffersOK, StreamUpInv, cend' # "open", wire' \in Cut(wire),
           UNCHANGED <<script, sent, br, consumed, up, send, c2up, held, got, outS>>
    PROVE  StreamUpInv'
<1>1. SentUp' = SentUp /\ LeadUp' = LeadUp /\ Stopped' = Stopped
  BY DEF SentUp, LeadUp, Stopped
<1>2. wire' \in Seq(Tokens) /\ \E rest \in Seq(Tokens) : wire = Cat(wire', rest)
  BY UpTypes, CutIs
<1>3. PICK rest \in Seq(Tokens) : wire = Cat(wire', rest)
  BY <1>2
<1>4. CASE Stopped
  <2>1. StreamUp' = StreamUp
    BY <1>1, <1>4 DEF StreamUp, RestUp
  <2>2. QED
    BY <1>1, <2>1, SameStream
<1>5. CASE ~Stopped
  <2>1. RestUp = Cat(held, Cat(br, wire)) /\ RestUp' = Cat(held, Cat(br, wire'))
    BY <1>1, <1>5 DEF RestUp
  <2>2. RestUp' \in Seq(Tokens) /\ RestUp = Cat(RestUp', rest)
    BY <1>2, <1>3, <2>1, UpTypes, CatType, CatAssoc
  <2>3. StreamUp' = Cat(LeadUp, Cat(got, Cat(outS, RestUp')))
    BY <1>1 DEF StreamUp
  <2>4. StreamUp' \in Seq(Tokens) /\ StreamUp = Cat(StreamUp', rest)
    BY <2>2, <2>3, UpTypes, CatType, CatAssoc DEF StreamUp
  <2>5. QED
    BY <1>1, <2>4, ShorterStream
<1>6. QED
  BY <1>4, <1>5

\* Nothing more is written to the origin: what has not been written is not
\* delivered, and of the rest a reset may leave only the beginning.
LEMMA StopUp ==
    ASSUME TypeOK, BuffersOK, StreamUpInv, Stopped', outS' \in Cut(outS),
           LeadUp' = LeadUp, UNCHANGED <<script, sent, got>>
    PROVE  StreamUpInv'
<1>1. RestUp' = <<>> /\ SentUp' = SentUp
  BY DEF RestUp, SentUp
<1>2. outS' \in Seq(Tokens) /\ \E rest \in Seq(Tokens) : outS = Cat(outS', rest)
  BY UpTypes, CutIs
<1>3. PICK rest \in Seq(Tokens) : outS = Cat(outS', rest)
  BY <1>2
<1>4. StreamUp' = Cat(LeadUp, Cat(got, outS'))
  BY <1>1, <1>2, CatEmpty DEF StreamUp
<1>5. PICK more \in Seq(Tokens) : more = Cat(rest, RestUp)
  BY UpTypes, CatType
<1>6. Cat(outS, RestUp) = Cat(outS', more)
  BY <1>2, <1>3, <1>5, UpTypes, CatAssoc
<1>7. StreamUp = Cat(LeadUp, Cat(got, Cat(outS', more)))
  BY <1>6 DEF StreamUp
<1>8. StreamUp' \in Seq(Tokens) /\ StreamUp = Cat(StreamUp', more)
  BY <1>2, <1>4, <1>7, UpTypes, CatType, CatAssoc
<1>9. QED
  BY <1>1, <1>8, ShorterStream

\* A token that is read during the handshake is the next one the client sent.
LEMMA HandshakeUp ==
    ASSUME TypeOK, BuffersOK, HandshakeInv, TunnelInv, StreamUpInv, Handshake
    PROVE  /\ StreamUpInv' /\ up = "none" /\ got = <<>>
           /\ Moved(consumed, br, consumed', br')
           /\ StreamUp = Cat(consumed, Cat(br, wire))
<1>1. /\ pc \in HandshakePcs /\ Moved(consumed, br, consumed', br')
      /\ UNCHANGED <<script, sent, cend, wire, up, send, c2up, held, got, outS>>
  BY HandshakeStep DEF Moved, client, origin, tunnel, ends
<1>2. /\ up = "none" /\ outS = <<>> /\ held = <<>> /\ got = <<>>
      /\ ~Stopped /\ ~Stopped'
  BY <1>1 DEF HandshakeInv, TunnelInv, Stopped, Closing
<1>3. consumed' \in Seq(Tokens) /\ br' \in Seq(Tokens)
  BY <1>1, UpTypes, CatMoved
<1>4. StreamUp = Cat(consumed, Cat(br, wire))
  BY <1>2, UpTypes, CatType, CatEmpty DEF StreamUp, LeadUp, RestUp
<1>5. StreamUp' = Cat(consumed', Cat(br', wire))
  BY <1>1, <1>2, <1>3, UpTypes, CatType, CatEmpty DEF StreamUp, LeadUp, RestUp
<1>6. StreamUp' = StreamUp
  BY <1>1, <1>4, <1>5, UpTypes, CatMoved
<1>7. SentUp' = SentUp
  BY <1>1 DEF SentUp
<1>8. QED
  BY <1>1, <1>2, <1>4, <1>6, <1>7, SameStream

\* The engine reads what the handshake left in the buffer, and what follows.
LEMMA EngineUp ==
    ASSUME TypeOK, BuffersOK, HandshakeInv, TunnelInv, StreamUpInv, EngineRead
    PROVE  /\ StreamUpInv'
           /\ Moved(got, br, got', br') /\ UNCHANGED <<script, sent, consumed>>
           /\ StreamUp = Cat(consumed, Cat(got, Cat(br, wire)))
<1>1. /\ pc = "engine" /\ Moved(got, br, got', br')
      /\ UNCHANGED <<script, sent, cend, wire, consumed, up, send, c2up, held, outS>>
  BY DEF EngineRead, Moved, client, origin, tunnel
<1>2. up = "none" /\ outS = <<>> /\ held = <<>> /\ ~Stopped /\ ~Stopped'
  BY <1>1 DEF HandshakeInv, TunnelInv, Stopped, Closing
<1>3. got' \in Seq(Tokens) /\ br' \in Seq(Tokens)
  BY <1>1, UpTypes, CatMoved
<1>4. StreamUp = Cat(consumed, Cat(got, Cat(br, wire)))
  BY <1>2, UpTypes, CatType, CatEmpty DEF StreamUp, LeadUp, RestUp
<1>5. StreamUp' = Cat(consumed, Cat(got', Cat(br', wire)))
  BY <1>1, <1>2, <1>3, UpTypes, CatType, CatEmpty DEF StreamUp, LeadUp, RestUp
<1>6. StreamUp' = StreamUp
  BY <1>1, <1>4, <1>5, UpTypes, CatMoved
<1>7. SentUp' = SentUp
  BY <1>1 DEF SentUp
<1>8. QED
  BY <1>1, <1>2, <1>4, <1>6, <1>7, SameStream

\* The origin reads from its connection.
LEMMA ServerUp ==
    ASSUME TypeOK, BuffersOK, HandshakeInv, TunnelInv, StreamUpInv, ServerRead
    PROVE  /\ StreamUpInv' /\ up # "none"
           /\ Moved(got, outS, got', outS') /\ UNCHANGED <<script, sent, consumed>>
           /\ StreamUp = Cat(got, Cat(outS, RestUp))
<1>1. /\ Moved(got, outS, got', outS')
      /\ UNCHANGED <<script, sent, cend, wire, br, consumed, up, send, c2up, held>>
  BY DEF ServerRead, Moved, client, origin
<1>2. up # "none" /\ Stopped' = Stopped
  BY <1>1 DEF Moved, TunnelInv, Stopped
<1>3. StreamUp = Cat(got, Cat(outS, RestUp))
  BY <1>2, UpTypes, CatType, CatEmpty DEF StreamUp, LeadUp
<1>4. StreamUp' = StreamUp
  <2>1. LeadUp' = LeadUp /\ RestUp' = RestUp
    BY <1>1, <1>2 DEF LeadUp, RestUp
  <2>2. QED
    BY <1>1, <2>1, UpTypes, CatMoved DEF StreamUp
<1>5. SentUp' = SentUp
  BY <1>1 DEF SentUp
<1>6. QED
  BY <1>1, <1>2, <1>3, <1>4, <1>5, SameStream

\* The origin is dialled, and the request is to be written to it.
LEMMA DialUp ==
    ASSUME TypeOK, BuffersOK, HandshakeInv, TunnelInv, StreamUpInv, Dial,
           pc' = "write"
    PROVE  StreamUpInv'
<1>1. /\ pc = "dial" /\ up' = "open" /\ held' = consumed
      /\ UNCHANGED <<script, sent, cend, wire, br, consumed, send, c2up, got, outS>>
  BY DEF Dial, Goto, client, origin, ends
<1>2. /\ up = "none" /\ outS = <<>> /\ held = <<>> /\ got = <<>>
      /\ ~Stopped /\ ~Stopped'
  BY <1>1 DEF HandshakeInv, TunnelInv, Stopped, Closing
<1>3. SentUp' = SentUp
  BY <1>1 DEF SentUp
<1>4. StreamUp = Cat(consumed, Cat(br, wire))
  BY <1>2, UpTypes, CatType, CatEmpty DEF StreamUp, LeadUp, RestUp
<1>5. StreamUp' = Cat(consumed, Cat(br, wire))
  BY <1>1, <1>2, UpTypes, CatType, CatEmpty DEF StreamUp, LeadUp, RestUp
<1>6. QED
  BY <1>1, <1>2, <1>3, <1>4, <1>5, SameStream

\* A piece of what follows is read, and a piece is written to an origin that
\* has not gone.
LEMMA ReadUp ==
    ASSUME TypeOK, BuffersOK, StreamUpInv, Moved(held, br, held', br'),
           UNCHANGED <<script, sent, cend, wire, consumed, up, got, outS>>,
           Stopped' = Stopped
    PROVE  StreamUpInv'
<1>1. Cat(held', Cat(br', wire)) = Cat(held, Cat(br, wire))
  BY UpTypes, CatMoved
<1>2. RestUp' = RestUp
  BY <1>1 DEF RestUp
<1>3. SentUp' = SentUp /\ StreamUp' = StreamUp
  BY <1>2 DEF SentUp, StreamUp, LeadUp
<1>4. QED
  BY <1>3, SameStream

LEMMA WriteUp ==
    ASSUME TypeOK, BuffersOK, StreamUpInv, ~Stopped, ~Stopped',
           outS' \in Seq(Tokens), held' \in Seq(Tokens),
           \A c \in Seq(Tokens) : Cat(outS', Cat(held', c)) = Cat(outS, Cat(held, c)),
           UNCHANGED <<script, sent, cend, wire, br, consumed, up, got>>
    PROVE  StreamUpInv'
<1>1. RestUp = Cat(held, Cat(br, wire)) /\ RestUp' = Cat(held', Cat(br, wire))
  BY DEF RestUp
<1>2. Cat(outS', RestUp') = Cat(outS, RestUp)
  BY <1>1, UpTypes, CatType
<1>3. SentUp' = SentUp /\ StreamUp' = StreamUp
  BY <1>2 DEF SentUp, StreamUp, LeadUp
<1>4. QED
  BY <1>3, SameStream

\* Every step keeps the client's stream.
LEMMA NextStreamUp ==
    ASSUME TypeOK, BuffersOK, HandshakeInv, TunnelInv, StreamUpInv, Next
    PROVE  StreamUpInv'
<1>a. outS \in Cut(outS) /\ wire \in Cut(wire) /\ outS \in Seq(Tokens)
  BY UpTypes, CutWhole
<1>1. CASE Fill
  <2>1. /\ br = <<>> /\ br' = wire /\ wire' = <<>>
        /\ UNCHANGED <<script, sent, cend, consumed, up, send, c2up, held, got, outS>>
    BY <1>1 DEF Fill, client, origin, tunnel, ends
  <2>2. Cat(br', wire') = Cat(br, wire) /\ Stopped' = Stopped
    BY <2>1, UpTypes, CatEmpty DEF Stopped
  <2>3. SentUp' = SentUp /\ StreamUp' = StreamUp
    BY <2>1, <2>2 DEF SentUp, StreamUp, LeadUp, RestUp
  <2>4. QED
    BY <2>1, <2>2, <2>3, SameStream
<1>2. CASE Forward
  <2>1. /\ c2up' = "read" /\ pc = "write"
        /\ UNCHANGED <<script, sent, cend, wire, br, consumed, up, send, held, got, outS>>
    BY <1>2 DEF Forward, client, origin, ends
  <2>2. Stopped' = Stopped
    BY <2>1 DEF Stopped, Closing, BuffersOK
  <2>3. SentUp' = SentUp /\ StreamUp' = StreamUp
    BY <2>1, <2>2 DEF SentUp, StreamUp, LeadUp, RestUp
  <2>4. QED
    BY <2>1, <2>2, <2>3, SameStream
<1>3. CASE UpRead
  <2>1. /\ c2up = "read" /\ UNCHANGED <<script, sent, cend, wire, consumed, up, send, got, outS>>
    BY <1>3 DEF UpRead, client, origin, ends
  <2>2. CASE c2up' = "close"
    <3>1. Stopped' /\ LeadUp' = LeadUp /\ outS' \in Cut(outS)
      BY <1>a, <2>1, <2>2 DEF Stopped, Closing, LeadUp
    <3> QED BY <2>1, <3>1, StopUp
  <2>3. CASE c2up' # "close"
    <3>1. /\ c2up' = "write" /\ held = <<>> /\ br # <<>>
          /\ held' = <<Head(br)>> /\ br' = Tail(br)
      BY <1>3, <2>1, <2>3 DEF UpRead, TunnelInv, BuffersOK
    <3>2. Moved(held, br, held', br') /\ Stopped' = Stopped
      BY <2>1, <3>1 DEF Moved, Stopped, Closing
    <3>3. QED
      BY <2>1, <3>2, ReadUp
  <2>4. QED
    BY <2>2, <2>3
<1>4. CASE UpWrite
  <2>1. /\ c2up = "write" /\ c2up' \in {"read", "close"} /\ held' = <<>>
        /\ UNCHANGED <<script, sent, cend, wire, br, consumed, up, send, got>>
    BY <1>4 DEF UpWrite, client, ends
  <2>2. CASE send = "gone"
    <3>1. Stopped' /\ LeadUp' = LeadUp /\ outS' \in Cut(outS)
      BY <1>4, <1>a, <2>1, <2>2 DEF UpWrite, Stopped, LeadUp
    <3> QED BY <2>1, <3>1, StopUp
  <2>3. CASE send # "gone"
    <3>1. c2up' = "read" /\ outS' = Cat(outS, held)
      BY <1>4, <2>3 DEF UpWrite, Cat
    <3>2. ~Stopped /\ ~Stopped'
      BY <2>1, <2>3, <3>1 DEF Stopped, Closing, TunnelInv
    <3>3. outS' \in Seq(Tokens) /\ held' \in Seq(Tokens)
      BY <2>1, <3>1, UpTypes, CatType
    <3>4. ASSUME NEW c \in Seq(Tokens)
          PROVE  Cat(outS', Cat(held', c)) = Cat(outS, Cat(held, c))
      BY <2>1, <3>1, <3>3, UpTypes, CatEmpty, CatAssoc
    <3>5. QED
      BY <2>1, <3>2, <3>3, <3>4, WriteUp
  <2>4. QED
    BY <2>2, <2>3
<1>5. CASE UpClose \/ ForwardFails
  <2>1. /\ up' = "closed" /\ outS' \in Left(outS, inS)
        /\ UNCHANGED <<script, sent, got>>
    BY <1>5 DEF UpClose, ForwardFails, client, ends
  <2>2. up # "none"
    BY <1>5 DEF UpClose, ForwardFails, TunnelInv
  <2>3. Stopped' /\ LeadUp' = LeadUp
    BY <2>1, <2>2 DEF Stopped, LeadUp
  <2>4. outS' \in Cut(outS)
    BY <1>a, <2>1, LeftCut
  <2>5. QED
    BY <2>1, <2>3, <2>4, StopUp
<1>6. CASE ServerSend \/ ServerEnd
  <2>1. /\ UNCHANGED <<script, sent, cend, wire, br, consumed, up, c2up, held, got>>
        /\ (up = "closed" \/ outS' = outS)
        /\ outS' \in Cut(outS) /\ (send = "gone" => send' = "gone")
    BY <1>6, <1>a DEF ServerSend, ServerEnd, client, ends
  <2>2. LeadUp' = LeadUp /\ SentUp' = SentUp
    BY <2>1 DEF LeadUp, SentUp
  <2>3. CASE Stopped'
    BY <2>1, <2>2, <2>3, StopUp
  <2>4. CASE ~Stopped'
    <3>1. ~Stopped /\ outS' = outS
      BY <2>1, <2>4 DEF Stopped
    <3>2. StreamUp' = StreamUp
      BY <2>1, <2>2, <2>4, <3>1 DEF StreamUp, RestUp
    <3>3. QED
      BY <2>1, <2>2, <3>1, <3>2, SameStream
  <2>5. QED
    BY <2>3, <2>4
<1>7. CASE ClientEnd \/ DownWrite
  <2>1. CASE cend' # "open"
    <3>1. wire' \in Cut(wire)
      BY <1>7, <1>a DEF ClientEnd, DownWrite
    <3>2. UNCHANGED <<script, sent, br, consumed, up, send, c2up, held, got, outS>>
      BY <1>7 DEF ClientEnd, DownWrite, origin, tunnel, ends
    <3> QED BY <2>1, <3>1, <3>2, EndUp
  <2>2. CASE cend' = "open"
    <3>1. UNCHANGED <<script, sent, cend, wire, br, consumed, up, send, c2up, held, got, outS>>
      BY <1>7, <2>2 DEF ClientEnd, DownWrite, origin, ends
    <3>2. SentUp' = SentUp /\ StreamUp' = StreamUp /\ Stopped' = Stopped
      BY <3>1 DEF SentUp, StreamUp, LeadUp, RestUp, Stopped
    <3> QED BY <3>1, <3>2, SameStream
  <2> QED BY <2>1, <2>2
<1>8. CASE (Dial /\ pc' # "write")
           \/ ClientRead \/ ClientStall \/ ServerStall \/ EngineReturn
           \/ HandshakeFails \/ CloseClient \/ DownRead \/ DownClose
  <2>1. UNCHANGED <<script, sent, cend, wire, br, consumed, up, send, c2up, held, got, outS>>
    <3>1. CASE ClientRead \/ ClientStall \/ ServerStall \/ DownRead \/ DownClose
      BY <3>1 DEF ClientRead, ClientStall, ServerStall, DownRead, DownClose,
                  client, origin, tunnel, ends
    <3>2. CASE EngineReturn \/ HandshakeFails \/ CloseClient
      BY <3>2 DEF EngineReturn, HandshakeFails, CloseClient, client, origin, tunnel, ends
    <3>3. CASE Dial /\ pc' # "write"
      BY <3>3 DEF Dial, Goto, client, origin, ends
    <3>4. QED
      BY <1>8, <3>1, <3>2, <3>3
  <2>2. SentUp' = SentUp /\ StreamUp' = StreamUp /\ Stopped' = Stopped
    BY <2>1 DEF SentUp, StreamUp, LeadUp, RestUp, Stopped
  <2>3. QED
    BY <2>1, <2>2, SameStream
<1>9. CASE BodyRead
  <2>1. /\ Moved(held, br, held', br')
        /\ UNCHANGED <<script, sent, cend, wire, consumed, up, send, c2up, got, outS>>
    BY <1>9 DEF BodyRead, Moved, client, origin, ends
  <2>2. Stopped' = Stopped
    BY <2>1 DEF Stopped
  <2> QED BY <2>1, <2>2, ReadUp
<1>10. CASE BodyWrite
  <2>1. /\ pc = "write" /\ held # <<>> /\ held' = Tail(held)
        /\ UNCHANGED <<script, sent, cend, wire, br, consumed, up, send, c2up, got>>
    BY <1>10 DEF BodyWrite, client, ends
  <2>2. CASE send = "gone"
    <3>1. Stopped' /\ LeadUp' = LeadUp /\ outS' \in Cut(outS)
      BY <1>10, <1>a, <2>1, <2>2 DEF BodyWrite, Stopped, LeadUp
    <3> QED BY <2>1, <3>1, StopUp
  <2>3. CASE send # "gone"
    <3>1. Moved(outS, held, outS', held')
      BY <1>10, <2>1, <2>3 DEF BodyWrite, Moved
    <3>2. ~Stopped /\ ~Stopped'
      BY <2>1, <2>3 DEF Stopped, Closing, TunnelInv, BuffersOK
    <3>3. /\ outS' \in Seq(Tokens) /\ held' \in Seq(Tokens)
          /\ \A c \in Seq(Tokens) : Cat(outS', Cat(held', c)) = Cat(outS, Cat(held, c))
      BY <3>1, UpTypes, CatMoved
    <3>5. QED
      BY <2>1, <3>2, <3>3, WriteUp
  <2>4. QED
    BY <2>2, <2>3
<1>11. QED
  BY <1>1, <1>2, <1>3, <1>4, <1>5, <1>6, <1>7, <1>8, <1>9, <1>10, SendUp, DialUp,
     HandshakeUp, EngineUp, ServerUp DEF Next, Handler, Up, Down

\* The next piece in a buffer is the next one that the other end gets.
LEMMA NextUp ==
    ASSUME TypeOK, BuffersOK, StreamUpInv,
           NEW a \in Seq(Tokens), NEW b \in Seq(Tokens), NEW c \in Seq(Tokens),
           StreamUp = Cat(a, Cat(b, c)), b # <<>>
    PROVE  Len(a) < Len(SentUp) /\ SentUp[Len(a) + 1] = Head(b)
<1>1. PICK lost \in Seq(Tokens) : SentUp = Cat(StreamUp, lost)
  BY DEF StreamUpInv
<1>2. Cat(c, lost) \in Seq(Tokens) /\ SentUp = Cat(a, Cat(b, Cat(c, lost)))
  BY <1>1, CatType, CatAssoc
<1>3. QED
  BY <1>2, CatNext

\* The first token that is read is the first that was sent.
LEMMA FirstRead ==
    ASSUME TypeOK, BuffersOK, HandshakeInv, TunnelInv, StreamUpInv, Handshake
    PROVE  script # <<>> /\ Head(consumed') = Head(script)
<1>1. /\ Moved(consumed, br, consumed', br')
      /\ StreamUp = Cat(consumed, Cat(br, wire))
  BY HandshakeUp
<1>2. CASE consumed # <<>>
  <2>1. Head(Append(consumed, Head(br))) = Head(consumed)
    <3>1. Head(br) \in Tokens /\ Len(consumed) >= 1 /\ consumed \in Seq(Tokens)
      BY <1>1, <1>2, UpTypes DEF Moved
    <3>2. QED
      BY <3>1
  <2>2. QED
    BY <1>1, <1>2, <2>1 DEF Moved, TunnelInv
<1>3. CASE consumed = <<>>
  <2>1. Head(consumed') = Head(br) /\ br # <<>>
    BY <1>1, <1>3, UpTypes DEF Moved
  <2>2. Len(consumed) < Len(SentUp) /\ SentUp[Len(consumed) + 1] = Head(br)
    BY <1>1, <2>1, UpTypes, NextUp
  <2>3. Len(consumed) = 0
    BY <1>3
  <2>4. 0 < Len(SentUp) /\ SentUp[1] = Head(br)
    BY <2>2, <2>3
  <2>5. script # <<>> /\ SentUp[1] = Head(script)
    BY <2>4, ScriptType DEF SentUp, TypeOK
  <2>6. QED
    BY <2>1, <2>4, <2>5
<1>4. QED
  BY <1>2, <1>3

LEMMA NextTunnel ==
    ASSUME TypeOK, BuffersOK, HandshakeInv, TunnelInv, StreamUpInv, Next
    PROVE  TunnelInv'
<1>1. CASE Handshake
  <2>1. /\ pc \in HandshakePcs /\ up = "none" /\ got = <<>>
        /\ pc' # "write"
        /\ UNCHANGED <<script, up, send, c2up, held, got, outS>>
    <3>1. pc' # "write"
      BY <1>1, HandshakeStep, TransitionsTo DEF HandshakePcs
    <3> QED BY <1>1, <3>1, HandshakeStep, HandshakeUp DEF client, origin, tunnel, ends
  <2>2. script # <<>> /\ Head(consumed') = Head(script)
    BY <1>1, FirstRead
  <2>3. QED
    BY <2>1, <2>2 DEF TunnelInv
<1>2. CASE Forward
  <2>1. /\ pc = "write" /\ pc' = "tunnel" /\ c2up' = "read" /\ held = <<>>
        /\ UNCHANGED <<script, consumed, up, held, got>>
    BY <1>2 DEF Forward, Goto, client, ends
  <2>3. QED
    BY <2>1 DEF TunnelInv, HandshakePcs
<1>3. CASE UpRead \/ UpWrite
  <2>1. /\ c2up \in {"read", "write"} /\ c2up' \in {"read", "write", "close"}
        /\ pc \in {"tunnel", "done"} /\ up = "open"
        /\ UNCHANGED <<script, pc, consumed, got, up, send>>
        /\ c2up' # "write" => held' = <<>>
    <3>1. CASE UpRead
      BY <3>1 DEF UpRead, TunnelInv, BuffersOK, client, origin, ends
    <3>2. CASE UpWrite
      BY <3>2 DEF UpWrite, TunnelInv, BuffersOK, client, ends
    <3>4. QED
      BY <1>3, <3>1, <3>2
  <2>2. QED
    BY <2>1 DEF TunnelInv, HandshakePcs
<1>4. CASE UpClose \/ ForwardFails
  <2>1. /\ up' = "closed" /\ c2up' \notin {"read", "write", "close"}
        /\ pc' \in {"tunnel", "done", "close"} /\ held' = <<>>
        /\ UNCHANGED <<script, consumed, got>>
    <3>1. CASE UpClose
      BY <3>1 DEF UpClose, TunnelInv, BuffersOK, client, ends
    <3>2. CASE ForwardFails
      BY <3>2 DEF ForwardFails, Goto, BuffersOK, client, ends
    <3> QED BY <1>4, <3>1, <3>2
  <2>2. QED
    BY <2>1 DEF TunnelInv, HandshakePcs
<1>5. CASE ServerRead
  <2>1. up # "none" /\ UNCHANGED <<script, pc, consumed, up, send, c2up, held>>
    BY <1>5, ServerUp DEF ServerRead, client, origin
  <2>2. pc \notin HandshakePcs \cup {"dial"}
    BY <2>1 DEF HandshakeInv
  <2>3. QED
    BY <2>1, <2>2 DEF TunnelInv
<1>6. CASE EngineRead
  <2>1. pc = "engine" /\ UNCHANGED <<script, pc, consumed, up, send, c2up, held, outS>>
    BY <1>6 DEF EngineRead, client, origin, tunnel
  <2>2. QED
    BY <2>1 DEF TunnelInv, HandshakePcs
<1>7. CASE Dial
  <2>1. /\ pc = "dial" /\ UNCHANGED <<script, consumed, send, c2up, got, outS>>
        /\ \/ pc' = "write" /\ up' = "open"
           \/ pc' = "close" /\ UNCHANGED <<up, held>>
    BY <1>7 DEF Dial, Goto, client, origin, ends
  <2>2. QED
    BY <2>1 DEF TunnelInv, BuffersOK, HandshakePcs
<1>8. CASE EngineReturn \/ HandshakeFails \/ CloseClient \/ DownClose
  <2>1. /\ pc' \in {"close", "done"} /\ pc # "write"
        /\ UNCHANGED <<script, consumed, up, send, c2up, held, got, outS>>
    <3>1. CASE EngineReturn \/ HandshakeFails \/ CloseClient
      BY <3>1 DEF EngineReturn, HandshakeFails, CloseClient, Goto, HandshakePcs,
                  client, origin, tunnel, ends
    <3>2. CASE DownClose
      BY <3>2 DEF DownClose, Goto, TypeOK, client, origin, ends
    <3> QED BY <1>8, <3>1, <3>2
  <2>2. QED
    BY <2>1 DEF TunnelInv, HandshakePcs
<1>9. CASE ClientSend \/ ClientEnd \/ ClientRead \/ ClientStall \/ ServerStall
           \/ Fill \/ DownRead \/ DownWrite
  <2>1. UNCHANGED <<script, pc, consumed, up, send, c2up, held, got, outS>>
    <3>1. CASE ClientSend \/ ClientEnd \/ ClientRead \/ ClientStall
      BY <3>1 DEF ClientSend, ClientEnd, ClientRead, ClientStall,
                  client, origin, tunnel, ends
    <3>2. CASE ServerStall \/ Fill \/ DownRead \/ DownWrite
      BY <3>2 DEF ServerStall, Fill, DownRead, DownWrite, client, origin, tunnel, ends
    <3>3. QED
      BY <1>9, <3>1, <3>2
  <2>2. QED
    BY <2>1 DEF TunnelInv
<1>10. CASE ServerSend \/ ServerEnd
  <2>1. up # "none" /\ UNCHANGED <<script, pc, consumed, up, c2up, held, got>>
    BY <1>10 DEF ServerSend, ServerEnd, client, ends
  <2> QED BY <2>1 DEF TunnelInv
<1>11. CASE BodyRead \/ BodyWrite
  <2>1. pc = "write" /\ UNCHANGED <<script, pc, consumed, up, send, c2up, got>>
    BY <1>11 DEF BodyRead, BodyWrite, client, origin, ends
  <2>2. up = "open"
    BY <2>1 DEF TunnelInv
  <2> QED BY <2>1, <2>2 DEF TunnelInv
<1>12. QED
  BY <1>1, <1>2, <1>3, <1>4, <1>5, <1>6, <1>7, <1>8, <1>9, <1>10, <1>11
     DEF Next, Handler, Up, Down

LEMMA UpCorrect == Spec => [](TunnelInv /\ StreamUpInv)
<1>1. Init => TunnelInv /\ StreamUpInv
  <2> SUFFICES ASSUME Init PROVE TunnelInv /\ StreamUpInv
    OBVIOUS
  <2>1. TypeOK /\ BuffersOK
    BY InitType
  <2>2. SentUp = <<>> /\ <<>> \in Seq(Tokens)
    BY <2>1, ScriptType, NoPieces DEF SentUp, Init
  <2>3. StreamUp = <<>>
    BY <2>2, CatType, CatEmpty DEF StreamUp, LeadUp, RestUp, Init
  <2>4. SentUp = Cat(StreamUp, <<>>)
    BY <2>2, <2>3, CatEmpty
  <2>5. pc \in HandshakePcs
    BY DEF Init, HandshakePcs, Kinds
  <2>6. TunnelInv
    BY <2>5 DEF TunnelInv, HandshakePcs, Init
  <2>7. QED
    BY <2>2, <2>3, <2>4, <2>6 DEF StreamUpInv
<1>2. TunnelInv /\ StreamUpInv /\ UNCHANGED vars => (TunnelInv /\ StreamUpInv)'
  BY DEF TunnelInv, StreamUpInv, SentUp, StreamUp, LeadUp, RestUp, Stopped, vars,
         client, origin, tunnel, ends
<1>3. TypeOK /\ BuffersOK /\ HandshakeInv /\ TunnelInv /\ StreamUpInv /\ [Next]_vars
         => (TunnelInv /\ StreamUpInv)'
  BY <1>2, NextTunnel, NextStreamUp
<1>4. QED
  BY <1>1, <1>3, BuffersCorrect, HandshakeCorrect, PTL DEF Spec

\* What the engine or the origin has received, as the interface of Pipe.
OutUp == IF Head(script) \in Plain THEN got ELSE consumed \o got

LEMMA CompleteBegins ==
    ASSUME NEW h \in Complete
    PROVE  h # <<>> /\ Head(h) \notin Plain
  BY DEF Complete, Socks, Plain

LEMMA UpStep ==
    ASSUME TypeOK, BuffersOK, HandshakeInv, TunnelInv, StreamUpInv, [Next]_vars
    PROVE  [Upward!Put \/ Upward!Get]_<<SentUp, OutUp>>
<1>1. CASE ClientSend
  <2>1. PICK x \in Tokens : SentUp' = Append(SentUp, x)
    BY <1>1, SendsOne DEF Added
  <2>2. OutUp' = OutUp
    BY <1>1 DEF ClientSend, OutUp, client, ends
  <2>3. QED
    BY <2>1, <2>2 DEF Upward!Put, SentUp, OutUp
<1>2. CASE Handshake
  <2>1. /\ got = <<>> /\ Moved(consumed, br, consumed', br')
        /\ StreamUp = Cat(consumed, Cat(br, wire))
    BY <1>2, HandshakeUp
  <2>2. UNCHANGED <<script, sent, got>>
    BY <1>2, HandshakeStep DEF client, ends
  <2>3. CASE Head(script) \in Plain
    BY <2>2, <2>3 DEF SentUp, OutUp
  <2>4. CASE Head(script) \notin Plain
    <3>1. consumed' \in Seq(Tokens)
      BY <2>1, UpTypes, CatMoved
    <3>2. OutUp = consumed /\ OutUp' = consumed'
      BY <2>1, <2>2, <2>4, <3>1, UpTypes, ConcatEmptySeq DEF OutUp
    <3>3. Len(consumed) < Len(SentUp) /\ SentUp[Len(consumed) + 1] = Head(br)
      BY <2>1, UpTypes, NextUp DEF Moved
    <3>4. SentUp' = SentUp
      BY <2>2 DEF SentUp
    <3>5. OutUp' = Append(OutUp, SentUp[Len(OutUp) + 1])
      BY <2>1, <3>2, <3>3 DEF Moved
    <3>6. QED
      BY <3>2, <3>3, <3>4, <3>5 DEF Upward!Get, SentUp, OutUp
  <2>5. QED
    BY <2>3, <2>4
<1>3. CASE EngineRead
  <2>1. /\ Moved(got, br, got', br') /\ UNCHANGED <<script, sent, consumed>>
        /\ StreamUp = Cat(consumed, Cat(got, Cat(br, wire)))
    BY <1>3, EngineUp
  <2>2. Head(script) \notin Plain
    <3>1. consumed \in Complete
      BY <1>3, ReadAtIs DEF EngineRead, HandshakeInv
    <3>2. consumed # <<>> /\ Head(consumed) \notin Plain
      BY <3>1, CompleteBegins
    <3>3. QED
      BY <3>2 DEF TunnelInv
  <2>3. PICK a \in Seq(Tokens) : a = Cat(consumed, got)
    BY UpTypes, CatType
  <2>4. OutUp = a
    BY <2>2, <2>3 DEF OutUp, Cat
  <2>5. StreamUp = Cat(a, Cat(br, wire))
    BY <2>1, <2>3, UpTypes, CatType, CatAssoc
  <2>6. Len(a) < Len(SentUp) /\ SentUp[Len(a) + 1] = Head(br)
    BY <2>1, <2>5, UpTypes, NextUp DEF Moved
  <2>7. OutUp' = Append(a, Head(br))
    <3>1. Added(got, Head(br), got') /\ Head(br) \in Tokens
      BY <2>1, UpTypes DEF Moved, Added
    <3>2. Added(a, Head(br), Cat(consumed, got'))
      BY <2>3, <3>1, UpTypes, CatAdded
    <3>3. OutUp' = Cat(consumed, got')
      BY <2>1, <2>2 DEF OutUp, Cat
    <3>4. QED
      BY <3>2, <3>3 DEF Added
  <2>8. SentUp' = SentUp
    BY <2>1 DEF SentUp
  <2>9. QED
    BY <2>4, <2>6, <2>7, <2>8 DEF Upward!Get, SentUp, OutUp
<1>4. CASE ServerRead
  <2>1. /\ Moved(got, outS, got', outS') /\ UNCHANGED <<script, sent, consumed>>
        /\ up # "none" /\ StreamUp = Cat(got, Cat(outS, RestUp))
    BY <1>4, ServerUp
  <2>2. Head(script) \in Plain
    <3>1. consumed \in Requests
      BY <2>1 DEF HandshakeInv
    <3>2. consumed # <<>> /\ Head(consumed) \in Plain
      BY <3>1 DEF Requests, Plain
    <3>3. QED
      BY <3>2 DEF TunnelInv
  <2>3. OutUp = got /\ OutUp' = got' /\ SentUp' = SentUp
    BY <2>1, <2>2 DEF OutUp, SentUp
  <2>4. Len(got) < Len(SentUp) /\ SentUp[Len(got) + 1] = Head(outS)
    BY <2>1, UpTypes, NextUp DEF Moved
  <2>5. OutUp' = Append(OutUp, SentUp[Len(OutUp) + 1])
    BY <2>1, <2>3, <2>4 DEF Moved
  <2>6. QED
    BY <2>3, <2>4, <2>5 DEF Upward!Get, SentUp, OutUp
<1>5. CASE UNCHANGED <<script, sent, consumed, got>>
  BY <1>5 DEF SentUp, OutUp
<1>6. ASSUME [Next]_vars, ~ClientSend, ~Handshake, ~EngineRead, ~ServerRead
      PROVE  UNCHANGED <<script, sent, consumed, got>>
  <2>1. CASE UNCHANGED vars \/ ClientEnd \/ ClientRead \/ ClientStall \/ ServerSend
    BY <2>1 DEF vars, ClientEnd, ClientRead, ClientStall, ServerSend, client, ends
  <2>2. CASE ServerEnd \/ ServerStall \/ EngineReturn \/ Fill
    BY <2>2 DEF ServerEnd, ServerStall, EngineReturn, Fill, client, ends
  <2>3. CASE HandshakeFails \/ CloseClient \/ Dial \/ Forward
    BY <2>3 DEF HandshakeFails, CloseClient, Dial, Forward, client, ends
  <2>7. CASE BodyRead \/ BodyWrite \/ ForwardFails
    BY <2>7 DEF BodyRead, BodyWrite, ForwardFails, client, ends
  <2>4. CASE Up
    BY <2>4 DEF Up, UpRead, UpWrite, UpClose, client, ends
  <2>5. CASE Down
    BY <2>5 DEF Down, DownRead, DownWrite, DownClose, client, ends
  <2>6. QED
    BY <1>6, <2>1, <2>2, <2>3, <2>4, <2>5, <2>7 DEF Next, Handler
<1>7. QED
  BY <1>1, <1>2, <1>3, <1>4, <1>5, <1>6

\* The engine, or the origin of a plain request, receives what the client sent
\* in its order, each token once: nothing that the bufio.Reader of proxy.go
\* reads ahead is lost or read twice when the handshake ends, whatever the
\* client sends and however its writes are batched.
THEOREM ClientStreamInOrder == Spec => ClientStream
<1>1. Init => Upward!Init
  <2> SUFFICES ASSUME Init PROVE SentUp = <<>> /\ OutUp = <<>>
    BY DEF Upward!Init, SentUp, OutUp
  <2>1. TypeOK
    BY InitType
  <2>2. SentUp = <<>>
    BY <2>1, ScriptType DEF SentUp, Init
  <2>3. <<>> \o <<>> = <<>>
    BY NoPieces, ConcatEmptySeq
  <2>4. QED
    BY <2>2, <2>3 DEF OutUp, Init
<1>2. TypeOK /\ BuffersOK /\ HandshakeInv /\ TunnelInv /\ StreamUpInv /\ [Next]_vars
         => [Upward!Put \/ Upward!Get]_<<SentUp, OutUp>>
  BY UpStep
<1>3. QED
  BY <1>1, <1>2, BuffersCorrect, HandshakeCorrect, UpCorrect, PTL
     DEF Spec, ClientStream, Upward!InOrder, SentUp, OutUp

-----------------------------------------------------------------------------
(* What the origin sends back *)

LEMMA DownTypes ==
    ASSUME TypeOK, BuffersOK
    PROVE  /\ seen \in Seq(Pieces) /\ outC \in Seq(Pieces) /\ back \in Seq(Pieces)
           /\ inS \in Seq(Pieces) /\ RestDown \in Seq(Pieces)
           /\ StreamDown \in Seq(Pieces) /\ SentDown \in Seq(Pieces)
           /\ <<>> \in Seq(Pieces)
<1>1. /\ seen \in Seq(Pieces) /\ outC \in Seq(Pieces) /\ back \in Seq(Pieces)
      /\ inS \in Seq(Pieces) /\ <<>> \in Seq(Pieces)
  BY NoPieces DEF BuffersOK
<1>2. RestDown \in Seq(Pieces)
  BY <1>1, CatType DEF RestDown
<1>3. StreamDown \in Seq(Pieces)
  BY <1>1, <1>2, CatType DEF StreamDown
<1>4. SentDown \in Seq(Pieces)
  <2>1. MaxResp - resp \in Nat /\ \A i \in 1..(MaxResp - resp) : i \in Pieces
    BY ScriptType DEF TypeOK, Pieces
  <2>2. QED
    BY <2>1 DEF SentDown
<1>5. QED
  BY <1>1, <1>2, <1>3, <1>4

LEMMA SameDown ==
    ASSUME StreamDownInv, SentDown' = SentDown, StreamDown' = StreamDown,
           StoppedDown => StoppedDown', send' = "open" => send = "open",
           up2c' # "write" => back' = <<>>
    PROVE  StreamDownInv'
  BY DEF StreamDownInv

\* A step that cuts off its end.
LEMMA ShorterDown ==
    ASSUME StreamDownInv, SentDown' = SentDown,
           NEW rest \in Seq(Pieces), StreamDown' \in Seq(Pieces),
           StreamDown = Cat(StreamDown', rest),
           send' # "open" \/ StoppedDown', up2c' # "write" => back' = <<>>
    PROVE  StreamDownInv'
<1>1. PICK lost \in Seq(Pieces) : SentDown = Cat(StreamDown, lost)
  BY DEF StreamDownInv
<1>2. Cat(rest, lost) \in Seq(Pieces) /\ SentDown' = Cat(StreamDown', Cat(rest, lost))
  BY <1>1, CatType, CatAssoc
<1>3. QED
  BY <1>2 DEF StreamDownInv

\* Nothing more is written to the client: what has not been written is not
\* delivered, and of the rest a reset may leave only the beginning.
LEMMA StopDown ==
    ASSUME TypeOK, BuffersOK, StreamDownInv, StoppedDown', outC' \in Cut(outC),
           up2c' # "write" => back' = <<>>, UNCHANGED <<resp, seen>>
    PROVE  StreamDownInv'
<1>1. RestDown' = <<>> /\ SentDown' = SentDown
  BY DEF RestDown, SentDown
<1>2. outC' \in Seq(Pieces) /\ \E rest \in Seq(Pieces) : outC = Cat(outC', rest)
  BY DownTypes, CutIs
<1>3. PICK rest \in Seq(Pieces) : outC = Cat(outC', rest)
  BY <1>2
<1>4. StreamDown' = Cat(seen, outC')
  BY <1>1, <1>2, CatEmpty DEF StreamDown
<1>5. PICK more \in Seq(Pieces) : more = Cat(rest, RestDown)
  BY DownTypes, CatType
<1>6. Cat(outC, RestDown) = Cat(outC', more)
  BY <1>2, <1>3, <1>5, DownTypes, CatAssoc
<1>7. StreamDown' \in Seq(Pieces) /\ StreamDown = Cat(StreamDown', more)
  BY <1>2, <1>4, <1>6, DownTypes, CatType, CatAssoc DEF StreamDown
<1>8. QED
  BY <1>1, <1>7, ShorterDown

\* The origin resets its connection: what it had sent may be lost, from some
\* piece on.
LEMMA LoseDown ==
    ASSUME TypeOK, BuffersOK, StreamDownInv, send' # "open", inS' \in Cut(inS),
           UNCHANGED <<resp, seen, outC, up2c, back, csock, cend>>
    PROVE  StreamDownInv'
<1>1. SentDown' = SentDown /\ StoppedDown' = StoppedDown
  BY DEF SentDown, StoppedDown
<1>2. inS' \in Seq(Pieces) /\ \E rest \in Seq(Pieces) : inS = Cat(inS', rest)
  BY DownTypes, CutIs
<1>3. PICK rest \in Seq(Pieces) : inS = Cat(inS', rest)
  BY <1>2
<1>4. CASE StoppedDown
  <2>1. StreamDown' = StreamDown
    BY <1>1, <1>4 DEF StreamDown, RestDown
  <2> QED BY <1>1, <2>1, SameDown DEF StreamDownInv
<1>5. CASE ~StoppedDown
  <2>1. RestDown = Cat(back, inS) /\ RestDown' = Cat(back, inS')
    BY <1>1, <1>5 DEF RestDown
  <2>2. RestDown' \in Seq(Pieces) /\ RestDown = Cat(RestDown', rest)
    BY <1>2, <1>3, <2>1, DownTypes, CatType, CatAssoc
  <2>3. StreamDown' = Cat(seen, Cat(outC, RestDown'))
    BY DEF StreamDown
  <2>4. PICK r \in Seq(Pieces) : r = RestDown' /\ RestDown = Cat(r, rest)
    BY <2>2
  <2>5. Cat(outC, RestDown) = Cat(Cat(outC, r), rest) /\ Cat(outC, r) \in Seq(Pieces)
    <3>1. outC \in Seq(Pieces)
      BY DownTypes
    <3> QED BY <2>4, <3>1, CatType, CatAssoc
  <2>6. StreamDown = Cat(Cat(seen, Cat(outC, r)), rest)
    BY <2>5, DownTypes, CatAssoc DEF StreamDown
  <2>7. StreamDown' \in Seq(Pieces) /\ StreamDown = Cat(StreamDown', rest)
    BY <2>3, <2>4, <2>5, <2>6, DownTypes, CatType
  <2> QED BY <1>1, <2>7, ShorterDown DEF StreamDownInv
<1> QED BY <1>4, <1>5

\* The origin sends its next piece.
LEMMA ServerSends ==
    ASSUME TypeOK, BuffersOK, ServerSend
    PROVE  \E x \in Pieces : Added(SentDown, x, SentDown') /\ Added(inS, x, inS')
<1>1. PICK n \in Nat : n = MaxResp - resp
  BY ScriptType DEF TypeOK
<1>2. n + 1 \in Pieces /\ MaxResp - resp' = n + 1 /\ inS' = Append(inS, n + 1)
  <2>1. resp \in Nat /\ MaxResp \in Nat
    BY ScriptType
  <2>2. resp > 0 /\ resp' = resp - 1 /\ inS' = Append(inS, MaxResp - resp')
    BY DEF ServerSend
  <2>3. n + 1 \in Pieces /\ MaxResp - resp' = n + 1
    BY <1>1, <2>1, <2>2 DEF Pieces
  <2>4. QED
    BY <2>2, <2>3
<1>3. [i \in 1..(n + 1) |-> i] = Append([i \in 1..n |-> i], n + 1)
  <2> DEFINE a == [i \in 1..n |-> i]
             b == [i \in 1..(n + 1) |-> i]
  <2>1. /\ a \in Seq(Nat) /\ Len(a) = n /\ b \in Seq(Nat) /\ Len(b) = n + 1
    OBVIOUS
  <2>2. Append(a, n + 1) \in Seq(Nat) /\ Len(Append(a, n + 1)) = n + 1
    BY <2>1
  <2>3. ASSUME NEW i \in 1..(n + 1) PROVE b[i] = Append(a, n + 1)[i]
    BY <2>1
  <2>4. QED
    BY <2>1, <2>2, <2>3, SeqEqual
<1>4. QED
  BY <1>1, <1>2, <1>3 DEF SentDown, Added

LEMMA SendDown ==
    ASSUME TypeOK, BuffersOK, StreamDownInv, ServerSend
    PROVE  StreamDownInv'
<1>1. PICK x \in Pieces : Added(SentDown, x, SentDown') /\ Added(inS, x, inS')
  BY ServerSends
<1>2. /\ send = "open" /\ UNCHANGED <<seen, outC, up2c, back, csock, cend, send>>
      /\ StoppedDown' = StoppedDown
  BY DEF ServerSend, ends, client, StoppedDown
<1>3. CASE StoppedDown
  <2>1. StreamDown' = StreamDown
    BY <1>2, <1>3 DEF StreamDown, RestDown
  <2>2. PICK lost \in Seq(Pieces) : SentDown = Cat(StreamDown, lost)
    BY DEF StreamDownInv
  <2>3. PICK more \in Seq(Pieces) : Added(lost, x, more)
    <3>1. Append(lost, x) \in Seq(Pieces)
      OBVIOUS
    <3>2. QED
      BY <3>1 DEF Added
  <2>4. Added(SentDown, x, Cat(StreamDown, more))
    BY <2>2, <2>3, DownTypes, CatAdded
  <2>5. SentDown' = Cat(StreamDown, more)
    BY <1>1, <2>4 DEF Added
  <2>6. QED
    BY <1>2, <1>3, <2>1, <2>5 DEF StreamDownInv
<1>4. CASE ~StoppedDown
  <2>1. SentDown = StreamDown
    BY <1>2, <1>4 DEF StreamDownInv
  <2>2. RestDown = Cat(back, inS) /\ RestDown' = Cat(back, inS')
    BY <1>2, <1>4 DEF RestDown
  <2>3. RestDown' \in Seq(Pieces) /\ Added(RestDown, x, RestDown')
    BY <1>1, <2>2, DownTypes, CatType, CatAdded
  <2>4. StreamDown' = Cat(seen, Cat(outC, RestDown'))
    BY <1>2 DEF StreamDown
  <2>5. Added(Cat(outC, RestDown), x, Cat(outC, RestDown'))
    BY <2>3, DownTypes, CatAdded
  <2>6. Added(StreamDown, x, StreamDown')
    BY <2>4, <2>5, DownTypes, CatType, CatAdded DEF StreamDown
  <2>7. SentDown' = StreamDown' /\ StreamDown' \in Seq(Pieces)
    BY <1>1, <2>1, <2>3, <2>4, <2>6, DownTypes, CatType DEF Added
  <2>8. SentDown' = Cat(StreamDown', <<>>) /\ <<>> \in Seq(Pieces)
    BY <2>7, CatEmpty, NoPieces
  <2>9. QED
    BY <1>2, <2>7, <2>8 DEF StreamDownInv
<1>5. QED
  BY <1>3, <1>4

LEMMA NextStreamDown ==
    ASSUME TypeOK, BuffersOK, DownAlone, StreamDownInv, Next
    PROVE  StreamDownInv'
<1>a. outC \in Cut(outC) /\ outC \in Seq(Pieces) /\ inS \in Cut(inS)
  BY DownTypes, CutWhole
<1>1. CASE ClientRead
  <2>1. /\ Moved(seen, outC, seen', outC')
        /\ UNCHANGED <<resp, inS, up2c, back, csock, cend, send>>
    BY <1>1 DEF ClientRead, Moved, origin, client
  <2>2. SentDown' = SentDown /\ RestDown' = RestDown /\ StoppedDown' = StoppedDown
    BY <2>1 DEF SentDown, RestDown, StoppedDown
  <2>3. StreamDown' = StreamDown
    BY <2>1, <2>2, DownTypes, CatMoved DEF StreamDown
  <2>4. QED
    BY <2>1, <2>2, <2>3, SameDown DEF StreamDownInv
<1>2. CASE DownRead
  <2>1. up2c = "read" /\ back = <<>> /\ UNCHANGED <<resp, seen, outC, csock, cend, send>>
    BY <1>2 DEF DownRead, StreamDownInv, origin, client, ends
  <2>2. CASE up2c' = "close"
    <3>1. back' = <<>> /\ StoppedDown' /\ outC' \in Cut(outC)
      BY <1>2, <1>a, <2>1, <2>2 DEF DownRead, StoppedDown, Closing
    <3>2. QED
      BY <2>1, <3>1, StopDown
  <2>3. CASE up2c' # "close"
    <3>1. /\ up2c' = "write" /\ inS # <<>>
          /\ back' = <<Head(inS)>> /\ inS' = Tail(inS)
      BY <1>2, <2>3 DEF DownRead
    <3>2. Moved(back, inS, back', inS') /\ StoppedDown' = StoppedDown
      BY <2>1, <3>1 DEF Moved, StoppedDown, Closing
    <3>3. PICK e \in Seq(Pieces) : e = <<>>
      BY DownTypes
    <3>4. /\ back' \in Seq(Pieces) /\ inS' \in Seq(Pieces)
          /\ Cat(back', Cat(inS', e)) = Cat(back, Cat(inS, e))
      BY <3>2, DownTypes, CatMoved
    <3>5. Cat(back', inS') = Cat(back, inS)
      BY <3>3, <3>4, DownTypes, CatEmpty
    <3>6. SentDown' = SentDown /\ StreamDown' = StreamDown
      BY <2>1, <3>2, <3>5 DEF SentDown, StreamDown, RestDown
    <3>7. QED
      BY <2>1, <3>1, <3>2, <3>6, SameDown
  <2>4. QED
    BY <2>2, <2>3
<1>3. CASE DownWrite
  <2>1. /\ up2c = "write" /\ up2c' \in {"read", "close"} /\ back' = <<>>
        /\ UNCHANGED <<resp, seen, inS, csock, cend, send>>
    BY <1>3 DEF DownWrite, origin, ends
  <2>2. CASE cend = "gone"
    <3>1. StoppedDown' /\ outC' \in Cut(outC)
      BY <1>3, <1>a, <2>1, <2>2 DEF DownWrite, StoppedDown
    <3>2. QED
      BY <2>1, <3>1, StopDown
  <2>3. CASE cend # "gone"
    <3>1. up2c' = "read" /\ outC' = Cat(outC, back)
      BY <1>3, <2>3 DEF DownWrite, Cat
    <3>2. StoppedDown' = StoppedDown /\ outC' \in Seq(Pieces)
      BY <2>1, <3>1, DownTypes, CatType DEF StoppedDown, Closing
    <3>3. pc = "tunnel"
      BY <2>1 DEF TypeOK
    <3>4. ~StoppedDown
      BY <2>1, <2>3, <3>3 DEF StoppedDown, Closing, DownAlone
    <3>5. RestDown = Cat(back, inS) /\ RestDown' = inS
      BY <2>1, <3>2, <3>4, DownTypes, CatEmpty DEF RestDown
    <3>6. Cat(outC', RestDown') = Cat(outC, RestDown)
      BY <3>1, <3>5, DownTypes, CatType, CatAssoc
    <3>7. SentDown' = SentDown /\ StreamDown' = StreamDown
      BY <2>1, <3>6 DEF SentDown, StreamDown
    <3>8. QED
      BY <2>1, <3>2, <3>7, SameDown
  <2>4. QED
    BY <2>2, <2>3
<1>4. CASE Forward
  <2>1. /\ up2c' = "read" /\ pc = "write"
        /\ UNCHANGED <<resp, seen, outC, inS, back, csock, cend, send>>
    BY <1>4 DEF Forward, origin, client, ends
  <2>2. up2c = "none"
    BY <2>1 DEF DownAlone
  <2>3. StoppedDown' = StoppedDown /\ back' = <<>>
    BY <2>1, <2>2 DEF StoppedDown, Closing, StreamDownInv
  <2>4. SentDown' = SentDown /\ StreamDown' = StreamDown
    BY <2>1, <2>3 DEF SentDown, StreamDown, RestDown
  <2>5. QED
    BY <2>1, <2>3, <2>4, SameDown
<1>5. CASE DownClose \/ CloseClient \/ EngineReturn
  <2>1. /\ csock' = "closed" /\ UNCHANGED <<resp, seen, back>>
        /\ up2c # "write" /\ up2c' # "write"
    <3>1. CASE DownClose
      BY <3>1 DEF DownClose, origin, ends
    <3>2. CASE CloseClient \/ EngineReturn
      <4>1. pc # "tunnel" /\ UNCHANGED <<resp, seen, back, up2c>> /\ csock' = "closed"
        BY <3>2 DEF CloseClient, EngineReturn, origin, tunnel, ends
      <4> QED BY <4>1 DEF TypeOK
    <3> QED BY <1>5, <3>1, <3>2
  <2>2. outC' \in Cut(outC)
    <3>1. CASE DownClose
      BY <1>a, <3>1, LeftCut DEF DownClose
    <3>2. CASE CloseClient \/ EngineReturn
      BY <1>a, <3>2 DEF CloseClient, EngineReturn, tunnel
    <3> QED BY <1>5, <3>1, <3>2
  <2>3. StoppedDown' /\ back' = <<>>
    BY <2>1 DEF StoppedDown, StreamDownInv
  <2>4. QED
    BY <2>1, <2>2, <2>3, StopDown
<1>6. CASE ClientSend \/ ClientEnd
  <2>1. /\ UNCHANGED <<resp, seen, inS, up2c, back, csock, send>>
        /\ (csock = "closed" \/ outC' = outC) /\ outC' \in Cut(outC)
        /\ (cend = "gone" => cend' = "gone")
    BY <1>6, <1>a DEF ClientSend, ClientEnd, origin, tunnel, ends
  <2>2. CASE StoppedDown'
    BY <2>1, <2>2, StopDown DEF StreamDownInv
  <2>3. CASE ~StoppedDown'
    <3>1. ~StoppedDown /\ outC' = outC
      BY <2>1, <2>3 DEF StoppedDown
    <3>2. SentDown' = SentDown /\ StreamDown' = StreamDown
      BY <2>1, <2>3, <3>1 DEF SentDown, StreamDown, RestDown
    <3> QED BY <2>1, <3>1, <3>2, SameDown DEF StreamDownInv
  <2>4. QED
    BY <2>2, <2>3
<1>7. CASE ServerEnd \/ BodyWrite \/ UpWrite
  <2>1. UNCHANGED <<resp, seen, outC, up2c, back, csock, cend>>
    BY <1>7 DEF ServerEnd, BodyWrite, UpWrite, client, ends
  <2>2. CASE send' # "open"
    <3>1. inS' \in Cut(inS)
      BY <1>7, <1>a DEF ServerEnd, BodyWrite, UpWrite
    <3> QED BY <2>1, <2>2, <3>1, LoseDown
  <2>3. CASE send' = "open"
    <3>1. inS' = inS /\ send = "open"
      BY <1>7, <2>3 DEF ServerEnd, BodyWrite, UpWrite
    <3>2. SentDown' = SentDown /\ StreamDown' = StreamDown /\ StoppedDown' = StoppedDown
      BY <2>1, <3>1 DEF SentDown, StreamDown, RestDown, StoppedDown
    <3> QED BY <2>1, <3>1, <3>2, SameDown DEF StreamDownInv
  <2> QED BY <2>2, <2>3
<1>8. CASE ClientStall \/ ServerRead \/ ServerStall \/ EngineRead \/ Fill \/ Handshake
           \/ HandshakeFails \/ Dial \/ BodyRead \/ ForwardFails \/ UpRead \/ UpClose
  <2>1. UNCHANGED <<resp, seen, outC, inS, up2c, back, csock, cend, send>>
    <3>1. CASE ClientStall \/ ServerRead \/ ServerStall \/ EngineRead \/ Fill
      BY <3>1 DEF ClientStall, ServerRead, ServerStall, EngineRead, Fill,
                  client, origin, tunnel, ends
    <3>2. CASE Handshake \/ HandshakeFails \/ Dial
      BY <3>2 DEF Handshake, HandshakeFails, Dial, client, origin, tunnel, ends
    <3>3. CASE BodyRead \/ ForwardFails \/ UpRead \/ UpClose
      BY <3>3 DEF BodyRead, ForwardFails, UpRead, UpClose, client, origin, ends
    <3>5. QED
      BY <1>8, <3>1, <3>2, <3>3
  <2>2. SentDown' = SentDown /\ StreamDown' = StreamDown /\ StoppedDown' = StoppedDown
    BY <2>1 DEF SentDown, StreamDown, RestDown, StoppedDown
  <2>3. QED
    BY <2>1, <2>2, SameDown DEF StreamDownInv
<1>9. CASE ServerSend
  BY <1>9, SendDown
<1>10. QED
  BY <1>1, <1>2, <1>3, <1>4, <1>5, <1>6, <1>7, <1>8, <1>9 DEF Next, Handler, Up, Down

LEMMA NextAlone ==
    ASSUME TypeOK, DownAlone, Next
    PROVE  DownAlone'
<1>1. CASE Handshake \/ HandshakeFails \/ Dial \/ ForwardFails
  <2>1. UNCHANGED <<up2c, csock>> /\ pc \in HandshakePcs \cup {"dial", "write"}
    <3>1. CASE Handshake
      BY <3>1 DEF Handshake, tunnel
    <3>2. CASE HandshakeFails \/ Dial \/ ForwardFails
      BY <3>2 DEF HandshakeFails, Dial, ForwardFails, tunnel
    <3>3. QED
      BY <1>1, <3>1, <3>2
  <2>2. QED
    BY <2>1 DEF DownAlone, HandshakePcs
<1>2. CASE EngineReturn \/ CloseClient \/ DownClose
  BY <1>2 DEF EngineReturn, CloseClient, DownClose, Goto, DownAlone
<1>3. CASE Forward
  BY <1>3 DEF Forward, Goto, DownAlone
<1>4. CASE DownRead \/ DownWrite
  BY <1>4 DEF DownRead, DownWrite, DownAlone
<1>5. CASE ClientSend \/ ClientEnd \/ ClientRead \/ ClientStall \/ ServerSend
           \/ ServerRead \/ ServerEnd \/ ServerStall \/ EngineRead \/ Fill \/ Up
           \/ BodyRead \/ BodyWrite
  <2>1. UNCHANGED <<up2c, pc, csock>>
    <3>1. CASE ClientSend \/ ClientEnd \/ ClientRead \/ ClientStall \/ ServerSend
      BY <3>1 DEF ClientSend, ClientEnd, ClientRead, ClientStall, ServerSend, tunnel
    <3>2. CASE ServerRead \/ ServerEnd \/ ServerStall \/ EngineRead \/ Fill
      BY <3>2 DEF ServerRead, ServerEnd, ServerStall, EngineRead, Fill, tunnel
    <3>3. CASE Up \/ BodyRead \/ BodyWrite
      BY <3>3 DEF Up, UpRead, UpWrite, UpClose, BodyRead, BodyWrite
    <3>4. QED
      BY <1>5, <3>1, <3>2, <3>3
  <2>2. QED
    BY <2>1 DEF DownAlone
<1>6. QED
  BY <1>1, <1>2, <1>3, <1>4, <1>5 DEF Next, Handler, Down

LEMMA DownCorrect == Spec => [](DownAlone /\ StreamDownInv)
<1>1. Init => DownAlone /\ StreamDownInv
  <2> SUFFICES ASSUME Init PROVE DownAlone /\ StreamDownInv
    OBVIOUS
  <2>1. SentDown = <<>> /\ <<>> \in Seq(Pieces)
    BY ProxyAssumption, NoPieces DEF SentDown, Init
  <2>2. StreamDown = <<>>
    BY <2>1, CatType, CatEmpty DEF StreamDown, RestDown, Init
  <2>3. SentDown = Cat(StreamDown, <<>>)
    BY <2>1, <2>2, CatEmpty
  <2>4. QED
    BY <2>1, <2>2, <2>3 DEF DownAlone, StreamDownInv, Init
<1>2. DownAlone /\ StreamDownInv /\ UNCHANGED vars => (DownAlone /\ StreamDownInv)'
  BY DEF DownAlone, StreamDownInv, SentDown, StreamDown, RestDown, StoppedDown,
         vars, client, origin, tunnel, ends
<1>3. TypeOK /\ BuffersOK /\ DownAlone /\ StreamDownInv /\ [Next]_vars
         => (DownAlone /\ StreamDownInv)'
  BY <1>2, NextAlone, NextStreamDown
<1>4. QED
  BY <1>1, <1>3, BuffersCorrect, PTL DEF Spec

LEMMA DownStep ==
    ASSUME TypeOK, BuffersOK, StreamDownInv, [Next]_vars
    PROVE  [Downward!Put \/ Downward!Get]_<<SentDown, seen>>
<1>1. CASE ServerSend
  <2>1. PICK x \in Pieces : SentDown' = Append(SentDown, x)
    BY <1>1, ServerSends DEF Added
  <2>2. seen' = seen
    BY <1>1 DEF ServerSend, ends
  <2>3. QED
    BY <2>1, <2>2 DEF Downward!Put, SentDown, Pieces
<1>2. CASE ClientRead
  <2>1. Moved(seen, outC, seen', outC') /\ UNCHANGED resp
    BY <1>2 DEF ClientRead, Moved, origin
  <2>2. PICK lost \in Seq(Pieces) : SentDown = Cat(StreamDown, lost)
    BY DEF StreamDownInv
  <2>3. PICK rest \in Seq(Pieces) : rest = Cat(RestDown, lost)
    BY DownTypes, CatType
  <2>4. SentDown = Cat(seen, Cat(outC, rest))
    BY <2>2, <2>3, DownTypes, CatType, CatAssoc DEF StreamDown
  <2>5. Len(seen) < Len(SentDown) /\ SentDown[Len(seen) + 1] = Head(outC)
    <3>1. outC # <<>> /\ seen \in Seq(Pieces) /\ outC \in Seq(Pieces)
      BY <2>1, DownTypes DEF Moved
    <3>2. /\ Len(seen) < Len(Cat(seen, Cat(outC, rest)))
          /\ Cat(seen, Cat(outC, rest))[Len(seen) + 1] = Head(outC)
      BY <2>3, <3>1, CatNext
    <3>3. QED
      BY <2>4, <3>2
  <2>6. seen' = Append(seen, SentDown[Len(seen) + 1]) /\ SentDown' = SentDown
    BY <2>1, <2>5 DEF Moved, SentDown
  <2>7. QED
    BY <2>5, <2>6 DEF Downward!Get, SentDown
<1>3. ASSUME [Next]_vars, ~ServerSend, ~ClientRead
      PROVE  UNCHANGED <<resp, seen>>
  <2>1. CASE UNCHANGED vars \/ ClientSend \/ ClientEnd \/ ClientStall \/ ServerRead
    BY <2>1 DEF vars, ClientSend, ClientEnd, ClientStall, ServerRead, origin, ends
  <2>2. CASE ServerEnd \/ ServerStall \/ EngineRead \/ EngineReturn \/ Fill
    BY <2>2 DEF ServerEnd, ServerStall, EngineRead, EngineReturn, Fill, origin, ends
  <2>3. CASE Handshake \/ HandshakeFails \/ CloseClient \/ Dial \/ Forward
    BY <2>3 DEF Handshake, HandshakeFails, CloseClient, Dial, Forward, origin, ends
  <2>7. CASE BodyRead \/ BodyWrite \/ ForwardFails
    BY <2>7 DEF BodyRead, BodyWrite, ForwardFails, origin, ends
  <2>4. CASE Up
    BY <2>4 DEF Up, UpRead, UpWrite, UpClose, origin, ends
  <2>5. CASE Down
    BY <2>5 DEF Down, DownRead, DownWrite, DownClose, origin, ends
  <2>6. QED
    BY <1>3, <2>1, <2>2, <2>3, <2>4, <2>5, <2>7 DEF Next, Handler
<1>4. QED
  BY <1>1, <1>2, <1>3 DEF SentDown

\* A client receives what the origin of a plain request sends in its order,
\* each piece once, although either copying goroutine of proxy.go closes what
\* the other one reads, for any number of pieces and any size of the buffers.
THEOREM OriginStreamInOrder == Spec => OriginStream
<1>1. Init => Downward!Init
  BY ProxyAssumption DEF Init, Downward!Init
<1>2. TypeOK /\ BuffersOK /\ StreamDownInv /\ [Next]_vars
         => [Downward!Put \/ Downward!Get]_<<SentDown, seen>>
  BY DownStep
<1>3. QED
  BY <1>1, <1>2, BuffersCorrect, DownCorrect, PTL
     DEF Spec, OriginStream, Downward!InOrder, SentDown

=============================================================================
