------------------------------- MODULE Proxy -------------------------------
(***************************************************************************)
(* One connection to the explicit proxies (proxy.go): HTTP, where CONNECT  *)
(* hands the connection to the engine and any other request is tunnelled   *)
(* to its origin, and SOCKS5.                                              *)
(*                                                                         *)
(* Both read through a bufio.Reader, which takes whatever the socket has:  *)
(* bytes that follow the handshake may already be in its buffer when the   *)
(* connection is handed over or copied.  A plain request is written to its *)
(* origin first, its body as the client sends it, and until that is done   *)
(* nothing is copied back.  Then a tunnel is two goroutines, each of which *)
(* copies one direction and closes the socket it wrote to.  There are no   *)
(* deadlines besides the one on dialling.                                  *)
(*                                                                         *)
(* A connection that is closed with something unread, or that is sent      *)
(* something once it is closed, is reset: what it had sent and the peer    *)
(* has not yet received is lost, from some piece on.                       *)
(*                                                                         *)
(* What the client sends is a script of tokens, one per ReadRequest or     *)
(* ReadFull of the handler and one per piece of a body or of later data.   *)
(***************************************************************************)
EXTENDS Integers, Sequences

CONSTANTS
    Scripts,     \* Scripts[k]: what clients of protocol k may send
    Body,        \* pieces of the body of a POST
    MaxResp,     \* pieces of data an origin sends
    Cap,         \* pieces a socket holds before a write blocks
    MayStall     \* may a peer stop reading with its connection open?

Kinds  == {"http", "socks"}
Plain  == {"GET", "POST"}
Tokens == Plain \cup
          {"CONNECT", "junk", "v5", "v5none", "v4", "methods", "connect4",
           "connect6", "connectName", "badcmd", "badtype", "addr", "len", "len0",
           "name", "port", "data1", "data2"}

ASSUME ProxyAssumption ==
    /\ Scripts \in [Kinds -> SUBSET Seq(Tokens)]
    /\ Body \in Nat /\ MaxResp \in Nat /\ Cap \in Nat \ {0} /\ MayStall \in BOOLEAN

VARIABLES
    kind, script,  \* the protocol, and what the client sends
    sent,          \* tokens of the script sent so far
    cend,          \* the client's end: "open", "fin" (sends no more), "gone"
    cstall,        \* the client has stopped reading
    creset,        \* the client has reset its connection
    wire,          \* sent, not yet read by the handler
    br,            \* the buffer of the bufio.Reader
    pc,            \* where the handler is
    consumed,      \* what the handler took off the stream
    replies,       \* what the handler answered
    csock,         \* the client's connection: "open" or "closed" here
    up,            \* the origin's connection: "none", "open" or "closed"
    send,          \* the origin's end: "open", "fin" or "gone"
    sstall,        \* the origin has stopped reading
    sreset,        \* the origin has reset its connection
    resp,          \* pieces the origin may still send, numbered in its order
    inS, outS,     \* from and to the origin, in flight
    outC,          \* to the client, in flight
    up2c, c2up,    \* the copying goroutines: "none", "read", "write", "close", "done"
    body,          \* pieces of the request's body the handler has yet to read
    held, back,    \* read and not yet written: by the handler or c2up, by up2c
    got,           \* what the engine or the origin has received
    seen           \* what the client has received through the tunnel

client == <<kind, script, sent, cend, cstall, creset>>
origin == <<send, sstall, sreset, resp>>
tunnel == <<inS, outS, outC, up2c, c2up, body, held, back>>
ends   == <<got, seen>>
vars   == <<client, wire, br, pc, consumed, replies, csock, up, origin, tunnel, ends>>

Goto(l) == pc' = l

\* What a reset may leave of what is on its way, and what the end of a
\* connection leaves of it, which is a reset if something is unread there.
Cut(s)          == {SubSeq(s, 1, n) : n \in 0..Len(s)}
Left(s, unread) == IF unread = <<>> THEN {s} ELSE Cut(s)

-----------------------------------------------------------------------------
(* The peers, and the engine. *)

\* What is sent to a connection that was closed here resets it.
ClientSend ==
    /\ cend = "open" /\ sent < Len(script) /\ Len(wire) < Cap
    /\ sent' = sent + 1
    /\ wire' = Append(wire, script[sent + 1])
    /\ outC' \in IF csock = "closed" THEN Cut(outC) ELSE {outC}
    /\ UNCHANGED <<kind, script, cend, cstall, creset, br, pc, consumed, replies,
                   csock, up, origin, inS, outS, up2c, c2up, body, held, back, ends>>

\* The client shuts down its sending side, or closes the connection when it
\* has read all there is, or resets it.
ClientEnd ==
    /\ \/ cend = "open" /\ cend' = "fin" /\ UNCHANGED <<wire, creset>>
       \/ cend # "gone" /\ cend' = "gone" /\ outC = <<>> /\ UNCHANGED <<wire, creset>>
       \/ cend # "gone" /\ cend' = "gone" /\ wire' \in Cut(wire) /\ creset' = TRUE
    /\ UNCHANGED <<kind, script, sent, cstall, br, pc, consumed, replies, csock,
                   up, origin, tunnel, ends>>

ClientRead ==
    /\ cend # "gone" /\ ~cstall /\ outC # <<>>
    /\ seen' = Append(seen, Head(outC))
    /\ outC' = Tail(outC)
    /\ UNCHANGED <<client, wire, br, pc, consumed, replies, csock, up, origin,
                   inS, outS, up2c, c2up, body, held, back, got>>

ClientStall ==
    /\ MayStall /\ ~cstall
    /\ cstall' = TRUE
    /\ UNCHANGED <<kind, script, sent, cend, creset, wire, br, pc, consumed, replies,
                   csock, up, origin, tunnel, ends>>

ServerSend ==
    /\ up # "none" /\ send = "open" /\ resp > 0 /\ Len(inS) < Cap
    /\ resp' = resp - 1 /\ inS' = Append(inS, MaxResp - resp')
    /\ outS' \in IF up = "closed" THEN Cut(outS) ELSE {outS}
    /\ UNCHANGED <<client, wire, br, pc, consumed, replies, csock, up, send,
                   sstall, sreset, outC, up2c, c2up, body, held, back, ends>>

ServerRead ==
    /\ send # "gone" /\ ~sstall /\ outS # <<>>
    /\ got' = Append(got, Head(outS))
    /\ outS' = Tail(outS)
    /\ UNCHANGED <<client, wire, br, pc, consumed, replies, csock, up, origin,
                   inS, outC, up2c, c2up, body, held, back, seen>>

ServerEnd ==
    /\ up = "open"
    /\ \/ send = "open" /\ send' = "fin" /\ UNCHANGED <<inS, sreset>>
       \/ send # "gone" /\ send' = "gone" /\ outS = <<>> /\ UNCHANGED <<inS, sreset>>
       \/ send # "gone" /\ send' = "gone" /\ inS' \in Cut(inS) /\ sreset' = TRUE
    /\ UNCHANGED <<client, wire, br, pc, consumed, replies, csock, up, sstall,
                   resp, outS, outC, up2c, c2up, body, held, back, ends>>

ServerStall ==
    /\ MayStall /\ up = "open" /\ ~sstall
    /\ sstall' = TRUE
    /\ UNCHANGED <<client, wire, br, pc, consumed, replies, csock, up, send,
                   sreset, resp, tunnel, ends>>

\* eng.Handle reads through bufioConn, the buffer first ...
EngineRead ==
    /\ pc = "engine" /\ br # <<>>
    /\ got' = Append(got, Head(br))
    /\ br' = Tail(br)
    /\ UNCHANGED <<client, wire, pc, consumed, replies, csock, up, origin, tunnel,
                   seen>>

\* ... and closes the connection when it returns, at the latest when the
\* client has sent its last.
EngineReturn ==
    /\ pc = "engine"
    /\ csock' = "closed"
    /\ Goto("done")
    /\ UNCHANGED <<client, wire, br, consumed, replies, up, origin, tunnel, ends>>

-----------------------------------------------------------------------------
(* The bufio.Reader and the handshakes. *)

HandshakePcs == {"request", "hdr", "methods", "req", "addr", "len", "name", "port"}

\* The handler, the engine or a copying goroutine reads from br.
Reading ==
    \/ pc \in HandshakePcs \cup {"engine"} \/ c2up = "read"
    \/ pc = "write" /\ body > 0

Fill ==
    /\ Reading /\ csock = "open" /\ br = <<>> /\ wire # <<>>
    /\ br' = wire /\ wire' = <<>>
    /\ UNCHANGED <<client, pc, consumed, replies, csock, up, origin, tunnel, ends>>

AtEnd == br = <<>> /\ wire = <<>> /\ cend # "open"

\* What each token leads to: the place, the token, the replies written and
\* the next place.  http.ReadRequest and a CONNECT or another method; the
\* version and number of SOCKS methods, the methods (none to read if their
\* number is zero), the command and type of address, the address or the
\* length of a name (none to read if it is zero) and the name, and the port.
Accepts ==
    { <<"request", "CONNECT",     <<"200">>,    "engine">>,
      <<"request", "GET",         <<>>,         "dial">>,
      <<"request", "POST",        <<>>,         "dial">>,
      <<"hdr",     "v5",          <<>>,         "methods">>,
      <<"hdr",     "v5none",      <<"method">>, "req">>,
      <<"methods", "methods",     <<"method">>, "req">>,
      <<"req",     "connect4",    <<>>,         "addr">>,
      <<"req",     "connect6",    <<>>,         "addr">>,
      <<"req",     "connectName", <<>>,         "len">>,
      <<"addr",    "addr",        <<>>,         "port">>,
      <<"len",     "len",         <<>>,         "name">>,
      <<"len",     "len0",        <<>>,         "port">>,
      <<"name",    "name",        <<>>,         "port">>,
      <<"port",    "port",        <<"ok">>,     "engine">> }

\* Fault variant: the command is not looked at.
TransitionsAnyCommand ==
    Accepts \cup { <<"req", "badcmd", <<>>, "addr">>,
                   <<"req", "badtype", <<"unsupported type">>, "close">> }

Transitions ==
    Accepts \cup { <<"req", "badcmd", <<"unsupported command">>, "close">>,
                   <<"req", "badtype", <<"unsupported type">>, "close">> }

Leads(tok) == {x \in Transitions : x[1] = pc /\ x[2] = tok}

\* Fault variant: the buffer is left behind with the reader.
TakeAndDropBuffer(to) ==
    /\ consumed' = Append(consumed, Head(br))
    /\ br' = IF to = "engine" THEN <<>> ELSE Tail(br)

\* The handler goes on with what is in the buffer, and so does whatever it
\* hands the connection to.
Take(to) ==
    /\ consumed' = Append(consumed, Head(br))
    /\ br' = Tail(br)

\* A token is read and answered.  Anything unexpected closes the connection,
\* and so does a failing write of the method reply; other writes are not
\* checked.
Handshake ==
    /\ pc \in HandshakePcs /\ br # <<>>
    /\ \/ \E x \in Leads(Head(br)) :
              /\ Take(x[4])
              /\ \/ replies' = replies \o x[3] /\ Goto(x[4])
                 \/ /\ cend = "gone" /\ x[3] = <<"method">>
                    /\ Goto("close") /\ UNCHANGED replies
       \/ /\ Leads(Head(br)) = {}
          /\ Take("close")
          /\ Goto("close")
          /\ UNCHANGED replies
    /\ UNCHANGED <<client, wire, csock, up, origin, tunnel, ends>>

\* ReadRequest or ReadFull fails.
HandshakeFails ==
    /\ pc \in HandshakePcs /\ AtEnd
    /\ Goto("close")
    /\ UNCHANGED <<client, wire, br, consumed, replies, csock, up, origin, tunnel, ends>>

CloseClient ==
    /\ pc = "close"
    /\ csock' = "closed"
    /\ Goto("done")
    /\ UNCHANGED <<client, wire, br, consumed, replies, up, origin, tunnel, ends>>

-----------------------------------------------------------------------------
(* The plain HTTP tunnel. *)

\* net.DialTimeout, and the header of the request for req.Write(up).  On
\* failure http.Error writes the bare text of the error: hijackRW drops the
\* status.
Dial ==
    /\ pc = "dial"
    /\ \/ /\ up' = "open" /\ held' = consumed
          /\ body' = IF consumed = <<"POST">> THEN Body ELSE 0
          /\ Goto("write") /\ UNCHANGED replies
       \/ /\ replies' = Append(replies, "bare error")
          /\ Goto("close") /\ UNCHANGED <<up, held, body>>
    /\ UNCHANGED <<client, wire, br, consumed, csock, origin, inS, outS, outC,
                   up2c, c2up, back, ends>>

\* req.Write(up) copies the body from the client, a piece at a time; the
\* writer it writes through may hold pieces back for a while.
BodyRead ==
    /\ pc = "write" /\ body > 0 /\ br # <<>>
    /\ held' = Append(held, Head(br)) /\ br' = Tail(br)
    /\ body' = body - 1
    /\ UNCHANGED <<client, wire, pc, consumed, replies, csock, up, origin, inS,
                   outS, outC, up2c, c2up, back, ends>>

\* A write to an origin that has gone is answered by a reset, of which only
\* the next call learns.
BodyWrite ==
    /\ pc = "write" /\ held # <<>>
    /\ \/ /\ send # "gone" /\ Len(outS) < Cap
          /\ outS' = Append(outS, Head(held))
          /\ UNCHANGED <<inS, sreset>>
       \/ send = "gone" /\ inS' \in Cut(inS) /\ sreset' = TRUE /\ UNCHANGED outS
    /\ held' = Tail(held)
    /\ UNCHANGED <<client, wire, br, pc, consumed, replies, csock, up, send,
                   sstall, resp, outC, up2c, c2up, body, back, ends>>

\* The client ends inside the body, or a write fails: what the writer holds
\* is dropped and both connections are closed.
ForwardFails ==
    /\ pc = "write"
    /\ \/ body > 0 /\ AtEnd /\ UNCHANGED sreset
       \/ held # <<>> /\ send = "gone" /\ sreset' = TRUE
    /\ held' = <<>>
    /\ up' = "closed" /\ outS' \in Left(outS, inS)
    /\ Goto("close")
    /\ UNCHANGED <<client, wire, br, consumed, replies, csock, send, sstall, resp,
                   inS, outC, up2c, c2up, body, back, ends>>

\* Fault variant: both directions are copied by goroutines of their own.
ForwardReturns ==
    /\ pc = "write" /\ body = 0 /\ held = <<>>
    /\ c2up' = "read" /\ up2c' = "read"
    /\ Goto("done")
    /\ UNCHANGED <<client, wire, br, consumed, replies, csock, up, origin, inS,
                   outS, outC, body, held, back, ends>>

\* req.Write(up) returns, and the two goroutines copy the rest.
Forward ==
    /\ pc = "write" /\ body = 0 /\ held = <<>>
    /\ c2up' = "read" /\ up2c' = "read"
    /\ Goto("tunnel")
    /\ UNCHANGED <<client, wire, br, consumed, replies, csock, up, origin, inS,
                   outS, outC, body, held, back, ends>>

\* Fault variant: the copy ends with the client's last piece still unread.
UpReadHasty ==
    /\ c2up = "read"
    /\ \/ /\ br # <<>>
          /\ held' = <<Head(br)>> /\ br' = Tail(br) /\ c2up' = "write"
       \/ /\ cend # "open" \/ csock = "closed"
          /\ c2up' = "close" /\ UNCHANGED <<held, br>>
    /\ UNCHANGED <<client, wire, pc, consumed, replies, csock, up, origin, inS,
                   outS, outC, up2c, body, back, ends>>

\* io.Copy(up, br): what is buffered, then what the socket has.
UpRead ==
    /\ c2up = "read"
    /\ \/ /\ br # <<>>
          /\ held' = <<Head(br)>> /\ br' = Tail(br) /\ c2up' = "write"
       \/ /\ br = <<>> /\ (AtEnd \/ csock = "closed")
          /\ c2up' = "close" /\ UNCHANGED <<held, br>>
    /\ UNCHANGED <<client, wire, pc, consumed, replies, csock, up, origin, inS,
                   outS, outC, up2c, body, back, ends>>

UpWrite ==
    /\ c2up = "write"
    /\ \/ /\ send # "gone" /\ Len(outS) < Cap
          /\ outS' = outS \o held /\ c2up' = "read"
          /\ UNCHANGED <<inS, sreset>>
       \/ /\ send = "gone"
          /\ c2up' \in {"read", "close"}
          /\ inS' \in Cut(inS) /\ sreset' = TRUE
          /\ UNCHANGED outS
    /\ held' = <<>>
    /\ UNCHANGED <<client, wire, br, pc, consumed, replies, csock, up, send, sstall,
                   resp, outC, up2c, body, back, ends>>

\* Fault variant: the goroutine ends without up.Close().
UpEnds ==
    /\ c2up = "close"
    /\ c2up' = "done"
    /\ UNCHANGED <<client, wire, br, pc, consumed, replies, csock, up, origin,
                   inS, outS, outC, up2c, body, held, back, ends>>

UpClose ==
    /\ c2up = "close"
    /\ up' = "closed" /\ outS' \in Left(outS, inS)
    /\ c2up' = "done"
    /\ UNCHANGED <<client, wire, br, pc, consumed, replies, csock, origin, inS,
                   outC, up2c, body, held, back, ends>>

\* Fault variant: the copy ends with the origin's last piece still unread.
DownReadHasty ==
    /\ up2c = "read"
    /\ \/ /\ up = "open" /\ inS # <<>>
          /\ back' = <<Head(inS)>> /\ inS' = Tail(inS) /\ up2c' = "write"
       \/ /\ up = "closed" \/ send # "open"
          /\ up2c' = "close" /\ UNCHANGED <<inS, back>>
    /\ UNCHANGED <<client, wire, br, pc, consumed, replies, csock, up, origin,
                   outS, outC, c2up, body, held, ends>>

\* Fault variant: what is read is left in the buffer.
DownReadPeeks ==
    /\ up2c = "read"
    /\ \/ /\ up = "open" /\ inS # <<>>
          /\ back' = <<Head(inS)>> /\ UNCHANGED inS /\ up2c' = "write"
       \/ /\ up = "closed" \/ (inS = <<>> /\ send # "open")
          /\ up2c' = "close" /\ UNCHANGED <<inS, back>>
    /\ UNCHANGED <<client, wire, br, pc, consumed, replies, csock, up, origin,
                   outS, outC, c2up, body, held, ends>>

\* io.Copy(c, up).  A piece that has arrived is lost if up is closed here.
DownRead ==
    /\ up2c = "read"
    /\ \/ /\ up = "open" /\ inS # <<>>
          /\ back' = <<Head(inS)>> /\ inS' = Tail(inS) /\ up2c' = "write"
       \/ /\ up = "closed" \/ (inS = <<>> /\ send # "open")
          /\ up2c' = "close" /\ UNCHANGED <<inS, back>>
    /\ UNCHANGED <<client, wire, br, pc, consumed, replies, csock, up, origin,
                   outS, outC, c2up, body, held, ends>>

DownWrite ==
    /\ up2c = "write"
    /\ \/ /\ cend # "gone" /\ Len(outC) < Cap
          /\ outC' = outC \o back /\ up2c' = "read"
          /\ UNCHANGED <<wire, creset>>
       \/ /\ cend = "gone"
          /\ up2c' \in {"read", "close"}
          /\ wire' \in Cut(wire) /\ creset' = TRUE
          /\ UNCHANGED outC
    /\ back' = <<>>
    /\ UNCHANGED <<kind, script, sent, cend, cstall, br, pc, consumed, replies, csock,
                   up, origin, inS, outS, c2up, body, held, ends>>

DownClose ==
    /\ up2c = "close"
    /\ csock' = "closed" /\ outC' \in Left(outC, wire)
    /\ up2c' = "done"
    /\ Goto("done")
    /\ UNCHANGED <<client, wire, br, consumed, replies, up, origin, inS, outS,
                   c2up, body, held, back, ends>>

-----------------------------------------------------------------------------
Init ==
    /\ kind \in Kinds
    /\ script \in Scripts[kind]
    /\ sent = 0 /\ cend = "open" /\ cstall = FALSE /\ creset = FALSE
    /\ wire = <<>> /\ br = <<>>
    /\ pc = IF kind = "http" THEN "request" ELSE "hdr"
    /\ consumed = <<>> /\ replies = <<>>
    /\ csock = "open" /\ up = "none"
    /\ send = "open" /\ sstall = FALSE /\ sreset = FALSE /\ resp = MaxResp
    /\ inS = <<>> /\ outS = <<>> /\ outC = <<>>
    /\ up2c = "none" /\ c2up = "none" /\ body = 0 /\ held = <<>> /\ back = <<>>
    /\ got = <<>> /\ seen = <<>>

Handler == \/ Handshake \/ HandshakeFails \/ CloseClient
           \/ Dial \/ BodyRead \/ BodyWrite \/ ForwardFails \/ Forward
Up      == UpRead \/ UpWrite \/ UpClose
Down    == DownRead \/ DownWrite \/ DownClose

Next ==
    \/ ClientSend \/ ClientEnd \/ ClientRead \/ ClientStall
    \/ ServerSend \/ ServerRead \/ ServerEnd \/ ServerStall
    \/ EngineRead \/ EngineReturn
    \/ Fill \/ Handler \/ Up \/ Down

\* The goroutines of the program are scheduled, a peer that has not stalled
\* reads, and the engine returns.  Nothing makes a peer send or go.
Fairness ==
    /\ WF_vars(Fill) /\ WF_vars(Handler) /\ WF_vars(Up) /\ WF_vars(Down)
    /\ WF_vars(ClientRead) /\ WF_vars(ServerRead) /\ WF_vars(EngineReturn)

Spec == Init /\ [][Next]_vars /\ Fairness

-----------------------------------------------------------------------------
(* Properties. *)

\* Every variable has its type; a tunnel's handler is its second goroutine.
TypeOK ==
    /\ kind \in Kinds /\ script \in Scripts[kind] /\ sent \in 0..Len(script)
    /\ cend \in {"open", "fin", "gone"} /\ send \in {"open", "fin", "gone"}
    /\ cstall \in BOOLEAN /\ sstall \in BOOLEAN
    /\ creset \in BOOLEAN /\ sreset \in BOOLEAN /\ body \in 0..Body
    /\ wire \in Seq(Tokens) /\ br \in Seq(Tokens) /\ consumed \in Seq(Tokens)
    /\ csock \in {"open", "closed"} /\ up \in {"none", "open", "closed"}
    /\ Len(wire) <= Cap /\ Len(outS) <= Cap
    /\ resp \in 0..MaxResp /\ Len(inS) <= Cap /\ Len(outC) <= Cap
    /\ c2up \in {"none", "read", "write", "close", "done"}
    /\ up2c \in {"none", "read", "write", "close", "done"}
    /\ pc = "tunnel" <=> up2c \in {"read", "write", "close"}

\* The handshakes of the two protocols and the replies they get.
Socks(m, r) == m \o r \o <<"port">>
Complete ==
    {<<"CONNECT">>} \cup
    {Socks(m, r) : m \in {<<"v5", "methods">>, <<"v5none">>},
                   r \in {<<"connect4", "addr">>, <<"connect6", "addr">>,
                          <<"connectName", "len", "name">>,
                          <<"connectName", "len0">>}}

\* The engine gets a connection only after a complete handshake, answered in
\* full, and the origin of a plain request only after a request; a refused
\* or broken handshake, at any point, ends in neither.
HandedOverAfterHandshake ==
    /\ pc = "engine" =>
           /\ consumed \in Complete
           /\ replies = IF kind = "http" THEN <<"200">> ELSE <<"method", "ok">>
    /\ up # "none" => consumed \in {<<m>> : m \in Plain}

\* The client has ended inside the body of its request.
EndsInBody == cend # "open" /\ Head(script) = "POST" /\ sent <= Body

\* The handler waits for the body, or for an origin that does not read it.
AwaitsBody == pc = "write" /\ (body > 0 \/ sstall)

\* What the client sends, through the handshake to the engine or through the
\* tunnel to the origin of a plain request.
Upward == INSTANCE Pipe WITH
    Piece  <- Tokens,
    MaxLen <- 4,
    in     <- SubSeq(script, 1, sent),
    out    <- IF Head(script) \in Plain THEN got ELSE consumed \o got,
    broken <- \/ creset \/ send # "open" \/ sstall \/ EndsInBody
              \/ up = "none" /\ csock = "closed"
              \/ up = "closed" /\ inS # <<>>,
    waits  <- FALSE

\* What the origin of a plain request sends back.
Downward == INSTANCE Pipe WITH
    Piece  <- 1..MaxResp,
    MaxLen <- MaxResp,
    in     <- [i \in 1..(MaxResp - resp) |-> i],
    out    <- seen,
    broken <- \/ cend # "open" \/ cstall \/ sreset
              \/ csock = "closed" /\ wire # <<>>,
    waits  <- AwaitsBody

\* The engine, or the origin, receives what the client sent, without a gap and
\* without a repetition: nothing that the bufio.Reader read ahead during the
\* handshake is lost before what follows it, however the client's writes are
\* batched.
ClientStream == Upward!InOrder

\* The origin receives all of it while it stays and reads, also from a client
\* that shuts down its sending side, or closes, after its last piece: the
\* tunnel closes only after the last write.  Not so if the client ends inside
\* the body of its request, or resets; nor if the origin has sent something
\* that nobody has read when up is closed, which is a reset, too.
ClientDelivered == Upward!Delivered

\* A client receives what the origin of a plain request sends in its order,
\* each piece once, although either goroutine closes what the other one reads.
OriginStream == Downward!InOrder

\* A client that keeps its own side open and reads receives all that the
\* origin sends, also when the origin closes right after its last piece, or
\* answers before the whole body of the request is there: then when the body
\* is, and not at all if the client waits for the answer to send it.  Nor
\* does it if the origin resets its connection, as one does that closes it
\* with something unread or is written to afterwards; or if the client has
\* sent something that nobody has read when c is closed, which is a reset.
OriginDelivered == Downward!Delivered

Released == csock = "closed" /\ up # "open"

\* Both connections are closed in the end once the client has gone, unless
\* the origin has stopped reading; once the origin has gone, unless the
\* client has, or is silent for good inside the body of its request; and once
\* either has sent its last, unless one of them has stopped reading or the
\* client is silent inside the body.
ConnectionReleased ==
    /\ cend = "gone" ~> Released \/ sstall
    /\ send = "gone" ~> Released \/ cstall \/ []AwaitsBody
    /\ cend = "fin" \/ send = "fin" ~> Released \/ cstall \/ sstall \/ []AwaitsBody

=============================================================================
