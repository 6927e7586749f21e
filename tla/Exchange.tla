------------------------------ MODULE Exchange ------------------------------
(***************************************************************************)
(* One exchange from the request of a client to the page of the admin UI:  *)
(* App decides (module App), the rule it chose makes the response or       *)
(* changes the request (RuleEval), the engine records the flow, and the    *)
(* flow goes as JSON (mcp.go: flowViews) in a WebSocket frame (WSFrame) to *)
(* the page.  The policy does not change meanwhile: SkyTap models that,    *)
(* and Hub the concurrency on the way to the page.  Neither do exchanges   *)
(* affect each other, nor the frames that the browser sends: a behaviour   *)
(* has one exchange, or such frames.                                       *)
(***************************************************************************)
EXTENDS App, RuleEval, WSFrame

CONSTANTS
    Table,      \* the rule table
    ContentOf,  \* ContentOf[id]: the texts of rule id
    ReqBodies,  \* bodies that clients send
    ResBodies,  \* bodies that origins answer
    Lengths,    \* lengths of payloads
    MaxFails,   \* bound: positions at which a script may fail
    MaskKey     \* the masking key of the browser's frames

\* Every rule of the table has an id: Set and Add see to it.
ASSUME ExchangeAssumption ==
    /\ Table \subseteq Entry /\ \A e \in Table : e.rule.id # NoId
    /\ ContentOf \in [RuleIDs -> Content]
    /\ ReqBodies \subseteq Body /\ ResBodies \subseteq Body
    /\ \A n \in Lengths : IsLength(n)
    /\ MaxFails \in Nat /\ MaskKey \in [1..4 -> Byte] /\ MaxAlloc \in Nat

VARIABLES
    x,        \* x[c]: the exchange of connection c
    frames,   \* frames on their way to the page
    flown,    \* history: the flows these frames are to show
    shown,    \* the flow the page shows last
    shownOf,  \* history: the flow it is to show
    inbound   \* a frame of the browser, on its way to handleWS or read by it

exVars == <<x, frames, flown, shown, shownOf, inbound>>
vars   == <<regVars, rules, conn, exVars>>

\* A flow, as the engine records it: the request that was forwarded or
\* answered, and the response.
FlowBodies == [req: Body, res: Body]
NoFlow     == [req |-> NoBody, res |-> NoBody]

\* stage; what the client sent; which scripts fail; what leaves SkyTap in its
\* place, the request to the origin or the response to the client; the flow.
NoExchange == [stage |-> "none", body |-> NoBody, q |-> FALSE, fails |-> {},
               msg |-> NoBody, flow |-> NoFlow]

NoInbound == [hdr |-> <<>>, len |-> 0, op |-> 0, read |-> "no"]

-----------------------------------------------------------------------------
(* mcp.go: flowViews, encodeBody *)

Invalid(b) == b.form = "invalid"
Nul(b)     == b.form = "nul"
IsEmpty(b) == b.form = "none" \/ (b.form = "text" /\ \A i \in DOMAIN b.text : b.text[i] = <<>>)

\* Fault variant: only a zero byte makes a body binary.
encodeBodyUnchecked(b) ==
    [s |-> b, enc |-> IF IsEmpty(b) THEN "" ELSE IF Nul(b) THEN "base64" ELSE "utf8"]

encodeBody(b) ==
    [s |-> b, enc |-> IF IsEmpty(b) THEN ""
                      ELSE IF ~Invalid(b) /\ ~Nul(b) THEN "utf8" ELSE "base64"]

flowView(f) == [req |-> encodeBody(f.req), res |-> encodeBody(f.res)]

\* json.Marshal (external) replaces what is not UTF-8 in a string, and
\* JSON.parse gives the rest back; the page reads a body by its encoding.
Parsed(e) == IF e.enc = "utf8" /\ Invalid(e.s) THEN [e.s EXCEPT !.form = "text"]
             ELSE IF e.enc = "" THEN NoBody ELSE e.s

-----------------------------------------------------------------------------
(* The exchange *)

Ask(c, req, b, q) ==
    /\ \A h \in Hosts : flows[h] = <<>>
    /\ ClientRequest(c, req)
    /\ x' = [x EXCEPT ![c] = [NoExchange EXCEPT !.stage = "asked", !.body = b,
                                                !.q = q]]
    /\ UNCHANGED <<frames, flown, shown, shownOf, inbound>>

Decide(c) ==
    /\ \/ \E h \in Hosts : Accept(c, h) /\ inbound = NoInbound
       \/ Close(c)
       \/ OnConnectObserve(c) \/ OnConnectState(c)
       \/ OnRequestState(c) \/ OnRequestMatch(c) \/ OnRequestMock(c)
    /\ UNCHANGED exVars

\* What OnRequest returns is made: renderRule answers, applyRewrite or nothing
\* is done to the request and the origin answers r.
Answer(c, F, r) ==
    /\ conn[c].pc = "flow" /\ x[c].stage = "asked"
    /\ conn[c].out.kind = "mock" => r = NoBody      \* no origin is asked
    /\ conn[c].out.kind = "forward" => F = {}       \* no script is run
    /\ LET out == conn[c].out
           msg == CASE out.kind = "mock" ->
                           renderRule(ContentOf[out.rule.id], F, x[c].q)
                    [] out.kind = "rewrite" ->
                           applyRewrite(x[c].body, ContentOf[out.rule.id], F, x[c].q)
                    [] out.kind = "forward" -> x[c].body
       IN  x' = [x EXCEPT
                    ![c].stage = "answered", ![c].fails = F, ![c].msg = msg,
                    ![c].flow = IF out.kind = "mock"
                                THEN [req |-> x[c].body, res |-> msg]
                                ELSE [req |-> msg, res |-> r]]
    /\ UNCHANGED <<regVars, rules, conn, frames, flown, shown, shownOf, inbound>>

\* App.OnFlow; the JSON of the flow is n bytes long.
Publish(c, n) ==
    /\ x[c].stage = "answered"
    /\ OnFlow(c)
    /\ frames' = Append(frames, [hdr |-> Header(1, n), len |-> n,
                                 view |-> flowView(x[c].flow)])
    /\ flown' = Append(flown, x[c].flow)
    /\ x' = [x EXCEPT ![c] = NoExchange]
    /\ UNCHANGED <<shown, shownOf, inbound>>

PageRead ==
    /\ frames # <<>>
    /\ LET v == Head(frames).view
       IN  shown' = [req |-> Parsed(v.req), res |-> Parsed(v.res)]
    /\ shownOf' = Head(flown)
    /\ frames' = Tail(frames) /\ flown' = Tail(flown)
    /\ UNCHANGED <<regVars, rules, conn, x, inbound>>

\* The next frame, while the loop of handleWS goes on.
BrowserSend(op, n) ==
    /\ \A h \in Hosts : hits[h] = 0
    /\ \A c \in Conns : conn[c].pc = "idle"
    /\ inbound.hdr = <<>> \/ inbound.read = "loop"
    /\ inbound' = [hdr |-> MaskedHeader(op, n, MaskKey), len |-> n, op |-> op,
                   read |-> "no"]
    /\ UNCHANGED <<regVars, rules, conn, x, frames, flown, shown, shownOf>>

\* How reading a frame ends: the loop goes on, the handler returns, or make
\* fails: with a panic, which net/http recovers from after the deferred calls
\* of handleWS, or for want of memory, which ends the program.
ReadEnds(f) ==
    IF ~f.fits THEN {"panic", "fatal"} ELSE IF f.op = 8 THEN {"left"} ELSE {"loop"}

handleWSRead ==
    /\ inbound.hdr # <<>> /\ inbound.read = "no"
    /\ \E end \in ReadEnds(readHeader(inbound.hdr)) :
           inbound' = [inbound EXCEPT !.read = end]
    /\ UNCHANGED <<regVars, rules, conn, x, frames, flown, shown, shownOf>>

-----------------------------------------------------------------------------

Init ==
    /\ states \in {[h \in Hosts |-> s] : s \in Promoted}
    /\ hits = [h \in Hosts |-> 0]
    /\ flows = [h \in Hosts |-> <<>>]
    /\ rules = Table
    /\ AppInit
    /\ x = [c \in Conns |-> NoExchange]
    /\ frames = <<>> /\ flown = <<>>
    /\ shown = NoFlow /\ shownOf = NoFlow
    /\ inbound = NoInbound

Next ==
    \/ \E c \in Conns :
           \/ Decide(c)
           \/ \E req \in Requests, b \in ReqBodies, q \in BOOLEAN : Ask(c, req, b, q)
           \/ \E F \in ScriptFailures(MaxFails), r \in ResBodies : Answer(c, F, r)
           \/ \E n \in Lengths : Publish(c, n)
    \/ PageRead
    \/ \E op \in {1, 8, 10}, n \in Lengths : BrowserSend(op, n)
    \/ handleWSRead

Spec == Init /\ [][Next]_vars

-----------------------------------------------------------------------------
(* What must hold *)

\* The variables have their types; a header is made of bytes and has the room
\* for a length of none, two or eight, and for the mask of the browser.
TypeOK ==
    /\ AppTypeOK /\ RegistryTypeOK /\ RuleTypeOK
    /\ \A c \in Conns : /\ x[c].stage \in {"none", "asked", "answered"}
                        /\ x[c].msg \in Body /\ x[c].flow \in FlowBodies
    /\ \A i \in DOMAIN frames : /\ frames[i].hdr \in Seq(Byte)
                                /\ Len(frames[i].hdr) \in {2, 4, 10}
    /\ inbound.hdr \in Seq(Byte) /\ Len(inbound.hdr) \in {0, 6, 8, 14}
    /\ inbound.read \in {"no", "loop", "left", "panic", "fatal"}
    /\ shown \in FlowBodies

\* Pieces that are still to be replaced.
Unresolved == Templates \cup Dotted \cup {Marker}

Applied(c) == ContentOf[conn[c].out.rule.id]

\* The rule that was applied makes a body, and of this text, in which every
\* marker stands for what its script yields.
MakesBody(c) ==
    \/ conn[c].out.kind = "mock"
    \/ conn[c].out.kind = "rewrite" /\ Replaces(Applied(c))
Source(c) ==
    LET k == Applied(c)
        s == IF conn[c].out.kind = "mock" THEN k.body ELSE k.rewriteBody
    IN  IF k.script # <<>> THEN <<k.out>>
        ELSE [i \in DOMAIN s |-> IF s[i] = Marker THEN k.out ELSE <<s[i]>>]

\* If no script fails and the text is a proper template, the body of a mock
\* response or of a rewritten request has nothing left to be replaced,
\* whatever markers and templates it mixes and also if a script yields a
\* template; and its literals are where they were (evalBody runs the scripts
\* first because the template parser rejects their markers).
RenderedInFull ==
    \A c \in Conns :
        /\ x[c].stage = "answered" /\ MakesBody(c)
        /\ x[c].fails = {} /\ ~Holds(Source(c), Rejected)
        => LET s == Source(c)
               t == x[c].msg.text
           IN  /\ x[c].msg.form = "text"
               /\ ~Holds(t, Unresolved)
               /\ DOMAIN t = DOMAIN s
               /\ \A i \in DOMAIN s :
                     /\ DOMAIN t[i] = DOMAIN s[i]
                     /\ \A j \in DOMAIN s[i] : s[i][j] \in Literals => t[i][j] = s[i][j]

\* No number in the value v is changed by being read as a float64.
Exact(v) == \A i \in DOMAIN v : \A j \in DOMAIN v[i] : Decoded(v[i][j]) = v[i][j]

\* A rewrite_json rule changes the keys it names; where its scripts succeed,
\* no expression and no marker is left in their place.  Of an object that
\* applyRewrite can read it neither loses another key nor adds one, and the
\* values of the others stay what they are, up to numbers that a float64 does
\* not hold.  Any other body, also an object longer than 1 MiB or with a number
\* out of range, is replaced by the named keys alone: nothing is made of a part
\* of it.
MergeKeeps ==
    \A c \in Conns :
        /\ x[c].stage = "answered" /\ conn[c].out.kind = "rewrite"
        /\ ~Replaces(Applied(c)) /\ Named(Applied(c).rewriteJSON) # {}
        => LET k    == Applied(c)
               made == x[c].msg.obj
               was  == x[c].body
           IN  /\ x[c].msg.form = "json"
               /\ \A n \in Named(k.rewriteJSON) :
                     /\ n \in Named(made)
                     /\ x[c].fails = {} /\ ~Holds(<<k.out>>, {Marker, "="}) =>
                           /\ ~Holds(made[n], {Marker})
                           /\ IsExpr(k.rewriteJSON[n]) => ~Holds(made[n], {"="})
               /\ Decodes(was) =>
                     \A n \in Keys \ Named(k.rewriteJSON) :
                         /\ n \in Named(made) <=> n \in Named(was.obj)
                         /\ n \in Named(made) /\ Exact(was.obj[n]) => made[n] = was.obj[n]
               /\ ~Decodes(was) => Named(made) = Named(k.rewriteJSON)

\* The page shows the bodies of the flow as they went over the wire, text,
\* JSON or binary: the way of encodeBody, json.Marshal and JSON.parse loses
\* nothing.  (An empty body is the same as none.)
ShownIsRecorded ==
    LET Same(a, b) == a = b \/ (IsEmpty(a) /\ IsEmpty(b))
    IN  Same(shown.req, shownOf.req) /\ Same(shown.res, shownOf.res)

\* A browser reads every frame to its end and no further, at every length.
FramesDelimited ==
    \A i \in DOMAIN frames :
        InStep(frames[i].hdr, frames[i].len) /\ BrowserAccepts(frames[i].hdr, frames[i].len)

\* handleWS takes every frame of the browser, masked and of any length, to end
\* where it ends; it leaves its loop exactly after a close frame, unless there
\* is no memory for the payload, and then goes on with no other frame.
ClientFramesRead ==
    inbound.hdr # <<>> =>
        /\ InStep(inbound.hdr, inbound.len)
        /\ inbound.len <= MaxAlloc =>
              inbound.read \in {"no", IF inbound.op = 8 THEN "left" ELSE "loop"}
        /\ inbound.len > MaxAlloc => inbound.read # "loop"

=============================================================================
