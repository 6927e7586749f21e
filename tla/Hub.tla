-------------------------------- MODULE Hub --------------------------------
(***************************************************************************)
(* Live flows: App.OnFlow records a flow in the registry and publishes it  *)
(* (app.go, hub.go) to the WebSocket clients, each of which first gets a   *)
(* snapshot of the registry (ws.go), and the page of the admin UI shows    *)
(* what arrives (ui/index.html).                                           *)
(*                                                                         *)
(* Goroutines: a publisher per connection that finished an exchange, a     *)
(* handler per WebSocket client.  Hub.mu guards the set of clients and is  *)
(* held for the whole of Publish; wsConn.wmu is held for one frame, which  *)
(* is two writes, header and payload.  A write blocks while the socket is  *)
(* full and fails once the connection is broken.                           *)
(*                                                                         *)
(* The registry is reduced to the hosts it lists and the flows it holds    *)
(* for each host, listed or not; its ring is as long as the flows of a     *)
(* run.                                                                    *)
(***************************************************************************)
EXTENDS Integers, Sequences, FiniteSets

CONSTANTS Publishers,  \* goroutines that call OnFlow
          Clients,     \* WebSocket clients, and the goroutines serving them
          Nobody,      \* holder of a free mutex
          FlowHosts,   \* hosts that have flows
          MaxFlows,    \* flows recorded in a run
          OldFlows,    \* OldFlows[h]: flows of h recorded before the run
          SockCap,     \* writes a socket holds before it blocks
          MaxLost,     \* bound: clients that stop reading or lose their
                       \* connection
          MaxForgets   \* bound: admin requests that forget flows

Procs   == Publishers \cup Clients
FlowIds == 1..MaxFlows
Flow    == [id: FlowIds, host: FlowHosts]

\* A frame is a snapshot of flows or a single live flow.
Frame   == [type: {"snapshot", "flow"}, flows: Seq(Flow)]
Token   == [part: {"header", "payload"}, frame: Frame]
NoFrame == [type |-> "flow", flows |-> <<>>]

ASSUME HubAssumption ==
    /\ Publishers \cap Clients = {}
    /\ Nobody \notin Procs
    /\ MaxFlows \in Nat /\ OldFlows \in [FlowHosts -> Seq(Flow)]
    /\ \A h \in FlowHosts : \A i \in DOMAIN OldFlows[h] : OldFlows[h][i].host = h
    /\ SockCap \in Nat \ {0}
    /\ MaxLost \in Nat /\ MaxForgets \in Nat

VARIABLES
    ring,     \* ring[h]: the registry's flows of h
    listed,   \* the hosts that Domains lists
    used,     \* the ids of flows so far
    forgets,  \* admin requests that forgot flows so far
    mu,       \* Hub.mu: its holder
    clients,  \* Hub.clients
    wmu,      \* wmu[c]: holder of c's write lock
    loc,      \* loc[p]: control point and locals of goroutine p
    net,      \* net[c]: "open", "stalled" (open, nobody reads) or "broken"
    sock,     \* sock[c]: written, not yet read
    page,     \* page[c]: the browser
    sent,     \* history: sent[c]: frames completely written to c
    hidden    \* history: hidden[c]: flows of hosts that were not listed when
              \* c's handler called Domains

registry == <<ring, listed, used, forgets>>

vars == <<ring, listed, used, forgets, mu, clients, wmu, loc, net, sock, page,
          sent, hidden>>

Elems(s) == {s[i] : i \in DOMAIN s}

Recorded == UNION {Elems(ring[h]) : h \in FlowHosts}

\* pc; the frame being sent, to whom; hosts or clients still to visit.
Local == [pc: {"idle", "publish", "fanout", "header", "payload",
               "off", "add", "domains", "gather", "read", "remove", "close",
               "gone"},
          frame: Frame, to: Clients \cup {Nobody},
          todo: SUBSET (Clients \cup FlowHosts)]

\* The browser: half a frame read, whether frames were ever mixed, sawSnapshot
\* and flows of the script.
Page == [half: Frame, torn: BOOLEAN, saw: BOOLEAN, shown: SUBSET Flow]

Start(pc) == [pc |-> pc, frame |-> NoFrame, to |-> Nobody, todo |-> {}]

Init ==
    /\ ring = OldFlows
    /\ listed \in SUBSET FlowHosts
    /\ used = {f.id : f \in Recorded}
    /\ forgets = 0
    /\ mu = Nobody
    /\ clients = {}
    /\ wmu = [c \in Clients |-> Nobody]
    /\ loc = [p \in Procs |-> Start(IF p \in Publishers THEN "idle" ELSE "off")]
    /\ net = [c \in Clients |-> "open"]
    /\ sock = [c \in Clients |-> <<>>]
    /\ page = [c \in Clients |-> [half |-> NoFrame, torn |-> FALSE,
                                  saw |-> FALSE, shown |-> {}]]
    /\ sent = [c \in Clients |-> {}]
    /\ hidden = [c \in Clients |-> {}]

-----------------------------------------------------------------------------
(* wsConn.send and writeWSFrame, called by p with its frame.               *)

\* Fault variant: the frame is sent without holding wmu.
SendToUnlocked(p, c, frame, todo) ==
    /\ loc' = [loc EXCEPT ![p] = [pc |-> "header", frame |-> frame, to |-> c,
                                  todo |-> todo]]
    /\ UNCHANGED wmu

\* Lock c's wmu and begin.
SendTo(p, c, frame, todo) ==
    /\ wmu[c] = Nobody
    /\ wmu' = [wmu EXCEPT ![c] = p]
    /\ loc' = [loc EXCEPT ![p] = [pc |-> "header", frame |-> frame, to |-> c,
                                  todo |-> todo]]

\* Where p goes on once send has returned: a publisher to its next client, a
\* handler to reading.
AfterSend(p) ==
    [Start(IF p \in Publishers THEN "fanout" ELSE "read")
        EXCEPT !.frame = IF p \in Publishers THEN loc[p].frame ELSE NoFrame,
               !.todo = loc[p].todo]

CanWrite(c) == net[c] # "broken" /\ Len(sock[c]) < SockCap

Put(p, part) ==
    sock' = [sock EXCEPT ![loc[p].to] =
                Append(@, [part |-> part, frame |-> loc[p].frame])]

WriteHeader(p) ==
    /\ loc[p].pc = "header"
    /\ CanWrite(loc[p].to)
    /\ Put(p, "header")
    /\ loc' = [loc EXCEPT ![p].pc = "payload"]
    /\ UNCHANGED <<registry, mu, clients, wmu, net, page, sent, hidden>>

WritePayload(p) ==
    /\ loc[p].pc = "payload"
    /\ CanWrite(loc[p].to)
    /\ Put(p, "payload")
    /\ sent' = [sent EXCEPT ![loc[p].to] = @ \cup {loc[p].frame}]
    /\ wmu' = [wmu EXCEPT ![loc[p].to] = Nobody]
    /\ loc' = [loc EXCEPT ![p] = AfterSend(p)]
    /\ UNCHANGED <<registry, mu, clients, net, page, hidden>>

\* Fault variant: the error path of send forgets to unlock.
WriteFailsLocked(p) ==
    /\ loc[p].pc \in {"header", "payload"}
    /\ net[loc[p].to] = "broken"
    /\ loc' = [loc EXCEPT ![p] = AfterSend(p)]
    /\ UNCHANGED <<registry, mu, clients, wmu, net, sock, page, sent, hidden>>

\* Fault variant: a write that failed is tried again.
WriteFailsRetried(p) ==
    /\ loc[p].pc \in {"header", "payload"}
    /\ net[loc[p].to] = "broken"
    /\ UNCHANGED vars

\* The error of a write is ignored by send.
WriteFails(p) ==
    /\ loc[p].pc \in {"header", "payload"}
    /\ net[loc[p].to] = "broken"
    /\ wmu' = [wmu EXCEPT ![loc[p].to] = Nobody]
    /\ loc' = [loc EXCEPT ![p] = AfterSend(p)]
    /\ UNCHANGED <<registry, mu, clients, net, sock, page, sent, hidden>>

-----------------------------------------------------------------------------
(* App.OnFlow: AddFlow, then Publish.                                      *)

LiveFrame(f) == [type |-> "flow", flows |-> <<f>>]

\* The host was listed when its connection began, and need not be any more.
AddFlow(p, h) ==
    /\ loc[p].pc = "idle"
    /\ \E id \in FlowIds \ used :
           LET f == [id |-> id, host |-> h]
           IN  /\ \A i \in FlowIds : i < id => i \in used
               /\ ring' = [ring EXCEPT ![h] = Append(@, f)]
               /\ used' = used \cup {id}
               /\ loc' = [loc EXCEPT ![p] = [Start("publish")
                                                EXCEPT !.frame = LiveFrame(f)]]
    /\ UNCHANGED <<listed, forgets, mu, clients, wmu, net, sock, page, sent, hidden>>

\* Fault variant: a client that is just being written to is passed over.
PublishSkipsBusy(p) ==
    /\ loc[p].pc = "publish"
    /\ mu = Nobody
    /\ mu' = p
    /\ loc' = [loc EXCEPT ![p].pc = "fanout",
                          ![p].todo = {c \in clients : wmu[c] = Nobody}]
    /\ UNCHANGED <<registry, clients, wmu, net, sock, page, sent, hidden>>

PublishLock(p) ==
    /\ loc[p].pc = "publish"
    /\ mu = Nobody
    /\ mu' = p
    /\ loc' = [loc EXCEPT ![p].pc = "fanout", ![p].todo = clients]
    /\ UNCHANGED <<registry, clients, wmu, net, sock, page, sent, hidden>>

PublishSend(p, c) ==
    /\ loc[p].pc = "fanout"
    /\ c \in loc[p].todo
    /\ SendTo(p, c, loc[p].frame, loc[p].todo \ {c})
    /\ UNCHANGED <<registry, mu, clients, net, sock, page, sent, hidden>>

PublishUnlock(p) ==
    /\ loc[p].pc = "fanout"
    /\ loc[p].todo = {}
    /\ mu' = Nobody
    /\ loc' = [loc EXCEPT ![p] = Start("idle")]
    /\ UNCHANGED <<registry, clients, wmu, net, sock, page, sent, hidden>>

-----------------------------------------------------------------------------
(* handleWS.                                                               *)

Upgrade(c) ==
    /\ loc[c].pc = "off"
    /\ loc' = [loc EXCEPT ![c].pc = "add"]
    /\ UNCHANGED <<registry, mu, clients, wmu, net, sock, page, sent, hidden>>

HubAdd(c) ==
    /\ loc[c].pc = "add"
    /\ mu = Nobody
    /\ clients' = clients \cup {c}
    /\ loc' = [loc EXCEPT ![c].pc = "domains"]
    /\ UNCHANGED <<registry, mu, wmu, net, sock, page, sent, hidden>>

\* reg.Domains(), then reg.Flows(h) for each host in map order.
SnapshotDomains(c) ==
    /\ loc[c].pc = "domains"
    /\ loc' = [loc EXCEPT ![c] = [Start("gather") EXCEPT
                  !.frame = [type |-> "snapshot", flows |-> <<>>],
                  !.todo = listed]]
    /\ hidden' = [hidden EXCEPT ![c] =
                     UNION {Elems(ring[h]) : h \in FlowHosts \ listed}]
    /\ UNCHANGED <<registry, mu, clients, wmu, net, sock, page, sent>>

SnapshotFlows(c, h) ==
    /\ loc[c].pc = "gather"
    /\ h \in loc[c].todo
    /\ loc' = [loc EXCEPT ![c].frame.flows = @ \o ring[h],
                          ![c].todo = @ \ {h}]
    /\ UNCHANGED <<registry, mu, clients, wmu, net, sock, page, sent, hidden>>

SnapshotSend(c) ==
    /\ loc[c].pc = "gather"
    /\ loc[c].todo = {}
    /\ SendTo(c, c, loc[c].frame, {})
    /\ UNCHANGED <<registry, mu, clients, net, sock, page, sent, hidden>>

\* Fault variant: the loop goes on after an error.
ReadFailsIgnored(c) ==
    /\ loc[c].pc = "read"
    /\ net[c] = "broken"
    /\ UNCHANGED vars

\* readWSFrame fails once the client has closed or the connection is lost;
\* what a client sends before that is read and ignored.
ReadFails(c) ==
    /\ loc[c].pc = "read"
    /\ net[c] = "broken"
    /\ loc' = [loc EXCEPT ![c].pc = "remove"]
    /\ UNCHANGED <<registry, mu, clients, wmu, net, sock, page, sent, hidden>>

HubRemove(c) ==
    /\ loc[c].pc = "remove"
    /\ mu = Nobody
    /\ clients' = clients \ {c}
    /\ loc' = [loc EXCEPT ![c].pc = "close"]
    /\ UNCHANGED <<registry, mu, wmu, net, sock, page, sent, hidden>>

ConnClose(c) ==
    /\ loc[c].pc = "close"
    /\ loc' = [loc EXCEPT ![c] = Start("gone")]
    /\ sock' = [sock EXCEPT ![c] = <<>>]
    /\ UNCHANGED <<registry, mu, clients, wmu, net, page, sent, hidden>>

-----------------------------------------------------------------------------
(* The rest of the program changes the registry.                           *)

Elsewhere == UNCHANGED <<mu, clients, wmu, loc, net, sock, page, sent, hidden>>

\* A connection to h is observed, or its state is set.
Observe(h) ==
    /\ h \notin listed
    /\ listed' = listed \cup {h}
    /\ UNCHANGED <<ring, used, forgets>>
    /\ Elsewhere

\* An admin request empties the rings of hs and takes gone off the list.
Forget(hs, gone) ==
    /\ forgets < MaxForgets
    /\ forgets' = forgets + 1
    /\ ring' = [h \in FlowHosts |-> IF h \in hs THEN <<>> ELSE ring[h]]
    /\ listed' = listed \ gone
    /\ UNCHANGED used
    /\ Elsewhere

DeleteHost(h)  == Forget({h}, {h})
ClearFlows(hs) == Forget(hs, {})      \* of one host, or without a host of all
Reset          == Forget(FlowHosts, FlowHosts)

-----------------------------------------------------------------------------
(* The browser and the network.                                            *)

\* ws.onmessage.  json.Marshal writes an empty snapshot as "flows": null,
\* which Array.isArray rejects.
OnMessage(pg, frame) ==
    CASE frame.type = "snapshot" /\ frame.flows # <<>> ->
            [pg EXCEPT !.saw = TRUE, !.shown = Elems(frame.flows)]
      [] frame.type = "flow" /\ pg.saw ->
            [pg EXCEPT !.shown = @ \cup Elems(frame.flows)]
      [] OTHER -> pg

Receive(pg, tok) ==
    IF tok.part = "header"
    THEN [pg EXCEPT !.half = tok.frame, !.torn = @ \/ pg.half # NoFrame]
    ELSE [OnMessage(pg, tok.frame)
             EXCEPT !.half = NoFrame, !.torn = @ \/ pg.half # tok.frame]

BrowserRead(c) ==
    /\ net[c] = "open"
    /\ sock[c] # <<>>
    /\ sock' = [sock EXCEPT ![c] = Tail(@)]
    /\ page' = [page EXCEPT ![c] = Receive(@, Head(sock[c]))]
    /\ UNCHANGED <<registry, mu, clients, wmu, loc, net, sent, hidden>>

MayLose(c) == Cardinality({d \in Clients : net[d] # "open"} \cup {c}) <= MaxLost

\* The page stops reading (a suspended tab, a paused debugger) but its
\* connection stays open.
Stall(c) ==
    /\ net[c] = "open" /\ loc[c].pc # "off" /\ MayLose(c)
    /\ net' = [net EXCEPT ![c] = "stalled"]
    /\ UNCHANGED <<registry, mu, clients, wmu, loc, sock, page, sent, hidden>>

Break(c) ==
    /\ net[c] \in {"open", "stalled"} /\ loc[c].pc # "off" /\ MayLose(c)
    /\ net' = [net EXCEPT ![c] = "broken"]
    /\ UNCHANGED <<registry, mu, clients, wmu, loc, sock, page, sent, hidden>>

-----------------------------------------------------------------------------

Write(p) == WriteHeader(p) \/ WritePayload(p) \/ WriteFails(p)

Publisher(p) ==
    \/ PublishLock(p)
    \/ \E c \in Clients : PublishSend(p, c)
    \/ PublishUnlock(p)
    \/ Write(p)

Handler(c) ==
    \/ HubAdd(c)
    \/ SnapshotDomains(c)
    \/ \E h \in FlowHosts : SnapshotFlows(c, h)
    \/ SnapshotSend(c)
    \/ Write(c)
    \/ ReadFails(c) \/ HubRemove(c) \/ ConnClose(c)

Next ==
    \/ \E p \in Publishers : \/ \E h \in FlowHosts : AddFlow(p, h)
                             \/ Publisher(p)
    \/ \E c \in Clients : \/ Upgrade(c)
                          \/ Handler(c)
                          \/ BrowserRead(c)
                          \/ Stall(c)
                          \/ Break(c)
    \/ \E h \in FlowHosts : Observe(h) \/ DeleteHost(h)
    \/ \E hs \in {{h} : h \in FlowHosts} \cup {FlowHosts} : ClearFlows(hs)
    \/ Reset

\* The Go scheduler runs every goroutine that can run, and a browser that has
\* not stalled reads.  Nothing makes a page connect, a flow happen, or a
\* connection stall or break.  Weak fairness is enough: a mutex is contended
\* only as often as there are flows and clients, and then stays free.
Fairness ==
    /\ \A p \in Publishers : WF_vars(Publisher(p))
    /\ \A c \in Clients : WF_vars(Handler(c)) /\ WF_vars(BrowserRead(c))

Spec == Init /\ [][Next]_vars /\ Fairness

-----------------------------------------------------------------------------
(* Properties.                                                             *)

Shapes ==
    /\ ring \in [FlowHosts -> Seq(Flow)]
    /\ \A h \in FlowHosts : \A f \in Elems(ring[h]) : f.host = h
    /\ listed \subseteq FlowHosts
    /\ used \subseteq FlowIds
    /\ forgets \in 0..MaxForgets
    /\ mu \in Publishers \cup {Nobody}
    /\ clients \subseteq Clients
    /\ wmu \in [Clients -> Procs \cup {Nobody}]
    /\ loc \in [Procs -> Local]
    /\ net \in [Clients -> {"open", "stalled", "broken"}]
    /\ sock \in [Clients -> Seq(Token)]
    /\ \A c \in Clients : Len(sock[c]) <= SockCap
    /\ page \in [Clients -> Page]
    /\ sent \in [Clients -> SUBSET Frame]
    /\ hidden \in [Clients -> SUBSET Flow]

\* Every variable has its type; a socket takes no more than it holds; and
\* whoever holds a mutex is in the section that it guards, a publisher within
\* Publish and a writer within send to that client, also when writes fail.
TypeOK ==
    /\ Shapes
    /\ mu # Nobody => loc[mu].pc \in {"fanout", "header", "payload"}
    /\ \A c \in Clients : wmu[c] # Nobody =>
           loc[wmu[c]].pc \in {"header", "payload"} /\ loc[wmu[c]].to = c

\* A client never receives the payload of one frame after the header of
\* another: wmu keeps the two writes of a frame together although a handler
\* sends its snapshot while publishers send live flows.
FramesIntact == \A c \in Clients : ~page[c].torn

\* p has recorded f and not yet finished publishing it to c.
Publishing(p, f, c) ==
    /\ loc[p].frame = LiveFrame(f)
    /\ \/ loc[p].pc = "publish"
       \/ c \in loc[p].todo \cup {loc[p].to}

\* No flow is missed on the wire: once the snapshot of a client that is still
\* connected has been sent, every flow the registry holds has been sent to it,
\* in the snapshot or by itself, or is about to be, but for the flows that were
\* filed under an unlisted host when the handler called Domains.  This rests on
\* the order of the steps on both sides: OnFlow records before it publishes,
\* handleWS registers with the hub before it reads the registry.
NothingMissed ==
    \A c \in Clients : \A f \in Recorded \ hidden[c] :
        /\ loc[c].pc = "read"
        /\ net[c] # "broken"
        => \/ \E frame \in sent[c] : f \in Elems(frame.flows)
           \/ \E p \in Publishers : Publishing(p, f, c)

\* OnFlow returns, so a connection goes on serving its client, unless some
\* client has stopped reading with its connection open: only that can keep
\* Hub.mu for ever.
OnFlowReturns ==
    \A p \in Publishers :
        loc[p].pc = "publish" ~>
            (loc[p].pc = "idle" \/ \E c \in Clients : net[c] = "stalled")

\* The handler of a broken connection removes its client from the hub and ends,
\* with the same exception: its deferred remove needs Hub.mu.
HandlerLeaves ==
    \A c \in Clients :
        (loc[c].pc = "read" /\ net[c] = "broken") ~>
            (loc[c].pc = "gone" \/ \E d \in Clients : net[d] = "stalled")

\* The page shows the flows ("| `GET /ws?token=` | Live flows |", README.md):
\* once everything sent to a connected page has been read, every recorded
\* flow that the handler could have found is on it.
LiveFlowsShown ==
    \A c \in Clients :
        /\ loc[c].pc = "read" /\ net[c] = "open" /\ sock[c] = <<>>
        /\ \A p \in Publishers : loc[p].pc = "idle"
        => Recorded \ hidden[c] \subseteq page[c].shown

=============================================================================
