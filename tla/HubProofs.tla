----------------------------- MODULE HubProofs -----------------------------
(***************************************************************************)
(* Proofs about live flows, for any number of publishers, clients, hosts   *)
(* and flows, any size of a socket and any number of lost connections.     *)
(***************************************************************************)
EXTENDS Hub, TLAPS

USE DEF registry

Sending == {"header", "payload"}

-----------------------------------------------------------------------------
(* The inductive invariants.                                               *)

\* Where a publisher may be, and what its locals hold there.
PublisherOK(p) ==
    /\ loc[p].pc \in {"idle", "publish", "fanout"} \cup Sending
    /\ loc[p].pc \in Sending <=> loc[p].to \in Clients
    /\ loc[p].pc = "idle" => loc[p].todo = {}

\* The same of a client's handler: it sends to its own client only, the hub
\* knows the client while it is served, and it leaves a broken connection
\* only.
HandlerOK(c) ==
    /\ loc[c].pc \in {"off", "add", "domains", "gather", "read", "remove",
                      "close", "gone"} \cup Sending
    /\ loc[c].to = IF loc[c].pc \in Sending THEN c ELSE Nobody
    /\ loc[c].pc \in {"domains", "gather", "read"} \cup Sending => c \in clients
    /\ loc[c].pc \in {"remove", "close", "gone"} => net[c] = "broken"

ControlOK ==
    /\ \A p \in Publishers : PublisherOK(p)
    /\ \A c \in Clients : HandlerOK(c)

\* Hub.mu is held for the whole of Publish and a client's wmu for one frame,
\* by exactly the goroutine that is there: both exclude each other's holders.
LocksOK ==
    /\ \A p \in Publishers : mu = p <=> loc[p].pc \in {"fanout"} \cup Sending
    /\ \A p \in Procs, c \in Clients :
           wmu[c] = p <=> loc[p].pc \in Sending /\ loc[p].to = c

\* The frame whose header is the i-th write into c's socket, and whose payload
\* is still to come; for i = 0 the one the page has half read.
HalfAt(c, i) ==
    IF i = 0 THEN page[c].half
    ELSE IF sock[c][i].part = "header" THEN sock[c][i].frame ELSE NoFrame

\* The frame whose header has been written to c, and not yet its payload.
HalfWritten(c) ==
    IF wmu[c] # Nobody /\ loc[wmu[c]].pc = "payload" THEN loc[wmu[c]].frame
    ELSE NoFrame

\* Headers and payloads alternate, from what the page has read through the
\* socket to what is being written, as long as the connection is not broken.
Alternates(c) ==
    net[c] # "broken" =>
        /\ \A i \in 1..Len(sock[c]) :
               HalfAt(c, i - 1) = IF sock[c][i].part = "header" THEN NoFrame
                                  ELSE sock[c][i].frame
        /\ HalfAt(c, Len(sock[c])) = HalfWritten(c)

StreamOK == \A c \in Clients : ~page[c].torn /\ Alternates(c)

\* A recorded flow reaches c: it has been sent to it, a publisher has it and
\* has not yet passed c, or c's handler has its snapshot still to make, to
\* finish or to send.
Reaches(f, c) ==
    \/ \E frame \in sent[c] : f \in Elems(frame.flows)
    \/ \E p \in Publishers : Publishing(p, f, c)
    \/ loc[c].pc = "domains"
    \/ /\ loc[c].pc = "gather"
       /\ \E h \in loc[c].todo \cap FlowHosts : f \in Elems(ring[h])
    \/ loc[c].pc \in {"gather"} \cup Sending /\ f \in Elems(loc[c].frame.flows)

Served(c) == loc[c].pc \in {"domains", "gather", "read"} \cup Sending
             /\ net[c] # "broken"

\* The host of f was not listed when c's handler asked.
Excused(f, c) == loc[c].pc # "domains" /\ f \in hidden[c]

ReachesAll ==
    \A c \in Clients, f \in Recorded : Served(c) => Reaches(f, c) \/ Excused(f, c)

-----------------------------------------------------------------------------
(* Sequences and frames.                                                   *)

LEMMA ElemsAppend ==
    ASSUME NEW S, NEW s \in Seq(S), NEW x \in S
    PROVE  Elems(Append(s, x)) = Elems(s) \cup {x}
<1> DEFINE a == Append(s, x)
<1>1. /\ DOMAIN a = 1..(Len(s) + 1) /\ DOMAIN s = 1..Len(s) /\ Len(s) \in Nat
      /\ a[Len(s) + 1] = x
      /\ \A i \in 1..Len(s) : a[i] = s[i]
  OBVIOUS
<1> HIDE DEF a
<1>2. Elems(a) \subseteq Elems(s) \cup {x}
  BY <1>1 DEF Elems
<1>3. Elems(s) \cup {x} \subseteq Elems(a)
  BY <1>1 DEF Elems
<1> QED BY <1>2, <1>3 DEF a

LEMMA ElemsConcat ==
    ASSUME NEW S, NEW s \in Seq(S), NEW t \in Seq(S)
    PROVE  Elems(s \o t) = Elems(s) \cup Elems(t)
<1>1. Elems(s \o t) \subseteq Elems(s) \cup Elems(t)
  BY DEF Elems
<1>2. Elems(s) \subseteq Elems(s \o t)
  BY DEF Elems
<1>3. ASSUME NEW i \in DOMAIN t PROVE t[i] \in Elems(s \o t)
  <2>1. Len(s) + i \in DOMAIN (s \o t) /\ (s \o t)[Len(s) + i] = t[i]
    OBVIOUS
  <2> QED BY <2>1 DEF Elems
<1>4. Elems(t) \subseteq Elems(s \o t)
  BY <1>3 DEF Elems
<1> QED BY <1>1, <1>2, <1>4

LEMMA FrameFacts ==
    /\ NoFrame \in Frame
    /\ \A f \in Flow : LiveFrame(f) \in Frame
    /\ \A f, g \in Flow : LiveFrame(f) = LiveFrame(g) => f = g
    /\ \A fs \in Seq(Flow) : [type |-> "snapshot", flows |-> fs] \in Frame
<1>1. NoFrame \in Frame /\ (\A f \in Flow : LiveFrame(f) \in Frame)
      /\ \A fs \in Seq(Flow) : [type |-> "snapshot", flows |-> fs] \in Frame
  BY DEF NoFrame, Frame, LiveFrame
<1>2. \A f, g \in Flow : LiveFrame(f) = LiveFrame(g) => f = g
  BY DEF LiveFrame
<1> QED BY <1>1, <1>2

LEMMA StartType ==
    ASSUME NEW l \in {"idle", "publish", "fanout", "off", "gather", "read", "gone"}
    PROVE  Start(l) \in Local
BY FrameFacts DEF Start, Local

-----------------------------------------------------------------------------
(* Types.                                                                  *)

\* What the page holds after it has read one more part of a frame.
LEMMA ReceiveType ==
    ASSUME NEW pg \in Page, NEW tok \in Token
    PROVE  Receive(pg, tok) \in Page
<1>1. tok.frame \in Frame /\ Elems(tok.frame.flows) \subseteq Flow
  <2>1. tok.frame \in Frame
    BY DEF Token
  <2>2. tok.frame.flows \in Seq(Flow)
    BY <2>1 DEF Frame
  <2> QED BY <2>1, <2>2 DEF Elems
<1>2. OnMessage(pg, tok.frame) \in Page
  BY <1>1 DEF OnMessage, Page
<1>3. CASE tok.part = "header"
  BY <1>1, <1>3 DEF Receive, Page
<1>4. CASE tok.part # "header"
  <2> DEFINE q == OnMessage(pg, tok.frame)
  <2>1. Receive(pg, tok) = [q EXCEPT !.half = NoFrame,
                                     !.torn = @ \/ pg.half # tok.frame]
    BY <1>4 DEF Receive
  <2>2. q \in Page
    BY <1>2
  <2> HIDE DEF q
  <2> QED BY <2>1, <2>2, FrameFacts DEF Page
<1> QED BY <1>3, <1>4

LEMMA WriteType ==
    ASSUME Shapes, ControlOK, NEW p \in Procs, Write(p)
    PROVE  Shapes'
<1>0. loc[p] \in Local /\ loc[p].frame \in Frame
  BY DEF Shapes, Local
<1>1. loc[p].pc \in Sending => loc[p].to \in Clients
  BY DEF ControlOK, PublisherOK, HandlerOK, Procs
<1>2. AfterSend(p) \in Local
  BY <1>0, FrameFacts DEF AfterSend, Start, Local
<1>3. ASSUME NEW part \in {"header", "payload"}, CanWrite(loc[p].to), Put(p, part),
             loc[p].to \in Clients
      PROVE  /\ sock' \in [Clients -> Seq(Token)]
             /\ \A c \in Clients : Len(sock'[c]) <= SockCap
  <2>1. [part |-> part, frame |-> loc[p].frame] \in Token
    BY <1>0 DEF Token
  <2> QED BY <1>3, <2>1, HubAssumption DEF Shapes, Put, CanWrite
<1>4. CASE WriteHeader(p)
  <2>1. loc' \in [Procs -> Local]
    BY <1>0, <1>4 DEF WriteHeader, Shapes, Local
  <2> QED BY <1>1, <1>3, <1>4, <2>1 DEF WriteHeader, Shapes, Sending
<1>5. CASE WritePayload(p)
  <2>1. loc' \in [Procs -> Local]
    BY <1>2, <1>5 DEF WritePayload, Shapes
  <2>2. sent' \in [Clients -> SUBSET Frame]
    BY <1>0, <1>5 DEF WritePayload, Shapes
  <2>3. wmu' \in [Clients -> Procs \cup {Nobody}]
    BY <1>5 DEF WritePayload, Shapes
  <2> QED BY <1>1, <1>3, <1>5, <2>1, <2>2, <2>3 DEF WritePayload, Shapes, Sending
<1>6. CASE WriteFails(p)
  BY <1>2, <1>6 DEF WriteFails, Shapes
<1> QED BY <1>4, <1>5, <1>6 DEF Write

\* The steps of OnFlow besides the writes.
PublisherStep(p) ==
    \/ \E h \in FlowHosts : AddFlow(p, h)
    \/ PublishLock(p)
    \/ \E c \in Clients : PublishSend(p, c)
    \/ PublishUnlock(p)

LEMMA PublisherType ==
    ASSUME Shapes, NEW p \in Publishers, PublisherStep(p)
    PROVE  Shapes'
<1>0. p \in Procs /\ loc[p] \in Local /\ loc[p].frame \in Frame
      /\ loc[p].todo \subseteq Clients \cup FlowHosts
  BY DEF Shapes, Local, Procs
<1>1. ASSUME NEW h \in FlowHosts, AddFlow(p, h) PROVE Shapes'
  <2>0. PICK id \in FlowIds :
            LET f == [id |-> id, host |-> h]
            IN  /\ ring' = [ring EXCEPT ![h] = Append(@, f)]
                /\ used' = used \cup {id}
                /\ loc' = [loc EXCEPT ![p] = [Start("publish") EXCEPT !.frame = LiveFrame(f)]]
    BY <1>1 DEF AddFlow
  <2> DEFINE f == [id |-> id, host |-> h]
             l == [Start("publish") EXCEPT !.frame = LiveFrame(f)]
  <2>1. f \in Flow /\ f.host = h
    BY DEF Flow
  <2>2. /\ ring' = [ring EXCEPT ![h] = Append(@, f)] /\ loc' = [loc EXCEPT ![p] = l]
        /\ used' = used \cup {id}
    BY <2>0
  <2>3. l \in Local
    BY <2>1, FrameFacts DEF Start, Local
  <2> HIDE DEF f, l
  <2>4. ring' \in [FlowHosts -> Seq(Flow)]
    BY <2>1, <2>2 DEF Shapes
  <2>5. loc' \in [Procs -> Local] /\ used' \subseteq FlowIds
    BY <1>0, <2>2, <2>3 DEF Shapes
  <2>6. \A k \in FlowHosts : \A g \in Elems(ring'[k]) : g.host = k
    <3>1. ring[h] \in Seq(Flow) /\ ring \in [FlowHosts -> Seq(Flow)]
      BY DEF Shapes
    <3>2. Elems(ring'[h]) = Elems(ring[h]) \cup {f}
      BY <2>1, <2>2, <3>1, ElemsAppend
    <3>3. \A k \in FlowHosts \ {h} : ring'[k] = ring[k]
      BY <2>2, <3>1
    <3> QED BY <2>1, <3>2, <3>3 DEF Shapes
  <2> QED BY <1>1, <2>4, <2>5, <2>6 DEF AddFlow, Shapes
<1>2. CASE PublishLock(p)
  <2>1. loc' \in [Procs -> Local]
    BY <1>0, <1>2 DEF PublishLock, Shapes, Local
  <2> QED BY <1>2, <2>1 DEF PublishLock, Shapes
<1>3. ASSUME NEW c \in Clients, PublishSend(p, c) PROVE Shapes'
  <2>1. loc' \in [Procs -> Local]
    BY <1>0, <1>3 DEF PublishSend, SendTo, Shapes, Local
  <2>2. wmu' \in [Clients -> Procs \cup {Nobody}]
    BY <1>0, <1>3 DEF PublishSend, SendTo, Shapes
  <2> QED BY <1>3, <2>1, <2>2 DEF PublishSend, Shapes
<1>4. CASE PublishUnlock(p)
  <2>1. loc' \in [Procs -> Local]
    BY <1>0, <1>4, StartType DEF PublishUnlock, Shapes
  <2> QED BY <1>4, <2>1 DEF PublishUnlock, Shapes
<1> QED BY <1>1, <1>2, <1>3, <1>4 DEF PublisherStep

\* The steps of a handler besides the writes; the first four only move it on.
HandlerMoves(c) == Upgrade(c) \/ HubAdd(c) \/ ReadFails(c) \/ HubRemove(c)

HandlerStep(c) ==
    \/ HandlerMoves(c)
    \/ SnapshotDomains(c)
    \/ \E h \in FlowHosts : SnapshotFlows(c, h)
    \/ SnapshotSend(c)
    \/ ConnClose(c)

LEMMA HandlerType ==
    ASSUME Shapes, NEW c \in Clients, HandlerStep(c)
    PROVE  Shapes'
<1>0. c \in Procs /\ loc[c] \in Local /\ loc[c].frame \in Frame
      /\ loc[c].frame.flows \in Seq(Flow)
      /\ loc[c].todo \subseteq Clients \cup FlowHosts
  BY DEF Shapes, Local, Procs, Frame
<1>1. CASE HandlerMoves(c)
  <2>0. PICK l \in {"add", "domains", "remove", "close"} : loc' = [loc EXCEPT ![c].pc = l]
    BY <1>1 DEF HandlerMoves, Upgrade, HubAdd, ReadFails, HubRemove
  <2>1. loc' \in [Procs -> Local]
    BY <1>0, <2>0 DEF Shapes, Local
  <2>2. clients' \subseteq Clients
    BY <1>1 DEF HandlerMoves, Upgrade, HubAdd, ReadFails, HubRemove, Shapes
  <2> QED
    BY <1>1, <2>1, <2>2 DEF HandlerMoves, Upgrade, HubAdd, ReadFails, HubRemove, Shapes
<1>2. CASE SnapshotDomains(c)
  <2>1. loc' = [loc EXCEPT ![c] = [Start("gather") EXCEPT
                    !.frame = [type |-> "snapshot", flows |-> <<>>],
                    !.todo = listed]]
    BY <1>2 DEF SnapshotDomains
  <2>2. [type |-> "snapshot", flows |-> <<>>] \in Frame
    BY DEF Frame
  <2>3. loc' \in [Procs -> Local]
    BY <1>0, <2>1, <2>2 DEF Shapes, Start, Local
  <2>4. UNION {Elems(ring[h]) : h \in FlowHosts \ listed} \subseteq Flow
    BY DEF Shapes, Elems
  <2>5. hidden' \in [Clients -> SUBSET Flow]
    BY <1>2, <2>4 DEF SnapshotDomains, Shapes
  <2> QED BY <1>2, <2>3, <2>5 DEF SnapshotDomains, Shapes
<1>3. ASSUME NEW h \in FlowHosts, SnapshotFlows(c, h) PROVE Shapes'
  <2> DEFINE fs == loc[c].frame.flows \o ring[h]
             fr == [loc[c].frame EXCEPT !.flows = fs]
  <2>1. fs \in Seq(Flow)
    BY <1>0 DEF Shapes
  <2>2. loc'[c] = [loc[c] EXCEPT !.frame = fr, !.todo = @ \ {h}]
        /\ loc' = [loc EXCEPT ![c] = loc'[c]]
    BY <1>0, <1>3 DEF SnapshotFlows, Shapes, Local
  <2>3. fr \in Frame
    BY <1>0, <2>1 DEF Frame
  <2> HIDE DEF fr
  <2>4. loc'[c] \in Local
    BY <1>0, <2>2, <2>3 DEF Local
  <2>5. loc' \in [Procs -> Local]
    BY <1>0, <2>2, <2>4 DEF Shapes
  <2> QED BY <1>3, <2>5 DEF SnapshotFlows, Shapes
<1>4. CASE SnapshotSend(c)
  <2>1. loc' \in [Procs -> Local]
    BY <1>0, <1>4 DEF SnapshotSend, SendTo, Shapes, Local
  <2>2. wmu' \in [Clients -> Procs \cup {Nobody}]
    BY <1>0, <1>4 DEF SnapshotSend, SendTo, Shapes
  <2> QED BY <1>4, <2>1, <2>2 DEF SnapshotSend, Shapes
<1>5. CASE ConnClose(c)
  <2>1. loc' \in [Procs -> Local]
    BY <1>0, <1>5, StartType DEF ConnClose, Shapes
  <2>2. <<>> \in Seq(Token) /\ Len(<<>>) = 0
    OBVIOUS
  <2>3. sock' \in [Clients -> Seq(Token)] /\ \A d \in Clients : Len(sock'[d]) <= SockCap
    BY <1>5, <2>2, HubAssumption DEF ConnClose, Shapes
  <2> QED BY <1>5, <2>1, <2>3 DEF ConnClose, Shapes
<1> QED BY <1>1, <1>2, <1>3, <1>4, <1>5 DEF HandlerStep

\* The browser and the network: they change no goroutine.
World(c) == BrowserRead(c) \/ Stall(c) \/ Break(c)

LEMMA WorldType ==
    ASSUME Shapes, NEW c \in Clients, World(c)
    PROVE  Shapes'
<1>1. CASE BrowserRead(c)
  <2>1. sock[c] \in Seq(Token) /\ sock[c] # <<>> /\ Len(sock[c]) <= SockCap
    BY <1>1 DEF BrowserRead, Shapes
  <2>2. /\ Head(sock[c]) \in Token /\ Tail(sock[c]) \in Seq(Token)
        /\ Len(Tail(sock[c])) <= SockCap
    BY <2>1, HubAssumption
  <2>3. page' = [page EXCEPT ![c] = Receive(page[c], Head(sock[c]))]
        /\ sock' = [sock EXCEPT ![c] = Tail(sock[c])]
    BY <1>1 DEF BrowserRead, Shapes
  <2>4. Receive(page[c], Head(sock[c])) \in Page
    BY <2>2, ReceiveType DEF Shapes
  <2>5. page' \in [Clients -> Page]
    BY <2>3, <2>4 DEF Shapes
  <2>6. sock' \in [Clients -> Seq(Token)] /\ \A d \in Clients : Len(sock'[d]) <= SockCap
    BY <2>2, <2>3 DEF Shapes
  <2> QED BY <1>1, <2>5, <2>6 DEF BrowserRead, Shapes
<1>2. CASE Stall(c) \/ Break(c)
  BY <1>2 DEF Stall, Break, Shapes
<1> QED BY <1>1, <1>2 DEF World

\* The rest of the program changes the registry and nothing else: no flow
\* comes in, and none moves to another host.
RegistryStep ==
    \/ \E h \in FlowHosts : Observe(h) \/ DeleteHost(h)
    \/ \E hs \in {{h} : h \in FlowHosts} \cup {FlowHosts} : ClearFlows(hs)
    \/ Reset

LEMMA RegistryStepFacts ==
    ASSUME Shapes, RegistryStep
    PROVE  /\ \A h \in FlowHosts : ring'[h] = ring[h] \/ ring'[h] = <<>>
           /\ ring' \in [FlowHosts -> Seq(Flow)] /\ listed' \subseteq FlowHosts
           /\ used' = used /\ forgets' \in 0..MaxForgets
           /\ UNCHANGED <<mu, clients, wmu, loc, net, sock, page, sent, hidden>>
<1>1. ASSUME NEW h \in FlowHosts, Observe(h)
      PROVE  /\ UNCHANGED <<ring, used, forgets>> /\ listed' \subseteq FlowHosts
             /\ UNCHANGED <<mu, clients, wmu, loc, net, sock, page, sent, hidden>>
  BY <1>1 DEF Observe, Elsewhere, Shapes
<1>2. ASSUME NEW hs, NEW gone, Forget(hs, gone)
      PROVE  /\ \A h \in FlowHosts : ring'[h] = ring[h] \/ ring'[h] = <<>>
             /\ ring' \in [FlowHosts -> Seq(Flow)] /\ listed' \subseteq FlowHosts
             /\ used' = used /\ forgets' \in 0..MaxForgets
             /\ UNCHANGED <<mu, clients, wmu, loc, net, sock, page, sent, hidden>>
  <2>1. <<>> \in Seq(Flow)
    OBVIOUS
  <2>2. ring' \in [FlowHosts -> Seq(Flow)]
        /\ \A h \in FlowHosts : ring'[h] = ring[h] \/ ring'[h] = <<>>
    BY <1>2, <2>1 DEF Forget, Shapes
  <2>3. forgets' \in 0..MaxForgets
    BY <1>2, HubAssumption DEF Forget, Shapes
  <2> QED BY <1>2, <2>2, <2>3 DEF Forget, Elsewhere, Shapes
<1>3. CASE \E h \in FlowHosts : Observe(h)
  BY <1>1, <1>3 DEF Shapes
<1>4. CASE \/ Reset \/ (\E h \in FlowHosts : DeleteHost(h))
           \/ \E hs \in {{h} : h \in FlowHosts} \cup {FlowHosts} : ClearFlows(hs)
  BY <1>2, <1>4 DEF Reset, DeleteHost, ClearFlows
<1> QED BY <1>3, <1>4 DEF RegistryStep

LEMMA RegistryType ==
    ASSUME Shapes, RegistryStep
    PROVE  Shapes'
<1>1. \A h \in FlowHosts : \A f \in Elems(ring'[h]) : f.host = h
  <2>1. Elems(<<>>) = {}
    BY DEF Elems
  <2> QED BY <2>1, RegistryStepFacts DEF Shapes
<1> QED BY <1>1, RegistryStepFacts DEF Shapes

-----------------------------------------------------------------------------
(* Control and locks.                                                      *)

LEMMA ProcFacts ==
    /\ \A p \in Publishers : p \in Procs /\ p \notin Clients /\ p # Nobody
    /\ \A c \in Clients : c \in Procs /\ c \notin Publishers /\ c # Nobody
    /\ \A p \in Procs : p # Nobody /\ (p \in Publishers \/ p \in Clients)
BY HubAssumption DEF Procs

\* A goroutine that moves concerns itself only.
LEMMA OthersControl ==
    ASSUME ControlOK, NEW p \in Procs,
           \A q \in Procs \ {p} : loc'[q] = loc[q],
           p \in Publishers => PublisherOK(p)',
           p \in Clients => HandlerOK(p)',
           \A c \in Clients \ {p} : c \in clients => c \in clients',
           UNCHANGED net
    PROVE  ControlOK'
<1>1. ASSUME NEW q \in Publishers PROVE PublisherOK(q)'
  BY ProcFacts DEF ControlOK, PublisherOK
<1>2. ASSUME NEW c \in Clients PROVE HandlerOK(c)'
  BY ProcFacts DEF ControlOK, HandlerOK
<1> QED BY <1>1, <1>2 DEF ControlOK

\* A goroutine that moves without a lock being taken or released.
LEMMA OthersLocks ==
    ASSUME LocksOK, NEW p \in Procs,
           \A q \in Procs \ {p} : loc'[q] = loc[q],
           loc'[p].pc \in Sending <=> loc[p].pc \in Sending,
           loc'[p].pc \in {"fanout"} \cup Sending <=> loc[p].pc \in {"fanout"} \cup Sending,
           loc'[p].to = loc[p].to, UNCHANGED <<mu, wmu>>
    PROVE  LocksOK'
<1>1. \A q \in Publishers : mu' = q <=> loc'[q].pc \in {"fanout"} \cup Sending
  BY ProcFacts DEF LocksOK
<1>2. \A q \in Procs, c \in Clients :
          wmu'[c] = q <=> loc'[q].pc \in Sending /\ loc'[q].to = c
  BY DEF LocksOK
<1> QED BY <1>1, <1>2 DEF LocksOK

LEMMA WriteControl ==
    ASSUME Shapes, ControlOK, LocksOK, NEW p \in Procs, Write(p)
    PROVE  ControlOK' /\ LocksOK'
<1>0. /\ loc \in [Procs -> Local] /\ loc[p] \in Local
      /\ loc[p].pc \in Sending /\ loc[p].to \in Clients
      /\ wmu[loc[p].to] = p /\ wmu \in [Clients -> Procs \cup {Nobody}]
      /\ UNCHANGED <<mu, net, clients>>
  BY ProcFacts DEF Shapes, ControlOK, PublisherOK, HandlerOK, LocksOK, Sending,
                   Write, WriteHeader, WritePayload, WriteFails
<1>1. CASE WriteHeader(p)
  <2>1. /\ \A q \in Procs \ {p} : loc'[q] = loc[q]
        /\ loc'[p].pc = "payload" /\ loc'[p].to = loc[p].to
        /\ UNCHANGED wmu
    BY <1>0, <1>1 DEF WriteHeader, Local
  <2>2. ControlOK'
    BY <1>0, <2>1, OthersControl DEF ControlOK, PublisherOK, HandlerOK, Sending
  <2>3. LocksOK'
    BY <1>0, <2>1, OthersLocks DEF Sending
  <2> QED BY <2>2, <2>3
<1>2. CASE WritePayload(p) \/ WriteFails(p)
  <2>1. /\ loc' = [loc EXCEPT ![p] = AfterSend(p)]
        /\ wmu' = [wmu EXCEPT ![loc[p].to] = Nobody]
    BY <1>2 DEF WritePayload, WriteFails
  <2>2. /\ AfterSend(p).pc = IF p \in Publishers THEN "fanout" ELSE "read"
        /\ AfterSend(p).to = Nobody
    BY DEF AfterSend, Start
  <2>3. /\ \A q \in Procs \ {p} : loc'[q] = loc[q]
        /\ loc'[p].pc = IF p \in Publishers THEN "fanout" ELSE "read"
        /\ loc'[p].to = Nobody
    BY <1>0, <2>1, <2>2
  <2>4. ControlOK'
    BY <1>0, <2>3, ProcFacts, OthersControl DEF ControlOK, PublisherOK, HandlerOK, Sending
  <2>5. \A q \in Publishers : mu' = q <=> loc'[q].pc \in {"fanout"} \cup Sending
    BY <1>0, <2>3, ProcFacts DEF LocksOK
  <2>6. ASSUME NEW q \in Procs, NEW c \in Clients
        PROVE  wmu'[c] = q <=> loc'[q].pc \in Sending /\ loc'[q].to = c
    BY <1>0, <2>1, <2>3, ProcFacts DEF LocksOK, Sending
  <2>7. LocksOK'
    BY <2>5, <2>6 DEF LocksOK
  <2> QED BY <2>4, <2>7
<1> QED BY <1>1, <1>2 DEF Write

LEMMA SendControl ==
    ASSUME Shapes, ControlOK, LocksOK, NEW p \in Procs, NEW c \in Clients,
           NEW frame, NEW todo, SendTo(p, c, frame, todo),
           p \in Publishers => loc[p].pc = "fanout",
           p \in Clients => loc[p].pc = "gather" /\ c = p,
           UNCHANGED <<mu, net, clients>>
    PROVE  ControlOK' /\ LocksOK'
<1>0. loc \in [Procs -> Local] /\ wmu \in [Clients -> Procs \cup {Nobody}]
  BY DEF Shapes
<1>1. /\ \A q \in Procs \ {p} : loc'[q] = loc[q]
      /\ loc'[p].pc = "header" /\ loc'[p].to = c
  BY <1>0 DEF SendTo
<1>2. wmu[c] = Nobody /\ wmu' = [wmu EXCEPT ![c] = p]
  BY DEF SendTo
<1>3. ControlOK'
  BY <1>1, ProcFacts, OthersControl DEF ControlOK, PublisherOK, HandlerOK, Sending
<1>4. \A q \in Publishers : mu' = q <=> loc'[q].pc \in {"fanout"} \cup Sending
  BY <1>1, ProcFacts DEF LocksOK, Sending
<1>5. loc[p].pc \notin Sending
  BY ProcFacts DEF Sending
<1>6. ASSUME NEW q \in Procs, NEW d \in Clients
      PROVE  wmu'[d] = q <=> loc'[q].pc \in Sending /\ loc'[q].to = d
  <2>1. CASE d = c
    <3>1. q # p => ~(loc[q].pc \in Sending /\ loc[q].to = c)
      BY <1>2, ProcFacts DEF LocksOK
    <3> QED BY <1>0, <1>1, <1>2, <2>1, <3>1 DEF Sending
  <2>2. CASE d # c
    <3>1. wmu'[d] = wmu[d]
      BY <1>0, <1>2, <2>2
    <3>2. wmu[d] = q <=> loc[q].pc \in Sending /\ loc[q].to = d
      BY DEF LocksOK
    <3> QED BY <1>1, <1>5, <2>2, <3>1, <3>2
  <2> QED BY <2>1, <2>2
<1> QED BY <1>3, <1>4, <1>6 DEF LocksOK

LEMMA PublisherControl ==
    ASSUME Shapes, ControlOK, LocksOK, NEW p \in Publishers, PublisherStep(p)
    PROVE  ControlOK' /\ LocksOK'
<1>0. /\ p \in Procs /\ p \notin Clients /\ p # Nobody
      /\ loc \in [Procs -> Local] /\ loc[p] \in Local /\ PublisherOK(p)
  BY ProcFacts DEF Shapes, ControlOK
<1>1. ASSUME NEW h \in FlowHosts, AddFlow(p, h) PROVE ControlOK' /\ LocksOK'
  <2>1. /\ \A q \in Procs \ {p} : loc'[q] = loc[q]
        /\ loc'[p].pc = "publish" /\ loc'[p].to = Nobody
        /\ loc[p].pc = "idle" /\ UNCHANGED <<mu, wmu, clients, net>>
    BY <1>0, <1>1 DEF AddFlow, Start
  <2>2. loc[p].to = Nobody
    BY <1>0, <2>1 DEF PublisherOK, Sending, Local
  <2>3. ControlOK'
    BY <1>0, <2>1, ProcFacts, HubAssumption, OthersControl DEF PublisherOK, Sending, Procs
  <2>4. LocksOK'
    BY <1>0, <2>1, <2>2, OthersLocks DEF Sending
  <2> QED BY <2>3, <2>4
<1>2. CASE PublishLock(p)
  <2>1. /\ \A q \in Procs \ {p} : loc'[q] = loc[q]
        /\ loc'[p].pc = "fanout" /\ loc'[p].to = loc[p].to
        /\ loc[p].pc = "publish" /\ mu = Nobody /\ mu' = p
        /\ UNCHANGED <<wmu, clients, net>>
    BY <1>0, <1>2 DEF PublishLock, Local
  <2>2. ControlOK'
    BY <1>0, <2>1, OthersControl DEF PublisherOK, Sending
  <2>3. LocksOK'
    BY <1>0, <2>1, ProcFacts DEF LocksOK, Sending
  <2> QED BY <2>2, <2>3
<1>3. ASSUME NEW c \in Clients, PublishSend(p, c) PROVE ControlOK' /\ LocksOK'
  BY <1>0, <1>3, SendControl DEF PublishSend
<1>4. CASE PublishUnlock(p)
  <2>1. /\ \A q \in Procs \ {p} : loc'[q] = loc[q]
        /\ loc'[p].pc = "idle" /\ loc'[p].to = Nobody /\ loc'[p].todo = {}
        /\ loc[p].pc = "fanout" /\ mu' = Nobody
        /\ UNCHANGED <<wmu, clients, net>>
    BY <1>0, <1>4 DEF PublishUnlock, Start
  <2>2. ControlOK'
    BY <1>0, <2>1, HubAssumption, OthersControl DEF PublisherOK, Sending, Procs
  <2>3. LocksOK'
    BY <1>0, <2>1, ProcFacts DEF LocksOK, Sending
  <2> QED BY <2>2, <2>3
<1> QED BY <1>1, <1>2, <1>3, <1>4 DEF PublisherStep

LEMMA HandlerControl ==
    ASSUME Shapes, ControlOK, LocksOK, NEW c \in Clients, HandlerStep(c)
    PROVE  ControlOK' /\ LocksOK'
<1>0. /\ c \in Procs /\ c \notin Publishers /\ c # Nobody
      /\ loc \in [Procs -> Local] /\ loc[c] \in Local /\ HandlerOK(c)
  BY ProcFacts DEF Shapes, ControlOK
<1>1. CASE SnapshotSend(c)
  BY <1>0, <1>1, SendControl DEF SnapshotSend
<1>2. ASSUME \A q \in Procs \ {c} : loc'[q] = loc[q],
             loc[c].pc \notin Sending, HandlerOK(c)', loc'[c].pc \notin Sending,
             \A d \in Clients \ {c} : d \in clients => d \in clients',
             UNCHANGED <<mu, wmu, net>>
      PROVE  ControlOK' /\ LocksOK'
  <2>1. ControlOK'
    BY <1>0, <1>2, OthersControl
  <2>2. loc[c].to = Nobody /\ loc'[c].to = Nobody
    BY <1>0, <1>2 DEF HandlerOK
  <2>3. loc[c].pc # "fanout" /\ loc'[c].pc # "fanout"
    BY <1>0, <1>2 DEF HandlerOK, Sending
  <2>4. LocksOK'
    BY <1>0, <1>2, <2>2, <2>3, OthersLocks
  <2> QED BY <2>1, <2>4
<1>3. CASE HandlerMoves(c)
  <2>1. PICK l \in {"add", "domains", "remove", "close"} :
            /\ loc' = [loc EXCEPT ![c].pc = l]
            /\ loc[c].pc \in {"off", "add", "read", "remove"}
            /\ l = "domains" => c \in clients'
            /\ l = "remove" => net[c] = "broken"
            /\ l = "close" => loc[c].pc = "remove"
            /\ \A d \in Clients \ {c} : d \in clients => d \in clients'
            /\ UNCHANGED <<mu, wmu, net>>
    BY <1>3 DEF HandlerMoves, Upgrade, HubAdd, ReadFails, HubRemove
  <2>2. /\ \A q \in Procs \ {c} : loc'[q] = loc[q]
        /\ loc'[c].pc = l /\ loc'[c].to = loc[c].to
    BY <1>0, <2>1 DEF Local
  <2>3. HandlerOK(c)'
    BY <1>0, <2>1, <2>2 DEF HandlerOK, Sending
  <2> QED BY <1>2, <2>1, <2>2, <2>3 DEF Sending
<1>4. CASE SnapshotDomains(c)
  <2>1. /\ \A q \in Procs \ {c} : loc'[q] = loc[q]
        /\ loc'[c].pc = "gather" /\ loc'[c].to = Nobody
        /\ loc[c].pc = "domains" /\ UNCHANGED <<mu, wmu, net, clients>>
    BY <1>0, <1>4 DEF SnapshotDomains, Start
  <2>2. HandlerOK(c)'
    BY <1>0, <2>1 DEF HandlerOK, Sending
  <2> QED BY <1>2, <2>1, <2>2 DEF Sending
<1>5. ASSUME NEW h \in FlowHosts, SnapshotFlows(c, h)
      PROVE  ControlOK' /\ LocksOK'
  <2>1. /\ \A q \in Procs \ {c} : loc'[q] = loc[q]
        /\ loc'[c].pc = "gather" /\ loc'[c].to = loc[c].to
        /\ loc[c].pc = "gather" /\ UNCHANGED <<mu, wmu, net, clients>>
    BY <1>0, <1>5 DEF SnapshotFlows, Local
  <2>2. HandlerOK(c)'
    BY <1>0, <2>1 DEF HandlerOK, Sending
  <2> QED BY <1>2, <2>1, <2>2 DEF Sending
<1>6. CASE ConnClose(c)
  <2>1. /\ \A q \in Procs \ {c} : loc'[q] = loc[q]
        /\ loc'[c].pc = "gone" /\ loc'[c].to = Nobody
        /\ loc[c].pc = "close" /\ UNCHANGED <<mu, wmu, net, clients>>
    BY <1>0, <1>6 DEF ConnClose, Start
  <2>2. HandlerOK(c)'
    BY <1>0, <2>1 DEF HandlerOK, Sending
  <2> QED BY <1>2, <2>1, <2>2 DEF Sending
<1> QED BY <1>1, <1>3, <1>4, <1>5, <1>6 DEF HandlerStep

LEMMA WorldControl ==
    ASSUME Shapes, ControlOK, LocksOK, NEW c \in Clients, World(c)
    PROVE  ControlOK' /\ LocksOK'
<1>1. UNCHANGED <<loc, mu, wmu, clients>>
      /\ \A d \in Clients : net[d] = "broken" => net'[d] = "broken"
  BY DEF World, BrowserRead, Stall, Break, Shapes
<1>2. ControlOK'
  BY <1>1 DEF ControlOK, PublisherOK, HandlerOK
<1> QED BY <1>1, <1>2 DEF LocksOK

-----------------------------------------------------------------------------
(* The streams of frames.                                                  *)

\* A step that neither writes nor reads, and neither begins nor abandons a
\* payload of an unbroken connection.
LEMMA StreamKept ==
    ASSUME StreamOK, UNCHANGED <<sock, page>>,
           \A c \in Clients : net'[c] # "broken" =>
               net[c] # "broken" /\ HalfWritten(c)' = HalfWritten(c)
    PROVE  StreamOK'
<1> SUFFICES ASSUME NEW c \in Clients PROVE ~page[c].torn' /\ Alternates(c)'
  BY DEF StreamOK
<1>1. \A i : HalfAt(c, i)' = HalfAt(c, i)
  BY DEF HalfAt
<1> QED BY <1>1 DEF StreamOK, Alternates

\* Who is not sending has no part in what is half written.
LEMMA IdleHalf ==
    ASSUME Shapes, LocksOK, NEW p \in Procs, loc[p].pc \notin Sending,
           \A q \in Procs \ {p} : loc'[q] = loc[q], UNCHANGED wmu,
           NEW c \in Clients
    PROVE  HalfWritten(c)' = HalfWritten(c)
<1>1. wmu[c] # p /\ wmu[c] \in Procs \cup {Nobody}
  BY DEF LocksOK, Shapes
<1> QED BY <1>1 DEF HalfWritten

LEMMA SendStream ==
    ASSUME Shapes, LocksOK, StreamOK, NEW p \in Procs, NEW c \in Clients,
           NEW frame, NEW todo, SendTo(p, c, frame, todo), loc[p].pc \notin Sending,
           UNCHANGED <<sock, page, net>>
    PROVE  StreamOK'
<1>1. ASSUME NEW d \in Clients PROVE HalfWritten(d)' = HalfWritten(d)
  <2>1. /\ wmu[d] # p /\ wmu[d] \in Procs \cup {Nobody}
        /\ \A q \in Procs \ {p} : loc'[q] = loc[q]
        /\ loc'[p].pc = "header"
        /\ wmu[c] = Nobody /\ wmu'[d] = IF d = c THEN p ELSE wmu[d]
    BY DEF LocksOK, Shapes, SendTo
  <2> QED BY <2>1 DEF HalfWritten
<1> QED BY <1>1, StreamKept

LEMMA WriteStream ==
    ASSUME Shapes, ControlOK, LocksOK, StreamOK, NEW p \in Procs, Write(p)
    PROVE  StreamOK'
<1>a. PICK c \in Clients : c = loc[p].to
  BY ProcFacts DEF ControlOK, PublisherOK, HandlerOK, Sending,
                   Write, WriteHeader, WritePayload, WriteFails
<1>0. /\ loc \in [Procs -> Local] /\ loc[p] \in Local
      /\ loc[p].pc \in Sending /\ c \in Clients
      /\ wmu[c] = p /\ wmu \in [Clients -> Procs \cup {Nobody}] /\ p # Nobody
      /\ UNCHANGED <<page, net>>
      /\ \A q \in Procs \ {p} : loc'[q] = loc[q]
  BY <1>a, ProcFacts DEF Shapes, LocksOK, Sending,
                   Write, WriteHeader, WritePayload, WriteFails
<1>1. ASSUME NEW d \in Clients \ {c} PROVE HalfWritten(d)' = HalfWritten(d)
  <2>1. wmu'[d] = wmu[d]
    BY <1>a, <1>0 DEF Write, WriteHeader, WritePayload, WriteFails
  <2>2. wmu[d] # p
    BY <1>a, <1>0 DEF LocksOK
  <2> QED BY <1>0, <2>1, <2>2 DEF HalfWritten
<1>2. CASE WriteFails(p)
  <2>1. UNCHANGED sock /\ net'[c] = "broken"
    BY <1>a, <1>0, <1>2 DEF WriteFails
  <2> QED BY <1>0, <1>1, <2>1, StreamKept
<1>3. ASSUME NEW tok, tok = [part |-> loc[p].pc, frame |-> loc[p].frame],
             sock' = [sock EXCEPT ![c] = Append(@, tok)],
             net[c] # "broken", HalfWritten(c) = IF tok.part = "header" THEN NoFrame
                                                 ELSE tok.frame,
             HalfWritten(c)' = IF tok.part = "header" THEN tok.frame ELSE NoFrame
      PROVE  StreamOK'
  <2>0. PICK n \in Nat : n = Len(sock[c])
    BY <1>0 DEF Shapes
  <2>1. /\ sock[c] \in Seq(Token)
        /\ sock'[c] = Append(sock[c], tok) /\ Len(sock'[c]) = n + 1
        /\ \A i \in 1..n : sock'[c][i] = sock[c][i]
        /\ sock'[c][n + 1] = tok
    BY <1>0, <1>3, <2>0 DEF Shapes
  <2>2. \A i \in 0..n : HalfAt(c, i)' = HalfAt(c, i)
    BY <1>0, <2>1 DEF HalfAt
  <2>3. HalfAt(c, n + 1)' = HalfWritten(c)'
    BY <1>3, <2>1 DEF HalfAt
  <2>4. Alternates(c)
    BY <1>0 DEF StreamOK
  <2>5. Alternates(c)'
    <3>1. ASSUME NEW i \in 1..(n + 1)
          PROVE  HalfAt(c, i - 1)' = IF sock'[c][i].part = "header" THEN NoFrame
                                     ELSE sock'[c][i].frame
      <4>1. CASE i \in 1..n
        <5>1. HalfAt(c, i - 1)' = HalfAt(c, i - 1) /\ sock'[c][i] = sock[c][i]
          BY <2>1, <2>2, <4>1
        <5> QED BY <1>3, <2>0, <2>4, <4>1, <5>1 DEF Alternates
      <4>2. CASE i = n + 1
        <5>1. i - 1 = n /\ sock'[c][i] = tok
          BY <2>1, <4>2
        <5> QED BY <1>3, <2>0, <2>1, <2>2, <2>4, <5>1 DEF Alternates
      <4> QED BY <4>1, <4>2
    <3> QED BY <2>1, <2>3, <3>1 DEF Alternates
  <2>6. ASSUME NEW d \in Clients \ {c} PROVE Alternates(d)'
    <3>1. sock'[d] = sock[d] /\ HalfWritten(d)' = HalfWritten(d)
      BY <1>0, <1>1, <1>3 DEF Shapes
    <3>2. \A i : HalfAt(d, i)' = HalfAt(d, i)
      BY <1>0, <3>1 DEF HalfAt
    <3> QED BY <1>0, <3>1, <3>2 DEF StreamOK, Alternates
  <2> QED BY <1>0, <2>5, <2>6 DEF StreamOK
<1>4. CASE WriteHeader(p)
  <2>1. /\ loc[p].pc = "header" /\ net[c] # "broken"
        /\ loc'[p].pc = "payload" /\ loc'[p].frame = loc[p].frame
        /\ UNCHANGED wmu
        /\ sock' = [sock EXCEPT ![c] = Append(@, [part |-> "header", frame |-> loc[p].frame])]
    BY <1>a, <1>0, <1>4 DEF WriteHeader, CanWrite, Put, Local
  <2>2. HalfWritten(c) = NoFrame /\ HalfWritten(c)' = loc[p].frame
    BY <1>0, <2>1 DEF HalfWritten
  <2> QED BY <1>3, <2>1, <2>2
<1>5. CASE WritePayload(p)
  <2>1. /\ loc[p].pc = "payload" /\ net[c] # "broken"
        /\ wmu'[c] = Nobody
        /\ sock' = [sock EXCEPT ![c] = Append(@, [part |-> "payload", frame |-> loc[p].frame])]
    BY <1>a, <1>0, <1>5 DEF WritePayload, CanWrite, Put
  <2>2. HalfWritten(c) = loc[p].frame /\ HalfWritten(c)' = NoFrame
    BY <1>0, <2>1 DEF HalfWritten
  <2> QED BY <1>3, <2>1, <2>2
<1> QED BY <1>2, <1>4, <1>5 DEF Write

LEMMA ReadStream ==
    ASSUME Shapes, StreamOK, NEW c \in Clients, BrowserRead(c)
    PROVE  StreamOK'
<1> DEFINE tok == Head(sock[c])
<1>a. PICK n \in Nat : n = Len(sock[c])
  BY DEF Shapes
<1>0. /\ sock[c] \in Seq(Token) /\ n \in Nat \ {0} /\ n = Len(sock[c]) /\ net[c] = "open"
      /\ tok = sock[c][1] /\ tok \in Token
      /\ Len(Tail(sock[c])) = n - 1
      /\ \A i \in 1..(n - 1) : Tail(sock[c])[i] = sock[c][i + 1]
  BY <1>a DEF BrowserRead, Shapes
<1>1. /\ sock' = [sock EXCEPT ![c] = Tail(sock[c])]
      /\ page' = [page EXCEPT ![c] = Receive(page[c], tok)]
      /\ UNCHANGED <<net, wmu, loc>>
  BY DEF BrowserRead, Shapes
<1>2. page[c].half = IF tok.part = "header" THEN NoFrame ELSE tok.frame
  <2>1. HalfAt(c, 1 - 1) = IF tok.part = "header" THEN NoFrame ELSE tok.frame
    BY <1>0 DEF StreamOK, Alternates
  <2> QED BY <2>1 DEF HalfAt
<1>3. /\ Receive(page[c], tok).torn = page[c].torn
      /\ Receive(page[c], tok).half = HalfAt(c, 1)
  <2>1. page[c] \in Page
    BY DEF Shapes
  <2>2. OnMessage(page[c], tok.frame).torn = page[c].torn
        /\ DOMAIN OnMessage(page[c], tok.frame) = DOMAIN page[c]
    BY <2>1 DEF OnMessage, Page
  <2>3. CASE tok.part = "header"
    BY <1>0, <1>2, <2>1, <2>3 DEF Receive, HalfAt, Page
  <2>4. CASE tok.part # "header"
    <3> DEFINE q == OnMessage(page[c], tok.frame)
    <3>1. Receive(page[c], tok) = [q EXCEPT !.half = NoFrame,
                                            !.torn = @ \/ page[c].half # tok.frame]
      BY <2>4 DEF Receive
    <3>2. DOMAIN q = {"half", "torn", "saw", "shown"} /\ q.torn = page[c].torn
      BY <2>1, <2>2 DEF Page
    <3> HIDE DEF q
    <3>3. Receive(page[c], tok).torn = (q.torn \/ page[c].half # tok.frame)
          /\ Receive(page[c], tok).half = NoFrame
      BY <3>1, <3>2
    <3> QED BY <1>0, <1>2, <2>1, <2>4, <3>2, <3>3 DEF HalfAt, Page
  <2> QED BY <2>3, <2>4
<1>4. ~page'[c].torn /\ Alternates(c)'
  <2>1. page'[c] = Receive(page[c], tok) /\ sock'[c] = Tail(sock[c])
    BY <1>1 DEF Shapes
  <2>2. \A i \in 0..(n - 1) : HalfAt(c, i)' = HalfAt(c, i + 1)
    BY <1>0, <1>3, <2>1 DEF HalfAt
  <2>3. HalfWritten(c)' = HalfWritten(c)
    BY <1>1 DEF HalfWritten
  <2>4. ASSUME NEW i \in 1..(n - 1)
        PROVE  HalfAt(c, i - 1)' = IF sock'[c][i].part = "header" THEN NoFrame
                                   ELSE sock'[c][i].frame
    <3>1. HalfAt(c, i - 1)' = HalfAt(c, i) /\ sock'[c][i] = sock[c][i + 1]
          /\ i + 1 \in 1..n /\ (i + 1) - 1 = i
      BY <1>0, <2>1, <2>2
    <3>2. HalfAt(c, (i + 1) - 1) = IF sock[c][i + 1].part = "header" THEN NoFrame
                                   ELSE sock[c][i + 1].frame
      BY <1>0, <3>1 DEF StreamOK, Alternates
    <3> QED BY <3>1, <3>2
  <2>5. HalfAt(c, n - 1)' = HalfAt(c, n)
    BY <1>0, <2>2
  <2>6. HalfAt(c, n) = HalfWritten(c) /\ ~page[c].torn
    BY <1>0 DEF StreamOK, Alternates
  <2> QED BY <1>0, <1>3, <2>1, <2>3, <2>4, <2>5, <2>6 DEF Alternates
<1>5. ASSUME NEW d \in Clients \ {c} PROVE ~page'[d].torn /\ Alternates(d)'
  <2>1. sock'[d] = sock[d] /\ page'[d] = page[d] /\ HalfWritten(d)' = HalfWritten(d)
    BY <1>1 DEF Shapes, HalfWritten
  <2>2. \A i : HalfAt(d, i)' = HalfAt(d, i)
    BY <2>1 DEF HalfAt
  <2> QED BY <1>1, <2>1, <2>2 DEF StreamOK, Alternates
<1> QED BY <1>4, <1>5 DEF StreamOK

-----------------------------------------------------------------------------
(* Every recorded flow reaches every client that is served.                *)

\* What reaches c stays so while c's handler does not move: no other step
\* takes back what was sent or recorded, and a publisher that is done with c
\* has sent it the flow.
LEMMA StillReaches ==
    ASSUME NEW f, NEW c \in Clients, Reaches(f, c),
           loc'[c] = loc[c], sent[c] \subseteq sent'[c],
           \A h \in FlowHosts : f \in Elems(ring[h]) => f \in Elems(ring'[h]),
           \A p \in Publishers : Publishing(p, f, c) =>
               \/ Publishing(p, f, c)'
               \/ \E frame \in sent'[c] : f \in Elems(frame.flows)
    PROVE  Reaches(f, c)'
<1>1. CASE \E frame \in sent[c] : f \in Elems(frame.flows)
  BY <1>1 DEF Reaches
<1>2. CASE \E p \in Publishers : Publishing(p, f, c)
  BY <1>2 DEF Reaches
<1>3. CASE loc[c].pc = "domains"
  BY <1>3 DEF Reaches
<1>4. CASE loc[c].pc = "gather"
           /\ \E h \in loc[c].todo \cap FlowHosts : f \in Elems(ring[h])
  BY <1>4 DEF Reaches
<1>5. CASE loc[c].pc \in {"gather"} \cup Sending /\ f \in Elems(loc[c].frame.flows)
  BY <1>5 DEF Reaches
<1> QED BY <1>1, <1>2, <1>3, <1>4, <1>5 DEF Reaches

\* A publisher's own steps.
LEMMA PublisherReaches ==
    ASSUME Shapes, ControlOK, ReachesAll, NEW p \in Publishers,
           PublisherStep(p) \/ Write(p)
    PROVE  ReachesAll'
<1>a. /\ p \in Procs /\ p \notin Clients /\ PublisherOK(p)
      /\ loc \in [Procs -> Local] /\ loc[p] \in Local /\ sent \in [Clients -> SUBSET Frame]
  BY ProcFacts DEF Shapes, ControlOK
<1>b. ASSUME PublisherStep(p)
      PROVE  (\A q \in Procs \ {p} : loc'[q] = loc[q]) /\ UNCHANGED <<net, sent, hidden>>
  BY <1>a, <1>b DEF PublisherStep, AddFlow, PublishLock, PublishSend, SendTo, PublishUnlock
<1>c. ASSUME Write(p)
      PROVE  /\ (\A q \in Procs \ {p} : loc'[q] = loc[q]) /\ UNCHANGED <<net, hidden>>
             /\ \A c \in Clients : sent[c] \subseteq sent'[c]
  BY <1>a, <1>c DEF Write, WriteHeader, WritePayload, WriteFails
<1>0. /\ p \in Procs /\ p \notin Clients /\ PublisherOK(p)
      /\ loc \in [Procs -> Local] /\ loc[p] \in Local
      /\ \A q \in Procs \ {p} : loc'[q] = loc[q]
      /\ UNCHANGED <<net, hidden>>
  BY <1>a, <1>b, <1>c
<1> SUFFICES ASSUME NEW c \in Clients, NEW f \in Recorded', Served(c)', ~Excused(f, c)'
             PROVE  Reaches(f, c)'
  BY DEF ReachesAll
<1>1. /\ c # p /\ c \in Procs /\ loc'[c] = loc[c] /\ Served(c) /\ c \in clients
      /\ c # Nobody /\ ~Excused(f, c)
  <2>1. c # p /\ c \in Procs /\ c # Nobody
    BY <1>0, ProcFacts
  <2>2. loc'[c] = loc[c] /\ Served(c) /\ ~Excused(f, c)
    BY <1>0, <2>1 DEF Served, Excused
  <2> QED BY <2>1, <2>2 DEF Served, ControlOK, HandlerOK
<1>2. /\ sent[c] \subseteq sent'[c]
      /\ loc[p].pc = "idle" \/ UNCHANGED ring
  <2>1. sent[c] \subseteq sent'[c]
    BY <1>b, <1>c
  <2>2. loc[p].pc = "idle" \/ UNCHANGED ring
    BY DEF PublisherStep, AddFlow, PublishLock, PublishSend, PublishUnlock, Write, WriteHeader, WritePayload,
           WriteFails
  <2> QED BY <2>1, <2>2
<1>3. ASSUME NEW q \in Publishers \ {p}, Publishing(q, f, c) PROVE Publishing(q, f, c)'
  BY <1>0, <1>3, ProcFacts DEF Publishing, LiveFrame
<1>4. ASSUME NEW h \in FlowHosts, AddFlow(p, h) PROVE Reaches(f, c)'
  <2>0. PICK id \in FlowIds :
            LET g == [id |-> id, host |-> h]
            IN  /\ ring' = [ring EXCEPT ![h] = Append(@, g)]
                /\ loc' = [loc EXCEPT ![p] = [Start("publish") EXCEPT !.frame = LiveFrame(g)]]
    BY <1>4 DEF AddFlow
  <2> DEFINE g == [id |-> id, host |-> h]
  <2>1. /\ g \in Flow /\ ring[h] \in Seq(Flow)
        /\ ring' = [ring EXCEPT ![h] = Append(ring[h], g)]
        /\ loc'[p].pc = "publish" /\ loc'[p].frame = LiveFrame(g)
        /\ loc[p].pc = "idle"
    BY <1>0, <1>4, <2>0 DEF AddFlow, Shapes, Flow, Start
  <2>2. Elems(ring'[h]) = Elems(ring[h]) \cup {g}
        /\ \A k \in FlowHosts \ {h} : ring'[k] = ring[k]
    BY <2>1, ElemsAppend DEF Shapes
  <2>3. f = g \/ f \in Recorded
    BY <2>2 DEF Recorded
  <2>4. CASE f = g
    <3>1. LiveFrame(f)' = LiveFrame(g)
      BY <2>4 DEF LiveFrame
    <3>2. Publishing(p, f, c)'
      BY <2>1, <3>1 DEF Publishing
    <3> QED BY <3>2 DEF Reaches
  <2>5. CASE f \in Recorded
    <3>1. ~Publishing(p, f, c)
      BY <1>0, <1>1, <2>1 DEF Publishing, PublisherOK, Sending
    <3>2. \A k \in FlowHosts : Elems(ring[k]) \subseteq Elems(ring'[k])
      BY <2>2
    <3>3. Reaches(f, c)
      BY <1>1, <2>5 DEF ReachesAll
    <3> QED BY <1>1, <1>2, <1>3, <3>1, <3>2, <3>3, StillReaches
  <2> QED BY <2>3, <2>4, <2>5
<1>5. ASSUME loc[p].pc # "idle",
             Publishing(p, f, c) => \/ Publishing(p, f, c)'
                                    \/ \E frame \in sent'[c] : f \in Elems(frame.flows)
      PROVE  Reaches(f, c)'
  <2>1. UNCHANGED ring
    BY <1>2, <1>5
  <2>2. f \in Recorded
    BY <2>1 DEF Recorded
  <2>3. Reaches(f, c)
    BY <1>1, <2>2 DEF ReachesAll
  <2> QED BY <1>1, <1>2, <1>3, <1>5, <2>1, <2>3, StillReaches
<1>6. CASE PublishLock(p)
  <2>1. loc[p].pc = "publish" /\ loc'[p].frame = loc[p].frame /\ loc'[p].todo = clients
    BY <1>0, <1>6 DEF PublishLock, Local
  <2>2. Publishing(p, f, c) => Publishing(p, f, c)'
    BY <1>1, <2>1 DEF Publishing, LiveFrame
  <2> QED BY <1>5, <2>1, <2>2
<1>7. ASSUME NEW d \in Clients, PublishSend(p, d) PROVE Reaches(f, c)'
  <2>1. /\ loc[p].pc = "fanout" /\ loc'[p].frame = loc[p].frame
        /\ loc'[p].todo = loc[p].todo \ {d} /\ loc'[p].to = d
    BY <1>0, <1>7 DEF PublishSend, SendTo
  <2>2. loc[p].to \notin Clients
    BY <1>0, <2>1 DEF PublisherOK, Sending
  <2>3. Publishing(p, f, c) => Publishing(p, f, c)'
    BY <2>1, <2>2 DEF Publishing, LiveFrame
  <2> QED BY <1>5, <2>1, <2>3
<1>8. CASE PublishUnlock(p)
  <2>1. loc[p].pc = "fanout" /\ loc[p].todo = {}
    BY <1>8 DEF PublishUnlock
  <2>2. ~Publishing(p, f, c)
    BY <1>0, <2>1 DEF Publishing, PublisherOK, Sending
  <2> QED BY <1>5, <2>1, <2>2
<1>9. CASE Write(p)
  <2>1. loc[p].pc \in Sending
    BY <1>9 DEF Write, WriteHeader, WritePayload, WriteFails, Sending
  <2>2. loc[p].pc # "idle"
    BY <2>1 DEF Sending
  <2>3. CASE WriteHeader(p)
    <3>1. loc'[p].frame = loc[p].frame /\ loc'[p].todo = loc[p].todo
          /\ loc'[p].to = loc[p].to
      BY <1>0, <2>3 DEF WriteHeader, Local
    <3>2. Publishing(p, f, c) => Publishing(p, f, c)'
      BY <2>1, <3>1 DEF Publishing, LiveFrame, Sending
    <3> QED BY <1>5, <2>2, <3>2
  <2>4. CASE WritePayload(p) \/ WriteFails(p)
    <3>1. loc'[p].frame = loc[p].frame /\ loc'[p].todo = loc[p].todo
      BY <1>0, <2>4 DEF WritePayload, WriteFails, AfterSend, Start
    <3>2. CASE c # loc[p].to
      BY <1>5, <2>1, <2>2, <3>1, <3>2 DEF Publishing, LiveFrame, Sending
    <3>3. CASE c = loc[p].to
      <4>1. WritePayload(p)
        BY <1>1, <2>4, <3>3 DEF WriteFails, Served
      <4>2. loc[p].frame \in sent'[c]
        BY <3>3, <4>1 DEF WritePayload, Shapes
      <4>3. Publishing(p, f, c) => f \in Elems(loc[p].frame.flows)
        BY DEF Publishing, LiveFrame, Elems
      <4> QED BY <1>5, <2>2, <4>2, <4>3
    <3> QED BY <3>2, <3>3
  <2> QED BY <1>9, <2>3, <2>4 DEF Write
<1> QED BY <1>4, <1>6, <1>7, <1>8, <1>9 DEF PublisherStep

\* A handler's own steps.
LEMMA HandlerReaches ==
    ASSUME Shapes, ControlOK, ReachesAll, NEW d \in Clients,
           HandlerStep(d) \/ Write(d)
    PROVE  ReachesAll'
<1>a. /\ d \in Procs /\ d \notin Publishers /\ HandlerOK(d)
      /\ loc \in [Procs -> Local] /\ loc[d] \in Local /\ sent \in [Clients -> SUBSET Frame]
  BY ProcFacts DEF Shapes, ControlOK
<1>b. ASSUME HandlerMoves(d)
      PROVE  (\A q \in Procs \ {d} : loc'[q] = loc[q])
             /\ UNCHANGED <<net, ring, sent, hidden>>
  BY <1>a, <1>b DEF HandlerMoves, Upgrade, HubAdd, ReadFails, HubRemove
<1>c. ASSUME \/ SnapshotDomains(d) \/ (\E h \in FlowHosts : SnapshotFlows(d, h))
             \/ SnapshotSend(d) \/ ConnClose(d)
      PROVE  /\ (\A q \in Procs \ {d} : loc'[q] = loc[q]) /\ UNCHANGED <<net, ring, sent>>
             /\ \A c \in Clients \ {d} : hidden'[c] = hidden[c]
             /\ loc[d].pc # "domains" => UNCHANGED hidden
  BY <1>a, <1>c
  DEF SnapshotDomains, SnapshotFlows, SnapshotSend, ConnClose, SendTo, Shapes
<1>d. ASSUME Write(d)
      PROVE  /\ (\A q \in Procs \ {d} : loc'[q] = loc[q]) /\ UNCHANGED <<net, ring, hidden>>
             /\ \A c \in Clients : sent[c] \subseteq sent'[c]
  BY <1>a, <1>d DEF Write, WriteHeader, WritePayload, WriteFails
<1>0. /\ d \in Procs /\ d \notin Publishers /\ HandlerOK(d)
      /\ loc \in [Procs -> Local] /\ loc[d] \in Local
      /\ \A q \in Procs \ {d} : loc'[q] = loc[q]
      /\ UNCHANGED <<net, ring>>
      /\ \A c \in Clients \ {d} : hidden'[c] = hidden[c]
      /\ loc[d].pc # "domains" => UNCHANGED hidden
  BY <1>a, <1>b, <1>c, <1>d DEF HandlerStep
<1> SUFFICES ASSUME NEW c \in Clients, NEW f \in Recorded', Served(c)', ~Excused(f, c)'
             PROVE  Reaches(f, c)'
  BY DEF ReachesAll
<1>1. f \in Recorded
  BY <1>0 DEF Recorded
<1>2. sent[c] \subseteq sent'[c]
  BY <1>b, <1>c, <1>d DEF HandlerStep
<1>3. ASSUME NEW p \in Publishers, Publishing(p, f, c) PROVE Publishing(p, f, c)'
  BY <1>0, <1>3, ProcFacts DEF Publishing, LiveFrame
<1>4. CASE c # d
  <2>1. loc'[c] = loc[c] /\ Served(c) /\ ~Excused(f, c)
    BY <1>0, <1>4, ProcFacts DEF Served, Excused
  <2>2. Reaches(f, c)
    BY <1>1, <2>1 DEF ReachesAll
  <2> QED BY <1>0, <1>2, <1>3, <2>1, <2>2, StillReaches
<1>5. ASSUME c = d, Served(c), loc[c].pc # "domains", loc'[c].pc # "domains",
             \/ loc[c].pc = "gather"
                /\ \E k \in loc[c].todo \cap FlowHosts : f \in Elems(ring[k])
             \/ loc[c].pc \in {"gather"} \cup Sending /\ f \in Elems(loc[c].frame.flows)
             => Reaches(f, c)'
      PROVE  Reaches(f, c)'
  <2>1. ~Excused(f, c)
    BY <1>0, <1>5 DEF Excused
  <2>2. Reaches(f, c)
    BY <1>1, <1>5, <2>1 DEF ReachesAll
  <2> QED BY <1>2, <1>3, <1>5, <2>2 DEF Reaches
<1>6. CASE c = d /\ HandlerMoves(d)
  <2>1. loc'[c].pc \in {"add", "domains", "remove", "close"}
    BY <1>0, <1>6 DEF HandlerMoves, Upgrade, HubAdd, ReadFails, HubRemove, Local
  <2> QED BY <2>1 DEF Served, Sending, Reaches
<1>7. CASE c = d /\ SnapshotDomains(d)
  <2>1. /\ loc'[c].pc = "gather" /\ loc'[c].todo = listed
        /\ hidden'[c] = UNION {Elems(ring[h]) : h \in FlowHosts \ listed}
    BY <1>0, <1>7 DEF SnapshotDomains, Start, Shapes
  <2>2. PICK k \in FlowHosts : f \in Elems(ring[k])
    BY <1>1 DEF Recorded
  <2>3. k \in listed
    BY <2>1, <2>2 DEF Excused
  <2>4. k \in loc'[c].todo \cap FlowHosts /\ f \in Elems(ring'[k])
    BY <1>0, <2>1, <2>2, <2>3
  <2> QED BY <2>1, <2>4 DEF Reaches
<1>8. ASSUME c = d, NEW h \in FlowHosts, SnapshotFlows(d, h) PROVE Reaches(f, c)'
  <2>1. /\ loc[c].pc = "gather" /\ loc'[c].pc = "gather"
        /\ loc'[c].todo = loc[c].todo \ {h}
        /\ loc'[c].frame.flows = loc[c].frame.flows \o ring[h]
    BY <1>0, <1>8 DEF SnapshotFlows, Local, Frame
  <2>2. loc[c].frame.flows \in Seq(Flow) /\ ring[h] \in Seq(Flow)
    BY <1>0, <1>8 DEF Shapes, Local, Frame
  <2>3. Elems(loc'[c].frame.flows) = Elems(loc[c].frame.flows) \cup Elems(ring[h])
    BY <2>1, <2>2, ElemsConcat
  <2>4. Served(c)
    BY <1>0, <2>1 DEF Served
  <2>5. ASSUME f \in Elems(loc'[c].frame.flows) PROVE Reaches(f, c)'
    BY <2>1, <2>5 DEF Reaches
  <2>6. ASSUME NEW k \in loc[c].todo \cap FlowHosts, f \in Elems(ring[k])
        PROVE  Reaches(f, c)'
    <3>1. CASE k = h
      BY <2>3, <2>5, <2>6, <3>1
    <3>2. CASE k # h
      BY <1>0, <2>1, <2>6, <3>2 DEF Reaches
    <3> QED BY <3>1, <3>2
  <2> QED BY <1>5, <1>8, <2>1, <2>3, <2>4, <2>5, <2>6
<1>9. CASE c = d /\ SnapshotSend(d)
  <2>1. /\ loc[c].pc = "gather" /\ loc[c].todo = {}
        /\ loc'[c].pc = "header" /\ loc'[c].frame = loc[c].frame
    BY <1>0, <1>9 DEF SnapshotSend, SendTo
  <2>2. Served(c)
    BY <1>0, <2>1 DEF Served
  <2> QED BY <1>5, <1>9, <2>1, <2>2 DEF Reaches, Sending
<1>10. CASE c = d /\ ConnClose(d)
  BY <1>0, <1>10 DEF ConnClose, Start, Served, Sending
<1>11. CASE c = d /\ Write(d)
  <2>1. loc[c].pc \in Sending /\ loc[c].to = c
    BY <1>0, <1>11 DEF Write, WriteHeader, WritePayload, WriteFails, HandlerOK, Sending
  <2>2. Served(c)
    BY <1>0, <2>1 DEF Served
  <2>3. CASE WriteHeader(d)
    <3>1. loc'[c].pc = "payload" /\ loc'[c].frame = loc[c].frame
      BY <1>0, <1>11, <2>3 DEF WriteHeader, Local
    <3> QED BY <1>5, <1>11, <2>1, <2>2, <3>1 DEF Reaches, Sending
  <2>4. CASE WritePayload(d)
    <3>1. loc[c].frame \in sent'[c]
      BY <1>11, <2>1, <2>4 DEF WritePayload, Shapes
    <3> QED BY <1>5, <1>11, <2>1, <2>2, <3>1 DEF Reaches, Sending
  <2>5. CASE WriteFails(d)
    BY <1>11, <2>1, <2>2, <2>5 DEF WriteFails, Served
  <2> QED BY <1>11, <2>3, <2>4, <2>5 DEF Write
<1> QED BY <1>4, <1>6, <1>7, <1>8, <1>9, <1>10, <1>11 DEF HandlerStep

LEMMA WorldReaches ==
    ASSUME Shapes, ReachesAll, NEW d \in Clients, World(d)
    PROVE  ReachesAll'
<1>1. UNCHANGED <<loc, ring, sent, hidden>>
      /\ \A c \in Clients : net[c] = "broken" => net'[c] = "broken"
  BY DEF World, BrowserRead, Stall, Break, Shapes
<1> SUFFICES ASSUME NEW c \in Clients, NEW f \in Recorded', Served(c)', ~Excused(f, c)'
             PROVE  Reaches(f, c)'
  BY DEF ReachesAll
<1>2. f \in Recorded /\ Served(c) /\ ~Excused(f, c)
  BY <1>1 DEF Recorded, Served, Excused
<1>3. \A p \in Publishers : Publishing(p, f, c) => Publishing(p, f, c)'
  BY <1>1 DEF Publishing, LiveFrame
<1> QED BY <1>1, <1>2, <1>3, StillReaches DEF ReachesAll

\* A flow that is still in a ring was there before, in the ring of its host.
LEMMA RegistryReaches ==
    ASSUME Shapes, ReachesAll, RegistryStep
    PROVE  ReachesAll'
<1>0. /\ \A h \in FlowHosts : ring'[h] = ring[h] \/ ring'[h] = <<>>
      /\ UNCHANGED <<loc, net, sent, hidden>>
  BY RegistryStepFacts
<1> SUFFICES ASSUME NEW c \in Clients, NEW f \in Recorded', Served(c)', ~Excused(f, c)'
             PROVE  Reaches(f, c)'
  BY DEF ReachesAll
<1>1. PICK k \in FlowHosts : f \in Elems(ring'[k])
  BY DEF Recorded
<1>2. ring'[k] = ring[k] /\ f \in Elems(ring[k])
  BY <1>0, <1>1 DEF Elems
<1>3. \A h \in FlowHosts : f \in Elems(ring[h]) => h = k
  BY <1>2 DEF Shapes
<1>4. f \in Recorded /\ Served(c) /\ ~Excused(f, c)
  BY <1>0, <1>2 DEF Recorded, Served, Excused
<1>5. \A p \in Publishers : Publishing(p, f, c) => Publishing(p, f, c)'
  BY <1>0 DEF Publishing, LiveFrame
<1>6. Reaches(f, c)
  BY <1>4 DEF ReachesAll
<1> QED BY <1>0, <1>2, <1>3, <1>5, <1>6, StillReaches

-----------------------------------------------------------------------------
(* The theorems.                                                           *)

HubInv == Shapes /\ ControlOK /\ LocksOK /\ StreamOK /\ ReachesAll

LEMMA NextCases ==
    ASSUME Next
    PROVE  \/ \E p \in Procs : Write(p)
           \/ \E p \in Publishers : PublisherStep(p)
           \/ \E c \in Clients : HandlerStep(c) \/ World(c)
           \/ RegistryStep
BY ProcFacts
DEF Next, RegistryStep, Publisher, Handler, PublisherStep, HandlerStep, HandlerMoves, World

LEMMA TypeInductive ==
    ASSUME Shapes, ControlOK, [Next]_vars
    PROVE  Shapes'
<1>1. CASE Next
  BY <1>1, NextCases, WriteType, PublisherType, HandlerType, WorldType, RegistryType
<1>2. CASE UNCHANGED vars
  BY <1>2 DEF vars, Shapes
<1> QED BY <1>1, <1>2

LEMMA ControlInductive ==
    ASSUME Shapes, ControlOK, LocksOK, [Next]_vars
    PROVE  ControlOK' /\ LocksOK'
<1>1. CASE Next
  <2>1. CASE RegistryStep
    BY <2>1, RegistryStepFacts DEF ControlOK, PublisherOK, HandlerOK, LocksOK
  <2> QED
    BY <1>1, <2>1, NextCases, WriteControl, PublisherControl, HandlerControl, WorldControl
<1>2. CASE UNCHANGED vars
  BY <1>2 DEF vars, ControlOK, PublisherOK, HandlerOK, LocksOK
<1> QED BY <1>1, <1>2

LEMMA StreamInductive ==
    ASSUME Shapes, ControlOK, LocksOK, StreamOK, [Next]_vars
    PROVE  StreamOK'
<1>0. loc \in [Procs -> Local]
  BY DEF Shapes
<1>1. ASSUME NEW p \in Procs, Write(p) PROVE StreamOK'
  BY <1>1, WriteStream
<1>2. ASSUME NEW p \in Publishers, PublisherStep(p) PROVE StreamOK'
  <2>0. p \in Procs
    BY ProcFacts
  <2>1. ASSUME NEW c \in Clients, PublishSend(p, c) PROVE StreamOK'
    BY <2>0, <2>1, SendStream DEF PublishSend, Sending
  <2>2. CASE (\E h \in FlowHosts : AddFlow(p, h)) \/ PublishLock(p) \/ PublishUnlock(p)
    <3>1. /\ loc[p].pc \notin Sending /\ UNCHANGED <<sock, page, net, wmu>>
          /\ \A q \in Procs \ {p} : loc'[q] = loc[q]
      BY <1>0, <2>0, <2>2 DEF AddFlow, PublishLock, PublishUnlock, Sending
    <3> QED BY <2>0, <3>1, IdleHalf, StreamKept
  <2> QED BY <1>2, <2>1, <2>2 DEF PublisherStep
<1>3. ASSUME NEW c \in Clients, HandlerStep(c) PROVE StreamOK'
  <2>0. c \in Procs
    BY ProcFacts
  <2>1. CASE SnapshotSend(c)
    BY <2>0, <2>1, SendStream DEF SnapshotSend, Sending
  <2>2. CASE \/ HandlerMoves(c) \/ SnapshotDomains(c)
             \/ \E h \in FlowHosts : SnapshotFlows(c, h)
    <3>1. loc[c].pc \notin Sending /\ UNCHANGED <<sock, page, net, wmu>>
      BY <2>2 DEF HandlerMoves, Upgrade, HubAdd, ReadFails, HubRemove, SnapshotDomains,
                  SnapshotFlows, Sending
    <3>2. \A q \in Procs \ {c} : loc'[q] = loc[q]
      BY <1>0, <2>0, <2>2
      DEF HandlerMoves, Upgrade, HubAdd, ReadFails, HubRemove, SnapshotDomains,
          SnapshotFlows
    <3> QED BY <2>0, <3>1, <3>2, IdleHalf, StreamKept
  <2>3. CASE ConnClose(c)
    <3>1. net[c] = "broken" /\ UNCHANGED <<net, page, wmu>> /\ loc[c].pc \notin Sending
          /\ (\A q \in Procs \ {c} : loc'[q] = loc[q])
          /\ \A d \in Clients \ {c} : sock'[d] = sock[d]
      BY <1>0, <2>0, <2>3 DEF ConnClose, ControlOK, HandlerOK, Shapes, Sending
    <3>2. ASSUME NEW d \in Clients \ {c} PROVE Alternates(d)'
      <4>1. HalfWritten(d)' = HalfWritten(d)
        BY <2>0, <3>1, IdleHalf
      <4>2. \A i : HalfAt(d, i)' = HalfAt(d, i)
        BY <3>1 DEF HalfAt
      <4> QED BY <3>1, <4>1, <4>2 DEF StreamOK, Alternates
    <3> QED BY <3>1, <3>2 DEF StreamOK, Alternates
  <2> QED BY <1>3, <2>1, <2>2, <2>3 DEF HandlerStep
<1>4. ASSUME NEW c \in Clients, World(c) PROVE StreamOK'
  <2>1. CASE BrowserRead(c)
    BY <2>1, ReadStream
  <2>2. CASE Stall(c) \/ Break(c)
    <3>1. /\ UNCHANGED <<sock, page, wmu, loc>>
          /\ \A d \in Clients : net'[d] # "broken" => net[d] # "broken"
      BY <2>2 DEF Stall, Break, Shapes
    <3>2. \A d \in Clients : HalfWritten(d)' = HalfWritten(d)
      BY <3>1 DEF HalfWritten
    <3> QED BY <3>1, <3>2, StreamKept
  <2> QED BY <1>4, <2>1, <2>2 DEF World
<1>5. CASE UNCHANGED vars
  <2>1. UNCHANGED <<sock, page, net>> /\ \A d \in Clients : HalfWritten(d)' = HalfWritten(d)
    BY <1>5 DEF vars, HalfWritten
  <2> QED BY <2>1, StreamKept
<1>6. CASE RegistryStep
  <2>1. UNCHANGED <<sock, page, net>> /\ \A d \in Clients : HalfWritten(d)' = HalfWritten(d)
    BY <1>6, RegistryStepFacts DEF HalfWritten
  <2> QED BY <2>1, StreamKept
<1> QED BY <1>1, <1>2, <1>3, <1>4, <1>5, <1>6, NextCases

LEMMA ReachesInductive ==
    ASSUME Shapes, ControlOK, ReachesAll, [Next]_vars
    PROVE  ReachesAll'
<1>1. CASE Next
  BY <1>1, NextCases, ProcFacts, PublisherReaches, HandlerReaches, WorldReaches,
     RegistryReaches
<1>2. CASE UNCHANGED vars
  <2>1. UNCHANGED <<loc, ring, sent, net, hidden>>
    BY <1>2 DEF vars
  <2>2. Recorded' = Recorded
    BY <2>1 DEF Recorded
  <2>3. \A c \in Clients, f \in Recorded : Reaches(f, c) => Reaches(f, c)'
    <3> SUFFICES ASSUME NEW c \in Clients, NEW f \in Recorded, Reaches(f, c)
                 PROVE  Reaches(f, c)'
      OBVIOUS
    <3>1. \A p \in Publishers : Publishing(p, f, c) => Publishing(p, f, c)'
      BY <2>1 DEF Publishing, LiveFrame
    <3> QED BY <2>1, <3>1, StillReaches
  <2> QED BY <2>1, <2>2, <2>3 DEF ReachesAll, Served, Excused
<1> QED BY <1>1, <1>2

LEMMA HubInitial == Init => HubInv
<1> SUFFICES ASSUME Init PROVE HubInv
  OBVIOUS
<1>1. /\ loc = [p \in Procs |-> Start(IF p \in Publishers THEN "idle" ELSE "off")]
      /\ \A p \in Procs : loc[p] \in Local
  BY StartType DEF Init
<1>2. Shapes
  <2>0. /\ ring \in [FlowHosts -> Seq(Flow)] /\ listed \subseteq FlowHosts
        /\ forgets \in 0..MaxForgets /\ hidden \in [Clients -> SUBSET Flow]
        /\ \A h \in FlowHosts : \A f \in Elems(ring[h]) : f.host = h
    BY HubAssumption DEF Init, Elems
  <2>a. used \subseteq FlowIds
    <3>1. Recorded \subseteq Flow
      BY <2>0 DEF Recorded, Elems
    <3> QED BY <3>1 DEF Init, Flow
  <2>1. ring \in [FlowHosts -> Seq(Flow)] /\ mu \in Publishers \cup {Nobody}
        /\ clients \subseteq Clients /\ wmu \in [Clients -> Procs \cup {Nobody}]
        /\ net \in [Clients -> {"open", "stalled", "broken"}]
    BY HubAssumption DEF Init
  <2>2. loc \in [Procs -> Local]
    BY <1>1
  <2>3. <<>> \in Seq(Token) /\ Len(<<>>) = 0
    OBVIOUS
  <2>4. sock \in [Clients -> Seq(Token)] /\ \A c \in Clients : Len(sock[c]) <= SockCap
    BY <2>3, HubAssumption DEF Init
  <2>5. page \in [Clients -> Page]
    BY FrameFacts DEF Init, Page
  <2>6. sent \in [Clients -> SUBSET Frame]
    BY DEF Init
  <2> QED BY <2>0, <2>a, <2>1, <2>2, <2>4, <2>5, <2>6 DEF Shapes
<1>3. \A p \in Procs : /\ loc[p].pc = IF p \in Publishers THEN "idle" ELSE "off"
                       /\ loc[p].to = Nobody /\ loc[p].todo = {}
  BY <1>1 DEF Start
<1>4. ControlOK
  BY <1>3, ProcFacts DEF ControlOK, PublisherOK, HandlerOK, Sending
<1>5. LocksOK
  BY <1>3, ProcFacts DEF Init, LocksOK, Sending
<1>6. StreamOK
  <2>1. \A c \in Clients : sock[c] = <<>> /\ page[c].half = NoFrame /\ ~page[c].torn
                           /\ wmu[c] = Nobody
    BY DEF Init
  <2> QED BY <2>1 DEF StreamOK, Alternates, HalfAt, HalfWritten
<1>7. ReachesAll
  BY <1>3, ProcFacts DEF ReachesAll, Served, Sending
<1> QED BY <1>2, <1>4, <1>5, <1>6, <1>7 DEF HubInv

LEMMA HubInvariant == Spec => []HubInv
<1>1. HubInv /\ [Next]_vars => HubInv'
  BY TypeInductive, ControlInductive, StreamInductive, ReachesInductive DEF HubInv
<1> QED BY <1>1, HubInitial, PTL DEF Spec

\* Every variable of the live flows keeps its type, no socket takes more than it
\* holds, and a mutex that is held is held by a goroutine in the section that it
\* guards: also the error path of wsConn.send (ws.go) releases wmu, and no
\* publisher leaves Publish (hub.go) with Hub.mu.
THEOREM HubTypeCorrect == Spec => []TypeOK
<1>1. HubInv => TypeOK
  BY ProcFacts DEF HubInv, Shapes, LocksOK, Sending, Procs, TypeOK
<1> QED BY <1>1, HubInvariant, PTL

\* Hub.mu is held by exactly the publisher that is in Publish, and the wmu of
\* a client by exactly the goroutine that is writing a frame to it (hub.go,
\* wsConn.send of ws.go): at most one goroutine is in either.
THEOREM LocksExclude == Spec => []LocksOK
<1>1. HubInv => LocksOK
  BY DEF HubInv
<1> QED BY <1>1, HubInvariant, PTL

\* No page ever reads a payload after the header of another frame, however many
\* publishers and the client's own handler write to it at a time, and whatever
\* writes fail (wsConn.send and writeWSFrame of ws.go).
THEOREM FramesStayIntact == Spec => []FramesIntact
<1>1. HubInv => FramesIntact
  BY DEF HubInv, StreamOK, FramesIntact
<1> QED BY <1>1, HubInvariant, PTL

\* A flow that the registry holds has been sent to every connected client whose
\* snapshot is out, or a publisher has still to send it, unless its host was off
\* the list when the client's handler asked for the list: AddFlow comes before Publish, and
\* hub.add before the snapshot (App.OnFlow of app.go, handleWS of ws.go).
THEOREM NothingIsMissed == Spec => []NothingMissed
<1>1. HubInv => NothingMissed
  <2> SUFFICES ASSUME HubInv, NEW c \in Clients, NEW f \in Recorded \ hidden[c],
                      loc[c].pc = "read", net[c] # "broken"
               PROVE  \/ \E frame \in sent[c] : f \in Elems(frame.flows)
                      \/ \E p \in Publishers : Publishing(p, f, c)
    BY DEF NothingMissed
  <2>1. Reaches(f, c)
    BY DEF HubInv, ReachesAll, Served, Excused
  <2> QED BY <2>1 DEF Reaches, Sending
<1> QED BY <1>1, HubInvariant, PTL

=============================================================================
