----------------------------- MODULE AppLemmas -----------------------------
(***************************************************************************)
(* What each method of the registry and of the rule table preserves, and   *)
(* each step of a connection, for every set of hosts, paths, methods and   *)
(* ids and every ring size.  Used by the proofs about every specification  *)
(* that calls them.                                                        *)
(***************************************************************************)
EXTENDS App, TLAPS

\* NewRegistry's ringN (64) is a positive number.
LEMMA RingNPositive == RingN \in Nat /\ RingN > 0
BY RegistryAssumption

\* The empty registry of NewRegistry is well typed.
LEMMA NewRegistryType == NewRegistry => RegistryTypeOK
BY RegistryAssumption
DEF NewRegistry, RegistryTypeOK, NoStates, StateMap, AnyState

\* The three states of registry.go are states, and "no entry" is none of them.
LEMMA StateFacts ==
    /\ StateObserved \in AnyState
    /\ StateIntercepted \in AnyState
    /\ StateMocked \in AnyState
    /\ StateObserved \notin Promoted
    /\ Absent \notin Promoted
    /\ Promoted \subseteq AnyState
BY RegistryAssumption
DEF AnyState, DomainStates, Promoted, StateObserved, StateIntercepted,
    StateMocked

\* Registry.State returns a state.
LEMMA StateType ==
    ASSUME RegistryTypeOK, NEW h \in Hosts
    PROVE  State(h) \in AnyState
BY StateFacts DEF RegistryTypeOK, StateMap, State

\* What AddFlow stores is a ring of flows, of at most RingN elements.
LEMMA PushType ==
    ASSUME NEW ring \in Seq(Flow), NEW f \in Flow, Len(ring) <= RingN
    PROVE  Push(ring, f) \in Seq(Flow) /\ Len(Push(ring, f)) <= RingN
<1> DEFINE buf == Append(ring, f)
<1>1. buf \in Seq(Flow) /\ Len(buf) = Len(ring) + 1 /\ Len(ring) \in Nat
  OBVIOUS
<1>2. CASE Len(buf) > RingN
  <2>1. Push(ring, f) = SubSeq(buf, Len(buf) - RingN + 1, Len(buf))
    BY <1>2 DEF Push
  <2>2. Len(buf) = RingN + 1
    BY <1>1, <1>2, RingNPositive
  <2> HIDE DEF buf
  <2>3. Push(ring, f) = SubSeq(buf, 2, RingN + 1)
    BY <2>1, <2>2, RingNPositive
  <2> QED BY <1>1, <2>2, <2>3, RingNPositive
<1>3. CASE ~(Len(buf) > RingN)
  BY <1>1, <1>3, RingNPositive DEF Push
<1> QED BY <1>2, <1>3

\* Observe lists the host and counts the hit.
LEMMA ObserveType ==
    ASSUME RegistryTypeOK, NEW h \in Hosts, Observe(h)
    PROVE  RegistryTypeOK'
<1> USE DEF RegistryTypeOK, StateMap
<1>1. CASE h = EmptyHost
  BY <1>1 DEF Observe, regVars
<1>2. CASE h # EmptyHost
  <2>1. PICK s \in AnyState \cup {Absent} : states' = [states EXCEPT ![h] = s]
    BY <1>2, StateFacts DEF Observe
  <2>2. states' \in [Hosts -> AnyState \cup {Absent}]
    BY <2>1
  <2>3. hits' = [hits EXCEPT ![h] = hits[h] + 1]
    BY <1>2 DEF Observe
  <2>4. hits[h] + 1 \in Nat
    OBVIOUS
  <2>5. hits' \in [Hosts -> Nat]
    BY <2>3, <2>4
  <2>6. flows' = flows
    BY <1>2 DEF Observe
  <2> QED BY <2>2, <2>5, <2>6
<1> QED BY <1>1, <1>2

\* SetState stores any state for any host.
LEMMA SetStateType ==
    ASSUME RegistryTypeOK, NEW h \in Hosts, NEW s \in AnyState, SetState(h, s)
    PROVE  RegistryTypeOK'
BY DEF RegistryTypeOK, StateMap, SetState

\* AddFlow changes the ring of one host and keeps it within RingN.
LEMMA AddFlowType ==
    ASSUME RegistryTypeOK, NEW f \in Flow, AddFlow(f)
    PROVE  RegistryTypeOK'
<1>1. /\ f.host \in Hosts
      /\ flows[f.host] \in Seq(Flow) /\ Len(flows[f.host]) <= RingN
  BY DEF Flow, RegistryTypeOK
<1>2. /\ flows' = [flows EXCEPT ![f.host] = Push(flows[f.host], f)]
      /\ states' = states /\ hits' = hits
  BY DEF AddFlow
<1>3. /\ Push(flows[f.host], f) \in Seq(Flow)
      /\ Len(Push(flows[f.host], f)) <= RingN
  BY <1>1, PushType
<1> QED BY <1>1, <1>2, <1>3 DEF RegistryTypeOK

\* DeleteHost removes every trace of one host.
LEMMA DeleteHostType ==
    ASSUME RegistryTypeOK, NEW h \in Hosts, DeleteHost(h)
    PROVE  RegistryTypeOK'
<1> USE DEF RegistryTypeOK, StateMap
<1>1. CASE h = EmptyHost
  BY <1>1 DEF DeleteHost, regVars
<1>2. CASE h # EmptyHost
  <2>1. /\ states' = [states EXCEPT ![h] = Absent]
        /\ hits' = [hits EXCEPT ![h] = 0]
        /\ flows' = [flows EXCEPT ![h] = <<>>]
    BY <1>2 DEF DeleteHost
  <2>2. <<>> \in Seq(Flow) /\ Len(<<>>) <= RingN
    BY RingNPositive
  <2>3. states' \in [Hosts -> AnyState \cup {Absent}] /\ hits' \in [Hosts -> Nat]
    BY <2>1
  <2>4. flows' \in [Hosts -> Seq(Flow)]
    BY <2>1, <2>2
  <2>5. ASSUME NEW g \in Hosts PROVE Len(flows'[g]) <= RingN
    BY <2>1, <2>2
  <2> QED BY <2>3, <2>4, <2>5
<1> QED BY <1>1, <1>2

\* ClearFlows empties one ring, or all of them.
LEMMA ClearFlowsType ==
    ASSUME RegistryTypeOK, NEW h \in Hosts, ClearFlows(h)
    PROVE  RegistryTypeOK'
BY RingNPositive DEF RegistryTypeOK, ClearFlows

\* A registry that starts anew, after Reset or in a new process.
LEMMA EmptiedType ==
    ASSUME states' = NoStates,
           hits' = [h \in Hosts |-> 0],
           flows' = [h \in Hosts |-> <<>>]
    PROVE  RegistryTypeOK'
BY RingNPositive DEF RegistryTypeOK, NoStates, StateMap

-----------------------------------------------------------------------------
(* What each method of the rule table returns and preserves, for every set *)
(* of hosts, paths, methods and ids.                                       *)

\* Every rule of a table has an id.
AllHaveId(rs) == \A e \in rs : e.rule.id # NoId

\* Set and Add hand out complete rules: with an id and an action.
LEMMA CompleteFacts ==
    ASSUME NEW r \in Rule, NEW id, r.id = NoId => id \in RuleIDs
    PROVE  Complete(r, id) \in Rule /\ Complete(r, id).id # NoId
<1>1. NoId \notin RuleIDs
  BY RuleEngineAssumption
<1>2. CASE r.id = NoId
  BY <1>1, <1>2 DEF Complete, Rule, Actions
<1>3. CASE r.id # NoId
  BY <1>1, <1>3 DEF Complete, Rule, Actions
<1> QED BY <1>2, <1>3

\* matchRule returns a rule of the table, or nil.
LEMMA FirstMatchType ==
    ASSUME NEW rs \in SUBSET Entry, NEW h, NEW req
    PROVE  FirstMatch(rs, h, req) \subseteq Rule \cup {NoRule}
BY DEF FirstMatch, Entry

\* Add appends a complete rule.
LEMMA AddFacts ==
    ASSUME RuleTypeOK, NEW r \in Rule, Add(r)
    PROVE  RuleTypeOK' /\ (AllHaveId(rules) => AllHaveId(rules)')
<1>1. PICK id \in IDsFor(r), p \in 1..MaxPos :
          rules' = rules \cup {[pos |-> p, rule |-> Complete(r, id)]}
  BY DEF Add
<1>2. r.id = NoId => id \in RuleIDs
  BY DEF IDsFor
<1>3. Complete(r, id) \in Rule /\ Complete(r, id).id # NoId
  BY <1>2, CompleteFacts
<1>4. [pos |-> p, rule |-> Complete(r, id)] \in Entry
  BY <1>3 DEF Entry
<1> QED BY <1>1, <1>3, <1>4 DEF RuleTypeOK, AllHaveId

\* Set replaces the table by complete rules, whatever it is given.
LEMMA SetFacts ==
    ASSUME NEW rs \in SUBSET Entry, Set(rs)
    PROVE  RuleTypeOK' /\ AllHaveId(rules)'
<1>1. PICK new \in [{e \in rs : e.rule.id = NoId} -> RuleIDs \ UsedIDs(rs)] :
          rules' = {[e EXCEPT !.rule = Complete(@, new[e])] : e \in rs}
  BY DEF Set
<1>2. ASSUME NEW e \in rs
      PROVE  /\ [e EXCEPT !.rule = Complete(@, new[e])] \in Entry
             /\ [e EXCEPT !.rule = Complete(@, new[e])].rule.id # NoId
  <2>1. e \in Entry /\ e.rule \in Rule
    BY DEF Entry
  <2>2. e.rule.id = NoId => new[e] \in RuleIDs
    BY <1>1
  <2>3. Complete(e.rule, new[e]) \in Rule /\ Complete(e.rule, new[e]).id # NoId
    BY <2>1, <2>2, CompleteFacts
  <2> QED BY <2>1, <2>3 DEF Entry
<1> QED BY <1>1, <1>2 DEF RuleTypeOK, AllHaveId

\* Delete only removes.
LEMMA DeleteFacts ==
    ASSUME RuleTypeOK, NEW id, Delete(id)
    PROVE  RuleTypeOK' /\ (AllHaveId(rules) => AllHaveId(rules)')
BY DEF Delete, RuleTypeOK, AllHaveId

-----------------------------------------------------------------------------
(* The steps of a connection.                                              *)

\* The record of a connection that serves nothing.
LEMMA IdleType == Idle \in Conn
BY StateFacts, HostNamesAssumption DEF Idle, Conn, Forward, Outcome

\* Every step of a connection's goroutine, and of the engine around it, keeps
\* the registry, the table and the connection well typed.
LEMMA ConnStepType ==
    ASSUME RegistryTypeOK, RuleTypeOK, AppTypeOK, NEW c \in Conns, ConnStep(c)
    PROVE  RegistryTypeOK' /\ RuleTypeOK' /\ AppTypeOK'
<1>0. /\ conn \in [Conns -> Conn] /\ conn[c] \in Conn
      /\ conn[c].host \in Hosts
  BY DEF AppTypeOK, Conn
<1>1. ASSUME UNCHANGED <<regVars, rules>> PROVE RegistryTypeOK' /\ RuleTypeOK'
  BY <1>0, <1>1 DEF RegistryTypeOK, RuleTypeOK, regVars
<1>2. ASSUME NEW k \in Conn, conn' = [conn EXCEPT ![c] = k] PROVE AppTypeOK'
  BY <1>0, <1>2 DEF AppTypeOK
<1>3. ASSUME NEW h \in Hosts, Accept(c, h)
      PROVE  RegistryTypeOK' /\ RuleTypeOK' /\ AppTypeOK'
  BY <1>0, <1>1, <1>3 DEF Accept, AppTypeOK, Conn
<1>4. ASSUME NEW req \in Requests, ClientRequest(c, req)
      PROVE  RegistryTypeOK' /\ RuleTypeOK' /\ AppTypeOK'
  BY <1>0, <1>1, <1>4, AppAssumption DEF ClientRequest, AppTypeOK, Conn
<1>5. CASE Close(c)
  BY <1>1, <1>2, <1>5, IdleType DEF Close
<1>6. CASE OnConnectObserve(c)
  <2>1. AppTypeOK'
    BY <1>0, <1>6 DEF OnConnectObserve, AppTypeOK, Conn
  <2> QED BY <1>0, <1>6, <2>1, ObserveType DEF OnConnectObserve, RuleTypeOK
<1>7. CASE OnConnectState(c)
  BY <1>0, <1>1, <1>7 DEF OnConnectState, AppTypeOK, Conn
<1>8. CASE OnRequestState(c)
  <2>1. State(conn[c].host) \in AnyState
    BY <1>0, StateType
  <2> QED BY <1>0, <1>1, <1>8, <2>1 DEF OnRequestState, AppTypeOK, Conn
<1>9. ASSUME NEW out \in Outcome, Decided(c, out) PROVE AppTypeOK'
  BY <1>0, <1>9 DEF Decided, AppTypeOK, Conn
<1>10. /\ matchRule(conn[c].host, conn[c].req) \subseteq Rule \cup {NoRule}
       /\ Forward \in Outcome
       /\ \A r \in Rule \cup {NoRule} :
             /\ [kind |-> "rewrite", rule |-> r] \in Outcome
             /\ [kind |-> "mock", rule |-> r] \in Outcome
  BY <1>0, FirstMatchType DEF matchRule, RuleTypeOK, Forward, Outcome
<1>11. CASE OnRequestMatch(c)
  <2>1. CASE conn' = [conn EXCEPT ![c].pc = "mock"]
    BY <1>0, <1>1, <1>11, <2>1 DEF OnRequestMatch, AppTypeOK, Conn
  <2>2. CASE \E out \in Outcome : Decided(c, out)
    BY <1>1, <1>9, <1>11, <2>2 DEF OnRequestMatch
  <2> QED BY <1>10, <1>11, <2>1, <2>2 DEF OnRequestMatch
<1>12. CASE OnRequestMock(c)
  <2>1. \E out \in Outcome : Decided(c, out)
    BY <1>10, <1>12 DEF OnRequestMock
  <2> QED BY <1>1, <1>9, <1>12, <2>1 DEF OnRequestMock
<1>13. CASE OnFlow(c)
  <2>1. [host |-> conn[c].host, mocked |-> conn[c].out.kind = "mock"] \in Flow
    BY <1>0 DEF Flow
  <2>2. [Idle EXCEPT !.pc = "ready", !.host = conn[c].host] \in Conn
    BY <1>0, IdleType DEF Conn
  <2>3. AppTypeOK'
    BY <1>2, <1>13, <2>2 DEF OnFlow
  <2> QED BY <1>0, <1>13, <2>1, <2>3, AddFlowType DEF OnFlow, RuleTypeOK
<1> QED
  BY <1>3, <1>4, <1>5, <1>6, <1>7, <1>8, <1>11, <1>12, <1>13 DEF ConnStep

=============================================================================
