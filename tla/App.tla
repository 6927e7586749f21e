-------------------------------- MODULE App --------------------------------
(***************************************************************************)
(* The decisions SkyTap takes for captured connections (app.go): App is    *)
(* the Decider of the gomitm engine, which calls OnConnect once per        *)
(* connection, OnRequest once per request of a connection it decrypts, and *)
(* OnFlow once per exchange.  The engine and the clients are external;     *)
(* each connection is served by its own goroutine.                         *)
(*                                                                         *)
(*   idle -Accept-> observe -OnConnectObserve-> decide                     *)
(*     decide -OnConnectState-> spliced | ready                            *)
(*   ready -Request-> state -OnRequestState-> match                        *)
(*     match -OnRequestMatch-> flow | mock     mock -OnRequestMock-> flow  *)
(*   flow -OnFlow-> ready                                                  *)
(*                                                                         *)
(* OnConnect and OnRequest consult the registry and the rule table in      *)
(* separate critical sections: each is a step, and the policy may change   *)
(* in between.                                                             *)
(***************************************************************************)
EXTENDS Registry, RuleEngine

CONSTANTS Conns,     \* goroutines serving captured connections
          Requests,  \* requests clients send
          NoRequest, \* no request is being served
          MaxHits    \* bound on a host's hit counter

ASSUME AppAssumption ==
    /\ Requests \subseteq Request
    /\ NoRequest \notin Request
    /\ MaxHits \in Nat

\* What the engine does with the request: answer it with the rule's response,
\* forward it as rewritten by the rule, or forward it as it is.
Outcome == [kind: {"mock", "rewrite", "forward"}, rule: Rule \cup {NoRule}]
Forward == [kind |-> "forward", rule |-> NoRule]

VARIABLE conn

Conn == [pc: {"idle", "observe", "decide", "spliced", "ready", "state",
              "match", "mock", "flow"},
         host: Hosts,
         req: Request \cup {NoRequest},
         st: AnyState,                 \* the local st of OnRequest
         out: Outcome]

Idle == [pc |-> "idle", host |-> EmptyHost, req |-> NoRequest,
         st |-> StateObserved, out |-> Forward]

\* The engine decrypts the connection.
Decrypted(c) == conn[c].pc \in {"ready", "state", "match", "mock", "flow"}

AppInit == conn = [c \in Conns |-> Idle]

-----------------------------------------------------------------------------
(* The engine (external).                                                  *)

Accept(c, h) ==
    /\ conn[c].pc = "idle"
    /\ hits[h] < MaxHits
    /\ conn' = [conn EXCEPT ![c].pc = "observe", ![c].host = h]
    /\ UNCHANGED <<regVars, rules>>

ClientRequest(c, req) ==
    /\ conn[c].pc = "ready"
    /\ conn' = [conn EXCEPT ![c].pc = "state", ![c].req = req]
    /\ UNCHANGED <<regVars, rules>>

Close(c) ==
    /\ conn[c].pc \in {"spliced", "ready"}
    /\ conn' = [conn EXCEPT ![c] = Idle]
    /\ UNCHANGED <<regVars, rules>>

-----------------------------------------------------------------------------
(* OnConnect.                                                              *)

OnConnectObserve(c) ==
    /\ conn[c].pc = "observe"
    /\ Observe(conn[c].host)
    /\ conn' = [conn EXCEPT ![c].pc = "decide"]
    /\ UNCHANGED rules

\* Fault variant: everything that is not OBSERVED is decrypted.
OnConnectStateNegated(c) ==
    /\ conn[c].pc = "decide"
    /\ conn' = [conn EXCEPT ![c].pc = IF State(conn[c].host) # StateObserved
                                      THEN "ready" ELSE "spliced"]
    /\ UNCHANGED <<regVars, rules>>

OnConnectState(c) ==
    /\ conn[c].pc = "decide"
    /\ conn' = [conn EXCEPT ![c].pc = IF State(conn[c].host) \in Promoted
                                      THEN "ready" ELSE "spliced"]
    /\ UNCHANGED <<regVars, rules>>

-----------------------------------------------------------------------------
(* OnRequest.                                                              *)

OnRequestState(c) ==
    /\ conn[c].pc = "state"
    /\ conn' = [conn EXCEPT ![c].pc = "match", ![c].st = State(conn[c].host)]
    /\ UNCHANGED <<regVars, rules>>

Decided(c, out) == conn' = [conn EXCEPT ![c].pc = "flow", ![c].out = out]

\* Fault variant: a rewrite rule applies whatever the state of the host.
OnRequestMatchAnyState(c) ==
    /\ conn[c].pc = "match"
    /\ \E r \in matchRule(conn[c].host, conn[c].req) :
        \/ /\ IsRewrite(r)
           /\ Decided(c, [kind |-> "rewrite", rule |-> r])
        \/ /\ ~IsRewrite(r)
           /\ conn[c].st # StateMocked
           /\ Decided(c, Forward)
        \/ /\ ~IsRewrite(r)
           /\ conn[c].st = StateMocked
           /\ conn' = [conn EXCEPT ![c].pc = "mock"]
    /\ UNCHANGED <<regVars, rules>>

OnRequestMatch(c) ==
    /\ conn[c].pc = "match"
    /\ \E r \in matchRule(conn[c].host, conn[c].req) :
        \/ /\ IsRewrite(r)
           /\ Decided(c, IF conn[c].st \in Promoted
                         THEN [kind |-> "rewrite", rule |-> r]
                         ELSE Forward)
        \/ /\ ~IsRewrite(r)
           /\ conn[c].st # StateMocked
           /\ Decided(c, Forward)
        \/ /\ ~IsRewrite(r)
           /\ conn[c].st = StateMocked
           /\ conn' = [conn EXCEPT ![c].pc = "mock"]
    /\ UNCHANGED <<regVars, rules>>

\* RuleEngine.Match looks the rule up a second time.
OnRequestMock(c) ==
    /\ conn[c].pc = "mock"
    /\ \E r \in matchRule(conn[c].host, conn[c].req) :
           Decided(c, IF r = NoRule \/ IsRewrite(r)
                      THEN Forward
                      ELSE [kind |-> "mock", rule |-> r])
    /\ UNCHANGED <<regVars, rules>>

-----------------------------------------------------------------------------
(* OnFlow, as far as the registry; Hub models Publish.                     *)

OnFlow(c) ==
    /\ conn[c].pc = "flow"
    /\ AddFlow([host |-> conn[c].host, mocked |-> conn[c].out.kind = "mock"])
    /\ conn' = [conn EXCEPT ![c] = [Idle EXCEPT !.pc = "ready",
                                                !.host = conn[c].host]]
    /\ UNCHANGED rules

ConnStep(c) ==
    \/ \E h \in Hosts : Accept(c, h)
    \/ \E req \in Requests : ClientRequest(c, req)
    \/ Close(c)
    \/ OnConnectObserve(c) \/ OnConnectState(c)
    \/ OnRequestState(c) \/ OnRequestMatch(c) \/ OnRequestMock(c)
    \/ OnFlow(c)

-----------------------------------------------------------------------------

AppTypeOK == conn \in [Conns -> Conn]

=============================================================================
