------------------------------- MODULE SkyTap -------------------------------
(***************************************************************************)
(* The program: the connections of App and the admin requests of Admin,    *)
(* interleaved over one registry, one rule table and one data directory,   *)
(* with crashes and restarts.                                              *)
(***************************************************************************)
EXTENDS App, Admin

VARIABLE seen    \* history: what held while OnRequest of c was deciding

vars == <<states, hits, flows, rules, conn, seen, adminVars>>

\* seen[c] collects, over the states the program goes through from the call
\* of OnRequest to its decision, the state of the host and the first matching
\* rule, and apart the first matching rules since the first lookup.
NothingSeen == [states |-> {}, first |-> {}, again |-> {}]

Deciding == {"state", "match", "mock"}

Window ==
    seen' = [c \in Conns |->
        LET k   == conn'[c]
            was == IF conn[c].pc \in Deciding THEN seen[c] ELSE NothingSeen
            now == FirstMatch(rules', k.host, k.req)
        IN  IF k.pc \in Deciding
            THEN [states |-> was.states \cup {Effective(states', k.host)},
                  first  |-> was.first \cup now,
                  again  |-> was.again \cup IF k.pc = "mock" THEN now ELSE {}]
            ELSE IF k.pc = "flow" THEN seen[c] ELSE NothingSeen]

Init ==
    /\ AdminInit
    /\ AppInit
    /\ seen = [c \in Conns |-> NothingSeen]

Serve(c) ==
    /\ phase = "up"
    /\ ConnStep(c)
    /\ Window
    /\ UNCHANGED adminVars

Administer ==
    /\ AdminStep
    /\ UNCHANGED conn
    /\ Window

Crash ==
    /\ AdminCrash
    /\ conn' = [c \in Conns |-> Idle]
    /\ Window

Next ==
    \/ \E c \in Conns : Serve(c)
    \/ Administer
    \/ Crash

Spec == Init /\ [][Next]_vars

-----------------------------------------------------------------------------
(* Properties.                                                             *)

\* Every variable of the program has its type: rings are bounded, and the files
\* hold a policy or something loadPersist skips.
TypeOK ==
    /\ RegistryTypeOK
    /\ RuleTypeOK
    /\ AppTypeOK
    /\ AdminTypeOK
    /\ seen \in [Conns -> [states: SUBSET AnyState,
                           first: SUBSET (Rule \cup {NoRule}),
                           again: SUBSET (Rule \cup {NoRule})]]

\* SkyTap decrypts only what somebody chose (README: "decrypt only what you
\* choose"): the host of a decrypted connection was at some time promoted by
\* an admin request, by SKYTAP_INTERCEPT_HOSTS, by the seed or in the
\* state.json the program was first given, however handlers, saves, failed
\* writes, crashes and restarts interleaved, and although MCP set_state may
\* have stored anything.
NoDecryptWithoutPromotion ==
    \A c \in Conns : Decrypted(c) => conn[c].host \in granted

\* What the policy calls for while a host is in state s and r is the first
\* rule that applies to the request.
CalledFor(s, r) ==
    IF IsRewrite(r) /\ s \in Promoted
    THEN [kind |-> "rewrite", rule |-> r]
    ELSE IF ~IsRewrite(r) /\ r # NoRule /\ s = StateMocked
         THEN [kind |-> "mock", rule |-> r]
         ELSE Forward

\* A mock rule was first, and a rewrite rule has taken its place since the
\* first lookup.
Overtaken(c) ==
    /\ StateMocked \in seen[c].states
    /\ \E r \in seen[c].first : r # NoRule /\ ~IsRewrite(r)
    /\ \E r \in seen[c].again : IsRewrite(r)

\* A mock rule "short-circuits; "rewrite" mutates the request then forwards
\* upstream" (rules.go:29): whatever changes while OnRequest runs, its outcome
\* is what a state and a first rule that held during the call, though perhaps
\* at different moments of it, call for.  There is one exception: the request
\* goes out untouched although every rule called for something if the mock
\* rule that the first lookup found was overtaken by a rewrite rule before the
\* second (app.go:64 and 74).  In particular no answer is mocked without a mock rule and a MOCKED
\* host, and no mock or rewrite is dropped while it alone applied.
OutcomeJustified ==
    \A c \in Conns : conn[c].pc = "flow" =>
        \/ \E s \in seen[c].states, r \in seen[c].first :
               conn[c].out = CalledFor(s, r)
        \/ conn[c].out = Forward /\ Overtaken(c)

\* Every rule in the table can be deleted: it has an id, since DELETE
\* /rules?id= refuses the empty one, whether it was POSTed without one, added
\* over MCP, seeded, or read from a rules.json that has none.
RulesDeletable == \A e \in rules : e.rule.id # NoId

AllIdle == \A p \in Handlers : hpc[p] = "idle"

\* When no admin request is being served, the files hold the policy that is
\* in force: a restart now would change nothing.  (A host that is merely
\* observed need not be in the file.)
QuiescentDiskCurrent ==
    phase = "up" /\ AllIdle /\ faults = 0 =>
        /\ disk.state \notin Unreadable
        /\ \A h \in Hosts : Effective(disk.state, h) = Effective(states, h)
        /\ disk.rules = rules

\* Whenever the program runs, also just after a restart, the state of every
\* host is one that the requests answered so far, or one still being served
\* when the program died, account for.
AckedPolicySurvives ==
    phase # "down" => \A h \in Hosts : Effective(states, h) \in acked[h]

=============================================================================
