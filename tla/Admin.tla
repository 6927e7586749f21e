------------------------------- MODULE Admin -------------------------------
(***************************************************************************)
(* The admin API (admin.go, mcp.go), what it persists (config.go) and the  *)
(* start of the program (main.go).                                         *)
(*                                                                         *)
(* Every HTTP request is served by its own goroutine.  A handler that      *)
(* changes the policy runs                                                 *)
(*                                                                         *)
(*     change memory; _ = savePersist(...); writeJSON(...)                 *)
(*                                                                         *)
(* and nothing but the two short critical sections of the registry and of  *)
(* the rule table orders two handlers.  savePersist itself is a sequence   *)
(* of steps, one per lock section and per system call:                     *)
(*                                                                         *)
(*     snapshot   reg.snapshot() into a local map                          *)
(*     openS      os.WriteFile(state.json): open, truncating the file      *)
(*     writeS     ... and write the marshalled snapshot                    *)
(*     all        rules.All() into a local slice                           *)
(*     openR      os.WriteFile(rules.json): open, truncating the file      *)
(*     writeR     ... and write the marshalled rules                       *)
(***************************************************************************)
EXTENDS Registry, RuleEngine

CONSTANTS
    Handlers,        \* goroutines that may be serving an admin request
    Main,            \* the main goroutine
    HostInputs,      \* hosts that admin requests name
    StateInputs,     \* states that admin requests name, in upper case
    RuleInputs,      \* rules that admin requests add
    SeedHost,        \* check.spy.net
    SeedRule,        \* the rule seed() adds
    EnvHosts,        \* SKYTAP_INTERCEPT_HOSTS
    InitialStates,   \* state.json as the program may first find it
    InitialRules,    \* rules.json as the program may first find it
    NoFile,          \* the file does not exist
    EmptyFile,       \* truncated, not yet written
    BadFile,         \* holds bytes that json.Unmarshal rejects
    MaxFaults,       \* bound on failing system calls
    MaxCrashes,      \* bound on crashes
    CrashMidSave     \* may a crash hit a running savePersist?

Savers == Handlers \cup {Main}

SavePcs == {"snapshot", "openS", "writeS", "all", "openR", "writeR"}

\* A file that loadPersist skips, or the contents it reads.
Unreadable == {NoFile, EmptyFile, BadFile}
StateFile  == StateMap \cup Unreadable
RulesFile  == (SUBSET Entry) \cup Unreadable

ASSUME AdminAssumption ==
    /\ Main \notin Handlers
    /\ HostInputs \subseteq Hosts
    /\ StateInputs \subseteq AnyState
    /\ RuleInputs \subseteq Rule
    /\ SeedHost \in Hosts \ {EmptyHost}
    /\ SeedRule \in Rule /\ SeedRule.host = SeedHost /\ SeedRule.id = NoId
    /\ EnvHosts \subseteq Hosts \ {EmptyHost}
    /\ InitialStates \subseteq StateMap \cup {NoFile}
    /\ \A rs \in InitialRules : rs = NoFile \/ rs \subseteq Entry
    /\ Unreadable \cap StateMap = {}
    /\ EmptyFile # NoFile /\ BadFile # NoFile /\ EmptyFile # BadFile
    /\ MaxFaults \in Nat /\ MaxCrashes \in Nat
    /\ CrashMidSave \in BOOLEAN

VARIABLES
    phase,      \* "down", "boot" (main before it serves), "up"
    hpc,        \* hpc[p]: where goroutine p is
    snapS,      \* snapS[p]: p's copy of the states
    snapR,      \* snapR[p]: p's copy of the rules
    bootSaves,  \* savePersist calls main still has to make
    disk,       \* the files state.json and rules.json
    faults,     \* failed system calls so far
    crashes,    \* crashes so far
    granted,    \* history: hosts somebody ever promoted
    acked       \* history: acked[h] holds the states of h that the
                \* answered and the running requests account for

policyVars == <<states, hits, flows, rules>>
saveVars   == <<hpc, snapS, snapR, bootSaves, disk>>
countVars  == <<faults, crashes>>
ghostVars  == <<granted, acked>>
adminVars  == <<phase, hpc, snapS, snapR, bootSaves, disk, faults, crashes,
                granted, acked>>

\* The state a host has under the map m (Registry.State on m).
Effective(m, h) == IF m[h] = Absent THEN StateObserved ELSE m[h]

PromotedIn(m) == {h \in Hosts : m[h] \in Promoted}

AdminInit ==
    /\ NewRegistry
    /\ rules = {}
    /\ phase = "down"
    /\ hpc = [p \in Savers |-> "idle"]
    /\ snapS = [p \in Savers |-> NoStates]
    /\ snapR = [p \in Savers |-> {}]
    /\ bootSaves = 0
    /\ \E s \in InitialStates, r \in InitialRules :
           /\ disk = [state |-> s, rules |-> r]
           /\ granted = IF s = NoFile THEN {} ELSE PromotedIn(s)
           /\ acked = [h \in Hosts |->
                          IF s = NoFile THEN {StateObserved}
                                        ELSE {Effective(s, h)}]
    /\ faults = 0
    /\ crashes = 0

-----------------------------------------------------------------------------
(* Start.  main calls loadPersist, then seed when there is no state.json,  *)
(* then promotes SKYTAP_INTERCEPT_HOSTS; no other goroutine runs yet, so   *)
(* this is one step.  A file that does not parse is skipped silently.      *)

persistExists == disk.state # NoFile

loadedStates == IF disk.state \in Unreadable THEN NoStates ELSE disk.state
loadedRules  == IF disk.rules \in Unreadable THEN {} ELSE disk.rules

\* seed(): the states, and the possible tables (one, or none if it is full).
seedStates(m) ==
    IF m[SeedHost] = Absent THEN [m EXCEPT ![SeedHost] = StateMocked] ELSE m

seedRules(rs) ==
    IF \E e \in rs : e.rule.host = SeedHost
    THEN {rs}
    ELSE {rs \cup {[pos |-> p, rule |-> SeedRule]} :
             p \in {p \in 1..MaxPos : IsNextPos(rs, p)}}

interceptEnv(m) ==
    [h \in Hosts |-> IF h \in EnvHosts THEN StateIntercepted ELSE m[h]]

BootStates ==
    interceptEnv(IF persistExists THEN loadedStates ELSE seedStates(loadedStates))

\* Set completes the loaded rules and Add the seeded one in the same way.
Boot ==
    /\ phase = "down"
    /\ phase' = "boot"
    /\ states' = BootStates
    /\ \E rs \in IF persistExists THEN {loadedRules} ELSE seedRules(loadedRules) :
           Set(rs)
    /\ hpc' = [hpc EXCEPT ![Main] = "snapshot"]
    /\ bootSaves' = IF EnvHosts = {} THEN 1 ELSE 2
    /\ granted' = granted \cup EnvHosts
                          \cup (IF persistExists THEN {} ELSE {SeedHost})
    /\ acked' = [h \in Hosts |->
                    IF h \in EnvHosts \/ (h = SeedHost /\ ~persistExists)
                    THEN {Effective(interceptEnv(seedStates(NoStates)), h)}
                    ELSE acked[h]]
    /\ UNCHANGED <<hits, flows, snapS, snapR, disk, faults, crashes>>

-----------------------------------------------------------------------------
(* savePersist, run by a handler or by main.                               *)

Goto(p, pc) == hpc' = [hpc EXCEPT ![p] = pc]

SaveFrame == UNCHANGED <<policyVars, phase, bootSaves, crashes, ghostVars>>

\* The locals of savePersist go out of scope when it returns.
Return(p) ==
    /\ Goto(p, "done")
    /\ snapS' = [snapS EXCEPT ![p] = NoStates]
    /\ snapR' = [snapR EXCEPT ![p] = {}]

SaveSnapshot(p) ==
    /\ hpc[p] = "snapshot"
    /\ snapS' = [snapS EXCEPT ![p] = states]
    /\ Goto(p, "openS")
    /\ UNCHANGED <<snapR, disk, faults>>
    /\ SaveFrame

SaveOpenState(p) ==
    /\ hpc[p] = "openS"
    /\ disk' = [disk EXCEPT !.state = EmptyFile]
    /\ Goto(p, "writeS")
    /\ UNCHANGED <<snapS, snapR, faults>>
    /\ SaveFrame

\* What a file holds once v is written at its start.  If another writer has
\* written since it was truncated, what it wrote beyond the length of v stays
\* behind; lengths are not modelled, so both outcomes are possible.
Overwrite(cur, v) == IF cur \in {EmptyFile, v} THEN {v} ELSE {v, BadFile}

SaveWriteState(p) ==
    /\ hpc[p] = "writeS"
    /\ \E f \in Overwrite(disk.state, snapS[p]) : disk' = [disk EXCEPT !.state = f]
    /\ Goto(p, "all")
    /\ UNCHANGED <<snapS, snapR, faults>>
    /\ SaveFrame

SaveAll(p) ==
    /\ hpc[p] = "all"
    /\ snapR' = [snapR EXCEPT ![p] = rules]
    /\ Goto(p, "openR")
    /\ UNCHANGED <<snapS, disk, faults>>
    /\ SaveFrame

SaveOpenRules(p) ==
    /\ hpc[p] = "openR"
    /\ disk' = [disk EXCEPT !.rules = EmptyFile]
    /\ Goto(p, "writeR")
    /\ UNCHANGED <<snapS, snapR, faults>>
    /\ SaveFrame

SaveWriteRules(p) ==
    /\ hpc[p] = "writeR"
    /\ \E f \in Overwrite(disk.rules, snapR[p]) : disk' = [disk EXCEPT !.rules = f]
    /\ Return(p)
    /\ UNCHANGED faults
    /\ SaveFrame

\* A system call fails and savePersist returns its error, which every caller
\* ignores.  MkdirAll and open leave the files alone; write may have written
\* nothing or a part.
SaveFails(p) ==
    /\ faults < MaxFaults
    /\ faults' = faults + 1
    /\ \/ /\ hpc[p] \in {"snapshot", "openS", "openR"}
          /\ UNCHANGED disk
       \/ /\ hpc[p] = "writeS"
          /\ \E f \in {disk.state, BadFile} : disk' = [disk EXCEPT !.state = f]
       \/ /\ hpc[p] = "writeR"
          /\ \E f \in {disk.rules, BadFile} : disk' = [disk EXCEPT !.rules = f]
    /\ Return(p)
    /\ SaveFrame

SaveStep(p) ==
    \/ SaveSnapshot(p) \/ SaveOpenState(p) \/ SaveWriteState(p)
    \/ SaveAll(p) \/ SaveOpenRules(p) \/ SaveWriteRules(p)
    \/ SaveFails(p)

\* After its first save main saves again if SKYTAP_INTERCEPT_HOSTS was set;
\* after the last it starts to serve.
BootSaved ==
    /\ hpc[Main] = "done"
    /\ bootSaves' = bootSaves - 1
    /\ IF bootSaves > 1
       THEN /\ Goto(Main, "snapshot")
            /\ UNCHANGED <<phase, acked>>
       ELSE /\ Goto(Main, "idle")
            /\ phase' = "up"
            /\ acked' = [h \in Hosts |-> {Effective(states, h)}]
    /\ UNCHANGED <<policyVars, snapS, snapR, disk, faults, crashes, granted>>

-----------------------------------------------------------------------------
(* Handlers.  A request that fails validation changes nothing and is left  *)
(* out; one that passes changes memory here and then runs savePersist.     *)

Called(p) ==
    /\ phase = "up"
    /\ hpc[p] = "idle"

\* What a request asks for: states for some hosts.
Wants(hs, s) == [h \in hs |-> s]
WantsNothing == Wants({}, StateObserved)

Accounts(want) ==
    /\ acked' = [h \in Hosts |->
                    IF h \in DOMAIN want THEN acked[h] \cup {want[h]} ELSE acked[h]]
    /\ granted' = granted \cup {h \in DOMAIN want : want[h] \in Promoted}

\* Fault variant: the handler answers without saving.
ThenReply(p, want) ==
    /\ Goto(p, "done")
    /\ Accounts(want)
    /\ UNCHANGED <<phase, snapS, snapR, bootSaves, disk, faults, crashes>>

\* The rest of a handler's first step.
ThenSave(p, want) ==
    /\ Goto(p, "snapshot")
    /\ Accounts(want)
    /\ UNCHANGED <<phase, snapS, snapR, bootSaves, disk, faults, crashes>>

\* GET /state?host=&state=
StateHandler(p, h, s) ==
    /\ Called(p)
    /\ h # EmptyHost /\ s \in DomainStates
    /\ SetState(h, s)
    /\ UNCHANGED rules
    /\ ThenSave(p, Wants({h}, s))

\* MCP set_state: neither the host nor the state is validated.
McpSetState(p, h, s) ==
    /\ Called(p)
    /\ SetState(h, s)
    /\ UNCHANGED rules
    /\ ThenSave(p, Wants({h}, s))

\* DELETE /domains?host=
DomainsHandler(p, h) ==
    /\ Called(p)
    /\ h # EmptyHost
    /\ DeleteHost(h)
    /\ UNCHANGED rules
    /\ ThenSave(p, Wants({h}, StateObserved))

\* DELETE /history?scope=all
HistoryAllHandler(p) ==
    /\ Called(p)
    /\ Reset
    /\ UNCHANGED rules
    /\ ThenSave(p, Wants(Hosts, StateObserved))

\* DELETE /history?scope=flows&host=
HistoryFlowsHandler(p, h) ==
    /\ Called(p)
    /\ ClearFlows(h)
    /\ UNCHANGED rules
    /\ ThenSave(p, WantsNothing)

\* POST /rules, and MCP add_rule, whose rules never carry an id or an action.
AddRuleHandler(p, r) ==
    /\ Called(p)
    /\ Add(r)
    /\ UNCHANGED regVars
    /\ ThenSave(p, WantsNothing)

\* Fault variant: the handler deletes the rule and does not save.
DeleteRuleUnsaved(p, id) ==
    /\ Called(p)
    /\ HasRule(id)
    /\ Delete(id)
    /\ UNCHANGED <<regVars, adminVars>>

\* DELETE /rules?id=; an id nobody has is a 404.
DeleteRuleHandler(p, id) ==
    /\ Called(p)
    /\ HasRule(id)
    /\ Delete(id)
    /\ UNCHANGED regVars
    /\ ThenSave(p, WantsNothing)

\* writeJSON: the request is answered.
Reply(p) ==
    /\ p \in Handlers
    /\ hpc[p] = "done"
    /\ Goto(p, "idle")
    /\ acked' = IF \A q \in Handlers \ {p} : hpc[q] = "idle"
                THEN [h \in Hosts |-> {Effective(states, h)}]
                ELSE acked
    /\ UNCHANGED <<policyVars, phase, snapS, snapR, bootSaves, disk, faults,
                   crashes, granted>>

HandlerStep(p) ==
    \/ \E h \in HostInputs : \/ \E s \in StateInputs : \/ StateHandler(p, h, s)
                                                     \/ McpSetState(p, h, s)
                             \/ DomainsHandler(p, h)
                             \/ HistoryFlowsHandler(p, h)
    \/ HistoryAllHandler(p)
    \/ \E r \in RuleInputs : AddRuleHandler(p, r)
    \/ \E id \in RuleIDs : DeleteRuleHandler(p, id)
    \/ Reply(p)

-----------------------------------------------------------------------------

\* The process dies (log.Fatal in another goroutine, a signal, a kill): what
\* it had in memory is gone, what it wrote is not.
AdminCrash ==
    /\ phase # "down"
    /\ crashes < MaxCrashes
    /\ CrashMidSave \/ \A p \in Savers : hpc[p] \notin SavePcs
    /\ crashes' = crashes + 1
    /\ phase' = "down"
    /\ states' = NoStates
    /\ hits'   = [h \in Hosts |-> 0]
    /\ flows'  = [h \in Hosts |-> <<>>]
    /\ rules'  = {}
    /\ hpc' = [p \in Savers |-> "idle"]
    /\ snapS' = [p \in Savers |-> NoStates]
    /\ snapR' = [p \in Savers |-> {}]
    /\ bootSaves' = 0
    /\ UNCHANGED <<disk, faults, ghostVars>>

AdminStep ==
    \/ Boot
    \/ \E p \in Savers : SaveStep(p)
    \/ BootSaved
    \/ \E p \in Handlers : HandlerStep(p)

-----------------------------------------------------------------------------

AdminTypeOK ==
    /\ phase \in {"down", "boot", "up"}
    /\ hpc \in [Savers -> SavePcs \cup {"idle", "done"}]
    /\ snapS \in [Savers -> StateMap]
    /\ snapR \in [Savers -> SUBSET Entry]
    /\ bootSaves \in 0..2
    /\ disk \in [state: StateFile, rules: RulesFile]
    /\ faults \in 0..MaxFaults
    /\ crashes \in 0..MaxCrashes
    /\ granted \subseteq Hosts
    /\ acked \in [Hosts -> SUBSET AnyState]

=============================================================================
