---------------------------- MODULE SkyTapProofs ----------------------------
(***************************************************************************)
(* Proofs about the whole program, for any number of handlers and          *)
(* connections, any hosts, rules and requests, and any number of failed    *)
(* system calls and crashes.                                               *)
(***************************************************************************)
EXTENDS SkyTap, AppLemmas

-----------------------------------------------------------------------------
(* Types: the start and savePersist.                                       *)

\* Main is between two calls of savePersist, or in one, only while it has
\* calls left to make.
BootCounted == hpc[Main] # "idle" => bootSaves > 0

\* What Registry.State answers for a host of any map is a state.
LEMMA EffectiveType ==
    ASSUME NEW m \in StateMap, NEW h \in Hosts
    PROVE  Effective(m, h) \in AnyState
BY StateFacts DEF Effective, StateMap

\* loadPersist, seed and SKYTAP_INTERCEPT_HOSTS build a map of states.
LEMMA BootStatesType ==
    ASSUME AdminTypeOK
    PROVE  loadedStates \in StateMap /\ BootStates \in StateMap
<1>1. disk.state \in StateFile
  BY DEF AdminTypeOK
<1>2. NoStates \in StateMap
  BY DEF NoStates, StateMap
<1>3. loadedStates \in StateMap
  BY <1>1, <1>2 DEF loadedStates, StateFile
<1>4. seedStates(loadedStates) \in StateMap
  BY <1>3, StateFacts DEF seedStates, StateMap
<1>5. ASSUME NEW m \in StateMap PROVE interceptEnv(m) \in StateMap
  BY <1>5, StateFacts DEF interceptEnv, StateMap
<1> QED BY <1>3, <1>4, <1>5 DEF BootStates

\* ... and a table of rules.
LEMMA BootRulesType ==
    ASSUME AdminTypeOK,
           NEW rs \in IF persistExists THEN {loadedRules}
                                       ELSE seedRules(loadedRules)
    PROVE  rs \in SUBSET Entry
<1>1. disk.rules \in RulesFile
  BY DEF AdminTypeOK
<1>2. loadedRules \in SUBSET Entry
  BY <1>1 DEF loadedRules, RulesFile
<1>3. SeedRule \in Rule
  BY AdminAssumption
<1>4. \A p \in 1..MaxPos : [pos |-> p, rule |-> SeedRule] \in Entry
  BY <1>3 DEF Entry
<1>5. \A x \in seedRules(loadedRules) : x \in SUBSET Entry
  BY <1>2, <1>4 DEF seedRules
<1> QED BY <1>2, <1>5

\* The start of the program.
LEMMA BootType ==
    ASSUME TypeOK, Boot
    PROVE  RegistryTypeOK' /\ RuleTypeOK' /\ AdminTypeOK' /\ BootCounted'
<1>0. RegistryTypeOK /\ AdminTypeOK
  BY DEF TypeOK
<1>1. RegistryTypeOK'
  <2>1. states' = BootStates /\ hits' = hits /\ flows' = flows
    BY DEF Boot
  <2>2. states' \in StateMap
    BY <1>0, <2>1, BootStatesType
  <2> QED BY <1>0, <2>1, <2>2 DEF RegistryTypeOK
<1>2. RuleTypeOK'
  <2>1. PICK rs \in IF persistExists THEN {loadedRules}
                                     ELSE seedRules(loadedRules) : Set(rs)
    BY DEF Boot
  <2>2. rs \in SUBSET Entry
    BY <1>0, <2>1, BootRulesType
  <2> QED BY <2>1, <2>2, SetFacts
<1>3. /\ phase' = "boot"
      /\ hpc' = [hpc EXCEPT ![Main] = "snapshot"]
      /\ bootSaves' \in {1, 2}
      /\ UNCHANGED <<snapS, snapR, disk, faults, crashes>>
  BY DEF Boot
<1>4. hpc' \in [Savers -> SavePcs \cup {"idle", "done"}]
  BY <1>0, <1>3 DEF AdminTypeOK, SavePcs
<1>5. granted' \subseteq Hosts
  BY <1>0, AdminAssumption DEF Boot, AdminTypeOK
<1>6. acked' \in [Hosts -> SUBSET AnyState]
  <2>1. ASSUME NEW h \in Hosts
        PROVE  /\ acked[h] \in SUBSET AnyState
               /\ Effective(interceptEnv(seedStates(NoStates)), h) \in AnyState
    <3>1. interceptEnv(seedStates(NoStates)) \in StateMap
      BY StateFacts DEF interceptEnv, seedStates, NoStates, StateMap
    <3> QED BY <1>0, <3>1, EffectiveType DEF AdminTypeOK
  <2> QED BY <2>1 DEF Boot
<1>7. BootCounted'
  BY <1>3 DEF BootCounted
<1>8. AdminTypeOK'
  BY <1>0, <1>3, <1>4, <1>5, <1>6 DEF AdminTypeOK
<1> QED BY <1>1, <1>2, <1>7, <1>8

\* savePersist leaves well-formed files, or ones that loadPersist skips.
LEMMA SaveStepType ==
    ASSUME TypeOK, BootCounted, NEW p \in Savers, SaveStep(p)
    PROVE  AdminTypeOK' /\ BootCounted'
<1>0. /\ RegistryTypeOK /\ RuleTypeOK /\ AdminTypeOK
      /\ states \in StateMap /\ rules \in SUBSET Entry
      /\ disk.state \in StateFile /\ disk.rules \in RulesFile
      /\ snapS[p] \in StateMap /\ snapR[p] \in SUBSET Entry
  BY DEF TypeOK, RegistryTypeOK, RuleTypeOK, AdminTypeOK
<1>1. /\ hpc[p] # "idle"
      /\ \E pc \in SavePcs \cup {"done"} : hpc' = [hpc EXCEPT ![p] = pc]
      /\ UNCHANGED <<phase, bootSaves, crashes, granted, acked>>
  BY DEF SaveStep, SaveSnapshot, SaveOpenState, SaveWriteState, SaveAll,
         SaveOpenRules, SaveWriteRules, SaveFails, SaveFrame, Goto, Return,
         SavePcs, ghostVars
<1>2. BootCounted'
  BY <1>0, <1>1 DEF BootCounted, AdminTypeOK
<1>3. hpc' \in [Savers -> SavePcs \cup {"idle", "done"}]
  BY <1>0, <1>1 DEF AdminTypeOK
<1>4. /\ snapS' = snapS \/ \E m \in StateMap : snapS' = [snapS EXCEPT ![p] = m]
      /\ snapR' = snapR
            \/ \E rs \in SUBSET Entry : snapR' = [snapR EXCEPT ![p] = rs]
  <2>1. NoStates \in StateMap /\ {} \in SUBSET Entry
    BY DEF NoStates, StateMap
  <2> QED BY <1>0, <2>1
      DEF SaveStep, SaveSnapshot, SaveOpenState, SaveWriteState, SaveAll,
          SaveOpenRules, SaveWriteRules, SaveFails, Return
<1>5. snapS' \in [Savers -> StateMap] /\ snapR' \in [Savers -> SUBSET Entry]
  BY <1>0, <1>4 DEF AdminTypeOK
<1>6. \/ disk' = disk
      \/ \E f \in StateFile : disk' = [disk EXCEPT !.state = f]
      \/ \E f \in RulesFile : disk' = [disk EXCEPT !.rules = f]
  <2>1. /\ EmptyFile \in StateFile /\ BadFile \in StateFile
        /\ EmptyFile \in RulesFile /\ BadFile \in RulesFile
        /\ Overwrite(disk.state, snapS[p]) \subseteq StateFile
        /\ Overwrite(disk.rules, snapR[p]) \subseteq RulesFile
    BY <1>0 DEF StateFile, RulesFile, Unreadable, Overwrite
  <2> QED BY <1>0, <2>1
      DEF SaveStep, SaveSnapshot, SaveOpenState, SaveWriteState, SaveAll,
          SaveOpenRules, SaveWriteRules, SaveFails
<1>7. disk' \in [state: StateFile, rules: RulesFile]
  BY <1>0, <1>6 DEF AdminTypeOK
<1>8. faults' = faults \/ (faults < MaxFaults /\ faults' = faults + 1)
  BY DEF SaveStep, SaveSnapshot, SaveOpenState, SaveWriteState, SaveAll,
         SaveOpenRules, SaveWriteRules, SaveFails
<1>9. faults' \in 0..MaxFaults
  BY <1>0, <1>8, AdminAssumption DEF AdminTypeOK
<1> QED BY <1>0, <1>1, <1>2, <1>3, <1>5, <1>7, <1>9 DEF AdminTypeOK

\* Main starts another save, or to serve.
LEMMA BootSavedType ==
    ASSUME TypeOK, BootCounted, BootSaved
    PROVE  AdminTypeOK' /\ BootCounted'
<1>0. /\ AdminTypeOK /\ states \in StateMap
      /\ bootSaves \in 0..2 /\ bootSaves > 0
      /\ Main \in Savers
  BY DEF TypeOK, RegistryTypeOK, AdminTypeOK, BootSaved, BootCounted, Savers
<1>1. /\ bootSaves' = bootSaves - 1
      /\ UNCHANGED <<snapS, snapR, disk, faults, crashes, granted>>
  BY DEF BootSaved
<1>2. bootSaves' \in 0..2
  BY <1>0, <1>1
<1>3. CASE bootSaves > 1
  <2>1. /\ hpc' = [hpc EXCEPT ![Main] = "snapshot"]
        /\ UNCHANGED <<phase, acked>>
    BY <1>3 DEF BootSaved, Goto
  <2>2. hpc' \in [Savers -> SavePcs \cup {"idle", "done"}]
    BY <1>0, <2>1 DEF AdminTypeOK, SavePcs
  <2>3. BootCounted'
    BY <1>0, <1>1, <1>3 DEF BootCounted
  <2> QED BY <1>0, <1>1, <1>2, <2>1, <2>2, <2>3 DEF AdminTypeOK
<1>4. CASE ~(bootSaves > 1)
  <2>1. /\ hpc' = [hpc EXCEPT ![Main] = "idle"]
        /\ phase' = "up"
        /\ acked' = [h \in Hosts |-> {Effective(states, h)}]
    BY <1>4 DEF BootSaved, Goto
  <2>2. hpc' \in [Savers -> SavePcs \cup {"idle", "done"}]
    BY <1>0, <2>1 DEF AdminTypeOK
  <2>3. hpc'[Main] = "idle"
    BY <1>0, <2>1 DEF AdminTypeOK
  <2>4. acked' \in [Hosts -> SUBSET AnyState]
    BY <1>0, <2>1, EffectiveType
  <2> QED BY <1>0, <1>1, <1>2, <2>1, <2>2, <2>3, <2>4 DEF AdminTypeOK, BootCounted
<1> QED BY <1>3, <1>4

-----------------------------------------------------------------------------
(* The handlers.                                                           *)

\* What follows a handler's change of the policy: the request is recorded
\* and savePersist begins.
LEMMA ThenSaveType ==
    ASSUME TypeOK, BootCounted, NEW p \in Handlers,
           NEW hs \in SUBSET Hosts, NEW s \in AnyState,
           ThenSave(p, Wants(hs, s))
    PROVE  AdminTypeOK' /\ BootCounted'
<1>0. /\ AdminTypeOK /\ p \in Savers /\ Main \in Savers /\ p # Main
  BY AdminAssumption DEF TypeOK, Savers
<1>1. /\ hpc' = [hpc EXCEPT ![p] = "snapshot"]
      /\ UNCHANGED <<phase, snapS, snapR, bootSaves, disk, faults, crashes>>
  BY DEF ThenSave, Goto
<1>2. hpc' \in [Savers -> SavePcs \cup {"idle", "done"}] /\ hpc'[Main] = hpc[Main]
  BY <1>0, <1>1 DEF AdminTypeOK, SavePcs
<1>3. DOMAIN Wants(hs, s) = hs /\ \A h \in hs : Wants(hs, s)[h] = s
  BY DEF Wants
<1>4. granted' \subseteq Hosts
  BY <1>0, <1>3 DEF ThenSave, Accounts, AdminTypeOK
<1>5. acked' \in [Hosts -> SUBSET AnyState]
  BY <1>0, <1>3 DEF ThenSave, Accounts, AdminTypeOK
<1> QED BY <1>0, <1>1, <1>2, <1>4, <1>5 DEF AdminTypeOK, BootCounted

\* Answering a request.
LEMMA ReplyType ==
    ASSUME TypeOK, BootCounted, NEW p \in Handlers, Reply(p)
    PROVE  AdminTypeOK' /\ BootCounted'
<1>0. /\ AdminTypeOK /\ p \in Savers /\ Main \in Savers /\ p # Main
      /\ states \in StateMap
  BY AdminAssumption DEF TypeOK, RegistryTypeOK, Savers
<1>1. /\ hpc' = [hpc EXCEPT ![p] = "idle"]
      /\ UNCHANGED <<phase, snapS, snapR, bootSaves, disk, faults, crashes,
                     granted>>
      /\ acked' = acked \/ acked' = [h \in Hosts |-> {Effective(states, h)}]
  BY DEF Reply, Goto
<1>2. hpc' \in [Savers -> SavePcs \cup {"idle", "done"}] /\ hpc'[Main] = hpc[Main]
  BY <1>0, <1>1 DEF AdminTypeOK
<1>3. acked' \in [Hosts -> SUBSET AnyState]
  BY <1>0, <1>1, EffectiveType DEF AdminTypeOK
<1> QED BY <1>0, <1>1, <1>2, <1>3 DEF AdminTypeOK, BootCounted

\* Every admin request keeps the types of the policy and of the files.
LEMMA HandlerStepType ==
    ASSUME TypeOK, BootCounted, NEW p \in Handlers, HandlerStep(p)
    PROVE  RegistryTypeOK' /\ RuleTypeOK' /\ AdminTypeOK' /\ BootCounted'
<1>0. /\ RegistryTypeOK /\ RuleTypeOK
      /\ HostInputs \subseteq Hosts /\ StateInputs \subseteq AnyState
      /\ RuleInputs \subseteq Rule
      /\ StateObserved \in AnyState
  BY AdminAssumption, StateFacts DEF TypeOK
<1>1. ASSUME UNCHANGED rules PROVE RuleTypeOK'
  BY <1>0, <1>1 DEF RuleTypeOK
<1>2. ASSUME UNCHANGED regVars PROVE RegistryTypeOK'
  BY <1>0, <1>2 DEF RegistryTypeOK, regVars
<1>3. ASSUME NEW h \in HostInputs, NEW s \in StateInputs,
             StateHandler(p, h, s) \/ McpSetState(p, h, s)
      PROVE  RegistryTypeOK' /\ RuleTypeOK' /\ AdminTypeOK' /\ BootCounted'
  <2>1. SetState(h, s) /\ UNCHANGED rules /\ ThenSave(p, Wants({h}, s))
    BY <1>3 DEF StateHandler, McpSetState
  <2>2. h \in Hosts /\ s \in AnyState /\ {h} \in SUBSET Hosts
    BY <1>0
  <2>3. RegistryTypeOK'
    BY <1>0, <2>1, <2>2, SetStateType
  <2>4. AdminTypeOK' /\ BootCounted'
    BY <2>1, <2>2, ThenSaveType
  <2> QED BY <1>1, <2>1, <2>3, <2>4
<1>4. ASSUME NEW h \in HostInputs, DomainsHandler(p, h)
      PROVE  RegistryTypeOK' /\ RuleTypeOK' /\ AdminTypeOK' /\ BootCounted'
  <2>1. DeleteHost(h) /\ UNCHANGED rules /\ ThenSave(p, Wants({h}, StateObserved))
    BY <1>4 DEF DomainsHandler
  <2>2. h \in Hosts /\ {h} \in SUBSET Hosts
    BY <1>0
  <2>3. RegistryTypeOK'
    BY <1>0, <2>1, <2>2, DeleteHostType
  <2>4. AdminTypeOK' /\ BootCounted'
    BY <1>0, <2>1, <2>2, ThenSaveType
  <2> QED BY <1>1, <2>1, <2>3, <2>4
<1>5. ASSUME NEW h \in HostInputs, HistoryFlowsHandler(p, h)
      PROVE  RegistryTypeOK' /\ RuleTypeOK' /\ AdminTypeOK' /\ BootCounted'
  <2>1. ClearFlows(h) /\ UNCHANGED rules /\ ThenSave(p, Wants({}, StateObserved))
    BY <1>5 DEF HistoryFlowsHandler, WantsNothing
  <2>2. h \in Hosts
    BY <1>0
  <2>3. RegistryTypeOK'
    BY <1>0, <2>1, <2>2, ClearFlowsType
  <2>4. AdminTypeOK' /\ BootCounted'
    BY <1>0, <2>1, ThenSaveType
  <2> QED BY <1>1, <2>1, <2>3, <2>4
<1>6. CASE HistoryAllHandler(p)
  <2>1. Reset /\ UNCHANGED rules /\ ThenSave(p, Wants(Hosts, StateObserved))
    BY <1>6 DEF HistoryAllHandler
  <2>2. RegistryTypeOK'
    BY <2>1, EmptiedType DEF Reset
  <2>3. AdminTypeOK' /\ BootCounted'
    BY <1>0, <2>1, ThenSaveType
  <2> QED BY <1>1, <2>1, <2>2, <2>3
<1>7. ASSUME NEW r \in RuleInputs, AddRuleHandler(p, r)
      PROVE  RegistryTypeOK' /\ RuleTypeOK' /\ AdminTypeOK' /\ BootCounted'
  <2>1. Add(r) /\ UNCHANGED regVars /\ ThenSave(p, Wants({}, StateObserved))
    BY <1>7 DEF AddRuleHandler, WantsNothing
  <2>2. RuleTypeOK'
    BY <1>0, <2>1, AddFacts
  <2>3. AdminTypeOK' /\ BootCounted'
    BY <1>0, <2>1, ThenSaveType
  <2> QED BY <1>2, <2>1, <2>2, <2>3
<1>8. ASSUME NEW id \in RuleIDs, DeleteRuleHandler(p, id)
      PROVE  RegistryTypeOK' /\ RuleTypeOK' /\ AdminTypeOK' /\ BootCounted'
  <2>1. Delete(id) /\ UNCHANGED regVars /\ ThenSave(p, Wants({}, StateObserved))
    BY <1>8 DEF DeleteRuleHandler, WantsNothing
  <2>2. RuleTypeOK'
    BY <1>0, <2>1, DeleteFacts
  <2>3. AdminTypeOK' /\ BootCounted'
    BY <1>0, <2>1, ThenSaveType
  <2> QED BY <1>2, <2>1, <2>2, <2>3
<1>9. CASE Reply(p)
  <2>1. UNCHANGED rules /\ UNCHANGED regVars
    BY <1>9 DEF Reply, policyVars, regVars
  <2> QED BY <1>1, <1>2, <1>9, <2>1, ReplyType
<1> QED
  BY <1>3, <1>4, <1>5, <1>6, <1>7, <1>8, <1>9 DEF HandlerStep

-----------------------------------------------------------------------------
(* The program.                                                            *)

\* A crash leaves an empty process and the files as they are.
LEMMA CrashType ==
    ASSUME TypeOK, Crash
    PROVE  RegistryTypeOK' /\ RuleTypeOK' /\ AppTypeOK' /\ AdminTypeOK'
           /\ BootCounted'
<1>0. AdminTypeOK
  BY DEF TypeOK
<1>1. RegistryTypeOK'
  BY EmptiedType DEF Crash, AdminCrash
<1>2. RuleTypeOK'
  BY DEF Crash, AdminCrash, RuleTypeOK
<1>3. AppTypeOK'
  BY IdleType DEF Crash, AppTypeOK
<1>4. /\ phase' = "down" /\ hpc' = [p \in Savers |-> "idle"]
      /\ snapS' = [p \in Savers |-> NoStates]
      /\ snapR' = [p \in Savers |-> {}]
      /\ bootSaves' = 0
      /\ crashes < MaxCrashes /\ crashes' = crashes + 1
      /\ UNCHANGED <<disk, faults, granted, acked>>
  BY DEF Crash, AdminCrash, ghostVars
<1>5. crashes' \in 0..MaxCrashes
  BY <1>0, <1>4, AdminAssumption DEF AdminTypeOK
<1>6. NoStates \in StateMap
  BY DEF NoStates, StateMap
<1>7. AdminTypeOK'
  BY <1>0, <1>4, <1>5, <1>6 DEF AdminTypeOK
<1>8. BootCounted'
  BY <1>4 DEF BootCounted, Savers
<1> QED BY <1>1, <1>2, <1>3, <1>7, <1>8

\* The history of OnRequest collects states and rules.
LEMMA WindowType ==
    ASSUME TypeOK, Window, RegistryTypeOK', RuleTypeOK', AppTypeOK'
    PROVE  seen' \in [Conns -> [states: SUBSET AnyState,
                                first: SUBSET (Rule \cup {NoRule}),
                                again: SUBSET (Rule \cup {NoRule})]]
<1> DEFINE S == [states: SUBSET AnyState, first: SUBSET (Rule \cup {NoRule}),
                 again: SUBSET (Rule \cup {NoRule})]
<1>1. ASSUME NEW c \in Conns
      PROVE  /\ seen[c] \in S /\ NothingSeen \in S
             /\ Effective(states', conn'[c].host) \in AnyState
             /\ FirstMatch(rules', conn'[c].host, conn'[c].req)
                    \subseteq Rule \cup {NoRule}
  <2>1. conn'[c].host \in Hosts /\ states' \in StateMap /\ rules' \in SUBSET Entry
    BY DEF AppTypeOK, Conn, RegistryTypeOK, RuleTypeOK
  <2>2. seen[c] \in S /\ NothingSeen \in S
    BY DEF TypeOK, NothingSeen
  <2> QED BY <2>1, <2>2, EffectiveType, FirstMatchType
<1>2. ASSUME NEW c \in Conns PROVE seen'[c] \in S
  <2> DEFINE was == IF conn[c].pc \in Deciding THEN seen[c] ELSE NothingSeen
  <2>1. was \in S
    BY <1>1
  <2>2. \/ seen'[c] = [states |-> was.states \cup
                                   {Effective(states', conn'[c].host)},
                       first  |-> was.first \cup
                           FirstMatch(rules', conn'[c].host, conn'[c].req),
                       again  |-> was.again \cup
                           IF conn'[c].pc = "mock"
                           THEN FirstMatch(rules', conn'[c].host, conn'[c].req)
                           ELSE {}]
        \/ seen'[c] \in {seen[c], NothingSeen}
    BY DEF Window
  <2> HIDE DEF was
  <2> QED BY <1>1, <2>1, <2>2
<1>3. seen' = [c \in Conns |-> seen'[c]]
  BY DEF Window
<1> QED BY <1>2, <1>3

\* The admin side of the program as a whole.
LEMMA AdminStepType ==
    ASSUME TypeOK, BootCounted, AdminStep
    PROVE  RegistryTypeOK' /\ RuleTypeOK' /\ AdminTypeOK' /\ BootCounted'
<1>1. CASE Boot
  BY <1>1, BootType
<1>2. ASSUME UNCHANGED policyVars PROVE RegistryTypeOK' /\ RuleTypeOK'
  BY <1>2 DEF TypeOK, RegistryTypeOK, RuleTypeOK, policyVars
<1>3. ASSUME NEW p \in Savers, SaveStep(p)
      PROVE  RegistryTypeOK' /\ RuleTypeOK' /\ AdminTypeOK' /\ BootCounted'
  <2>1. UNCHANGED policyVars
    BY <1>3 DEF SaveStep, SaveSnapshot, SaveOpenState, SaveWriteState, SaveAll,
                SaveOpenRules, SaveWriteRules, SaveFails, SaveFrame
  <2> QED BY <1>2, <1>3, <2>1, SaveStepType
<1>4. CASE BootSaved
  <2>1. UNCHANGED policyVars
    BY <1>4 DEF BootSaved
  <2> QED BY <1>2, <1>4, <2>1, BootSavedType
<1>5. ASSUME NEW p \in Handlers, HandlerStep(p)
      PROVE  RegistryTypeOK' /\ RuleTypeOK' /\ AdminTypeOK' /\ BootCounted'
  BY <1>5, HandlerStepType
<1> QED BY <1>1, <1>3, <1>4, <1>5 DEF AdminStep

\* TypeOK is inductive together with BootCounted.
LEMMA TypeInductive ==
    ASSUME TypeOK /\ BootCounted, [Next]_vars
    PROVE  (TypeOK /\ BootCounted)'
<1>1. CASE UNCHANGED vars
  BY <1>1 DEF vars, adminVars, TypeOK, BootCounted, RegistryTypeOK, RuleTypeOK,
              AppTypeOK, AdminTypeOK
<1>2. ASSUME NEW c \in Conns, Serve(c) PROVE (TypeOK /\ BootCounted)'
  <2>1. ConnStep(c) /\ Window /\ UNCHANGED adminVars
    BY <1>2 DEF Serve
  <2>2. RegistryTypeOK' /\ RuleTypeOK' /\ AppTypeOK'
    BY <2>1, ConnStepType DEF TypeOK
  <2>3. AdminTypeOK' /\ BootCounted'
    BY <2>1 DEF adminVars, TypeOK, AdminTypeOK, BootCounted
  <2> QED BY <2>1, <2>2, <2>3, WindowType DEF TypeOK
<1>3. CASE Administer
  <2>1. AdminStep /\ Window /\ UNCHANGED conn
    BY <1>3 DEF Administer
  <2>2. RegistryTypeOK' /\ RuleTypeOK' /\ AdminTypeOK' /\ BootCounted'
    BY <2>1, AdminStepType
  <2>3. AppTypeOK'
    BY <2>1 DEF TypeOK, AppTypeOK
  <2> QED BY <2>1, <2>2, <2>3, WindowType DEF TypeOK
<1>4. CASE Crash
  <2>1. Window
    BY <1>4 DEF Crash
  <2> QED BY <1>4, <2>1, CrashType, WindowType DEF TypeOK
<1> QED BY <1>1, <1>2, <1>3, <1>4 DEF Next

\* The first state is well typed.
LEMMA TypeInit == Init => TypeOK /\ BootCounted
<1> SUFFICES ASSUME Init PROVE TypeOK /\ BootCounted
  OBVIOUS
<1>1. RegistryTypeOK
  BY NewRegistryType DEF Init, AdminInit
<1>2. RuleTypeOK
  BY DEF Init, AdminInit, RuleTypeOK
<1>3. AppTypeOK
  BY IdleType DEF Init, AppInit, AppTypeOK
<1>4. PICK s \in InitialStates, r \in InitialRules :
          /\ disk = [state |-> s, rules |-> r]
          /\ granted = IF s = NoFile THEN {} ELSE PromotedIn(s)
          /\ acked = [h \in Hosts |-> IF s = NoFile THEN {StateObserved}
                                                    ELSE {Effective(s, h)}]
  BY DEF Init, AdminInit
<1>5. /\ s \in StateFile /\ r \in RulesFile
      /\ s # NoFile => s \in StateMap
  BY AdminAssumption DEF StateFile, RulesFile, Unreadable
<1>6. disk \in [state: StateFile, rules: RulesFile]
  BY <1>4, <1>5
<1>7. granted \subseteq Hosts
  BY <1>4 DEF PromotedIn
<1>8. acked \in [Hosts -> SUBSET AnyState]
  BY <1>4, <1>5, EffectiveType, StateFacts
<1>9. NoStates \in StateMap
  BY DEF NoStates, StateMap
<1>10. /\ phase = "down" /\ hpc = [p \in Savers |-> "idle"]
       /\ snapS = [p \in Savers |-> NoStates]
       /\ snapR = [p \in Savers |-> {}]
       /\ bootSaves = 0 /\ faults = 0 /\ crashes = 0
  BY DEF Init, AdminInit
<1>11. 0 \in 0..MaxFaults /\ 0 \in 0..MaxCrashes
  BY AdminAssumption
<1>12. AdminTypeOK
  BY <1>6, <1>7, <1>8, <1>9, <1>10, <1>11 DEF AdminTypeOK
<1>13. seen \in [Conns -> [states: SUBSET AnyState,
                           first: SUBSET (Rule \cup {NoRule}),
                           again: SUBSET (Rule \cup {NoRule})]]
  BY DEF Init, NothingSeen
<1>14. BootCounted
  BY <1>10 DEF BootCounted, Savers
<1> QED BY <1>1, <1>2, <1>3, <1>12, <1>13, <1>14 DEF TypeOK

\* Every reachable state of the program is well typed: in particular no ring
\* of flows ever holds more than RingN of them (registry.go:73-75), the files
\* hold what loadPersist can read or skips, and main never counts a save too
\* many.
THEOREM SkyTapTypeCorrect == Spec => []TypeOK
<1>1. Spec => [](TypeOK /\ BootCounted)
  BY TypeInit, TypeInductive, PTL DEF Spec
<1> QED BY <1>1, PTL

-----------------------------------------------------------------------------
(* Only what somebody chose is decrypted.  A host that the map, a copy of  *)
(* it in a running save, or state.json promotes can be promoted in memory  *)
(* later, by a restart; so all of them must stay within `granted'.         *)

PromotionsGranted ==
    /\ PromotedIn(states) \subseteq granted
    /\ \A p \in Savers : PromotedIn(snapS[p]) \subseteq granted
    /\ disk.state \notin Unreadable => PromotedIn(disk.state) \subseteq granted
    /\ NoDecryptWithoutPromotion

\* Storing one state promotes at most one host.
LEMMA PromotedInExcept ==
    ASSUME NEW m \in StateMap, NEW h \in Hosts, NEW s
    PROVE  PromotedIn([m EXCEPT ![h] = s])
               \subseteq PromotedIn(m) \cup {g \in {h} : s \in Promoted}
BY DEF PromotedIn, StateMap

\* A fresh map promotes nothing.
LEMMA NoStatesPromotesNothing == PromotedIn(NoStates) = {}
BY StateFacts DEF PromotedIn, NoStates

\* At the start, only the file, the seed and SKYTAP_INTERCEPT_HOSTS promote.
LEMMA BootGranted ==
    ASSUME TypeOK, PromotionsGranted, Boot
    PROVE  PromotedIn(states') \subseteq granted'
<1>1. states' = BootStates
  BY DEF Boot
<1>2. granted' = granted \cup EnvHosts
                         \cup (IF persistExists THEN {} ELSE {SeedHost})
  BY DEF Boot
<1>3. loadedStates \in StateMap
  BY BootStatesType DEF TypeOK
<1>4. PromotedIn(loadedStates) \subseteq granted
  BY NoStatesPromotesNothing DEF loadedStates, PromotionsGranted
<1>5. seedStates(loadedStates) \in StateMap
  BY <1>3, StateFacts DEF seedStates, StateMap
<1>6. PromotedIn(seedStates(loadedStates)) \subseteq granted \cup {SeedHost}
  <2>1. SeedHost \in Hosts
    BY AdminAssumption
  <2> QED BY <1>3, <1>4, <2>1, PromotedInExcept DEF seedStates
<1>7. ASSUME NEW m \in StateMap
      PROVE  PromotedIn(interceptEnv(m)) \subseteq PromotedIn(m) \cup EnvHosts
  BY <1>7 DEF PromotedIn, interceptEnv
<1>8. CASE persistExists
  BY <1>1, <1>2, <1>3, <1>4, <1>7, <1>8 DEF BootStates
<1>9. CASE ~persistExists
  BY <1>1, <1>2, <1>5, <1>6, <1>7, <1>9 DEF BootStates
<1> QED BY <1>8, <1>9

\* savePersist copies the map, and what it leaves in the file is the copy, or
\* unreadable, or what was there.
LEMMA SaveGranted ==
    ASSUME TypeOK, PromotionsGranted, NEW p \in Savers, SaveStep(p)
    PROVE  /\ \A q \in Savers : PromotedIn(snapS'[q]) \subseteq granted
           /\ disk'.state \notin Unreadable =>
                  PromotedIn(disk'.state) \subseteq granted
<1>0. /\ snapS \in [Savers -> StateMap]
      /\ disk \in [state: StateFile, rules: RulesFile]
  BY DEF TypeOK, AdminTypeOK
<1>1. \/ snapS' = snapS
      \/ \E m \in {states, NoStates} : snapS' = [snapS EXCEPT ![p] = m]
  BY DEF SaveStep, SaveSnapshot, SaveOpenState, SaveWriteState, SaveAll,
         SaveOpenRules, SaveWriteRules, SaveFails, Return
<1>2. \A q \in Savers : PromotedIn(snapS'[q]) \subseteq granted
  BY <1>0, <1>1, NoStatesPromotesNothing DEF PromotionsGranted
<1>3. disk'.state \in {disk.state, snapS[p], EmptyFile, BadFile}
  BY <1>0
  DEF SaveStep, SaveSnapshot, SaveOpenState, SaveWriteState, SaveAll,
      SaveOpenRules, SaveWriteRules, SaveFails, Overwrite
<1>4. disk'.state \notin Unreadable => PromotedIn(disk'.state) \subseteq granted
  BY <1>3 DEF Unreadable, PromotionsGranted
<1> QED BY <1>2, <1>4

\* Every admin request that promotes a host is one that somebody made.
LEMMA HandlerGranted ==
    ASSUME TypeOK, PromotionsGranted, NEW p \in Handlers, HandlerStep(p)
    PROVE  /\ PromotedIn(states') \subseteq granted'
           /\ granted \subseteq granted'
           /\ UNCHANGED <<snapS, disk>>
<1>0. /\ states \in StateMap /\ PromotedIn(states) \subseteq granted
      /\ HostInputs \subseteq Hosts /\ StateInputs \subseteq AnyState
      /\ StateObserved \notin Promoted
  BY AdminAssumption, StateFacts DEF TypeOK, RegistryTypeOK, PromotionsGranted
<1>1. ASSUME NEW hs, NEW s, ThenSave(p, Wants(hs, s))
      PROVE  /\ granted' = granted \cup {h \in hs : s \in Promoted}
             /\ UNCHANGED <<snapS, disk>>
  BY <1>1 DEF ThenSave, Accounts, Wants
<1>2. ASSUME NEW h \in HostInputs, NEW s \in StateInputs,
             StateHandler(p, h, s) \/ McpSetState(p, h, s)
      PROVE  /\ PromotedIn(states') \subseteq granted'
             /\ granted \subseteq granted' /\ UNCHANGED <<snapS, disk>>
  <2>1. ThenSave(p, Wants({h}, s)) /\ states' = [states EXCEPT ![h] = s]
    BY <1>2 DEF StateHandler, McpSetState, SetState
  <2>2. PromotedIn(states')
            \subseteq PromotedIn(states) \cup {g \in {h} : s \in Promoted}
    BY <1>0, <2>1, PromotedInExcept
  <2> QED BY <1>0, <1>1, <2>1, <2>2
<1>3. ASSUME NEW h \in HostInputs, DomainsHandler(p, h)
      PROVE  /\ PromotedIn(states') \subseteq granted'
             /\ granted \subseteq granted' /\ UNCHANGED <<snapS, disk>>
  <2>1. /\ ThenSave(p, Wants({h}, StateObserved))
        /\ states' = [states EXCEPT ![h] = Absent]
    BY <1>3 DEF DomainsHandler, DeleteHost
  <2>2. PromotedIn(states') \subseteq PromotedIn(states)
    BY <1>0, <2>1, PromotedInExcept, StateFacts
  <2> QED BY <1>0, <1>1, <2>1, <2>2
<1>4. CASE HistoryAllHandler(p)
  <2>1. ThenSave(p, Wants(Hosts, StateObserved)) /\ states' = NoStates
    BY <1>4 DEF HistoryAllHandler, Reset
  <2> QED BY <1>0, <1>1, <2>1, NoStatesPromotesNothing
<1>5. ASSUME UNCHANGED states, ThenSave(p, Wants({}, StateObserved))
      PROVE  /\ PromotedIn(states') \subseteq granted'
             /\ granted \subseteq granted' /\ UNCHANGED <<snapS, disk>>
  BY <1>0, <1>1, <1>5
<1>6. ASSUME NEW h \in HostInputs, HistoryFlowsHandler(p, h)
      PROVE  UNCHANGED states /\ ThenSave(p, Wants({}, StateObserved))
  BY <1>6 DEF HistoryFlowsHandler, ClearFlows, WantsNothing
<1>7. ASSUME NEW r \in RuleInputs, AddRuleHandler(p, r)
      PROVE  UNCHANGED states /\ ThenSave(p, Wants({}, StateObserved))
  BY <1>7 DEF AddRuleHandler, regVars, WantsNothing
<1>8. ASSUME NEW id \in RuleIDs, DeleteRuleHandler(p, id)
      PROVE  UNCHANGED states /\ ThenSave(p, Wants({}, StateObserved))
  BY <1>8 DEF DeleteRuleHandler, regVars, WantsNothing
<1>9. CASE Reply(p)
  BY <1>0, <1>9 DEF Reply, policyVars
<1> QED
  BY <1>2, <1>3, <1>4, <1>5, <1>6, <1>7, <1>8, <1>9 DEF HandlerStep

\* A connection's own steps promote nothing, and the one step that starts to
\* decrypt a connection has looked its host up in the registry.
LEMMA ServeGranted ==
    ASSUME TypeOK, PromotionsGranted, NEW c \in Conns, ConnStep(c),
           UNCHANGED adminVars
    PROVE  /\ PromotedIn(states') \subseteq granted'
           /\ NoDecryptWithoutPromotion'
<1>0. /\ states \in StateMap /\ conn \in [Conns -> Conn]
      /\ conn[c] \in Conn /\ conn[c].host \in Hosts
      /\ granted' = granted
  BY DEF TypeOK, RegistryTypeOK, AppTypeOK, Conn, adminVars
<1>1. PromotedIn(states') \subseteq PromotedIn(states)
  <2>1. CASE states' = states
    BY <2>1
  <2>2. CASE OnConnectObserve(c)
    <3> DEFINE h == conn[c].host
    <3>1. \/ states' = states
          \/ states' = [states EXCEPT ![h] = IF @ = Absent THEN StateObserved
                                                           ELSE @]
      BY <2>2 DEF OnConnectObserve, Observe, regVars
    <3> QED BY <1>0, <3>1, StateFacts DEF PromotedIn, StateMap
  <2> QED BY <2>1, <2>2
      DEF ConnStep, Accept, ClientRequest, Close, OnConnectState,
          OnRequestState, OnRequestMatch, OnRequestMock, OnFlow, AddFlow,
          regVars
<1>2. \A d \in Conns \ {c} : conn'[d] = conn[d]
  BY <1>0 DEF ConnStep, Accept, ClientRequest, Close, OnConnectObserve,
              OnConnectState, OnRequestState, OnRequestMatch, OnRequestMock,
              OnFlow, Decided
<1>3. \A d \in Conns : Decrypted(d) => conn[d].host \in granted
  BY DEF PromotionsGranted, NoDecryptWithoutPromotion
<1>4. ASSUME OnConnectState(c)
      PROVE  conn'[c].pc = "spliced" \/ conn'[c].host \in granted
  <2>1. CASE State(conn[c].host) \in Promoted
    <3>1. conn'[c].host = conn[c].host
      BY <1>0, <1>4 DEF OnConnectState, Conn
    <3>2. states[conn[c].host] \in Promoted
      BY <2>1, StateFacts DEF State
    <3>3. conn[c].host \in granted
      BY <1>0, <3>2 DEF PromotionsGranted, PromotedIn
    <3> QED BY <3>1, <3>3
  <2>2. CASE State(conn[c].host) \notin Promoted
    <3>1. conn'[c].pc = "spliced"
      BY <1>0, <1>4, <2>2 DEF OnConnectState, Conn
    <3> QED BY <3>1
  <2> QED BY <2>1, <2>2
<1>5. ASSUME ~OnConnectState(c)
      PROVE  \/ conn'[c].pc \in {"idle", "observe", "decide"}
             \/ conn'[c].host \in granted
  <2>1. ASSUME NEW h \in Hosts, Accept(c, h) PROVE conn'[c].pc = "observe"
    BY <1>0, <2>1 DEF Accept, Conn
  <2>2. ASSUME NEW req \in Requests, ClientRequest(c, req)
        PROVE  Decrypted(c) /\ conn'[c].host = conn[c].host
    BY <1>0, <2>2 DEF ClientRequest, Conn, Decrypted
  <2>3. ASSUME Close(c) PROVE conn'[c].pc = "idle"
    BY <1>0, <2>3 DEF Close, Idle
  <2>4. ASSUME OnConnectObserve(c) PROVE conn'[c].pc = "decide"
    BY <1>0, <2>4 DEF OnConnectObserve, Conn
  <2>5. ASSUME OnRequestState(c) \/ OnRequestMatch(c) \/ OnRequestMock(c)
        PROVE  Decrypted(c) /\ conn'[c].host = conn[c].host
    BY <1>0, <2>5 DEF OnRequestState, OnRequestMatch, OnRequestMock, Decided,
                      Conn, Decrypted
  <2>6. ASSUME OnFlow(c) PROVE Decrypted(c) /\ conn'[c].host = conn[c].host
    BY <1>0, <2>6 DEF OnFlow, Idle, Decrypted
  <2> QED BY <1>3, <1>5, <2>1, <2>2, <2>3, <2>4, <2>5, <2>6 DEF ConnStep
<1>6. NoDecryptWithoutPromotion'
  <2> SUFFICES ASSUME NEW d \in Conns, Decrypted(d)'
               PROVE  conn'[d].host \in granted
    BY <1>0 DEF NoDecryptWithoutPromotion
  <2>1. CASE d = c
    BY <1>4, <1>5, <2>1 DEF Decrypted
  <2>2. CASE d # c
    BY <1>2, <1>3, <2>2 DEF Decrypted
  <2> QED BY <2>1, <2>2
<1> QED BY <1>0, <1>1, <1>6 DEF PromotionsGranted

\* No step, of whatever goroutine, and no crash breaks PromotionsGranted.
LEMMA GrantedInductive ==
    ASSUME TypeOK, PromotionsGranted, [Next]_vars
    PROVE  PromotionsGranted'
<1>1. CASE UNCHANGED vars
  BY <1>1 DEF vars, adminVars, PromotionsGranted, NoDecryptWithoutPromotion,
              Decrypted
<1>2. ASSUME NEW c \in Conns, Serve(c) PROVE PromotionsGranted'
  <2>1. ConnStep(c) /\ UNCHANGED adminVars
    BY <1>2 DEF Serve
  <2>2. snapS' = snapS /\ disk' = disk /\ granted' = granted
    BY <2>1 DEF adminVars
  <2> QED BY <2>1, <2>2, ServeGranted DEF PromotionsGranted
<1>3. ASSUME granted \subseteq granted', UNCHANGED conn
      PROVE  NoDecryptWithoutPromotion'
  BY <1>3 DEF PromotionsGranted, NoDecryptWithoutPromotion, Decrypted
<1>4. CASE Administer /\ Boot
  <2>1. /\ granted \subseteq granted'
        /\ UNCHANGED <<snapS, disk>> /\ UNCHANGED conn
    BY <1>4 DEF Boot, Administer
  <2> QED BY <1>3, <1>4, <2>1, BootGranted DEF PromotionsGranted
<1>5. ASSUME NEW p \in Savers, Administer, SaveStep(p) PROVE PromotionsGranted'
  <2>1. UNCHANGED <<states, granted, conn>>
    BY <1>5 DEF Administer, SaveStep, SaveSnapshot, SaveOpenState,
                SaveWriteState, SaveAll, SaveOpenRules, SaveWriteRules,
                SaveFails, SaveFrame, policyVars, ghostVars
  <2> QED BY <1>3, <1>5, <2>1, SaveGranted DEF PromotionsGranted
<1>6. CASE Administer /\ BootSaved
  <2>1. UNCHANGED <<states, granted, snapS, disk, conn>>
    BY <1>6 DEF Administer, BootSaved, policyVars
  <2> QED BY <1>3, <2>1 DEF PromotionsGranted
<1>7. ASSUME NEW p \in Handlers, Administer, HandlerStep(p)
      PROVE  PromotionsGranted'
  <2>1. UNCHANGED conn
    BY <1>7 DEF Administer
  <2> QED BY <1>3, <1>7, <2>1, HandlerGranted DEF PromotionsGranted
<1>8. CASE Crash
  <2>1. /\ states' = NoStates /\ snapS' = [p \in Savers |-> NoStates]
        /\ conn' = [c \in Conns |-> Idle]
        /\ UNCHANGED <<disk, granted>>
    BY <1>8 DEF Crash, AdminCrash, ghostVars
  <2>2. NoDecryptWithoutPromotion'
    BY <2>1 DEF NoDecryptWithoutPromotion, Decrypted, Idle
  <2> QED BY <2>1, <2>2, NoStatesPromotesNothing DEF PromotionsGranted
<1> QED BY <1>1, <1>2, <1>4, <1>5, <1>6, <1>7, <1>8
        DEF Next, Administer, AdminStep

\* At first only the given state.json promotes anything.
LEMMA GrantedInit == Init => PromotionsGranted
<1> SUFFICES ASSUME Init PROVE PromotionsGranted
  OBVIOUS
<1>1. PICK s \in InitialStates :
          disk.state = s /\ granted = IF s = NoFile THEN {} ELSE PromotedIn(s)
  BY DEF Init, AdminInit
<1>2. disk.state \notin Unreadable => PromotedIn(disk.state) \subseteq granted
  BY <1>1 DEF Unreadable
<1>3. states = NoStates /\ snapS = [p \in Savers |-> NoStates]
  BY DEF Init, AdminInit, NewRegistry
<1>4. NoDecryptWithoutPromotion
  BY DEF Init, AppInit, NoDecryptWithoutPromotion, Decrypted, Idle
<1> QED BY <1>2, <1>3, <1>4, NoStatesPromotesNothing DEF PromotionsGranted

\* "decrypt only what you choose": for any number of handlers, connections,
\* failed writes and crashes, the host of every decrypted connection was at
\* some time promoted by somebody (app.go:52-60).
THEOREM DecryptsOnlyPromoted == Spec => []NoDecryptWithoutPromotion
<1>1. Spec => []PromotionsGranted
  BY SkyTapTypeCorrect, GrantedInit, GrantedInductive, PTL DEF Spec
<1>2. PromotionsGranted => NoDecryptWithoutPromotion
  BY DEF PromotionsGranted
<1> QED BY <1>1, <1>2, PTL

-----------------------------------------------------------------------------
(* Every rule has an id.                                                   *)

\* Each way into the table completes the rule; the others only remove.
LEMMA DeletableInductive ==
    ASSUME TypeOK, RulesDeletable, [Next]_vars
    PROVE  RulesDeletable'
<1>0. RuleTypeOK /\ AllHaveId(rules) /\ RuleInputs \subseteq Rule
  BY AdminAssumption DEF TypeOK, RulesDeletable, AllHaveId
<1>1. CASE UNCHANGED rules
  BY <1>1 DEF RulesDeletable
<1>2. CASE Boot
  <2>1. PICK rs \in IF persistExists THEN {loadedRules}
                                     ELSE seedRules(loadedRules) : Set(rs)
    BY <1>2 DEF Boot
  <2>2. rs \in SUBSET Entry
    BY <2>1, BootRulesType DEF TypeOK
  <2> QED BY <2>1, <2>2, SetFacts DEF AllHaveId, RulesDeletable
<1>3. ASSUME NEW p \in Handlers, NEW r \in RuleInputs, AddRuleHandler(p, r)
      PROVE  RulesDeletable'
  BY <1>0, <1>3, AddFacts DEF AddRuleHandler, AllHaveId, RulesDeletable
<1>4. ASSUME NEW p \in Handlers, NEW id \in RuleIDs, DeleteRuleHandler(p, id)
      PROVE  RulesDeletable'
  BY <1>0, <1>4, DeleteFacts DEF DeleteRuleHandler, AllHaveId, RulesDeletable
<1>5. CASE Crash
  BY <1>5 DEF Crash, AdminCrash, RulesDeletable
<1>6. ASSUME NEW p \in Savers, SaveStep(p) PROVE UNCHANGED rules
  BY <1>6 DEF SaveStep, SaveSnapshot, SaveOpenState, SaveWriteState, SaveAll,
              SaveOpenRules, SaveWriteRules, SaveFails, SaveFrame, policyVars
<1>7. ASSUME BootSaved PROVE UNCHANGED rules
  BY <1>7 DEF BootSaved, policyVars
<1>8. ASSUME NEW p \in Handlers, HandlerStep(p) PROVE RulesDeletable'
  BY <1>1, <1>3, <1>4, <1>8
  DEF HandlerStep, StateHandler, McpSetState, DomainsHandler,
      HistoryFlowsHandler, HistoryAllHandler, Reply, policyVars
<1>9. ASSUME NEW c \in Conns, ConnStep(c) PROVE UNCHANGED rules
  BY <1>9 DEF ConnStep, Accept, ClientRequest, Close, OnConnectObserve,
              OnConnectState, OnRequestState, OnRequestMatch, OnRequestMock,
              OnFlow
<1>10. ASSUME UNCHANGED vars PROVE UNCHANGED rules
  BY <1>10 DEF vars
<1> QED BY <1>1, <1>2, <1>5, <1>6, <1>7, <1>8, <1>9, <1>10
        DEF Next, Serve, Administer, AdminStep

\* Whatever rules.json holds and whatever is POSTed, a rule in the table has
\* an id, so that DELETE /rules?id= can name it (rules.go:48-75,
\* admin.go:87-97).
THEOREM RulesAlwaysDeletable == Spec => []RulesDeletable
<1>1. Init => RulesDeletable
  BY DEF Init, AdminInit, RulesDeletable
<1> QED BY <1>1, SkyTapTypeCorrect, DeletableInductive, PTL DEF Spec

-----------------------------------------------------------------------------
(* The outcome of OnRequest is accounted for by what held while it ran,    *)
(* although it consults the registry once and the rule table once or       *)
(* twice, each time under another lock, and admin requests change both in  *)
(* between.                                                                *)

\* What is true of one connection at every moment.  While OnRequest decides,
\* the window has seen the present state and the present first match, and
\* the state it has read; it goes on to the second lookup only for a MOCKED
\* host whose first match was not a rewrite.
WindowCurrent(c) ==
    conn[c].pc \in Deciding =>
        /\ Effective(states, conn[c].host) \in seen[c].states
        /\ FirstMatch(rules, conn[c].host, conn[c].req) \subseteq seen[c].first
        /\ conn[c].pc = "mock" =>
               FirstMatch(rules, conn[c].host, conn[c].req) \subseteq seen[c].again

StateWasSeen(c) ==
    /\ conn[c].pc \in {"match", "mock"} => conn[c].st \in seen[c].states
    /\ conn[c].pc = "mock" => /\ conn[c].st = StateMocked
                              /\ \E r \in seen[c].first : ~IsRewrite(r)

Justified(c) ==
    conn[c].pc = "flow" =>
        \/ \E s \in seen[c].states, r \in seen[c].first :
               conn[c].out = CalledFor(s, r)
        \/ conn[c].out = Forward /\ Overtaken(c)

OutcomeInv ==
    \A c \in Conns : WindowCurrent(c) /\ StateWasSeen(c) /\ Justified(c)

\* What one step adds to the window of a connection.
LEMMA WindowFacts ==
    ASSUME TypeOK, Window, NEW c \in Conns
    PROVE  /\ WindowCurrent(c)'
           /\ conn[c].pc \in Deciding /\ conn'[c].pc \in Deciding
                  => /\ seen[c].states \subseteq seen'[c].states
                     /\ seen[c].first \subseteq seen'[c].first
           /\ conn'[c].pc = "flow" => seen'[c] = seen[c]
<1> DEFINE k   == conn'[c]
           was == IF conn[c].pc \in Deciding THEN seen[c] ELSE NothingSeen
<1>1. CASE k.pc \in Deciding
  <2>1. seen'[c] = [states |-> was.states \cup {Effective(states', k.host)},
                    first  |-> was.first \cup FirstMatch(rules', k.host, k.req),
                    again  |-> was.again \cup IF k.pc = "mock"
                                  THEN FirstMatch(rules', k.host, k.req) ELSE {}]
    BY <1>1 DEF Window
  <2>2. /\ seen'[c].states = was.states \cup {Effective(states', k.host)}
        /\ seen'[c].first = was.first \cup FirstMatch(rules', k.host, k.req)
        /\ k.pc = "mock" => FirstMatch(rules', k.host, k.req) \subseteq seen'[c].again
    BY <2>1
  <2>3. k.pc # "flow"
    BY <1>1 DEF Deciding
  <2>4. /\ Effective(states, conn[c].host)' = Effective(states', k.host)
        /\ FirstMatch(rules, conn[c].host, conn[c].req)'
             = FirstMatch(rules', k.host, k.req)
    BY DEF Effective, FirstMatch, Applies, pathMatch
  <2> QED BY <2>2, <2>3, <2>4 DEF WindowCurrent
<1>2. CASE k.pc \notin Deciding
  BY <1>2 DEF Window, WindowCurrent
<1> QED BY <1>1, <1>2

\* A step that leaves the connection alone: the policy may change under it.
LEMMA OthersStep ==
    ASSUME TypeOK, OutcomeInv, Window, NEW c \in Conns, conn'[c] = conn[c]
    PROVE  WindowCurrent(c)' /\ StateWasSeen(c)' /\ Justified(c)'
<1>1. StateWasSeen(c) /\ Justified(c)
  BY DEF OutcomeInv
<1>2. StateWasSeen(c)'
  BY <1>1, WindowFacts DEF StateWasSeen, Deciding
<1>3. Justified(c)'
  BY <1>1, WindowFacts DEF Justified, Overtaken, CalledFor, IsRewrite
<1> QED BY <1>2, <1>3, WindowFacts

\* What is called for does not change with the state of the program.
LEMMA SameCall == \A s, r : CalledFor(s, r)' = CalledFor(s, r)
  BY DEF CalledFor, IsRewrite

\* The connection's own steps.
LEMMA OwnStep ==
    ASSUME TypeOK, OutcomeInv, Window, NEW c \in Conns, ConnStep(c)
    PROVE  WindowCurrent(c)' /\ StateWasSeen(c)' /\ Justified(c)'
<1>0. /\ conn \in [Conns -> Conn] /\ conn[c] \in Conn
      /\ WindowCurrent(c) /\ StateWasSeen(c)
  BY DEF TypeOK, AppTypeOK, OutcomeInv
<1>1. WindowCurrent(c)'
  BY WindowFacts
<1>2. ASSUME conn'[c].pc \notin {"match", "mock", "flow"}
      PROVE  StateWasSeen(c)' /\ Justified(c)'
  BY <1>2 DEF StateWasSeen, Justified
<1>3. ASSUME NEW h \in Hosts, Accept(c, h) PROVE conn'[c].pc = "observe"
  BY <1>0, <1>3 DEF Accept, Conn
<1>4. ASSUME NEW req \in Requests, ClientRequest(c, req)
      PROVE  conn'[c].pc = "state"
  BY <1>0, <1>4 DEF ClientRequest, Conn
<1>5. ASSUME Close(c) \/ OnConnectObserve(c) \/ OnConnectState(c) \/ OnFlow(c)
      PROVE  conn'[c].pc \in {"idle", "decide", "ready", "spliced"}
  <2>1. ASSUME Close(c) PROVE conn'[c].pc = "idle"
    BY <1>0, <2>1 DEF Close, Idle
  <2>2. ASSUME OnConnectObserve(c) PROVE conn'[c].pc = "decide"
    BY <1>0, <2>2 DEF OnConnectObserve, Conn
  <2>3. ASSUME OnConnectState(c) PROVE conn'[c].pc \in {"ready", "spliced"}
    BY <1>0, <2>3 DEF OnConnectState, Conn
  <2>4. ASSUME OnFlow(c) PROVE conn'[c].pc = "ready"
    BY <1>0, <2>4 DEF OnFlow, Idle
  <2> QED BY <1>5, <2>1, <2>2, <2>3, <2>4
<1>6. CASE OnRequestState(c)
  <2>1. /\ conn[c].pc = "state" /\ conn'[c].pc = "match"
        /\ conn'[c].st = State(conn[c].host)
    BY <1>0, <1>6 DEF OnRequestState, Conn
  <2>2. conn'[c].st \in seen[c].states
    BY <1>0, <2>1 DEF WindowCurrent, Deciding, Effective, State
  <2>3. seen[c].states \subseteq seen'[c].states
    BY <2>1, WindowFacts DEF Deciding
  <2> QED BY <1>1, <2>1, <2>2, <2>3 DEF StateWasSeen, Justified
<1>7. ASSUME NEW out, Decided(c, out)
      PROVE  /\ conn'[c].pc = "flow" /\ conn'[c].out = out
             /\ seen'[c] = seen[c] /\ StateWasSeen(c)'
  <2>1. conn'[c].pc = "flow" /\ conn'[c].out = out
    BY <1>0, <1>7 DEF Decided, Conn
  <2> QED BY <2>1, WindowFacts DEF StateWasSeen
<1>8. CASE OnRequestMatch(c)
  <2>1. PICK r \in matchRule(conn[c].host, conn[c].req) :
            \/ /\ IsRewrite(r)
               /\ Decided(c, IF conn[c].st \in Promoted
                             THEN [kind |-> "rewrite", rule |-> r]
                             ELSE Forward)
            \/ /\ ~IsRewrite(r)
               /\ conn[c].st # StateMocked
               /\ Decided(c, Forward)
            \/ /\ ~IsRewrite(r)
               /\ conn[c].st = StateMocked
               /\ conn' = [conn EXCEPT ![c].pc = "mock"]
    BY <1>8 DEF OnRequestMatch
  <2>2. conn[c].pc = "match" /\ conn[c].st \in seen[c].states
    BY <1>0, <1>8 DEF OnRequestMatch, StateWasSeen
  <2>3. r \in seen[c].first
    BY <1>0, <2>1, <2>2 DEF WindowCurrent, Deciding, matchRule
  <2>4. CASE /\ Decided(c, Forward) /\ conn[c].st # StateMocked
             /\ IsRewrite(r) => conn[c].st \notin Promoted
    <3>1. conn'[c].out = Forward /\ seen'[c] = seen[c] /\ StateWasSeen(c)'
      BY <1>7, <2>4
    <3>2. CalledFor(conn[c].st, r) = Forward
      BY <2>4 DEF CalledFor
    <3>3. Justified(c)'
      BY <2>2, <2>3, <3>1, <3>2, SameCall DEF Justified
    <3> QED BY <1>1, <3>1, <3>3
  <2>5. CASE /\ IsRewrite(r) /\ conn[c].st \in Promoted
             /\ Decided(c, [kind |-> "rewrite", rule |-> r])
    <3>1. /\ conn'[c].out = [kind |-> "rewrite", rule |-> r]
          /\ seen'[c] = seen[c] /\ StateWasSeen(c)'
      BY <1>7, <2>5
    <3>2. CalledFor(conn[c].st, r) = [kind |-> "rewrite", rule |-> r]
      BY <2>5 DEF CalledFor
    <3>3. Justified(c)'
      BY <2>2, <2>3, <3>1, <3>2, SameCall DEF Justified
    <3> QED BY <1>1, <3>1, <3>3
  <2>6. CASE /\ ~IsRewrite(r) /\ conn[c].st = StateMocked
             /\ conn' = [conn EXCEPT ![c].pc = "mock"]
    <3>1. conn'[c].pc = "mock" /\ conn'[c].st = conn[c].st
      BY <1>0, <2>6 DEF Conn
    <3>2. /\ seen[c].states \subseteq seen'[c].states
          /\ seen[c].first \subseteq seen'[c].first
      BY <2>2, <3>1, WindowFacts DEF Deciding
    <3>3. \E q \in seen'[c].first : ~IsRewrite(q)
      BY <2>3, <2>6, <3>2
    <3>4. StateWasSeen(c)'
      BY <2>2, <2>6, <3>1, <3>2, <3>3 DEF StateWasSeen, IsRewrite
    <3> QED BY <1>1, <3>1, <3>4 DEF Justified
  <2>7. StateMocked \in Promoted
    BY DEF Promoted
  <2> QED BY <2>1, <2>4, <2>5, <2>6, <2>7
<1>9. CASE OnRequestMock(c)
  <2>1. PICK r \in matchRule(conn[c].host, conn[c].req) :
            Decided(c, IF r = NoRule \/ IsRewrite(r)
                       THEN Forward
                       ELSE [kind |-> "mock", rule |-> r])
    BY <1>9 DEF OnRequestMock
  <2>2. /\ conn[c].pc = "mock" /\ StateMocked \in seen[c].states
        /\ \E q \in seen[c].first : ~IsRewrite(q)
    BY <1>0, <1>9 DEF OnRequestMock, StateWasSeen
  <2>3. r \in seen[c].first /\ r \in seen[c].again
    BY <1>0, <2>1, <2>2 DEF WindowCurrent, Deciding, matchRule
  <2>4. CASE r = NoRule \/ IsRewrite(r)
    <3>1. conn'[c].out = Forward /\ seen'[c] = seen[c] /\ StateWasSeen(c)'
      BY <1>7, <2>1, <2>4
    <3>2. CASE NoRule \in seen[c].first
      <4>1. CalledFor(StateMocked, NoRule) = Forward
        BY DEF CalledFor, IsRewrite
      <4> QED BY <1>1, <2>2, <3>1, <3>2, <4>1, SameCall DEF Justified
    <3>3. CASE NoRule \notin seen[c].first
      <4>1. IsRewrite(r) /\ \E q \in seen[c].first : q # NoRule /\ ~IsRewrite(q)
        BY <2>2, <2>3, <2>4, <3>3
      <4>2. Overtaken(c)'
        BY <2>2, <2>3, <3>1, <4>1 DEF Overtaken, IsRewrite
      <4> QED BY <1>1, <3>1, <4>2, SameCall DEF Justified
    <3> QED BY <3>2, <3>3
  <2>5. CASE ~(r = NoRule \/ IsRewrite(r))
    <3>1. /\ conn'[c].out = [kind |-> "mock", rule |-> r]
          /\ seen'[c] = seen[c] /\ StateWasSeen(c)'
      BY <1>7, <2>1, <2>5
    <3>2. CalledFor(StateMocked, r) = [kind |-> "mock", rule |-> r]
      BY <2>5 DEF CalledFor
    <3>3. Justified(c)'
      BY <2>2, <2>3, <3>1, <3>2, SameCall DEF Justified
    <3> QED BY <1>1, <3>1, <3>3
  <2> QED BY <2>4, <2>5
<1> QED BY <1>1, <1>2, <1>3, <1>4, <1>5, <1>6, <1>8, <1>9 DEF ConnStep

\* OutcomeInv is inductive.
LEMMA OutcomeInductive ==
    ASSUME TypeOK, OutcomeInv, [Next]_vars
    PROVE  OutcomeInv'
<1>1. CASE UNCHANGED vars
  BY <1>1 DEF vars, OutcomeInv, WindowCurrent, StateWasSeen, Justified, Overtaken
<1>2. ASSUME NEW d \in Conns, Serve(d) PROVE OutcomeInv'
  <2>1. ConnStep(d) /\ Window
    BY <1>2 DEF Serve
  <2>2. conn \in [Conns -> Conn]
    BY DEF TypeOK, AppTypeOK
  <2>3. \A c \in Conns \ {d} : conn'[c] = conn[c]
    BY <2>1, <2>2
    DEF ConnStep, Accept, ClientRequest, Close, OnConnectObserve,
        OnConnectState, OnRequestState, OnRequestMatch, OnRequestMock,
        OnFlow, Decided
  <2>4. ASSUME NEW c \in Conns
        PROVE  WindowCurrent(c)' /\ StateWasSeen(c)' /\ Justified(c)'
    <3>1. CASE c = d
      BY <2>1, <3>1, OwnStep
    <3>2. CASE c # d
      BY <2>1, <2>3, <3>2, OthersStep
    <3> QED BY <3>1, <3>2
  <2> QED BY <2>4 DEF OutcomeInv
<1>3. CASE Administer
  <2>1. Window /\ \A c \in Conns : conn'[c] = conn[c]
    BY <1>3 DEF Administer
  <2>2. ASSUME NEW c \in Conns
        PROVE  WindowCurrent(c)' /\ StateWasSeen(c)' /\ Justified(c)'
    BY <2>1, OthersStep
  <2> QED BY <2>2 DEF OutcomeInv
<1>4. CASE Crash
  <2>1. \A c \in Conns : conn'[c].pc = "idle"
    BY <1>4 DEF Crash, Idle
  <2> QED BY <2>1 DEF OutcomeInv, WindowCurrent, StateWasSeen, Justified,
                      Deciding
<1> QED BY <1>1, <1>2, <1>3, <1>4 DEF Next

\* For any number of connections and concurrent admin requests, OnRequest
\* (app.go:62-75) does what a state and a first rule that held during the call
\* call for, with the one exception of a mock rule that a rewrite rule overtakes
\* between the two lookups.
THEOREM OutcomesJustified == Spec => []OutcomeJustified
<1>1. Init => OutcomeInv
  BY DEF Init, AppInit, Idle, OutcomeInv, WindowCurrent, StateWasSeen,
         Justified, Deciding
<1>2. OutcomeInv => OutcomeJustified
  BY DEF OutcomeInv, Justified, OutcomeJustified
<1> QED BY <1>1, <1>2, SkyTapTypeCorrect, OutcomeInductive, PTL DEF Spec

-----------------------------------------------------------------------------
(* Persistence without overlapping requests.  savePersist takes its copies *)
(* and writes them in separate steps under no common lock, so that two     *)
(* handlers may leave the files behind (the run lost_update); here is what *)
(* it does achieve when requests are served one after the other.           *)

\* Admin requests do not overlap.
OneHandler == \A p, q \in Handlers : p = q

\* No system call fails, and no crash cuts a save short.
NothingTorn == MaxFaults = 0 /\ CrashMidSave = FALSE

\* Two maps under which every host has the same state: a host that is merely
\* observed may be missing from one of them, as OnConnect adds hosts while a
\* save is running.
SamePolicy(m, n) == \A h \in Hosts : Effective(m, h) = Effective(n, h)

StateCurrent == disk.state \notin Unreadable /\ SamePolicy(disk.state, states)
DiskCurrent  == StateCurrent /\ disk.rules = rules

\* How far a running save has brought the files.
Saved(p) ==
    /\ hpc[p] \in {"openS", "writeS"} => SamePolicy(snapS[p], states)
    /\ hpc[p] = "writeS" => disk.state = EmptyFile
    /\ hpc[p] \in {"all", "openR", "writeR"} => StateCurrent
    /\ hpc[p] \in {"openR", "writeR"} => snapR[p] = rules
    /\ hpc[p] = "writeR" => disk.rules = EmptyFile
    /\ hpc[p] = "done" => DiskCurrent

\* Main saves before it serves, and handlers run only afterwards.
Turns ==
    /\ hpc[Main] # "idle" <=> phase = "boot"
    /\ phase # "up" => AllIdle

SerialInv ==
    /\ Turns
    /\ faults = 0 => \A p \in Savers : Saved(p)
    /\ faults = 0 /\ phase = "up" /\ AllIdle => DiskCurrent

\* What a start would load is accounted for, as is what is in force.
AckedInv ==
    /\ AckedPolicySurvives
    /\ phase = "down" =>
           \A h \in Hosts : Effective(loadedStates, h) \in acked[h]

\* A connection's goroutine changes no rule and no host's state: Observe lists
\* a host as OBSERVED, which it was without an entry.
LEMMA ServeKeepsPolicy ==
    ASSUME TypeOK, NEW c \in Conns, ConnStep(c)
    PROVE  SamePolicy(states', states) /\ UNCHANGED rules
<1>0. states \in StateMap /\ conn[c].host \in Hosts
  BY DEF TypeOK, RegistryTypeOK, AppTypeOK, Conn
<1>1. UNCHANGED rules
  BY DEF ConnStep, Accept, ClientRequest, Close, OnConnectObserve,
         OnConnectState, OnRequestState, OnRequestMatch, OnRequestMock, OnFlow
<1>2. states' = states \/ OnConnectObserve(c)
  BY DEF ConnStep, Accept, ClientRequest, Close,
         OnConnectState, OnRequestState, OnRequestMatch, OnRequestMock, OnFlow,
         AddFlow, regVars
<1>3. CASE states' = states
  BY <1>1, <1>3 DEF SamePolicy
<1>4. CASE OnConnectObserve(c)
  <2> DEFINE h == conn[c].host
  <2>1. \/ states' = states
        \/ states' = [states EXCEPT ![h] = IF states[h] = Absent THEN StateObserved
                                                                 ELSE states[h]]
    BY <1>0, <1>4 DEF OnConnectObserve, Observe, regVars, StateMap
  <2>2. SamePolicy(states', states)
    BY <1>0, <2>1 DEF SamePolicy, Effective, StateMap
  <2> QED BY <1>1, <2>2
<1> QED BY <1>2, <1>3, <1>4

\* At most one goroutine is in a handler or in a save.
LEMMA OneAtATime ==
    ASSUME OneHandler, Turns, NEW p \in Savers, NEW q \in Savers,
           hpc[p] # "idle", hpc[q] # "idle"
    PROVE  p = q
BY DEF OneHandler, Turns, AllIdle, Savers

\* A step of savePersist brings the files forward, or counts as a fault.
LEMMA SaveStepSaves ==
    ASSUME TypeOK, NEW p \in Savers, SaveStep(p), faults' = 0, Saved(p)
    PROVE  Saved(p)'
<1>0. /\ hpc \in [Savers -> SavePcs \cup {"idle", "done"}]
      /\ snapS \in [Savers -> StateMap]
      /\ snapR \in [Savers -> SUBSET Entry]
      /\ disk \in [state: StateFile, rules: RulesFile]
      /\ faults \in Nat
      /\ snapS[p] \in StateMap
  BY AdminAssumption DEF TypeOK, AdminTypeOK
<1>1. snapS[p] \notin Unreadable
  BY <1>0, AdminAssumption
<1>2. ~SaveFails(p)
  BY <1>0 DEF SaveFails
<1>3. UNCHANGED <<states, rules>>
  BY DEF SaveStep, SaveSnapshot, SaveOpenState, SaveWriteState, SaveAll,
         SaveOpenRules, SaveWriteRules, SaveFails, SaveFrame, policyVars
<1>4. CASE SaveSnapshot(p)
  <2>1. hpc'[p] = "openS" /\ snapS'[p] = states
    BY <1>0, <1>4 DEF SaveSnapshot, Goto
  <2> QED BY <1>3, <2>1 DEF Saved, SamePolicy
<1>5. CASE SaveOpenState(p)
  <2>1. /\ hpc[p] = "openS" /\ hpc'[p] = "writeS" /\ snapS' = snapS
        /\ disk'.state = EmptyFile
    BY <1>0, <1>5 DEF SaveOpenState, Goto
  <2> QED BY <1>3, <2>1 DEF Saved, SamePolicy
<1>6. CASE SaveWriteState(p)
  <2>1. /\ hpc[p] = "writeS" /\ hpc'[p] = "all"
        /\ \E f \in Overwrite(disk.state, snapS[p]) : disk'.state = f
    BY <1>0, <1>6 DEF SaveWriteState, Goto
  <2>2. disk'.state = snapS[p] /\ SamePolicy(snapS[p], states)
    BY <2>1 DEF Saved, Overwrite
  <2>3. StateCurrent'
    BY <1>1, <1>3, <2>2 DEF StateCurrent, SamePolicy
  <2> QED BY <2>1, <2>3 DEF Saved
<1>7. CASE SaveAll(p)
  <2>1. /\ hpc[p] = "all" /\ hpc'[p] = "openR" /\ disk' = disk
        /\ snapR'[p] = rules
    BY <1>0, <1>7 DEF SaveAll, Goto
  <2> QED BY <1>3, <2>1 DEF Saved, StateCurrent, SamePolicy
<1>8. CASE SaveOpenRules(p)
  <2>1. /\ hpc[p] = "openR" /\ hpc'[p] = "writeR" /\ snapR' = snapR
        /\ disk'.state = disk.state /\ disk'.rules = EmptyFile
    BY <1>0, <1>8 DEF SaveOpenRules, Goto
  <2> QED BY <1>3, <2>1 DEF Saved, StateCurrent, SamePolicy
<1>9. CASE SaveWriteRules(p)
  <2>1. /\ hpc[p] = "writeR" /\ hpc'[p] = "done"
        /\ disk'.state = disk.state
        /\ \E f \in Overwrite(disk.rules, snapR[p]) : disk'.rules = f
    BY <1>0, <1>9 DEF SaveWriteRules, Goto, Return
  <2>2. disk'.rules = rules
    BY <2>1 DEF Saved, Overwrite
  <2>3. DiskCurrent'
    BY <1>3, <2>1, <2>2 DEF Saved, DiskCurrent, StateCurrent, SamePolicy
  <2> QED BY <2>1, <2>3 DEF Saved
<1> QED BY <1>2, <1>4, <1>5, <1>6, <1>7, <1>8, <1>9 DEF SaveStep

\* A request changes memory and goes on to its save, or has been answered.
LEMMA HandlerMoves ==
    ASSUME TypeOK, NEW p \in Handlers, HandlerStep(p)
    PROVE  /\ UNCHANGED <<phase, snapS, snapR, disk, faults>>
           /\ \/ /\ phase = "up" /\ hpc[p] = "idle"
                 /\ hpc' = [hpc EXCEPT ![p] = "snapshot"]
              \/ /\ hpc[p] = "done"
                 /\ hpc' = [hpc EXCEPT ![p] = "idle"]
                 /\ UNCHANGED <<states, rules>>
BY DEF HandlerStep, StateHandler, McpSetState, DomainsHandler,
       HistoryAllHandler, HistoryFlowsHandler, AddRuleHandler,
       DeleteRuleHandler, Reply, Called, ThenSave, Goto, policyVars

\* SerialInv is inductive, wherever crashes fall.
LEMMA SerialInductive ==
    ASSUME OneHandler, TypeOK, SerialInv, [Next]_vars
    PROVE  SerialInv'
<1>0. /\ hpc \in [Savers -> SavePcs \cup {"idle", "done"}]
      /\ Main \in Savers /\ Handlers \subseteq Savers /\ Main \notin Handlers
      /\ faults \in Nat
      /\ phase \in {"down", "boot", "up"}
  BY AdminAssumption DEF TypeOK, AdminTypeOK, Savers
<1>1. ASSUME SamePolicy(states', states),
             UNCHANGED <<rules, phase, hpc, snapS, snapR, disk, faults>>
      PROVE  SerialInv'
  <2>1. Turns'
    BY <1>1 DEF SerialInv, Turns, AllIdle
  <2>2. /\ StateCurrent => StateCurrent'
        /\ DiskCurrent => DiskCurrent'
        /\ \A p \in Savers : SamePolicy(snapS[p], states)
                                 => SamePolicy(snapS'[p], states')
    BY <1>1 DEF StateCurrent, DiskCurrent, SamePolicy
  <2>3. ASSUME NEW p \in Savers, Saved(p) PROVE Saved(p)'
    BY <1>1, <2>2, <2>3 DEF Saved
  <2>4. faults' = 0 => \A p \in Savers : Saved(p)'
    BY <1>1, <2>3 DEF SerialInv
  <2>5. faults' = 0 /\ phase' = "up" /\ AllIdle' => DiskCurrent'
    BY <1>1, <2>2 DEF SerialInv, AllIdle
  <2> QED BY <2>1, <2>4, <2>5 DEF SerialInv
<1>2. CASE UNCHANGED vars
  BY <1>1, <1>2 DEF vars, adminVars, SamePolicy
<1>3. ASSUME NEW c \in Conns, Serve(c) PROVE SerialInv'
  BY <1>1, <1>3, ServeKeepsPolicy DEF Serve, adminVars
<1>4. ASSUME NEW p \in Savers, hpc[p] # "idle", NEW q \in Savers, q # p
      PROVE  hpc[q] = "idle"
  BY <1>4, OneAtATime DEF SerialInv
<1>5. ASSUME NEW q \in Savers, hpc'[q] \in {"idle", "snapshot"} PROVE Saved(q)'
  BY <1>5 DEF Saved
<1>6. CASE Boot
  <2>1. /\ phase' = "boot" /\ hpc' = [hpc EXCEPT ![Main] = "snapshot"]
        /\ phase = "down"
    BY <1>6 DEF Boot
  <2>2. Turns' /\ \A q \in Savers : hpc'[q] \in {"idle", "snapshot"}
    BY <1>0, <2>1 DEF SerialInv, Turns, AllIdle, Savers
  <2> QED BY <1>5, <2>1, <2>2 DEF SerialInv
<1>7. ASSUME NEW p \in Savers, SaveStep(p) PROVE SerialInv'
  <2>1. /\ hpc[p] # "idle" /\ phase' = phase
        /\ \E pc \in SavePcs \cup {"done"} : hpc' = [hpc EXCEPT ![p] = pc]
        /\ faults' = faults \/ faults' = faults + 1
    BY <1>7 DEF SaveStep, SaveSnapshot, SaveOpenState, SaveWriteState, SaveAll,
           SaveOpenRules, SaveWriteRules, SaveFails, SaveFrame, Goto, Return,
           SavePcs
  <2>2. hpc'[p] # "idle" /\ \A q \in Savers : q # p => hpc'[q] = hpc[q]
    BY <1>0, <2>1 DEF SavePcs
  <2>3. Turns'
    BY <1>0, <1>7, <2>1, <2>2 DEF SerialInv, Turns, AllIdle, Savers
  <2>4. ASSUME faults' = 0, NEW q \in Savers PROVE Saved(q)'
    <3>1. faults = 0
      BY <1>0, <2>1, <2>4
    <3>2. CASE q = p
      BY <1>7, <2>4, <3>1, <3>2, SaveStepSaves DEF SerialInv
    <3>3. CASE q # p
      BY <1>4, <1>5, <2>1, <2>2, <3>3
    <3> QED BY <3>2, <3>3
  <2>5. ~(phase' = "up" /\ AllIdle')
    BY <1>0, <2>1, <2>2, <2>3 DEF Turns, AllIdle, Savers
  <2> QED BY <2>3, <2>4, <2>5 DEF SerialInv
<1>8. CASE BootSaved
  <2>1. /\ hpc[Main] = "done" /\ UNCHANGED <<states, rules, disk, faults>>
        /\ \/ hpc' = [hpc EXCEPT ![Main] = "snapshot"] /\ phase' = phase
           \/ hpc' = [hpc EXCEPT ![Main] = "idle"] /\ phase' = "up"
    BY <1>8 DEF BootSaved, Goto, policyVars
  <2>2. Turns' /\ \A q \in Savers : hpc'[q] \in {"idle", "snapshot"}
    BY <1>0, <1>4, <2>1 DEF SerialInv, Turns, AllIdle, Savers
  <2>3. faults' = 0 => DiskCurrent'
    BY <1>0, <2>1 DEF SerialInv, Saved, DiskCurrent, StateCurrent, SamePolicy
  <2> QED BY <1>5, <2>2, <2>3 DEF SerialInv
<1>9. ASSUME NEW p \in Handlers, HandlerStep(p) PROVE SerialInv'
  <2>1. /\ UNCHANGED <<phase, snapS, snapR, disk, faults>>
        /\ \/ /\ phase = "up" /\ hpc[p] = "idle"
              /\ hpc' = [hpc EXCEPT ![p] = "snapshot"]
           \/ /\ hpc[p] = "done"
              /\ hpc' = [hpc EXCEPT ![p] = "idle"]
              /\ UNCHANGED <<states, rules>>
    BY <1>9, HandlerMoves
  <2>2. phase = "up" /\ hpc[Main] = "idle"
    BY <1>0, <2>1 DEF SerialInv, Turns, AllIdle
  <2>3. /\ hpc'[p] \in {"idle", "snapshot"}
        /\ \A q \in Savers : q # p => hpc'[q] = "idle"
    <3>1. \A q \in Handlers : q = p
      BY DEF OneHandler
    <3> QED BY <1>0, <2>1, <2>2, <3>1 DEF Savers
  <2>4. Turns'
    BY <1>0, <2>1, <2>2, <2>3 DEF Turns
  <2>5. faults' = 0 /\ AllIdle' => DiskCurrent'
    <3>1. CASE hpc' = [hpc EXCEPT ![p] = "snapshot"]
      BY <1>0, <3>1 DEF AllIdle
    <3>2. CASE hpc[p] = "done" /\ UNCHANGED <<states, rules>>
      BY <1>0, <2>1, <3>2
      DEF SerialInv, Saved, DiskCurrent, StateCurrent, SamePolicy
    <3> QED BY <2>1, <3>1, <3>2
  <2> QED BY <1>5, <2>3, <2>4, <2>5 DEF SerialInv
<1>10. CASE Crash
  <2>1. phase' = "down" /\ hpc' = [q \in Savers |-> "idle"]
    BY <1>10 DEF Crash, AdminCrash
  <2>2. Turns' /\ \A q \in Savers : hpc'[q] = "idle"
    BY <1>0, <2>1 DEF Turns, AllIdle
  <2> QED BY <1>5, <2>1, <2>2 DEF SerialInv
<1> QED BY <1>2, <1>3, <1>6, <1>7, <1>8, <1>9, <1>10
        DEF Next, Administer, AdminStep

LEMMA SerialInit == Init => SerialInv
<1> SUFFICES ASSUME Init PROVE SerialInv
  OBVIOUS
<1>1. /\ phase = "down" /\ \A p \in Savers : hpc[p] = "idle"
      /\ Main \in Savers /\ Handlers \subseteq Savers
  BY DEF Init, AdminInit, Savers
<1> QED BY <1>1 DEF SerialInv, Turns, AllIdle, Saved

\* When admin requests do not overlap, the files hold the policy in force
\* whenever none is being served, for any number of connections and of crashes
\* anywhere, also inside a save: main saves again before it serves
\* (config.go:42-61, main.go:47-54).
THEOREM SerialDiskCurrent == OneHandler => (Spec => []QuiescentDiskCurrent)
<1> SUFFICES ASSUME OneHandler PROVE Spec => []QuiescentDiskCurrent
  OBVIOUS
<1>1. Spec => []SerialInv
  BY SkyTapTypeCorrect, SerialInit, SerialInductive, PTL DEF Spec
<1>2. SerialInv => QuiescentDiskCurrent
  BY DEF SerialInv, DiskCurrent, StateCurrent, SamePolicy, QuiescentDiskCurrent
<1> QED BY <1>1, <1>2, PTL

\* What a start loads, seeds and promotes is accounted for.
LEMMA BootAccounted ==
    ASSUME TypeOK, AckedInv, Boot
    PROVE  AckedInv'
<1>0. /\ phase = "down" /\ phase' = "boot" /\ states' = BootStates
      /\ acked' = [h \in Hosts |->
                    IF h \in EnvHosts \/ (h = SeedHost /\ ~persistExists)
                    THEN {Effective(interceptEnv(seedStates(NoStates)), h)}
                    ELSE acked[h]]
      /\ loadedStates \in StateMap
      /\ SeedHost \in Hosts
  BY BootStatesType, AdminAssumption DEF Boot, TypeOK
<1>1. ~persistExists => loadedStates = NoStates
  BY DEF persistExists, loadedStates, Unreadable
<1>2. ASSUME NEW h \in Hosts PROVE Effective(BootStates, h) \in acked'[h]
  <2>1. CASE h \in EnvHosts
    <3>1. \A m : Effective(interceptEnv(m), h) = StateIntercepted
      BY <2>1, StateFacts, RegistryAssumption DEF Effective, interceptEnv
    <3> QED BY <1>0, <2>1, <3>1 DEF BootStates
  <2>2. CASE h \notin EnvHosts /\ ~persistExists /\ h = SeedHost
    BY <1>0, <1>1, <2>2 DEF BootStates
  <2>3. CASE h \notin EnvHosts /\ ~(~persistExists /\ h = SeedHost)
    <3>1. Effective(BootStates, h) = Effective(loadedStates, h)
      BY <1>0, <2>3
      DEF BootStates, interceptEnv, seedStates, Effective, StateMap
    <3>2. Effective(loadedStates, h) \in acked[h]
      BY <1>0 DEF AckedInv
    <3> QED BY <1>0, <2>3, <3>1, <3>2
  <2> QED BY <2>1, <2>2, <2>3
<1> QED BY <1>0, <1>2 DEF AckedInv, AckedPolicySurvives

\* Every request accounts for the states it sets.
LEMMA HandlerAccounted ==
    ASSUME TypeOK, AckedInv, phase = "up", NEW p \in Handlers, HandlerStep(p)
    PROVE  AckedInv'
<1>0. /\ states \in StateMap /\ acked \in [Hosts -> SUBSET AnyState]
      /\ HostInputs \subseteq Hosts /\ StateInputs \subseteq AnyState
      /\ Absent \notin AnyState
      /\ phase' = "up"
  BY HandlerMoves, AdminAssumption, RegistryAssumption
  DEF TypeOK, RegistryTypeOK, AdminTypeOK
<1>1. \A h \in Hosts : Effective(states, h) \in acked[h]
  BY DEF AckedInv, AckedPolicySurvives
<1>2. ASSUME \A h \in Hosts : Effective(states', h) \in acked'[h]
      PROVE  AckedInv'
  BY <1>0, <1>2 DEF AckedInv, AckedPolicySurvives
<1>3. ASSUME NEW hs, NEW s, ThenSave(p, Wants(hs, s)), NEW h \in Hosts
      PROVE  acked'[h] = IF h \in hs THEN acked[h] \cup {s} ELSE acked[h]
  BY <1>3 DEF ThenSave, Accounts, Wants
<1>4. ASSUME NEW h \in HostInputs, NEW s \in StateInputs,
             StateHandler(p, h, s) \/ McpSetState(p, h, s)
      PROVE  AckedInv'
  <2>1. ThenSave(p, Wants({h}, s)) /\ states' = [states EXCEPT ![h] = s]
    BY <1>4 DEF StateHandler, McpSetState, SetState
  <2>2. ASSUME NEW g \in Hosts PROVE Effective(states', g) \in acked'[g]
    <3>1. acked'[g] = IF g \in {h} THEN acked[g] \cup {s} ELSE acked[g]
      BY <1>3, <2>1
    <3>2. Effective(states', g) = IF g = h THEN s ELSE Effective(states, g)
      BY <1>0, <2>1 DEF Effective, StateMap
    <3> QED BY <1>1, <3>1, <3>2
  <2> QED BY <1>2, <2>2
<1>5. ASSUME NEW h \in HostInputs, DomainsHandler(p, h) PROVE AckedInv'
  <2>1. /\ ThenSave(p, Wants({h}, StateObserved))
        /\ states' = [states EXCEPT ![h] = Absent]
    BY <1>5 DEF DomainsHandler, DeleteHost
  <2>2. ASSUME NEW g \in Hosts PROVE Effective(states', g) \in acked'[g]
    <3>1. acked'[g] = IF g \in {h} THEN acked[g] \cup {StateObserved}
                                   ELSE acked[g]
      BY <1>3, <2>1
    <3>2. Effective(states', g) = IF g = h THEN StateObserved
                                           ELSE Effective(states, g)
      BY <1>0, <2>1 DEF Effective, StateMap
    <3> QED BY <1>1, <3>1, <3>2
  <2> QED BY <1>2, <2>2
<1>6. CASE HistoryAllHandler(p)
  <2>1. ThenSave(p, Wants(Hosts, StateObserved)) /\ states' = NoStates
    BY <1>6 DEF HistoryAllHandler, Reset
  <2>2. ASSUME NEW g \in Hosts PROVE Effective(states', g) \in acked'[g]
    <3>1. acked'[g] = acked[g] \cup {StateObserved}
      BY <1>3, <2>1
    <3> QED BY <2>1, <3>1 DEF Effective, NoStates
  <2> QED BY <1>2, <2>2
<1>7. ASSUME UNCHANGED states, ThenSave(p, Wants({}, StateObserved))
      PROVE  AckedInv'
  <2>1. PICK none : none = {} /\ ThenSave(p, Wants(none, StateObserved))
    BY <1>7
  <2>2. ASSUME NEW g \in Hosts PROVE Effective(states', g) \in acked'[g]
    <3>1. acked'[g] = IF g \in none THEN acked[g] \cup {StateObserved} ELSE acked[g]
      BY <1>3, <2>1
    <3>2. acked'[g] = acked[g]
      BY <2>1, <3>1
    <3>3. Effective(states', g) = Effective(states, g)
      BY <1>7
    <3> QED BY <1>1, <3>2, <3>3
  <2> QED BY <1>2, <2>2
<1>8. ASSUME NEW h \in HostInputs, HistoryFlowsHandler(p, h)
      PROVE  UNCHANGED states /\ ThenSave(p, Wants({}, StateObserved))
  BY <1>8 DEF HistoryFlowsHandler, ClearFlows, WantsNothing
<1>9. ASSUME NEW r \in RuleInputs, AddRuleHandler(p, r)
      PROVE  UNCHANGED states /\ ThenSave(p, Wants({}, StateObserved))
  BY <1>9 DEF AddRuleHandler, regVars, WantsNothing
<1>10. ASSUME NEW id \in RuleIDs, DeleteRuleHandler(p, id)
       PROVE  UNCHANGED states /\ ThenSave(p, Wants({}, StateObserved))
  BY <1>10 DEF DeleteRuleHandler, regVars, WantsNothing
<1>11. CASE Reply(p)
  <2>1. /\ states' = states
        /\ \/ acked' = [h \in Hosts |-> {Effective(states, h)}]
           \/ acked' = acked
    BY <1>11 DEF Reply, policyVars
  <2>2. ASSUME NEW g \in Hosts PROVE Effective(states', g) \in acked'[g]
    BY <1>1, <2>1
  <2> QED BY <1>2, <2>2
<1> QED
  BY <1>4, <1>5, <1>6, <1>7, <1>8, <1>9, <1>10, <1>11 DEF HandlerStep

\* A crash between saves finds the files current.
LEMMA CrashAccounted ==
    ASSUME NothingTorn, TypeOK, SerialInv, AckedInv, Crash
    PROVE  AckedInv'
<1>0. /\ hpc \in [Savers -> SavePcs \cup {"idle", "done"}]
      /\ phase \in {"boot", "up"}
      /\ faults = 0
      /\ Main \in Savers /\ Handlers \subseteq Savers
      /\ phase' = "down" /\ disk' = disk /\ acked' = acked
  BY DEF TypeOK, AdminTypeOK, NothingTorn, Crash, AdminCrash, Savers, ghostVars
<1>1. \A p \in Savers : hpc[p] \in {"idle", "done"}
  BY <1>0 DEF NothingTorn, Crash, AdminCrash
<1>2. (\E p \in Savers : hpc[p] = "done") \/ (phase = "up" /\ AllIdle)
  BY <1>0, <1>1 DEF SerialInv, Turns, AllIdle
<1>3. DiskCurrent
  BY <1>0, <1>2 DEF SerialInv, Saved
<1>4. loadedStates' = disk.state
  BY <1>0, <1>3 DEF loadedStates, DiskCurrent, StateCurrent
<1>5. \A h \in Hosts : Effective(loadedStates', h) \in acked'[h]
  BY <1>0, <1>3, <1>4
  DEF DiskCurrent, StateCurrent, SamePolicy, AckedInv, AckedPolicySurvives
<1> QED BY <1>0, <1>5 DEF AckedInv, AckedPolicySurvives

\* AckedInv is inductive together with SerialInv.
LEMMA AckedInductive ==
    ASSUME NothingTorn, TypeOK, SerialInv, AckedInv, [Next]_vars
    PROVE  AckedInv'
<1>1. ASSUME SamePolicy(states', states), UNCHANGED <<phase, acked>>,
             phase = "down" => disk' = disk
      PROVE  AckedInv'
  BY <1>1 DEF AckedInv, AckedPolicySurvives, SamePolicy, loadedStates
<1>2. CASE UNCHANGED vars
  BY <1>1, <1>2 DEF vars, adminVars, SamePolicy
<1>3. ASSUME NEW c \in Conns, Serve(c) PROVE AckedInv'
  BY <1>1, <1>3, ServeKeepsPolicy DEF Serve, adminVars
<1>4. ASSUME NEW p \in Savers, SaveStep(p) PROVE AckedInv'
  <2>1. hpc[p] # "idle" /\ UNCHANGED <<states, phase, acked>>
    BY <1>4 DEF SaveStep, SaveSnapshot, SaveOpenState, SaveWriteState, SaveAll,
           SaveOpenRules, SaveWriteRules, SaveFails, SaveFrame, policyVars,
           ghostVars
  <2>2. phase # "down"
    BY <2>1 DEF SerialInv, Turns, AllIdle, Savers
  <2> QED BY <1>1, <2>1, <2>2 DEF SamePolicy
<1>5. CASE BootSaved
  <2>1. /\ states' = states /\ disk' = disk
        /\ \/ UNCHANGED <<phase, acked>>
           \/ phase' = "up" /\ acked' = [h \in Hosts |-> {Effective(states, h)}]
    BY <1>5 DEF BootSaved, policyVars
  <2>2. CASE UNCHANGED <<phase, acked>>
    BY <1>1, <2>1, <2>2 DEF SamePolicy
  <2>3. CASE phase' = "up" /\ acked' = [h \in Hosts |-> {Effective(states, h)}]
    BY <2>1, <2>3 DEF AckedInv, AckedPolicySurvives
  <2> QED BY <2>1, <2>2, <2>3
<1>6. ASSUME NEW p \in Handlers, HandlerStep(p) PROVE AckedInv'
  <2>1. phase = "up"
    BY <1>6, HandlerMoves DEF SerialInv, Turns, AllIdle
  <2> QED BY <1>6, <2>1, HandlerAccounted
<1> QED BY <1>2, <1>3, <1>4, <1>5, <1>6, BootAccounted, CrashAccounted
        DEF Next, Administer, AdminStep

LEMMA AckedInit == Init => AckedInv
<1> SUFFICES ASSUME Init PROVE AckedInv
  OBVIOUS
<1>1. PICK s \in InitialStates, r \in InitialRules :
          /\ disk = [state |-> s, rules |-> r]
          /\ acked = [h \in Hosts |-> IF s = NoFile THEN {StateObserved}
                                                    ELSE {Effective(s, h)}]
  BY DEF Init, AdminInit
<1>2. loadedStates = IF s = NoFile THEN NoStates ELSE s
  BY <1>1, AdminAssumption DEF loadedStates, Unreadable
<1>3. \A h \in Hosts : Effective(NoStates, h) = StateObserved
  BY DEF Effective, NoStates
<1>4. phase = "down"
  BY DEF Init, AdminInit
<1> QED BY <1>1, <1>2, <1>3, <1>4 DEF AckedInv, AckedPolicySurvives

\* When admin requests do not overlap, no system call fails and the program
\* dies between saves only, every state in force, also after any number of
\* restarts, is one that an answered or a running request accounts for: what
\* loadPersist reads back is what savePersist was last asked to keep
\* (config.go:19-61).  The run torn_file shows that a crash inside a save
\* breaks this.
THEOREM SerialPolicySurvives ==
    OneHandler /\ NothingTorn => (Spec => []AckedPolicySurvives)
<1> SUFFICES ASSUME OneHandler, NothingTorn
             PROVE  Spec => []AckedPolicySurvives
  OBVIOUS
<1>1. Spec => []SerialInv
  BY SkyTapTypeCorrect, SerialInit, SerialInductive, PTL DEF Spec
<1>2. Spec => []AckedInv
  BY <1>1, SkyTapTypeCorrect, AckedInit, AckedInductive, PTL DEF Spec
<1>3. AckedInv => AckedPolicySurvives
  BY DEF AckedInv
<1> QED BY <1>2, <1>3, PTL

=============================================================================
