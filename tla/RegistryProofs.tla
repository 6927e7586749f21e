--------------------------- MODULE RegistryProofs ---------------------------
(***************************************************************************)
(* Proofs, for every set of hosts and every ring size, of the invariants   *)
(* that the run of RegistryLog checks on a small instance.                 *)
(***************************************************************************)
EXTENDS RegistryLog, AppLemmas

\* Appending to a ring and cutting it to RingN (AddFlow) keeps the newest
\* elements, and no more of them than fit.
LEMMA PushKeepsNewest ==
    ASSUME NEW ring \in Seq(Flow), NEW lg \in Seq(Flow), NEW f \in Flow,
           IsNewest(ring, lg)
    PROVE  IsNewest(Push(ring, f), Append(lg, f))
<1> DEFINE buf == Append(ring, f)
           nlg == Append(lg, f)
<1>1. Len(buf) = Len(ring) + 1 /\ Len(nlg) = Len(lg) + 1
  OBVIOUS
<1>2. Len(ring) \in Nat /\ Len(lg) \in Nat /\ Len(ring) <= Len(lg)
  BY RingNPositive DEF IsNewest
<1>3. \A i \in 1..Len(buf) : buf[i] = nlg[Len(nlg) - Len(buf) + i]
  <2> SUFFICES ASSUME NEW i \in 1..Len(buf)
               PROVE  buf[i] = nlg[Len(nlg) - Len(buf) + i]
    OBVIOUS
  <2>1. Len(nlg) - Len(buf) + i = Len(lg) - Len(ring) + i
    BY <1>1, <1>2
  <2>2. CASE i = Len(buf)
    <3>1. buf[Len(ring) + 1] = f /\ nlg[Len(lg) + 1] = f
      BY <1>2
    <3>2. Len(lg) - Len(ring) + i = Len(lg) + 1 /\ i = Len(ring) + 1
      BY <1>1, <1>2, <2>2
    <3> QED BY <2>1, <3>1, <3>2
  <2>3. CASE i # Len(buf)
    <3> DEFINE j == Len(lg) - Len(ring) + i
    <3>1. i \in 1..Len(ring) /\ j \in 1..Len(lg)
      BY <1>1, <1>2, <2>3
    <3>2. ring[i] = lg[j]
      BY <3>1 DEF IsNewest
    <3>3. buf[i] = ring[i] /\ nlg[j] = lg[j]
      BY <3>1
    <3> QED BY <2>1, <3>2, <3>3
  <2> QED BY <2>2, <2>3
<1>4. CASE Len(buf) > RingN
  <2>1. Push(ring, f) = SubSeq(buf, Len(buf) - RingN + 1, Len(buf))
    BY <1>4 DEF Push
  <2>2. Len(ring) = RingN /\ Len(nlg) > RingN
    BY <1>1, <1>2, <1>4, RingNPositive DEF IsNewest
  <2>3. SubSeq(buf, Len(buf) - RingN + 1, Len(buf)) = SubSeq(buf, 2, RingN + 1)
    BY <1>1, <2>2, RingNPositive
  <2>4. \A i \in 1..RingN : SubSeq(buf, 2, RingN + 1)[i] = buf[i + 1]
    BY <1>1, <2>2, RingNPositive
  <2>5. Len(SubSeq(buf, 2, RingN + 1)) = RingN
    BY <1>1, <2>2, RingNPositive
  <2>6. \A i \in 1..RingN : buf[i + 1] = nlg[Len(nlg) - RingN + i]
    <3> SUFFICES ASSUME NEW i \in 1..RingN
                 PROVE  buf[i + 1] = nlg[Len(nlg) - RingN + i]
      OBVIOUS
    <3> HIDE DEF buf, nlg
    <3>1. Len(nlg) \in Nat /\ Len(buf) = RingN + 1
      BY <1>1, <1>2, <2>2
    <3>2. i + 1 \in 1..Len(buf)
      BY <3>1, RingNPositive
    <3>3. Len(nlg) - (RingN + 1) + (i + 1) = Len(nlg) - RingN + i
      BY <3>1, RingNPositive
    <3> QED BY <1>3, <3>1, <3>2, <3>3
  <2>7. Push(ring, f) = SubSeq(buf, 2, RingN + 1)
    BY <2>1, <2>3
  <2> HIDE DEF buf, nlg
  <2>8. IsNewest(SubSeq(buf, 2, RingN + 1), nlg)
    BY <2>2, <2>4, <2>5, <2>6 DEF IsNewest
  <2> QED BY <2>7, <2>8 DEF nlg
<1>5. CASE ~(Len(buf) > RingN)
  <2>1. Push(ring, f) = buf
    BY <1>5 DEF Push
  <2>2. Len(ring) = Len(lg) /\ ~(Len(nlg) > RingN)
    BY <1>1, <1>2, <1>5, RingNPositive DEF IsNewest
  <2> QED BY <1>1, <1>3, <2>1, <2>2 DEF IsNewest
<1> QED BY <1>4, <1>5

\* A cleared ring (DeleteHost, ClearFlows, Reset) agrees with a cleared log.
LEMMA EmptyIsNewest == IsNewest(<<>>, <<>>)
BY RingNPositive DEF IsNewest

\* Every method of the registry preserves the type of its maps and the log.
LEMMA RegistryTypeInductive ==
    TypeOK /\ [Next]_vars => TypeOK'
<1> SUFFICES ASSUME TypeOK, [Next]_vars PROVE TypeOK'
  OBVIOUS
<1> USE DEF TypeOK
<1>1. ASSUME NEW h \in Hosts, ObserveStep(h) PROVE TypeOK'
  BY <1>1, ObserveType DEF ObserveStep
<1>2. ASSUME NEW h \in Hosts, NEW s \in AnyState, SetStateStep(h, s)
      PROVE  TypeOK'
  BY <1>2, SetStateType DEF SetStateStep
<1>3. ASSUME NEW f \in Flow, AddFlowStep(f) PROVE TypeOK'
  <2>1. f.host \in Hosts /\ log[f.host] \in Seq(Flow)
    BY DEF Flow
  <2>2. log' \in [Hosts -> Seq(Flow)]
    BY <1>3, <2>1 DEF AddFlowStep
  <2> QED BY <1>3, <2>2, AddFlowType DEF AddFlowStep
<1>4. ASSUME NEW h \in Hosts, DeleteHostStep(h) PROVE TypeOK'
  <2>1. log' \in [Hosts -> Seq(Flow)]
    BY <1>4 DEF DeleteHostStep
  <2> QED BY <1>4, <2>1, DeleteHostType DEF DeleteHostStep
<1>5. ASSUME NEW h \in Hosts, ClearFlowsStep(h) PROVE TypeOK'
  <2>1. log' \in [Hosts -> Seq(Flow)]
    BY <1>5 DEF ClearFlowsStep
  <2> QED BY <1>5, <2>1, ClearFlowsType DEF ClearFlowsStep
<1>6. CASE ResetStep
  BY <1>6, EmptiedType DEF ResetStep, Reset
<1>7. CASE UNCHANGED vars
  BY <1>7 DEF vars, RegistryTypeOK
<1> QED BY <1>1, <1>2, <1>3, <1>4, <1>5, <1>6, <1>7 DEF Next

\* The registry maps keep their types, and no ring ever exceeds RingN,
\* whatever sequence of calls the goroutines make.
THEOREM RegistryTypeCorrect == Spec => []TypeOK
<1>1. Init => TypeOK
  BY NewRegistryType DEF Init, TypeOK
<1> QED BY <1>1, RegistryTypeInductive, PTL DEF Spec

\* The ring of a host (AddFlow) always holds exactly the newest flows.
THEOREM RingCorrect == Spec => []RingIsNewestFlows
<1>1. Init => RingIsNewestFlows
  BY EmptyIsNewest DEF Init, NewRegistry, RingIsNewestFlows
<1>2. TypeOK /\ RingIsNewestFlows /\ [Next]_vars => RingIsNewestFlows'
  <2> SUFFICES ASSUME TypeOK, RingIsNewestFlows, [Next]_vars
               PROVE  RingIsNewestFlows'
    OBVIOUS
  <2> USE EmptyIsNewest
  <2>1. ASSUME NEW f \in Flow, AddFlowStep(f) PROVE RingIsNewestFlows'
    <3>1. /\ f.host \in Hosts
          /\ log[f.host] \in Seq(Flow) /\ flows[f.host] \in Seq(Flow)
      BY DEF Flow, TypeOK, RegistryTypeOK
    <3>2. /\ log' = [log EXCEPT ![f.host] = Append(log[f.host], f)]
          /\ flows' = [flows EXCEPT ![f.host] = Push(flows[f.host], f)]
      BY <2>1 DEF AddFlowStep, AddFlow
    <3>3. IsNewest(Push(flows[f.host], f), Append(log[f.host], f))
      BY <3>1, PushKeepsNewest DEF RingIsNewestFlows
    <3> QED
      BY <3>1, <3>2, <3>3 DEF RingIsNewestFlows, TypeOK, RegistryTypeOK
  <2>2. ASSUME NEW h \in Hosts, ObserveStep(h) PROVE RingIsNewestFlows'
    BY <2>2 DEF ObserveStep, Observe, regVars, RingIsNewestFlows
  <2>3. ASSUME NEW h \in Hosts, NEW s \in AnyState, SetStateStep(h, s)
        PROVE  RingIsNewestFlows'
    BY <2>3 DEF SetStateStep, SetState, RingIsNewestFlows
  <2>4. ASSUME NEW h \in Hosts, DeleteHostStep(h) PROVE RingIsNewestFlows'
    <3>1. CASE h = EmptyHost
      BY <2>4, <3>1 DEF DeleteHostStep, DeleteHost, regVars, RingIsNewestFlows
    <3>2. CASE h # EmptyHost
      <4>1. flows' = [flows EXCEPT ![h] = <<>>] /\ log' = [log EXCEPT ![h] = <<>>]
        BY <2>4, <3>2 DEF DeleteHostStep, DeleteHost
      <4> QED BY <4>1 DEF RingIsNewestFlows, TypeOK, RegistryTypeOK
    <3> QED BY <3>1, <3>2
  <2>5. ASSUME NEW h \in Hosts, ClearFlowsStep(h) PROVE RingIsNewestFlows'
    BY <2>5 DEF ClearFlowsStep, ClearFlows, RingIsNewestFlows,
                TypeOK, RegistryTypeOK
  <2>6. CASE ResetStep
    BY <2>6 DEF ResetStep, Reset, RingIsNewestFlows
  <2>7. CASE UNCHANGED vars
    BY <2>7 DEF vars, RingIsNewestFlows
  <2> QED BY <2>1, <2>2, <2>3, <2>4, <2>5, <2>6, <2>7 DEF Next
<1> QED BY <1>1, <1>2, RegistryTypeCorrect, PTL DEF Spec

\* A host that no map entry lists has hit count zero: DeleteHost and Reset
\* drop the counter together with the entry, Observe creates both at once.
THEOREM HitsCorrect == Spec => []HitsOnlyForListed
<1>1. Init => HitsOnlyForListed
  BY DEF Init, NewRegistry, HitsOnlyForListed
<1>2. TypeOK /\ HitsOnlyForListed /\ [Next]_vars => HitsOnlyForListed'
  <2> SUFFICES ASSUME TypeOK, HitsOnlyForListed, [Next]_vars
               PROVE  HitsOnlyForListed'
    OBVIOUS
  <2> USE RegistryAssumption
      DEF TypeOK, RegistryTypeOK, HitsOnlyForListed, StateMap, AnyState,
          DomainStates, StateObserved
  <2>1. ASSUME NEW h \in Hosts, ObserveStep(h) PROVE HitsOnlyForListed'
    BY <2>1 DEF ObserveStep, Observe, regVars
  <2>2. ASSUME NEW h \in Hosts, NEW s \in AnyState, SetStateStep(h, s)
        PROVE  HitsOnlyForListed'
    BY <2>2 DEF SetStateStep, SetState
  <2>3. ASSUME NEW f \in Flow, AddFlowStep(f) PROVE HitsOnlyForListed'
    BY <2>3 DEF AddFlowStep, AddFlow
  <2>4. ASSUME NEW h \in Hosts, DeleteHostStep(h) PROVE HitsOnlyForListed'
    BY <2>4 DEF DeleteHostStep, DeleteHost, regVars
  <2>5. ASSUME NEW h \in Hosts, ClearFlowsStep(h) PROVE HitsOnlyForListed'
    BY <2>5 DEF ClearFlowsStep, ClearFlows
  <2>6. CASE ResetStep
    BY <2>6 DEF ResetStep, Reset, NoStates
  <2>7. CASE UNCHANGED vars
    BY <2>7 DEF vars
  <2> QED BY <2>1, <2>2, <2>3, <2>4, <2>5, <2>6, <2>7 DEF Next
<1> QED BY <1>1, <1>2, RegistryTypeCorrect, PTL DEF Spec

=============================================================================
