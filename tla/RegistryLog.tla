---------------------------- MODULE RegistryLog ----------------------------
(***************************************************************************)
(* The registry on its own, called in any order by any number of           *)
(* goroutines (its methods are atomic), with a history variable: log[h]    *)
(* is every flow recorded for h since its flows were last cleared.         *)
(***************************************************************************)
EXTENDS Registry

CONSTANTS MaxSeen,   \* bound on a host's hit counter
          MaxLog     \* bound on the length of a host's log

ASSUME RegistryLogAssumption == MaxSeen \in Nat /\ MaxLog \in Nat

VARIABLE log

vars == <<states, hits, flows, log>>

Init ==
    /\ NewRegistry
    /\ log = [h \in Hosts |-> <<>>]

ObserveStep(h) ==
    /\ hits[h] < MaxSeen
    /\ Observe(h)
    /\ UNCHANGED log

SetStateStep(h, s) ==
    /\ SetState(h, s)
    /\ UNCHANGED log

AddFlowStep(f) ==
    /\ Len(log[f.host]) < MaxLog
    /\ AddFlow(f)
    /\ log' = [log EXCEPT ![f.host] = Append(@, f)]

DeleteHostStep(h) ==
    /\ DeleteHost(h)
    /\ log' = IF h = EmptyHost THEN log ELSE [log EXCEPT ![h] = <<>>]

ClearFlowsStep(h) ==
    /\ ClearFlows(h)
    /\ log' = IF h = EmptyHost THEN [g \in Hosts |-> <<>>]
                               ELSE [log EXCEPT ![h] = <<>>]

ResetStep ==
    /\ Reset
    /\ log' = [h \in Hosts |-> <<>>]

Next ==
    \/ \E h \in Hosts : \/ ObserveStep(h)
                        \/ DeleteHostStep(h)
                        \/ ClearFlowsStep(h)
                        \/ \E s \in AnyState : SetStateStep(h, s)
    \/ \E f \in Flow : AddFlowStep(f)
    \/ ResetStep

Spec == Init /\ [][Next]_vars

-----------------------------------------------------------------------------

\* Every variable has its type: the maps, and rings no longer than RingN.
TypeOK ==
    /\ RegistryTypeOK
    /\ log \in [Hosts -> Seq(Flow)]

\* ring holds the newest elements of lg, as many as fit, oldest first.
IsNewest(ring, lg) ==
    /\ Len(ring) = IF Len(lg) > RingN THEN RingN ELSE Len(lg)
    /\ \A i \in 1..Len(ring) : ring[i] = lg[Len(lg) - Len(ring) + i]

\* What /flows?host= shows is exactly the newest flows of that host, in the
\* order they were recorded, as many as fit in the ring: AddFlow's cut drops
\* only from the old end, and only when the ring is full (registry.go,
\* AddFlow).
RingIsNewestFlows == \A h \in Hosts : IsNewest(flows[h], log[h])

\* A host that is not listed has no hits: forgetting a host (DeleteHost) or
\* everything (Reset) forgets its counter too, so a host that comes back is
\* counted from zero, and Observe lists a host in the same critical section
\* that counts it.
HitsOnlyForListed ==
    \A h \in Hosts : states[h] = Absent => hits[h] = 0

=============================================================================
