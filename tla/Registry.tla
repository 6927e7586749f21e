------------------------------ MODULE Registry ------------------------------
(***************************************************************************)
(* The domain registry (registry.go): the policy state of every known      *)
(* host, its hit counter and the ring of its most recent flows.  Every     *)
(* method of the Go type holds Registry.mu from its first access to its    *)
(* return, so each is one atomic operator here; callers that use two       *)
(* methods in a row (App.OnConnect, the WebSocket snapshot, savePersist)   *)
(* take two steps.                                                         *)
(*                                                                         *)
(* A Go map is a total function: a missing key of `states' is Absent, a    *)
(* missing key of `hits' is 0 and of `flows' is <<>>, which is what        *)
(* indexing those maps yields.                                             *)
(***************************************************************************)
EXTENDS Integers, Sequences, HostNames

CONSTANTS OtherStates,  \* strings that are not one of the three DomainStates
          Absent,       \* no entry in the map
          RingN         \* flows kept per host (64 in NewRegistry)

StateObserved    == "OBSERVED"
StateIntercepted == "INTERCEPTED"
StateMocked      == "MOCKED"

DomainStates == {StateObserved, StateIntercepted, StateMocked}
Promoted     == {StateIntercepted, StateMocked}

\* DomainState is a Go string type: nothing but the callers restricts it.
AnyState == DomainStates \cup OtherStates

ASSUME RegistryAssumption ==
    /\ RingN \in Nat \ {0}
    /\ OtherStates \cap DomainStates = {}
    /\ Absent \notin AnyState

\* gomitm.Flow, reduced to the fields the properties tell apart.
Flow == [host: Hosts, mocked: BOOLEAN]

StateMap == [Hosts -> AnyState \cup {Absent}]

VARIABLES states, hits, flows

regVars == <<states, hits, flows>>

NoStates == [h \in Hosts |-> Absent]

NewRegistry ==
    /\ states = NoStates
    /\ hits   = [h \in Hosts |-> 0]
    /\ flows  = [h \in Hosts |-> <<>>]

-----------------------------------------------------------------------------
(* Methods that read.                                                      *)

State(h) == IF states[h] = Absent THEN StateObserved ELSE states[h]

\* Domains: the hosts that /domains, /flows and the WebSocket snapshot list.
Domains == {h \in Hosts : states[h] # Absent}

-----------------------------------------------------------------------------
(* Methods that write.                                                     *)

Observe(h) ==
    IF h = EmptyHost
    THEN UNCHANGED regVars
    ELSE /\ states' = [states EXCEPT ![h] = IF @ = Absent THEN StateObserved
                                                          ELSE @]
         /\ hits' = [hits EXCEPT ![h] = @ + 1]
         /\ UNCHANGED flows

SetState(h, s) ==
    /\ states' = [states EXCEPT ![h] = s]
    /\ UNCHANGED <<hits, flows>>

\* Fault variant: the ring is never cut.
PushUncut(ring, f) == Append(ring, f)

\* Fault variant: the cut keeps the oldest flows instead of the newest.
PushKeepsOldest(ring, f) ==
    LET buf == Append(ring, f)
    IN  IF Len(buf) > RingN THEN SubSeq(buf, 1, RingN) ELSE buf

\* buf = append(buf, f), cut to its last RingN elements.
Push(ring, f) ==
    LET buf == Append(ring, f)
    IN  IF Len(buf) > RingN
        THEN SubSeq(buf, Len(buf) - RingN + 1, Len(buf))
        ELSE buf

AddFlow(f) ==
    /\ flows' = [flows EXCEPT ![f.host] = Push(@, f)]
    /\ UNCHANGED <<states, hits>>

\* Fault variant: the hit counter of a forgotten host survives.
DeleteHostKeepsHits(h) ==
    IF h = EmptyHost
    THEN UNCHANGED regVars
    ELSE /\ states' = [states EXCEPT ![h] = Absent]
         /\ flows'  = [flows  EXCEPT ![h] = <<>>]
         /\ UNCHANGED hits

DeleteHost(h) ==
    IF h = EmptyHost
    THEN UNCHANGED regVars
    ELSE /\ states' = [states EXCEPT ![h] = Absent]
         /\ hits'   = [hits   EXCEPT ![h] = 0]
         /\ flows'  = [flows  EXCEPT ![h] = <<>>]

\* ClearFlows("") empties the ring of every host.
ClearFlows(h) ==
    /\ flows' = IF h = EmptyHost THEN [g \in Hosts |-> <<>>]
                                 ELSE [flows EXCEPT ![h] = <<>>]
    /\ UNCHANGED <<states, hits>>

Reset ==
    /\ states' = NoStates
    /\ hits'   = [h \in Hosts |-> 0]
    /\ flows'  = [h \in Hosts |-> <<>>]

-----------------------------------------------------------------------------

RegistryTypeOK ==
    /\ states \in StateMap
    /\ hits \in [Hosts -> Nat]
    /\ flows \in [Hosts -> Seq(Flow)]
    /\ \A h \in Hosts : Len(flows[h]) <= RingN

=============================================================================
