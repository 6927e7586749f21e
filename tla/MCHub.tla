------------------------------- MODULE MCHub -------------------------------
(* Values of Hub's constants for TLC.                                      *)
EXTENDS Hub

NoOldFlows  == [h \in FlowHosts |-> <<>>]
OneOldFlow  == [h \in FlowHosts |-> <<[id |-> 1, host |-> h]>>]

=============================================================================
