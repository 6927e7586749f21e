--------------------------- MODULE MCRegistryLog ---------------------------
(* Model of RegistryLog for TLC: one named host beside the empty name.     *)
EXTENDS RegistryLog

IdFold == [h \in Hosts |-> h]

=============================================================================
