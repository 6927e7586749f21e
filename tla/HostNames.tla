----------------------------- MODULE HostNames -----------------------------
(***************************************************************************)
(* Host names.  The registry compares them byte by byte (they are the keys *)
(* of Go maps), the rule engine with strings.EqualFold: two spellings of   *)
(* one name have the same Fold.                                            *)
(***************************************************************************)
CONSTANTS Hosts,      \* host names, the empty name included
          EmptyHost,  \* ""
          Fold        \* Fold[h]: the representative of h's spellings

ASSUME HostNamesAssumption ==
    /\ EmptyHost \in Hosts
    /\ Fold \in [Hosts -> Hosts]

=============================================================================
