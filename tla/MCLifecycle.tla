---------------------------- MODULE MCLifecycle ----------------------------
(* One instance of Lifecycle: two requests at a time, a restart by systemd *)
(* and one by the operator. *)
EXTENDS Lifecycle

CONSTANTS w1, w2
MCWorkers == {w1, w2}

=============================================================================
