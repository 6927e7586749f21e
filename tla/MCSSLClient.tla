---------------------------- MODULE MCSSLClient ----------------------------
(* Values of SSLClient's constants for TLC. *)
EXTENDS SSLClient, TLC

ImpOn == [kit |-> FALSE, impersonate |-> TRUE, pin |-> "off", verify |-> "ca"]

Nothing    == [k \in {} |-> {}]
LongerOnly == {ConfText(L, [x \in L |-> ImpOn]) : L \in {{"b"}, {}}}

\* The name of b begins with the name of a.
BBeginsWithA == {<<"b", "a">>}
CONSTANTS c1, c2   \* the certificates of a and of b
OwnCerts == {<<"a", c1>>, <<"b", c2>>}

\* Threads and SSL objects are interchangeable.
ClientSymmetry == Permutations(Threads) \cup Permutations(Ssls)

=============================================================================
