------------------------------ MODULE MCSSLKit ------------------------------
(* Values of SSLKit's constants for TLC. *)
EXTENDS SSLKit, TLC

\* "A" is another spelling of "a"; a name of blanks is trimmed to "".
MCNorm == [n \in Names |-> CASE n = "A" -> "a" [] n = "blank" -> NoHost
                             [] OTHER -> n]

WorkerSymmetry == Permutations(Workers)

Blank == [kit |-> FALSE, impersonate |-> FALSE, pin |-> "", verify |-> "",
          captured |-> FALSE, cert |-> NoCert]
KitOn == [Blank EXCEPT !.kit = TRUE, !.pin = "on", !.captured = TRUE]
ImpOn == [Blank EXCEPT !.impersonate = TRUE, !.verify = "none"]

SavedByPage   == {Blank, KitOn, ImpOn}
\* A request may also bring a certificate of its own.
WithCert      == SavedByPage \cup {[KitOn EXCEPT !.cert = c] : c \in Certs}

=============================================================================
