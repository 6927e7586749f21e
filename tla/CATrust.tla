------------------------------ MODULE CATrust ------------------------------
(***************************************************************************)
(* Trust in SkyTap's CA on the machine it runs on (ca_trust.go).           *)
(* installCATrust is run by a request POST /ca/trust, or by main at a      *)
(* start that finds the marker (restoreCATrust).  It is a sequence of      *)
(* system calls that no lock spans:                                        *)
(*                                                                         *)
(*     anchorOpen    os.WriteFile(CertPath): open, truncating the file     *)
(*     anchorWrite   ... and write the certificate                         *)
(*     markerOpen    os.WriteFile(ca-trusted): errors are ignored          *)
(*     markerWrite                                                         *)
(*     refresh       update-ca-certificates, update-ca-trust: the tool     *)
(*                   reads the anchors                                     *)
(*     install       ... and puts the bundle it made of them in place      *)
(*                                                                         *)
(* TLS clients read the bundle, caStatus only looks for the file.  Which   *)
(* family of systems the machine belongs to only chooses the path and the  *)
(* command.                                                                *)
(***************************************************************************)
EXTENDS Integers

VARIABLES
    anchor,    \* the file at CertPath: "none", "torn" (truncated), "part" (a
               \* beginning of the certificate) or "ca"
    bundle,    \* does the system's bundle hold the CA?
    marker,    \* the file ca-trusted: "none", "torn" or "1"
    tpc,       \* tpc[p]: where goroutine p is in installCATrust
    saw,       \* saw[p]: the refresh that p runs has read the certificate
    lone,      \* history: no other installation ran beside p's
    unsure,    \* history: the last installation to end returned an error, or
               \* ran beside another
    answered   \* history: one was answered as done on this machine

trustVars == <<anchor, bundle, marker, tpc, saw, lone, unsure, answered>>

TrustPcs == {"anchorOpen", "anchorWrite", "markerOpen", "markerWrite",
             "refresh", "install"}

TrustInit(Procs) ==
    /\ anchor = "none" /\ bundle = FALSE /\ marker = "none"
    /\ tpc = [p \in Procs |-> "idle"]
    /\ saw = [p \in Procs |-> FALSE]
    /\ lone = [p \in Procs |-> TRUE]
    /\ unsure = FALSE /\ answered = FALSE

Installing == {p \in DOMAIN tpc : tpc[p] # "idle"}

\* The two things caStatus reports: a file that begins like a certificate is
\* in place, and the certificate is to be restored at a start.
installed == anchor \in {"part", "ca"}
wantTrust == marker = "1"

InstallCall(p) ==
    /\ tpc[p] = "idle"
    /\ tpc' = [tpc EXCEPT ![p] = "anchorOpen"]
    /\ lone' = [q \in DOMAIN lone |->
                   q \in Installing \cup {p} => Installing = {}]
    /\ UNCHANGED <<anchor, bundle, marker, saw, unsure, answered>>

\* One call of p's installation succeeds.
InstallStep(p, from, to) ==
    /\ tpc[p] = from
    /\ tpc' = [tpc EXCEPT ![p] = to]
    /\ UNCHANGED <<lone, unsure, answered>>

AnchorOpen(p) ==
    /\ InstallStep(p, "anchorOpen", "anchorWrite")
    /\ anchor' = "torn"
    /\ UNCHANGED <<bundle, marker, saw>>

\* The certificate need not reach the disk at once.
AnchorPart(p) ==
    /\ InstallStep(p, "anchorWrite", "anchorWrite")
    /\ anchor = "torn" /\ anchor' = "part"
    /\ UNCHANGED <<bundle, marker, saw>>

AnchorWrite(p) ==
    /\ InstallStep(p, "anchorWrite", "markerOpen")
    /\ anchor' = "ca"
    /\ UNCHANGED <<bundle, marker, saw>>

MarkerOpen(p) ==
    /\ InstallStep(p, "markerOpen", "markerWrite")
    /\ marker' = "torn"
    /\ UNCHANGED <<anchor, bundle, saw>>

MarkerWrite(p) ==
    /\ InstallStep(p, "markerWrite", "refresh")
    /\ marker' = "1"
    /\ UNCHANGED <<anchor, bundle, saw>>

RefreshRead(p) ==
    /\ InstallStep(p, "refresh", "install")
    /\ saw' = [saw EXCEPT ![p] = (anchor = "ca")]
    /\ UNCHANGED <<anchor, bundle, marker>>

\* p's installation ends and returns err.
InstallEnds(p, err) ==
    /\ tpc' = [tpc EXCEPT ![p] = "idle"]
    /\ saw' = [saw EXCEPT ![p] = FALSE]
    /\ lone' = [lone EXCEPT ![p] = TRUE]
    /\ unsure' = (err \/ ~lone[p])
    /\ answered' = (answered \/ ~err)

RefreshInstall(p) ==
    /\ tpc[p] = "install"
    /\ bundle' = saw[p]
    /\ InstallEnds(p, FALSE)
    /\ UNCHANGED <<anchor, marker>>

\* A call fails, or the refresh does, before or after it has changed the
\* bundle: installCATrust returns the error.
InstallFails(p) ==
    /\ tpc[p] \in TrustPcs \ {"markerWrite"}
    /\ \/ UNCHANGED bundle
       \/ tpc[p] = "install" /\ bundle' = saw[p]
    /\ InstallEnds(p, TRUE)
    /\ UNCHANGED <<anchor, marker>>

\* The marker cannot be opened or written: the error is ignored.
MarkerFails(p) ==
    /\ \/ InstallStep(p, "markerOpen", "refresh")
       \/ InstallStep(p, "markerWrite", "refresh")
    /\ UNCHANGED <<anchor, bundle, marker, saw>>

installCATrust(p) ==
    \/ AnchorOpen(p) \/ AnchorPart(p) \/ AnchorWrite(p)
    \/ MarkerOpen(p) \/ MarkerWrite(p)
    \/ RefreshRead(p) \/ RefreshInstall(p)

\* The process dies: installations end where they are.
TrustDeath ==
    /\ tpc' = [p \in DOMAIN tpc |-> "idle"]
    /\ saw' = [p \in DOMAIN saw |-> FALSE]
    /\ lone' = [p \in DOMAIN lone |-> TRUE]
    /\ UNCHANGED <<anchor, bundle, marker, unsure, answered>>

\* The machine, or the container, is made anew around the data directory.
TrustRecreated ==
    /\ anchor' = "none" /\ bundle' = FALSE /\ answered' = FALSE
    /\ UNCHANGED <<marker, tpc, saw, lone, unsure>>

TrustTypeOK(Procs) ==
    /\ anchor \in {"none", "torn", "part", "ca"}
    /\ marker \in {"none", "torn", "1"}
    /\ bundle \in BOOLEAN /\ unsure \in BOOLEAN /\ answered \in BOOLEAN
    /\ tpc \in [Procs -> TrustPcs \cup {"idle"}]
    /\ saw \in [Procs -> BOOLEAN] /\ lone \in [Procs -> BOOLEAN]

=============================================================================
