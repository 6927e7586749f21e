----------------------------- MODULE Lifecycle -----------------------------
(***************************************************************************)
(* A run of the program from its start to its end, under the systemd unit  *)
(* that install.sh writes: main (main.go), the goroutine that waits for a  *)
(* signal, the goroutine that serves the administration, and the requests  *)
(* it serves that touch the files main reads at its next start: the trust  *)
(* in the CA (CATrust) and the switch of the pin lab (PinBypass).          *)
(*                                                                         *)
(* What survives a run is the kernel's table of redirected ports, which    *)
(* main fills before anything listens on the port they are redirected to.  *)
(***************************************************************************)
EXTENDS CATrust, PinBypass

CONSTANTS
    Main,         \* the main goroutine
    Workers,      \* goroutines that serve administration requests
    MaxRequests,  \* bound: requests that change the trust or the switch
    MaxStarts,    \* bound: systemctl start
    MaxFaults,    \* bound: crashes, log.Fatal calls, failing system calls
    MaxRecreated, \* bound: the machine made anew around the data directory
    StartLimit    \* systemd's StartLimitBurst

ASSUME LifecycleAssumption == Main \notin Workers

Procs == {Main} \cup Workers

VARIABLES
    mpc,       \* where main is; "down" when there is no process
    sig,       \* the signal goroutine
    adm,       \* the administration goroutine: "none", "starting", "serving"
    captured,  \* the kernel redirects the captured ports to SkyTap
    want,      \* the operator wants the service to run
    stop,      \* systemd's stop job: "no", "execStop", "term", "sent"
    how,       \* how the last process ended; "limited" when systemd has given
               \* the unit up
    quick,     \* systemd's count of starts within StartLimitIntervalSec
    spent      \* the bounded counters

lifeVars == <<mpc, sig, adm, captured, want, stop, how, quick>>
vars == <<trustVars, pinVars, lifeVars, spent>>

Init ==
    /\ TrustInit(Procs) /\ PinInit(Workers)
    /\ mpc = "down" /\ sig = "none" /\ adm = "none"
    /\ captured = FALSE /\ want = FALSE /\ stop = "no" /\ how = "none"
    /\ quick = 0
    /\ spent = [requests |-> 0, starts |-> 0, faults |-> 0, recreated |-> 0]

Spend(what, max) ==
    /\ spent[what] < max
    /\ spent' = [spent EXCEPT ![what] = @ + 1]

-----------------------------------------------------------------------------
(* main, in its order *)

MainAt(from, to) == mpc = from /\ mpc' = to

\* The CA, the registry, the rules, the kit and the switch are read.
Load ==
    /\ MainAt("load", "trust")
    /\ pin' = loadPinBypass
    /\ UNCHANGED <<trustVars, pinFile, ppc, setting, alone, pinOk, sig, adm,
                   captured, want, stop, how, quick, spent>>

\* Fault variant: nothing is done if the certificate is in its place.
restoreIfMissing ==
    /\ MainAt("trust", "rules")
    /\ IF wantTrust /\ ~installed THEN InstallCall(Main)
                                  ELSE UNCHANGED trustVars
    /\ UNCHANGED <<pinVars, sig, adm, captured, want, stop, how, quick,
                   spent>>

\* restoreCATrust: the installation is run again when the marker asks for it,
\* and its error is ignored.
restoreCATrust ==
    /\ MainAt("trust", "rules")
    /\ IF wantTrust THEN InstallCall(Main) ELSE UNCHANGED trustVars
    /\ UNCHANGED <<pinVars, sig, adm, captured, want, stop, how, quick,
                   spent>>

\* A failure to install the rules is logged and main goes on.
InstallRules ==
    /\ MainAt("rules", "signals") /\ tpc[Main] = "idle"
    /\ \/ captured' = TRUE /\ UNCHANGED spent
       \/ UNCHANGED captured /\ Spend("faults", MaxFaults)
    /\ UNCHANGED <<trustVars, pinVars, sig, adm, want, stop, how, quick>>

SpawnSignals ==
    /\ MainAt("signals", "admin")
    /\ sig' = "started"
    /\ UNCHANGED <<trustVars, pinVars, adm, captured, want, stop, how, quick,
                   spent>>

\* Fault variant: the rules are installed and the signals awaited in the other
\* order.
SpawnSignalsEarly ==
    /\ MainAt("rules", "signals") /\ tpc[Main] = "idle"
    /\ sig' = "started"
    /\ UNCHANGED <<trustVars, pinVars, adm, captured, want, stop, how, quick,
                   spent>>

InstallRulesLate ==
    /\ MainAt("signals", "admin")
    /\ captured' = TRUE
    /\ UNCHANGED <<trustVars, pinVars, sig, adm, want, stop, how, quick,
                   spent>>

SpawnAdmin ==
    /\ MainAt("admin", "listen")
    /\ adm' = "starting"
    /\ UNCHANGED <<trustVars, pinVars, sig, captured, want, stop, how, quick,
                   spent>>

\* skydst.Listen: from here on connections are accepted.
Listen ==
    /\ MainAt("listen", "up")
    /\ UNCHANGED <<trustVars, pinVars, sig, adm, captured, want, stop, how,
                   quick, spent>>

\* The signals that end main's preparation are awaited after the rules are in.
CaptureLate == SpawnSignalsEarly \/ InstallRulesLate
Capture == InstallRules \/ SpawnSignals

main ==
    \/ Load \/ restoreCATrust
    \/ Capture
    \/ SpawnAdmin \/ Listen
    \/ installCATrust(Main) /\ UNCHANGED <<pinVars, lifeVars, spent>>

-----------------------------------------------------------------------------
(* The ends of a process *)

Ended(h) ==
    /\ mpc' = "down" /\ sig' = "none" /\ adm' = "none" /\ how' = h
    /\ TrustDeath /\ PinDeath

Dies(h) == mpc # "down" /\ Ended(h) /\ UNCHANGED <<want, stop, quick>>

\* Fault variant: a failed start ends the program as if it had succeeded.
FatalQuiet ==
    /\ mpc = "load" \/ adm # "none"
    /\ Spend("faults", MaxFaults)
    /\ Dies("unclean")
    /\ captured' \in {captured, FALSE}

\* log.Fatal: main cannot read its files or listen, an address cannot be
\* bound by the administration or a proxy, or the administration refuses to
\* be bound to an open address.  systemd may run ExecStop after it.
Fatal ==
    /\ mpc = "load" \/ adm # "none"
    /\ Spend("faults", MaxFaults)
    /\ Dies("fatal")
    /\ captured' \in {captured, FALSE}

Crash ==
    /\ Spend("faults", MaxFaults)
    /\ Dies("killed")
    /\ captured' \in {captured, FALSE}

\* signal.Notify: before it a signal ends the process at once.
Notify ==
    /\ sig = "started"
    /\ sig' = "armed"
    /\ UNCHANGED <<trustVars, pinVars, mpc, adm, captured, want, stop, how,
                   quick, spent>>

RemoveRules ==
    /\ sig = "removing"
    /\ \/ captured' = FALSE /\ sig' = "removed" /\ UNCHANGED spent
       \/ sig' = "kept" /\ Spend("faults", MaxFaults) /\ UNCHANGED captured
    /\ UNCHANGED <<trustVars, pinVars, mpc, adm, want, stop, how, quick>>

\* os.Exit(0), whether or not RemoveRules failed.
Exit ==
    /\ sig \in {"removed", "kept"}
    /\ Dies(IF sig = "removed" THEN "clean" ELSE "unclean")
    /\ UNCHANGED <<captured, spent>>

\* SIGTERM or SIGINT arrives.  Only the first one is received.
Sigterm ==
    /\ mpc # "down"
    /\ IF sig \in {"none", "started"}
       THEN Ended("early") /\ UNCHANGED quick
       ELSE /\ sig' = IF sig = "armed" THEN "removing" ELSE sig
            /\ UNCHANGED <<trustVars, pinVars, mpc, adm, how, quick>>
    /\ UNCHANGED <<captured, spent>>

-----------------------------------------------------------------------------
(* systemd and the operator *)

\* systemd starts the unit only so many times within an interval.
Start ==
    /\ mpc = "down" /\ stop = "no"
    /\ quick < StartLimit /\ quick' = quick + 1
    /\ mpc' = "load" /\ how' = "none"
    /\ UNCHANGED <<trustVars, pinVars, sig, adm, captured, stop>>

systemctlStart ==
    /\ ~want \/ how = "limited"
    /\ want' = TRUE
    /\ Spend("starts", MaxStarts)
    /\ Start

\* Restart=on-failure: not after os.Exit(0), and not after a SIGTERM.
Restart ==
    /\ want /\ how \in {"fatal", "killed"}
    /\ Start
    /\ UNCHANGED <<want, spent>>

\* ... nor after too many starts in a row: the unit stays failed.
StartLimitHit ==
    /\ want /\ how \in {"fatal", "killed"}
    /\ mpc = "down" /\ stop = "no" /\ quick >= StartLimit
    /\ how' = "limited"
    /\ UNCHANGED <<trustVars, pinVars, mpc, sig, adm, captured, want, stop,
                   quick, spent>>

\* StartLimitIntervalSec passes.
IntervalPasses ==
    /\ quick > 0 /\ quick' = 0
    /\ UNCHANGED <<trustVars, pinVars, mpc, sig, adm, captured, want, stop,
                   how, spent>>

systemctlStop ==
    /\ want /\ want' = FALSE
    /\ stop' = IF mpc = "down" THEN "no" ELSE "execStop"
    /\ UNCHANGED <<trustVars, pinVars, mpc, sig, adm, captured, how, quick,
                   spent>>

\* ExecStop deletes the table of rules, if they were made with nft.
ExecStop ==
    /\ stop = "execStop" /\ stop' = "term"
    /\ captured' \in {captured, FALSE}
    /\ UNCHANGED <<trustVars, pinVars, mpc, sig, adm, want, how, quick,
                   spent>>

SendTerm ==
    /\ stop = "term" /\ stop' = "sent"
    /\ Sigterm
    /\ UNCHANGED want

\* TimeoutStopSec: SIGKILL follows.
StopTimeout ==
    /\ stop = "sent"
    /\ Dies("killed")
    /\ UNCHANGED <<captured, spent>>

Stopped ==
    /\ stop # "no" /\ mpc = "down"
    /\ stop' = "no"
    /\ UNCHANGED <<trustVars, pinVars, mpc, sig, adm, captured, want, how,
                   quick, spent>>

\* The operator sends the signal himself.
Interrupt ==
    /\ want /\ want' = FALSE
    /\ stop = "no"
    /\ Sigterm
    /\ UNCHANGED stop

\* The machine, or the container, is made anew; the data directory stays.
Recreate ==
    /\ mpc = "down" /\ captured' = FALSE
    /\ Spend("recreated", MaxRecreated)
    /\ TrustRecreated
    /\ UNCHANGED <<pinVars, mpc, sig, adm, want, stop, how, quick>>

-----------------------------------------------------------------------------
(* The administration *)

AdminListen ==
    /\ adm = "starting"
    /\ adm' = "serving"
    /\ UNCHANGED <<trustVars, pinVars, mpc, sig, captured, want, stop, how,
                   quick, spent>>

Free(p) == adm = "serving" /\ tpc[p] = "idle" /\ ppc[p] = "idle"

\* POST /ca/trust
caTrust(p) ==
    /\ Free(p) /\ Spend("requests", MaxRequests)
    /\ InstallCall(p)
    /\ UNCHANGED <<pinVars, lifeVars>>

\* POST /pin-bypass
pinBypass(p, v) ==
    /\ Free(p) /\ Spend("requests", MaxRequests)
    /\ SetPinBypass(p, v)
    /\ UNCHANGED <<trustVars, lifeVars>>

Served(p) ==
    \/ installCATrust(p) /\ UNCHANGED <<pinVars, lifeVars, spent>>
    \/ PinStep(p) /\ UNCHANGED <<trustVars, lifeVars, spent>>

InstallError(p) == InstallFails(p) \/ MarkerFails(p)

CallFails ==
    /\ Spend("faults", MaxFaults)
    /\ \/ \E p \in Procs : InstallError(p) /\ UNCHANGED pinVars
       \/ \E p \in Workers : PinFails(p) /\ UNCHANGED trustVars
    /\ UNCHANGED lifeVars

Next ==
    \/ main \/ Notify \/ RemoveRules \/ Exit \/ AdminListen
    \/ Fatal \/ Crash \/ CallFails
    \/ systemctlStart \/ Restart \/ StartLimitHit \/ IntervalPasses
    \/ systemctlStop \/ ExecStop \/ SendTerm
    \/ StopTimeout \/ Stopped \/ Interrupt \/ Recreate
    \/ \E p \in Workers :
           \/ caTrust(p) \/ Served(p)
           \/ \E v \in BOOLEAN : pinBypass(p, v)

\* main runs on, and systemd restarts what failed or gives it up.
Fairness == WF_vars(main) /\ WF_vars(Restart \/ StartLimitHit)

Spec == Init /\ [][Next]_vars /\ Fairness

-----------------------------------------------------------------------------
(* What must hold *)

\* The variables have their types; goroutines run only in the part of main in
\* which they have been started, and none outlives its process.
TypeOK ==
    /\ TrustTypeOK(Procs) /\ PinTypeOK(Workers)
    /\ mpc \in {"down", "load", "trust", "rules", "signals", "admin",
                "listen", "up"}
    /\ sig \in {"none", "started", "armed", "removing", "removed", "kept"}
    /\ adm \in {"none", "starting", "serving"}
    /\ captured \in BOOLEAN /\ want \in BOOLEAN
    /\ stop \in {"no", "execStop", "term", "sent"}
    /\ how \in {"none", "fatal", "killed", "early", "clean", "unclean",
                "limited"}
    /\ quick \in Nat
    /\ spent \in [{"requests", "starts", "faults", "recreated"} -> Nat]
    /\ sig # "none" => mpc \in {"admin", "listen", "up"}
    /\ adm # "none" => mpc \in {"listen", "up"}
    /\ mpc = "down" => Installing = {} /\ Setting = {}

\* A process that removed its rules and ended with os.Exit(0) has left no port
\* redirected to it, wherever main was when the signal came (main.go: the
\* goroutine that waits for the signal is started after InstallRules).
CleanStop == mpc = "down" /\ how = "clean" => ~captured

\* When no installation is running, and the last one to end returned no error
\* and ran beside no other: if one was answered as done on this machine, its
\* bundle holds the CA, although the marker may not have been written and the
\* program may have been killed in a later one; and if the marker asks for it,
\* the certificate is in place and in the bundle, wherever a process died and
\* also on a machine made anew around the data directory (restoreCATrust runs
\* the whole installation again).
TrustKept ==
    adm = "serving" /\ Installing = {} /\ ~unsure =>
        /\ answered => bundle
        /\ wantTrust => anchor = "ca" /\ bundle

\* The switch of the pin lab has, and will have after the next start, a value
\* that was asked for by a request no later undisturbed one has replaced; so
\* an undisturbed request is never forgotten (App.SetPinBypass writes the file
\* after it has released the lock, loadPinBypass reads it).
PinKept ==
    /\ adm = "serving" => pin \in pinOk
    /\ Setting = {} => loadPinBypass \in pinOk

\* While the service is wanted, a machine whose ports are redirected does not
\* stay without a listener on the port they are redirected to, although main
\* installs the rules first and a failed listen leaves them in place; unless
\* systemd has given up a unit that failed too often in a row.
RedirectedIsServed ==
    captured ~> mpc = "up" \/ ~captured \/ ~want \/ how = "limited"

=============================================================================
