-------------------------- MODULE LifecycleProofs --------------------------
(***************************************************************************)
(* Proofs about the runs of the program, for any number of goroutines      *)
(* serving requests and any number of requests, starts, faults and         *)
(* machines made anew.                                                     *)
(***************************************************************************)
EXTENDS Lifecycle, TLAPS

-----------------------------------------------------------------------------
(* The inductive invariants.                                               *)

\* Rules that were removed before an exit stay removed: main has installed
\* them before the goroutine that removes them is started.
RulesInv == CleanStop /\ (sig = "removed" => ~captured)

\* An installation that has met no other is the only one; it has left the
\* certificate in its place, and the refresh it runs has read it.
LoneHolds ==
    \A p \in Procs : tpc[p] # "idle" /\ lone[p] =>
        /\ \A q \in Procs : tpc[q] # "idle" => q = p
        /\ tpc[p] \notin {"anchorOpen", "anchorWrite"} => anchor = "ca"
        /\ tpc[p] = "install" => saw[p]

\* The bundle changes only when an installation ends.
AnsweredHolds == answered /\ ~unsure => bundle

\* What the marker asks for is there, or main is still to install it, or an
\* installation is running.
MarkedHolds ==
    wantTrust /\ ~unsure =>
        \/ mpc \in {"down", "load", "trust"}
        \/ anchor = "ca" /\ bundle
        \/ \E p \in Procs : tpc[p] # "idle"

TrustInv == LoneHolds /\ AnsweredHolds /\ MarkedHolds

\* Requests are served only while the administration is.
BusyIsServing == \A p \in Workers : ppc[p] # "idle" => adm = "serving"

\* The request of a goroutine that met no other is the only one, and has
\* what it asked for in memory and, once written, in the file.
AloneHolds ==
    \A p \in Workers : ppc[p] # "idle" /\ alone[p] =>
        /\ \A q \in Workers : ppc[q] # "idle" => q = p
        /\ pin = setting[p]
        /\ ppc[p] = "reply" => pinFile = IF setting[p] THEN "1" ELSE "0"

\* The values in memory, in the file and asked for are all accounted for; a
\* truncated file is about to be written, or off is accounted for, too.
Accounted ==
    /\ mpc \notin {"down", "load"} => pin \in pinOk
    /\ \A p \in Workers : ppc[p] # "idle" => setting[p] \in pinOk
    /\ pinFile = "1" => TRUE \in pinOk
    /\ pinFile \in {"none", "0"} => FALSE \in pinOk
    /\ pinFile = "" => FALSE \in pinOk \/ \E p \in Workers : ppc[p] = "write"

PinInv == BusyIsServing /\ AloneHolds /\ Accounted

-----------------------------------------------------------------------------
(* Types *)

LEMMA InitType == Init => TypeOK
<1> SUFFICES ASSUME Init PROVE TypeOK
  OBVIOUS
<1>1. TrustTypeOK(Procs) /\ Installing = {}
  BY DEF Init, TrustInit, TrustTypeOK, Installing, TrustPcs
<1>2. PinTypeOK(Workers) /\ Setting = {}
  BY DEF Init, PinInit, PinTypeOK, Setting
<1>3. spent \in [{"requests", "starts", "faults", "recreated"} -> Nat]
  BY DEF Init
<1>4. QED
  BY <1>1, <1>2, <1>3 DEF Init, TypeOK

\* The bounded counters stay natural numbers.
Counters == [{"requests", "starts", "faults", "recreated"} -> Nat]

LEMMA SpendType ==
    ASSUME NEW what \in {"requests", "starts", "faults", "recreated"}, NEW max,
           spent \in Counters, Spend(what, max)
    PROVE  spent' \in Counters
  BY DEF Spend, Counters

LEMMA SpentType ==
    ASSUME spent \in Counters, Next
    PROVE  spent' \in Counters
<1> USE DEF lifeVars
<1>1. CASE main
  <2>1. CASE InstallRules
    BY <2>1, SpendType DEF InstallRules
  <2>2. QED
    BY <1>1, <2>1 DEF main, Load, restoreCATrust, Capture, SpawnSignals,
                      SpawnAdmin, Listen
<1>2. CASE Notify \/ Exit \/ AdminListen \/ ExecStop \/ StopTimeout \/ Stopped
           \/ Restart \/ StartLimitHit \/ IntervalPasses \/ systemctlStop
  BY <1>2 DEF Notify, Exit, AdminListen, ExecStop, StopTimeout, Stopped,
              Restart, StartLimitHit, IntervalPasses, systemctlStop
<1>3. CASE RemoveRules
  BY <1>3, SpendType DEF RemoveRules
<1>4. CASE Fatal \/ Crash \/ CallFails
  BY <1>4, SpendType DEF Fatal, Crash, CallFails
<1>5. CASE systemctlStart \/ Recreate
  BY <1>5, SpendType DEF systemctlStart, Recreate
<1>6. CASE SendTerm \/ Interrupt
  BY <1>6 DEF SendTerm, Interrupt, Sigterm
<1>7. ASSUME NEW p \in Workers, caTrust(p) \/ Served(p)
      PROVE  spent' \in Counters
  BY <1>7, SpendType DEF caTrust, Served
<1>8. ASSUME NEW p \in Workers, NEW v \in BOOLEAN, pinBypass(p, v)
      PROVE  spent' \in Counters
  BY <1>8, SpendType DEF pinBypass
<1>9. QED
  BY <1>1, <1>2, <1>3, <1>4, <1>5, <1>6, <1>7, <1>8 DEF Next

\* What a step of an installation, or of a request to set the switch, leaves.
LEMMA InstallType ==
    ASSUME TrustTypeOK(Procs), NEW p \in Procs,
           installCATrust(p) \/ InstallCall(p) \/ InstallError(p)
    PROVE  TrustTypeOK(Procs)'
<1> USE DEF TrustTypeOK, TrustPcs
<1>1. CASE AnchorOpen(p) \/ AnchorPart(p) \/ AnchorWrite(p) \/ MarkerOpen(p)
           \/ MarkerWrite(p)
  BY <1>1 DEF AnchorOpen, AnchorPart, AnchorWrite, MarkerOpen, MarkerWrite,
              InstallStep
<1>2. CASE RefreshRead(p)
  BY <1>2 DEF RefreshRead, InstallStep
<1>3. CASE RefreshInstall(p)
  BY <1>3 DEF RefreshInstall, InstallEnds
<1>4. CASE InstallCall(p)
  BY <1>4 DEF InstallCall
<1>5. CASE InstallFails(p)
  BY <1>5 DEF InstallFails, InstallEnds
<1>6. CASE MarkerFails(p)
  BY <1>6 DEF MarkerFails, InstallStep
<1>7. QED
  BY <1>1, <1>2, <1>3, <1>4, <1>5, <1>6 DEF installCATrust, InstallError

LEMMA PinType ==
    ASSUME PinTypeOK(Workers), NEW p \in Workers,
           \/ PinStep(p) \/ PinFails(p)
           \/ \E v \in BOOLEAN : SetPinBypass(p, v)
    PROVE  PinTypeOK(Workers)'
<1> USE DEF PinTypeOK
<1>1. CASE PinOpen(p) \/ PinWrite(p)
  BY <1>1 DEF PinOpen, PinWrite
<1>2. CASE PinReply(p)
  BY <1>2 DEF PinReply
<1>3. CASE PinFails(p)
  BY <1>3 DEF PinFails, loadPinBypass
<1>4. ASSUME NEW v \in BOOLEAN, SetPinBypass(p, v)
      PROVE  PinTypeOK(Workers)'
  BY <1>4 DEF SetPinBypass
<1>5. QED
  BY <1>1, <1>2, <1>3, <1>4 DEF PinStep

LEMMA DeathType ==
    ASSUME TypeOK, NEW h \in {"fatal", "killed", "early", "clean", "unclean"},
           Ended(h)
    PROVE  /\ TrustTypeOK(Procs)' /\ PinTypeOK(Workers)'
           /\ Installing' = {} /\ Setting' = {}
           /\ mpc' = "down" /\ sig' = "none" /\ adm' = "none" /\ how' = h
<1>1. TrustTypeOK(Procs)' /\ Installing' = {}
  BY DEF TypeOK, Ended, TrustDeath, TrustTypeOK, Installing, TrustPcs
<1>2. PinTypeOK(Workers)' /\ Setting' = {}
  BY DEF TypeOK, Ended, PinDeath, PinTypeOK, Setting
<1>3. QED
  BY <1>1, <1>2 DEF Ended

LEMMA NextType == ASSUME TypeOK, Next PROVE TypeOK'
<1>1. spent' \in Counters
  BY SpentType DEF TypeOK, Counters
<1>2. TypeOK' =
        /\ TrustTypeOK(Procs)' /\ PinTypeOK(Workers)'
        /\ mpc' \in {"down", "load", "trust", "rules", "signals", "admin",
                     "listen", "up"}
        /\ sig' \in {"none", "started", "armed", "removing", "removed", "kept"}
        /\ adm' \in {"none", "starting", "serving"}
        /\ captured' \in BOOLEAN /\ want' \in BOOLEAN
        /\ stop' \in {"no", "execStop", "term", "sent"}
        /\ how' \in {"none", "fatal", "killed", "early", "clean", "unclean",
                     "limited"}
        /\ quick' \in Nat
        /\ spent' \in Counters
        /\ sig' # "none" => mpc' \in {"admin", "listen", "up"}
        /\ adm' # "none" => mpc' \in {"listen", "up"}
        /\ mpc' = "down" => Installing' = {} /\ Setting' = {}
  BY DEF TypeOK, Counters
<1>3. ASSUME UNCHANGED trustVars
      PROVE  TrustTypeOK(Procs)' /\ Installing' = Installing
  BY <1>3 DEF TypeOK, trustVars, TrustTypeOK, Installing
<1>4. ASSUME UNCHANGED pinVars
      PROVE  PinTypeOK(Workers)' /\ Setting' = Setting
  BY <1>4 DEF TypeOK, pinVars, PinTypeOK, Setting
<1>5. ASSUME NEW p \in Procs, installCATrust(p) \/ InstallError(p)
      PROVE  mpc # "down"
  <2>1. tpc[p] # "idle"
    BY <1>5 DEF installCATrust, InstallError, InstallFails, MarkerFails,
                AnchorOpen, AnchorPart, AnchorWrite, MarkerOpen, MarkerWrite,
                RefreshRead, RefreshInstall, InstallStep, TrustPcs
  <2>2. p \in Installing
    BY <2>1 DEF TypeOK, TrustTypeOK, Installing
  <2>3. QED
    BY <2>2 DEF TypeOK
<1>6. ASSUME NEW p \in Workers, PinStep(p) \/ PinFails(p)
      PROVE  mpc # "down"
  <2>1. ppc[p] # "idle"
    BY <1>6 DEF PinStep, PinFails, PinOpen, PinWrite, PinReply
  <2>2. p \in Setting
    BY <2>1 DEF TypeOK, PinTypeOK, Setting
  <2>3. QED
    BY <2>2 DEF TypeOK
<1>7. Workers \subseteq Procs /\ Main \in Procs
  BY DEF Procs
<1>8. TrustTypeOK(Procs) /\ PinTypeOK(Workers)
  BY DEF TypeOK
<1>9. CASE main
  <2>1. CASE Load
    <3>1. PinTypeOK(Workers)'
      BY <2>1, <1>8 DEF Load, PinTypeOK, loadPinBypass
    <3>2. QED
      BY <2>1, <3>1, <1>1, <1>2, <1>3 DEF Load, MainAt, TypeOK
  <2>2. CASE restoreCATrust
    <3>1. TrustTypeOK(Procs)'
      BY <2>2, <1>3, <1>7, <1>8, InstallType DEF restoreCATrust
    <3>2. QED
      BY <2>2, <3>1, <1>1, <1>2, <1>4 DEF restoreCATrust, MainAt, TypeOK
  <2>3. CASE InstallRules
    BY <2>3, <1>1, <1>2, <1>3, <1>4 DEF InstallRules, MainAt, TypeOK
  <2>4. CASE SpawnSignals
    BY <2>4, <1>1, <1>2, <1>3, <1>4 DEF SpawnSignals, MainAt, TypeOK
  <2>5. CASE SpawnAdmin
    BY <2>5, <1>1, <1>2, <1>3, <1>4 DEF SpawnAdmin, MainAt, TypeOK
  <2>6. CASE Listen
    BY <2>6, <1>1, <1>2, <1>3, <1>4 DEF Listen, MainAt, TypeOK
  <2>7. CASE installCATrust(Main) /\ UNCHANGED <<pinVars, lifeVars, spent>>
    <3>1. TrustTypeOK(Procs)' /\ mpc # "down"
      BY <2>7, <1>5, <1>7, <1>8, InstallType
    <3>2. QED
      BY <2>7, <3>1, <1>1, <1>2, <1>4 DEF lifeVars, TypeOK
  <2>8. QED
    BY <1>9, <2>1, <2>2, <2>3, <2>4, <2>5, <2>6, <2>7 DEF main, Capture
<1>10. CASE Notify
  BY <1>10, <1>1, <1>2, <1>3, <1>4 DEF Notify, TypeOK
<1>11. CASE RemoveRules
  <2>1. /\ sig = "removing" /\ sig' \in {"removed", "kept"}
        /\ captured' \in {captured, FALSE}
        /\ UNCHANGED <<trustVars, pinVars, mpc, adm, want, stop, how, quick>>
    BY <1>11 DEF RemoveRules
  <2>2. /\ TrustTypeOK(Procs)' /\ Installing' = Installing
        /\ PinTypeOK(Workers)' /\ Setting' = Setting
    BY <2>1, <1>3, <1>4
  <2>3. captured' \in BOOLEAN
    BY <2>1 DEF TypeOK
  <2>4. QED
    BY <2>1, <2>2, <2>3, <1>1, <1>2 DEF TypeOK
<1>12. CASE Exit
  <2>1. Ended("clean") \/ Ended("unclean")
    BY <1>12 DEF Exit, Dies
  <2>2. QED
    BY <1>12, <2>1, <1>1, <1>2, DeathType DEF Exit, Dies, TypeOK
<1>13. CASE AdminListen
  BY <1>13, <1>1, <1>2, <1>3, <1>4 DEF AdminListen, TypeOK
<1>14. CASE Fatal \/ Crash
  BY <1>14, <1>1, <1>2, DeathType DEF Fatal, Crash, Dies, TypeOK
<1>15. CASE CallFails
  <2>1. CASE \E p \in Procs : InstallError(p) /\ UNCHANGED pinVars
    <3>1. TrustTypeOK(Procs)' /\ mpc # "down"
      BY <2>1, <1>5, <1>8, InstallType
    <3>2. QED
      BY <1>15, <2>1, <3>1, <1>1, <1>2, <1>4 DEF CallFails, lifeVars, TypeOK
  <2>2. CASE \E p \in Workers : PinFails(p) /\ UNCHANGED trustVars
    <3>1. PinTypeOK(Workers)' /\ mpc # "down"
      BY <2>2, <1>6, <1>8, PinType
    <3>2. QED
      BY <1>15, <2>2, <3>1, <1>1, <1>2, <1>3 DEF CallFails, lifeVars, TypeOK
  <2>3. QED
    BY <1>15, <2>1, <2>2 DEF CallFails
<1>16. CASE systemctlStart \/ Restart \/ StartLimitHit \/ IntervalPasses
  <2>1. /\ quick' \in {quick + 1, quick, 0}
        /\ UNCHANGED <<trustVars, pinVars, sig, adm, captured, stop>>
        /\ mpc' \in {mpc, "load"} /\ how' \in {"none", "limited", how}
        /\ mpc = "down" \/ UNCHANGED mpc
    BY <1>16 DEF systemctlStart, Restart, Start, StartLimitHit, IntervalPasses
  <2>2. want' \in BOOLEAN
    BY <1>16 DEF systemctlStart, Restart, StartLimitHit, IntervalPasses, TypeOK
  <2>3. quick' \in Nat
    BY <2>1 DEF TypeOK
  <2>4. /\ mpc' \in {"down", "load", "trust", "rules", "signals", "admin",
                     "listen", "up"}
        /\ how' \in {"none", "fatal", "killed", "early", "clean", "unclean",
                     "limited"}
        /\ sig' # "none" => mpc' \in {"admin", "listen", "up"}
        /\ adm' # "none" => mpc' \in {"listen", "up"}
        /\ mpc' = "down" => mpc = "down"
    BY <2>1 DEF TypeOK
  <2>5. /\ TrustTypeOK(Procs)' /\ Installing' = Installing
        /\ PinTypeOK(Workers)' /\ Setting' = Setting
    BY <2>1, <1>3, <1>4
  <2>6. QED
    BY <2>1, <2>2, <2>3, <2>4, <2>5, <1>1, <1>2 DEF TypeOK
<1>17. CASE systemctlStop
  BY <1>17, <1>1, <1>2, <1>3, <1>4 DEF systemctlStop, TypeOK
<1>18. CASE ExecStop
  <2>1. /\ stop' = "term" /\ captured' \in {captured, FALSE}
        /\ UNCHANGED <<trustVars, pinVars, mpc, sig, adm, want, how, quick>>
    BY <1>18 DEF ExecStop
  <2>2. /\ TrustTypeOK(Procs)' /\ Installing' = Installing
        /\ PinTypeOK(Workers)' /\ Setting' = Setting
    BY <2>1, <1>3, <1>4
  <2>3. captured' \in BOOLEAN
    BY <2>1 DEF TypeOK
  <2>4. QED
    BY <2>1, <2>2, <2>3, <1>1, <1>2 DEF TypeOK
<1>19. CASE SendTerm \/ Interrupt
  <2>1. CASE sig \in {"none", "started"}
    BY <1>19, <2>1, <1>1, <1>2, DeathType
       DEF SendTerm, Interrupt, Sigterm, TypeOK
  <2>2. CASE sig \notin {"none", "started"}
    <3>1. /\ sig' = IF sig = "armed" THEN "removing" ELSE sig
          /\ UNCHANGED <<trustVars, pinVars, mpc, adm, how, quick, captured>>
      BY <1>19, <2>2 DEF SendTerm, Interrupt, Sigterm
    <3>2. want' \in {want, FALSE} /\ stop' \in {stop, "sent"}
      BY <1>19 DEF SendTerm, Interrupt
    <3>3. /\ TrustTypeOK(Procs)' /\ Installing' = Installing
          /\ PinTypeOK(Workers)' /\ Setting' = Setting
      BY <3>1, <1>3, <1>4
    <3>4. /\ sig' \in {"none", "started", "armed", "removing", "removed", "kept"}
          /\ sig' # "none" => sig # "none"
      BY <2>2, <3>1 DEF TypeOK
    <3>5. want' \in BOOLEAN /\ stop' \in {"no", "execStop", "term", "sent"}
      BY <3>2 DEF TypeOK
    <3>6. QED
      BY <3>1, <3>3, <3>4, <3>5, <1>1, <1>2 DEF TypeOK
  <2>3. QED
    BY <2>1, <2>2
<1>20. CASE StopTimeout
  BY <1>20, <1>1, <1>2, DeathType DEF StopTimeout, Dies, TypeOK
<1>21. CASE Stopped
  BY <1>21, <1>1, <1>2, <1>3, <1>4 DEF Stopped, TypeOK
<1>22. CASE Recreate
  <2>1. TrustTypeOK(Procs)' /\ Installing' = Installing
    BY <1>22, <1>8 DEF Recreate, TrustRecreated, TrustTypeOK, Installing
  <2>2. QED
    BY <1>22, <2>1, <1>1, <1>2, <1>4 DEF Recreate, TypeOK
<1>23. ASSUME NEW p \in Workers, caTrust(p)
       PROVE  TypeOK'
  <2>1. TrustTypeOK(Procs)'
    BY <1>23, <1>7, <1>8, InstallType DEF caTrust
  <2>2. QED
    BY <1>23, <2>1, <1>1, <1>2, <1>4 DEF caTrust, Free, lifeVars, TypeOK
<1>24. ASSUME NEW p \in Workers, NEW v \in BOOLEAN, pinBypass(p, v)
       PROVE  TypeOK'
  <2>1. PinTypeOK(Workers)'
    BY <1>24, <1>8, PinType DEF pinBypass
  <2>2. QED
    BY <1>24, <2>1, <1>1, <1>2, <1>3 DEF pinBypass, Free, lifeVars, TypeOK
<1>25. ASSUME NEW p \in Workers, Served(p)
       PROVE  TypeOK'
  <2>1. CASE installCATrust(p) /\ UNCHANGED <<pinVars, lifeVars, spent>>
    <3>1. TrustTypeOK(Procs)' /\ mpc # "down"
      BY <2>1, <1>5, <1>7, <1>8, InstallType
    <3>2. QED
      BY <2>1, <3>1, <1>1, <1>2, <1>4 DEF lifeVars, TypeOK
  <2>2. CASE PinStep(p) /\ UNCHANGED <<trustVars, lifeVars, spent>>
    <3>1. PinTypeOK(Workers)' /\ mpc # "down"
      BY <2>2, <1>6, <1>8, PinType
    <3>2. QED
      BY <2>2, <3>1, <1>1, <1>2, <1>3 DEF lifeVars, TypeOK
  <2>3. QED
    BY <1>25, <2>1, <2>2 DEF Served
<1>26. QED
  BY <1>9, <1>10, <1>11, <1>12, <1>13, <1>14, <1>15, <1>16, <1>17, <1>18,
     <1>19, <1>20, <1>21, <1>22, <1>23, <1>24, <1>25 DEF Next

LEMMA StutterType == ASSUME TypeOK, UNCHANGED vars PROVE TypeOK'
<1>1. TrustTypeOK(Procs)' /\ Installing' = Installing
  BY DEF TypeOK, vars, trustVars, TrustTypeOK, Installing
<1>2. PinTypeOK(Workers)' /\ Setting' = Setting
  BY DEF TypeOK, vars, pinVars, PinTypeOK, Setting
<1>3. QED
  BY <1>1, <1>2 DEF TypeOK, vars, lifeVars

\* The variables of the lifecycle keep their types; no goroutine of main, of
\* the administration or of a request is left when its process is gone.
THEOREM LifecycleTypeCorrect == Spec => []TypeOK
<1>1. TypeOK /\ [Next]_vars => TypeOK'
  BY NextType, StutterType
<1>2. QED
  BY <1>1, InitType, PTL DEF Spec

-----------------------------------------------------------------------------
(* The redirected ports *)

LEMMA NextRules == ASSUME TypeOK, RulesInv, Next PROVE RulesInv'
<1> USE DEF RulesInv, CleanStop
<1>1. CASE main
  <2>1. CASE InstallRules
    BY <2>1 DEF InstallRules, MainAt, TypeOK
  <2>2. QED
    BY <1>1, <2>1 DEF main, Load, restoreCATrust, Capture, SpawnSignals,
                      SpawnAdmin, Listen, MainAt, lifeVars
<1>2. CASE Notify \/ AdminListen \/ ExecStop \/ Stopped \/ systemctlStop
  <2>1. UNCHANGED <<mpc, how>> /\ captured' \in {captured, FALSE}
    BY <1>2 DEF Notify, AdminListen, ExecStop, Stopped, systemctlStop
  <2>2. sig' = "removed" => sig = "removed"
    BY <1>2 DEF Notify, AdminListen, ExecStop, Stopped, systemctlStop
  <2>3. captured' => captured
    BY <2>1, Zenon
  <2>4. QED
    BY <2>1, <2>2, <2>3
<1>3. CASE RemoveRules
  BY <1>3 DEF RemoveRules
<1>4. CASE Exit
  BY <1>4 DEF Exit, Dies, Ended
<1>5. CASE Fatal \/ Crash \/ StopTimeout
  BY <1>5 DEF Fatal, Crash, StopTimeout, Dies, Ended
<1>6. CASE systemctlStart \/ Restart \/ StartLimitHit \/ IntervalPasses
  BY <1>6 DEF systemctlStart, Restart, Start, StartLimitHit, IntervalPasses
<1>7. CASE SendTerm \/ Interrupt
  BY <1>7 DEF SendTerm, Interrupt, Sigterm, Ended
<1>8. CASE Recreate
  BY <1>8 DEF Recreate
<1>9. CASE CallFails \/ \E p \in Workers :
               \/ caTrust(p) \/ Served(p)
               \/ \E v \in BOOLEAN : pinBypass(p, v)
  BY <1>9 DEF CallFails, caTrust, Served, pinBypass, lifeVars
<1>10. QED
  BY <1>1, <1>2, <1>3, <1>4, <1>5, <1>6, <1>7, <1>8, <1>9 DEF Next

\* A process that removed its rules and ended with os.Exit(0) leaves no port
\* redirected to it: main.go starts the goroutine that removes the rules only
\* after it has installed them, so no signal can come in between.
THEOREM StopsClean == Spec => []CleanStop
<1>1. Init => RulesInv
  BY DEF Init, RulesInv, CleanStop
<1>2. TypeOK /\ RulesInv /\ [Next]_vars => RulesInv'
  BY NextRules DEF RulesInv, CleanStop, vars, lifeVars
<1>3. RulesInv => CleanStop
  BY DEF RulesInv
<1>4. QED
  BY <1>1, <1>2, <1>3, LifecycleTypeCorrect, PTL DEF Spec

-----------------------------------------------------------------------------
(* The trust in the CA *)

\* What a step of the program is to the trust in the CA.
TrustStep ==
    \/ \E p \in Procs : /\ installCATrust(p) \/ InstallError(p)
                        /\ UNCHANGED mpc
    \/ \E p \in Procs : InstallCall(p)
    \/ TrustDeath /\ mpc' = "down"
    \/ TrustRecreated /\ mpc = "down" /\ mpc' = "down"
    \/ /\ UNCHANGED trustVars
       /\ \/ mpc' \in {mpc, "load", "trust"}
          \/ mpc = "trust" /\ ~wantTrust
          \/ mpc \notin {"down", "load", "trust"}

LEMMA NextIsTrustStep == ASSUME Next PROVE TrustStep
<1> USE DEF Procs
<1>1. CASE main
  <2>1. CASE Load \/ Capture \/ SpawnAdmin \/ Listen
    BY <2>1 DEF TrustStep, Load, Capture, InstallRules, SpawnSignals,
                SpawnAdmin, Listen, MainAt
  <2>2. CASE restoreCATrust
    BY <2>2 DEF TrustStep, restoreCATrust, MainAt
  <2>3. CASE installCATrust(Main) /\ UNCHANGED <<pinVars, lifeVars, spent>>
    BY <2>3 DEF TrustStep, lifeVars
  <2>4. QED
    BY <1>1, <2>1, <2>2, <2>3 DEF main
<1>2. CASE Notify \/ AdminListen \/ ExecStop \/ Stopped \/ systemctlStop
           \/ RemoveRules
  BY <1>2 DEF Notify, AdminListen, ExecStop, Stopped, systemctlStop,
              RemoveRules, TrustStep
<1>3. CASE Exit \/ Fatal \/ Crash \/ StopTimeout
  BY <1>3 DEF Exit, Fatal, Crash, StopTimeout, Dies, Ended, TrustStep
<1>4. CASE systemctlStart \/ Restart \/ StartLimitHit \/ IntervalPasses
  BY <1>4 DEF systemctlStart, Restart, Start, StartLimitHit, IntervalPasses,
              TrustStep
<1>5. CASE SendTerm \/ Interrupt
  BY <1>5 DEF SendTerm, Interrupt, Sigterm, Ended, TrustStep
<1>6. CASE Recreate
  BY <1>6 DEF Recreate, TrustStep
<1>7. CASE CallFails
  BY <1>7 DEF CallFails, lifeVars, TrustStep
<1>8. ASSUME NEW p \in Workers, caTrust(p) \/ Served(p)
      PROVE  TrustStep
  BY <1>8 DEF caTrust, Served, lifeVars, TrustStep
<1>9. ASSUME NEW p \in Workers, NEW v \in BOOLEAN, pinBypass(p, v)
      PROVE  TrustStep
  BY <1>9 DEF pinBypass, lifeVars, TrustStep
<1>10. QED
  BY <1>1, <1>2, <1>3, <1>4, <1>5, <1>6, <1>7, <1>8, <1>9 DEF Next

\* One call of an installation succeeds, or its failure is ignored.
LEMMA CallTrust ==
    ASSUME TrustTypeOK(Procs), TrustInv, UNCHANGED mpc, NEW p \in Procs,
           NEW from \in TrustPcs, NEW to \in TrustPcs, InstallStep(p, from, to),
           UNCHANGED bundle,
           from \notin {"anchorOpen", "anchorWrite"} => UNCHANGED anchor,
           to \notin {"anchorOpen", "anchorWrite"} /\ from = "anchorWrite"
              => anchor' = "ca",
           from = "anchorOpen" => to = "anchorWrite",
           from \notin {"anchorOpen", "anchorWrite"}
              => to \notin {"anchorOpen", "anchorWrite"},
           \A q \in Procs : q # p => saw'[q] = saw[q],
           to = "install" => saw'[p] = (anchor = "ca") /\ from = "refresh"
    PROVE  TrustInv'
<1> USE DEF TrustTypeOK, TrustPcs
<1>1. /\ tpc[p] = from /\ tpc'[p] = to
      /\ \A q \in Procs : q # p => tpc'[q] = tpc[q]
      /\ UNCHANGED <<lone, unsure, answered>>
  BY DEF InstallStep
<1>2. LoneHolds'
  <2> SUFFICES ASSUME NEW r \in Procs, tpc'[r] # "idle", lone'[r]
               PROVE  /\ \A q \in Procs : tpc'[q] # "idle" => q = r
                      /\ tpc'[r] \notin {"anchorOpen", "anchorWrite"}
                            => anchor' = "ca"
                      /\ tpc'[r] = "install" => saw'[r]
    BY DEF LoneHolds
  <2>1. /\ \A q \in Procs : tpc[q] # "idle" => q = r
        /\ tpc[r] \notin {"anchorOpen", "anchorWrite"} => anchor = "ca"
    BY <1>1 DEF TrustInv, LoneHolds
  <2>2. r = p
    BY <1>1, <2>1
  <2>3. QED
    BY <1>1, <2>1, <2>2
<1>3. AnsweredHolds'
  BY <1>1 DEF TrustInv, AnsweredHolds
<1>4. MarkedHolds'
  BY <1>1 DEF MarkedHolds
<1>5. QED
  BY <1>2, <1>3, <1>4 DEF TrustInv

\* An installation ends.  If it met no other, no other is running; it has put
\* the certificate in place and has refreshed the bundle from it.
LEMMA EndTrust ==
    ASSUME TrustTypeOK(Procs), TrustInv, UNCHANGED <<mpc, anchor, marker>>,
           NEW p \in Procs, tpc[p] \in TrustPcs, NEW err \in BOOLEAN,
           InstallEnds(p, err),
           ~err => tpc[p] = "install" /\ bundle' = saw[p]
    PROVE  TrustInv'
<1> USE DEF TrustTypeOK, TrustPcs
<1>1. /\ tpc'[p] = "idle" /\ tpc[p] # "idle"
      /\ \A q \in Procs : q # p => /\ tpc'[q] = tpc[q] /\ saw'[q] = saw[q]
                                   /\ lone'[q] = lone[q]
      /\ unsure' = (err \/ ~lone[p])
  BY DEF InstallEnds
<1>2. LoneHolds'
  BY <1>1 DEF TrustInv, LoneHolds
<1>3. ~unsure' => anchor' = "ca" /\ bundle'
  BY <1>1 DEF TrustInv, LoneHolds
<1>4. AnsweredHolds' /\ MarkedHolds'
  BY <1>3 DEF AnsweredHolds, MarkedHolds
<1>5. QED
  BY <1>2, <1>4 DEF TrustInv

LEMMA InstallTrust ==
    ASSUME TrustTypeOK(Procs), TrustInv, UNCHANGED mpc,
           NEW p \in Procs, installCATrust(p) \/ InstallError(p)
    PROVE  TrustInv'
<1> USE DEF TrustTypeOK, TrustPcs
<1>1. CASE AnchorOpen(p)
  BY <1>1, CallTrust DEF AnchorOpen
<1>2. CASE AnchorPart(p)
  BY <1>2, CallTrust DEF AnchorPart
<1>3. CASE AnchorWrite(p)
  BY <1>3, CallTrust DEF AnchorWrite
<1>4. CASE MarkerOpen(p)
  BY <1>4, CallTrust DEF MarkerOpen
<1>5. CASE MarkerWrite(p)
  BY <1>5, CallTrust DEF MarkerWrite
<1>6. CASE RefreshRead(p)
  <2>1. /\ \A q \in Procs : q # p => saw'[q] = saw[q]
        /\ saw'[p] = (anchor = "ca")
        /\ InstallStep(p, "refresh", "install") /\ UNCHANGED <<anchor, bundle>>
    BY <1>6 DEF RefreshRead
  <2>2. QED
    BY <2>1, CallTrust
<1>7. CASE RefreshInstall(p)
  BY <1>7, EndTrust DEF RefreshInstall
<1>8. CASE InstallFails(p)
  BY <1>8, EndTrust DEF InstallFails
<1>9. CASE MarkerFails(p)
  BY <1>9, CallTrust DEF MarkerFails
<1>10. QED
  BY <1>1, <1>2, <1>3, <1>4, <1>5, <1>6, <1>7, <1>8, <1>9
     DEF installCATrust, InstallError

\* An installation begins: if another is running, neither is alone.
LEMMA BeginTrust ==
    ASSUME TrustTypeOK(Procs), TrustInv, NEW p \in Procs, InstallCall(p)
    PROVE  TrustInv'
<1> USE DEF TrustTypeOK, TrustPcs
<1>1. /\ tpc'[p] = "anchorOpen" /\ tpc[p] = "idle"
      /\ \A q \in Procs : q # p => tpc'[q] = tpc[q]
      /\ \A q \in Procs : lone'[q] = (q \in Installing \cup {p}
                                         => Installing = {})
      /\ UNCHANGED <<anchor, bundle, marker, saw, unsure, answered>>
  BY DEF InstallCall
<1>2. LoneHolds'
  <2> SUFFICES ASSUME NEW r \in Procs, tpc'[r] # "idle", lone'[r]
               PROVE  r = p /\ \A q \in Procs : q # p => tpc[q] = "idle"
    BY <1>1 DEF LoneHolds
  <2>1. r \in Installing \cup {p}
    BY <1>1 DEF Installing
  <2>2. Installing = {}
    BY <1>1, <2>1
  <2>3. QED
    BY <2>1, <2>2 DEF Installing
<1>3. AnsweredHolds'
  BY <1>1 DEF TrustInv, AnsweredHolds
<1>4. MarkedHolds'
  BY <1>1 DEF MarkedHolds
<1>5. QED
  BY <1>2, <1>3, <1>4 DEF TrustInv

\* The process dies, or the machine is made anew: main is to restore what the
\* marker asks for.
LEMMA DeathTrust ==
    ASSUME TypeOK, TrustInv, mpc' = "down",
           TrustDeath \/ (TrustRecreated /\ mpc = "down")
    PROVE  TrustInv'
<1>1. \A q \in Procs : tpc'[q] = "idle"
  BY DEF TypeOK, TrustTypeOK, Installing, TrustDeath, TrustRecreated
<1>2. LoneHolds' /\ MarkedHolds'
  BY <1>1 DEF LoneHolds, MarkedHolds
<1>3. AnsweredHolds'
  BY DEF TrustInv, AnsweredHolds, TrustDeath, TrustRecreated
<1>4. QED
  BY <1>2, <1>3 DEF TrustInv

\* Main goes on.
LEMMA QuietTrust ==
    ASSUME TrustInv, UNCHANGED trustVars,
           \/ mpc' \in {mpc, "load", "trust"}
           \/ mpc = "trust" /\ ~wantTrust
           \/ mpc \notin {"down", "load", "trust"}
    PROVE  TrustInv'
<1>1. UNCHANGED <<anchor, bundle, marker, tpc, saw, lone, unsure, answered>>
  BY DEF trustVars
<1>2. LoneHolds' /\ AnsweredHolds'
  BY <1>1 DEF TrustInv, LoneHolds, AnsweredHolds
<1>3. MarkedHolds'
  BY <1>1 DEF TrustInv, MarkedHolds, wantTrust
<1>4. QED
  BY <1>2, <1>3 DEF TrustInv

LEMMA NextTrust == ASSUME TypeOK, TrustInv, Next PROVE TrustInv'
<1>1. TrustTypeOK(Procs)
  BY DEF TypeOK
<1>2. QED
  BY <1>1, NextIsTrustStep, InstallTrust, BeginTrust, DeathTrust, QuietTrust
     DEF TrustStep

\* With no installation running and the last one to end neither failed nor
\* run beside another, the bundle holds what POST /ca/trust answered and what
\* the marker asks for, wherever processes died, whether or not the marker
\* could be written, and on a machine made anew.
THEOREM TrustAlwaysKept == Spec => []TrustKept
<1>1. Init => TrustInv
  BY DEF Init, TrustInit, TrustInv, LoneHolds, AnsweredHolds, MarkedHolds
<1>2. TypeOK /\ TrustInv /\ [Next]_vars => TrustInv'
  <2>1. TrustInv /\ UNCHANGED vars => TrustInv'
    BY QuietTrust DEF vars, lifeVars
  <2>2. QED
    BY <2>1, NextTrust
<1>3. TypeOK /\ TrustInv => TrustKept
  <2> SUFFICES ASSUME TypeOK, TrustInv, adm = "serving", Installing = {}, ~unsure
               PROVE  /\ answered => bundle
                      /\ wantTrust => anchor = "ca" /\ bundle
    BY DEF TrustKept
  <2>1. \A q \in Procs : tpc[q] = "idle"
    BY DEF TypeOK, TrustTypeOK, Installing
  <2>2. mpc \in {"listen", "up"}
    BY DEF TypeOK
  <2>3. QED
    BY <2>1, <2>2 DEF TrustInv, AnsweredHolds, MarkedHolds
<1>4. QED
  BY <1>1, <1>2, <1>3, LifecycleTypeCorrect, PTL DEF Spec

-----------------------------------------------------------------------------
(* The switch of the pin lab *)

\* What a step of the program is to the switch.
SwitchStep ==
    \/ \E p \in Workers : PinStep(p) /\ UNCHANGED <<mpc, adm>>
    \/ \E p \in Workers : PinFails(p) /\ UNCHANGED <<mpc, adm>>
    \/ \E p \in Workers, v \in BOOLEAN :
           SetPinBypass(p, v) /\ adm = "serving" /\ UNCHANGED <<mpc, adm>>
    \/ PinDeath /\ mpc' = "down" /\ adm' = "none"
    \/ /\ mpc = "load" /\ pin' = loadPinBypass
       /\ UNCHANGED <<pinFile, ppc, setting, alone, pinOk, adm>>
    \/ /\ UNCHANGED pinVars
       /\ adm = "serving" => adm' = "serving"
       /\ mpc' \in {mpc, "load"} \/ mpc \notin {"down", "load"}

LEMMA NextIsSwitchStep == ASSUME TypeOK, Next PROVE SwitchStep
<1>1. CASE main
  <2>1. CASE Load
    BY <2>1 DEF SwitchStep, Load, MainAt
  <2>2. CASE restoreCATrust \/ Capture \/ Listen
    BY <2>2 DEF SwitchStep, restoreCATrust, Capture, InstallRules,
                SpawnSignals, Listen, MainAt
  <2>3. CASE SpawnAdmin
    BY <2>3 DEF SwitchStep, SpawnAdmin, MainAt, TypeOK
  <2>4. CASE installCATrust(Main) /\ UNCHANGED <<pinVars, lifeVars, spent>>
    BY <2>4 DEF SwitchStep, lifeVars
  <2>5. QED
    BY <1>1, <2>1, <2>2, <2>3, <2>4 DEF main
<1>2. CASE Notify \/ AdminListen \/ ExecStop \/ Stopped \/ systemctlStop
           \/ RemoveRules \/ Recreate
  BY <1>2 DEF Notify, AdminListen, ExecStop, Stopped, systemctlStop,
              RemoveRules, Recreate, SwitchStep
<1>3. CASE Exit \/ Fatal \/ Crash \/ StopTimeout
  BY <1>3 DEF Exit, Fatal, Crash, StopTimeout, Dies, Ended, SwitchStep
<1>4. CASE systemctlStart \/ Restart \/ StartLimitHit \/ IntervalPasses
  BY <1>4 DEF systemctlStart, Restart, Start, StartLimitHit, IntervalPasses,
              SwitchStep
<1>5. CASE SendTerm \/ Interrupt
  BY <1>5 DEF SendTerm, Interrupt, Sigterm, Ended, SwitchStep
<1>6. CASE CallFails
  BY <1>6 DEF CallFails, lifeVars, SwitchStep
<1>7. ASSUME NEW p \in Workers, caTrust(p) \/ Served(p)
      PROVE  SwitchStep
  BY <1>7 DEF caTrust, Served, lifeVars, SwitchStep
<1>8. ASSUME NEW p \in Workers, NEW v \in BOOLEAN, pinBypass(p, v)
      PROVE  SwitchStep
  BY <1>8 DEF pinBypass, Free, lifeVars, SwitchStep
<1>9. QED
  BY <1>1, <1>2, <1>3, <1>4, <1>5, <1>6, <1>7, <1>8 DEF Next

\* What the next start would load is accounted for, unless a request is just
\* writing it.
LEMMA LoadedIsAccounted ==
    ASSUME PinTypeOK(Workers), Accounted,
           \A p \in Workers : ppc[p] # "write"
    PROVE  loadPinBypass \in pinOk
<1>1. CASE pinFile = "1"
  <2>1. loadPinBypass = TRUE
    BY <1>1 DEF loadPinBypass
  <2>2. QED
    BY <1>1, <2>1 DEF Accounted
<1>2. CASE pinFile # "1"
  <2>1. loadPinBypass = FALSE
    BY <1>2 DEF loadPinBypass
  <2>2. FALSE \in pinOk
    BY <1>2 DEF Accounted, PinTypeOK
  <2>3. QED
    BY <2>1, <2>2
<1>3. QED
  BY <1>1, <1>2

\* A request opens the file, writes it or is answered.
LEMMA StepPin ==
    ASSUME PinTypeOK(Workers), PinInv, UNCHANGED <<mpc, adm>>,
           NEW p \in Workers, PinStep(p)
    PROVE  PinInv'
<1> USE DEF PinTypeOK
<1>1. CASE PinOpen(p)
  <2>1. /\ ppc[p] = "open" /\ pinFile' = ""
        /\ ppc' = [ppc EXCEPT ![p] = "write"]
        /\ UNCHANGED <<pin, setting, alone, pinOk>>
    BY <1>1 DEF PinOpen
  <2>2. ppc'[p] = "write" /\ \A q \in Workers : q # p => ppc'[q] = ppc[q]
    BY <2>1
  <2>3. BusyIsServing'
    BY <2>1, <2>2 DEF PinInv, BusyIsServing
  <2>4. AloneHolds'
    <3>1. AloneHolds
      BY DEF PinInv
    <3>2. ASSUME NEW r \in Workers, ppc'[r] # "idle", alone'[r]
          PROVE  /\ \A q \in Workers : ppc'[q] # "idle" => q = r
                 /\ pin' = setting'[r]
                 /\ ppc'[r] = "reply" => r # p /\ ppc[r] = "reply"
      <4>1. ppc[r] # "idle" /\ alone[r]
        BY <2>1, <2>2, <3>2
      <4>2. (\A q \in Workers : ppc[q] # "idle" => q = r) /\ pin = setting[r]
        BY <3>1, <4>1 DEF AloneHolds
      <4>3. ASSUME NEW q \in Workers, ppc'[q] # "idle" PROVE ppc[q] # "idle"
        BY <2>1, <2>2, <4>3
      <4>4. QED
        BY <2>1, <2>2, <4>2, <4>3
    \* The request that opens the file is the only one, if one is alone.
    <3>3. ASSUME NEW r \in Workers, ppc'[r] # "idle", alone'[r] PROVE r = p
      BY <2>2, <3>2, <3>3
    <3>4. QED
      BY <3>2, <3>3 DEF AloneHolds
  <2>5. Accounted'
    BY <2>1, <2>2 DEF PinInv, Accounted
  <2>6. QED
    BY <2>3, <2>4, <2>5 DEF PinInv
<1>2. CASE PinWrite(p)
  <2>1. /\ ppc[p] = "write" /\ pinFile' = IF setting[p] THEN "1" ELSE "0"
        /\ ppc' = [ppc EXCEPT ![p] = "reply"]
        /\ UNCHANGED <<pin, setting, alone, pinOk>>
    BY <1>2 DEF PinWrite
  <2>2. ppc'[p] = "reply" /\ \A q \in Workers : q # p => ppc'[q] = ppc[q]
    BY <2>1
  <2>3. BusyIsServing'
    BY <2>1, <2>2 DEF PinInv, BusyIsServing
  <2>4. AloneHolds'
    BY <2>1, <2>2 DEF PinInv, AloneHolds
  <2>5. Accounted'
    <3>1. setting[p] \in pinOk /\ setting[p] \in BOOLEAN
      BY <2>1 DEF PinInv, Accounted
    <3>2. /\ pinFile' = "1" => TRUE \in pinOk'
          /\ pinFile' \in {"none", "0"} => FALSE \in pinOk'
          /\ pinFile' # ""
      BY <2>1, <3>1
    <3>3. \A q \in Workers : ppc'[q] # "idle" => setting'[q] \in pinOk'
      BY <2>1, <2>2 DEF PinInv, Accounted
    <3>4. QED
      BY <2>1, <3>2, <3>3 DEF PinInv, Accounted
  <2>6. QED
    BY <2>3, <2>4, <2>5 DEF PinInv
<1>3. CASE PinReply(p)
  <2>1. /\ ppc[p] = "reply"
        /\ ppc' = [ppc EXCEPT ![p] = "idle"]
        /\ pinOk' = IF alone[p] THEN {setting[p]} ELSE pinOk
        /\ setting' = [setting EXCEPT ![p] = FALSE]
        /\ alone' = [alone EXCEPT ![p] = TRUE]
        /\ UNCHANGED <<pin, pinFile>>
    BY <1>3 DEF PinReply
  <2>2. /\ ppc'[p] = "idle"
        /\ \A q \in Workers : q # p => /\ ppc'[q] = ppc[q]
                                       /\ setting'[q] = setting[q]
                                       /\ alone'[q] = alone[q]
    BY <2>1
  <2>3. BusyIsServing'
    BY <2>1, <2>2 DEF PinInv, BusyIsServing
  <2>4. AloneHolds'
    BY <2>1, <2>2 DEF PinInv, AloneHolds
  <2>5. Accounted'
    \* A request that met no other is the only one and has written the file.
    <3>1. CASE alone[p]
      <4>1. /\ pin' = setting[p]
            /\ pinFile' = IF setting[p] THEN "1" ELSE "0"
            /\ \A q \in Workers : ppc'[q] = "idle"
        BY <2>1, <2>2, <3>1 DEF PinInv, AloneHolds
      <4>2. pinOk' = {setting[p]} /\ setting[p] \in BOOLEAN
        BY <2>1, <3>1
      <4>3. /\ pinFile' = "1" => TRUE \in pinOk'
            /\ pinFile' \in {"none", "0"} => FALSE \in pinOk'
            /\ pinFile' # ""
        BY <4>1, <4>2
      <4>4. QED
        BY <4>1, <4>2, <4>3 DEF Accounted
    <3>2. CASE ~alone[p]
      BY <2>1, <2>2, <3>2 DEF PinInv, Accounted
    <3>3. QED
      BY <3>1, <3>2
  <2>6. QED
    BY <2>3, <2>4, <2>5 DEF PinInv
<1>4. QED
  BY <1>1, <1>2, <1>3 DEF PinStep

\* The file cannot be written: the error is ignored.
LEMMA FailPin ==
    ASSUME PinTypeOK(Workers), PinInv, UNCHANGED <<mpc, adm>>,
           NEW p \in Workers, PinFails(p)
    PROVE  PinInv'
<1> USE DEF PinTypeOK
<1>1. /\ ppc[p] \in {"open", "write"}
      /\ ppc' = [ppc EXCEPT ![p] = "reply"]
      /\ alone' = [alone EXCEPT ![p] = FALSE]
      /\ pinOk' = pinOk \cup {loadPinBypass}
      /\ UNCHANGED <<pin, pinFile, setting>>
  BY DEF PinFails
<1>2. /\ ppc'[p] = "reply" /\ alone'[p] = FALSE
      /\ \A q \in Workers : q # p => ppc'[q] = ppc[q] /\ alone'[q] = alone[q]
  BY <1>1
<1>3. BusyIsServing'
  BY <1>1, <1>2 DEF PinInv, BusyIsServing
<1>4. AloneHolds'
  BY <1>1, <1>2 DEF PinInv, AloneHolds
<1>5. Accounted'
  <2>1. pinFile = "" => FALSE \in pinOk'
    BY <1>1 DEF loadPinBypass
  <2>2. pinOk \subseteq pinOk'
    BY <1>1
  <2>3. QED
    BY <1>1, <1>2, <2>1, <2>2 DEF PinInv, Accounted
<1>6. QED
  BY <1>3, <1>4, <1>5 DEF PinInv

\* A request changes the switch in memory.
LEMMA SetPin ==
    ASSUME PinTypeOK(Workers), PinInv, UNCHANGED <<mpc, adm>>,
           NEW p \in Workers, NEW v \in BOOLEAN, SetPinBypass(p, v),
           adm = "serving"
    PROVE  PinInv'
<1> USE DEF PinTypeOK
<1>1. /\ ppc[p] = "idle" /\ pin' = v
      /\ setting' = [setting EXCEPT ![p] = v]
      /\ ppc' = [ppc EXCEPT ![p] = "open"]
      /\ alone' = [q \in Workers |-> q \in Setting \cup {p} => Setting = {}]
      /\ pinOk' = pinOk \cup {v} /\ UNCHANGED pinFile
  BY DEF SetPinBypass
<1>2. /\ ppc'[p] = "open" /\ setting'[p] = v
      /\ \A q \in Workers :
             q # p => ppc'[q] = ppc[q] /\ setting'[q] = setting[q]
  BY <1>1
<1>3. BusyIsServing'
  BY <1>1, <1>2 DEF PinInv, BusyIsServing
<1>4. AloneHolds'
  <2>1. ASSUME NEW q \in Workers, ppc'[q] # "idle", alone'[q]
        PROVE  \A r \in Workers : r # p => ppc[r] = "idle"
    <3>1. q \in Setting \cup {p}
      BY <2>1, <1>2 DEF Setting
    <3>2. Setting = {}
      BY <2>1, <3>1, <1>1
    <3>3. QED
      BY <3>2 DEF Setting
  <2>2. QED
    BY <1>1, <1>2, <2>1 DEF AloneHolds
<1>5. Accounted'
  <2>1. pinOk \subseteq pinOk' /\ v \in pinOk'
    BY <1>1
  <2>2. QED
    BY <1>1, <1>2, <2>1 DEF PinInv, Accounted
<1>6. QED
  BY <1>3, <1>4, <1>5 DEF PinInv

\* The process dies.
LEMMA DeathPin ==
    ASSUME PinTypeOK(Workers), PinInv, PinDeath, mpc' = "down", adm' = "none"
    PROVE  PinInv'
<1>1. /\ \A q \in Workers : ppc'[q] = "idle"
      /\ pinOk' = IF pinFile = "" THEN pinOk \cup {FALSE} ELSE pinOk
      /\ UNCHANGED pinFile
  BY DEF PinDeath, PinTypeOK
<1>2. BusyIsServing' /\ AloneHolds'
  BY <1>1 DEF BusyIsServing, AloneHolds
<1>3. Accounted'
  BY <1>1 DEF PinInv, Accounted, PinTypeOK
<1>4. QED
  BY <1>2, <1>3 DEF PinInv

\* A start reads the file; no request is served yet.
LEMMA LoadPin ==
    ASSUME TypeOK, PinInv, mpc = "load", pin' = loadPinBypass,
           UNCHANGED <<pinFile, ppc, setting, alone, pinOk, adm>>
    PROVE  PinInv'
<1>1. \A q \in Workers : ppc[q] = "idle"
  BY DEF PinInv, BusyIsServing, TypeOK
<1>2. pin' \in pinOk'
  BY <1>1, LoadedIsAccounted DEF PinInv, TypeOK
<1>3. BusyIsServing' /\ AloneHolds'
  BY <1>1 DEF BusyIsServing, AloneHolds
<1>4. Accounted'
  BY <1>1, <1>2 DEF PinInv, Accounted
<1>5. QED
  BY <1>3, <1>4 DEF PinInv

LEMMA QuietPin ==
    ASSUME PinInv, UNCHANGED pinVars,
           adm = "serving" => adm' = "serving",
           mpc' \in {mpc, "load"} \/ mpc \notin {"down", "load"}
    PROVE  PinInv'
<1>1. UNCHANGED <<pin, pinFile, ppc, setting, alone, pinOk>>
  BY DEF pinVars
<1>2. BusyIsServing' /\ AloneHolds'
  BY <1>1 DEF PinInv, BusyIsServing, AloneHolds
<1>3. Accounted'
  BY <1>1 DEF PinInv, Accounted
<1>4. QED
  BY <1>2, <1>3 DEF PinInv

LEMMA NextPin == ASSUME TypeOK, PinInv, Next PROVE PinInv'
<1>1. PinTypeOK(Workers)
  BY DEF TypeOK
<1>2. QED
  BY <1>1, NextIsSwitchStep, StepPin, FailPin, SetPin, DeathPin, LoadPin,
     QuietPin DEF SwitchStep

\* The switch has in memory, and the file holds for the next start, only what
\* was asked for by a request that no later undisturbed one has replaced,
\* although App.SetPinBypass writes the file after it has released the lock.
THEOREM PinAlwaysKept == Spec => []PinKept
<1>1. Init => PinInv
  BY DEF Init, PinInit, PinInv, BusyIsServing, AloneHolds, Accounted
<1>2. TypeOK /\ PinInv /\ [Next]_vars => PinInv'
  <2>1. PinInv /\ UNCHANGED vars => PinInv'
    BY QuietPin DEF vars, lifeVars
  <2>2. QED
    BY <2>1, NextPin
<1>3. TypeOK /\ PinInv => PinKept
  <2> SUFFICES ASSUME TypeOK, PinInv PROVE PinKept
    OBVIOUS
  <2>1. adm = "serving" => pin \in pinOk
    BY DEF TypeOK, PinInv, Accounted
  <2>2. Setting = {} => loadPinBypass \in pinOk
    BY LoadedIsAccounted DEF TypeOK, PinTypeOK, PinInv, Setting
  <2>3. QED
    BY <2>1, <2>2 DEF PinKept
<1>4. QED
  BY <1>1, <1>2, <1>3, LifecycleTypeCorrect, PTL DEF Spec

=============================================================================
