----------------------------- MODULE PinBypass -----------------------------
(***************************************************************************)
(* The switch of the pin lab (app.go): App.pinBypass in memory, and the    *)
(* file pin-bypass from which a start reads it.  SetPinBypass changes      *)
(* memory under App.mu and writes the file after it has released the lock. *)
(***************************************************************************)
VARIABLES
    pin,      \* App.pinBypass
    pinFile,  \* the file pin-bypass: "none", "" (truncated), "0" or "1"
    ppc,      \* ppc[p]: where the request of goroutine p is
    setting,  \* setting[p]: the value p has been asked to set
    alone,    \* history: p's request met no other and no failure
    pinOk     \* history: the values that the requests answered last, and
              \* those still running, account for

pinVars == <<pin, pinFile, ppc, setting, alone, pinOk>>

PinInit(Procs) ==
    /\ pin = FALSE /\ pinFile = "none"
    /\ ppc = [p \in Procs |-> "idle"]
    /\ setting = [p \in Procs |-> FALSE]
    /\ alone = [p \in Procs |-> TRUE]
    /\ pinOk = {FALSE}

Setting == {p \in DOMAIN ppc : ppc[p] # "idle"}

\* A file that cannot be read, or holds anything but "1": the switch is off.
loadPinBypass == pinFile = "1"

\* SetPinBypass up to the unlock.
SetPinBypass(p, v) ==
    /\ ppc[p] = "idle"
    /\ pin' = v
    /\ setting' = [setting EXCEPT ![p] = v]
    /\ ppc' = [ppc EXCEPT ![p] = "open"]
    /\ alone' = [q \in DOMAIN alone |->
                    q \in Setting \cup {p} => Setting = {}]
    /\ pinOk' = pinOk \cup {v}
    /\ UNCHANGED pinFile

PinOpen(p) ==
    /\ ppc[p] = "open"
    /\ pinFile' = ""
    /\ ppc' = [ppc EXCEPT ![p] = "write"]
    /\ UNCHANGED <<pin, setting, alone, pinOk>>

\* Fault variant: the value is written whatever was asked.
PinWriteOn(p) ==
    /\ ppc[p] = "write"
    /\ pinFile' = "1"
    /\ ppc' = [ppc EXCEPT ![p] = "reply"]
    /\ UNCHANGED <<pin, setting, alone, pinOk>>

PinWrite(p) ==
    /\ ppc[p] = "write"
    /\ pinFile' = IF setting[p] THEN "1" ELSE "0"
    /\ ppc' = [ppc EXCEPT ![p] = "reply"]
    /\ UNCHANGED <<pin, setting, alone, pinOk>>

\* The error of os.WriteFile is ignored.
PinFails(p) ==
    /\ ppc[p] \in {"open", "write"}
    /\ ppc' = [ppc EXCEPT ![p] = "reply"]
    /\ alone' = [alone EXCEPT ![p] = FALSE]
    /\ pinOk' = pinOk \cup {loadPinBypass}
    /\ UNCHANGED <<pin, pinFile, setting>>

\* The answer, which reads the switch once more.  A request that met no other
\* has put all earlier ones out of date.
PinReply(p) ==
    /\ ppc[p] = "reply"
    /\ ppc' = [ppc EXCEPT ![p] = "idle"]
    /\ pinOk' = IF alone[p] THEN {setting[p]} ELSE pinOk
    /\ setting' = [setting EXCEPT ![p] = FALSE]
    /\ alone' = [alone EXCEPT ![p] = TRUE]
    /\ UNCHANGED <<pin, pinFile>>

PinStep(p) == PinOpen(p) \/ PinWrite(p) \/ PinReply(p)

PinDeath ==
    /\ ppc' = [p \in DOMAIN ppc |-> "idle"]
    /\ setting' = [p \in DOMAIN setting |-> FALSE]
    /\ alone' = [p \in DOMAIN alone |-> TRUE]
    /\ pin' = FALSE
    /\ pinOk' = IF pinFile = "" THEN pinOk \cup {FALSE} ELSE pinOk
    /\ UNCHANGED pinFile

PinTypeOK(Procs) ==
    /\ pin \in BOOLEAN /\ pinFile \in {"none", "", "0", "1"}
    /\ ppc \in [Procs -> {"idle", "open", "write", "reply"}]
    /\ setting \in [Procs -> BOOLEAN] /\ alone \in [Procs -> BOOLEAN]
    /\ pinOk \subseteq BOOLEAN

=============================================================================
