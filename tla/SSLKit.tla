------------------------------- MODULE SSLKit -------------------------------
(***************************************************************************)
(* The SSL kit store (sslkit.go) and its two admin endpoints (admin.go):   *)
(* per host, what the patched TLS client shall do, and the certificate     *)
(* captured from the origin.  Put and Capture change the map and write     *)
(*                                                                         *)
(*     sslkit.json        the map, read back by the next start             *)
(*     skytap-ssl.conf    what the patched client reads                    *)
(*                                                                         *)
(* one after the other, ignoring errors, all under one mutex.  Get and All *)
(* refresh the map from the origin cache and write nothing.  The download  *)
(* of a certificate, gomitm.DumpOriginChain, happens outside the mutex.    *)
(*                                                                         *)
(* SPKI, subject and issuer of a certificate are only ever set together:   *)
(* they are one value, cert.  encoding/json gives every field of a policy  *)
(* back as it was (an omitted empty string is read as the empty string),   *)
(* so that sslkit.json is the map, or a file that load() does not accept.  *)
(***************************************************************************)
EXTENDS KitFile

CONSTANTS
    Names,         \* host names as requests spell them
    Norm,          \* Norm[n]: strings.ToLower(strings.TrimSpace(n))
    Workers,       \* goroutines that may be serving a request
    Starter,       \* the main goroutine, in NewSSLKitStore
    Nobody,        \* the mutex is free
    PolicyInputs,  \* policies that POST /sslkit may carry
    DumpDir,       \* is gomitm.OriginDumpDir() set?
    NoMap,         \* the file does not exist
    TornMap,       \* the file is truncated or unreadable
    MaxKitFaults,  \* bound on failing writes
    MaxKitCrashes  \* bound on crashes

Absent == [listed |-> FALSE]    \* the key is not in the map

Policy == [set : Settings, captured : BOOLEAN, cert : Certs \cup {NoCert}]

\* The policy a request carries: pin and verify may be left out.
PolicyInput == [kit : BOOLEAN, impersonate : BOOLEAN,
                pin : {"", "off", "on"}, verify : {"", "ca", "none"},
                captured : BOOLEAN, cert : Certs \cup {NoCert}]

HostMap  == [KitHosts -> Policy \cup {Absent}]
EmptyMap == [h \in KitHosts |-> Absent]

ASSUME SSLKitAssumption ==
    /\ Norm \in [Names -> KitHosts]
    /\ Starter \notin Workers /\ Nobody \notin Workers \cup {Starter}
    /\ PolicyInputs \subseteq PolicyInput
    /\ DumpDir \in BOOLEAN
    /\ NoMap \notin HostMap /\ TornMap \notin HostMap /\ NoMap # TornMap
    /\ MaxKitFaults \in Nat /\ MaxKitCrashes \in Nat

VARIABLES
    kphase,    \* "down", "boot" (in NewSSLKitStore), "up"
    hosts,     \* SSLKitStore.hosts
    mu,        \* the holder of SSLKitStore.mu
    kpc,       \* kpc[w]: where goroutine w is
    capturing, \* capturing[w]: the host whose certificate w has downloaded
    json,      \* sslkit.json
    kfaults, kcrashes,
    behind,    \* history: the files whose last write failed
    lost,      \* history: a crash may have cost a change
    asked      \* history: the settings last asked for each host

kitVars == <<kphase, hosts, mu, kpc, capturing, origin, json, conf, kfaults,
             kcrashes, behind, lost, asked>>

\* What no step of a save but the write itself changes.
storeVars == <<hosts, origin, capturing, kcrashes, lost, asked>>

Listed(m) == {h \in KitHosts : m[h] # Absent}

-----------------------------------------------------------------------------
(* What is written to skytap-ssl.conf. *)

SettingsIn(m) == [h \in KitHosts |-> IF m[h] = Absent THEN Absent ELSE m[h].set]

\* The text of writeClientConfLocked.  Put and Capture store no policy
\* without a pin and a verify mode, so that both lists hold every host.
ClientConf(m) == ConfText(Listed(m), SettingsIn(m))

\* load(): a file that cannot be read leaves the map empty.
load(file) == IF file \in {NoMap, TornMap} THEN EmptyMap ELSE file

-----------------------------------------------------------------------------
(* The policy of one host. *)

\* The default modes that Put and Capture fill in.
PutDefaults(p) ==
    [kit         |-> p.kit,
     impersonate |-> p.impersonate,
     pin         |-> IF p.pin = "" THEN "off" ELSE p.pin,
     verify      |-> IF p.verify = "" THEN "ca" ELSE p.verify]

ZeroSettings == [kit |-> FALSE, impersonate |-> FALSE, pin |-> "off",
                 verify |-> "ca"]

\* The certificate of a listed host, or that of Go's zero HostSSLPolicy.
CertOf(h) ==
    IF hosts[h] = Absent THEN [captured |-> FALSE, cert |-> NoCert]
    ELSE [captured |-> hosts[h].captured, cert |-> hosts[h].cert]

\* Fault variant: the certificate is taken from the request alone.
MergeForgets(h, p) ==
    [set |-> PutDefaults(p), captured |-> CertOf(h).captured, cert |-> p.cert]

\* Put keeps the stored certificate unless the request brings one.
Merge(h, p) ==
    LET c == IF p.cert = NoCert THEN CertOf(h)
             ELSE [captured |-> p.captured, cert |-> p.cert]
    IN [set |-> PutDefaults(p), captured |-> c.captured, cert |-> c.cert]

\* The origin cache holds a certificate for h.
HasPem(h) == DumpDir /\ origin[h] \in Certs

\* What refreshLocked returns.
refreshLocked(h, p) ==
    IF HasPem(h) THEN [p EXCEPT !.cert = origin[h], !.captured = TRUE]
    ELSE IF DumpDir /\ origin[h] = NoCert THEN [p EXCEPT !.captured = FALSE]
    ELSE p

-----------------------------------------------------------------------------
(* Saving: persistLocked, entered with the mutex held. *)

Failing == kfaults < MaxKitFaults /\ kfaults' = kfaults + 1

Goto(w, l) == kpc' = [kpc EXCEPT ![w] = l]

\* Fault variant: the mutex is not released.
LeaveLocked(w) ==
    /\ mu' = mu
    /\ Goto(w, "idle")
    /\ kphase' = IF w = Starter THEN "up" ELSE kphase

\* The end of writeClientConfLocked, the release of the mutex and the return.
Leave(w) ==
    /\ mu' = Nobody
    /\ Goto(w, "idle")
    /\ kphase' = IF w = Starter THEN "up" ELSE kphase

\* os.WriteFile of sslkit.json: opening it truncates it ...
OpenJson(w) ==
    /\ kpc[w] = "openJson"
    /\ \/ json' = TornMap /\ Goto(w, "writeJson") /\ UNCHANGED <<kfaults, behind>>
       \/ /\ Failing /\ behind' = behind \cup {"json"}
          /\ Goto(w, "openConf") /\ UNCHANGED json
    /\ UNCHANGED <<storeVars, kphase, mu, conf>>

\* Fault variant: the client's file is forgotten.
WriteJsonOnly(w) ==
    /\ kpc[w] = "writeJson"
    /\ json' = hosts
    /\ behind' = behind \ {"json"}
    /\ Leave(w)
    /\ UNCHANGED <<storeVars, kfaults, conf>>

\* ... then the map is written.  Nothing looks at the error.
WriteJson(w) ==
    /\ kpc[w] = "writeJson"
    /\ \/ json' = hosts /\ behind' = behind \ {"json"} /\ UNCHANGED kfaults
       \/ Failing /\ behind' = behind \cup {"json"} /\ UNCHANGED json
    /\ Goto(w, "openConf")
    /\ UNCHANGED <<storeVars, kphase, mu, conf>>

\* Fault variant: the file is opened without O_TRUNC.
OpenConfKeeps(w) ==
    /\ kpc[w] = "openConf"
    /\ Goto(w, "writeConf")
    /\ UNCHANGED <<storeVars, kfaults, behind, mu, kphase, json, conf>>

\* The directory is made and skytap-ssl.conf opened, truncating it ...
OpenConf(w) ==
    /\ kpc[w] = "openConf"
    /\ \/ /\ conf' = EmptyConf
          /\ Goto(w, "writeConf")
          /\ UNCHANGED <<kfaults, behind, mu, kphase>>
       \/ Failing /\ behind' = behind \cup {"conf"} /\ Leave(w) /\ UNCHANGED conf
    /\ UNCHANGED <<storeVars, json>>

\* ... then written: a first part of the text may get into the file before
\* the rest does, and is left there by an error or a crash in between.
WritePart(w) ==
    /\ kpc[w] = "writeConf"
    /\ conf = EmptyConf
    /\ conf' \in Parts(ClientConf(hosts))
    /\ UNCHANGED <<storeVars, kphase, mu, kpc, json, kfaults, behind>>

WriteConf(w) ==
    /\ kpc[w] = "writeConf"
    /\ \/ conf' = ClientConf(hosts) /\ behind' = behind \ {"conf"} /\ UNCHANGED kfaults
       \/ Failing /\ behind' = behind \cup {"conf"} /\ UNCHANGED conf
    /\ Leave(w)
    /\ UNCHANGED <<storeVars, json>>

persistLocked(w) ==
    OpenJson(w) \/ WriteJson(w) \/ OpenConf(w) \/ WritePart(w) \/ WriteConf(w)

-----------------------------------------------------------------------------
(* The requests. *)

\* The mutex is taken and the policy of h stored; the save follows.
Store(w, h, p) ==
    /\ mu = Nobody
    /\ mu' = w
    /\ hosts' = [hosts EXCEPT ![h] = refreshLocked(h, p)]
    /\ asked' = [asked EXCEPT ![h] = p.set]
    /\ Goto(w, "openJson")
    /\ UNCHANGED <<kphase, origin, json, conf, kfaults, kcrashes, behind, lost>>

\* POST /sslkit
Put(w) ==
    /\ kphase = "up" /\ kpc[w] = "idle"
    /\ \E n \in Names, p \in PolicyInputs :
           Store(w, Norm[n], Merge(Norm[n], p))
    /\ UNCHANGED capturing

\* POST /sslkit/capture: gomitm.DumpOriginChain fills the cache, without
\* the mutex, or fails, and the request with it.
CaptureDump(w) ==
    /\ kphase = "up" /\ kpc[w] = "idle"
    /\ \E n \in Names, c \in Certs :
           /\ Norm[n] # NoHost
           /\ origin' = [origin EXCEPT ![Norm[n]] = IF DumpDir THEN c ELSE @]
           /\ capturing' = [capturing EXCEPT ![w] = Norm[n]]
    /\ Goto(w, "capture")
    /\ UNCHANGED <<kphase, hosts, mu, json, conf, kfaults, kcrashes, behind,
                   lost, asked>>

\* Fault variant: a policy of its own instead of the stored one.
CapturedAfresh(h) ==
    [set |-> ZeroSettings, captured |-> FALSE, cert |-> NoCert]

\* The policy Capture starts from: that of the host now, not at the call.
Captured(h) ==
    [set      |-> IF hosts[h] = Absent THEN ZeroSettings ELSE hosts[h].set,
     captured |-> CertOf(h).captured,
     cert     |-> CertOf(h).cert]

CaptureStore(w) ==
    /\ kpc[w] = "capture"
    /\ LET h == capturing[w] IN
       /\ mu = Nobody
       /\ mu' = w
       /\ hosts' = [hosts EXCEPT ![h] = refreshLocked(h, Captured(h))]
       /\ asked' = [asked EXCEPT ![h] = IF @ = Absent THEN ZeroSettings ELSE @]
    /\ capturing' = [capturing EXCEPT ![w] = NoHost]
    /\ Goto(w, "openJson")
    /\ UNCHANGED <<kphase, origin, json, conf, kfaults, kcrashes, behind, lost>>

\* GET /sslkit, with a host (Get) or without (All): the listed hosts S are
\* refreshed, in memory only, and only where the cache has a certificate.
Refresh(S) ==
    /\ kphase = "up" /\ mu = Nobody
    /\ hosts' = [h \in KitHosts |->
                    IF h \in S \cap Listed(hosts) /\ HasPem(h)
                    THEN refreshLocked(h, hosts[h]) ELSE hosts[h]]
    /\ UNCHANGED <<kphase, mu, kpc, capturing, origin, json, conf, kfaults,
                   kcrashes, behind, lost, asked>>

Get == \E n \in Names : Refresh({Norm[n]})
All == Refresh(KitHosts)

-----------------------------------------------------------------------------
(* Start, crash, and the engine, which fills the origin cache as well. *)

\* NewSSLKitStore: load, then writeClientConf.
NewSSLKitStore ==
    /\ kphase = "down"
    /\ kphase' = "boot"
    /\ hosts' = load(json)
    /\ mu' = Starter
    /\ Goto(Starter, "openConf")
    /\ behind' = {}
    /\ asked' = IF lost
                THEN SettingsIn(load(json)) ELSE asked
    /\ lost' = FALSE
    /\ UNCHANGED <<capturing, origin, json, conf, kfaults, kcrashes>>

KitCrash ==
    /\ kphase # "down" /\ kcrashes < MaxKitCrashes
    /\ kcrashes' = kcrashes + 1
    /\ kphase' = "down"
    /\ lost' = (mu \in Workers \/ "json" \in behind)
    /\ hosts' = EmptyMap
    /\ mu' = Nobody
    /\ kpc' = [w \in Workers \cup {Starter} |-> "idle"]
    /\ capturing' = [w \in Workers |-> NoHost]
    /\ UNCHANGED <<origin, json, conf, kfaults, behind, asked>>

\* gomitm dumps the certificate of an origin it meets, or the file is removed
\* or damaged.
EngineDump ==
    /\ DumpDir
    /\ \E h \in KitHosts \ {NoHost}, c \in Certs \cup {NoCert, BadPem} :
           origin' = [origin EXCEPT ![h] = c]
    /\ UNCHANGED <<kphase, hosts, mu, kpc, capturing, json, conf, kfaults,
                   kcrashes, behind, lost, asked>>

KitInit ==
    /\ kphase = "down"
    /\ hosts = EmptyMap
    /\ mu = Nobody
    /\ kpc = [w \in Workers \cup {Starter} |-> "idle"]
    /\ capturing = [w \in Workers |-> NoHost]
    /\ origin = [h \in KitHosts |-> NoCert]
    /\ json = NoMap
    /\ conf = EmptyConf
    /\ kfaults = 0 /\ kcrashes = 0
    /\ behind = {} /\ lost = FALSE
    /\ asked = EmptyMap

\* A step of one goroutine of the program.
KitStep(w) ==
    \/ persistLocked(w)
    \/ w \in Workers /\ (Put(w) \/ CaptureDump(w) \/ CaptureStore(w))

KitNext ==
    \/ NewSSLKitStore
    \/ \E w \in Workers \cup {Starter} : KitStep(w)
    \/ Get
    \/ All
    \/ KitCrash
    \/ EngineDump

KitSpec == KitInit /\ [][KitNext]_kitVars

-----------------------------------------------------------------------------
(* Properties. *)

\* Every variable has its type, and the mutex is held by exactly the
\* goroutine that is saving.
KitTypeOK ==
    /\ kphase \in {"down", "boot", "up"}
    /\ hosts \in HostMap
    /\ mu \in Workers \cup {Starter, Nobody}
    /\ kpc \in [Workers \cup {Starter} ->
                   {"idle", "capture", "openJson", "writeJson", "openConf",
                    "writeConf"}]
    /\ capturing \in [Workers -> KitHosts]
    /\ origin \in [KitHosts -> Certs \cup {NoCert, BadPem}]
    /\ json \in HostMap \cup {NoMap, TornMap}
    /\ conf \in AnyText
    /\ kfaults \in 0..MaxKitFaults /\ kcrashes \in 0..MaxKitCrashes
    /\ behind \subseteq {"json", "conf"} /\ lost \in BOOLEAN
    /\ asked \in [KitHosts -> Settings \cup {Absent}]
    /\ \A w \in Workers \cup {Starter} :
           mu = w <=> kpc[w] \notin {"idle", "capture"}

\* Whenever no save runs and no write failed, the patched client's file says
\* what the map says, and a restart would read back the same settings:
\* although Get and All change the map without saving, a crash may have hit
\* any earlier save, and sslkit.json is written before skytap-ssl.conf.
FilesFollowMemory ==
    kphase = "up" /\ mu = Nobody =>
        /\ "conf" \notin behind => conf = ClientConf(hosts)
        /\ "json" \notin behind => SettingsIn(load(json)) = SettingsIn(hosts)

\* The settings in force are the ones last asked for: a Capture that was
\* downloading while a Put changed them, a refresh, or a restart after a
\* crash between two saves does not bring older ones back.
SettingsKept ==
    kphase = "up" => SettingsIn(hosts) = asked

\* A host shown as captured has a certificate to show.
CapturedHasCert ==
    \A h \in Listed(hosts) : hosts[h].captured => hosts[h].cert # NoCert

=============================================================================
