----------------------------- MODULE KitProofs -----------------------------
(***************************************************************************)
(* Proofs about the SSL kit store, for any hosts, spellings, certificates  *)
(* and policies, any number of goroutines, failed writes and crashes;      *)
(* about the policy of the patched TLS client, for any number of threads   *)
(* and SSL objects, any policies that the store may write and any way a    *)
(* long list is cut; and about the two together.                           *)
(***************************************************************************)
EXTENDS SSLKit, SSLClient, FiniteSetTheorems, TLAPS

Goroutines == Workers \cup {Starter}

-----------------------------------------------------------------------------
(* The operators the store is built from.                                  *)

\* A policy is never taken for a missing entry of the map.
LEMMA PolicyPresent == \A p \in Policy : p # Absent
<1> SUFFICES ASSUME NEW p \in Policy, p = Absent PROVE FALSE
  OBVIOUS
<1>1. DOMAIN p = {"set", "captured", "cert"}
  BY DEF Policy
<1>2. DOMAIN Absent = {"listed"}
  BY DEF Absent
<1> QED BY <1>1, <1>2

LEMMA SettingsPresent == \A s \in Settings : s # Absent
<1> SUFFICES ASSUME NEW s \in Settings, s = Absent PROVE FALSE
  OBVIOUS
<1>1. DOMAIN s = {"kit", "impersonate", "pin", "verify"}
  BY DEF Settings
<1>2. DOMAIN Absent = {"listed"}
  BY DEF Absent
<1> QED BY <1>1, <1>2

\* load gives a map, whatever state the file is in.
LEMMA LoadType ==
    ASSUME NEW file \in HostMap \cup {NoMap, TornMap}
    PROVE  load(file) \in HostMap
BY DEF load, HostMap, EmptyMap

LEMMA LoadMap ==
    ASSUME NEW m \in HostMap
    PROVE  load(m) = m
BY SSLKitAssumption DEF load

\* refreshLocked touches the certificate of a policy and nothing else.
LEMMA RefreshFacts ==
    ASSUME NEW h \in KitHosts, NEW p \in Policy
    PROVE  /\ refreshLocked(h, p) \in Policy
           /\ refreshLocked(h, p).set = p.set
           /\ (p.captured => p.cert # NoCert) =>
                 (refreshLocked(h, p).captured => refreshLocked(h, p).cert # NoCert)
BY KitFileAssumption DEF refreshLocked, HasPem, Policy

\* What Put stores: the settings asked for, with their defaults, and a
\* certificate if it is to be shown as captured.
LEMMA MergeFacts ==
    ASSUME hosts \in HostMap, NEW h \in KitHosts, NEW p \in PolicyInputs
    PROVE  /\ Merge(h, p) \in Policy
           /\ CapturedHasCert => (Merge(h, p).captured => Merge(h, p).cert # NoCert)
<1>1. p \in PolicyInput
  BY SSLKitAssumption
<1>2. PutDefaults(p) \in Settings
  BY <1>1 DEF PutDefaults, Settings, PolicyInput
<1>3. hosts[h] \in Policy \cup {Absent}
  BY DEF HostMap
<1>4. CertOf(h).captured \in BOOLEAN /\ CertOf(h).cert \in Certs \cup {NoCert}
  BY <1>3 DEF CertOf, Policy
<1>5. CapturedHasCert => (CertOf(h).captured => CertOf(h).cert # NoCert)
  BY <1>3 DEF CertOf, CapturedHasCert, Listed
<1> QED BY <1>1, <1>2, <1>4, <1>5 DEF Merge, Policy, PolicyInput

\* What Capture stores before the refresh: the settings the host has.
LEMMA CapturedFacts ==
    ASSUME hosts \in HostMap, NEW h \in KitHosts
    PROVE  /\ Captured(h) \in Policy
           /\ Captured(h).set = IF hosts[h] = Absent THEN ZeroSettings ELSE hosts[h].set
           /\ CapturedHasCert => (Captured(h).captured => Captured(h).cert # NoCert)
<1>1. hosts[h] \in Policy \cup {Absent}
  BY DEF HostMap
<1>2. ZeroSettings \in Settings
  BY DEF ZeroSettings, Settings
<1>3. CertOf(h).captured \in BOOLEAN /\ CertOf(h).cert \in Certs \cup {NoCert}
  BY <1>1 DEF CertOf, Policy
<1>4. CapturedHasCert => (CertOf(h).captured => CertOf(h).cert # NoCert)
  BY <1>1 DEF CertOf, CapturedHasCert, Listed
<1> QED BY <1>1, <1>2, <1>3, <1>4 DEF Captured, Policy

\* The settings in a map are settings, and name the hosts it lists.
LEMMA SettingsInFacts ==
    ASSUME NEW m \in HostMap
    PROVE  /\ SettingsIn(m) \in [KitHosts -> Settings \cup {Absent}]
           /\ Listed(m) = {h \in KitHosts : SettingsIn(m)[h] # Absent}
           /\ \A h \in Listed(m) : SettingsIn(m)[h] \in Settings
<1>1. \A h \in KitHosts : m[h] \in Policy \cup {Absent}
  BY DEF HostMap
<1>2. \A h \in KitHosts : m[h] # Absent => m[h].set \in Settings
  BY <1>1 DEF Policy
<1> QED BY <1>2, SettingsPresent DEF SettingsIn, Listed

\* Storing a policy changes the settings of its host.
LEMMA SettingsInExcept ==
    ASSUME NEW m \in HostMap, NEW h \in KitHosts, NEW p \in Policy
    PROVE  /\ [m EXCEPT ![h] = p] \in HostMap
           /\ SettingsIn([m EXCEPT ![h] = p]) = [SettingsIn(m) EXCEPT ![h] = p.set]
BY PolicyPresent DEF HostMap, SettingsIn

\* The text of the client's file follows from the settings alone.
LEMMA ClientConfFollows ==
    ASSUME NEW m \in HostMap, NEW n \in HostMap, SettingsIn(m) = SettingsIn(n)
    PROVE  ClientConf(m) = ClientConf(n)
<1>1. Listed(m) = Listed(n)
  BY SettingsInFacts
<1> QED BY <1>1 DEF ClientConf

\* The text that writeClientConfLocked writes is that of one policy map.
LEMMA ClientConfWritten ==
    ASSUME NEW m \in HostMap
    PROVE  ClientConf(m) \in WrittenConf
<1> DEFINE L == Listed(m)
           set == [h \in L |-> SettingsIn(m)[h]]
<1>1. L \in SUBSET KitHosts
  BY DEF Listed
<1>2. set \in [L -> Settings]
  BY SettingsInFacts
<1>3. \A h \in L : set[h] = SettingsIn(m)[h]
  OBVIOUS
<1>4. ConfText(L, set) = ConfText(L, SettingsIn(m))
  <2> HIDE DEF L, set
  <2>1. {h \in L : set[h].impersonate} = {h \in L : SettingsIn(m)[h].impersonate}
    BY <1>3
  <2>2. {h \in L : set[h].kit} = {h \in L : SettingsIn(m)[h].kit}
    BY <1>3
  <2>3. {<<h, set[h].pin>> : h \in L} = {<<h, SettingsIn(m)[h].pin>> : h \in L}
    BY <1>3
  <2>4. {<<h, set[h].verify>> : h \in L} = {<<h, SettingsIn(m)[h].verify>> : h \in L}
    BY <1>3
  <2> QED BY <2>1, <2>2, <2>3, <2>4 DEF ConfText
<1>5. ConfText(L, set) \in WrittenConf
  BY <1>1, <1>2 DEF WrittenConf
<1> QED BY <1>4, <1>5 DEF ClientConf

\* Nothing and all of a text are parts of it.
LEMMA PartsFacts ==
    ASSUME NEW f
    PROVE  EmptyConf \in Parts(f) /\ f \in Parts(f)
BY DEF Parts

LEMMA TextParts ==
    ASSUME NEW C, NEW f \in C, NEW p \in Parts(f)
    PROVE  p \in FileTexts(C)
BY DEF FileTexts

-----------------------------------------------------------------------------
(* Types, and who holds the mutex.                                         *)

\* Nothing of a process is left after its end, and the mutex is the main
\* goroutine's exactly while it is in NewSSLKitStore.
PhaseInv ==
    /\ kphase = "down" => \A w \in Goroutines : kpc[w] = "idle"
    /\ kphase = "boot" <=> mu = Starter
    /\ kpc[Starter] \in {"idle", "openConf", "writeConf"}

\* The part of KitTypeOK that is about the mutex, and the rest.
LockOK ==
    /\ kphase \in {"down", "boot", "up"}
    /\ mu \in Goroutines \cup {Nobody}
    /\ kpc \in [Goroutines -> {"idle", "capture", "openJson", "writeJson",
                               "openConf", "writeConf"}]
    /\ \A w \in Goroutines : mu = w <=> kpc[w] \notin {"idle", "capture"}

StoreOK ==
    /\ hosts \in HostMap
    /\ capturing \in [Workers -> KitHosts]
    /\ origin \in [KitHosts -> Certs \cup {NoCert, BadPem}]
    /\ json \in HostMap \cup {NoMap, TornMap}
    /\ conf \in AnyText
    /\ kfaults \in 0..MaxKitFaults /\ kcrashes \in 0..MaxKitCrashes
    /\ behind \subseteq {"json", "conf"} /\ lost \in BOOLEAN
    /\ asked \in [KitHosts -> Settings \cup {Absent}]

LEMMA TypeParts == KitTypeOK <=> LockOK /\ StoreOK
BY DEF KitTypeOK, LockOK, StoreOK, Goroutines

KitInv == LockOK /\ PhaseInv /\ StoreOK

\* No two goroutines are saving, and none is without the mutex.
LEMMA OneSaver ==
    ASSUME LockOK, NEW w \in Goroutines, kpc[w] \notin {"idle", "capture"}
    PROVE  /\ mu = w
           /\ \A v \in Goroutines \ {w} : kpc[v] \in {"idle", "capture"}
BY DEF LockOK

\* A goroutine that moves to another point of the save keeps the mutex.
LEMMA SaverMoves ==
    ASSUME LockOK, PhaseInv,
           NEW w \in Goroutines, kpc[w] \notin {"idle", "capture"},
           NEW l \in {"writeJson", "openConf", "writeConf"}, Goto(w, l),
           w = Starter => l = "writeConf", UNCHANGED <<kphase, mu>>
    PROVE  LockOK' /\ PhaseInv'
BY OneSaver DEF LockOK, PhaseInv, Goto

\* A goroutine that leaves the save leaves the mutex free.
LEMMA SaverLeaves ==
    ASSUME LockOK, PhaseInv,
           NEW w \in Goroutines, kpc[w] \notin {"idle", "capture"}, Leave(w)
    PROVE  LockOK' /\ PhaseInv' /\ mu' = Nobody /\ kphase' = "up"
<1>1. mu = w /\ \A v \in Goroutines \ {w} : kpc[v] \in {"idle", "capture"}
  BY OneSaver
<1>2. kphase # "down"
  BY DEF PhaseInv
<1> QED BY <1>1, <1>2, SSLKitAssumption DEF LockOK, PhaseInv, Leave, Goto, Goroutines

\* A goroutine that takes the free mutex begins its save.
LEMMA SaverEnters ==
    ASSUME LockOK, PhaseInv, kphase = "up", NEW w \in Workers, mu = Nobody, mu' = w,
           Goto(w, "openJson"), UNCHANGED kphase
    PROVE  LockOK' /\ PhaseInv'
<1>1. \A v \in Goroutines : kpc[v] \in {"idle", "capture"}
  BY SSLKitAssumption DEF LockOK, Goroutines
<1> QED BY <1>1, SSLKitAssumption DEF LockOK, PhaseInv, Goto, Goroutines

\* A goroutine that is serving a request without the mutex has no part in a
\* start or an end of the process.
LEMMA ServingIsUp ==
    ASSUME LockOK, PhaseInv, NEW w \in Goroutines, mu = Nobody, kpc[w] # "idle"
    PROVE  kphase = "up"
BY SSLKitAssumption DEF LockOK, PhaseInv, Goroutines

\* The failing writes are counted up to their bound.
LEMMA FaultCounted ==
    ASSUME StoreOK, Failing \/ UNCHANGED kfaults
    PROVE  kfaults' \in 0..MaxKitFaults
BY SSLKitAssumption DEF StoreOK, Failing

LEMMA PersistInv ==
    ASSUME KitInv, NEW w \in Goroutines, persistLocked(w)
    PROVE  KitInv'
<1> USE DEF KitInv
<1>1. CASE OpenJson(w)
  <2>1. \E l \in {"writeJson", "openConf"} : Goto(w, l) /\ UNCHANGED <<kphase, mu>>
    BY <1>1 DEF OpenJson
  <2>2. LockOK' /\ PhaseInv'
    BY <1>1, <2>1, SaverMoves DEF OpenJson, PhaseInv
  <2>3. StoreOK'
    BY <1>1, FaultCounted DEF OpenJson, StoreOK, storeVars
  <2> QED BY <2>2, <2>3
<1>2. CASE WriteJson(w)
  <2>1. Goto(w, "openConf") /\ UNCHANGED <<kphase, mu>>
    BY <1>2 DEF WriteJson
  <2>2. LockOK' /\ PhaseInv'
    BY <1>2, <2>1, SaverMoves DEF WriteJson, PhaseInv
  <2>3. StoreOK'
    BY <1>2, FaultCounted DEF WriteJson, StoreOK, storeVars
  <2> QED BY <2>2, <2>3
<1>3. CASE OpenConf(w)
  <2>1. Leave(w) \/ (Goto(w, "writeConf") /\ UNCHANGED <<kphase, mu>>)
    BY <1>3 DEF OpenConf
  <2>2. LockOK' /\ PhaseInv'
    BY <1>3, <2>1, SaverMoves, SaverLeaves DEF OpenConf
  <2>3. EmptyConf \in AnyText
    BY DEF AnyText, FileTexts
  <2>4. StoreOK'
    BY <1>3, <2>3, FaultCounted DEF OpenConf, StoreOK, storeVars
  <2> QED BY <2>2, <2>4
<1>a. \A p \in Parts(ClientConf(hosts)) : p \in AnyText
  BY ClientConfWritten, TextParts DEF StoreOK, AnyText
<1>4. CASE WritePart(w)
  <2>1. LockOK' /\ PhaseInv'
    BY <1>4 DEF WritePart, LockOK, PhaseInv
  <2>2. StoreOK'
    BY <1>4, <1>a DEF WritePart, StoreOK, storeVars
  <2> QED BY <2>1, <2>2
<1>5. CASE WriteConf(w)
  <2>1. LockOK' /\ PhaseInv'
    BY <1>5, SaverLeaves DEF WriteConf
  <2>2. ClientConf(hosts) \in AnyText
    BY <1>a, PartsFacts
  <2>3. StoreOK'
    BY <1>5, <2>2, FaultCounted DEF WriteConf, StoreOK, storeVars
  <2> QED BY <2>1, <2>3
<1> QED BY <1>1, <1>2, <1>3, <1>4, <1>5 DEF persistLocked

\* A request that stores a policy.
LEMMA StoreInv ==
    ASSUME KitInv, NEW w \in Workers, NEW h \in KitHosts, NEW p \in Policy,
           kphase = "up", Store(w, h, p), capturing' \in [Workers -> KitHosts]
    PROVE  KitInv'
<1>1. LockOK' /\ PhaseInv'
  BY SaverEnters DEF Store, KitInv
<1>2. hosts' \in HostMap
  BY RefreshFacts DEF Store, KitInv, StoreOK, HostMap
<1>3. p.set \in Settings
  BY DEF Policy
<1>4. StoreOK'
  BY <1>2, <1>3 DEF Store, KitInv, StoreOK
<1> QED BY <1>1, <1>4 DEF KitInv

LEMMA RequestInv ==
    ASSUME KitInv, NEW w \in Workers, Put(w) \/ CaptureDump(w) \/ CaptureStore(w)
    PROVE  KitInv'
<1>0. w \in Goroutines
  BY DEF Goroutines
<1>1. CASE Put(w)
  <2>1. PICK n \in Names, p \in PolicyInputs : Store(w, Norm[n], Merge(Norm[n], p))
    BY <1>1 DEF Put
  <2>2. Norm[n] \in KitHosts
    BY SSLKitAssumption
  <2>3. Merge(Norm[n], p) \in Policy
    BY <2>2, MergeFacts DEF KitInv, StoreOK
  <2>4. kphase = "up" /\ capturing' \in [Workers -> KitHosts]
    BY <1>1 DEF Put, KitInv, StoreOK
  <2> QED BY <2>1, <2>2, <2>3, <2>4, StoreInv
<1>2. CASE CaptureDump(w)
  <2>1. LockOK' /\ PhaseInv'
    BY <1>0, <1>2, SSLKitAssumption
    DEF CaptureDump, Goto, KitInv, LockOK, PhaseInv
  <2>2. StoreOK'
    BY <1>2, SSLKitAssumption DEF CaptureDump, KitInv, StoreOK
  <2> QED BY <2>1, <2>2 DEF KitInv
<1>3. CASE CaptureStore(w)
  <2> DEFINE h == capturing[w]
  <2>1. kphase = "up"
    BY <1>0, <1>3, ServingIsUp DEF CaptureStore, KitInv
  <2>2. LockOK' /\ PhaseInv'
    BY <1>3, <2>1, SaverEnters DEF CaptureStore, KitInv
  <2>3. h \in KitHosts
    BY DEF KitInv, StoreOK
  <2>4. hosts' \in HostMap
    BY <1>3, <2>3, CapturedFacts, RefreshFacts
    DEF CaptureStore, KitInv, StoreOK, HostMap
  <2>5. asked' \in [KitHosts -> Settings \cup {Absent}]
    BY <1>3, <2>3 DEF CaptureStore, KitInv, StoreOK, ZeroSettings, Settings
  <2>6. capturing' \in [Workers -> KitHosts]
    BY <1>3, KitFileAssumption DEF CaptureStore, KitInv, StoreOK
  <2>7. StoreOK'
    BY <1>3, <2>4, <2>5, <2>6 DEF CaptureStore, KitInv, StoreOK
  <2> QED BY <2>2, <2>7 DEF KitInv
<1> QED BY <1>1, <1>2, <1>3

\* A refresh changes neither the hosts listed nor their settings.
LEMMA RefreshStep ==
    ASSUME hosts \in HostMap, NEW S, Refresh(S)
    PROVE  hosts' \in HostMap /\ SettingsIn(hosts') = SettingsIn(hosts)
<1>1. ASSUME NEW h \in KitHosts
      PROVE  /\ hosts'[h] \in Policy \cup {Absent}
             /\ hosts'[h] = Absent <=> hosts[h] = Absent
             /\ hosts[h] # Absent => hosts'[h].set = hosts[h].set
  <2>1. hosts[h] \in Policy \cup {Absent}
    BY DEF HostMap
  <2>2. CASE h \in S \cap Listed(hosts) /\ HasPem(h)
    <3>1. hosts[h] \in Policy
      BY <2>1, <2>2 DEF Listed
    <3>2. hosts'[h] = refreshLocked(h, hosts[h])
      BY <2>2 DEF Refresh
    <3> QED BY <3>1, <3>2, RefreshFacts, PolicyPresent
  <2>3. CASE ~(h \in S \cap Listed(hosts) /\ HasPem(h))
    BY <2>1, <2>3 DEF Refresh
  <2> QED BY <2>2, <2>3
<1>2. hosts' \in HostMap
  BY <1>1 DEF Refresh, HostMap
<1> QED BY <1>1, <1>2 DEF SettingsIn

LEMMA KitInductive ==
    ASSUME KitInv, [KitNext]_kitVars
    PROVE  KitInv'
<1>1. CASE NewSSLKitStore
  <2>1. LockOK' /\ PhaseInv'
    BY <1>1, SSLKitAssumption
    DEF NewSSLKitStore, Goto, KitInv, LockOK, PhaseInv, Goroutines
  <2>2. load(json) \in HostMap
    BY LoadType DEF KitInv, StoreOK
  <2>3. StoreOK'
    BY <1>1, <2>2, SettingsInFacts DEF NewSSLKitStore, KitInv, StoreOK
  <2> QED BY <2>1, <2>3 DEF KitInv
<1>2. ASSUME NEW w \in Goroutines, KitStep(w) PROVE KitInv'
  BY <1>2, PersistInv, RequestInv DEF KitStep
<1>3. ASSUME NEW S, Refresh(S) PROVE KitInv'
  <2>1. LockOK' /\ PhaseInv'
    BY <1>3 DEF Refresh, KitInv, LockOK, PhaseInv
  <2>2. StoreOK'
    BY <1>3, RefreshStep DEF Refresh, KitInv, StoreOK
  <2> QED BY <2>1, <2>2 DEF KitInv
<1>4. CASE KitCrash
  <2>1. LockOK' /\ PhaseInv'
    BY <1>4, SSLKitAssumption DEF KitCrash, KitInv, LockOK, PhaseInv, Goroutines
  <2>2. StoreOK'
    BY <1>4, KitFileAssumption, SSLKitAssumption
    DEF KitCrash, KitInv, StoreOK, EmptyMap, HostMap
  <2> QED BY <2>1, <2>2 DEF KitInv
<1>5. CASE EngineDump
  <2>1. LockOK' /\ PhaseInv'
    BY <1>5 DEF EngineDump, KitInv, LockOK, PhaseInv
  <2>2. StoreOK'
    BY <1>5 DEF EngineDump, KitInv, StoreOK
  <2> QED BY <2>1, <2>2 DEF KitInv
<1>6. CASE UNCHANGED kitVars
  BY <1>6 DEF kitVars, KitInv, LockOK, PhaseInv, StoreOK
<1> QED
  BY <1>1, <1>2, <1>3, <1>4, <1>5, <1>6 DEF KitNext, Get, All, Goroutines

LEMMA KitInitial == KitInit => KitInv
<1> SUFFICES ASSUME KitInit PROVE KitInv
  OBVIOUS
<1>1. LockOK /\ PhaseInv
  BY SSLKitAssumption DEF KitInit, LockOK, PhaseInv, Goroutines
<1>2. EmptyMap \in HostMap /\ EmptyMap \in [KitHosts -> Settings \cup {Absent}]
  BY DEF EmptyMap, HostMap
<1>3. 0 \in 0..MaxKitFaults /\ 0 \in 0..MaxKitCrashes
  BY SSLKitAssumption
<1>4. StoreOK
  BY <1>2, <1>3, KitFileAssumption DEF KitInit, StoreOK, AnyText, FileTexts
<1> QED BY <1>1, <1>4 DEF KitInv

LEMMA KitInvariant == KitSpec => []KitInv
BY KitInitial, KitInductive, PTL DEF KitSpec

\* Every variable of the store keeps its type, the file of the client holds a
\* first part of the text of one map, and the mutex is held by exactly
\* the goroutine that is in persistLocked or writeClientConf (sslkit.go).
THEOREM KitTypeCorrect == KitSpec => []KitTypeOK
<1>1. KitInv => KitTypeOK
  BY TypeParts DEF KitInv
<1> QED BY <1>1, KitInvariant, PTL

-----------------------------------------------------------------------------
(* What the files say, and what is in force.                               *)

\* sslkit.json is behind the map only because a write failed or because the
\* save that will write it has not got there; so is skytap-ssl.conf.
JsonFollows ==
    /\ kphase # "down" /\ "json" \notin behind
    /\ \A w \in Goroutines : kpc[w] \notin {"openJson", "writeJson"}
    => SettingsIn(load(json)) = SettingsIn(hosts)

ConfFollows ==
    kphase = "up" /\ mu = Nobody /\ "conf" \notin behind
    => conf = ClientConf(hosts)

\* The settings asked for are in the map, or, between two processes, in the
\* file, unless a crash may have cost a change.
InForce ==
    /\ kphase # "down" => SettingsIn(hosts) = asked
    /\ kphase = "down" /\ ~lost => SettingsIn(load(json)) = asked

FilesInv == JsonFollows /\ ConfFollows /\ InForce

\* What CapturedHasCert says of the map holds of the map in the file, too.
CertsIn(m) == \A h \in Listed(m) : m[h].captured => m[h].cert # NoCert

CertInv == CertsIn(hosts) /\ CertsIn(load(json))

LEMMA PersistFiles ==
    ASSUME KitInv, FilesInv, NEW w \in Goroutines, persistLocked(w)
    PROVE  FilesInv'
<1>0. /\ kpc \in [Goroutines -> {"idle", "capture", "openJson", "writeJson",
                                 "openConf", "writeConf"}]
      /\ hosts \in HostMap
      /\ kpc[w] \notin {"idle", "capture"}
  BY DEF KitInv, LockOK, StoreOK, persistLocked, OpenJson, WriteJson, OpenConf,
         WritePart, WriteConf
<1>1. /\ mu = w /\ kphase # "down"
      /\ \A v \in Goroutines \ {w} : kpc[v] \in {"idle", "capture"}
  BY <1>0, OneSaver DEF KitInv, PhaseInv
<1>2. w # Nobody
  BY SSLKitAssumption DEF Goroutines
<1>3. UNCHANGED <<hosts, asked>> /\ kphase' # "down"
  BY <1>1 DEF persistLocked, OpenJson, WriteJson, OpenConf, WritePart, WriteConf,
             Leave, storeVars
<1>4. InForce'
  BY <1>1, <1>3 DEF FilesInv, InForce
<1>5. CASE OpenJson(w)
  <2>1. JsonFollows'
    BY <1>0, <1>5 DEF OpenJson, Goto, JsonFollows
  <2>2. ConfFollows'
    BY <1>1, <1>2, <1>5 DEF OpenJson, ConfFollows
  <2> QED BY <1>4, <2>1, <2>2 DEF FilesInv
<1>6. CASE WriteJson(w)
  <2>1. JsonFollows'
    BY <1>0, <1>6, LoadMap DEF WriteJson, JsonFollows, storeVars
  <2>2. ConfFollows'
    BY <1>1, <1>2, <1>6 DEF WriteJson, ConfFollows
  <2> QED BY <1>4, <2>1, <2>2 DEF FilesInv
<1>7. CASE OpenConf(w) \/ WritePart(w) \/ WriteConf(w)
  <2>1. /\ \A v \in Goroutines : kpc[v] \notin {"openJson", "writeJson"}
        /\ "json" \notin behind' => "json" \notin behind
        /\ UNCHANGED json
    BY <1>1, <1>7 DEF OpenConf, WritePart, WriteConf
  <2>2. SettingsIn(load(json))' = SettingsIn(load(json))
        /\ SettingsIn(hosts)' = SettingsIn(hosts)
    BY <1>3, <2>1
  <2>3. JsonFollows'
    BY <1>1, <2>1, <2>2 DEF FilesInv, JsonFollows
  <2>4. ConfFollows'
    BY <1>1, <1>2, <1>3, <1>7 DEF OpenConf, WritePart, WriteConf, ConfFollows
  <2> QED BY <1>4, <2>3, <2>4 DEF FilesInv
<1> QED BY <1>5, <1>6, <1>7 DEF persistLocked

\* A request that stores a policy leaves the files to its save.
LEMMA RequestFiles ==
    ASSUME KitInv, FilesInv, NEW w \in Workers,
           Put(w) \/ CaptureDump(w) \/ CaptureStore(w)
    PROVE  FilesInv'
<1>0. w \in Goroutines /\ hosts \in HostMap /\ w # Nobody
      /\ kpc \in [Goroutines -> {"idle", "capture", "openJson", "writeJson",
                                 "openConf", "writeConf"}]
  BY SSLKitAssumption DEF Goroutines, KitInv, LockOK, StoreOK
<1>1. ASSUME NEW h \in KitHosts, NEW p \in Policy, kphase = "up", kphase' = "up",
             hosts' = [hosts EXCEPT ![h] = refreshLocked(h, p)],
             asked' = [asked EXCEPT ![h] = p.set], mu' = w, Goto(w, "openJson")
      PROVE  FilesInv'
  <2>1. refreshLocked(h, p) \in Policy /\ refreshLocked(h, p).set = p.set
    BY RefreshFacts
  <2>2. SettingsIn(hosts') = [SettingsIn(hosts) EXCEPT ![h] = p.set]
    <3> DEFINE q == refreshLocked(h, p)
    <3>1. hosts' = [hosts EXCEPT ![h] = q] /\ q \in Policy /\ q.set = p.set
      BY <1>1, <2>1
    <3> HIDE DEF q
    <3>2. SettingsIn([hosts EXCEPT ![h] = q]) = [SettingsIn(hosts) EXCEPT ![h] = q.set]
      BY <1>0, <3>1, SettingsInExcept
    <3> QED BY <3>1, <3>2
  <2>3. InForce'
    BY <1>1, <2>2 DEF FilesInv, InForce
  <2>4. JsonFollows'
    BY <1>0, <1>1 DEF JsonFollows, Goto
  <2>5. ConfFollows'
    BY <1>0, <1>1 DEF ConfFollows
  <2> QED BY <2>3, <2>4, <2>5 DEF FilesInv
<1>2. CASE Put(w)
  <2>1. PICK n \in Names, p \in PolicyInputs : Store(w, Norm[n], Merge(Norm[n], p))
    BY <1>2 DEF Put
  <2>2. Norm[n] \in KitHosts
    BY SSLKitAssumption
  <2>3. Merge(Norm[n], p) \in Policy
    BY <1>0, <2>2, MergeFacts
  <2>4. kphase = "up"
    BY <1>2 DEF Put
  <2> QED BY <1>1, <2>1, <2>2, <2>3, <2>4 DEF Store
<1>3. CASE CaptureDump(w)
  <2>1. UNCHANGED <<kphase, hosts, mu, json, conf, behind, lost, asked>>
    BY <1>3 DEF CaptureDump
  <2>2. \A v \in Goroutines :
            kpc'[v] \in {"openJson", "writeJson"} <=> kpc[v] \in {"openJson", "writeJson"}
    BY <1>0, <1>3 DEF CaptureDump, Goto
  <2>3. UNCHANGED <<SettingsIn(hosts), SettingsIn(load(json)), ClientConf(hosts)>>
    BY <2>1
  <2> QED BY <2>1, <2>2, <2>3 DEF FilesInv, JsonFollows, ConfFollows, InForce
<1>4. CASE CaptureStore(w)
  <2> DEFINE h == capturing[w]
  <2>1. h \in KitHosts
    BY DEF KitInv, StoreOK
  <2>2. Captured(h) \in Policy
        /\ Captured(h).set = IF hosts[h] = Absent THEN ZeroSettings ELSE hosts[h].set
    BY <1>0, <2>1, CapturedFacts
  <2>3. kphase = "up"
    BY <1>0, <1>4, ServingIsUp DEF CaptureStore, KitInv
  <2>4. asked[h] = SettingsIn(hosts)[h]
    BY <2>3 DEF FilesInv, InForce
  <2>5. hosts[h] \in Policy \cup {Absent}
    BY <1>0, <2>1 DEF HostMap
  <2>6. hosts[h] # Absent => hosts[h].set # Absent
    BY <2>5, SettingsPresent DEF Policy
  <2>7. Captured(h).set = IF asked[h] = Absent THEN ZeroSettings ELSE asked[h]
    BY <2>1, <2>2, <2>4, <2>6 DEF SettingsIn
  <2>8. /\ kphase' = "up" /\ mu' = w /\ Goto(w, "openJson")
        /\ hosts' = [hosts EXCEPT ![h] = refreshLocked(h, Captured(h))]
        /\ asked' = [asked EXCEPT ![h] = IF @ = Absent THEN ZeroSettings ELSE @]
    BY <1>4, <2>3 DEF CaptureStore
  <2>9. asked' = [asked EXCEPT ![h] = Captured(h).set]
    BY <2>7, <2>8
  <2> QED BY <1>1, <2>1, <2>2, <2>3, <2>8, <2>9
<1> QED BY <1>2, <1>3, <1>4

LEMMA FilesInductive ==
    ASSUME KitInv, FilesInv, [KitNext]_kitVars
    PROVE  FilesInv'
<1>0. hosts \in HostMap /\ json \in HostMap \cup {NoMap, TornMap}
  BY DEF KitInv, StoreOK
<1>1. CASE NewSSLKitStore
  <2>1. load(json) \in HostMap
    BY <1>0, LoadType
  <2>2. /\ kphase = "down" /\ kphase' = "boot" /\ hosts' = load(json) /\ json' = json
        /\ asked' = IF lost THEN SettingsIn(load(json)) ELSE asked
    BY <1>1 DEF NewSSLKitStore
  <2>3. SettingsIn(hosts') = SettingsIn(load(json')) /\ SettingsIn(hosts') = asked'
    BY <2>2 DEF FilesInv, InForce
  <2> QED BY <2>2, <2>3 DEF FilesInv, JsonFollows, ConfFollows, InForce
<1>2. ASSUME NEW w \in Goroutines, KitStep(w) PROVE FilesInv'
  BY <1>2, PersistFiles, RequestFiles DEF KitStep
<1>3. ASSUME NEW S, Refresh(S) PROVE FilesInv'
  <2>1. hosts' \in HostMap /\ SettingsIn(hosts') = SettingsIn(hosts)
    BY <1>0, <1>3, RefreshStep
  <2>2. ClientConf(hosts') = ClientConf(hosts)
    BY <1>0, <2>1, ClientConfFollows
  <2>3. UNCHANGED <<kphase, mu, kpc, json, conf, behind, lost, asked>>
    BY <1>3 DEF Refresh
  <2>4. UNCHANGED SettingsIn(load(json))
    BY <2>3
  <2> QED BY <2>1, <2>2, <2>3, <2>4 DEF FilesInv, JsonFollows, ConfFollows, InForce
<1>4. CASE KitCrash
  <2>1. /\ kphase # "down" /\ kphase' = "down" /\ UNCHANGED <<json, asked>>
        /\ lost' = (mu \in Workers \/ "json" \in behind)
    BY <1>4 DEF KitCrash
  <2>2. ASSUME ~lost' PROVE SettingsIn(load(json)) = asked
    <3>1. mu \notin Workers /\ "json" \notin behind
      BY <2>1, <2>2
    <3>2. \A w \in Goroutines : kpc[w] \notin {"openJson", "writeJson"}
      BY <3>1 DEF KitInv, LockOK, PhaseInv, Goroutines
    <3> QED BY <2>1, <3>1, <3>2 DEF FilesInv, JsonFollows, InForce
  <2>3. SettingsIn(load(json))' = SettingsIn(load(json))
    BY <2>1
  <2> QED BY <2>1, <2>2, <2>3 DEF FilesInv, JsonFollows, ConfFollows, InForce
<1>5. CASE EngineDump
  <2>1. UNCHANGED <<kphase, hosts, mu, kpc, json, conf, behind, lost, asked>>
    BY <1>5 DEF EngineDump
  <2>2. UNCHANGED <<SettingsIn(hosts), SettingsIn(load(json)), ClientConf(hosts)>>
    BY <2>1
  <2> QED BY <2>1, <2>2 DEF FilesInv, JsonFollows, ConfFollows, InForce
<1>6. CASE UNCHANGED kitVars
  <2>1. UNCHANGED <<kphase, hosts, mu, kpc, json, conf, behind, lost, asked>>
    BY <1>6 DEF kitVars
  <2>2. UNCHANGED <<SettingsIn(hosts), SettingsIn(load(json)), ClientConf(hosts)>>
    BY <2>1
  <2> QED BY <2>1, <2>2 DEF FilesInv, JsonFollows, ConfFollows, InForce
<1> QED
  BY <1>1, <1>2, <1>3, <1>4, <1>5, <1>6 DEF KitNext, Get, All, Goroutines

LEMMA FilesInitial == KitInit => FilesInv
<1> SUFFICES ASSUME KitInit PROVE FilesInv
  OBVIOUS
<1>1. SettingsIn(load(json)) = asked
  BY SSLKitAssumption DEF KitInit, load, SettingsIn, EmptyMap
<1> QED BY <1>1 DEF KitInit, FilesInv, JsonFollows, ConfFollows, InForce

LEMMA FilesInvariant == KitSpec => [](KitInv /\ FilesInv)
<1>1. KitInit => KitInv /\ FilesInv
  BY KitInitial, FilesInitial
<1>2. KitInv /\ FilesInv /\ [KitNext]_kitVars => (KitInv /\ FilesInv)'
  BY KitInductive, FilesInductive
<1> QED BY <1>1, <1>2, PTL DEF KitSpec

\* Between two saves, skytap-ssl.conf says what the map says and sslkit.json
\* would give the same settings back, unless the last write of that file
\* failed, although Get and All change the map without saving it and a crash
\* may have cut any earlier save short (persistLocked, refreshLocked, load).
THEOREM FilesFollow == KitSpec => []FilesFollowMemory
<1>1. KitInv /\ FilesInv => FilesFollowMemory
  <2> SUFFICES ASSUME KitInv, FilesInv, kphase = "up", mu = Nobody
               PROVE  /\ "conf" \notin behind => conf = ClientConf(hosts)
                      /\ "json" \notin behind => SettingsIn(load(json)) = SettingsIn(hosts)
    BY DEF FilesFollowMemory
  <2>1. \A w \in Goroutines : kpc[w] \in {"idle", "capture"}
    BY SSLKitAssumption DEF KitInv, LockOK, Goroutines
  <2> QED BY <2>1 DEF FilesInv, JsonFollows, ConfFollows
<1> QED BY <1>1, FilesInvariant, PTL

\* The settings in force are the last ones asked for: neither a Capture that
\* was downloading meanwhile, nor a refresh, nor a restart brings older ones
\* back (Put, Capture, refreshLocked and NewSSLKitStore of sslkit.go).
THEOREM SettingsAlwaysKept == KitSpec => []SettingsKept
<1>1. FilesInv => SettingsKept
  BY DEF FilesInv, InForce, SettingsKept
<1> QED BY <1>1, FilesInvariant, PTL

-----------------------------------------------------------------------------
(* Certificates.                                                           *)

LEMMA CertsInExcept ==
    ASSUME NEW m \in HostMap, CertsIn(m), NEW h \in KitHosts, NEW p \in Policy,
           p.captured => p.cert # NoCert
    PROVE  CertsIn([m EXCEPT ![h] = p])
BY DEF CertsIn, Listed, HostMap

LEMMA StoreCerts ==
    ASSUME hosts \in HostMap, CertsIn(hosts), NEW h \in KitHosts, NEW p \in Policy,
           p.captured => p.cert # NoCert,
           hosts' = [hosts EXCEPT ![h] = refreshLocked(h, p)]
    PROVE  CertsIn(hosts)'
<1> DEFINE q == refreshLocked(h, p)
<1>1. q \in Policy /\ (q.captured => q.cert # NoCert) /\ hosts' = [hosts EXCEPT ![h] = q]
  BY RefreshFacts
<1> HIDE DEF q
<1> QED BY <1>1, CertsInExcept

LEMMA CertInductive ==
    ASSUME KitInv, CertInv, [KitNext]_kitVars
    PROVE  CertInv'
<1>0. hosts \in HostMap /\ json \in HostMap \cup {NoMap, TornMap}
  BY DEF KitInv, StoreOK
<1>1. CertsIn(EmptyMap)
  BY DEF CertsIn, EmptyMap, Listed
<1>2. CapturedHasCert
  BY DEF CertInv, CertsIn, CapturedHasCert
<1>3. CASE NewSSLKitStore
  BY <1>3 DEF NewSSLKitStore, CertInv
<1>4. ASSUME NEW w \in Goroutines, persistLocked(w) PROVE CertInv'
  <2>1. UNCHANGED hosts /\ json' \in {json, hosts, TornMap}
    BY <1>4 DEF persistLocked, OpenJson, WriteJson, OpenConf, WritePart, WriteConf,
               storeVars
  <2>2. CASE json' = TornMap
    BY <1>1, <2>1, <2>2 DEF load, CertInv
  <2>3. CASE json' = json
    BY <2>1, <2>3 DEF CertInv
  <2>4. CASE json' = hosts
    BY <1>0, <2>1, <2>4, LoadMap DEF CertInv
  <2> QED BY <2>1, <2>2, <2>3, <2>4
<1>5. ASSUME NEW w \in Workers, Put(w) PROVE CertInv'
  <2>1. PICK n \in Names, p \in PolicyInputs : Store(w, Norm[n], Merge(Norm[n], p))
    BY <1>5 DEF Put
  <2>2. Norm[n] \in KitHosts
    BY SSLKitAssumption
  <2>3. /\ Merge(Norm[n], p) \in Policy
        /\ Merge(Norm[n], p).captured => Merge(Norm[n], p).cert # NoCert
    BY <1>0, <1>2, <2>2, MergeFacts
  <2>4. /\ UNCHANGED json
        /\ hosts' = [hosts EXCEPT ![Norm[n]] = refreshLocked(Norm[n], Merge(Norm[n], p))]
    BY <2>1 DEF Store
  <2> QED BY <1>0, <2>2, <2>3, <2>4, StoreCerts DEF CertInv
<1>6. ASSUME NEW w \in Workers, CaptureStore(w) PROVE CertInv'
  <2> DEFINE h == capturing[w]
  <2>1. h \in KitHosts
    BY DEF KitInv, StoreOK
  <2>2. Captured(h) \in Policy /\ (Captured(h).captured => Captured(h).cert # NoCert)
    BY <1>0, <1>2, <2>1, CapturedFacts
  <2>3. UNCHANGED json /\ hosts' = [hosts EXCEPT ![h] = refreshLocked(h, Captured(h))]
    BY <1>6 DEF CaptureStore
  <2> QED BY <1>0, <2>1, <2>2, <2>3, StoreCerts DEF CertInv
<1>7. ASSUME NEW S, Refresh(S) PROVE CertInv'
  <2>1. ASSUME NEW h \in KitHosts, hosts'[h] # Absent, hosts'[h].captured
        PROVE  hosts'[h].cert # NoCert
    <3>1. hosts[h] \in Policy \cup {Absent}
      BY <1>0 DEF HostMap
    <3>2. CASE h \in S \cap Listed(hosts) /\ HasPem(h)
      <4>1. hosts[h] \in Policy /\ (hosts[h].captured => hosts[h].cert # NoCert)
        BY <1>2, <3>1, <3>2 DEF Listed, CapturedHasCert
      <4>2. hosts'[h] = refreshLocked(h, hosts[h])
        BY <1>7, <3>2 DEF Refresh
      <4> QED BY <2>1, <4>1, <4>2, RefreshFacts
    <3>3. CASE ~(h \in S \cap Listed(hosts) /\ HasPem(h))
      BY <1>2, <1>7, <2>1, <3>3 DEF Refresh, Listed, CapturedHasCert
    <3> QED BY <3>2, <3>3
  <2>2. UNCHANGED json
    BY <1>7 DEF Refresh
  <2> QED BY <2>1, <2>2 DEF CertInv, CertsIn, Listed
<1>8. CASE KitCrash
  BY <1>1, <1>8 DEF KitCrash, CertInv
<1>9. CASE EngineDump \/ UNCHANGED kitVars \/ \E w \in Workers : CaptureDump(w)
  BY <1>9 DEF EngineDump, kitVars, CaptureDump, CertInv
<1> QED
  BY <1>3, <1>4, <1>5, <1>6, <1>7, <1>8, <1>9
  DEF KitNext, KitStep, Get, All, Goroutines

\* A host shown as captured has a certificate to show, whatever requests bring
\* or leave out, whatever the origin cache loses, and after every restart
\* (Put, Capture, refreshLocked and load of sslkit.go).
THEOREM CapturedAlwaysHasCert == KitSpec => []CapturedHasCert
<1>1. KitInit => CertInv
  BY DEF KitInit, CertInv, CertsIn, Listed, EmptyMap, load
<1>2. KitInv /\ CertInv /\ [KitNext]_kitVars => CertInv'
  BY CertInductive
<1>3. CertInv => CapturedHasCert
  BY DEF CertInv, CertsIn, CapturedHasCert
<1> QED BY <1>1, <1>2, <1>3, KitInvariant, PTL DEF KitSpec

-----------------------------------------------------------------------------
(* The store implements KitFile.                                           *)

\* While the file is written it holds a part of the text that is written.
Underway ==
    \A w \in Goroutines : kpc[w] = "writeConf" => conf \in Parts(ClientConf(hosts))

\* Nobody is writing it.
LEMMA NotUnderway ==
    ASSUME LockOK, mu = Nobody
    PROVE  \A w \in Goroutines : kpc[w] \in {"idle", "capture"}
BY SSLKitAssumption DEF LockOK, Goroutines

LEMMA UnderwayInductive ==
    ASSUME KitInv, Underway, [KitNext]_kitVars
    PROVE  Underway'
<1>0. kpc \in [Goroutines -> {"idle", "capture", "openJson", "writeJson",
                              "openConf", "writeConf"}]
  BY DEF KitInv, LockOK
<1>1. ASSUME NEW w \in Goroutines, persistLocked(w) PROVE Underway'
  <2>0. /\ \A v \in Goroutines \ {w} : kpc[v] \in {"idle", "capture"}
    BY <1>1, OneSaver
    DEF KitInv, persistLocked, OpenJson, WriteJson, OpenConf, WritePart, WriteConf
  <2>1. \A v \in Goroutines \ {w} : kpc'[v] # "writeConf"
    BY <1>0, <1>1, <2>0
    DEF persistLocked, OpenJson, WriteJson, OpenConf, WritePart, WriteConf, Leave, Goto
  <2>2. kpc'[w] = "writeConf" => conf' = EmptyConf \/ conf' \in Parts(ClientConf(hosts))
    BY <1>0, <1>1
    DEF persistLocked, OpenJson, WriteJson, OpenConf, WritePart, WriteConf, Leave, Goto
  <2>3. UNCHANGED hosts
    BY <1>1
    DEF persistLocked, OpenJson, WriteJson, OpenConf, WritePart, WriteConf, storeVars
  <2>4. ClientConf(hosts)' = ClientConf(hosts)
    BY <2>3
  <2>5. Parts(ClientConf(hosts))' = Parts(ClientConf(hosts))
    BY <2>4
  <2> QED BY <2>1, <2>2, <2>5, PartsFacts DEF Underway
<1>2. ASSUME NEW w \in Workers, Put(w) \/ CaptureStore(w) PROVE Underway'
  <2>1. \A v \in Goroutines : kpc[v] \in {"idle", "capture"}
    BY <1>2, NotUnderway DEF Put, Store, CaptureStore, KitInv
  <2>2. Goto(w, "openJson")
    BY <1>2 DEF Put, Store, CaptureStore
  <2>3. \A v \in Goroutines : kpc'[v] # "writeConf"
    BY <1>0, <2>1, <2>2 DEF Goto
  <2> QED BY <2>3 DEF Underway
<1>3. ASSUME NEW S, Refresh(S) PROVE Underway'
  <2>1. \A v \in Goroutines : kpc'[v] \in {"idle", "capture"}
    BY <1>3, NotUnderway DEF Refresh, KitInv
  <2> QED BY <2>1 DEF Underway
<1>4. CASE KitCrash
  BY <1>4 DEF KitCrash, Underway, Goroutines
<1>5. CASE NewSSLKitStore
  <2>1. \A v \in Goroutines : kpc[v] = "idle"
    BY <1>5 DEF NewSSLKitStore, KitInv, PhaseInv
  <2>2. \A v \in Goroutines : kpc'[v] # "writeConf"
    BY <1>0, <1>5, <2>1 DEF NewSSLKitStore, Goto
  <2> QED BY <2>2 DEF Underway
<1>6. CASE EngineDump \/ UNCHANGED kitVars \/ \E w \in Workers : CaptureDump(w)
  <2>1. UNCHANGED <<hosts, conf>>
    BY <1>6 DEF EngineDump, kitVars, CaptureDump
  <2>2. \A v \in Goroutines : kpc'[v] = "writeConf" => kpc[v] = "writeConf"
    BY <1>0, <1>6 DEF EngineDump, kitVars, CaptureDump, Goto
  <2>3. Parts(ClientConf(hosts))' = Parts(ClientConf(hosts))
    BY <2>1
  <2> QED BY <2>1, <2>2, <2>3 DEF Underway
<1> QED
  BY <1>1, <1>2, <1>3, <1>4, <1>5, <1>6 DEF KitNext, KitStep, Get, All, Goroutines

\* What a step of the store does to the directory.
DirectoryStep ==
    \/ UNCHANGED <<origin, conf>>
    \/ Truncate
    \/ Rewrite(ClientConf(hosts))
    \/ \E h \in KitHosts \ {NoHost}, c \in Certs \cup {NoCert, BadPem} : Pem(h, c)

LEMMA FileStep ==
    ASSUME KitInv, Underway, [KitNext]_kitVars
    PROVE  DirectoryStep
<1>0. hosts \in HostMap /\ origin \in [KitHosts -> Certs \cup {NoCert, BadPem}]
  BY DEF KitInv, StoreOK
<1>1. ASSUME NEW w \in Goroutines, OpenJson(w) \/ WriteJson(w)
      PROVE  UNCHANGED <<origin, conf>>
  BY <1>1 DEF OpenJson, WriteJson, storeVars
<1>2. ASSUME NEW w \in Goroutines, OpenConf(w)
      PROVE  DirectoryStep
  BY <1>2 DEF OpenConf, storeVars, DirectoryStep, Truncate
<1>3. ASSUME NEW w \in Goroutines, WritePart(w)
      PROVE  Rewrite(ClientConf(hosts))
  BY <1>3 DEF WritePart, Rewrite, storeVars
<1>a. ASSUME NEW w \in Goroutines, WriteConf(w)
      PROVE  DirectoryStep
  BY <1>a DEF WriteConf, Underway, DirectoryStep, Rewrite, storeVars
<1>4. ASSUME NEW w \in Workers, CaptureDump(w)
      PROVE  DirectoryStep
  <2>1. PICK n \in Names, c \in Certs :
            /\ Norm[n] # NoHost
            /\ origin' = [origin EXCEPT ![Norm[n]] = IF DumpDir THEN c ELSE @]
    BY <1>4 DEF CaptureDump
  <2>2. Norm[n] \in KitHosts \ {NoHost} /\ UNCHANGED conf
    BY <1>4, <2>1, SSLKitAssumption DEF CaptureDump
  <2>3. CASE DumpDir
    BY <2>1, <2>2, <2>3 DEF DirectoryStep, Pem
  <2>4. CASE ~DumpDir
    BY <1>0, <2>1, <2>2, <2>4 DEF DirectoryStep
  <2> QED BY <2>3, <2>4
<1>5. ASSUME NEW w \in Workers, Put(w) \/ CaptureStore(w)
      PROVE  UNCHANGED <<origin, conf>>
  BY <1>5 DEF Put, Store, CaptureStore
<1>6. CASE EngineDump
  BY <1>6 DEF EngineDump, DirectoryStep, Pem
<1>7. CASE NewSSLKitStore \/ Get \/ All \/ KitCrash \/ UNCHANGED kitVars
  BY <1>7 DEF NewSSLKitStore, Get, All, Refresh, KitCrash, kitVars, DirectoryStep
<1> QED
  BY <1>1, <1>2, <1>3, <1>a, <1>4, <1>5, <1>6, <1>7
  DEF KitNext, KitStep, persistLocked, Goroutines, DirectoryStep

\* The store implements what KitFile promises the patched clients: the text of
\* a policy map is written over a truncated file or over a part of itself, but
\* never over a part of another text, wherever writes fail or a crash hits
\* them, and the origin cache changes one host at a time (persistLocked and
\* writeClientConfLocked of sslkit.go, which run under the mutex).
THEOREM ImplementsKitFile == KitSpec => FileSpec
<1>1. KitInit => FileInit /\ Underway
  BY DEF KitInit, FileInit, Underway, Goroutines
<1>2. KitInv /\ Underway /\ [KitNext]_kitVars => Underway'
  BY UnderwayInductive
<1>3. KitInv /\ Underway /\ [KitNext]_kitVars => [FileNext]_<<origin, conf>>
  BY FileStep, ClientConfWritten DEF DirectoryStep, FileNext, KitInv, StoreOK
<1> QED BY <1>1, <1>2, <1>3, KitInvariant, PTL DEF KitSpec, FileSpec

-----------------------------------------------------------------------------
(* The inductive invariants.                                               *)

Pcs == {"idle", "on", "again", "fill", "refill", "face", "cached", "lookup",
        "pem", "store", "bindFace", "bind", "done"}
Call == [ssl : Ssls \cup {NoSsl}, host : KitHosts, chain : Certs \cup {NoCert}]

\* The types of the threads' variables, and of the history.
ThreadsOK ==
    /\ tpc \in [Threads -> Pcs]
    /\ call \in [Threads -> Call]
    /\ shown \in [Threads -> Certs \cup {NoCert}]
SslOK ==
    /\ faces \in [Ssls -> Face \cup {NoFace}]
    /\ lastHost \in KitHosts /\ sni \in [Ssls -> KitHosts]
FilesOK ==
    /\ conf \in InputTexts
    /\ origin \in [KitHosts -> Certs \cup {NoCert, BadPem}]
    /\ pems \in [KitHosts -> SUBSET Certs] /\ listed \subseteq KitHosts
PolicyOK ==
    /\ DOMAIN g = KnownKeys /\ g.impHosts \subseteq KitHosts
    /\ fresh \in BOOLEAN

\* A thread works on an SSL object exactly while it is in a call, and no two
\* on the same.
Alone ==
    /\ \A t \in Threads : tpc[t] = "idle" <=> call[t].ssl = NoSsl
    /\ \A t, u \in Threads : t # u /\ call[t].ssl # NoSsl => call[t].ssl # call[u].ssl

CoreInv == ThreadsOK /\ SslOK /\ FilesOK /\ Alone

\* An entry that a thread is about to set has been made.
TableInv ==
    /\ Cardinality(Used) <= MaxSsl
    /\ \A t \in Threads : tpc[t] = "bind" => faces[call[t].ssl] # NoFace

\* Neither the buffers nor the file, nor a truncated file, have any other host
\* impersonated than some policy had, or the beginning of its name.
BuffersInv ==
    /\ g.impHosts \subseteq Impersonated
    /\ FilePolicy.impHosts \subseteq Impersonated
    /\ PolicyOf(EmptyConf).impHosts \subseteq listed

\* A certificate that h.pem has held, of a host that a policy listed.
Right(h, c) == c \in pems[h] /\ h \in Impersonated

\* What each place of skytap_chain_for_ssl knows of its call.
ChainInv(t) ==
    /\ tpc[t] \in {"again", "refill", "lookup", "pem", "store"} =>
           sni[call[t].ssl] \in {call[t].host, NoHost}
    /\ tpc[t] \in {"pem", "store"} => call[t].host \in Impersonated
    /\ tpc[t] = "store" => call[t].chain \in pems[call[t].host]
    /\ tpc[t] # "done" => shown[t] = NoCert
    /\ tpc[t] = "done" /\ shown[t] # NoCert =>
           /\ Right(call[t].host, shown[t])
           /\ sni[call[t].ssl] \in {call[t].host, NoHost}

ShowInv ==
    /\ \A h \in KitHosts : origin[h] \in Certs => origin[h] \in pems[h]
    /\ \A s \in Ssls : faces[s] # NoFace /\ faces[s].chain # NoCert =>
           Right(faces[s].host, faces[s].chain)
    /\ \A t \in Threads : ChainInv(t)

-----------------------------------------------------------------------------
(* Lists of hosts *)

LEMMA BeginningsKnown ==
    ASSUME NEW L
    PROVE  Beginnings(L) \subseteq KitHosts
  BY DEF Beginnings

LEMMA BeginningsGrow ==
    ASSUME NEW L, NEW M, L \subseteq M
    PROVE  Beginnings(L) \subseteq Beginnings(M)
  BY DEF Beginnings

\* A beginning of a beginning is a beginning.
LEMMA BeginningsTwice ==
    ASSUME NEW L \in SUBSET KitHosts
    PROVE  Beginnings(L \cup Beginnings(L)) \subseteq Beginnings(L)
<1> SUFFICES ASSUME NEW k \in KitHosts, NEW h \in L \cup Beginnings(L),
                    <<h, k>> \in Begins
             PROVE  \E x \in L : <<x, k>> \in Begins
  BY DEF Beginnings
<1>1. CASE h \in L
  BY <1>1
<1>2. CASE h \in Beginnings(L)
  <2>1. PICK x \in L : h \in KitHosts /\ <<x, h>> \in Begins
    BY <1>2 DEF Beginnings
  <2>2. <<x, k>> \in Begins
    BY <2>1, KitFileAssumption
  <2>3. QED
    BY <2>2
<1>3. QED
  BY <1>1, <1>2

\* The list in force: the environment's, the file's or the one of /etc.
LEMMA PolicyHosts ==
    ASSUME NEW f
    PROVE  /\ DOMAIN PolicyOf(f) = KnownKeys
           /\ PolicyOf(f).impHosts =
                  IF "impHosts" \in DOMAIN Env THEN Env.impHosts
                  ELSE IF "impHosts" \in DOMAIN f THEN f.impHosts
                  ELSE IF "impHosts" \in DOMAIN EtcConf THEN EtcConf.impHosts
                  ELSE {}
  BY DEF PolicyOf, Apply, Defaults, KnownKeys

\* A list that is cut keeps some names, and perhaps the beginning of another.
LEMMA CutList ==
    ASSUME NEW L, NEW M \in ListParts(L)
    PROVE  M \subseteq L \cup Beginnings(L)
<1>1. PICK S \in SUBSET L : M \in {S} \cup {S \cup {k} : k \in Beginnings(L \ S)}
  BY DEF ListParts
<1>2. Beginnings(L \ S) \subseteq Beginnings(L)
  BY BeginningsGrow
<1>3. QED
  BY <1>1, <1>2

\* So does the list in a part of a text.
LEMMA PartHosts ==
    ASSUME NEW f, "impHosts" \in DOMAIN f, NEW p \in Parts(f), "impHosts" \in DOMAIN p
    PROVE  p.impHosts \subseteq f.impHosts \cup Beginnings(f.impHosts)
<1>1. CASE p = EmptyConf
  BY <1>1 DEF EmptyConf
<1>2. CASE p = f
  BY <1>2
<1>3. ASSUME NEW k \in DOMAIN LineOf, NEW v \in ValueParts(k, f[k]),
             p = [j \in {i \in DOMAIN LineOf : LineOf[i] <= LineOf[k]} |->
                     IF j = k THEN v ELSE f[j]]
      PROVE  p.impHosts \subseteq f.impHosts \cup Beginnings(f.impHosts)
  <2>1. p.impHosts = IF k = "impHosts" THEN v ELSE f.impHosts
    BY <1>3
  <2>2. k = "impHosts" => v \in ListParts(f.impHosts)
    BY <1>3 DEF ValueParts
  <2>3. QED
    BY <2>1, <2>2, CutList
<1>4. QED
  BY <1>1, <1>2, <1>3 DEF Parts

LEMMA CutPolicy ==
    ASSUME NEW c, NEW f \in load_conf(c)
    PROVE  PolicyOf(f).impHosts
              \subseteq PolicyOf(c).impHosts \cup Beginnings(PolicyOf(c).impHosts)
<1>1. CASE "impHosts" \notin DOMAIN c
  BY <1>1 DEF load_conf
<1>2. CASE "impHosts" \in DOMAIN c
  <2>1. PICK L \in fgetsHosts(c.impHosts) : f = [c EXCEPT !.impHosts = L]
    BY <1>2 DEF load_conf
  <2>2. DOMAIN f = DOMAIN c /\ f.impHosts = L
    BY <1>2, <2>1
  <2>3. L \subseteq c.impHosts \cup Beginnings(c.impHosts)
    BY <2>1, CutList DEF fgetsHosts
  <2>4. QED
    BY <1>2, <2>2, <2>3, PolicyHosts
<1>3. QED
  BY <1>1, <1>2

\* A text lists hosts only.
LEMMA ConfKnown ==
    ASSUME NEW c \in ConfInputs
    PROVE  "impHosts" \in DOMAIN c /\ c.impHosts \subseteq KitHosts
<1>1. c \in WrittenConf
  BY SSLClientAssumption
<1>2. PICK L \in SUBSET KitHosts : c \in {ConfText(L, set) : set \in [L -> Settings]}
  BY <1>1 DEF WrittenConf
<1>3. PICK set \in [L -> Settings] : c = ConfText(L, set)
  BY <1>2
<1>4. "impHosts" \in DOMAIN c /\ c.impHosts = {h \in L : set[h].impersonate}
  BY <1>3 DEF ConfText
<1>5. QED
  BY <1>2, <1>4

\* The policy of a part of a text has no other hosts impersonated than that of
\* the text or of a truncated file, or the beginnings of their names.
LEMMA PartPolicy ==
    ASSUME NEW f \in ConfInputs, NEW p \in Parts(f)
    PROVE  \/ PolicyOf(p).impHosts
                  \subseteq PolicyOf(f).impHosts \cup Beginnings(PolicyOf(f).impHosts)
           \/ PolicyOf(p).impHosts = PolicyOf(EmptyConf).impHosts
<1>1. "impHosts" \in DOMAIN f /\ "impHosts" \notin DOMAIN EmptyConf
  BY ConfKnown DEF EmptyConf
<1>2. CASE "impHosts" \in DOMAIN Env
  BY <1>2, PolicyHosts
<1>3. CASE "impHosts" \notin DOMAIN Env /\ "impHosts" \in DOMAIN p
  <2>1. p.impHosts \subseteq f.impHosts \cup Beginnings(f.impHosts)
    BY <1>1, <1>3, PartHosts
  <2>2. PolicyOf(p).impHosts = p.impHosts /\ PolicyOf(f).impHosts = f.impHosts
    BY <1>1, <1>3, PolicyHosts
  <2>3. QED
    BY <2>1, <2>2
<1>4. CASE "impHosts" \notin DOMAIN Env /\ "impHosts" \notin DOMAIN p
  BY <1>1, <1>4, PolicyHosts
<1>5. QED
  BY <1>2, <1>3, <1>4

-----------------------------------------------------------------------------
(* Types, and who works on what *)

LEMMA InitCore == Init => CoreInv /\ PolicyOK
<1> SUFFICES ASSUME Init PROVE CoreInv /\ PolicyOK
  OBVIOUS
<1>1. ThreadsOK
  BY KitFileAssumption DEF Init, ThreadsOK, Pcs, Call
<1>2. SslOK
  BY KitFileAssumption DEF Init, SslOK
<1>3. FilesOK
  <2>1. /\ conf = EmptyConf /\ origin \in [KitHosts -> Certs \cup {NoCert, BadPem}]
        /\ pems \in [KitHosts -> SUBSET Certs] /\ conf \in InputTexts
    BY DEF Init, FileInit, InputTexts, FileTexts
  <2>2. FilePolicy.impHosts \subseteq KitHosts
    <3>1. "impHosts" \notin DOMAIN conf
      BY <2>1 DEF EmptyConf
    <3>2. QED
      BY <3>1, PolicyHosts, SSLClientAssumption DEF FilePolicy
  <2>3. QED
    BY <2>1, <2>2 DEF FilesOK, Init
<1>4. Alone
  BY DEF Init, Alone
<1>5. PolicyOK
  <2>1. DOMAIN Defaults = KnownKeys
    BY DEF Defaults, KnownKeys
  <2>2. Defaults.impHosts = {}
    BY DEF Defaults
  <2>3. fresh \in BOOLEAN
    BY Zenon DEF Init
  <2>4. DOMAIN g = KnownKeys /\ g.impHosts \subseteq KitHosts
    BY <2>1, <2>2 DEF Init
  <2>5. QED
    BY <2>3, <2>4, Zenon DEF PolicyOK
<1>6. QED
  BY <1>1, <1>2, <1>3, <1>4, <1>5 DEF CoreInv

\* The other threads keep their place, and what they work on.
Frame(t) ==
    \A u \in Threads \ {t} :
        tpc'[u] = tpc[u] /\ call'[u] = call[u] /\ shown'[u] = shown[u]

\* A thread goes on with its call.
LEMMA InCall ==
    ASSUME ThreadsOK, Alone, NEW t \in Threads, tpc[t] # "idle"
    PROVE  /\ call[t].ssl \in Ssls /\ call[t] \in Call
           /\ \A u \in Threads \ {t} : call[u].ssl # call[t].ssl
  BY DEF ThreadsOK, Alone, Call

\* It begins one, goes on with it or ends it.
Turn(t) ==
    /\ ThreadsOK' /\ Frame(t)
    /\ \/ tpc'[t] # "idle" /\ tpc[t] # "idle" /\ call'[t].ssl = call[t].ssl
       \/ tpc'[t] # "idle" /\ call'[t].ssl \in Ssls /\ Owned(t, call'[t].ssl)
       \/ tpc'[t] = "idle" /\ call'[t].ssl = NoSsl

LEMMA TurnAlone ==
    ASSUME ThreadsOK, Alone, NEW t \in Threads, Turn(t)
    PROVE  Alone'
<1>1. tpc'[t] = "idle" <=> call'[t].ssl = NoSsl
  BY InCall, SSLClientAssumption DEF Turn
<1>2. \A u \in Threads \ {t} : call'[t].ssl # NoSsl => call[u].ssl # call'[t].ssl
  BY InCall DEF Turn, Owned
<1>3. \A u \in Threads \ {t} : tpc'[u] = tpc[u] /\ call'[u] = call[u]
  BY DEF Turn, Frame
<1>4. QED
  BY <1>1, <1>2, <1>3 DEF Alone

LEMMA LoadTurn ==
    ASSUME ThreadsOK, NEW t \in Threads, NEW l \in {"on", "again"},
           LoadOnce(t, l) \/ Fill(t, l)
    PROVE  Turn(t)
<1>1. PICK p \in Pcs \ {"idle"} : tpc' = [tpc EXCEPT ![t] = p]
  BY DEF LoadOnce, Fill, After, FillOf, Pcs
<1>2. UNCHANGED <<call, shown>> /\ tpc[t] # "idle"
  BY DEF LoadOnce, Fill, FillOf
<1>3. QED
  BY <1>1, <1>2 DEF Turn, Frame, ThreadsOK

LEMMA BindTurn ==
    ASSUME CoreInv, NEW t \in Threads, BindNote(t) \/ BindFace(t) \/ Bind(t)
    PROVE  Turn(t)
<1> USE DEF CoreInv
<1>1. CASE BindNote(t)
  <2>1. PICK s \in Ssls, h \in KitHosts :
            /\ Owned(t, s)
            /\ call' = [call EXCEPT ![t] = [ssl |-> s, host |-> h, chain |-> NoCert]]
    BY <1>1 DEF BindNote
  <2>2. tpc' = [tpc EXCEPT ![t] = "bindFace"] /\ UNCHANGED shown
    BY <1>1 DEF BindNote
  <2>3. [ssl |-> s, host |-> h, chain |-> NoCert] \in Call
    BY DEF Call
  <2>4. ThreadsOK' /\ Frame(t)
    BY <2>1, <2>2, <2>3 DEF Frame, ThreadsOK, Pcs
  <2>5. tpc'[t] # "idle" /\ call'[t].ssl = s
    BY <2>1, <2>2 DEF ThreadsOK
  <2>6. QED
    BY <2>1, <2>4, <2>5 DEF Turn
<1>2. CASE BindFace(t) \/ Bind(t)
  <2>1. PICK p \in Pcs \ {"idle"} : tpc' = [tpc EXCEPT ![t] = p]
    BY <1>2 DEF BindFace, Bind, Pcs
  <2>2. UNCHANGED <<call, shown>> /\ tpc[t] # "idle"
    BY <1>2 DEF BindFace, Bind
  <2>3. QED
    BY <2>1, <2>2 DEF Turn, Frame, ThreadsOK
<1>3. QED
  BY <1>1, <1>2

LEMMA HostOfType ==
    ASSUME SslOK, NEW s \in Ssls
    PROVE  HostOf(s) \in KitHosts /\ sni[s] \in {HostOf(s), NoHost}
  BY DEF HostOf, SslOK, Face

\* The fields of a face, and of what a thread works on.
LEMMA FaceFields ==
    ASSUME SslOK, NEW s \in Ssls, faces[s] # NoFace
    PROVE  faces[s].host \in KitHosts /\ faces[s].chain \in Certs \cup {NoCert}
  BY DEF SslOK, Face

LEMMA ChainTurn ==
    ASSUME CoreInv, NEW t \in Threads,
           \/ Chain(t) \/ ChainFace(t) \/ ChainCached(t)
           \/ ChainLookup(t) \/ ChainPem(t) \/ ChainStore(t) \/ Done(t)
    PROVE  Turn(t)
<1> USE DEF CoreInv
<1>1. CASE Chain(t)
  <2>1. PICK s \in Ssls :
            /\ Owned(t, s)
            /\ call' = [call EXCEPT ![t] =
                           [ssl |-> s, host |-> NoHost, chain |-> NoCert]]
    BY <1>1 DEF Chain
  <2>2. tpc' = [tpc EXCEPT ![t] = "on"] /\ UNCHANGED shown
    BY <1>1 DEF Chain
  <2>3. [ssl |-> s, host |-> NoHost, chain |-> NoCert] \in Call
    BY KitFileAssumption DEF Call
  <2>4. ThreadsOK' /\ Frame(t)
    BY <2>1, <2>2, <2>3 DEF Frame, ThreadsOK, Pcs
  <2>5. tpc'[t] # "idle" /\ call'[t].ssl = s
    BY <2>1, <2>2 DEF ThreadsOK
  <2>6. QED
    BY <2>1, <2>4, <2>5 DEF Turn
<1>2. CASE ChainFace(t) \/ ChainLookup(t)
  <2>1. PICK p \in Pcs \ {"idle"}, r \in Certs \cup {NoCert} :
            tpc' = [tpc EXCEPT ![t] = p] /\ shown' = [shown EXCEPT ![t] = r]
    <3>1. shown = [shown EXCEPT ![t] = shown[t]] /\ shown[t] \in Certs \cup {NoCert}
      BY DEF ThreadsOK
    <3>2. CASE ChainFace(t)
      BY <3>1, <3>2 DEF ChainFace, Return, Pcs
    <3>3. CASE ChainLookup(t)
      BY <3>1, <3>3 DEF ChainLookup, Return, Pcs
    <3>4. QED
      BY <1>2, <3>2, <3>3
  <2>2. UNCHANGED call /\ tpc[t] # "idle"
    BY <1>2 DEF ChainFace, ChainLookup
  <2>3. QED
    BY <2>1, <2>2 DEF Turn, Frame, ThreadsOK
<1>3. CASE ChainCached(t)
  <2>0. tpc[t] = "cached" /\ call[t].ssl \in Ssls /\ call[t] \in Call
    BY <1>3, InCall DEF ChainCached
  <2>1. PICK h \in KitHosts : call' = [call EXCEPT ![t].host = h]
    BY <1>3, <2>0, HostOfType DEF ChainCached
  <2>2. PICK p \in Pcs \ {"idle"}, r \in Certs \cup {NoCert} :
            tpc' = [tpc EXCEPT ![t] = p] /\ shown' = [shown EXCEPT ![t] = r]
    <3>1. shown = [shown EXCEPT ![t] = shown[t]] /\ shown[t] \in Certs \cup {NoCert}
      BY DEF ThreadsOK
    <3>2. faces[call[t].ssl] # NoFace =>
              faces[call[t].ssl].chain \in Certs \cup {NoCert}
      BY <2>0, FaceFields
    <3>3. QED
      BY <1>3, <3>1, <3>2 DEF ChainCached, Return, Pcs
  <2>3. call'[t] \in Call /\ call'[t].ssl = call[t].ssl
    BY <2>0, <2>1 DEF ThreadsOK, Call
  <2>4. ThreadsOK' /\ Frame(t)
    BY <2>1, <2>2, <2>3 DEF Frame, ThreadsOK
  <2>5. tpc'[t] # "idle"
    BY <2>2 DEF ThreadsOK
  <2>6. QED
    BY <2>0, <2>3, <2>4, <2>5 DEF Turn
<1>4. CASE ChainPem(t)
  <2>0. tpc[t] = "pem" /\ call[t] \in Call
    BY <1>4, InCall DEF ChainPem
  <2>1. \/ call' = call
        \/ \E c \in Certs : call' = [call EXCEPT ![t].chain = c]
    BY <1>4 DEF ChainPem
  <2>2. PICK p \in Pcs \ {"idle"}, r \in Certs \cup {NoCert} :
            tpc' = [tpc EXCEPT ![t] = p] /\ shown' = [shown EXCEPT ![t] = r]
    <3>1. shown = [shown EXCEPT ![t] = shown[t]] /\ shown[t] \in Certs \cup {NoCert}
      BY DEF ThreadsOK
    <3>2. QED
      BY <1>4, <3>1 DEF ChainPem, Return, Pcs
  <2>3. call'[t] \in Call /\ call'[t].ssl = call[t].ssl
    BY <2>0, <2>1 DEF ThreadsOK, Call
  <2>4. ThreadsOK' /\ Frame(t)
    BY <2>1, <2>2, <2>3 DEF Frame, ThreadsOK
  <2>5. tpc'[t] # "idle"
    BY <2>2 DEF ThreadsOK
  <2>6. QED
    BY <2>0, <2>3, <2>4, <2>5 DEF Turn
<1>5. CASE ChainStore(t)
  <2>1. call[t].chain \in Certs \cup {NoCert}
    BY DEF ThreadsOK, Call
  <2>2. /\ tpc[t] = "store" /\ UNCHANGED call
        /\ shown' = [shown EXCEPT ![t] = call[t].chain]
        /\ tpc' = [tpc EXCEPT ![t] = "done"]
    BY <1>5 DEF ChainStore, Return
  <2>3. QED
    BY <2>1, <2>2 DEF Turn, Frame, ThreadsOK, Pcs
<1>6. CASE Done(t)
  <2>1. /\ call' = [call EXCEPT ![t] = [ssl |-> NoSsl, host |-> NoHost, chain |-> NoCert]]
        /\ tpc' = [tpc EXCEPT ![t] = "idle"] /\ shown' = [shown EXCEPT ![t] = NoCert]
    BY <1>6 DEF Done
  <2>2. [ssl |-> NoSsl, host |-> NoHost, chain |-> NoCert] \in Call
    BY KitFileAssumption DEF Call
  <2>3. ThreadsOK' /\ Frame(t)
    BY <2>1, <2>2 DEF Frame, ThreadsOK, Pcs
  <2>4. tpc'[t] = "idle" /\ call'[t].ssl = NoSsl
    BY <2>1 DEF ThreadsOK
  <2>5. QED
    BY <2>3, <2>4 DEF Turn
<1>7. QED
  BY <1>1, <1>2, <1>3, <1>4, <1>5, <1>6

LEMMA ThreadTurn ==
    ASSUME CoreInv, NEW t \in Threads, Thread(t)
    PROVE  Turn(t)
  BY LoadTurn, BindTurn, ChainTurn DEF Thread, CoreInv

\* What the steps of a thread do to the table of faces.
FaceMade(t)   == faces' = [faces EXCEPT ![call[t].ssl] = face(call[t].ssl)]
FaceSet(t, c) ==
    faces' = [faces EXCEPT ![call[t].ssl] = [host |-> call[t].host, chain |-> c]]

LEMMA FaceType ==
    ASSUME SslOK, NEW s \in Ssls
    PROVE  face(s) \in Face \cup {NoFace}
  BY DEF face, SslOK, Face

LEMMA FacesStep ==
    ASSUME CoreInv, NEW t \in Threads, Thread(t)
    PROVE  \/ tpc[t] \in {"bindFace", "face"} /\ FaceMade(t)
           \/ tpc[t] = "bind" /\ FaceSet(t, NoCert)
           \/ /\ tpc[t] = "store" /\ faces[call[t].ssl] # NoFace
              /\ FaceSet(t, call[t].chain)
           \/ UNCHANGED faces
<1>1. CASE BindFace(t)
  BY <1>1 DEF BindFace, FaceMade
<1>2. CASE ChainFace(t)
  BY <1>2 DEF ChainFace, FaceMade
<1>3. CASE Bind(t)
  BY <1>3 DEF Bind, FaceSet
<1>4. CASE ChainStore(t)
  <2>1. call[t].ssl \in Ssls /\ tpc[t] = "store"
    BY <1>4, InCall DEF ChainStore, CoreInv
  <2>2. CASE faces[call[t].ssl] = NoFace
    <3>1. faces' = [faces EXCEPT ![call[t].ssl] = faces[call[t].ssl]]
      BY <1>4, <2>2 DEF ChainStore
    <3>2. faces' = faces
      BY <2>1, <3>1 DEF CoreInv, SslOK
    <3>3. QED
      BY <3>2
  <2>3. CASE faces[call[t].ssl] # NoFace
    BY <1>4, <2>1, <2>3 DEF ChainStore, FaceSet
  <2>4. QED
    BY <2>2, <2>3
<1>5. CASE \E l \in {"on", "again"} : LoadOnce(t, l) \/ Fill(t, l)
  BY <1>5 DEF LoadOnce, Fill
<1>6. CASE BindNote(t) \/ Chain(t) \/ ChainCached(t) \/ ChainLookup(t)
           \/ ChainPem(t) \/ Done(t)
  BY <1>6 DEF BindNote, Chain, ChainCached, ChainLookup, ChainPem, Done
<1>7. QED
  BY <1>1, <1>2, <1>3, <1>4, <1>5, <1>6 DEF Thread

LEMMA SetType ==
    ASSUME CoreInv, NEW t \in Threads, tpc[t] # "idle",
           NEW c \in {NoCert, call[t].chain}, FaceSet(t, c)
    PROVE  /\ faces' \in [Ssls -> Face \cup {NoFace}]
           /\ faces'[call[t].ssl] # NoFace
<1>1. faces' = [faces EXCEPT ![call[t].ssl] = [host |-> call[t].host, chain |-> c]]
  BY DEF FaceSet
<1>2. call[t].ssl \in Ssls /\ call[t] \in Call
  BY InCall DEF CoreInv
<1>3. [host |-> call[t].host, chain |-> c] \in Face
  BY <1>2 DEF Call, Face
<1>4. NoFace \notin Face
  BY SSLClientAssumption DEF Face
<1>5. QED
  BY <1>1, <1>2, <1>3, <1>4 DEF CoreInv, SslOK

\* The server name of its SSL object, and the host noted last.
LEMMA NamesStep ==
    ASSUME CoreInv, NEW t \in Threads, Thread(t)
    PROVE  /\ lastHost' \in KitHosts
           /\ \/ UNCHANGED sni
              \/ tpc[t] = "bindFace" /\ tpc'[t] \in {"bind", "done"}
                 /\ UNCHANGED shown
                 /\ \E h \in KitHosts : sni' = [sni EXCEPT ![call[t].ssl] = h]
<1>1. CASE BindFace(t)
  <2>1. call[t] \in Call
    BY DEF CoreInv, ThreadsOK
  <2>2. QED
    BY <1>1, <2>1 DEF BindFace, Call, CoreInv, SslOK, ThreadsOK
<1>2. CASE ChainFace(t) \/ Bind(t) \/ ChainStore(t)
  BY <1>2 DEF ChainFace, Bind, ChainStore, CoreInv, SslOK
<1>3. CASE \E l \in {"on", "again"} : LoadOnce(t, l) \/ Fill(t, l)
  BY <1>3 DEF LoadOnce, Fill, CoreInv, SslOK
<1>4. CASE BindNote(t) \/ Chain(t) \/ ChainCached(t) \/ ChainLookup(t)
           \/ ChainPem(t) \/ Done(t)
  BY <1>4 DEF BindNote, Chain, ChainCached, ChainLookup, ChainPem, Done, CoreInv, SslOK
<1>5. QED
  BY <1>1, <1>2, <1>3, <1>4 DEF Thread

LEMMA ThreadSsl ==
    ASSUME CoreInv, NEW t \in Threads, Thread(t)
    PROVE  SslOK'
<1>1. faces' \in [Ssls -> Face \cup {NoFace}]
  <2>1. CASE tpc[t] \in {"bindFace", "face"} /\ FaceMade(t)
    <3>1. call[t].ssl \in Ssls
      BY <2>1, InCall DEF CoreInv
    <3>2. QED
      BY <2>1, <3>1, FaceType DEF FaceMade, CoreInv, SslOK
  <2>2. CASE /\ tpc[t] \in {"bind", "store"}
             /\ FaceSet(t, NoCert) \/ FaceSet(t, call[t].chain)
    BY <2>2, SetType
  <2>3. CASE UNCHANGED faces
    BY <2>3 DEF CoreInv, SslOK
  <2>4. QED
    BY <2>1, <2>2, <2>3, FacesStep
<1>2. lastHost' \in KitHosts /\ sni' \in [Ssls -> KitHosts]
  BY NamesStep DEF CoreInv, SslOK
<1>3. QED
  BY <1>1, <1>2 DEF SslOK

\* A step of the store.
LEMMA StoreTypes ==
    ASSUME CoreInv, StoreStep
    PROVE  /\ FilesOK' /\ listed \subseteq listed'
           /\ \A h \in KitHosts : pems[h] \subseteq pems'[h]
           /\ \A h \in KitHosts : origin'[h] \in Certs => origin'[h] \in pems'[h]
<1>1. pems' = [h \in KitHosts |-> pems[h] \cup ({origin'[h]} \cap Certs)]
  BY DEF StoreStep
<1>2. /\ conf' \in InputTexts /\ listed \subseteq listed' /\ listed' \subseteq KitHosts
      /\ origin' \in [KitHosts -> Certs \cup {NoCert, BadPem}]
  <2>1. CASE Truncate /\ UNCHANGED listed
    BY <2>1 DEF Truncate, CoreInv, FilesOK, InputTexts, FileTexts
  <2>2. ASSUME NEW f \in ConfInputs, Rewrite(f),
               listed' = listed \cup PolicyOf(f).impHosts
        PROVE  /\ conf' \in InputTexts
               /\ listed \subseteq listed' /\ listed' \subseteq KitHosts
               /\ origin' \in [KitHosts -> Certs \cup {NoCert, BadPem}]
    <3>1. conf' \in Parts(f) /\ UNCHANGED origin
      BY <2>2, PartsFacts DEF Rewrite
    <3>2. conf' \in InputTexts
      BY <3>1, TextParts DEF InputTexts
    <3>3. PolicyOf(f).impHosts \subseteq KitHosts
      BY ConfKnown, PolicyHosts, SSLClientAssumption
    <3>4. QED
      BY <2>2, <3>1, <3>2, <3>3 DEF CoreInv, FilesOK
  <2>3. CASE (\E f \in PemInputs : Pem(f[1], f[2])) /\ UNCHANGED listed
    <3>1. PICK f \in PemInputs : Pem(f[1], f[2])
      BY <2>3
    <3>2. f[1] \in KitHosts /\ f[2] \in Certs \cup {NoCert, BadPem}
      BY SSLClientAssumption
    <3>3. QED
      BY <2>3, <3>1, <3>2 DEF Pem, CoreInv, FilesOK
  <2>4. QED
    BY <2>1, <2>2, <2>3 DEF StoreStep
<1>3. pems' \in [KitHosts -> SUBSET Certs]
  BY <1>1 DEF CoreInv, FilesOK
<1>4. QED
  BY <1>1, <1>2, <1>3 DEF CoreInv, FilesOK

LEMMA NextCore ==
    ASSUME CoreInv, [Next]_vars
    PROVE  CoreInv'
<1>1. CASE UNCHANGED vars
  BY <1>1 DEF vars, clientVars, histVars, CoreInv, ThreadsOK, SslOK, FilesOK, Alone
<1>2. CASE StoreStep
  <2>1. UNCHANGED <<tpc, call, shown, faces, lastHost, sni>>
    BY <1>2 DEF StoreStep, clientVars
  <2>2. QED
    BY <1>2, <2>1, StoreTypes DEF CoreInv, ThreadsOK, SslOK, Alone
<1>3. CASE ClientStep /\ UNCHANGED <<origin, conf, histVars>>
  <2>1. FilesOK'
    BY <1>3 DEF CoreInv, FilesOK, histVars
  <2>2. ASSUME NEW t \in Threads, Thread(t) PROVE CoreInv'
    <3>1. ThreadsOK' /\ Alone'
      BY <2>2, ThreadTurn, TurnAlone DEF Turn, CoreInv
    <3>2. SslOK'
      BY <2>2, ThreadSsl
    <3>3. QED
      BY <2>1, <3>1, <3>2 DEF CoreInv
  <2>3. CASE Tick
    BY <2>1, <2>3 DEF Tick, CoreInv, ThreadsOK, SslOK, Alone
  <2>4. CASE SslFree
    <3>1. /\ \E s \in Ssls : sni' = [sni EXCEPT ![s] = NoHost]
          /\ UNCHANGED <<faces, lastHost, tpc, call, shown>>
      BY <2>4 DEF SslFree
    <3>2. QED
      BY <2>1, <3>1, KitFileAssumption DEF CoreInv, ThreadsOK, SslOK, Alone
  <2>5. QED
    BY <1>3, <2>2, <2>3, <2>4 DEF ClientStep
<1>4. QED
  BY <1>1, <1>2, <1>3 DEF Next

LEMMA CoreCorrect == Spec => []CoreInv
<1>1. Init => CoreInv
  BY InitCore
<1>2. CoreInv /\ [Next]_vars => CoreInv'
  BY NextCore
<1>3. QED
  BY <1>1, <1>2, PTL DEF Spec

-----------------------------------------------------------------------------
(* The buffers *)

LEMMA ListedGrows ==
    ASSUME listed \subseteq listed'
    PROVE  Impersonated \subseteq Impersonated'
<1>1. Beginnings(listed) \subseteq Beginnings(listed')
  BY BeginningsGrow
<1>2. Beginnings(listed)' = Beginnings(listed')
  BY DEF Beginnings
<1>3. QED
  BY <1>1, <1>2 DEF Impersonated

\* The file that a step of the store leaves.
LEMMA StoreHosts ==
    ASSUME CoreInv, BuffersInv, StoreStep
    PROVE  FilePolicy'.impHosts \subseteq Impersonated'
<1>0. FilePolicy' = PolicyOf(conf') /\ Impersonated \subseteq Impersonated'
  BY StoreTypes, ListedGrows DEF FilePolicy, PolicyOf, Apply
<1>1. CASE Truncate
  BY <1>0, <1>1 DEF Truncate, BuffersInv, Impersonated
<1>2. ASSUME NEW f \in ConfInputs, Rewrite(f), listed' = listed \cup PolicyOf(f).impHosts
      PROVE  FilePolicy'.impHosts \subseteq Impersonated'
  <2>1. conf' \in Parts(f)
    BY <1>2, PartsFacts DEF Rewrite
  <2>2. CASE PolicyOf(conf').impHosts = PolicyOf(EmptyConf).impHosts
    BY <1>0, <2>2 DEF BuffersInv, Impersonated
  <2>3. CASE PolicyOf(conf').impHosts
                \subseteq PolicyOf(f).impHosts \cup Beginnings(PolicyOf(f).impHosts)
    <3>1. Beginnings(PolicyOf(f).impHosts) \subseteq Beginnings(listed')
      BY <1>2, BeginningsGrow
    <3>2. Impersonated' = listed' \cup Beginnings(listed')
      BY DEF Impersonated, Beginnings
    <3>3. QED
      BY <1>0, <1>2, <2>3, <3>1, <3>2
  <2>4. QED
    BY <2>1, <2>2, <2>3, PartPolicy
<1>3. CASE UNCHANGED conf
  BY <1>0, <1>3 DEF BuffersInv, FilePolicy
<1>4. QED
  BY <1>1, <1>2, <1>3 DEF StoreStep, Pem

LEMMA FillHosts ==
    ASSUME CoreInv, BuffersInv, NEW t, NEW l, Fill(t, l)
    PROVE  DOMAIN g' = KnownKeys /\ g'.impHosts \subseteq Impersonated
<1>1. PICK f \in load_conf(conf) : g' = PolicyOf(f)
  BY DEF Fill
<1>2. g'.impHosts \subseteq FilePolicy.impHosts \cup Beginnings(FilePolicy.impHosts)
  BY <1>1, CutPolicy DEF FilePolicy
<1>3. Beginnings(FilePolicy.impHosts) \subseteq Beginnings(listed)
  <2>1. Beginnings(FilePolicy.impHosts) \subseteq Beginnings(Impersonated)
    BY BeginningsGrow DEF BuffersInv
  <2>2. QED
    BY <2>1, BeginningsTwice DEF Impersonated, CoreInv, FilesOK
<1>4. QED
  BY <1>1, <1>2, <1>3, PolicyHosts DEF BuffersInv, Impersonated

\* Only load_once changes the buffers.
LEMMA ThreadBuffers ==
    ASSUME PolicyOK, NEW t \in Threads, Thread(t)
    PROVE  /\ fresh' \in BOOLEAN
           /\ (\E l \in {"on", "again"} : Fill(t, l)) \/ UNCHANGED g
<1>1. CASE \E l \in {"on", "again"} : LoadOnce(t, l) \/ Fill(t, l)
  <2>1. PICK l \in {"on", "again"} : LoadOnce(t, l) \/ Fill(t, l)
    BY <1>1
  <2>2. CASE LoadOnce(t, l)
    <3>1. fresh' = fresh \/ fresh' = TRUE
      BY <2>2, Zenon DEF LoadOnce
    <3>2. UNCHANGED g
      BY <2>2 DEF LoadOnce
    <3>3. QED
      BY <3>1, <3>2, Zenon DEF PolicyOK
  <2>3. CASE Fill(t, l)
    <3>1. fresh' = fresh
      BY <2>3 DEF Fill
    <3>2. QED
      BY <2>3, <3>1, Zenon DEF PolicyOK
  <2>4. QED
    BY <2>1, <2>2, <2>3, Zenon
<1>2. CASE BindNote(t) \/ BindFace(t) \/ Bind(t) \/ Chain(t) \/ ChainFace(t)
           \/ ChainCached(t) \/ ChainLookup(t) \/ ChainPem(t) \/ ChainStore(t)
           \/ Done(t)
  <2>1. UNCHANGED <<g, fresh>>
    BY <1>2 DEF BindNote, BindFace, Bind, Chain, ChainFace, ChainCached,
                ChainLookup, ChainPem, ChainStore, Done
  <2>2. QED
    BY <2>1 DEF PolicyOK
<1>3. QED
  BY <1>1, <1>2 DEF Thread

LEMMA NextBuffers ==
    ASSUME CoreInv, PolicyOK, BuffersInv, [Next]_vars
    PROVE  PolicyOK' /\ BuffersInv'
<1>0. Impersonated \subseteq KitHosts
  BY BeginningsKnown DEF Impersonated, CoreInv, FilesOK
<1>1. CASE UNCHANGED vars
  BY <1>1 DEF vars, clientVars, histVars, PolicyOK, BuffersInv, FilePolicy, Impersonated
<1>2. CASE StoreStep
  <2>1. UNCHANGED <<g, fresh>>
    BY <1>2 DEF StoreStep, clientVars
  <2>2. /\ FilePolicy'.impHosts \subseteq Impersonated' /\ Impersonated \subseteq Impersonated'
        /\ listed \subseteq listed'
    BY <1>2, StoreTypes, StoreHosts, ListedGrows
  <2>3. QED
    BY <2>1, <2>2 DEF PolicyOK, BuffersInv
<1>3. CASE ClientStep /\ UNCHANGED <<origin, conf, histVars>>
  <2>1. FilePolicy' = FilePolicy /\ listed' = listed /\ Impersonated' = Impersonated
    BY <1>3 DEF FilePolicy, Impersonated, histVars
  <2>2. ASSUME NEW t \in Threads, Thread(t) PROVE PolicyOK' /\ BuffersInv'
    <3>1. fresh' \in BOOLEAN
      BY <2>2, ThreadBuffers
    <3>2. DOMAIN g' = KnownKeys /\ g'.impHosts \subseteq Impersonated
      BY <2>2, ThreadBuffers, FillHosts DEF BuffersInv, PolicyOK
    <3>3. QED
      BY <1>0, <2>1, <3>1, <3>2 DEF PolicyOK, BuffersInv
  <2>3. CASE Tick \/ SslFree
    <3>1. UNCHANGED g /\ fresh' \in BOOLEAN
      BY <2>3, Zenon DEF Tick, SslFree, PolicyOK
    <3>2. QED
      BY <2>1, <3>1 DEF PolicyOK, BuffersInv
  <2>4. QED
    BY <1>3, <2>2, <2>3 DEF ClientStep
<1>4. QED
  BY <1>1, <1>2, <1>3 DEF Next

LEMMA BuffersCorrect == Spec => [](PolicyOK /\ BuffersInv)
<1>1. Init => PolicyOK /\ BuffersInv
  <2>1. Init => /\ g.impHosts = {} /\ FilePolicy.impHosts = listed
                /\ FilePolicy = PolicyOf(EmptyConf)
    BY DEF Init, FileInit, Defaults, FilePolicy
  <2>2. QED
    BY <2>1, InitCore DEF BuffersInv, Impersonated
<1>2. CoreInv /\ PolicyOK /\ BuffersInv /\ [Next]_vars => (PolicyOK /\ BuffersInv)'
  BY NextBuffers
<1>3. QED
  BY <1>1, <1>2, CoreCorrect, PTL DEF Spec

-----------------------------------------------------------------------------
(* The table of faces *)

LEMMA UsedFinite == IsFiniteSet(Used) /\ Cardinality(Used) \in Nat
<1>1. Used \subseteq Ssls
  BY DEF Used
<1>2. QED
  BY <1>1, FS_Subset, FS_CardinalityType, SSLClientAssumption

\* No entry is removed, and one is made only while there is room.
LEMMA TableStep ==
    ASSUME CoreInv, TableInv, NEW t \in Threads, Thread(t)
    PROVE  /\ \A s \in Ssls : faces[s] # NoFace => faces'[s] # NoFace
           /\ \/ Used' = Used
              \/ Cardinality(Used) < MaxSsl /\ \E s \in Ssls : Used' = Used \cup {s}
<1>1. CASE tpc[t] \in {"bindFace", "face"} /\ FaceMade(t)
  <2>1. PICK s \in Ssls : s = call[t].ssl
    BY <1>1, InCall DEF CoreInv
  <2>2. faces' = [faces EXCEPT ![s] = face(s)]
    BY <1>1, <2>1 DEF FaceMade
  <2>3. CASE faces[s] # NoFace \/ Cardinality(Used) >= MaxSsl
    <3>1. faces' = faces
      BY <2>1, <2>2, <2>3 DEF face, CoreInv, SslOK
    <3>2. QED
      BY <3>1 DEF Used
  <2>4. CASE ~(faces[s] # NoFace \/ Cardinality(Used) >= MaxSsl)
    <3>1. face(s) \in Face
      BY <2>4 DEF face, Face, CoreInv, SslOK
    <3>2. face(s) # NoFace
      BY <3>1, SSLClientAssumption DEF Face
    <3>3. /\ \A x \in Ssls : faces'[x] = IF x = s THEN face(s) ELSE faces[x]
      BY <2>2 DEF CoreInv, SslOK
    <3>4. Used' = Used \cup {s}
      BY <2>1, <3>2, <3>3 DEF Used
    <3>5. Cardinality(Used) < MaxSsl
      <4>1. Cardinality(Used) \in Nat
        BY UsedFinite
      <4>2. QED
        BY <2>4, <4>1, SSLClientAssumption
    <3>6. QED
      BY <2>1, <3>2, <3>3, <3>4, <3>5
  <2>5. QED
    BY <2>3, <2>4
<1>2. CASE /\ tpc[t] \in {"bind", "store"} /\ faces[call[t].ssl] # NoFace
           /\ FaceSet(t, NoCert) \/ FaceSet(t, call[t].chain)
  <2>1. call[t].ssl \in Ssls /\ faces'[call[t].ssl] # NoFace
    BY <1>2, InCall, SetType DEF CoreInv
  <2>2. \A x \in Ssls : x # call[t].ssl => faces'[x] = faces[x]
    BY <1>2 DEF FaceSet, CoreInv, SslOK
  <2>3. \A x \in Ssls : faces'[x] # NoFace <=> faces[x] # NoFace
    BY <1>2, <2>1, <2>2
  <2>4. QED
    BY <2>3 DEF Used
<1>3. CASE UNCHANGED faces
  BY <1>3 DEF Used
<1>4. QED
  BY <1>1, <1>2, <1>3, FacesStep DEF TableInv

\* A thread comes to "bind" with an entry.
LEMMA BindHasFace ==
    ASSUME CoreInv, NEW t \in Threads, Thread(t), tpc'[t] = "bind"
    PROVE  faces'[call'[t].ssl] # NoFace
<1>1. CASE BindFace(t)
  <2>1. call[t].ssl \in Ssls /\ call' = call
    BY <1>1, InCall DEF BindFace, CoreInv
  <2>2. /\ tpc' = [tpc EXCEPT ![t] = IF face(call[t].ssl) = NoFace THEN "done" ELSE "bind"]
        /\ faces' = [faces EXCEPT ![call[t].ssl] = face(call[t].ssl)]
    BY <1>1 DEF BindFace
  <2>3. face(call[t].ssl) # NoFace
    BY <2>2 DEF CoreInv, ThreadsOK
  <2>4. QED
    BY <2>1, <2>2, <2>3 DEF CoreInv, SslOK
<1>2. CASE ~BindFace(t)
  <2>1. CASE \E l \in {"on", "again"} : LoadOnce(t, l) \/ Fill(t, l)
    BY <2>1 DEF LoadOnce, Fill, After, FillOf, CoreInv, ThreadsOK
  <2>2. CASE BindNote(t) \/ Bind(t) \/ Chain(t) \/ ChainStore(t) \/ Done(t)
    BY <2>2 DEF BindNote, Bind, Chain, ChainStore, Done, Return, CoreInv, ThreadsOK
  <2>3. CASE ChainFace(t) \/ ChainCached(t) \/ ChainLookup(t) \/ ChainPem(t)
    BY <2>3 DEF ChainFace, ChainCached, ChainLookup, ChainPem, Return, CoreInv, ThreadsOK
  <2>4. QED
    BY <1>2, <2>1, <2>2, <2>3 DEF Thread
<1>3. QED
  BY <1>1, <1>2

LEMMA NextTable ==
    ASSUME CoreInv, TableInv, [Next]_vars
    PROVE  TableInv'
<1>1. CASE UNCHANGED vars \/ StoreStep \/ Tick \/ SslFree
  <2>1. UNCHANGED <<faces, tpc, call>>
    BY <1>1 DEF vars, StoreStep, clientVars, Tick, SslFree
  <2>2. QED
    BY <2>1 DEF TableInv, Used
<1>2. ASSUME NEW t \in Threads, Thread(t) PROVE TableInv'
  <2>1. Cardinality(Used') <= MaxSsl
    <3>1. CASE Used' = Used
      BY <3>1 DEF TableInv
    <3>2. CASE Cardinality(Used) < MaxSsl /\ \E s \in Ssls : Used' = Used \cup {s}
      <4>1. PICK s \in Ssls : Used' = Used \cup {s}
        BY <3>2
      <4>2. IsFiniteSet(Used) /\ Cardinality(Used) \in Nat
        BY UsedFinite
      <4>3. Cardinality(Used \cup {s}) \in {Cardinality(Used), Cardinality(Used) + 1}
        BY <4>2, FS_AddElement
      <4>4. MaxSsl \in Nat
        BY SSLClientAssumption
      <4>5. Cardinality(Used \cup {s}) <= MaxSsl
        BY <3>2, <4>2, <4>3, <4>4
      <4>6. QED
        BY <4>1, <4>5
    <3>3. QED
      BY <1>2, <3>1, <3>2, TableStep
  <2>2. ASSUME NEW u \in Threads, tpc'[u] = "bind"
        PROVE  faces'[call'[u].ssl] # NoFace
    <3>1. CASE u = t
      BY <1>2, <2>2, <3>1, BindHasFace
    <3>2. CASE u # t
      <4>1. tpc[u] = "bind" /\ call'[u] = call[u]
        BY <1>2, <2>2, <3>2, ThreadTurn DEF Turn, Frame
      <4>2. faces[call[u].ssl] # NoFace /\ call[u].ssl \in Ssls
        BY <4>1, InCall DEF TableInv, CoreInv
      <4>3. QED
        BY <1>2, <4>1, <4>2, TableStep
    <3>3. QED
      BY <3>1, <3>2
  <2>3. QED
    BY <2>1, <2>2 DEF TableInv
<1>3. QED
  BY <1>1, <1>2 DEF Next, ClientStep

\* Every variable keeps its type, and g_faces never holds more than
\* SKYTAP_MAX_SSL entries, however many SSL objects the threads of a process
\* use: skytap_face makes no entry when the table is full.
THEOREM ClientTypeCorrect == Spec => []TypeOK
<1>1. ASSUME Init PROVE TableInv
  <2>1. Used = {}
    BY <1>1 DEF Init, Used
  <2>2. Cardinality({}) = 0 /\ MaxSsl \in Nat
    BY FS_EmptySet, SSLClientAssumption
  <2>3. Cardinality(Used) <= MaxSsl
    BY <2>1, <2>2
  <2>4. \A t \in Threads : tpc[t] = "idle"
    BY <1>1 DEF Init
  <2>5. QED
    BY <2>3, <2>4 DEF TableInv
<1>2. CoreInv /\ TableInv /\ [Next]_vars => TableInv'
  BY NextTable
<1>3. CoreInv /\ PolicyOK /\ TableInv => TypeOK
  BY DEF CoreInv, ThreadsOK, SslOK, FilesOK, PolicyOK, TableInv, TypeOK, Pcs, Call
<1>4. QED
  BY <1>1, <1>2, <1>3, CoreCorrect, BuffersCorrect, PTL DEF Spec

-----------------------------------------------------------------------------
(* What is shown *)

\* A name found in the buffers, also while another thread refills them, is one
\* that a policy listed, or its beginning.
LEMMA FoundIsListed ==
    ASSUME CoreInv, BuffersInv, NEW t, NEW L \in ImpHostsRead(t)
    PROVE  L \subseteq Impersonated
<1>1. g.impHosts \cup FilePolicy.impHosts \subseteq Impersonated
  BY DEF BuffersInv, Impersonated
<1>2. Beginnings(g.impHosts \cup FilePolicy.impHosts) \subseteq Impersonated
  <2>1. Beginnings(g.impHosts \cup FilePolicy.impHosts) \subseteq Beginnings(Impersonated)
    BY <1>1, BeginningsGrow
  <2>2. Beginnings(Impersonated) \subseteq Beginnings(listed)
    BY BeginningsTwice DEF Impersonated, CoreInv, FilesOK
  <2>3. QED
    BY <2>1, <2>2 DEF Impersonated
<1>3. QED
  BY <1>1, <1>2 DEF ImpHostsRead

\* The faces.
LEMMA FacesShow ==
    ASSUME CoreInv, ShowInv, NEW t \in Threads, Thread(t),
           UNCHANGED <<pems, listed>>
    PROVE  \A s \in Ssls : faces'[s] # NoFace /\ faces'[s].chain # NoCert =>
               Right(faces'[s].host, faces'[s].chain)
<1> SUFFICES ASSUME NEW s \in Ssls, faces'[s] # NoFace, faces'[s].chain # NoCert
             PROVE  Right(faces'[s].host, faces'[s].chain)
  OBVIOUS
<1>1. CASE faces'[s] = faces[s]
  BY <1>1 DEF ShowInv
<1>2. CASE tpc[t] \in {"bindFace", "face"} /\ FaceMade(t)
  <2>1. faces'[s] = IF s = call[t].ssl THEN face(s) ELSE faces[s]
    BY <1>2 DEF FaceMade, CoreInv, SslOK
  <2>2. face(s) = faces[s] \/ face(s).chain = NoCert
    BY DEF face
  <2>3. QED
    BY <1>1, <2>1, <2>2
<1>3. CASE tpc[t] = "bind" /\ FaceSet(t, NoCert)
  <2>1. faces'[s] = IF s = call[t].ssl THEN [host |-> call[t].host, chain |-> NoCert]
                    ELSE faces[s]
    BY <1>3 DEF FaceSet, CoreInv, SslOK
  <2>2. QED
    BY <1>1, <2>1
<1>4. CASE tpc[t] = "store" /\ FaceSet(t, call[t].chain)
  <2>1. faces'[s] = IF s = call[t].ssl
                    THEN [host |-> call[t].host, chain |-> call[t].chain]
                    ELSE faces[s]
    BY <1>4 DEF FaceSet, CoreInv, SslOK
  <2>2. Right(call[t].host, call[t].chain)
    BY <1>4 DEF ShowInv, ChainInv, Right
  <2>3. QED
    BY <1>1, <2>1, <2>2
<1>5. QED
  BY <1>1, <1>2, <1>3, <1>4, FacesStep

\* The calls of the other threads: no other thread sets the server name of
\* their SSL object.
LEMMA OthersShow ==
    ASSUME CoreInv, ShowInv, NEW t \in Threads, Thread(t),
           UNCHANGED <<pems, listed>>, NEW u \in Threads, u # t
    PROVE  ChainInv(u)'
<1>1. tpc'[u] = tpc[u] /\ call'[u] = call[u] /\ shown'[u] = shown[u]
  BY ThreadTurn DEF Turn, Frame
<1>2. tpc[u] # "idle" => sni'[call[u].ssl] = sni[call[u].ssl]
  <2>1. SUFFICES ASSUME tpc[u] # "idle" PROVE sni'[call[u].ssl] = sni[call[u].ssl]
    OBVIOUS
  <2>2. call[u].ssl \in Ssls /\ call[u].ssl # call[t].ssl
    BY <2>1, InCall DEF CoreInv
  <2>3. QED
    BY <2>2, NamesStep DEF CoreInv, SslOK
<1>3. ChainInv(u) /\ Impersonated' = Impersonated
  BY DEF ShowInv, Impersonated
<1>4. QED
  BY <1>1, <1>2, <1>3 DEF ChainInv, Right

\* A thread that is not yet sure of a host, and has nothing to show.
LEMMA NothingShown ==
    ASSUME NEW t \in Threads, shown'[t] = NoCert,
           tpc'[t] \notin {"again", "refill", "lookup", "pem", "store"}
    PROVE  ChainInv(t)'
  BY DEF ChainInv

LEMMA LoadShow ==
    ASSUME CoreInv, NEW t \in Threads, ChainInv(t), NEW l \in {"on", "again"},
           LoadOnce(t, l) \/ Fill(t, l), UNCHANGED <<pems, listed>>
    PROVE  ChainInv(t)'
<1>1. UNCHANGED <<call, shown, sni>> /\ tpc[t] # "done"
  BY DEF LoadOnce, Fill, FillOf
<1>2. CASE l = "on"
  <2>1. tpc'[t] \in {"face", "fill"}
    BY <1>2 DEF LoadOnce, Fill, After, FillOf, CoreInv, ThreadsOK
  <2>2. QED
    BY <1>1, <2>1, NothingShown DEF ChainInv
<1>3. CASE l = "again"
  <2>1. tpc[t] \in {"again", "refill"} /\ tpc'[t] \in {"lookup", "refill"}
    BY <1>3 DEF LoadOnce, Fill, After, FillOf, CoreInv, ThreadsOK
  <2>2. QED
    BY <1>1, <2>1 DEF ChainInv
<1>4. QED
  BY <1>2, <1>3

LEMMA BindShow ==
    ASSUME CoreInv, NEW t \in Threads, ChainInv(t),
           BindNote(t) \/ BindFace(t) \/ Bind(t) \/ Chain(t) \/ Done(t)
    PROVE  ChainInv(t)'
<1>1. shown'[t] = NoCert
  BY DEF BindNote, BindFace, Bind, Chain, Done, ChainInv, CoreInv, ThreadsOK
<1>2. tpc'[t] \in {"bindFace", "bind", "done", "on", "idle"}
  BY DEF BindNote, BindFace, Bind, Chain, Done, CoreInv, ThreadsOK
<1>3. QED
  BY <1>1, <1>2, NothingShown

LEMMA ChainShow ==
    ASSUME CoreInv, BuffersInv, ShowInv, NEW t \in Threads,
           \/ ChainFace(t) \/ ChainCached(t) \/ ChainLookup(t)
           \/ ChainPem(t) \/ ChainStore(t),
           UNCHANGED <<pems, listed>>
    PROVE  ChainInv(t)'
<1>0. Impersonated' = Impersonated /\ ChainInv(t)
  BY DEF Impersonated, ShowInv
<1> DEFINE s == call[t].ssl
<1>a. s \in Ssls /\ call[t] \in Call
  BY InCall DEF ChainFace, ChainCached, ChainLookup, ChainPem, ChainStore, CoreInv
<1>1. CASE ChainFace(t)
  <2>1. shown'[t] = NoCert /\ tpc'[t] \in {"done", "cached"}
    BY <1>0, <1>1 DEF ChainFace, Return, ChainInv, CoreInv, ThreadsOK
  <2>2. QED
    BY <2>1, NothingShown
<1>2. CASE ChainCached(t)
  <2>1. PICK h \in KitHosts : h = HostOf(s)
    BY <1>a, HostOfType DEF CoreInv
  <2>2. sni[s] \in {h, NoHost} /\ sni' = sni
    BY <1>2, <1>a, <2>1, HostOfType DEF CoreInv, ChainCached
  <2>3. tpc[t] = "cached" /\ call' = [call EXCEPT ![t].host = h]
    BY <1>2, <2>1 DEF ChainCached
  <2>4. call'[t].host = h /\ call'[t].ssl = s
    BY <1>a, <2>3 DEF CoreInv, ThreadsOK, Call
  <2>5. \/ tpc'[t] = "done" /\ shown'[t] = faces[s].chain /\ faces[s] # NoFace
           /\ faces[s].chain # NoCert /\ faces[s].host = h
        \/ tpc'[t] = "done" /\ shown'[t] = NoCert
        \/ tpc'[t] = "again" /\ UNCHANGED shown
    BY <1>2, <2>1 DEF ChainCached, Return, CoreInv, ThreadsOK
  <2>6. CASE /\ tpc'[t] = "done" /\ shown'[t] = faces[s].chain /\ faces[s] # NoFace
             /\ faces[s].chain # NoCert /\ faces[s].host = h
    <3>1. Right(h, shown'[t])
      BY <1>a, <2>6 DEF ShowInv
    <3>2. QED
      BY <1>0, <2>2, <2>4, <2>6, <3>1 DEF ChainInv, Right
  <2>7. CASE tpc'[t] = "done" /\ shown'[t] = NoCert
    BY <2>7, NothingShown
  <2>8. CASE tpc'[t] = "again" /\ UNCHANGED shown
    BY <1>0, <2>2, <2>3, <2>4, <2>8 DEF ChainInv
  <2>9. QED
    BY <2>5, <2>6, <2>7, <2>8
<1>3. CASE ChainLookup(t)
  <2>1. tpc[t] = "lookup" /\ UNCHANGED <<sni, call>>
    BY <1>3 DEF ChainLookup
  <2>2. PICK L \in ImpHostsRead(t) :
            \/ /\ call[t].host \in L /\ UNCHANGED shown
               /\ tpc' = [tpc EXCEPT ![t] = "pem"]
            \/ Return(t, NoCert)
    BY <1>3 DEF ChainLookup
  <2>3. CASE /\ call[t].host \in L /\ UNCHANGED shown
             /\ tpc' = [tpc EXCEPT ![t] = "pem"]
    <3>1. tpc'[t] = "pem" /\ call[t].host \in Impersonated
      BY <2>3, FoundIsListed DEF CoreInv, ThreadsOK
    <3>2. QED
      BY <1>0, <2>1, <2>3, <3>1 DEF ChainInv
  <2>4. CASE Return(t, NoCert)
    <3>1. tpc'[t] = "done" /\ shown'[t] = NoCert
      BY <2>4 DEF Return, CoreInv, ThreadsOK
    <3>2. QED
      BY <3>1, NothingShown
  <2>5. QED
    BY <2>2, <2>3, <2>4
<1>4. CASE ChainPem(t)
  <2>1. tpc[t] = "pem" /\ UNCHANGED sni
    BY <1>4 DEF ChainPem
  <2>2. CASE origin[call[t].host] \in Certs /\ UNCHANGED shown
             /\ call' = [call EXCEPT ![t].chain = origin[call[t].host]]
             /\ tpc' = [tpc EXCEPT ![t] = "store"]
    <3>1. /\ tpc'[t] = "store" /\ call'[t].ssl = s /\ call'[t].host = call[t].host
          /\ call'[t].chain = origin[call[t].host] /\ call[t].host \in KitHosts
      BY <1>a, <2>2 DEF CoreInv, ThreadsOK, Call
    <3>2. call'[t].chain \in pems[call[t].host]
      BY <2>2, <3>1 DEF ShowInv
    <3>3. QED
      BY <1>0, <2>1, <2>2, <3>1, <3>2 DEF ChainInv
  <2>3. CASE Return(t, NoCert)
    <3>1. tpc'[t] = "done" /\ shown'[t] = NoCert
      BY <2>3 DEF Return, CoreInv, ThreadsOK
    <3>2. QED
      BY <3>1, NothingShown
  <2>4. QED
    BY <1>4, <2>2, <2>3 DEF ChainPem
<1>5. CASE ChainStore(t)
  <2>1. /\ tpc[t] = "store" /\ UNCHANGED <<call, sni>>
        /\ tpc'[t] = "done" /\ shown'[t] = call[t].chain
    BY <1>5 DEF ChainStore, Return, CoreInv, ThreadsOK
  <2>2. QED
    BY <1>0, <2>1 DEF ChainInv, Right
<1>6. QED
  BY <1>1, <1>2, <1>3, <1>4, <1>5

LEMMA NextShow ==
    ASSUME CoreInv, BuffersInv, ShowInv, [Next]_vars
    PROVE  ShowInv'
<1>1. CASE UNCHANGED vars
  BY <1>1 DEF vars, clientVars, histVars, ShowInv, ChainInv, Right, Impersonated
<1>2. CASE StoreStep
  <2>1. UNCHANGED <<tpc, call, shown, faces, sni>>
    BY <1>2 DEF StoreStep, clientVars
  <2>2. /\ Impersonated \subseteq Impersonated' /\ \A h \in KitHosts : pems[h] \subseteq pems'[h]
        /\ \A h \in KitHosts : origin'[h] \in Certs => origin'[h] \in pems'[h]
    BY <1>2, StoreTypes, ListedGrows
  <2>3. \A t \in Threads : call[t].host \in KitHosts
    BY DEF CoreInv, ThreadsOK, Call
  <2>4. \A h \in KitHosts : \A c : Right(h, c) => c \in pems'[h] /\ h \in Impersonated'
    BY <2>2 DEF Right
  <2>5. ASSUME NEW t \in Threads PROVE ChainInv(t)'
    BY <2>1, <2>2, <2>3, <2>4 DEF ShowInv, ChainInv, Right
  <2>6. ASSUME NEW s \in Ssls, faces[s] # NoFace, faces[s].chain # NoCert
        PROVE  Right(faces[s].host, faces[s].chain)'
    <3>1. faces[s].host \in KitHosts /\ Right(faces[s].host, faces[s].chain)
      BY <2>6, FaceFields DEF ShowInv, CoreInv
    <3>2. QED
      BY <2>1, <2>4, <3>1 DEF Right
  <2>7. QED
    BY <2>1, <2>2, <2>5, <2>6 DEF ShowInv, Right
<1>3. CASE ClientStep /\ UNCHANGED <<origin, conf, histVars>>
  <2>1. UNCHANGED <<origin, pems, listed>> /\ Impersonated' = Impersonated
    BY <1>3 DEF histVars, Impersonated
  <2>2. ASSUME NEW t \in Threads, Thread(t) PROVE ShowInv'
    <3>1. \A s \in Ssls : faces'[s] # NoFace /\ faces'[s].chain # NoCert =>
              Right(faces'[s].host, faces'[s].chain)
      BY <2>1, <2>2, FacesShow
    <3>2. ChainInv(t)'
      <4>1. CASE \E l \in {"on", "again"} : LoadOnce(t, l) \/ Fill(t, l)
        BY <2>1, <4>1, LoadShow DEF ShowInv
      <4>2. CASE BindNote(t) \/ BindFace(t) \/ Bind(t) \/ Chain(t) \/ Done(t)
        BY <4>2, BindShow DEF ShowInv
      <4>3. QED
        BY <2>1, <2>2, <4>1, <4>2, ChainShow DEF Thread
    <3>3. \A u \in Threads : ChainInv(u)'
      BY <2>1, <2>2, <3>2, OthersShow
    <3>4. QED
      BY <2>1, <3>1, <3>3 DEF ShowInv, Right
  <2>3. CASE Tick
    BY <2>1, <2>3 DEF Tick, ShowInv, ChainInv, Right
  <2>4. CASE SslFree
    <3>1. PICK s \in Ssls : /\ \A t \in Threads : call[t].ssl # s
                            /\ sni' = [sni EXCEPT ![s] = NoHost]
      BY <2>4 DEF SslFree
    <3>2. UNCHANGED <<faces, tpc, call, shown>>
      BY <2>4 DEF SslFree
    <3>3. ASSUME NEW t \in Threads PROVE ChainInv(t)'
      <4>1. call[t].ssl \in Ssls => sni'[call[t].ssl] = sni[call[t].ssl]
        BY <3>1 DEF CoreInv, SslOK
      <4>2. tpc[t] # "idle" => call[t].ssl \in Ssls
        BY InCall DEF CoreInv
      <4>3. QED
        BY <2>1, <3>2, <4>1, <4>2 DEF ShowInv, ChainInv, Right
    <3>4. QED
      BY <2>1, <3>2, <3>3 DEF ShowInv, Right
  <2>5. QED
    BY <1>3, <2>2, <2>3, <2>4 DEF ClientStep
<1>4. QED
  BY <1>1, <1>2, <1>3 DEF Next

LEMMA ShowCorrect == Spec => []ShowInv
<1>1. Init => ShowInv
  <2>1. Init => \A h \in KitHosts : origin[h] \notin Certs
    BY KitFileAssumption DEF Init, FileInit
  <2>2. Init => \A t \in Threads : tpc[t] = "idle" /\ shown[t] = NoCert
    BY DEF Init
  <2>3. QED
    BY <2>1, <2>2 DEF Init, ShowInv, ChainInv
<1>2. CoreInv /\ BuffersInv /\ ShowInv /\ [Next]_vars => ShowInv'
  BY NextShow
<1>3. QED
  BY <1>1, <1>2, CoreCorrect, BuffersCorrect, PTL DEF Spec

\* The certificate that skytap_chain_for_ssl returns for an SSL object with a
\* server name was captured for that name, and some policy had it impersonated,
\* or a host whose name begins with it: for any number of threads that share
\* the unlocked buffers and the table of faces, however a list is cut by fgets
\* or by a write, and although faces outlive their SSL objects.
THEOREM ShownAlwaysOfItsHost == Spec => []ShownIsOfItsHost
<1>1. ShowInv => ShownIsOfItsHost
  BY DEF ShowInv, ChainInv, Right, ShownIsOfItsHost, Shows, ServerName
<1>2. QED
  BY <1>1, ShowCorrect, PTL

\* Whatever certificate skytap_chain_for_ssl returns, also for an SSL object
\* without a server name, was captured for a host that some policy had
\* impersonated, or whose name begins the name of such a host: neither an
\* empty nor a truncated list stands for all hosts (host_in_list).
THEOREM ShownAlwaysListed == Spec => []ShownWasListed
<1>1. CoreInv /\ ShowInv => ShownWasListed
  BY DEF ShowInv, ChainInv, Right, ShownWasListed, Shows
<1>2. QED
  BY <1>1, CoreCorrect, ShowCorrect, PTL

-----------------------------------------------------------------------------
(* The store and a client together: one directory, the store's steps and   *)
(* the client's in any order.  SSLClient lets the store do anything that   *)
(* KitFile allows; here the store is SSLKit itself.                        *)

VARIABLE wanted   \* history: the hosts that some request wanted impersonated

AskedFor == {h \in KitHosts : asked[h] # Absent /\ asked[h].impersonate}

\* SSLClient's history of the directory, kept for a step of the store.
Remember ==
    IF UNCHANGED <<origin, conf>>
    THEN UNCHANGED histVars
    ELSE /\ pems' = [h \in KitHosts |-> pems[h] \cup ({origin'[h]} \cap Certs)]
         /\ listed' = IF conf' \in {conf, EmptyConf} THEN listed
                      ELSE listed \cup PolicyOf(ClientConf(hosts)).impHosts

TogetherInit == KitInit /\ Init /\ wanted = {}

StoreTurn ==
    /\ KitNext /\ Remember
    /\ wanted' = wanted \cup AskedFor'
    /\ UNCHANGED clientVars

ClientTurn == ClientStep /\ UNCHANGED <<kitVars, histVars, wanted>>

togetherVars == <<kitVars, vars, wanted>>
Together == TogetherInit /\ [][StoreTurn \/ ClientTurn]_togetherVars

\* No text and no certificate file that the store may write is left out.
AllInputs ==
    /\ ConfInputs = WrittenConf
    /\ PemInputs = (KitHosts \ {NoHost}) \X (Certs \cup {NoCert, BadPem})

LEMMA StoreTurnFits ==
    ASSUME AllInputs, KitInv, Underway, StoreTurn
    PROVE  [Next]_vars
<1>1. DirectoryStep
  BY FileStep DEF StoreTurn
<1>2. CASE UNCHANGED <<origin, conf>>
  BY <1>2 DEF StoreTurn, Remember, vars
<1>3. CASE ~UNCHANGED <<origin, conf>>
  <2>1. /\ pems' = [h \in KitHosts |-> pems[h] \cup ({origin'[h]} \cap Certs)]
        /\ listed' = IF conf' \in {conf, EmptyConf} THEN listed
                     ELSE listed \cup PolicyOf(ClientConf(hosts)).impHosts
        /\ UNCHANGED clientVars
    BY <1>3 DEF StoreTurn, Remember
  <2>2. CASE conf' = EmptyConf /\ UNCHANGED origin
    BY <2>1, <2>2 DEF Next, StoreStep, Truncate
  <2>3. CASE Rewrite(ClientConf(hosts)) /\ conf' # EmptyConf
    <3>1. ClientConf(hosts) \in ConfInputs
      BY ClientConfWritten DEF AllInputs, KitInv, StoreOK
    <3>2. conf' # conf
      BY <1>3, <2>3 DEF Rewrite
    <3> QED BY <2>1, <2>3, <3>1, <3>2 DEF Next, StoreStep
  <2>4. ASSUME NEW h \in KitHosts \ {NoHost}, NEW c \in Certs \cup {NoCert, BadPem},
               Pem(h, c)
        PROVE  [Next]_vars
    <3>1. <<h, c>> \in PemInputs
      BY DEF AllInputs
    <3>2. \E f \in PemInputs : Pem(f[1], f[2])
      BY <2>4, <3>1
    <3>3. conf' = conf
      BY <2>4 DEF Pem
    <3> QED BY <2>1, <3>2, <3>3 DEF Next, StoreStep
  <2> QED BY <1>1, <1>3, <2>2, <2>3, <2>4 DEF DirectoryStep, Truncate, Rewrite
<1> QED BY <1>2, <1>3

\* SSLKit and SSLClient fit together: whatever the store does is something
\* the client's specification lets its surroundings do, so that both
\* specifications hold of the two together.
THEOREM StoreAndClientFit == AllInputs => (Together => KitSpec /\ Spec)
<1> SUFFICES ASSUME AllInputs PROVE Together => KitSpec /\ Spec
  OBVIOUS
<1>1. [StoreTurn \/ ClientTurn]_togetherVars => [KitNext]_kitVars
  BY DEF StoreTurn, ClientTurn, togetherVars
<1>2. Together => KitSpec
  BY <1>1, PTL DEF Together, TogetherInit, KitSpec
<1>3. KitInit => Underway
  BY DEF KitInit, Underway, Goroutines
<1>4. KitInv /\ Underway /\ [KitNext]_kitVars => Underway'
  BY UnderwayInductive
<1>5. KitSpec => [](KitInv /\ Underway)
  BY <1>3, <1>4, KitInvariant, PTL DEF KitSpec
<1>6. KitInv /\ Underway /\ [StoreTurn \/ ClientTurn]_togetherVars => [Next]_vars
  <2>1. ClientTurn => [Next]_vars
    BY DEF ClientTurn, Next, kitVars, histVars
  <2>2. UNCHANGED togetherVars => UNCHANGED vars
    BY DEF togetherVars
  <2> QED BY <2>1, <2>2, StoreTurnFits
<1> QED BY <1>2, <1>5, <1>6, PTL DEF Together, TogetherInit, Spec

\* The hosts that a map and the machine's own settings have impersonated.
ImpIn(m) == {h \in Listed(m) : m[h].set.impersonate}
GivenHosts ==
    UNION {IF "impHosts" \in DOMAIN f THEN f.impHosts ELSE {} : f \in {EtcConf, Env}}

\* The hosts that somebody wanted impersonated, by a request to the store or
\* in the settings of the machine, and the beginnings of their names.
Wanted == (wanted \cup GivenHosts) \cup Beginnings(wanted \cup GivenHosts)

\* A client shows no certificate but one captured for such a host, and shows
\* it for no server name but such a host's.
ShownWasWanted ==
    \A t \in Threads : Shows(t) =>
        /\ \E h \in Wanted : shown[t] \in pems[h]
        /\ ServerName(t) \in Wanted \cup {NoHost}

\* Neither the map nor its file has a host impersonated that nobody asked for.
MapsWanted ==
    /\ ImpIn(hosts) \subseteq wanted
    /\ ImpIn(load(json)) \subseteq wanted

ListedWanted == listed \subseteq wanted \cup GivenHosts

LEMMA ImpInEmpty == ImpIn(EmptyMap) = {}
BY DEF ImpIn, Listed, EmptyMap

LEMMA ImpInSettings ==
    ASSUME NEW m \in HostMap
    PROVE  ImpIn(m) = {h \in KitHosts : SettingsIn(m)[h] # Absent /\ SettingsIn(m)[h].impersonate}
<1>1. \A h \in KitHosts : m[h] \in Policy \cup {Absent}
  BY DEF HostMap
<1>2. \A h \in KitHosts : m[h] # Absent => m[h].set \in Settings
  BY <1>1 DEF Policy
<1> QED BY <1>2, SettingsPresent DEF ImpIn, Listed, SettingsIn

LEMMA ConfTextHosts ==
    ASSUME NEW m \in HostMap
    PROVE  /\ "impHosts" \in DOMAIN ClientConf(m)
           /\ ClientConf(m).impHosts = ImpIn(m)
<1>1. \A h \in Listed(m) : SettingsIn(m)[h] = m[h].set
  BY DEF SettingsIn, Listed
<1>2. {h \in Listed(m) : SettingsIn(m)[h].impersonate} = ImpIn(m)
  BY <1>1 DEF ImpIn
<1> QED BY <1>2 DEF ClientConf, ConfText

\* Storing a policy adds its host, if it is to be impersonated.
LEMMA StoreWants ==
    ASSUME NEW m \in HostMap, NEW h \in KitHosts, NEW p \in Policy
    PROVE  ImpIn([m EXCEPT ![h] = p]) \subseteq
               ImpIn(m) \cup (IF p.set.impersonate THEN {h} ELSE {})
BY PolicyPresent DEF ImpIn, Listed, HostMap

LEMMA MapsStayWanted ==
    ASSUME KitInv, MapsWanted, KitNext, wanted' = wanted \cup AskedFor'
    PROVE  MapsWanted'
<1>0. /\ hosts \in HostMap /\ json \in HostMap \cup {NoMap, TornMap}
      /\ asked \in [KitHosts -> Settings \cup {Absent}]
      /\ capturing \in [Workers -> KitHosts]
  BY DEF KitInv, StoreOK
<1>1. CASE NewSSLKitStore
  BY <1>1 DEF NewSSLKitStore, MapsWanted
<1>2. ASSUME NEW w \in Goroutines, persistLocked(w) PROVE MapsWanted'
  <2>1. UNCHANGED hosts /\ json' \in {json, hosts, TornMap}
    BY <1>2 DEF persistLocked, OpenJson, WriteJson, OpenConf, WritePart, WriteConf,
                storeVars
  <2>2. ImpIn(load(json')) \subseteq wanted
    <3>1. CASE json' = TornMap
      BY <3>1, ImpInEmpty DEF load
    <3>2. CASE json' = json
      BY <3>2 DEF MapsWanted
    <3>3. CASE json' = hosts
      BY <1>0, <3>3, LoadMap DEF MapsWanted
    <3> QED BY <2>1, <3>1, <3>2, <3>3
  <2> QED BY <2>1, <2>2 DEF MapsWanted
<1>3. ASSUME NEW h \in KitHosts, NEW p \in Policy, UNCHANGED json,
             hosts' = [hosts EXCEPT ![h] = refreshLocked(h, p)],
             p.set.impersonate => h \in wanted'
      PROVE  MapsWanted'
  <2>1. refreshLocked(h, p) \in Policy /\ refreshLocked(h, p).set = p.set
    BY RefreshFacts
  <2>2. ImpIn(hosts') \subseteq ImpIn(hosts) \cup (IF p.set.impersonate THEN {h} ELSE {})
    BY <1>0, <1>3, <2>1, StoreWants
  <2> QED BY <1>3, <2>2 DEF MapsWanted
<1>4. ASSUME NEW w \in Workers, Put(w) PROVE MapsWanted'
  <2>1. PICK n \in Names, p \in PolicyInputs : Store(w, Norm[n], Merge(Norm[n], p))
    BY <1>4 DEF Put
  <2>2. Norm[n] \in KitHosts
    BY SSLKitAssumption
  <2>3. PICK r \in Policy : r = Merge(Norm[n], p)
    BY <1>0, <2>2, MergeFacts
  <2>4. PICK h \in KitHosts : h = Norm[n]
    BY <2>2
  <2>5. /\ UNCHANGED json
        /\ hosts' = [hosts EXCEPT ![h] = refreshLocked(h, r)]
        /\ asked' = [asked EXCEPT ![h] = r.set]
    BY <2>1, <2>3, <2>4 DEF Store
  <2>6. asked'[h] = r.set /\ r.set # Absent
    BY <1>0, <2>5, SettingsPresent DEF Policy
  <2>7. r.set.impersonate => h \in wanted'
    BY <2>6 DEF AskedFor
  <2> QED BY <1>3, <2>5, <2>7
<1>5. ASSUME NEW w \in Workers, CaptureStore(w) PROVE MapsWanted'
  <2>1. PICK h \in KitHosts : h = capturing[w]
    BY <1>0
  <2>2. PICK r \in Policy :
            /\ r = Captured(h)
            /\ r.set = IF hosts[h] = Absent THEN ZeroSettings ELSE hosts[h].set
    BY <1>0, <2>1, CapturedFacts
  <2>3. UNCHANGED json /\ hosts' = [hosts EXCEPT ![h] = refreshLocked(h, r)]
    BY <1>5, <2>1, <2>2 DEF CaptureStore
  <2>4. r.set.impersonate => h \in ImpIn(hosts)
    BY <2>2 DEF ZeroSettings, ImpIn, Listed
  <2> QED BY <1>3, <2>3, <2>4 DEF MapsWanted
<1>6. ASSUME NEW S, Refresh(S) PROVE MapsWanted'
  <2>1. UNCHANGED json
    BY <1>6 DEF Refresh
  <2>2. ASSUME NEW h \in KitHosts, hosts'[h] # Absent, hosts'[h].set.impersonate
        PROVE  h \in ImpIn(hosts)
    <3>1. hosts[h] \in Policy \cup {Absent}
      BY <1>0 DEF HostMap
    <3>2. CASE h \in S \cap Listed(hosts) /\ HasPem(h)
      <4>1. hosts[h] \in Policy /\ hosts'[h] = refreshLocked(h, hosts[h])
        BY <1>6, <3>1, <3>2 DEF Refresh, Listed
      <4>2. hosts'[h].set = hosts[h].set
        BY <4>1, RefreshFacts
      <4> QED BY <2>2, <3>2, <4>2 DEF ImpIn
    <3>3. CASE ~(h \in S \cap Listed(hosts) /\ HasPem(h))
      BY <1>6, <2>2, <3>3 DEF Refresh, ImpIn, Listed
    <3> QED BY <3>2, <3>3
  <2>3. ImpIn(hosts') \subseteq ImpIn(hosts)
    BY <2>2 DEF ImpIn, Listed
  <2> QED BY <2>1, <2>3 DEF MapsWanted
<1>7. CASE KitCrash
  BY <1>7, ImpInEmpty DEF KitCrash, MapsWanted
<1>8. CASE EngineDump \/ \E w \in Workers : CaptureDump(w)
  BY <1>8 DEF EngineDump, CaptureDump, MapsWanted
<1> QED
  BY <1>1, <1>2, <1>4, <1>5, <1>6, <1>7, <1>8
  DEF KitNext, KitStep, Goroutines, Get, All

\* A policy lists what its file or the machine's settings list.
LEMMA PolicyIsGiven ==
    ASSUME NEW f, NEW L, "impHosts" \in DOMAIN f => f.impHosts \subseteq L
    PROVE  PolicyOf(f).impHosts \subseteq L \cup GivenHosts
BY PolicyHosts DEF GivenHosts

\* A patched client that runs beside the store shows the certificate of an
\* origin only if it was captured for a host that somebody wanted impersonated,
\* and under no server name but such a host's, although the map, its two files
\* and the client's buffers change one after the other, a save may fail or be
\* cut short by a crash, inside a name even, and clients read without a lock
\* (persistLocked and load of sslkit.go, load_once and skytap_chain_for_ssl of
\* the patched OpenSSL).
THEOREM ShownOnlyWhatWasWanted == AllInputs => (Together => []ShownWasWanted)
<1> SUFFICES ASSUME AllInputs PROVE Together => []ShownWasWanted
  OBVIOUS
<1> DEFINE Inv == MapsWanted /\ ListedWanted
<1>1. TogetherInit => Inv
  <2> SUFFICES ASSUME TogetherInit PROVE Inv
    OBVIOUS
  <2>1. conf = EmptyConf /\ hosts = EmptyMap /\ json = NoMap
    BY DEF TogetherInit, KitInit
  <2>2. load(json) = EmptyMap
    BY <2>1 DEF load
  <2>3. PolicyOf(EmptyConf).impHosts \subseteq {} \cup GivenHosts
    <3>1. "impHosts" \notin DOMAIN EmptyConf
      BY DEF EmptyConf
    <3> QED BY <3>1, PolicyIsGiven
  <2>4. listed = PolicyOf(EmptyConf).impHosts
    BY <2>1 DEF TogetherInit, Init, FilePolicy
  <2> QED BY <2>1, <2>2, <2>3, <2>4, ImpInEmpty DEF MapsWanted, ListedWanted
<1>2. KitInv /\ Inv /\ [StoreTurn \/ ClientTurn]_togetherVars => Inv'
  <2> SUFFICES ASSUME KitInv, Inv, [StoreTurn \/ ClientTurn]_togetherVars PROVE Inv'
    OBVIOUS
  <2>1. CASE StoreTurn
    <3>1. MapsWanted' /\ wanted \subseteq wanted'
      BY <2>1, MapsStayWanted DEF StoreTurn
    <3>2. PolicyOf(ClientConf(hosts)).impHosts \subseteq ImpIn(hosts) \cup GivenHosts
      BY ConfTextHosts, PolicyIsGiven DEF KitInv, StoreOK
    <3>3. listed' \subseteq listed \cup PolicyOf(ClientConf(hosts)).impHosts
      BY <2>1 DEF StoreTurn, Remember, histVars
    <3> QED BY <3>1, <3>2, <3>3 DEF MapsWanted, ListedWanted
  <2>2. CASE ClientTurn \/ UNCHANGED togetherVars
    BY <2>2
    DEF ClientTurn, togetherVars, kitVars, vars, histVars, MapsWanted, ListedWanted
  <2> QED BY <2>1, <2>2
<1>3. Together => []Inv
  <2>1. Together => []KitInv
    BY StoreAndClientFit, KitInvariant, PTL
  <2> QED BY <1>1, <1>2, <2>1, PTL DEF Together
<1>4. ShownIsOfItsHost /\ ShownWasListed /\ Inv => ShownWasWanted
  <2> SUFFICES ASSUME ShownIsOfItsHost, ShownWasListed, Inv, NEW t \in Threads, Shows(t)
               PROVE  /\ \E h \in Wanted : shown[t] \in pems[h]
                      /\ ServerName(t) \in Wanted \cup {NoHost}
    BY DEF ShownWasWanted
  <2>1. Beginnings(listed) \subseteq Beginnings(wanted \cup GivenHosts)
    BY BeginningsGrow DEF ListedWanted
  <2>2. Impersonated \subseteq Wanted
    BY <2>1 DEF ListedWanted, Impersonated, Wanted
  <2> QED BY <2>2 DEF ShownIsOfItsHost, ShownWasListed
<1> QED
  BY <1>3, <1>4, StoreAndClientFit, ShownAlwaysOfItsHost, ShownAlwaysListed, PTL

=============================================================================
