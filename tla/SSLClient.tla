----------------------------- MODULE SSLClient -----------------------------
(***************************************************************************)
(* The policy compiled into the patched OpenSSL (skytap_ssl_policy.c and   *)
(* skytap_impersonate.c), in one client process with several threads that  *)
(* shares the directory of KitFile with the store.                         *)
(*                                                                         *)
(* The policy is read at most every two seconds into global buffers that   *)
(* no lock protects: while one thread refills them, another one that       *)
(* looks a host up may find any part of the old and of the new lists.      *)
(* The table of faces (which certificate an SSL object shows) is locked,   *)
(* but skytap_chain_for_ssl takes the lock three times and reads the       *)
(* policy in between.  No code removes a face when its SSL object is freed.*)
(*                                                                         *)
(* A line is read with fgets into 768 bytes: a longer list of hosts is cut *)
(* anywhere, also inside a name, and what follows the cut sets no key.     *)
(* Lengths are not modelled, so with LongLists any list may be cut.  Pins, *)
(* verify mode, proxy and key log are read by the same load_once and only  *)
(* handed out.                                                             *)
(***************************************************************************)
EXTENDS KitFile

CONSTANTS
    Threads,     \* threads of the client
    Ssls,        \* addresses of SSL objects
    MaxSsl,      \* SKYTAP_MAX_SSL
    NoSsl,       \* the thread is in no call
    NoFace,      \* the SSL object has no entry in the table
    EtcConf,     \* /etc/skytap-ssl.conf
    Env,         \* the SKYTAP_SSL_ variables of the environment
    LongLists,   \* may the lists of the file be longer than a line?
    ConfInputs,  \* texts of skytap-ssl.conf that the store may write
    PemInputs    \* files of the origin cache: host and certificate

KnownKeys == {"pin", "verify", "impersonate", "impHosts", "kitHosts"}

ASSUME SSLClientAssumption ==
    /\ MaxSsl \in Nat
    /\ IsFiniteSet(Ssls) /\ NoSsl \notin Ssls
    /\ ConfInputs \subseteq WrittenConf
    /\ PemInputs \subseteq (KitHosts \ {NoHost}) \X (Certs \cup {NoCert, BadPem})
    /\ LongLists \in BOOLEAN
    /\ \A f \in {EtcConf, Env} :
           /\ DOMAIN f \subseteq KnownKeys
           /\ "impHosts" \in DOMAIN f => f.impHosts \subseteq KitHosts
    /\ NoFace \notin [host : KitHosts, chain : Certs \cup {NoCert}]

VARIABLES
    g,         \* g_imp, g_imp_hosts, ...: the policy in force
    fresh,     \* g_loaded && time(NULL) - g_loaded_at < 2
    faces,     \* faces[s]: the entry of s in g_faces
    lastHost,  \* g_last_host
    sni,       \* sni[s]: SSL_get_servername(s)
    tpc,       \* tpc[t]: where thread t is
    call,      \* call[t]: the SSL object, host and chain t works on
    shown,     \* shown[t]: the certificate t's last call returned
    pems,      \* history: pems[h]: the certificates h.pem has held
    listed     \* history: hosts some policy had impersonated

clientVars == <<g, fresh, faces, lastHost, sni, tpc, call, shown>>
histVars   == <<pems, listed>>
vars       == <<origin, conf, clientVars, histVars>>

InputTexts == FileTexts(ConfInputs)

Face == [host : KitHosts, chain : Certs \cup {NoCert}]

-----------------------------------------------------------------------------
(* load_once. *)

Defaults == [pin |-> "off", verify |-> "ca", impersonate |-> "on",
             impHosts |-> {}, kitHosts |-> {}]

\* apply_kv: later settings win, unknown keys are skipped.
Apply(p, f) == [k \in KnownKeys |-> IF k \in DOMAIN f THEN f[k] ELSE p[k]]

\* What fgets may leave of the list L.
fgetsHosts(L) == IF LongLists THEN ListParts(L) ELSE {L}

load_conf(f) ==
    IF "impHosts" \notin DOMAIN f THEN {f}
    ELSE {[f EXCEPT !.impHosts = L] : L \in fgetsHosts(f.impHosts)}

\* The defaults, the two files, then the environment.
PolicyOf(f) == Apply(Apply(Apply(Defaults, EtcConf), f), Env)
FilePolicy  == PolicyOf(conf)

Loading(t) == tpc[t] \in {"fill", "refill"}
OthersLoad(t) == \E u \in Threads \ {t} : Loading(u)

\* The label after a load_once that starts at label l.
After(l)  == IF l = "on" THEN "face" ELSE "lookup"
FillOf(l) == IF l = "on" THEN "fill" ELSE "refill"

\* The policy is fresh, or this thread refills it.  The flag and the time
\* are set before the buffers are, so that other threads find them fresh;
\* a thread that tested them before that also refills.
LoadOnce(t, l) ==
    /\ tpc[t] = l
    /\ \/ fresh /\ tpc' = [tpc EXCEPT ![t] = After(l)] /\ UNCHANGED fresh
       \/ /\ ~fresh \/ OthersLoad(t)
          /\ tpc' = [tpc EXCEPT ![t] = FillOf(l)]
          /\ fresh' = TRUE
    /\ UNCHANGED <<g, faces, lastHost, sni, call, shown>>

Fill(t, l) ==
    /\ tpc[t] = FillOf(l)
    /\ \E f \in load_conf(conf) : g' = PolicyOf(f)
    /\ tpc' = [tpc EXCEPT ![t] = After(l)]
    /\ UNCHANGED <<fresh, faces, lastHost, sni, call, shown>>

\* What a reader may find in g_imp_hosts and in g_imp: their contents, or,
\* while another thread refills them, any mix of the old, the default and
\* the new ones, names that are not yet copied in full included.
ImpHostsRead(t) ==
    LET names == g.impHosts \cup FilePolicy.impHosts
    IN  IF OthersLoad(t) THEN SUBSET (names \cup Beginnings(names))
        ELSE {g.impHosts}
ImpRead(t) ==
    IF OthersLoad(t) THEN {g.impersonate, "on", FilePolicy.impersonate}
    ELSE {g.impersonate}

-----------------------------------------------------------------------------
(* The table of faces. *)

Used == {s \in Ssls : faces[s] # NoFace}

\* Fault variant: a full table is not noticed.
faceUnbounded(s) ==
    IF faces[s] # NoFace THEN faces[s] ELSE [host |-> lastHost, chain |-> NoCert]

\* skytap_face(s, 1): the entry of s, made if there is room, with the host
\* noted last.
face(s) ==
    IF faces[s] # NoFace \/ Cardinality(Used) >= MaxSsl THEN faces[s]
    ELSE [host |-> lastHost, chain |-> NoCert]

\* A call returns certificate c, or NULL.
Return(t, c) ==
    /\ shown' = [shown EXCEPT ![t] = c]
    /\ tpc' = [tpc EXCEPT ![t] = "done"]

\* No two threads use one SSL object.
Owned(t, s) == \A u \in Threads \ {t} : call[u].ssl # s

-----------------------------------------------------------------------------
(* SSL_set_tlsext_host_name: skytap_bind_host(s, name). *)

\* skytap_note_host.
BindNote(t) ==
    /\ tpc[t] = "idle"
    /\ \E s \in Ssls, h \in KitHosts \ {NoHost} :
           /\ Owned(t, s)
           /\ call' = [call EXCEPT ![t] = [ssl |-> s, host |-> h, chain |-> NoCert]]
           /\ lastHost' = h
    /\ tpc' = [tpc EXCEPT ![t] = "bindFace"]
    /\ UNCHANGED <<g, fresh, faces, sni, shown>>

\* skytap_face(s, 1); OpenSSL sets the server name whatever this returns.
BindFace(t) ==
    /\ tpc[t] = "bindFace"
    /\ LET s == call[t].ssl IN
       /\ faces' = [faces EXCEPT ![s] = face(s)]
       /\ sni' = [sni EXCEPT ![s] = call[t].host]
       /\ tpc' = [tpc EXCEPT ![t] = IF face(s) = NoFace THEN "done" ELSE "bind"]
    /\ UNCHANGED <<g, fresh, lastHost, call, shown>>

\* Fault variant: the old chain is kept.
BindKeeps(t) ==
    /\ tpc[t] = "bind"
    /\ faces' = [faces EXCEPT ![call[t].ssl].host = call[t].host]
    /\ tpc' = [tpc EXCEPT ![t] = "done"]
    /\ UNCHANGED <<g, fresh, lastHost, sni, call, shown>>

\* The host of the entry is set and its chain freed.
Bind(t) ==
    /\ tpc[t] = "bind"
    /\ faces' = [faces EXCEPT ![call[t].ssl] =
                    [host |-> call[t].host, chain |-> NoCert]]
    /\ tpc' = [tpc EXCEPT ![t] = "done"]
    /\ UNCHANGED <<g, fresh, lastHost, sni, call, shown>>

-----------------------------------------------------------------------------
(* SSL_get_peer_cert_chain and the like: skytap_chain_for_ssl(s). *)

Chain(t) ==
    /\ tpc[t] = "idle"
    /\ \E s \in Ssls :
           /\ Owned(t, s)
           /\ call' = [call EXCEPT ![t] =
                          [ssl |-> s, host |-> NoHost, chain |-> NoCert]]
    /\ tpc' = [tpc EXCEPT ![t] = "on"]
    /\ UNCHANGED <<g, fresh, faces, lastHost, sni, shown>>

\* skytap_impersonate_on, after its load_once, then skytap_face(s, 1).
ChainFace(t) ==
    /\ tpc[t] = "face"
    /\ \/ /\ "off" \in ImpRead(t)
          /\ Return(t, NoCert)
          /\ UNCHANGED faces
       \/ /\ ImpRead(t) # {"off"}
          /\ faces' = [faces EXCEPT ![call[t].ssl] = face(call[t].ssl)]
          /\ tpc' = [tpc EXCEPT ![t] = "cached"]
          /\ UNCHANGED shown
    /\ UNCHANGED <<g, fresh, lastHost, sni, call>>

\* The server name, or the host of the face, or the host noted last.
HostOf(s) ==
    IF sni[s] # NoHost THEN sni[s]
    ELSE IF faces[s] # NoFace /\ faces[s].host # NoHost THEN faces[s].host
    ELSE lastHost

\* The second critical section: a chain the face already has is returned.
ChainCached(t) ==
    /\ tpc[t] = "cached"
    /\ LET s == call[t].ssl
           h == HostOf(s)
           hit == faces[s] # NoFace /\ faces[s].chain # NoCert
                  /\ faces[s].host # NoHost /\ faces[s].host = h
       IN
       /\ call' = [call EXCEPT ![t].host = h]
       /\ \/ hit /\ Return(t, faces[s].chain)
          \/ ~hit /\ h = NoHost /\ Return(t, NoCert)
          \/ /\ ~hit /\ h # NoHost
             /\ tpc' = [tpc EXCEPT ![t] = "again"]
             /\ UNCHANGED shown
    /\ UNCHANGED <<g, fresh, faces, lastHost, sni>>

\* Fault variant: an empty list stands for every host, as for the kit.
ChainLookupEmptyIsAll(t) ==
    /\ tpc[t] = "lookup"
    /\ \E imp \in ImpRead(t), L \in ImpHostsRead(t) :
           IF imp # "off" /\ (call[t].host \in L \/ L = {})
           THEN /\ tpc' = [tpc EXCEPT ![t] = "pem"]
                /\ UNCHANGED shown
           ELSE Return(t, NoCert)
    /\ UNCHANGED <<g, fresh, faces, lastHost, sni, call>>

\* skytap_impersonate_host.  It and skytap_impersonate_on call load_once in
\* turn: the second call finds what the first one left, or refills as the
\* first one would have a moment later.
ChainLookup(t) ==
    /\ tpc[t] = "lookup"
    /\ \E imp \in ImpRead(t), L \in ImpHostsRead(t) :
           IF imp # "off" /\ call[t].host \in L
           THEN /\ tpc' = [tpc EXCEPT ![t] = "pem"]
                /\ UNCHANGED shown
           ELSE Return(t, NoCert)
    /\ UNCHANGED <<g, fresh, faces, lastHost, sni, call>>

\* skytap_load_origin_chain.
ChainPem(t) ==
    /\ tpc[t] = "pem"
    /\ LET c == origin[call[t].host] IN
       \/ /\ c \in Certs
          /\ call' = [call EXCEPT ![t].chain = c]
          /\ tpc' = [tpc EXCEPT ![t] = "store"]
          /\ UNCHANGED shown
       \/ c \notin Certs /\ Return(t, NoCert) /\ UNCHANGED call
    /\ UNCHANGED <<g, fresh, faces, lastHost, sni>>

\* The third critical section.
ChainStore(t) ==
    /\ tpc[t] = "store"
    /\ LET s == call[t].ssl IN
       faces' = [faces EXCEPT ![s] =
                    IF @ = NoFace THEN @
                    ELSE [host |-> call[t].host, chain |-> call[t].chain]]
    /\ Return(t, call[t].chain)
    /\ UNCHANGED <<g, fresh, lastHost, sni, call>>

\* The application has looked at the result.
Done(t) ==
    /\ tpc[t] = "done"
    /\ tpc' = [tpc EXCEPT ![t] = "idle"]
    /\ call' = [call EXCEPT ![t] = [ssl |-> NoSsl, host |-> NoHost, chain |-> NoCert]]
    /\ shown' = [shown EXCEPT ![t] = NoCert]
    /\ UNCHANGED <<g, fresh, faces, lastHost, sni>>

Thread(t) ==
    \/ \E l \in {"on", "again"} : LoadOnce(t, l) \/ Fill(t, l)
    \/ BindNote(t) \/ BindFace(t) \/ Bind(t)
    \/ Chain(t) \/ ChainFace(t) \/ ChainCached(t)
    \/ ChainLookup(t) \/ ChainPem(t) \/ ChainStore(t)
    \/ Done(t)

-----------------------------------------------------------------------------
(* The clock, the application and the store. *)

\* Two seconds pass.
Tick ==
    /\ fresh
    /\ fresh' = FALSE
    /\ UNCHANGED <<g, faces, lastHost, sni, tpc, call, shown>>

\* An SSL object is freed, and another one made at its address.
SslFree ==
    /\ \E s \in Ssls :
           /\ \A t \in Threads : call[t].ssl # s
           /\ sni' = [sni EXCEPT ![s] = NoHost]
    /\ UNCHANGED <<g, fresh, faces, lastHost, tpc, call, shown>>

\* The store writes its file, and the origin cache changes.
StoreStep ==
    /\ \/ \E f \in ConfInputs :
              Rewrite(f) /\ listed' = listed \cup PolicyOf(f).impHosts
       \/ Truncate /\ UNCHANGED listed
       \/ (\E f \in PemInputs : Pem(f[1], f[2])) /\ UNCHANGED listed
    /\ pems' = [h \in KitHosts |-> pems[h] \cup ({origin'[h]} \cap Certs)]
    /\ UNCHANGED clientVars

Init ==
    /\ FileInit
    /\ g = Defaults /\ fresh = FALSE
    /\ faces = [s \in Ssls |-> NoFace]
    /\ lastHost = NoHost
    /\ sni = [s \in Ssls |-> NoHost]
    /\ tpc = [t \in Threads |-> "idle"]
    /\ call = [t \in Threads |-> [ssl |-> NoSsl, host |-> NoHost, chain |-> NoCert]]
    /\ shown = [t \in Threads |-> NoCert]
    /\ pems = [h \in KitHosts |-> {}]
    /\ listed = FilePolicy.impHosts

ClientStep == (\E t \in Threads : Thread(t)) \/ Tick \/ SslFree

Next == (ClientStep /\ UNCHANGED <<origin, conf, histVars>>) \/ StoreStep

Spec == Init /\ [][Next]_vars

-----------------------------------------------------------------------------
(* Properties. *)

\* Every variable has its type, and the table of faces does not overflow.
TypeOK ==
    /\ conf \in InputTexts
    /\ origin \in [KitHosts -> Certs \cup {NoCert, BadPem}]
    /\ DOMAIN g = KnownKeys /\ g.impHosts \subseteq KitHosts
    /\ fresh \in BOOLEAN
    /\ faces \in [Ssls -> Face \cup {NoFace}]
    /\ Cardinality(Used) <= MaxSsl
    /\ lastHost \in KitHosts /\ sni \in [Ssls -> KitHosts]
    /\ tpc \in [Threads -> {"idle", "on", "again", "fill", "refill", "face",
                            "cached", "lookup", "pem", "store", "bindFace",
                            "bind", "done"}]
    /\ call \in [Threads -> [ssl : Ssls \cup {NoSsl}, host : KitHosts,
                             chain : Certs \cup {NoCert}]]
    /\ shown \in [Threads -> Certs \cup {NoCert}]

\* The hosts that some policy had impersonated, and the beginnings of their
\* names, which are left when a list is cut.
Impersonated == listed \cup Beginnings(listed)

\* The server name of the SSL object that t asks about.
ServerName(t) == sni[call[t].ssl]

Shows(t) == tpc[t] = "done" /\ shown[t] # NoCert

\* An SSL object with a server name shows no certificate but one captured
\* for that name, and only if some policy had it impersonated, or a host
\* whose name begins with it: whatever threads share the table and the
\* buffers, however a list is cut, and although faces outlive their SSL
\* objects and are found again under the same address.
ShownIsOfItsHost ==
    \A t \in Threads : Shows(t) /\ ServerName(t) # NoHost =>
        /\ shown[t] \in pems[ServerName(t)]
        /\ ServerName(t) \in Impersonated

\* No SSL object, with or without a server name, shows a certificate that
\* was captured for none of the hosts to be impersonated: a list that is
\* empty, truncated, or being refilled by another thread stands for no host,
\* although the environment or a default may have impersonation on.
ShownWasListed ==
    \A t \in Threads : Shows(t) => \E h \in Impersonated : shown[t] \in pems[h]

=============================================================================
