------------------------------ MODULE KitFile ------------------------------
(***************************************************************************)
(* What the SSL kit store promises the patched TLS clients: two things in  *)
(* the directory they share.  skytap-ssl.conf holds the text of one policy *)
(* map or, while it is written and after a write that failed or was cut    *)
(* short, a first part of that text; and the origin cache holds one .pem   *)
(* file per host.  SSLKit implements this specification; SSLClient relies  *)
(* on it and on nothing else of the store.                                 *)
(*                                                                         *)
(* The file is a function from the keys it sets to their values.  The keys *)
(* with a fixed value (SKYTAP_SSL_CA, _PROXY and _ORIGIN_CERT_DIR) are     *)
(* left out.                                                               *)
(***************************************************************************)
EXTENDS Integers, FiniteSets

CONSTANTS
    KitHosts,      \* host names in lower case without blanks, "" included
    NoHost,        \* ""
    Certs,         \* certificates of origins
    NoCert,        \* no certificate
    BadPem,        \* a .pem file that does not parse
    Begins         \* pairs of hosts, the second a beginning of the first

ASSUME KitFileAssumption ==
    /\ NoHost \in KitHosts
    /\ NoCert \notin Certs /\ BadPem \notin Certs /\ BadPem # NoCert
    /\ Begins \subseteq KitHosts \X (KitHosts \ {NoHost})
    /\ \A x, y, z \in KitHosts :
           <<x, y>> \in Begins /\ <<y, z>> \in Begins => <<x, z>> \in Begins

VARIABLES
    origin,    \* origin[h]: <OriginDumpDir>/h.pem
    conf       \* skytap-ssl.conf

\* SKYTAP_SSL_IMPERSONATE is "on" exactly when a host is to be impersonated.
boolEnv(v) == IF v THEN "on" ELSE "off"

\* The text for the hosts L, with the settings set[h] of each.  The lists are
\* sets: their order in the file is the random order of a Go map.
ConfText(L, set) ==
    LET imp == {h \in L : set[h].impersonate} IN
    [kitHosts    |-> {h \in L : set[h].kit},
     impHosts    |-> imp,
     impersonate |-> boolEnv(imp # {}),
     pinByHost   |-> {<<h, set[h].pin>> : h \in L},
     verByHost   |-> {<<h, set[h].verify>> : h \in L}]

\* The truncated file sets no key.
EmptyConf == [k \in {} |-> {}]

Settings == [kit : BOOLEAN, impersonate : BOOLEAN,
             pin : {"off", "on"}, verify : {"ca", "none"}]

WrittenConf == UNION {{ConfText(L, set) : set \in [L -> Settings]} :
                         L \in SUBSET KitHosts}

-----------------------------------------------------------------------------
(* A text that is cut short, anywhere. *)

\* The keys that a client reads, in the order of their lines.
LineOf == [kitHosts |-> 1, impHosts |-> 2, impersonate |-> 3]

Beginnings(L) == {k \in KitHosts : \E h \in L : <<h, k>> \in Begins}

\* What a cut may leave of the list L, whose order is not known: some of its
\* names, then perhaps the beginning of one more.
ListParts(L) ==
    UNION {{S} \cup {S \cup {k} : k \in Beginnings(L \ S)} : S \in SUBSET L}

\* What a cut in the line of key k may leave of its value: what is left of the
\* word "on" or "off" is not "off", and all other words count as "on"
\* (skytap_impersonate_on).
ValueParts(k, v) == IF k = "impersonate" THEN {"on"} ELSE ListParts(v)

\* The texts that are a first part of f: nothing, a text that ends in the
\* line of some key, or, as no client reads the two lists of pairs at the end
\* and a cut in them is not told apart, f itself.
Parts(f) ==
    {EmptyConf, f} \cup
    UNION {{[j \in {i \in DOMAIN LineOf : LineOf[i] <= LineOf[k]} |->
                IF j = k THEN v ELSE f[j]] : v \in ValueParts(k, f[k])} :
              k \in DOMAIN LineOf}

FileTexts(C) == {EmptyConf} \cup UNION {Parts(f) : f \in C}

AnyText == FileTexts(WrittenConf)

-----------------------------------------------------------------------------

FileInit ==
    /\ conf = EmptyConf
    /\ origin = [h \in KitHosts |-> NoCert]

Truncate == conf' = EmptyConf /\ UNCHANGED origin

\* Over a truncated file the text f is written, a first part of it or all
\* at once; and what is left of it after a first part.
Rewrite(f) ==
    /\ UNCHANGED origin
    /\ \/ conf = EmptyConf /\ conf' \in Parts(f)
       \/ conf' = f /\ conf \in Parts(f)

\* A certificate is captured, or the file removed or damaged.
Pem(h, c) == origin' = [origin EXCEPT ![h] = c] /\ UNCHANGED conf

FileNext ==
    \/ Truncate
    \/ \E f \in WrittenConf : Rewrite(f)
    \/ \E h \in KitHosts \ {NoHost}, c \in Certs \cup {NoCert, BadPem} : Pem(h, c)

\* The abstract specification.  The text of a policy map is written over a
\* truncated file only, never over a part of the text of another map, and
\* the origin cache changes one host at a time: no client ever reads the
\* lists of two different maps.
FileSpec == FileInit /\ [][FileNext]_<<origin, conf>>

=============================================================================
