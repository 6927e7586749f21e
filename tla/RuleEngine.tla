----------------------------- MODULE RuleEngine -----------------------------
(***************************************************************************)
(* The ordered table of mock and rewrite rules (rules.go).  Every method   *)
(* holds RuleEngine.mu, and matchRule copies the table under it, so each   *)
(* is one atomic operator.                                                 *)
(*                                                                         *)
(* The table is a Go slice that is only appended to, filtered and replaced *)
(* as a whole.  It is modelled as a set of entries stamped with their      *)
(* position: appending stamps one past the last, filtering keeps stamps,   *)
(* and the first match is the matching entry with the least stamp.         *)
(***************************************************************************)
EXTENDS Integers, Sequences, HostNames

CONSTANTS Paths,      \* request paths, as sequences
          Methods,    \* request methods, one per class of strings.EqualFold
          AnyMethod,  \* "" in a rule
          RuleIDs,    \* what newRuleID and clients choose ids from
          NoId,       \* "" in a rule
          NoRule,     \* a nil *Rule
          MaxPos      \* bound on the positions of the table

\* Rule.Action; every string but "rewrite" (in any case) behaves as "mock",
\* and "" is replaced by "mock" when the rule enters the table.
Actions == {"", "mock", "rewrite"}

\* Rule.Path: a text, then possibly a trailing "*".  "" matches every path.
Patterns == [text: Paths \cup {<<>>}, star: BOOLEAN]
AnyPath  == [text |-> <<>>, star |-> FALSE]

\* Status, body, content type, rewrite fields and script do not affect which
\* rule applies and are left out.
Rule == [id: RuleIDs \cup {NoId}, host: Hosts, path: Patterns,
         method: Methods \cup {AnyMethod}, action: Actions]

Entry   == [pos: 1..MaxPos, rule: Rule]
Request == [path: Paths, method: Methods]

ASSUME RuleEngineAssumption ==
    /\ MaxPos \in Nat
    /\ NoId \notin RuleIDs
    /\ NoRule \notin Rule

VARIABLE rules

-----------------------------------------------------------------------------
(* Matching.                                                               *)

pathMatch(pat, path) ==
    IF pat.star
    THEN /\ Len(pat.text) <= Len(path)
         /\ SubSeq(path, 1, Len(pat.text)) = pat.text
    ELSE pat.text = path

Applies(r, h, req) ==
    /\ r.host = EmptyHost \/ Fold[r.host] = Fold[h]
    /\ r.path = AnyPath \/ pathMatch(r.path, req.path)
    /\ r.method \in {AnyMethod, req.method}

\* The singleton of the first rule of table rs that applies, or {NoRule}.
FirstMatch(rs, h, req) ==
    LET hit == {e \in rs : Applies(e.rule, h, req)}
    IN  IF hit = {}
        THEN {NoRule}
        ELSE {e.rule : e \in {e \in hit : \A f \in hit : e.pos <= f.pos}}

matchRule(h, req) == FirstMatch(rules, h, req)

IsRewrite(r) == r # NoRule /\ r.action = "rewrite"

-----------------------------------------------------------------------------
(* Changes.                                                                *)

UsedIDs(rs) == {e.rule.id : e \in rs}

\* Set and Add give a rule without an id a random one, and a rule without an
\* action the action "mock".  newRuleID draws 64 random bits: a new id is
\* taken to differ from those in use.
Complete(r, id) ==
    [r EXCEPT !.id     = IF @ = NoId THEN id ELSE @,
              !.action = IF @ = "" THEN "mock" ELSE @]

IDsFor(r) == IF r.id = NoId THEN RuleIDs \ UsedIDs(rules) ELSE {r.id}

\* One past the last position of table rs.
IsNextPos(rs, p) ==
    /\ \A e \in rs : e.pos < p
    /\ p = 1 \/ \E e \in rs : e.pos = p - 1

Add(r) ==
    \E id \in IDsFor(r), p \in 1..MaxPos :
        /\ IsNextPos(rules, p)
        /\ rules' = rules \cup {[pos |-> p, rule |-> Complete(r, id)]}

\* Fault variant: the table is replaced as it was read, ids not filled in.
SetUncompleted(rs) == rules' = rs

Set(rs) ==
    \E new \in [{e \in rs : e.rule.id = NoId} -> RuleIDs \ UsedIDs(rs)] :
        /\ \A e, f \in DOMAIN new : new[e] = new[f] => e = f
        /\ rules' = {[e EXCEPT !.rule = Complete(@, new[e])] : e \in rs}

HasRule(id) == \E e \in rules : e.rule.id = id

Delete(id) == rules' = {e \in rules : e.rule.id # id}

-----------------------------------------------------------------------------

RuleTypeOK == rules \subseteq Entry

=============================================================================
