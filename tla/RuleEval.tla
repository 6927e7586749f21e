------------------------------ MODULE RuleEval ------------------------------
(***************************************************************************)
(* What a rule makes of a request (rules.go): the response of a mock rule  *)
(* (renderRule) and the request as a rewrite rule changes it               *)
(* (applyRewrite).                                                         *)
(*                                                                         *)
(* The text of a rule is a sequence of pieces: literals, templates, script *)
(* markers and values.  A text that was made of one is a sequence of       *)
(* chunks, one for each piece of the rule's text or one for all of it,     *)
(* since a script yields any number of pieces.  Whether a Starlark script  *)
(* succeeds is not known: it may have an error, take too many steps, or    *)
(* meet its deadline of 50 ms on a busy machine.  The set F says which do  *)
(* not, by their position; its values are given by the rule.               *)
(***************************************************************************)
EXTENDS Integers, Sequences

CONSTANTS Keys,     \* keys of JSON objects
          NoValue,  \* the key is not in the object
          Literals, \* pieces without any "{{"
          Float64,  \* Float64[l]: the literal l once json.Unmarshal has read
                    \* it into an any; only a number may change
          NoFloat   \* Float64[l] of a number that is out of range

Marker    == "{{script: e}}"
Templates == {"{{path}}", "{{host}}", "{{query.q}}"}
Dotted    == {"{{.path}}", "{{.host}}", "{{.query.q}}"}
Values    == {"PATH", "HOST", "Q", "<no value>"}
\* "{{" stands for anything the template parser rejects, "=" begins a JSON
\* value that is an expression.
Piece     == Literals \cup Templates \cup Dotted \cup Values \cup {Marker, "{{", "="}

RuleText == Seq(Piece)
Text     == Seq(Seq(Piece))

ASSUME RuleEvalAssumption ==
    /\ Literals \cap (Templates \cup Dotted \cup {Marker, "{{"}) = {}
    /\ NoValue \notin RuleText /\ NoValue \notin Text
    /\ Float64 \in [Literals -> Literals \cup {NoFloat}]
    /\ NoFloat \notin Piece

\* JSON objects, and the rule's map of texts: the keys they have.
Object(T) == [Keys -> {NoValue} \cup T]
Named(o)  == {k \in Keys : o[k] # NoValue}
NoKeys    == [k \in Keys |-> NoValue]

\* What a rule holds besides what RuleEngine matches on: its texts, "" if not
\* set, and what its scripts yield when they succeed.
Content == [body: RuleText, rewriteBody: RuleText, script: RuleText,
            rewriteJSON: Object(RuleText), out: RuleText]

\* A body: none, a text, a JSON object, one that is longer than the 1 MiB that
\* applyRewrite reads, or bytes that mean nothing to a rule, with a zero byte
\* or not UTF-8.
Body == [form: {"none", "text", "json", "big", "nul", "invalid"},
         text: Text, obj: Object(Text)]

NoBody      == [form |-> "none", text |-> <<>>, obj |-> NoKeys]
TextBody(t) == [form |-> "text", text |-> t, obj |-> NoKeys]
JsonBody(o) == [form |-> "json", text |-> <<>>, obj |-> o]

\* Some piece of the text t is in P.
Holds(t, P) == \E i \in DOMAIN t : \E j \in DOMAIN t[i] : t[i][j] \in P

-----------------------------------------------------------------------------

Dot(x) == CASE x = "{{path}}"    -> "{{.path}}"
            [] x = "{{host}}"    -> "{{.host}}"
            [] x = "{{query.q}}" -> "{{.query.q}}"
            [] OTHER             -> x

\* The request req has a path, a host and, perhaps, the query parameter q.
Value(x, q) == CASE x = "{{.path}}"    -> "PATH"
                 [] x = "{{.host}}"    -> "HOST"
                 [] x = "{{.query.q}}" -> IF q THEN "Q" ELSE "<no value>"
                 [] OTHER              -> x

\* f[x] in the place of every piece x of the text t.
Replace(t, f(_)) == [i \in DOMAIN t |-> [j \in DOMAIN t[i] |-> f(t[i][j])]]

\* What the template parser rejects.
Rejected == {Marker, "{{"}

\* A text that does not parse as a template is left as the replacer made it.
applyTpl(t, q) ==
    LET DotValue(x) == Value(Dot(x), q)
    IN  IF Holds(t, Rejected) THEN Replace(t, Dot) ELSE Replace(t, DotValue)

\* The positions at which scripts may fail, by an error, by their number of
\* steps or at the deadline.
ScriptFailures(max) == SUBSET (1..max)

\* The expression at position i; s stays in its place if it fails.
evalExpr(s, i, out, F) == IF i \in F THEN s ELSE out

\* A program for the whole body is at position 1.
runProgram(s, out, F) == IF 1 \in F THEN s ELSE out

\* Every marker whose script succeeds is replaced.
evalMarkers(s, out, F) ==
    [i \in DOMAIN s |->
        IF s[i] = Marker THEN evalExpr(<<Marker>>, i, out, F) ELSE <<s[i]>>]

\* Fault variant: the templates are run before the markers are replaced.
evalBodyTplFirst(s, whole, out, F, q) ==
    IF whole
    THEN applyTpl(<<runProgram(s, out, F)>>, q)
    ELSE evalMarkers(applyTpl(<<s>>, q)[1], out, F)

evalBody(s, whole, out, F, q) ==
    applyTpl(IF whole THEN <<runProgram(s, out, F)>> ELSE evalMarkers(s, out, F), q)

\* The value of a key is an expression, not a template.
IsExpr(v) == v # <<>> /\ Head(v) = "="

evalJSONValue(v, out, F, q) ==
    IF IsExpr(v) THEN <<evalExpr(v, 1, out, F)>> ELSE evalBody(v, FALSE, out, F, q)

-----------------------------------------------------------------------------

\* The whole body is made by the script, or else from the given text.
Rendered(text, c, F, q) ==
    TextBody(IF c.script # <<>> THEN evalBody(c.script, TRUE, c.out, F, q)
                                ELSE evalBody(text, FALSE, c.out, F, q))

renderRule(c, F, q) == Rendered(c.body, c, F, q)

\* A piece of a value, and a value, after json.Unmarshal and json.Marshal.
Decoded(y)       == IF y \in Literals THEN Float64[y] ELSE y
DecodedValue(v)  == IF v = NoValue THEN NoValue ELSE Replace(v, Decoded)

\* json.Unmarshal takes an object that was read in full and in which no number
\* is out of the range of a float64.
Overflows(v) ==
    v # NoValue /\ \E i \in DOMAIN v : \E j \in DOMAIN v[i] :
                       Decoded(v[i][j]) = NoFloat

Decodes(b) == b.form = "json" /\ \A n \in Keys : ~Overflows(b.obj[n])

Unmarshal(b) == IF Decodes(b) THEN [n \in Keys |-> DecodedValue(b.obj[n])] ELSE NoKeys

\* Fault variant: the keys of the body are forgotten.
MergeAnew(b, c, F, q) ==
    JsonBody([k \in Keys |->
        IF k \in Named(c.rewriteJSON) THEN evalJSONValue(c.rewriteJSON[k], c.out, F, q)
        ELSE NoValue])

Merge(b, c, F, q) ==
    JsonBody([k \in Keys |->
        IF k \in Named(c.rewriteJSON) THEN evalJSONValue(c.rewriteJSON[k], c.out, F, q)
        ELSE Unmarshal(b)[k]])

\* A rewrite rule that makes a body of its own.
Replaces(c) == c.rewriteBody # <<>> \/ c.script # <<>>

\* The body that goes to the origin; its length goes with it on every branch.
\* json.Marshal of decoded JSON and of strings does not fail, so the branch
\* that would keep what was read of the body is not taken.
applyRewrite(b, c, F, q) ==
    IF Replaces(c)
    THEN Rendered(c.rewriteBody, c, F, q)
    ELSE IF Named(c.rewriteJSON) = {} THEN b ELSE Merge(b, c, F, q)

=============================================================================
