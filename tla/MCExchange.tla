----------------------------- MODULE MCExchange -----------------------------
(* Values of Exchange's constants for TLC: a rule of each sort, bodies of   *)
(* each form, and the lengths around each change of header. *)
EXTENDS Exchange

MCFold  == [h \in Hosts |-> IF h = "A" THEN "a" ELSE h]   \* two spellings
Root    == <<"/">>
Sub     == <<"/", "v">>
MCPaths == {Root, Sub}
MCRequests == [path : MCPaths, method : Methods]

Pat(t, s) == [text |-> t, star |-> s]
RuleOf(id, h, p, m, a) ==
    [id |-> id, host |-> h, path |-> p, method |-> m, action |-> a]

MCTable ==
    {[pos |-> 1, rule |-> RuleOf("mock", "a", Pat(Root, FALSE), "GET", "mock")],
     [pos |-> 2, rule |-> RuleOf("body", "a", Pat(Sub, FALSE), "GET", "rewrite")],
     [pos |-> 3, rule |-> RuleOf("json", "a", Pat(Root, TRUE), "PUT", "rewrite")],
     [pos |-> 4, rule |-> RuleOf("mockScript", "", AnyPath, "GET", "mock")],
     [pos |-> 5, rule |-> RuleOf("rewriteScript", "", Pat(Sub, FALSE), "", "rewrite")]}

Unset == [body |-> <<>>, rewriteBody |-> <<>>, script |-> <<>>,
          rewriteJSON |-> NoKeys, out |-> <<"out">>]

MCContent == [id \in RuleIDs |->
    CASE id = "mock" ->
            [Unset EXCEPT !.body = <<"lit", "{{path}}", Marker, "tail", Marker>>]
      [] id = "body" ->
            [Unset EXCEPT !.rewriteBody = <<"lit", "{{query.q}}", Marker, "{{host}}">>,
                          !.out = <<"out", "{{path}}">>]
      [] id = "json" ->
            [Unset EXCEPT !.rewriteJSON = [NoKeys EXCEPT !["a"] = <<"=", "lit">>,
                                                         !["b"] = <<"{{path}}", Marker>>]]
      [] id = "mockScript" ->
            [Unset EXCEPT !.body = <<"lit">>, !.script = <<"code">>,
                          !.out = <<"out", "{{query.q}}">>]
      [] id = "rewriteScript" ->
            [Unset EXCEPT !.script = <<"code">>, !.out = <<"{{", "{{path}}">>]]

\* Numbers: one that a float64 rounds, and one that is out of its range.
MCLiterals == {"lit", "tail", "out", "code", "2^53", "2^53+1", "1e400"}
MCFloat64  == [l \in MCLiterals |-> CASE l = "2^53+1" -> "2^53"
                                      [] l = "1e400"  -> NoFloat
                                      [] OTHER        -> l]

Lit       == <<<<"lit">>>>
Obj(k)    == [NoKeys EXCEPT ![k] = Lit]
Raw(f)    == [NoBody EXCEPT !.form = f, !.text = Lit]
Big       == [JsonBody(Obj("c")) EXCEPT !.form = "big"]
Num(n)    == JsonBody([NoKeys EXCEPT !["b"] = Lit, !["c"] = <<<<n>>>>])
MCWide    == {Num("2^53+1")}
MCBig     == {Big}
MCReq     == {NoBody, JsonBody(Obj("a")), JsonBody(Obj("c")), Raw("nul"),
              Num("1e400")} \cup MCBig \cup MCWide
MCRes     == {NoBody, TextBody(Lit), Raw("nul"), Raw("invalid")}
MCLengths == {0, 1, 125, 126, 127, 255, 256, 65535, 65536, 65537, 16777216,
              2147483647}
MCKey     == <<1, 2, 3, 255>>

=============================================================================
