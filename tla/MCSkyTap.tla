------------------------------ MODULE MCSkyTap ------------------------------
(* Values of SkyTap's constants for TLC.  The .cfg files choose among them. *)
EXTENDS SkyTap

CONSTANTS id1, id2    \* two rule ids

\* No two of these names are spellings of one (MCExchange has such names).
MCFold == [h \in Hosts |-> h]

Root == <<"/">>
Sub  == <<"/", "v">>

MockAll == [id |-> NoId, host |-> EmptyHost, path |-> AnyPath,
            method |-> AnyMethod, action |-> ""]
RewriteRoot == [id |-> id2, host |-> "a", path |-> [text |-> Root, star |-> TRUE],
                method |-> "GET", action |-> "rewrite"]

\* seed() adds a mock of GET / for its host.
MCSeedRule == [id |-> NoId, host |-> SeedHost,
               path |-> [text |-> Root, star |-> FALSE],
               method |-> "GET", action |-> ""]

OneMock    == {MockAll}
OneRewrite == {RewriteRoot}

GetRoot == [path |-> Root, method |-> "GET"]
Put     == [path |-> Root, method |-> "PUT"]

MCPaths       == {Root, Sub}
TwoRequests   == {GetRoot, Put}

\* What a previous run, or an operator, may have left in the data directory.
NoneFound     == {NoFile}
NothingKnown  == {NoStates}
Promote(g, s) == [h \in Hosts |-> IF h = g THEN s ELSE Absent]
InterceptedA  == {NoFile, Promote("a", StateIntercepted)}
HandWritten   == {NoFile, {[pos |-> 1, rule |-> MockAll]}}
MockRule      == {{[pos |-> 1, rule |-> [MockAll EXCEPT !.id = id1]],
                   [pos |-> 2, rule |-> RewriteRoot]}}

=============================================================================
