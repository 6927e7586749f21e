-------------------------------- MODULE Pipe --------------------------------
(***************************************************************************)
(* What a relay promises about one direction of a connection: a reader     *)
(* gets what was written, in order, each piece once and from the start,    *)
(* and gets all of it unless the connection broke.                         *)
(***************************************************************************)
EXTENDS Integers, Sequences

CONSTANTS
    Piece,   \* what is written and read
    MaxLen   \* bound: pieces written

VARIABLES
    in,      \* all that was written
    out,     \* all that was read
    broken,  \* something excuses the relay from delivering more
    waits    \* the relay waits for something else first

Init == in = <<>> /\ out = <<>>

Put == \E x \in Piece : in' = Append(in, x) /\ UNCHANGED out

Get ==
    /\ Len(out) < Len(in)
    /\ out' = Append(out, in[Len(out) + 1])
    /\ UNCHANGED in

\* In order, each piece once and from the start ...
InOrder == Init /\ [][Put \/ Get]_<<in, out>>

\* ... and all of it.
Delivered ==
    \A n \in 1..MaxLen : Len(in) >= n ~> Len(out) >= n \/ broken \/ []waits

=============================================================================
