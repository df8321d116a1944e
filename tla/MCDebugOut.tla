----------------------------- MODULE MCDebugOut -----------------------------
(* Constants for model checking DebugOut. *)
EXTENDS DebugOut

Plain(end, ext) == [end |-> end, ext |-> ext, ctl |-> FALSE]
Ping(end)       == [end |-> end, ext |-> 0, ctl |-> TRUE]

\* A message in a frame with a length of two bytes, and one in two frames, the second
\* of them empty, with an empty ping between them.
TwoShapes == { <<Plain(1, 2)>>, <<Plain(1, 0), Ping(1), Plain(1, 0)>> }
=============================================================================
