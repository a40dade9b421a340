------------------------------ MODULE MCRouter ------------------------------
(* Small instances of Router: who is there, which loops run, what may go     *)
(* wrong.                                                                    *)
EXTENDS Router, TLC

CONSTANTS p1, p2, p3, k1, m1, m2

SameClient == [m \in Msgs |-> k1]

Both == {p1, p2} \X {"consumer", "claimer"}
AllLoops == Both \cup {<<p1, "janitor">>}
Janitors == {p1, p2} \X {"janitor"}

Limits(moves, errors, crashes) ==
  ("move" :> moves) @@ ("error" :> errors) @@ ("crash" :> crashes)
Move2  == Limits(2, 0, 0)
Move3  == Limits(3, 0, 0)
Crash1 == Limits(2, 0, 1)
Mishap == Limits(1, 1, 1)
=============================================================================
