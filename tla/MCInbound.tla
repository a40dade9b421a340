------------------------------ MODULE MCInbound ------------------------------
(* Small instances of Inbound.                                               *)
EXTENDS Inbound, TLC
CONSTANTS m1, c1, c2
AllWays ==
  {<<mode, "scheme", TRUE>> : mode \in {"stream", "upload", "parallel"}}
  \cup {<<"unary", "plain", FALSE>>} \cup {<<"http", "plain", kept>> : kept \in BOOLEAN}
Handlers == Permutations(Calls)
=============================================================================
