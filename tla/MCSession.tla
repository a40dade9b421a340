----------------------------- MODULE MCSession -----------------------------
EXTENDS Session, TLC
CONSTANTS p1, p2, a1, a2, b1, k1, t1, t2
PodOf3 == (a1 :> p1) @@ (a2 :> p1) @@ (b1 :> p2)
PodOf2 == (a1 :> p1) @@ (a2 :> p1)
PodAB == (a1 :> p1) @@ (b1 :> p2)
Twins == Permutations({a1, a2})
=============================================================================
