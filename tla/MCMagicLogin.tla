---------------------------- MODULE MCMagicLogin ----------------------------
(* Instances of MagicLogin for TLC: three verifications of a token, on two *)
(* replicas whose clocks may each be ahead of or behind the database's.    *)
EXTENDS MagicLogin, TLC

CONSTANTS l1, v1, v2, v3, p1, p2

OneLogin      == {l1}
ThreeVerifies == {v1, v2, v3}
TwoReplicas   == {p1, p2}

Symmetry == Permutations(ThreeVerifies) \cup Permutations(TwoReplicas)
=============================================================================
