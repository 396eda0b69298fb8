---------------------------- MODULE MCSyncFeed -----------------------------
(* Instances of SyncFeed for TLC: two rows, three requests and pages of    *)
(* one row, the least that cuts two rows of equal updated_at.              *)
EXTENDS SyncFeed, TLC

CONSTANTS k1, k2, name, a, b, r1, r2, r3

TwoKeys       == {k1, k2}
OneField      == {name}
NoField       == {}
TwoValues     == {a, b}
ThreeRequests == {r1, r2, r3}

Set(x) == name :> x

Upserts == {[op |-> "upsert", key |-> k, body |-> Set(x)] : k \in TwoKeys, x \in TwoValues}
Patches == {[op |-> "patch", key |-> k, body |-> Set(a)] : k \in TwoKeys}
Deletes == {[op |-> "delete", key |-> k, body |-> Set(Null)] : k \in TwoKeys}

EveryCall     == Upserts \cup Patches \cup Deletes
NoDeleteCalls == Upserts \cup Patches

Symmetry == Permutations(ThreeRequests) \cup Permutations(TwoKeys)
=============================================================================
