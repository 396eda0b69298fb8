----------------------------- MODULE MCCatalog -----------------------------
(* Instances of Catalog for TLC: three concurrent requests on one row with *)
(* a mandatory column (name) and an optional one (geo).                    *)
EXTENDS Catalog, TLC

CONSTANTS k1, name, geo, a, b, r1, r2, r3

OneKey        == {k1}
TwoFields     == {name, geo}
OptionalField == {geo}
TwoValues     == {a, b}
ThreeRequests == {r1, r2, r3}
TwoRequests   == {r1, r2}

Full(x, y) == (name :> x) @@ (geo :> y)

Upserts == {[op |-> "upsert", key |-> k1, body |-> Full(a, Null)],
            [op |-> "upsert", key |-> k1, body |-> Full(b, a)]}
Patches == {[op |-> "patch", key |-> k1, body |-> Full(a, Null)],
            [op |-> "patch", key |-> k1, body |-> Full(Null, b)]}
Puts    == {[op |-> "put", key |-> k1, body |-> Full(a, b)],
            [op |-> "put", key |-> k1, body |-> Full(b, Null)]}
Deletes == {[op |-> "delete", key |-> k1, body |-> Full(Null, Null)]}

EveryCall == Upserts \cup Patches \cup Puts \cup Deletes
PutCalls  == Upserts \cup Puts

Symmetry == Permutations(ThreeRequests)
=============================================================================
