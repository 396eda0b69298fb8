----------------------------- MODULE MCListWalk ----------------------------
(* Instances of ListWalk for TLC: three rows in pages of one, in distinct  *)
(* microseconds or loaded by one transaction, and two concurrent writes    *)
(* that insert, overwrite, move out of the filter, or delete.              *)
EXTENDS ListWalk, TLC

CONSTANTS k1, k2, k3, region, a, b, r1, r2

ThreeKeys   == {k1, k2, k3}
OneField    == {region}
NoField     == {}
TwoValues   == {a, b}
TwoRequests == {r1, r2}

Body(x) == region :> x
Stored(t) == [at |-> t, body |-> Body(a), gone |-> FALSE]

(* Three rows in distinct microseconds or all in one, and two rows with    *)
(* room for a third.                                                       *)
SomeTables ==
  {(k1 :> Stored(t[1]) @@ k2 :> Stored(t[2]) @@ k3 :> Stored(t[3])) :
     t \in {<<3, 2, 1>>, <<2, 2, 2>>}}
  \cup {k1 :> Stored(3) @@ k2 :> Stored(2) @@ k3 :> Absent}

SomeFilters == {Equal(region, Null), Equal(region, a)}

EveryCall ==
  {[op |-> "upsert", key |-> k, body |-> Body(a)] : k \in ThreeKeys}
  \cup {[op |-> "patch", key |-> k, body |-> Body(b)] : k \in ThreeKeys}
  \cup {[op |-> "delete", key |-> k, body |-> Body(Null)] : k \in ThreeKeys}

Symmetry == Permutations(TwoRequests)
=============================================================================
