---------------------------- MODULE MCDashboard -----------------------------
(* Instances of Dashboard for TLC: one table of two rows and one of a      *)
(* single row, two concurrent writes that insert, change the region,       *)
(* update or delete, and one recent row of each table.                     *)
EXTENDS Dashboard, TLC

CONSTANTS k1, k2, k3, status, region, a, blank, unknown, projects, volunteers, r1, r2

ThreeKeys   == {k1, k2, k3}
TwoEntities == {projects, volunteers}
TwoFields   == {status, region}
NoField     == {}
TwoValues   == {a, blank}
TwoRequests == {r1, r2}

Where == k1 :> projects @@ k2 :> projects @@ k3 :> volunteers

Body(x) == status :> a @@ region :> x
Stored(t, x, gone) == [at |-> t, body |-> Body(x), gone |-> gone]

(* Both rows of the first table there, one to come, or one gone.           *)
SomeTables ==
  {k1 :> Stored(1, a, FALSE) @@ k2 :> second @@ k3 :> Stored(1, blank, FALSE) :
     second \in {Stored(2, blank, FALSE), Absent, Stored(1, a, TRUE)}}

EveryCall ==
  {[op |-> "upsert", key |-> k, body |-> Body(blank)] : k \in ThreeKeys}
  \cup {[op |-> "patch", key |-> k, body |-> status :> Null @@ region :> a] : k \in ThreeKeys}
  \cup {[op |-> "delete", key |-> k, body |-> status :> Null @@ region :> Null] : k \in ThreeKeys}

Symmetry == Permutations(TwoRequests)
=============================================================================
