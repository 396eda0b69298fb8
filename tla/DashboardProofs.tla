-------------------------- MODULE DashboardProofs ---------------------------
(***************************************************************************)
(* Machine-checked proofs about Dashboard, for any number of tables, rows, *)
(* labels and concurrent writes.                                           *)
(***************************************************************************)
EXTENDS Dashboard, CatalogProofs, FiniteInduction

(* A breakdown counts finitely many rows under each label.                 *)
LEMMA GroupCountType ==
  ASSUME IsFiniteSet(Keys), NEW e, NEW col
  PROVE  /\ GroupCount(e, col) \in [Labels -> Nat]
         /\ Cardinality(ActiveOf(e)) \in Nat
<1>1. ActiveOf(e) \subseteq Keys
  BY DEF ActiveOf
<1>2. ASSUME NEW s, s \subseteq Keys PROVE Cardinality(s) \in Nat
  BY <1>2, FS_Subset, FS_CardinalityType
<1>3. ASSUME NEW x \in Labels
      PROVE  Cardinality({k \in ActiveOf(e) : Label(rows[k].body[col]) = x}) \in Nat
  <2>1. {k \in ActiveOf(e) : Label(rows[k].body[col]) = x} \subseteq Keys
    BY <1>1
  <2> QED
    BY <1>2, <2>1
<1> QED
  BY <1>1, <1>2, <1>3 DEF GroupCount

(* An active row has a label in either breakdown.                          *)
LEMMA RowIsLabelled ==
  ASSUME TypeOK, NEW e \in Entities, NEW k \in ActiveOf(e), NEW col \in {StatusCol, RegionCol}
  PROVE  Label(rows[k].body[col]) \in Labels
<1>1. rows[k].body \in FullBodies /\ col \in Fields \ Optional
  BY DashboardAssumption DEF TypeOK, ActiveOf, Active
<1>2. rows[k].body[col] \in Values
  BY <1>1, CatalogAssumption DEF FullBodies, Bodies
<1> QED
  BY <1>2 DEF Label, Labels

-----------------------------------------------------------------------------
(* One column of the table of regions.                                     *)
Column(m, c) == [x \in Labels |-> m[x][c]]

LEMMA ColumnSum ==
  ASSUME IsFiniteSet(Labels), NEW m \in [Labels -> [Columns -> Nat]], NEW c \in Columns
  PROVE  /\ MapThenSumSet(LAMBDA x : m[x][c], Labels) = SumOf(Column(m, c), Labels)
         /\ \A x \in Labels : Column(m, c)[x] = m[x][c] /\ m[x][c] \in Nat
         /\ SumOf(Column(m, c), Labels) \in Nat
<1>1. \A x \in Labels : m[x][c] \in Nat
  OBVIOUS
<1>2. MapThenSumSet(LAMBDA x : m[x][c], Labels) = SumOf([x \in Labels |-> m[x][c]], Labels)
  BY <1>1, SumOfColumn
<1>3. \A x \in Labels : Column(m, c)[x] = m[x][c] /\ Column(m, c)[x] \in Nat
  BY <1>1 DEF Column
<1>4. SumOf(Column(m, c), Labels) \in Nat
  BY <1>3, SumType
<1> QED
  BY <1>2, <1>3, <1>4 DEF Column

(* The figures of the dashboard, before and after a step, as sums of       *)
(* functions: what the laws of sums are about.                             *)
LEMMA FiguresAreSums ==
  ASSUME IsFiniteSet(Labels), StatsTypeOK, StatsTypeOK'
  PROVE  /\ \A e \in Entities :
              /\ StatusSum(e) = SumOf(byStatus[e], Labels) /\ StatusSum(e) \in Nat
              /\ StatusSum(e)' = SumOf(byStatus'[e], Labels) /\ StatusSum(e)' \in Nat
         /\ \A c \in Columns :
              /\ RegionSum(c) = SumOf(Column(byRegion, c), Labels) /\ RegionSum(c) \in Nat
              /\ RegionSum(c)' = SumOf(Column(byRegion', c), Labels) /\ RegionSum(c)' \in Nat
<1>1. ASSUME NEW e \in Entities
      PROVE  /\ StatusSum(e) = SumOf(byStatus[e], Labels)
             /\ StatusSum(e)' = SumOf(byStatus'[e], Labels)
  BY DEF StatusSum, SumOf, MapThenSumSet, MapThenFoldSet
<1>2. ASSUME NEW e \in Entities
      PROVE  SumOf(byStatus[e], Labels) \in Nat /\ SumOf(byStatus'[e], Labels) \in Nat
  <2>1. \A x \in Labels : byStatus[e][x] \in Nat
    BY DEF StatsTypeOK
  <2>2. \A x \in Labels : byStatus'[e][x] \in Nat
    BY DEF StatsTypeOK
  <2>3. SumOf(byStatus[e], Labels) \in Nat
    BY <2>1, SumType
  <2>4. SumOf(byStatus'[e], Labels) \in Nat
    BY <2>2, SumType
  <2> QED
    BY <2>3, <2>4
<1>3. ASSUME NEW c \in Columns
      PROVE  /\ RegionSum(c) = SumOf(Column(byRegion, c), Labels)
             /\ RegionSum(c)' = SumOf(Column(byRegion', c), Labels)
             /\ SumOf(Column(byRegion, c), Labels) \in Nat
             /\ SumOf(Column(byRegion', c), Labels) \in Nat
  <2>1. /\ MapThenSumSet(LAMBDA x : byRegion[x][c], Labels) = SumOf(Column(byRegion, c), Labels)
        /\ SumOf(Column(byRegion, c), Labels) \in Nat
    BY ColumnSum DEF StatsTypeOK
  <2>2. /\ MapThenSumSet(LAMBDA x : byRegion'[x][c], Labels) = SumOf(Column(byRegion', c), Labels)
        /\ SumOf(Column(byRegion', c), Labels) \in Nat
    BY ColumnSum DEF StatsTypeOK
  <2> QED
    BY <2>1, <2>2 DEF RegionSum, MapThenSumSet, MapThenFoldSet
<1> QED
  BY <1>1, <1>2, <1>3

(* A breakdown read in one statement has every row of the table once.      *)
LEMMA GroupsAddUp ==
  ASSUME IsFiniteSet(Keys), IsFiniteSet(Labels), TypeOK,
         NEW e \in Entities, NEW col \in {StatusCol, RegionCol}
  PROVE  SumOf(GroupCount(e, col), Labels) = Cardinality(ActiveOf(e))
<1> DEFINE label == [k \in ActiveOf(e) |-> Label(rows[k].body[col])]
<1>1. IsFiniteSet(ActiveOf(e))
  BY FS_Subset DEF ActiveOf
<1>2. label \in [ActiveOf(e) -> Labels]
  BY RowIsLabelled
<1>3. \A x \in Labels : {k \in ActiveOf(e) : label[k] = x}
                        = {k \in ActiveOf(e) : Label(rows[k].body[col]) = x}
  OBVIOUS
<1>4. \A x \in Labels :
        GroupCount(e, col)[x] = Cardinality({k \in ActiveOf(e) : label[k] = x})
  BY <1>3 DEF GroupCount
<1> HIDE DEF label
<1> QED
  BY <1>1, <1>2, <1>4, SumOfClasses

(* Every step keeps the types.                                             *)
LEMMA TypesStep ==
  ASSUME IsFiniteSet(Keys), IInv, StatsTypeOK, [DashNext]_dashVars
  PROVE  IInv' /\ StatsTypeOK'
<1> USE DEF StatsTypeOK
<1>1. ASSUME [Next]_vars PROVE IInv' /\ TypeOK'
  BY <1>1, CatalogStep DEF IInv
<1>2. CASE Write
  <2>1. ASSUME NEW e \in Entities
        PROVE  Cardinality({k \in Keys : EntityOf[k] = e /\ Active(k)' # Active(k)}) \in Nat
    BY FS_Subset, FS_CardinalityType
  <2>2. churn' \in [Entities -> Nat]
    BY <1>2, <2>1 DEF Write
  <2> QED
    BY <1>1, <1>2, <2>2 DEF Write
<1>3. CASE Counts
  BY <1>1, <1>3, GroupCountType DEF Counts
<1>4. ASSUME NEW e \in Entities, StatusOf(e) PROVE StatsTypeOK' /\ IInv'
  BY <1>1, <1>4, GroupCountType DEF StatusOf
<1>5. CASE RegionOf
  <2> DEFINE n == GroupCount(table, RegionCol)
             grown(x) == [byRegion[x] EXCEPT ![table] = @ + n[x], !["total"] = @ + n[x]]
  <2>1. n \in [Labels -> Nat]
    BY GroupCountType
  <2>2. byRegion' = [x \in Labels |-> grown(x)]
    BY <1>5 DEF RegionOf
  <2>3. ASSUME NEW x \in Labels PROVE grown(x) \in [Columns -> Nat]
    <3>1. byRegion[x] \in [Columns -> Nat] /\ n[x] \in Nat
      BY <2>1
    <3>2. table \in Columns /\ "total" \in Columns
      BY <1>5 DEF RegionOf, Columns
    <3> HIDE DEF n
    <3> QED
      BY <3>1, <3>2
  <2>4. byRegion' \in [Labels -> [Columns -> Nat]]
    <3> HIDE DEF grown
    <3> QED
      BY <2>2, <2>3
  <2> QED
    BY <1>1, <1>5, <2>4 DEF RegionOf
<1>6. ASSUME NEW e \in Entities, RecentOf(e) PROVE StatsTypeOK' /\ IInv'
  <2>1. PICK t \in Newest(e) : recent' = [recent EXCEPT ![e] = t]
    BY <1>6 DEF RecentOf
  <2>2. t \in {s \in SUBSET Keys : Cardinality(s) <= RecentRows}
    BY <2>1 DEF Newest, ActiveOf
  <2> QED
    BY <1>1, <1>6, <2>1, <2>2 DEF RecentOf
<1>7. CASE ToRecent \/ StatsFail
  BY <1>1, <1>7 DEF ToRecent, StatsFail
<1>8. CASE UNCHANGED dashVars
  BY <1>1, <1>8 DEF dashVars, statsVars
<1> QED
  BY <1>2, <1>3, <1>4, <1>5, <1>6, <1>7, <1>8 DEF DashNext, Stats

(* A step of the request leaves the rows and the churn alone.              *)
LEMMA StatsStepFrame ==
  ASSUME Stats \/ UNCHANGED dashVars
  PROVE  /\ UNCHANGED vars /\ churn' = churn
         /\ \A e : ActiveOf(e)' = ActiveOf(e)
<1>1. UNCHANGED vars /\ churn' = churn
  BY DEF Stats, Counts, StatusOf, RegionOf, ToRecent, RecentOf, StatsFail, dashVars, statsVars
<1> QED
  BY <1>1 DEF vars, ActiveOf, Active, Exists

(* Every step keeps the order of the request's statements.                 *)
LEMMA OrderStep ==
  ASSUME StatsTypeOK, RequestIsOrdered, [DashNext]_dashVars
  PROVE  RequestIsOrdered'
<1> USE DashboardAssumption DEF RequestIsOrdered, StatsTypeOK
<1>1. CASE Write
  BY <1>1 DEF Write
<1>2. CASE Counts
  BY <1>2 DEF Counts
<1>3. ASSUME NEW e \in Entities, StatusOf(e) PROVE RequestIsOrdered'
  BY <1>3 DEF StatusOf
<1>4. CASE RegionOf
  <2>1. \A e \in left' : e \in left /\ e # table /\ e \in Columns /\ e # "total"
    BY <1>4 DEF RegionOf, Columns
  <2>2. \A e \in left' : \A x \in Labels : byRegion'[x][e] = byRegion[x][e]
    BY <1>4, <2>1 DEF RegionOf
  <2> QED
    BY <1>4, <2>1, <2>2 DEF RegionOf
<1>5. CASE ToRecent
  BY <1>5 DEF ToRecent
<1>6. ASSUME NEW e \in Entities, RecentOf(e) PROVE RequestIsOrdered'
  BY <1>6 DEF RecentOf
<1>7. CASE StatsFail
  BY <1>7 DEF StatsFail
<1>8. CASE UNCHANGED dashVars
  BY <1>8 DEF dashVars, statsVars
<1> QED
  BY <1>1, <1>2, <1>3, <1>4, <1>5, <1>6, <1>7, <1>8 DEF DashNext, Stats

(* Steps that leave what was read alone, and the rows.                     *)
LEMMA SameFiguresFollow ==
  ASSUME IsFiniteSet(Labels), StatsTypeOK, StatsTypeOK', FiguresFollow,
         UNCHANGED <<counts, byStatus, byRegion, churn>>,
         \A e \in Entities :
           /\ ActiveOf(e)' = ActiveOf(e)
           /\ stats' \in {"groups", "recent", "done"} => stats \in {"groups", "recent", "done"}
           /\ stats' = "groups" /\ table' = e => stats = "groups" /\ table = e
           /\ HasStatus(e)' => HasStatus(e)
           /\ HasRegion(e)' => HasRegion(e)
  PROVE  FiguresFollow'
<1>1. /\ \A e \in Entities : StatusSum(e)' = StatusSum(e)
      /\ \A c \in Columns : RegionSum(c)' = RegionSum(c)
  BY FiguresAreSums
<1>2. TotalsAdd'
  BY DEF FiguresFollow, TotalsAdd, RegionSum, MapThenSumSet, MapThenFoldSet
<1>3. \A e \in Entities : e \in Columns
  BY DEF Columns
<1> QED
  BY <1>1, <1>2, <1>3 DEF FiguresFollow, Differ

LEMMA WriteFollows ==
  ASSUME IsFiniteSet(Keys), IsFiniteSet(Labels), StatsTypeOK, StatsTypeOK', FiguresFollow, Write
  PROVE  FiguresFollow'
<1> DEFINE changed(e) == {k \in Keys : EntityOf[k] = e /\ Active(k)' # Active(k)}
<1>1. UNCHANGED <<stats, left, table, counts, byStatus, byRegion>>
  BY DEF Write
<1>2. /\ \A e \in Entities : StatusSum(e)' = StatusSum(e)
      /\ \A c \in Columns : RegionSum(c)' = RegionSum(c)
  BY <1>1, FiguresAreSums
<1>3. TotalsAdd'
  BY <1>1 DEF FiguresFollow, TotalsAdd, RegionSum, MapThenSumSet, MapThenFoldSet
<1>4. ASSUME NEW e \in Entities
      PROVE  /\ HasStatus(e)' = HasStatus(e) /\ HasRegion(e)' = HasRegion(e)
             /\ HasStatus(e) \/ HasRegion(e) => stats \in {"groups", "recent", "done"}
  BY <1>1 DEF HasStatus, HasRegion
<1>5. ASSUME NEW e \in Entities
      PROVE  /\ Cardinality(changed(e)) \in Nat
             /\ Differ(Cardinality(ActiveOf(e))', Cardinality(ActiveOf(e)), Cardinality(changed(e)))
  <2> DEFINE A == ActiveOf(e)
             B == ActiveOf(e)'
             D == changed(e)
  <2>1. A \subseteq Keys /\ B \subseteq Keys /\ D \subseteq Keys
    BY DEF ActiveOf
  <2>2. A \ B \subseteq D /\ B \ A \subseteq D
    BY DEF ActiveOf
  <2>3. Cardinality(ActiveOf(e))' = Cardinality(B)
    OBVIOUS
  <2> HIDE DEF A, B, D
  <2>4. IsFiniteSet(A) /\ IsFiniteSet(B) /\ IsFiniteSet(D)
    BY <2>1, FS_Subset
  <2>5. Differ(Cardinality(B), Cardinality(A), Cardinality(D))
    BY <2>2, <2>4, SizesApart DEF Differ
  <2>6. Cardinality(D) \in Nat
    BY <2>4, FS_CardinalityType
  <2> QED
    BY <2>3, <2>5, <2>6 DEF A, D
<1>6. ASSUME NEW e \in Entities, stats \in {"groups", "recent", "done"}
      PROVE  churn'[e] = churn[e] + Cardinality(changed(e))
  BY <1>6 DEF Write
<1> HIDE DEF changed
<1>7. ASSUME NEW e \in Entities
      PROVE  /\ stats' \in {"groups", "recent", "done"} =>
                  Differ(Cardinality(ActiveOf(e))', counts'[e], churn'[e])
             /\ stats' = "groups" /\ table' = e =>
                  Differ(Cardinality(ActiveOf(e))', StatusSum(e)', churn'[e])
             /\ HasStatus(e)' => Differ(StatusSum(e)', counts'[e], churn'[e])
             /\ HasRegion(e)' => /\ Differ(RegionSum(e)', counts'[e], churn'[e])
                                 /\ Differ(RegionSum(e)', StatusSum(e)', churn'[e])
  <2>1. CASE stats \in {"groups", "recent", "done"}
    <3>1. churn'[e] = churn[e] + Cardinality(changed(e)) /\ Cardinality(changed(e)) \in Nat
      BY <1>5, <1>6, <2>1
    <3>2. /\ counts[e] \in Nat /\ churn[e] \in Nat
          /\ StatusSum(e) \in Nat /\ RegionSum(e) \in Nat
      BY FiguresAreSums DEF StatsTypeOK, Columns
    <3>3. Cardinality(ActiveOf(e)) \in Nat /\ Cardinality(ActiveOf(e))' \in Nat
      <4>1. ActiveOf(e) \in SUBSET Keys /\ ActiveOf(e)' \in SUBSET Keys
        BY DEF ActiveOf
      <4>2. \A s \in SUBSET Keys : Cardinality(s) \in Nat
        BY FS_Subset, FS_CardinalityType
      <4> QED
        BY <4>1, <4>2
    <3>4. StatusSum(e)' = StatusSum(e) /\ RegionSum(e)' = RegionSum(e) /\ counts'[e] = counts[e]
      BY <1>1, <1>2 DEF Columns
    <3>5. Differ(Cardinality(ActiveOf(e)), counts[e], churn[e])
      BY <2>1 DEF FiguresFollow
    <3>6. Differ(Cardinality(ActiveOf(e))', counts'[e], churn'[e])
      BY <1>5, <3>1, <3>2, <3>3, <3>4, <3>5 DEF Differ
    <3>7. ASSUME stats = "groups", table = e
          PROVE  Differ(Cardinality(ActiveOf(e))', StatusSum(e)', churn'[e])
      <4>1. Differ(Cardinality(ActiveOf(e)), StatusSum(e), churn[e])
        BY <3>7 DEF FiguresFollow
      <4> QED
        BY <1>5, <3>1, <3>2, <3>3, <3>4, <4>1 DEF Differ
    <3>8. ASSUME HasStatus(e) PROVE Differ(StatusSum(e)', counts'[e], churn'[e])
      <4>1. Differ(StatusSum(e), counts[e], churn[e])
        BY <3>8 DEF FiguresFollow
      <4> QED
        BY <3>1, <3>2, <3>4, <4>1 DEF Differ
    <3>9. ASSUME HasRegion(e)
          PROVE  /\ Differ(RegionSum(e)', counts'[e], churn'[e])
                 /\ Differ(RegionSum(e)', StatusSum(e)', churn'[e])
      <4>1. /\ Differ(RegionSum(e), counts[e], churn[e])
            /\ Differ(RegionSum(e), StatusSum(e), churn[e])
        BY <3>9 DEF FiguresFollow
      <4> QED
        BY <3>1, <3>2, <3>4, <4>1 DEF Differ
    <3> QED
      BY <1>1, <1>4, <3>6, <3>7, <3>8, <3>9
  <2>2. CASE stats \notin {"groups", "recent", "done"}
    BY <1>1, <1>4, <2>2
  <2> QED
    BY <2>1, <2>2
<1> QED
  BY <1>3, <1>7 DEF FiguresFollow

LEMMA CountsFollow ==
  ASSUME IsFiniteSet(Keys), IsFiniteSet(Labels), StatsTypeOK, StatsTypeOK',
         RequestIsOrdered, FiguresFollow, Counts
  PROVE  FiguresFollow'
<1>1. \A e \in Entities : ActiveOf(e)' = ActiveOf(e) /\ churn'[e] = 0
  BY StatsStepFrame DEF Stats, RequestIsOrdered, Counts
<1>2. \A e \in Entities : counts'[e] = Cardinality(ActiveOf(e)) /\ counts'[e] \in Nat
  BY GroupCountType DEF Counts
<1>3. \A e \in Entities : ~ HasStatus(e)' /\ ~ HasRegion(e)' /\ table' # e
  BY DashboardAssumption DEF Counts, RequestIsOrdered, HasStatus, HasRegion
<1>4. TotalsAdd'
  BY DEF Counts, FiguresFollow, TotalsAdd, RegionSum, MapThenSumSet, MapThenFoldSet
<1>5. ASSUME NEW e \in Entities
      PROVE  Differ(Cardinality(ActiveOf(e))', counts'[e], churn'[e])
  <2>1. Cardinality(ActiveOf(e))' = counts'[e] /\ counts'[e] \in Nat /\ churn'[e] = 0
    BY <1>1, <1>2
  <2> QED
    BY <2>1 DEF Differ
<1> QED
  BY <1>3, <1>4, <1>5 DEF FiguresFollow

LEMMA StatusFollows ==
  ASSUME IsFiniteSet(Keys), IsFiniteSet(Labels), StatsTypeOK, StatsTypeOK',
         FiguresFollow, NEW e \in Entities, StatusOf(e)
  PROVE  FiguresFollow'
<1>1. /\ \A f \in Entities : ActiveOf(f)' = ActiveOf(f)
      /\ UNCHANGED <<stats, left, counts, byRegion, churn>>
  BY StatsStepFrame DEF Stats, StatusOf
<1>2. \A f \in Entities \ {e} : StatusSum(f)' = StatusSum(f)
  <2>1. \A f \in Entities \ {e} : byStatus'[f] = byStatus[f]
    BY DEF StatusOf, StatsTypeOK
  <2> QED
    BY <2>1, FiguresAreSums
<1>3. \A c \in Columns : RegionSum(c)' = RegionSum(c)
  BY <1>1, FiguresAreSums
<1>4. StatusSum(e)' = Cardinality(ActiveOf(e))
  <2>1. byStatus'[e] = GroupCount(e, StatusCol)
    BY DEF StatusOf, StatsTypeOK
  <2> QED
    BY <2>1, FiguresAreSums, GroupsAddUp DEF StatsTypeOK
<1>5. TotalsAdd'
  BY <1>1 DEF FiguresFollow, TotalsAdd, RegionSum, MapThenSumSet, MapThenFoldSet
<1>6. ASSUME NEW f \in Entities
      PROVE  /\ stats' \in {"groups", "recent", "done"} =>
                  Differ(Cardinality(ActiveOf(f))', counts'[f], churn'[f])
             /\ stats' = "groups" /\ table' = f =>
                  Differ(Cardinality(ActiveOf(f))', StatusSum(f)', churn'[f])
             /\ HasStatus(f)' => Differ(StatusSum(f)', counts'[f], churn'[f])
             /\ HasRegion(f)' => /\ Differ(RegionSum(f)', counts'[f], churn'[f])
                                 /\ Differ(RegionSum(f)', StatusSum(f)', churn'[f])
  <2>1. stats = "groups" /\ table' = e /\ e \in left
    BY DEF StatusOf
  <2>2. Differ(Cardinality(ActiveOf(f)), counts[f], churn[f])
    BY <2>1 DEF FiguresFollow
  <2>3. Cardinality(ActiveOf(f)) \in Nat /\ churn[f] \in Nat /\ f \in Columns
    BY GroupCountType DEF StatsTypeOK, Columns
  <2>4. CASE f = e
    <3>1. ~ HasRegion(f)'
      BY <1>1, <2>1, <2>4 DEF HasRegion
    <3>2. Differ(Cardinality(ActiveOf(f)), StatusSum(f)', churn[f])
      BY <1>4, <2>3, <2>4 DEF Differ
    <3>3. Differ(StatusSum(f)', counts[f], churn[f])
      BY <1>4, <2>2, <2>4
    <3> QED
      BY <1>1, <2>2, <3>1, <3>2, <3>3
  <2>5. CASE f # e
    <3>1. HasRegion(f)' = HasRegion(f) /\ (HasStatus(f)' => HasStatus(f)) /\ table' # f
      BY <1>1, <2>1, <2>5 DEF HasRegion, HasStatus
    <3>2. StatusSum(f)' = StatusSum(f) /\ RegionSum(f)' = RegionSum(f)
      BY <1>2, <1>3, <2>3, <2>5
    <3> QED
      BY <1>1, <2>2, <3>1, <3>2 DEF FiguresFollow
  <2> QED
    BY <2>4, <2>5
<1> QED
  BY <1>5, <1>6 DEF FiguresFollow

(* The totals, as a sum of a function.                                     *)
LEMMA TotalsAreSums ==
  ASSUME NEW f, f = [e \in Entities |-> RegionSum(e)],
         NEW g, g = [e \in Entities |-> RegionSum(e)']
  PROVE  /\ TotalsAdd <=> RegionSum("total") = SumOf(f, Entities)
         /\ TotalsAdd' <=> RegionSum("total")' = SumOf(g, Entities)
<1>1. TotalsAdd <=> RegionSum("total") = SumOf(f, Entities)
  BY DEF TotalsAdd, SumOf, MapThenSumSet, MapThenFoldSet
<1>2. TotalsAdd' <=> RegionSum("total")' = SumOf(g, Entities)
  BY DEF TotalsAdd, SumOf, MapThenSumSet, MapThenFoldSet
<1> QED
  BY <1>1, <1>2

LEMMA RegionFollows ==
  ASSUME IsFiniteSet(Keys), IsFiniteSet(Labels), IsFiniteSet(Entities),
         StatsTypeOK, StatsTypeOK', RequestIsOrdered, FiguresFollow, RegionOf
  PROVE  FiguresFollow'
<1>0. PICK t \in Entities : t = table
  BY DEF RegionOf, StatsTypeOK
<1> DEFINE n == GroupCount(t, RegionCol)
<1>1. /\ \A e \in Entities : ActiveOf(e)' = ActiveOf(e)
      /\ UNCHANGED <<stats, counts, byStatus, churn>>
      /\ stats = "groups" /\ left' = left \ {t} /\ table' = None
  BY <1>0, StatsStepFrame DEF Stats, RegionOf
<1>2. /\ t \in Entities /\ t \in left
      /\ \A e \in Entities : e \in Columns /\ e # "total" /\ e # None
      /\ "total" \in Columns
  BY <1>0, DashboardAssumption DEF RegionOf, RequestIsOrdered, StatsTypeOK, Columns
<1>3. /\ n \in [Labels -> Nat]
      /\ SumOf(n, Labels) = Cardinality(ActiveOf(t))
      /\ Cardinality(ActiveOf(t)) \in Nat
  BY <1>2, GroupCountType, GroupsAddUp DEF StatsTypeOK
<1>4. \A x \in Labels :
        /\ \A e \in Entities \ {t} : byRegion'[x][e] = byRegion[x][e]
        /\ byRegion[x][t] = 0
        /\ byRegion'[x][t] = n[x]
        /\ byRegion'[x]["total"] = byRegion[x]["total"] + n[x]
  <2> SUFFICES ASSUME NEW x \in Labels
               PROVE  /\ \A e \in Entities \ {t} : byRegion'[x][e] = byRegion[x][e]
                      /\ byRegion[x][t] = 0
                      /\ byRegion'[x][t] = n[x]
                      /\ byRegion'[x]["total"] = byRegion[x]["total"] + n[x]
    OBVIOUS
  <2>1. byRegion[x] \in [Columns -> Nat] /\ n[x] \in Nat
    BY <1>3 DEF StatsTypeOK
  <2>2. byRegion'[x] = [byRegion[x] EXCEPT ![t] = @ + n[x], !["total"] = @ + n[x]]
    BY <1>0 DEF RegionOf
  <2>3. byRegion[x][t] = 0
    BY <1>1, <1>2 DEF RequestIsOrdered
  <2> HIDE DEF n
  <2>4. t \in Columns /\ "total" \in Columns /\ t # "total"
    BY <1>2
  <2> QED
    BY <1>2, <2>1, <2>2, <2>3, <2>4
<1> HIDE DEF n
<1>5. \A e \in Entities \ {t} : RegionSum(e)' = RegionSum(e)
  <2>1. ASSUME NEW e \in Entities \ {t} PROVE Column(byRegion', e) = Column(byRegion, e)
    BY <1>4 DEF Column
  <2> QED
    BY <1>2, <2>1, FiguresAreSums
<1>6. RegionSum(t) = 0
  <2>1. \A x \in Labels : Column(byRegion, t)[x] = 0
    BY <1>4 DEF Column
  <2>2. SumOf(Column(byRegion, t), Labels) = 0
    BY <2>1, SumZero
  <2> QED
    BY <1>2, <2>2, FiguresAreSums
<1>7. RegionSum(t)' = Cardinality(ActiveOf(t))
  <2>1. \A x \in Labels : Column(byRegion', t)[x] = n[x] /\ n[x] \in Nat
    BY <1>3, <1>4 DEF Column
  <2>2. SumOf(n, Labels) = SumOf(Column(byRegion', t), Labels)
    BY <2>1, SumSame
  <2> QED
    BY <1>2, <1>3, <2>2, FiguresAreSums
<1>8. RegionSum("total")' = RegionSum("total") + Cardinality(ActiveOf(t))
  <2>1. \A x \in Labels :
          /\ Column(byRegion, "total")[x] \in Nat /\ n[x] \in Nat
          /\ Column(byRegion', "total")[x] = Column(byRegion, "total")[x] + n[x]
    BY <1>2, <1>3, <1>4 DEF Column, StatsTypeOK
  <2>2. SumOf(Column(byRegion', "total"), Labels)
          = SumOf(Column(byRegion, "total"), Labels) + SumOf(n, Labels)
    BY <2>1, SumPlus
  <2> QED
    BY <1>2, <1>3, <2>2, FiguresAreSums
<1>9. TotalsAdd'
  <2> DEFINE f == [e \in Entities |-> RegionSum(e)]
             g == [e \in Entities |-> RegionSum(e)']
  <2>1. \A e \in Entities : RegionSum(e) \in Nat /\ RegionSum(e)' \in Nat
    BY <1>2, FiguresAreSums
  <2>2. /\ f[t] = 0 /\ g[t] = Cardinality(ActiveOf(t))
        /\ \A e \in Entities : f[e] \in Nat /\ g[e] \in Nat /\ (e # t => g[e] = f[e])
    BY <1>2, <1>5, <1>6, <1>7, <2>1
  <2>3. RegionSum("total") = SumOf(f, Entities)
    BY TotalsAreSums DEF FiguresFollow
  <2>4. TotalsAdd' <=> RegionSum("total")' = SumOf(g, Entities)
    BY TotalsAreSums
  <2> HIDE DEF f, g
  <2>5. SumOf(g, Entities) = SumOf(f, Entities) - f[t] + g[t]
    BY <1>2, <2>2, SumMove
  <2>6. SumOf(f, Entities) \in Nat
    BY <2>2, SumType
  <2>7. RegionSum("total")' = SumOf(g, Entities)
    BY <1>3, <1>8, <2>2, <2>3, <2>5, <2>6
  <2> QED
    BY <2>4, <2>7
<1>10. ASSUME NEW e \in Entities
       PROVE  /\ Differ(Cardinality(ActiveOf(e)), counts[e], churn[e])
              /\ HasStatus(e)' => Differ(StatusSum(e), counts[e], churn[e])
              /\ HasRegion(e)' => /\ Differ(RegionSum(e)', counts[e], churn[e])
                                  /\ Differ(RegionSum(e)', StatusSum(e), churn[e])
  <2>1. Differ(Cardinality(ActiveOf(e)), counts[e], churn[e])
    BY <1>1 DEF FiguresFollow
  <2>2. CASE e = t
    <3>1. /\ Differ(Cardinality(ActiveOf(e)), StatusSum(e), churn[e])
          /\ Differ(StatusSum(e), counts[e], churn[e])
      BY <1>0, <1>1, <2>2 DEF FiguresFollow, HasStatus
    <3> QED
      BY <1>7, <2>1, <2>2, <3>1
  <2>3. CASE e # t
    <3>1. (HasStatus(e)' => HasStatus(e)) /\ (HasRegion(e)' => HasRegion(e))
      BY <1>1, <1>2, <2>3 DEF HasStatus, HasRegion
    <3>2. RegionSum(e)' = RegionSum(e)
      BY <1>5, <2>3
    <3> QED
      BY <2>1, <3>1, <3>2 DEF FiguresFollow
  <2> QED
    BY <2>2, <2>3
<1>11. \A e \in Entities : table' # e /\ StatusSum(e)' = StatusSum(e)
  BY <1>1, <1>2, FiguresAreSums
<1> QED
  BY <1>1, <1>9, <1>10, <1>11 DEF FiguresFollow

LEMMA ToRecentFollows ==
  ASSUME IsFiniteSet(Labels), StatsTypeOK, StatsTypeOK', RequestIsOrdered, FiguresFollow,
         ToRecent \/ StatsFail \/ (\E e \in Entities : RecentOf(e)) \/ UNCHANGED dashVars
  PROVE  FiguresFollow'
<1>1. /\ UNCHANGED <<counts, byStatus, byRegion, churn, table>>
      /\ \A e \in Entities : ActiveOf(e)' = ActiveOf(e)
  BY StatsStepFrame DEF Stats, ToRecent, StatsFail, RecentOf, dashVars, statsVars
<1>2. ASSUME NEW e \in Entities
      PROVE  /\ stats' \in {"groups", "recent", "done"} => stats \in {"groups", "recent", "done"}
             /\ stats' = "groups" /\ table' = e => stats = "groups" /\ table = e
             /\ HasStatus(e)' => HasStatus(e)
             /\ HasRegion(e)' => HasRegion(e)
  BY <1>1 DEF ToRecent, StatsFail, RecentOf, HasStatus, HasRegion, dashVars, statsVars
<1> QED
  BY <1>1, <1>2, SameFiguresFollow

(* Every step keeps the invariant.                                         *)
LEMMA DashStep ==
  ASSUME IsFiniteSet(Keys), IsFiniteSet(Labels), IsFiniteSet(Entities),
         DashIInv, [DashNext]_dashVars
  PROVE  DashIInv'
<1>1. IInv' /\ StatsTypeOK'
  BY TypesStep DEF DashIInv
<1>2. RequestIsOrdered'
  BY OrderStep DEF DashIInv
<1>3. FiguresFollow'
  BY <1>1, WriteFollows, CountsFollow, StatusFollows, RegionFollows, ToRecentFollows
     DEF DashIInv, DashNext, Stats
<1> QED
  BY <1>1, <1>2, <1>3 DEF DashIInv

(* And a request starts in it.                                             *)
LEMMA DashStart ==
  ASSUME IsFiniteSet(Keys), IsFiniteSet(Labels), IsFiniteSet(Entities), DashInit
  PROVE  DashIInv
<1>1. TypeOK
  BY CatalogAssumption, DashboardAssumption DEF DashInit, TypeOK, Exists
<1>2. RequestsAreSound /\ OneDeleteSucceeds /\ NotFoundMeansGone
  BY DEF DashInit, RequestsAreSound, OneDeleteSucceeds, NotFoundMeansGone
<1>3. StatsTypeOK
  <2>1. {} \in {s \in SUBSET Keys : Cardinality(s) <= RecentRows}
    BY DashboardAssumption, FS_EmptySet
  <2> QED
    BY <1>1, <2>1 DEF DashInit, StatsTypeOK
<1>4. RequestIsOrdered
  BY DEF DashInit, RequestIsOrdered, Columns
<1>5. TotalsAdd
  <2> DEFINE f == [e \in Entities |-> RegionSum(e)]
  <2>1. \A c \in Columns : RegionSum(c) = 0
    <3>1. ASSUME NEW c \in Columns PROVE \A x \in Labels : byRegion[x][c] = 0
      BY DEF DashInit
    <3>2. ASSUME NEW c \in Columns
          PROVE  RegionSum(c) = SumOf([x \in Labels |-> byRegion[x][c]], Labels)
      <4>1. \A x \in Labels : byRegion[x][c] \in Nat
        BY <3>1
      <4> QED
        BY <4>1, SumOfColumn DEF RegionSum
    <3>3. ASSUME NEW c \in Columns
          PROVE  SumOf([x \in Labels |-> byRegion[x][c]], Labels) = 0
      BY <3>1, SumZero
    <3> QED
      BY <3>2, <3>3
  <2>2. \A e \in Entities : f[e] = 0
    BY <2>1 DEF Columns
  <2>3. TotalsAdd <=> RegionSum("total") = SumOf(f, Entities)
    BY TotalsAreSums
  <2> HIDE DEF f
  <2>4. SumOf(f, Entities) = 0
    BY <2>2, SumZero
  <2> QED
    BY <2>1, <2>3, <2>4 DEF Columns
<1>6. FiguresFollow
  BY <1>5, DashboardAssumption DEF DashInit, FiguresFollow, HasStatus, HasRegion
<1> QED
  BY <1>1, <1>2, <1>3, <1>4, <1>6 DEF DashIInv, IInv

(* Finitely many values are finitely many labels.                          *)
LEMMA LabelsAreFinite == IsFiniteSet(Values) => IsFiniteSet(Labels)
<1> SUFFICES ASSUME IsFiniteSet(Values) PROVE IsFiniteSet(Labels)
  OBVIOUS
<1>1. IsFiniteSet(Values \ {Blank})
  BY FS_RemoveElement
<1> QED
  BY <1>1, FS_AddElement DEF Labels

-----------------------------------------------------------------------------
(* The invariant holds throughout a request.                               *)
THEOREM DashInductive ==
  ASSUME IsFiniteSet(Keys), IsFiniteSet(Values), IsFiniteSet(Entities)
  PROVE  DashSpec => []DashIInv
<1>1. DashInit => DashIInv
  BY LabelsAreFinite, DashStart
<1>2. DashIInv /\ [DashNext]_dashVars => DashIInv'
  BY LabelsAreFinite, DashStep
<1> QED
  BY <1>1, <1>2, PTL DEF DashSpec

(* The dashboard's figures for one table disagree by no more than the rows *)
(* inserted or deleted while it was composed, and the totals of all tables *)
(* by no more than those of all tables together: the statements of GET     *)
(* /stats share no snapshot, so this is all they promise                   *)
(* (stats.go:51-83, repository/stats.go:36-58).                            *)
THEOREM DashboardDriftIsBounded ==
  ASSUME IsFiniteSet(Keys), IsFiniteSet(Values), IsFiniteSet(Entities)
  PROVE  DashSpec => []DriftIsBounded
<1>1. DashIInv => DriftIsBounded
  <2> SUFFICES ASSUME DashIInv PROVE DriftIsBounded
    OBVIOUS
  <2> USE DEF DashIInv
  <2>1. \A e \in Entities :
          /\ HasStatus(e) => Differ(StatusSum(e), counts[e], churn[e])
          /\ HasRegion(e) => /\ Differ(RegionSum(e), counts[e], churn[e])
                             /\ Differ(RegionSum(e), StatusSum(e), churn[e])
    BY DEF FiguresFollow
  <2>2. ASSUME \A e \in Entities : HasRegion(e)
        PROVE  Differ(RegionSum("total"), SumOf(counts, Entities), SumOf(churn, Entities))
    <3> DEFINE f == [e \in Entities |-> RegionSum(e)]
    <3>1. \A e \in Entities : RegionSum(e) \in Nat
      <4>1. ASSUME NEW e \in Entities PROVE RegionSum(e) \in Nat
        <5>1. byRegion \in [Labels -> [Columns -> Nat]] /\ e \in Columns /\ IsFiniteSet(Labels)
          BY LabelsAreFinite DEF StatsTypeOK, Columns
        <5> QED
          BY <5>1, ColumnSum DEF RegionSum
      <4> QED
        BY <4>1
    <3>2. \A e \in Entities :
            /\ f[e] \in Nat /\ counts[e] \in Nat /\ churn[e] \in Nat
            /\ f[e] - counts[e] <= churn[e] /\ counts[e] - f[e] <= churn[e]
      BY <2>1, <2>2, <3>1 DEF Differ, StatsTypeOK
    <3>3. RegionSum("total") = SumOf(f, Entities)
      BY TotalsAreSums DEF FiguresFollow
    <3> HIDE DEF f
    <3> QED
      BY <3>2, <3>3, SumApart DEF Differ
  <2>3. /\ MapThenSumSet(LAMBDA e : counts[e], Entities) = SumOf(counts, Entities)
        /\ MapThenSumSet(LAMBDA e : churn[e], Entities) = SumOf(churn, Entities)
    BY DEF SumOf
  <2> QED
    BY <2>1, <2>2, <2>3 DEF DriftIsBounded
<1> QED
  BY <1>1, DashInductive, PTL

(* Type correctness: the recent lists never exceed their limit, and the    *)
(* sums of the heatmap are counts, for any finite catalog.                 *)
THEOREM StatsTypeCorrect ==
  ASSUME IsFiniteSet(Keys), IsFiniteSet(Values), IsFiniteSet(Entities)
  PROVE  DashSpec => []StatsTypeOK
<1>1. DashIInv => StatsTypeOK
  BY DEF DashIInv
<1> QED
  BY <1>1, DashInductive, PTL

(* No active row falls out of a breakdown, whatever updates left in its    *)
(* columns: labels are defined for blanks, and there are no NULLs          *)
(* (repository/stats.go:40, 001_init.sql).                                 *)
THEOREM EveryRowIsLabelled ==
  ASSUME IsFiniteSet(Keys), IsFiniteSet(Values), IsFiniteSet(Entities)
  PROVE  DashSpec => [](\A e \in Entities : \A k \in ActiveOf(e) :
                          /\ Label(rows[k].body[StatusCol]) \in Labels
                          /\ Label(rows[k].body[RegionCol]) \in Labels)
<1>1. DashIInv => \A e \in Entities : \A k \in ActiveOf(e) :
                    /\ Label(rows[k].body[StatusCol]) \in Labels
                    /\ Label(rows[k].body[RegionCol]) \in Labels
  BY RowIsLabelled DEF DashIInv, StatsTypeOK
<1> QED
  BY <1>1, DashInductive, PTL
=============================================================================
