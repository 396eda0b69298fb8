----------------------------- MODULE Dashboard ------------------------------
(***************************************************************************)
(* GET /stats beside the catalog's writers.  One request reads the counts, *)
(* then for each table a breakdown by status and one by region, then the   *)
(* newest rows: statements of their own, without a common snapshot.  The   *)
(* two figures about events touch a table no request changes a row of and  *)
(* are left out.                                                           *)
(***************************************************************************)
EXTENDS Catalog, FiniteSetsExt

CONSTANTS
  Entities,   \* the four tables
  EntityOf,   \* EntityOf[k]: the table of row k
  StatusCol,  \* status
  RegionCol,  \* region, or last_seen_region
  Blank,      \* the empty string
  Unknown,    \* 'unknown'
  RecentRows, \* newest rows shown of each table, 5
  Tables,     \* contents of the tables a request may find
  Start,      \* the clock at that time
  None        \* no table

ASSUME DashboardAssumption ==
  /\ EntityOf \in [Keys -> Entities]
  /\ {StatusCol, RegionCol} \subseteq Fields \ Optional
  /\ RecentRows \in Nat \ {0}
  /\ Start \in Nat \ {0}
  /\ None \notin Entities /\ "total" \notin Entities
  /\ \A t \in Tables :
       /\ t \in [Keys -> Row]
       /\ \A k \in Keys : t[k].at > 0 => t[k].body \in FullBodies

VARIABLES
  stats,     \* how far the request is
  left,      \* tables it still has to visit
  table,     \* the table whose breakdown by status is read and by region is not
  counts,    \* counts[e]
  byStatus,  \* byStatus[e][label]
  byRegion,  \* byRegion[label][e], and [label]["total"]
  recent,    \* recent[e]: the newest rows
  churn      \* history: rows of e that came or went since the counts

statsVars == <<stats, left, table, counts, byStatus, byRegion, recent, churn>>
dashVars == <<vars, statsVars>>

Labels == (Values \ {Blank}) \cup {Unknown}
Columns == Entities \cup {"total"}

StatsTypeOK ==
  /\ TypeOK
  /\ stats \in {"counts", "groups", "recent", "done", "failed"}
  /\ left \subseteq Entities
  /\ table \in Entities \cup {None}
  /\ counts \in [Entities -> Nat]
  /\ byStatus \in [Entities -> [Labels -> Nat]]
  /\ byRegion \in [Labels -> [Columns -> Nat]]
  /\ recent \in [Entities -> {s \in SUBSET Keys : Cardinality(s) <= RecentRows}]
  /\ churn \in [Entities -> Nat]

DashInit ==
  /\ clock = Start
  /\ rows \in Tables
  /\ call \in [Requests -> Calls]
  /\ stage = [r \in Requests |-> "new"]
  /\ now = [r \in Requests |-> 0]
  /\ answer = [r \in Requests |-> "none"]
  /\ stats = "counts"
  /\ left = Entities
  /\ table = None
  /\ counts = [e \in Entities |-> 0]
  /\ byStatus = [e \in Entities |-> [x \in Labels |-> 0]]
  /\ byRegion = [x \in Labels |-> [c \in Columns |-> 0]]
  /\ recent = [e \in Entities |-> {}]
  /\ churn = [e \in Entities |-> 0]

-----------------------------------------------------------------------------
ActiveOf(e) == {k \in Keys : EntityOf[k] = e /\ Active(k)}

(* StatsCounts: one statement for all tables.                              *)
Counts ==
  /\ stats = "counts"
  /\ counts' = [e \in Entities |-> Cardinality(ActiveOf(e))]
  /\ stats' = "groups"
  /\ UNCHANGED <<vars, left, table, byStatus, byRegion, recent, churn>>

(* COALESCE(NULLIF(column, ''), 'unknown').                                *)
Label(v) == IF v = Blank THEN Unknown ELSE v

(* Mutant: no `WHERE deleted_at IS NULL`.                                  *)
GroupCountAll(e, col) ==
  [x \in Labels |-> Cardinality({k \in Keys : /\ EntityOf[k] = e /\ Exists(k)
                                              /\ Label(rows[k].body[col]) = x})]

(* Rows of a table by a column.                                            *)
GroupCount(e, col) ==
  [x \in Labels |-> Cardinality({k \in ActiveOf(e) : Label(rows[k].body[col]) = x})]

(* The loop visits the tables in an order of its own at every request.     *)
StatusOf(e) ==
  /\ stats = "groups" /\ table = None /\ e \in left
  /\ byStatus' = [byStatus EXCEPT ![e] = GroupCount(e, StatusCol)]
  /\ table' = e
  /\ UNCHANGED <<vars, stats, left, counts, byRegion, recent, churn>>

(* Mutant: the entity is added to its region, the total is set.            *)
RegionOfLast ==
  /\ stats = "groups" /\ table # None
  /\ LET n == GroupCount(table, RegionCol) IN
       byRegion' = [x \in Labels |->
         [byRegion[x] EXCEPT ![table] = @ + n[x], !["total"] = n[x]]]
  /\ left' = left \ {table}
  /\ table' = None
  /\ UNCHANGED <<vars, stats, counts, byStatus, recent, churn>>

(* The counts of the table are added to their regions and to the totals.   *)
RegionOf ==
  /\ stats = "groups" /\ table # None
  /\ LET n == GroupCount(table, RegionCol) IN
       byRegion' = [x \in Labels |->
         [byRegion[x] EXCEPT ![table] = @ + n[x], !["total"] = @ + n[x]]]
  /\ left' = left \ {table}
  /\ table' = None
  /\ UNCHANGED <<vars, stats, counts, byStatus, recent, churn>>

ToRecent ==
  /\ stats = "groups" /\ left = {}
  /\ stats' = "recent" /\ left' = Entities
  /\ UNCHANGED <<vars, table, counts, byStatus, byRegion, recent, churn>>

(* Mutant: the limit is not passed on and the default applies.             *)
NewestDefault(e) == {ActiveOf(e)}

(* List*(Limit: 5): ORDER BY updated_at DESC, ties in any order.           *)
Newest(e) ==
  {t \in SUBSET ActiveOf(e) :
     /\ \A k \in t, j \in ActiveOf(e) \ t : rows[k].at >= rows[j].at
     /\ Cardinality(t) <= RecentRows
     /\ t # ActiveOf(e) => Cardinality(t) = RecentRows}

RecentOf(e) ==
  /\ stats = "recent" /\ e \in left
  /\ \E t \in Newest(e) : recent' = [recent EXCEPT ![e] = t]
  /\ left' = left \ {e}
  /\ stats' = IF left' = {} THEN "done" ELSE stats
  /\ UNCHANGED <<vars, table, counts, byStatus, byRegion, churn>>

(* Any statement that fails is a 500 for the whole.                        *)
StatsFail ==
  /\ stats \in {"counts", "groups", "recent"}
  /\ stats' = "failed"
  /\ UNCHANGED <<vars, left, table, counts, byStatus, byRegion, recent, churn>>

Stats ==
  \/ Counts \/ RegionOf \/ ToRecent \/ StatsFail
  \/ \E e \in Entities : StatusOf(e) \/ RecentOf(e)

(* A writer's step, and how many rows of each table came or went by it.    *)
Write ==
  /\ Next
  /\ churn' = [e \in Entities |->
       IF stats = "counts" THEN 0
       ELSE churn[e] + Cardinality({k \in Keys : EntityOf[k] = e /\ Active(k)' # Active(k)})]
  /\ UNCHANGED <<stats, left, table, counts, byStatus, byRegion, recent>>

DashNext == Write \/ Stats

DashSpec == DashInit /\ [][DashNext]_dashVars

-----------------------------------------------------------------------------
StatusSum(e) == MapThenSumSet(LAMBDA x : byStatus[e][x], Labels)
RegionSum(c) == MapThenSumSet(LAMBDA x : byRegion[x][c], Labels)

HasRegion(e) == (stats = "groups" /\ e \notin left) \/ stats \in {"recent", "done"}
HasStatus(e) == HasRegion(e) \/ (stats = "groups" /\ table = e)

Differ(m, n, by) == m - n <= by /\ n - m <= by

(* The dashboard's figures for one table disagree by no more than the rows *)
(* that were inserted or deleted while it was composed, and so do the      *)
(* totals of the regions and all counts: updates, moves between regions    *)
(* and blank labels included, every row is in one group of each breakdown  *)
(* (stats.go:51-83, repository/stats.go:36-58).                            *)
DriftIsBounded ==
  /\ \A e \in Entities :
       /\ HasStatus(e) => Differ(StatusSum(e), counts[e], churn[e])
       /\ HasRegion(e) => /\ Differ(RegionSum(e), counts[e], churn[e])
                          /\ Differ(RegionSum(e), StatusSum(e), churn[e])
  /\ (\A e \in Entities : HasRegion(e)) =>
       Differ(RegionSum("total"),
              MapThenSumSet(LAMBDA e : counts[e], Entities),
              MapThenSumSet(LAMBDA e : churn[e], Entities))

(* The order of a request's statements, in every state.                    *)
RequestIsOrdered ==
  /\ stats = "counts" =>
       /\ left = Entities /\ table = None
       /\ \A e \in Entities : churn[e] = 0 /\ \A x \in Labels : byRegion[x][e] = 0
  /\ table # None /\ stats # "failed" => stats = "groups" /\ table \in left
  /\ stats = "groups" => \A e \in left : \A x \in Labels : byRegion[x][e] = 0

(* Every count of a region went into its total.                            *)
TotalsAdd ==
  LET ofTable == [e \in Entities |-> RegionSum(e)] IN
    RegionSum("total") = MapThenSumSet(LAMBDA e : ofTable[e], Entities)

(* How far what was read may be from what is there now: what the drift of  *)
(* the figures rests on.                                                   *)
FiguresFollow ==
  /\ \A e \in Entities :
       /\ stats \in {"groups", "recent", "done"} =>
            Differ(Cardinality(ActiveOf(e)), counts[e], churn[e])
       /\ stats = "groups" /\ table = e =>
            Differ(Cardinality(ActiveOf(e)), StatusSum(e), churn[e])
       /\ HasStatus(e) => Differ(StatusSum(e), counts[e], churn[e])
       /\ HasRegion(e) => /\ Differ(RegionSum(e), counts[e], churn[e])
                          /\ Differ(RegionSum(e), StatusSum(e), churn[e])
  /\ TotalsAdd

(* What every step keeps.                                                  *)
DashIInv == IInv /\ StatsTypeOK /\ RequestIsOrdered /\ FiguresFollow
=============================================================================
