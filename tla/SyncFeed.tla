----------------------------- MODULE SyncFeed ------------------------------
(***************************************************************************)
(* GET /sync over the catalog.  A consumer pages through the rows by       *)
(* updated_at, passing the cursor of each page as `since` of the next, and *)
(* keeps a replica of what it was given.  One page is one statement.       *)
(***************************************************************************)
EXTENDS Catalog

CONSTANT PageSize  \* rows per page: `limit`, 500 by default

ASSUME PageAssumption == PageSize \in Nat \ {0}

VARIABLES
  cursor,  \* the consumer's `since`: updated_at of the last row of a page
  replica  \* replica[k]: the row as the consumer was last given it

syncVars == <<vars, cursor, replica>>

SyncTypeOK ==
  /\ TypeOK
  /\ cursor \in Nat
  /\ replica \in [Keys -> Row]

SyncInit ==
  /\ Init
  /\ cursor = 0
  /\ replica = [k \in Keys |-> Absent]

(* Mutant: `updated_at >= $1`, so as not to lose ties.                     *)
PendingInclusive == {k \in Keys : rows[k].at >= cursor}

(* Rows the statement selects; soft-deleted rows are not filtered out.     *)
Pending == {k \in Keys : rows[k].at > cursor}

(* Mutant: no ORDER BY.                                                    *)
PagesUnordered ==
  {page \in SUBSET Pending :
     /\ Cardinality(page) <= PageSize
     /\ page # Pending => Cardinality(page) = PageSize}

(* Mutant: ORDER BY updated_at DESC.                                       *)
PagesNewestFirst ==
  {page \in SUBSET Pending :
     /\ \A k \in page, l \in Pending \ page : rows[k].at >= rows[l].at
     /\ Cardinality(page) <= PageSize
     /\ page # Pending => Cardinality(page) = PageSize}

(* The pages ORDER BY updated_at LIMIT may return: rows of equal           *)
(* updated_at come in any order, and a page may end between two of them.   *)
Pages ==
  {page \in SUBSET Pending :
     /\ \A k \in page, l \in Pending \ page : rows[k].at <= rows[l].at
     /\ Cardinality(page) <= PageSize
     /\ page # Pending => Cardinality(page) = PageSize}

(* Mutant: the cursor is the time of the request.                          *)
CursorIsClock(last) == clock

(* Mutant: the cursor is set back to overlap the next page, without clamp. *)
CursorSetBack(last) == rows[last].at - 2

(* The cursor handed out with a page: updated_at of its last row.          *)
CursorAfter(last) == rows[last].at

(* A page whose reply is lost changes nothing the consumer knows.          *)
SyncSince ==
  /\ \E page \in Pages, last \in Pending :
       /\ last \in page /\ \A k \in page : rows[k].at <= rows[last].at
       /\ cursor' = CursorAfter(last)
       /\ replica' = [k \in Keys |-> IF k \in page THEN rows[k] ELSE replica[k]]
  /\ UNCHANGED vars

SyncNext == (Next /\ UNCHANGED <<cursor, replica>>) \/ SyncSince

SyncSpec == SyncInit /\ [][SyncNext]_syncVars

(* A consumer keeps polling.                                               *)
FairSyncSpec == SyncSpec /\ WF_syncVars(SyncSince)

-----------------------------------------------------------------------------
(* The strengthening of the properties below: the catalog's invariant, and *)
(* nothing the consumer holds is later than its cursor.                    *)
SyncIInv ==
  /\ IInv
  /\ SyncTypeOK
  /\ \A k \in Keys : replica[k].at <= cursor

(* However pages, writers and their transactions interleave, the consumer  *)
(* is never handed a version of a row older than, or the same as, the one  *)
(* it holds, although a late commit can set updated_at back                *)
(* (repository.go:159, sync.go:49).                                        *)
ReplicaNeverGoesBack ==
  [][\A k \in Keys :
       replica'[k] # replica[k] => replica'[k].at > replica[k].at]_syncVars

(* The consumer is past the row's updated_at and yet holds an older copy.  *)
Missed(k) == rows[k].at <= cursor /\ replica[k] # rows[k]

(* sync.go:27: everything up to the cursor has been returned.              *)
SyncIsComplete == \A k \in Keys : ~Missed(k)

(* Writers that take turns, deletes among them: one statement at a time,   *)
(* each in a microsecond of its own.                                       *)
SerialWriters == Conns = 1 /\ MinStep = 1

(* The consumer's copy is the row, but for a soft delete it may not know.  *)
SameButForDeletion(k) ==
  /\ replica[k].at = rows[k].at
  /\ replica[k].body = rows[k].body
  /\ replica[k].gone => rows[k].gone

(* A soft delete does not touch updated_at (write.go:49), and that a row   *)
(* was deleted is all the feed ever loses of what its cursor has passed,   *)
(* if writers take turns: updated_at and every column have been delivered, *)
(* deletes and writes to deleted rows among them (repository.go:79, 159).  *)
OnlyDeletionsAreLost ==
  \A k \in Keys : rows[k].at <= cursor => SameButForDeletion(k)

(* The strengthening of it: a statement in flight is alone and later than  *)
(* every row and than the cursor, and no two rows have the same            *)
(* updated_at.                                                             *)
SerialIInv ==
  /\ SyncTypeOK
  /\ call \in [Requests -> Calls]
  /\ \A r, s \in InFlight : r = s
  /\ \A r \in InFlight : now[r] = clock /\ cursor < clock /\ \A k \in Keys : rows[k].at < clock
  /\ cursor <= clock
  /\ \A k \in Keys : rows[k].at <= clock
  /\ \A k, l \in Keys : Exists(k) /\ rows[k].at = rows[l].at => k = l
  /\ OnlyDeletionsAreLost

(* A write that started no later than the cursor's row and commits now.    *)
CommitsLate(k) ==
  \E r \in InFlight : call[r].key = k /\ now[r] <= cursor /\ stage'[r] # "begun"

(* A page that ends between rows of equal updated_at and leaves k behind.  *)
CutByPage(k) == cursor' > cursor /\ rows[k].at = cursor' /\ replica'[k] = replica[k]

(* A soft delete of a row the consumer already has.                        *)
DeletedSilently(k) == ~rows[k].gone /\ rows'[k].gone /\ rows'[k].at = rows[k].at

(* Whatever writers, transactions and pages interleave, these three are    *)
(* the only ways in which a row the consumer is up to date with, or still  *)
(* ahead of it, becomes one it has missed (repository.go:148-177).         *)
LossesAreExplained ==
  [][\A k \in Keys : ~Missed(k) /\ Missed(k)' =>
       CommitsLate(k) \/ CutByPage(k) \/ DeletedSilently(k)]_syncVars

(* A consumer that keeps polling gets past every row: ties never pin the   *)
(* cursor, however small the page (`updated_at > $1`).                     *)
CursorPassesEveryRow == <>[](\A k \in Keys : rows[k].at <= cursor)

(* When the writers stop, the replica becomes the catalog, but for         *)
(* deletions the feed never announced.                                     *)
ReplicaConverges == <>[](\A k \in Keys : SameButForDeletion(k))
=============================================================================
