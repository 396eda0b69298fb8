------------------------------ MODULE ListWalk ------------------------------
(***************************************************************************)
(* A client reads a filtered list of one entity page by page while the     *)
(* catalog's writers go on.  A request is two statements of their own, the *)
(* count and the page; pages are cut by OFFSET out of an order that every  *)
(* write changes (updated_at DESC).                                        *)
(***************************************************************************)
EXTENDS Catalog

CONSTANTS
  Filters,  \* conditions a list may have: each the set of bodies it lets pass
  Limit,    \* rows per page, 20 by default; a limit outside 1..100 is a 422
  Tables,   \* contents of the table a walk may start from
  Start     \* the clock at that time

ASSUME ListAssumption ==
  /\ IsFiniteSet(Keys)
  /\ Filters \subseteq SUBSET Bodies
  /\ Limit \in Nat \ {0}
  /\ Start \in Nat \ {0}
  /\ \A t \in Tables :
       /\ t \in [Keys -> Row]
       /\ \A k \in Keys : t[k].at > 0 => t[k].body \in FullBodies

VARIABLES
  walk,    \* the next statement of the client's request, or "done"
  filter,  \* the condition on the columns
  stop,    \* what ends the walk: a "short" page, or `total` reached as well
  total,   \* count(*) of the current request
  offset,  \* OFFSET of the current request
  seen     \* rows the client was given so far

listVars == <<walk, filter, stop, total, offset, seen>>
walkVars == <<vars, listVars>>

WalkTypeOK ==
  /\ TypeOK
  /\ walk \in {"count", "page", "done"}
  /\ filter \in Filters
  /\ stop \in {"short", "total"}
  /\ total \in Nat
  /\ offset \in Nat
  /\ seen \subseteq Keys

(* The table has been in use before.                                       *)
WalkInit ==
  /\ clock = Start
  /\ rows \in Tables
  /\ call \in [Requests -> Calls]
  /\ stage = [r \in Requests |-> "new"]
  /\ now = [r \in Requests |-> 0]
  /\ answer = [r \in Requests |-> "none"]
  /\ walk = "count"
  /\ filter \in Filters
  /\ stop \in {"short", "total"}
  /\ total = 0
  /\ offset = 0
  /\ seen = {}

-----------------------------------------------------------------------------
(* whereBuilder.eq: no condition when the parameter is empty.              *)
Equal(f, v) == {b \in Bodies : v = Null \/ b[f] = v}

(* deleted_at IS NULL AND ...                                              *)
Matches(k) == Active(k) /\ rows[k].body \in filter
Matched == {k \in Keys : Matches(k)}

(* SELECT count(star) with the condition.                                  *)
Count ==
  /\ walk = "count"
  /\ total' = Cardinality(Matched)
  /\ walk' = "page"
  /\ UNCHANGED <<vars, filter, stop, offset, seen>>

(* Mutant: ORDER BY updated_at ASC, as in the sync feed.                   *)
FirstOldest(n) ==
  {t \in SUBSET Matched :
     /\ \A k \in t, j \in Matched \ t : rows[k].at <= rows[j].at
     /\ Cardinality(t) <= n
     /\ t # Matched => Cardinality(t) = n}

(* The rows that may come first, n of them, ORDER BY updated_at DESC: rows *)
(* with equal updated_at come in any order.                                *)
First(n) ==
  {t \in SUBSET Matched :
     /\ \A k \in t, j \in Matched \ t : rows[k].at >= rows[j].at
     /\ Cardinality(t) <= n
     /\ t # Matched => Cardinality(t) = n}

(* The client stops at a page that is not full, or once `total` says so.   *)
Ends(n) == n < Limit \/ (stop = "total" /\ offset + Limit >= total)

(* Mutant: LIMIT without OFFSET.                                           *)
PageFromTop ==
  /\ walk = "page"
  /\ \E upto \in First(Limit) :
       /\ seen' = seen \cup upto
       /\ walk' = IF Ends(Cardinality(upto)) THEN "done" ELSE "count"
  /\ offset' = offset + Limit
  /\ UNCHANGED <<vars, filter, stop, total>>

(* LIMIT and OFFSET: the page, and the client's next offset.               *)
Page ==
  /\ walk = "page"
  /\ \E skipped \in First(offset), upto \in First(offset + Limit) :
       /\ skipped \subseteq upto
       /\ seen' = seen \cup (upto \ skipped)
       /\ walk' = IF Ends(Cardinality(upto \ skipped)) THEN "done" ELSE "count"
  /\ offset' = offset + Limit
  /\ UNCHANGED <<vars, filter, stop, total>>

(* A statement fails or the reply is lost: the client asks for the page    *)
(* again, which starts with a new count.                                   *)
ListFails ==
  /\ walk = "page"
  /\ walk' = "count"
  /\ UNCHANGED <<vars, filter, stop, total, offset, seen>>

List == Count \/ Page \/ ListFails

WalkNext == (Next /\ UNCHANGED listVars) \/ List

WalkSpec == WalkInit /\ [][WalkNext]_walkVars

-----------------------------------------------------------------------------
(* The matching rows that come before k for sure.                          *)
Newer(k) == {j \in Matched : rows[j].at > rows[k].at}

(* The row matches and the client neither has it nor can count on it: it   *)
(* may be before the next offset, or the walk is over.                     *)
Missed(k) ==
  /\ Matches(k) /\ k \notin seen
  /\ walk = "done" \/ Cardinality(Newer(k)) < offset

(* A write to the row itself moves it to the top, or into the filter.      *)
Touched(k) == rows'[k] # rows[k]

(* A row ahead of k is deleted or changed out of the filter, and k moves   *)
(* up into the pages already read.                                         *)
Departs(j) == Matches(j) /\ ~Matches(j)'

(* A transaction that started earlier commits later, and sets updated_at   *)
(* of a row ahead of k back to k's or further.                             *)
FallsBehind(j, k) == rows[j].at > rows[k].at /\ rows'[j].at <= rows[k].at

(* A page ends between rows of equal updated_at and leaves k behind.       *)
CutByPage(k) == offset' > offset /\ \E j \in seen' : Matches(j) /\ rows[j].at = rows[k].at

(* The client trusts a total that was stale when the page was cut.         *)
StaleTotal == walk' = "done" /\ stop = "total" /\ Cardinality(Matched) > total

(* Whatever writes happen during a walk, a row that is not written itself  *)
(* is only missed for one of four reasons; rows that are inserted or moved *)
(* to the top during the walk never hide another (read.go:100-135).        *)
MissesAreExplained ==
  [][\A k \in Keys : ~Missed(k) /\ Missed(k)' =>
       \/ Touched(k)
       \/ \E j \in Newer(k) : Departs(j) \/ FallsBehind(j, k)
       \/ CutByPage(k)
       \/ StaleTotal]_walkVars

(* A page that does not end the walk was full: whatever is written         *)
(* meanwhile, the offset never gets further than the rows there are, and a *)
(* walk takes at most Cardinality(Keys) \div Limit + 1 pages (read.go:117). *)
WalkIsBounded ==
  /\ walk # "done" => offset <= Cardinality(Keys)
  /\ walk = "done" => offset <= Cardinality(Keys) + Limit

(* The inductive invariant of catalog and client.                          *)
WalkIInv == IInv /\ WalkTypeOK /\ WalkIsBounded
=============================================================================
