--------------------------- MODULE ListWalkProofs ---------------------------
(***************************************************************************)
(* Machine-checked proofs about ListWalk, for any table, page size, filter *)
(* and number of concurrent writes.                                        *)
(***************************************************************************)
EXTENDS ListWalk, CatalogProofs, FiniteSetTheorems

(* The matching rows are finitely many, and so are those newer than k.     *)
LEMMA MatchedIsFinite ==
  /\ IsFiniteSet(Matched) /\ Cardinality(Matched) \in Nat
  /\ \A t \in SUBSET Matched : IsFiniteSet(t) /\ Cardinality(t) \in Nat
  /\ \A k \in Keys : Newer(k) \subseteq Matched
<1>1. Matched \subseteq Keys
  BY DEF Matched
<1>2. IsFiniteSet(Matched) /\ Cardinality(Matched) \in Nat
  BY <1>1, ListAssumption, FS_Subset, FS_CardinalityType
<1>3. \A t \in SUBSET Matched : IsFiniteSet(t) /\ Cardinality(t) \in Nat
  BY <1>2, FS_Subset, FS_CardinalityType
<1> QED
  BY <1>2, <1>3 DEF Newer

(* The invariant holds of any table a walk starts from.                    *)
LEMMA WalkBegins == WalkInit => WalkIInv
<1> SUFFICES ASSUME WalkInit PROVE WalkIInv
  OBVIOUS
<1>1. TypeOK
  BY CatalogAssumption, ListAssumption DEF WalkInit, TypeOK, Exists
<1>2. RequestsAreSound /\ OneDeleteSucceeds /\ NotFoundMeansGone
  BY DEF WalkInit, RequestsAreSound, OneDeleteSucceeds, NotFoundMeansGone
<1>3. WalkTypeOK
  BY <1>1 DEF WalkInit, WalkTypeOK
<1>4. Cardinality(Keys) \in Nat
  BY ListAssumption, FS_CardinalityType
<1>5. WalkIsBounded
  BY <1>4 DEF WalkInit, WalkIsBounded
<1> QED
  BY <1>1, <1>2, <1>3, <1>5 DEF WalkIInv, IInv

(* A page after which the client goes on was full, so that many rows match. *)
LEMMA FullPage ==
  ASSUME WalkTypeOK, Page, walk' # "done"
  PROVE  offset' <= Cardinality(Keys)
<1>1. PICK skipped \in First(offset), upto \in First(offset + Limit) :
        /\ skipped \subseteq upto
        /\ walk' = IF Ends(Cardinality(upto \ skipped)) THEN "done" ELSE "count"
  BY DEF Page
<1>2. /\ offset \in Nat /\ Limit \in Nat \ {0} /\ offset' = offset + Limit
      /\ Matched \subseteq Keys /\ IsFiniteSet(Keys) /\ Cardinality(Keys) \in Nat
  BY ListAssumption, FS_CardinalityType DEF Page, WalkTypeOK, Matched
<1>3. /\ skipped \subseteq Matched /\ upto \subseteq Matched
      /\ skipped # Matched => Cardinality(skipped) = offset
  BY <1>1 DEF First
<1>4. /\ IsFiniteSet(skipped) /\ IsFiniteSet(upto) /\ IsFiniteSet(upto \ skipped)
      /\ Cardinality(skipped) \in Nat /\ Cardinality(upto) \in Nat
      /\ Cardinality(upto \ skipped) \in Nat
  BY <1>3, MatchedIsFinite
<1>5. Cardinality(upto \ skipped) >= Limit
  BY <1>1, <1>2, <1>4 DEF Ends
<1>6. skipped # Matched
  <2> SUFFICES ASSUME skipped = Matched PROVE FALSE
    OBVIOUS
  <2>1. upto \ skipped = {}
    BY <1>3
  <2>2. Cardinality(upto \ skipped) = 0
    BY <2>1, FS_EmptySet
  <2> QED
    BY <1>2, <1>5, <2>2
<1>7. Cardinality(upto) >= offset + Limit
  <2>1. upto \cap skipped = skipped
    BY <1>1
  <2>2. Cardinality(upto \ skipped) = Cardinality(upto) - Cardinality(upto \cap skipped)
    BY <1>4, FS_Difference
  <2>3. Cardinality(upto \cap skipped) = offset
    BY <1>3, <1>6, <2>1
  <2> QED
    BY <1>2, <1>4, <1>5, <2>2, <2>3
<1>8. Cardinality(upto) <= Cardinality(Keys)
  BY <1>2, <1>3, FS_Subset
<1> QED
  BY <1>2, <1>4, <1>7, <1>8

(* The offset stays within the rows there are.                             *)
LEMMA BoundStep ==
  ASSUME WalkIInv, [WalkNext]_walkVars
  PROVE  WalkIsBounded'
<1>n. /\ Limit \in Nat \ {0} /\ offset \in Nat /\ Cardinality(Keys) \in Nat
      /\ WalkTypeOK /\ WalkIsBounded
  BY ListAssumption, FS_CardinalityType DEF WalkIInv, WalkTypeOK
<1>1. CASE (Next /\ UNCHANGED listVars) \/ UNCHANGED walkVars
  BY <1>1, <1>n DEF WalkIsBounded, listVars, walkVars
<1>2. CASE Count \/ ListFails
  BY <1>2, <1>n DEF WalkIsBounded, Count, ListFails
<1>3. CASE Page
  <2>1. walk = "page" /\ offset' = offset + Limit
    BY <1>3 DEF Page
  <2>2. walk' # "done" => offset' <= Cardinality(Keys)
    BY <1>3, <1>n, FullPage
  <2> QED
    BY <1>n, <2>1, <2>2 DEF WalkIsBounded
<1> QED
  BY <1>1, <1>2, <1>3 DEF WalkNext, List

(* Every step, of a writer or of the reader, keeps it.                     *)
LEMMA WalkStep == WalkIInv /\ [WalkNext]_walkVars => WalkIInv'
<1> SUFFICES ASSUME WalkIInv, [WalkNext]_walkVars PROVE WalkIInv'
  OBVIOUS
<1>b. WalkIsBounded'
  BY BoundStep
<1>1. ASSUME [Next]_vars PROVE IInv' /\ TypeOK'
  BY <1>1, CatalogStep DEF WalkIInv, IInv
<1>2. CASE Next /\ UNCHANGED listVars
  BY <1>b, <1>1, <1>2 DEF WalkIInv, WalkTypeOK, listVars
<1>3. CASE Count \/ ListFails
  BY <1>b, <1>1, <1>3, MatchedIsFinite DEF WalkIInv, WalkTypeOK, Count, ListFails
<1>4. CASE Page
  <2>1. PICK skipped \in First(offset), upto \in First(offset + Limit) :
          /\ seen' = seen \cup (upto \ skipped)
          /\ walk' = IF Ends(Cardinality(upto \ skipped)) THEN "done" ELSE "count"
    BY <1>4 DEF Page
  <2>2. upto \subseteq Keys
    BY <2>1 DEF First, Matched
  <2> QED
    BY <1>b, <1>1, <1>4, <2>1, <2>2, ListAssumption DEF WalkIInv, WalkTypeOK, Page
<1>5. CASE UNCHANGED walkVars
  BY <1>b, <1>1, <1>5 DEF WalkIInv, WalkTypeOK, walkVars, listVars
<1> QED
  BY <1>2, <1>3, <1>4, <1>5 DEF WalkNext, List

(* The invariant holds throughout a walk.                                  *)
THEOREM WalkInductive == WalkSpec => []WalkIInv
BY WalkBegins, WalkStep, PTL DEF WalkSpec

(* Type correctness of the catalog and the client.                         *)
THEOREM WalkTypeCorrect == WalkSpec => []WalkTypeOK
BY WalkInductive, PTL DEF WalkIInv

(* However the catalog is written meanwhile, a walk ends: every page moves *)
(* the offset by Limit, and it never gets further than the rows there are. *)
THEOREM WalkEnds == WalkSpec => []WalkIsBounded
BY WalkInductive, PTL DEF WalkIInv

(* A matching row with at least `offset` newer ones is on the next page or *)
(* stays ahead of the one after it, but for a tie or a stale total.        *)
LEMMA PageLeavesBehind ==
  ASSUME WalkTypeOK, Page, NEW k \in Keys, Matches(k), k \notin seen',
         Cardinality(Newer(k)) >= offset
  PROVE  /\ walk' = "done" => StaleTotal
         /\ Cardinality(Newer(k)) < offset' => CutByPage(k)
<1>1. PICK skipped \in First(offset), upto \in First(offset + Limit) :
        /\ skipped \subseteq upto
        /\ seen' = seen \cup (upto \ skipped)
        /\ walk' = IF Ends(Cardinality(upto \ skipped)) THEN "done" ELSE "count"
  BY DEF Page
<1>2. /\ offset \in Nat /\ Limit \in Nat \ {0} /\ offset' = offset + Limit /\ total \in Nat
      /\ \A j \in Keys : rows[j].at \in Nat
      /\ k \in Matched /\ Matched \subseteq Keys
  BY ListAssumption DEF Page, WalkTypeOK, TypeOK, Row, Matched
<1>3. /\ skipped \subseteq Matched /\ upto \subseteq Matched
      /\ \A i \in skipped, j \in Matched \ skipped : rows[i].at >= rows[j].at
      /\ \A i \in upto, j \in Matched \ upto : rows[i].at >= rows[j].at
      /\ Cardinality(skipped) <= offset
      /\ skipped # Matched => Cardinality(skipped) = offset
      /\ upto # Matched => Cardinality(upto) = offset + Limit
  BY <1>1 DEF First
<1>4. /\ IsFiniteSet(skipped) /\ IsFiniteSet(upto) /\ IsFiniteSet(Newer(k))
      /\ Cardinality(skipped) \in Nat /\ Cardinality(upto) \in Nat
      /\ Cardinality(Newer(k)) \in Nat /\ Cardinality(Matched) \in Nat /\ IsFiniteSet(Matched)
  BY <1>3, MatchedIsFinite
<1>5. k \notin skipped
  <2> SUFFICES ASSUME k \in skipped PROVE FALSE
    OBVIOUS
  <2>1. Newer(k) \subseteq skipped \ {k}
    BY <1>2, <1>3 DEF Newer
  <2>2. IsFiniteSet(skipped \ {k}) /\ Cardinality(skipped \ {k}) = Cardinality(skipped) - 1
    BY <1>4, FS_RemoveElement
  <2>3. Cardinality(Newer(k)) <= Cardinality(skipped \ {k})
    BY <2>1, <2>2, FS_Subset
  <2> QED
    BY <1>2, <1>3, <1>4, <2>2, <2>3
<1>6. k \notin upto
  BY <1>1, <1>5
<1>7. Cardinality(skipped) = offset /\ Cardinality(upto) = offset + Limit
  BY <1>2, <1>3, <1>5, <1>6
<1>8. Cardinality(upto \ skipped) = Limit
  <2>1. Cardinality(upto \cap skipped) = Cardinality(skipped)
    <3>1. upto \cap skipped = skipped
      BY <1>1
    <3> QED
      BY <3>1
  <2>2. Cardinality(upto \ skipped) = Cardinality(upto) - Cardinality(upto \cap skipped)
    BY <1>4, FS_Difference
  <2> QED
    BY <1>2, <1>7, <2>1, <2>2
<1>9. Cardinality(Matched) > offset + Limit
  <2>1. Cardinality(upto) <= Cardinality(Matched) /\ Cardinality(upto) # Cardinality(Matched)
    BY <1>2, <1>3, <1>4, <1>6, FS_Subset
  <2> QED
    BY <1>2, <1>4, <1>7, <2>1
<1>10. walk' = "done" => StaleTotal
  BY <1>1, <1>2, <1>4, <1>8, <1>9 DEF Ends, StaleTotal
<1>11. ASSUME ~CutByPage(k) PROVE Cardinality(Newer(k)) >= offset'
  <2>1. PICK s \in upto : s \notin skipped
    <3>1. upto \ skipped # {}
      BY <1>2, <1>8, FS_EmptySet
    <3> QED
      BY <3>1
  <2>2. ASSUME NEW i \in upto, i \notin skipped PROVE rows[i].at > rows[k].at
    <3>1. i \in seen' /\ Matches(i) /\ i \in Keys /\ rows[i].at >= rows[k].at
      BY <1>1, <1>2, <1>3, <1>6, <2>2 DEF Matched
    <3> QED
      BY <1>2, <1>11, <3>1 DEF CutByPage
  <2>3. ASSUME NEW i \in skipped PROVE rows[i].at > rows[k].at
    BY <1>2, <1>3, <2>1, <2>2
  <2>4. upto \subseteq Newer(k)
    BY <1>3, <2>2, <2>3 DEF Newer
  <2> QED
    BY <1>2, <1>4, <1>7, <2>4, FS_Subset
<1> QED
  BY <1>2, <1>4, <1>10, <1>11

(* A write of others makes a row missed only if a row ahead goes or falls  *)
(* behind: insertions and moves to the top push it the other way.          *)
LEMMA WriteHides ==
  ASSUME WalkIInv, [Next]_vars, UNCHANGED listVars,
         NEW k \in Keys, ~Touched(k), ~Missed(k), Missed(k)'
  PROVE  \E j \in Newer(k) : Departs(j) \/ FallsBehind(j, k)
<1>1. rows'[k] = rows[k] /\ (Matches(k)' <=> Matches(k))
  BY DEF Touched, Matches, Active, Exists, listVars
<1>2. walk # "done" /\ Cardinality(Newer(k)') < offset /\ ~(Cardinality(Newer(k)) < offset)
  BY <1>1 DEF Missed, listVars
<1>3. IsFiniteSet(Newer(k)')
  <2>1. Newer(k)' \subseteq Keys
    BY DEF Newer, Matched
  <2> QED
    BY <2>1, ListAssumption, FS_Subset
<1>4. PICK j \in Newer(k) : j \notin Newer(k)'
  <2> SUFFICES ASSUME Newer(k) \subseteq Newer(k)' PROVE FALSE
    OBVIOUS
  <2>1. Cardinality(Newer(k)) <= Cardinality(Newer(k)')
    BY <1>3, FS_Subset
  <2>2. Cardinality(Newer(k)) \in Nat /\ Cardinality(Newer(k)') \in Nat /\ offset \in Nat
    BY <1>3, MatchedIsFinite, FS_CardinalityType DEF WalkIInv, WalkTypeOK
  <2> QED
    BY <1>2, <2>1, <2>2
<1>5. j \in Keys /\ Matches(j) /\ rows[j].at > rows[k].at
  BY <1>4 DEF Newer, Matched
<1>6. rows'[j].at \in Nat /\ rows[k].at \in Nat
  BY <1>5, CatalogStep DEF WalkIInv, IInv, TypeOK, Row
<1> QED
  BY <1>1, <1>4, <1>5, <1>6 DEF Newer, Matched, Departs, FallsBehind

(* A row is only missed for the reasons MissesAreExplained lists.          *)
THEOREM MissesHaveFourCauses == WalkSpec => MissesAreExplained
<1> DEFINE Explained == \A k \in Keys : ~Missed(k) /\ Missed(k)' =>
                          \/ Touched(k)
                          \/ \E j \in Newer(k) : Departs(j) \/ FallsBehind(j, k)
                          \/ CutByPage(k)
                          \/ StaleTotal
<1>1. WalkIInv /\ [WalkNext]_walkVars => [Explained]_walkVars
  <2> SUFFICES ASSUME WalkIInv, [WalkNext]_walkVars, NEW k \in Keys, ~Missed(k), Missed(k)'
               PROVE  \/ Touched(k)
                      \/ \E j \in Newer(k) : Departs(j) \/ FallsBehind(j, k)
                      \/ CutByPage(k)
                      \/ StaleTotal
    OBVIOUS
  <2>1. CASE Next /\ UNCHANGED listVars
    BY <2>1, WriteHides
  <2>2. CASE Count \/ ListFails \/ UNCHANGED walkVars
    <3>1. UNCHANGED <<vars, filter, offset, seen>> /\ (walk' = "done" => walk = "done")
      BY <2>2 DEF Count, ListFails, walkVars, listVars
    <3>2. Matches(k)' = Matches(k) /\ Newer(k)' = Newer(k)
      BY <3>1 DEF vars, Matches, Active, Exists, Newer, Matched
    <3> QED
      BY <3>1, <3>2 DEF Missed
  <2>3. CASE Page
    <3>1. UNCHANGED <<vars, filter>> /\ seen \subseteq seen' /\ walk # "done"
      BY <2>3 DEF Page
    <3>2. Matches(k)' = Matches(k) /\ Newer(k)' = Newer(k)
      BY <3>1 DEF vars, Matches, Active, Exists, Newer, Matched
    <3>3. Matches(k) /\ k \notin seen' /\ ~(Cardinality(Newer(k)) < offset)
      BY <3>1, <3>2 DEF Missed
    <3>4. Cardinality(Newer(k)) >= offset
      BY <3>3, MatchedIsFinite DEF WalkIInv, WalkTypeOK
    <3> QED
      BY <2>3, <3>2, <3>3, <3>4, PageLeavesBehind DEF Missed, WalkIInv
  <2> QED
    BY <2>1, <2>2, <2>3 DEF WalkNext, List
<1> QED
  BY <1>1, WalkInductive, PTL DEF WalkSpec, MissesAreExplained

-----------------------------------------------------------------------------
(* No writes, and no two rows that were loaded in one microsecond.         *)
Quiet ==
  /\ Requests = {}
  /\ \A t \in Tables, i, j \in Keys : t[i].at > 0 /\ t[i].at = t[j].at => i = j

(* Then the total stays true and no row is ever missed.                    *)
QuietIInv ==
  /\ WalkIInv
  /\ rows \in Tables
  /\ walk = "page" => total = Cardinality(Matched)
  /\ \A k \in Keys : ~Missed(k)

(* No step of a quiet walk makes a row missed.                             *)
LEMMA QuietStep == Quiet /\ QuietIInv /\ [WalkNext]_walkVars => QuietIInv'
<1> SUFFICES ASSUME Quiet, QuietIInv, [WalkNext]_walkVars PROVE QuietIInv'
  OBVIOUS
<1>1. UNCHANGED <<rows, filter>>
  BY DEF Quiet, WalkNext, Next, List, Count, Page, ListFails, walkVars, listVars, vars
<1>2. WalkIInv'
  BY WalkStep DEF QuietIInv
<1>3. /\ Matched' = Matched
      /\ \A k \in Keys : Matches(k)' = Matches(k) /\ Newer(k)' = Newer(k)
  BY <1>1 DEF Matched, Matches, Active, Exists, Newer
<1>4. CASE Count \/ ListFails \/ UNCHANGED walkVars
  <2>1. /\ UNCHANGED <<offset, seen>> /\ (walk' = "done" => walk = "done")
        /\ walk' = "page" => total' = Cardinality(Matched)
    BY <1>4 DEF QuietIInv, Count, ListFails, walkVars, listVars
  <2> QED
    BY <1>1, <1>2, <1>3, <2>1 DEF QuietIInv, Missed
<1>5. CASE Page
  <2>1. walk = "page" /\ seen \subseteq seen' /\ walk' # "page"
    BY <1>5 DEF Page, Ends
  <2>2. ASSUME NEW k \in Keys, Missed(k)' PROVE FALSE
    <3>1. Matches(k) /\ k \notin seen' /\ ~(Cardinality(Newer(k)) < offset)
      BY <1>3, <2>1, <2>2 DEF QuietIInv, Missed
    <3>2. Cardinality(Newer(k)) >= offset
      BY <3>1, MatchedIsFinite DEF QuietIInv, WalkIInv, WalkTypeOK
    <3>3. StaleTotal \/ CutByPage(k)
      BY <1>3, <1>5, <2>2, <3>1, <3>2, PageLeavesBehind DEF QuietIInv, WalkIInv, Missed
    <3>4. ~StaleTotal
      BY <2>1, MatchedIsFinite DEF QuietIInv, StaleTotal
    <3>5. PICK j \in seen' : Matches(j) /\ rows[j].at = rows[k].at
      BY <3>3, <3>4 DEF CutByPage
    <3>6. j \in Keys /\ rows[k].at > 0
      BY <1>2, <3>1 DEF WalkIInv, WalkTypeOK, Matches, Active, Exists
    <3> QED
      BY <3>1, <3>5, <3>6 DEF QuietIInv, Quiet
  <2> QED
    BY <1>1, <1>2, <2>1, <2>2 DEF QuietIInv
<1>6. ~(Next /\ UNCHANGED listVars)
  BY DEF Quiet, Next
<1> QED
  BY <1>4, <1>5, <1>6 DEF WalkNext, List

(* Without writes and ties, failed requests or not, the client ends with   *)
(* every matching row, whichever rule it stops by.                         *)
THEOREM QuietWalkIsComplete ==
  ASSUME Quiet
  PROVE  WalkSpec => [](walk = "done" => Matched \subseteq seen)
<1>1. WalkInit => QuietIInv
  <2> SUFFICES ASSUME WalkInit PROVE QuietIInv
    OBVIOUS
  <2>1. WalkIInv
    BY WalkBegins
  <2>2. ASSUME NEW k \in Keys PROVE ~Missed(k)
    BY MatchedIsFinite DEF WalkInit, Missed
  <2> QED
    BY <2>1, <2>2 DEF WalkInit, QuietIInv
<1>2. QuietIInv => (walk = "done" => Matched \subseteq seen)
  BY DEF QuietIInv, Missed, Matched
<1>3. QuietIInv /\ [WalkNext]_walkVars => QuietIInv'
  BY QuietStep
<1> QED
  BY <1>1, <1>2, <1>3, PTL DEF WalkSpec
=============================================================================
