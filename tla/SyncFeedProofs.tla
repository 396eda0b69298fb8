-------------------------- MODULE SyncFeedProofs ---------------------------
(***************************************************************************)
(* Machine-checked proofs about SyncFeed, for any number of rows, writers  *)
(* and pages: that its copies only get newer, what a consumer can lose,    *)
(* that polling gets it past every row, and that it only loses deletions   *)
(* when the writers take turns.                                            *)
(***************************************************************************)
EXTENDS SyncFeed, CatalogProofs, FiniteInduction

(* A page moves the cursor strictly forward and touches no row.            *)
LEMMA PollTypes ==
  ASSUME SyncIInv, SyncSince
  PROVE  /\ cursor' \in Nat /\ cursor' > cursor
         /\ replica' \in [Keys -> Row]
         /\ rows' = rows
<1>1. PICK page \in Pages, last \in Pending :
        /\ cursor' = CursorAfter(last)
        /\ replica' = [k \in Keys |-> IF k \in page THEN rows[k] ELSE replica[k]]
  BY DEF SyncSince
<1>2. rows[last].at \in Nat /\ rows[last].at > cursor
  BY DEF SyncIInv, IInv, TypeOK, Row, Pending
<1> QED
  BY <1>1, <1>2 DEF CursorAfter, SyncIInv, SyncTypeOK, IInv, TypeOK, SyncSince, vars

(* What a page gives out is new to the consumer and not past the cursor    *)
(* that comes with it; what it leaves out the consumer keeps.              *)
LEMMA PollUpdates ==
  ASSUME SyncIInv, SyncSince, NEW k \in Keys
  PROVE  \/ replica'[k] = replica[k]
         \/ replica'[k] = rows[k] /\ rows[k].at > cursor /\ rows[k].at <= cursor'
<1>1. PICK page \in Pages, last \in Pending :
        /\ \A l \in page : rows[l].at <= rows[last].at
        /\ cursor' = CursorAfter(last)
        /\ replica' = [l \in Keys |-> IF l \in page THEN rows[l] ELSE replica[l]]
  BY DEF SyncSince
<1> QED
  BY <1>1 DEF Pages, Pending, CursorAfter

(* Every step of writers and consumer preserves SyncIInv.                  *)
LEMMA SyncStep == SyncIInv /\ [SyncNext]_syncVars => SyncIInv'
<1> SUFFICES ASSUME SyncIInv, [SyncNext]_syncVars PROVE SyncIInv'
  OBVIOUS
<1>1. CASE Next /\ UNCHANGED <<cursor, replica>>
  BY <1>1, CatalogStep DEF SyncIInv, SyncTypeOK, IInv
<1>2. CASE SyncSince
  <2>1. IInv' /\ SyncTypeOK'
    BY <1>2, CatalogStep, PollTypes DEF SyncIInv, SyncTypeOK, IInv, SyncSince
  <2>2. ASSUME NEW k \in Keys PROVE replica'[k].at <= cursor'
    <3>1. replica[k].at <= cursor /\ replica[k].at \in Nat /\ cursor \in Nat
      BY DEF SyncIInv, SyncTypeOK, Row
    <3>2. cursor' \in Nat /\ cursor' > cursor
      BY <1>2, PollTypes
    <3> QED
      BY <1>2, <3>1, <3>2, PollUpdates
  <2> QED
    BY <2>1, <2>2 DEF SyncIInv
<1>3. CASE UNCHANGED syncVars
  BY <1>3, CatalogStep DEF SyncIInv, SyncTypeOK, IInv, syncVars
<1> QED
  BY <1>1, <1>2, <1>3 DEF SyncNext

(* Catalog and consumer in every state of the feed: their types, and that  *)
(* nothing held is later than the cursor.                                  *)
THEOREM SyncInductive == SyncSpec => []SyncIInv
<1>1. SyncInit => SyncIInv
  BY CatalogInit, CatalogAssumption
  DEF SyncInit, SyncIInv, SyncTypeOK, IInv, Absent, Row, Bodies
<1> QED
  BY <1>1, SyncStep, PTL DEF SyncSpec

(* Type correctness of the feed: cursor and replica included.              *)
THEOREM SyncTypeCorrect == SyncSpec => []SyncTypeOK
<1>1. SyncIInv => SyncTypeOK
  BY DEF SyncIInv
<1> QED
  BY <1>1, SyncInductive, PTL

(* A page only gives out rows beyond the cursor, and nothing held is: a    *)
(* copy is only ever replaced by a later one, although the catalog's own   *)
(* updated_at can go back.                                                 *)
THEOREM ReplicaIsMonotone == SyncSpec => ReplicaNeverGoesBack
<1> DEFINE Forward == \A k \in Keys :
                        replica'[k] # replica[k] => replica'[k].at > replica[k].at
<1>1. SyncIInv /\ [SyncNext]_syncVars => [Forward]_syncVars
  <2> SUFFICES ASSUME SyncIInv, [SyncNext]_syncVars, NEW k \in Keys, replica'[k] # replica[k]
               PROVE  replica'[k].at > replica[k].at
    OBVIOUS
  <2>1. SyncSince
    BY DEF SyncNext, syncVars
  <2>2. replica'[k] = rows[k] /\ rows[k].at > cursor
    BY <2>1, PollUpdates
  <2>3. replica[k].at <= cursor /\ replica[k].at \in Nat /\ cursor \in Nat /\ rows[k].at \in Nat
    BY DEF SyncIInv, SyncTypeOK, TypeOK, Row
  <2> QED
    BY <2>2, <2>3
<1> QED
  BY <1>1, SyncInductive, PTL DEF SyncSpec, ReplicaNeverGoesBack

(* The row a page leaves behind has no earlier updated_at than the page's  *)
(* last row.                                                               *)
LEMMA LeftBehind ==
  ASSUME SyncIInv, SyncSince, NEW k \in Keys
  PROVE  \/ rows[k].at <= cursor /\ replica'[k] = replica[k]
         \/ rows[k].at > cursor /\ replica'[k] = rows[k]
         \/ rows[k].at > cursor /\ replica'[k] = replica[k] /\ cursor' <= rows[k].at
<1>1. PICK page \in Pages, last \in Pending :
        /\ last \in page
        /\ cursor' = CursorAfter(last)
        /\ replica' = [l \in Keys |-> IF l \in page THEN rows[l] ELSE replica[l]]
  BY DEF SyncSince
<1>2. rows[k].at \in Nat /\ cursor \in Nat
  BY DEF SyncIInv, SyncTypeOK, IInv, TypeOK, Row
<1>3. CASE k \in page
  BY <1>1, <1>3 DEF Pages, Pending
<1>4. CASE k \notin page /\ k \in Pending
  BY <1>1, <1>2, <1>4 DEF Pages, Pending, CursorAfter
<1>5. CASE k \notin page /\ k \notin Pending
  BY <1>1, <1>2, <1>5 DEF Pending
<1> QED
  BY <1>3, <1>4, <1>5

(* A step makes the consumer miss a row only if a write commits behind the *)
(* cursor, a page ends within a tie, or a row it has is soft-deleted.      *)
THEOREM LossesHaveThreeCauses == SyncSpec => LossesAreExplained
<1> DEFINE Explained == \A k \in Keys : ~Missed(k) /\ Missed(k)' =>
                          CommitsLate(k) \/ CutByPage(k) \/ DeletedSilently(k)
<1>1. SyncIInv /\ [SyncNext]_syncVars => [Explained]_syncVars
  <2> SUFFICES ASSUME SyncIInv, [SyncNext]_syncVars, NEW k \in Keys, ~Missed(k), Missed(k)'
               PROVE  CommitsLate(k) \/ CutByPage(k) \/ DeletedSilently(k)
    OBVIOUS
  <2>t. TypeOK /\ rows[k] \in Row /\ cursor \in Nat
    BY DEF SyncIInv, SyncTypeOK, IInv, TypeOK
  <2>1. CASE SyncSince
    <3>1. rows' = rows /\ cursor' \in Nat /\ cursor' > cursor
      BY <2>1, PollTypes
    <3> QED
      BY <2>1, <2>t, <3>1, LeftBehind DEF Missed, CutByPage, Row
  <2>2. ASSUME NEW r \in Requests, Serve(r), UNCHANGED <<cursor, replica>>
        PROVE  CommitsLate(k) \/ DeletedSilently(k)
    <3>1. rows'[k] # rows[k] /\ rows'[k].at <= cursor
      BY <2>2 DEF Missed
    <3>2. CASE Upsert(r) \/ UpdateActive(r)
      <4>1. call[r].key = k /\ rows'[k].at = now[r] /\ r \in InFlight
        BY <3>1, <3>2, <2>t, Caller DEF Upsert, UpdateActive, TypeOK, Written, InFlight
      <4>2. stage'[r] # "begun"
        BY <3>2, <2>t DEF Upsert, UpdateActive, ReplyOrLoss, Reply, TypeOK
      <4> QED
        BY <3>1, <4>1, <4>2 DEF CommitsLate
    <3>3. CASE SoftDelete(r)
      <4>1. call[r].key = k
        BY <3>1, <3>3, <2>t, Caller DEF SoftDelete, TypeOK
      <4> QED
        BY <3>3, <4>1, <2>t, Caller DEF SoftDelete, Active, Deleted, DeletedSilently, TypeOK
    <3>4. CASE Begin(r) \/ NoMatch(r) \/ Get(r) \/ StatementFails(r)
      BY <3>1, <3>4 DEF Begin, NoMatch, Get, StatementFails
    <3> QED
      BY <2>2, <3>2, <3>3, <3>4 DEF Serve
  <2>3. ~UNCHANGED syncVars
    BY DEF Missed, syncVars, vars
  <2> QED
    BY <2>1, <2>2, <2>3 DEF SyncNext, Next
<1> QED
  BY <1>1, SyncInductive, PTL DEF SyncSpec, LossesAreExplained

(* A set of rows has one with the earliest updated_at.                     *)
LEMMA Earliest ==
  ASSUME SyncIInv, NEW S \in SUBSET Keys, S # {}
  PROVE  \E e \in S : \A l \in S : rows[e].at <= rows[l].at
<1> DEFINE Times == {rows[l].at : l \in S}
<1>1. Times \subseteq Nat /\ Times # {}
  BY DEF SyncIInv, SyncTypeOK, TypeOK, Row
<1>2. \E n \in Times : \A m \in Times : n <= m
  <2> HIDE DEF Times
  <2> QED
    BY <1>1, LeastNumber
<1> QED
  BY <1>2

(* While a row is beyond the cursor the statement has a page to return     *)
(* that is not empty: the largest set of rows that is closed under         *)
(* "earlier" and no larger than the limit.                                 *)
LEMMA PageExists ==
  ASSUME IsFiniteSet(Keys), SyncIInv, Pending # {}
  PROVE  \E page \in Pages : \E last \in page : \A k \in page : rows[k].at <= rows[last].at
<1>n. /\ \A k \in Keys : rows[k].at \in Nat
      /\ PageSize \in Nat \ {0}
      /\ Pending \in SUBSET Keys /\ IsFiniteSet(Pending)
  BY PageAssumption, FS_Subset DEF SyncIInv, SyncTypeOK, TypeOK, Row, Pending
<1>c. \A p \in SUBSET Pending : IsFiniteSet(p) /\ Cardinality(p) \in Nat
  BY <1>n, FS_Subset, FS_CardinalityType
<1> DEFINE Latest(p, last) == last \in p /\ \A k \in p : rows[k].at <= rows[last].at
           Closed(p) == \A k \in p, l \in Pending \ p : rows[k].at <= rows[l].at
           Fits == {p \in SUBSET Pending : /\ Cardinality(p) <= PageSize
                                           /\ Closed(p)
                                           /\ \E last \in p : Latest(p, last)}
           Room == {PageSize - Cardinality(p) : p \in Fits}
<1>1. PICK first \in Pending : \A l \in Pending : rows[first].at <= rows[l].at
  BY <1>n, Earliest
<1>2. {first} \in Fits
  <2>1. Cardinality({first}) = 1
    BY FS_Singleton
  <2>2. Latest({first}, first)
    BY <1>n, <1>1
  <2> QED
    BY <1>n, <1>1, <2>1, <2>2
<1>3. Room \subseteq Nat /\ Room # {}
  BY <1>n, <1>c, <1>2
<1>4. \E n \in Room : \A m \in Room : n <= m
  <2> HIDE DEF Room
  <2> QED
    BY <1>3, LeastNumber
<1>5. PICK page \in Fits : \A p \in Fits : PageSize - Cardinality(page) <= PageSize - Cardinality(p)
  BY <1>4
<1>6. page # Pending => Cardinality(page) = PageSize
  <2> SUFFICES ASSUME page # Pending, Cardinality(page) # PageSize PROVE FALSE
    OBVIOUS
  <2>1. PICK e \in Pending \ page : \A l \in Pending \ page : rows[e].at <= rows[l].at
    BY <1>n, Earliest
  <2>2. /\ Cardinality(page) \in Nat
        /\ Cardinality(page \cup {e}) = Cardinality(page) + 1
    BY <1>c, <2>1, FS_AddElement
  <2>3. Latest(page \cup {e}, e) /\ Closed(page \cup {e})
    BY <1>n, <1>5, <2>1
  <2>4. page \cup {e} \in Fits
    BY <1>n, <1>5, <2>1, <2>2, <2>3
  <2> HIDE DEF Fits
  <2> QED
    BY <1>n, <1>5, <2>2, <2>4
<1> QED
  BY <1>5, <1>6 DEF Pages

(* While a row is beyond the cursor, GET /sync has a page that is not      *)
(* empty to return (repository.go:150-161).                                *)
BacklogIsServed ==
  Pending # {} =>
    \E page \in Pages : \E last \in page : \A k \in page : rows[k].at <= rows[last].at

(* And every page leaves fewer rows beyond the cursor, ties or not, so     *)
(* that a consumer polling between two writes is soon done (sync.go:49-55). *)
PollsShrinkBacklog == [][SyncSince => Cardinality(Pending') < Cardinality(Pending)]_syncVars

(* Why ties never pin the cursor, for every page size: while a row is      *)
(* beyond it there is a page to fetch, and every page leaves strictly      *)
(* fewer rows beyond it.  A consumer that polls between two writes is done *)
(* after at most as many pages as rows were pending.                       *)
THEOREM PollingAdvances ==
  ASSUME IsFiniteSet(Keys)
  PROVE  /\ SyncSpec => []BacklogIsServed
         /\ SyncSpec => PollsShrinkBacklog
<1>1. SyncIInv => BacklogIsServed
  BY PageExists DEF BacklogIsServed
<1> DEFINE Shrinks == SyncSince => Cardinality(Pending') < Cardinality(Pending)
<1>2. SyncIInv /\ [SyncNext]_syncVars => [Shrinks]_syncVars
  <2> SUFFICES ASSUME SyncIInv, SyncSince
               PROVE  Cardinality(Pending') < Cardinality(Pending)
    OBVIOUS
  <2>1. PICK last \in Pending : cursor' = rows[last].at
    BY DEF SyncSince, CursorAfter
  <2>2. rows' = rows /\ cursor' \in Nat /\ cursor' > cursor /\ cursor \in Nat
    BY PollTypes DEF SyncIInv, SyncTypeOK
  <2>3. last \notin Pending' /\ Pending' \subseteq Pending
    BY <2>1, <2>2 DEF Pending, SyncIInv, SyncTypeOK, TypeOK, Row
  <2>4. IsFiniteSet(Pending)
    BY FS_Subset DEF Pending
  <2>5. Cardinality(Pending \ {last}) = Cardinality(Pending) - 1 /\ Cardinality(Pending) \in Nat
    BY <2>4, FS_RemoveElement, FS_CardinalityType
  <2>6. Pending' \in SUBSET (Pending \ {last}) /\ IsFiniteSet(Pending \ {last})
    BY <2>3, <2>4, FS_Subset
  <2>7. Cardinality(Pending') <= Cardinality(Pending \ {last}) /\ Cardinality(Pending') \in Nat
    BY <2>6, FS_Subset, FS_CardinalityType
  <2> QED
    BY <2>5, <2>7
<1> QED
  BY <1>1, <1>2, SyncInductive, PTL DEF SyncSpec, PollsShrinkBacklog

(* With Conns = 1 a statement starts only when none is in flight.          *)
LEMMA NoneInFlight ==
  ASSUME IsFiniteSet(Requests), SerialWriters, NEW r \in Requests, Begin(r)
  PROVE  InFlight = {}
<1>1. IsFiniteSet(InFlight)
  BY FS_Subset DEF InFlight
<1>2. Cardinality(InFlight) \in Nat
  BY <1>1, FS_CardinalityType
<1>3. Cardinality(InFlight) = 0
  BY <1>2 DEF Begin, SerialWriters
<1> QED
  BY <1>1, <1>3, FS_EmptySet

(* The serial invariant holds in the empty catalog.                        *)
LEMMA SerialInit == SerialWriters /\ SyncInit => SerialIInv
<1> SUFFICES ASSUME SerialWriters, SyncInit PROVE SerialIInv
  OBVIOUS
<1>1. SyncTypeOK
  BY CatalogInit, CatalogAssumption DEF SyncInit, SyncTypeOK, IInv, Absent, Row, Bodies
<1> QED
  BY <1>1 DEF SyncInit, Init, SerialIInv, InFlight, Exists, Absent, OnlyDeletionsAreLost,
     SameButForDeletion

(* A statement that writes is alone, the latest and ahead of the cursor.   *)
LEMMA SerialWrite ==
  ASSUME SerialIInv, NEW r \in InFlight, NEW k \in Keys,
         rows' \in [Keys -> Row], rows'[k].at = now[r],
         \A l \in Keys : l # k => rows'[l] = rows[l],
         UNCHANGED <<clock, cursor, replica>>
  PROVE  /\ \A l \in Keys : rows'[l].at <= clock'
         /\ \A l, m \in Keys : rows'[l].at > 0 /\ rows'[l].at = rows'[m].at => l = m
         /\ OnlyDeletionsAreLost'
<1>1. now[r] = clock /\ cursor < clock /\ \A l \in Keys : rows[l].at < clock
  BY DEF SerialIInv
<1>2. clock \in Nat /\ cursor \in Nat /\ \A l \in Keys : rows[l].at \in Nat
  BY DEF SerialIInv, SyncTypeOK, TypeOK, Row
<1> QED
  BY <1>1, <1>2 DEF SerialIInv, Exists, OnlyDeletionsAreLost, SameButForDeletion

(* Every step of writers that take turns, and every page, preserves it.    *)
LEMMA SerialStep ==
  ASSUME IsFiniteSet(Requests), SerialWriters, SyncIInv, SerialIInv, [SyncNext]_syncVars
  PROVE  SerialIInv'
<1>t. SyncTypeOK' /\ SyncTypeOK
  BY SyncStep DEF SyncIInv
<1>n. clock \in Nat /\ cursor \in Nat /\ \A l \in Keys : rows[l].at \in Nat
  BY <1>t DEF SyncTypeOK, TypeOK, Row
<1>1. ASSUME NEW r \in Requests, Serve(r), UNCHANGED <<cursor, replica>> PROVE SerialIInv'
  <2>1. CASE Begin(r)
    <3>1. InFlight = {}
      BY <2>1, NoneInFlight
    <3>2. clock' = clock + 1 /\ now'[r] = clock' /\ rows' = rows /\ call' = call
      BY <2>1, <1>t DEF Begin, SerialWriters, SyncTypeOK, TypeOK
    <3>3. InFlight' = {r}
      BY <2>1, <3>1, <1>t DEF Begin, InFlight, SyncTypeOK, TypeOK
    <3>4. \A k \in Keys : rows'[k].at < clock'
      BY <3>2, <1>n DEF SerialIInv
    <3> QED
      BY <1>1, <1>t, <1>n, <3>2, <3>3, <3>4 DEF SerialIInv, Exists, OnlyDeletionsAreLost,
         SameButForDeletion
  <2>2. CASE Upsert(r) \/ UpdateActive(r)
    <3>1. r \in InFlight /\ call' = call /\ clock' = clock
      BY <2>2 DEF Upsert, UpdateActive, InFlight
    <3>2. InFlight' = {}
      BY <2>2, <3>1, <1>t
      DEF Upsert, UpdateActive, ReplyOrLoss, Reply, InFlight, SyncTypeOK, TypeOK, SerialIInv
    <3>3. /\ rows' \in [Keys -> Row] /\ rows'[call[r].key].at = now[r] /\ call[r].key \in Keys
          /\ \A l \in Keys : l # call[r].key => rows'[l] = rows[l]
      BY <2>2, <1>t, Caller DEF Upsert, UpdateActive, SyncTypeOK, TypeOK, Written
    <3>4. /\ \A l \in Keys : rows'[l].at <= clock'
          /\ \A l, m \in Keys : rows'[l].at > 0 /\ rows'[l].at = rows'[m].at => l = m
          /\ OnlyDeletionsAreLost'
      BY <1>1, <3>1, <3>3, SerialWrite
    <3> QED
      BY <1>1, <1>t, <3>1, <3>2, <3>4 DEF SerialIInv, Exists
  <2>3. CASE SoftDelete(r)
    <3>1. r \in InFlight /\ call' = call /\ clock' = clock
      BY <2>3 DEF SoftDelete, InFlight
    <3>2. InFlight' = {}
      BY <2>3, <3>1, <1>t
      DEF SoftDelete, ReplyOrLoss, Reply, InFlight, SyncTypeOK, TypeOK, SerialIInv
    <3>3. \A k \in Keys : rows'[k] \in {rows[k], Deleted(rows[k])}
      BY <2>3, <1>t DEF SoftDelete, SyncTypeOK, TypeOK
    <3>4. \A k \in Keys : /\ rows'[k].at = rows[k].at /\ rows'[k].body = rows[k].body
                          /\ rows[k].gone => rows'[k].gone
      BY <3>3 DEF Deleted
    <3>5. OnlyDeletionsAreLost'
      BY <1>1, <3>4 DEF SerialIInv, OnlyDeletionsAreLost, SameButForDeletion
    <3> QED
      BY <1>1, <1>t, <3>1, <3>2, <3>4, <3>5 DEF SerialIInv, Exists
  <2>4. CASE NoMatch(r) \/ Get(r) \/ StatementFails(r)
    <3>1. rows' = rows /\ call' = call /\ clock' = clock /\ now' = now
      BY <2>4 DEF NoMatch, Get, StatementFails
    <3>2. InFlight' \subseteq InFlight
      BY <2>4, <1>t DEF NoMatch, Get, StatementFails, ReplyOrLoss, Reply, InFlight, SyncTypeOK, TypeOK
    <3> QED
      BY <1>1, <1>t, <3>1, <3>2 DEF SerialIInv, Exists, OnlyDeletionsAreLost,
         SameButForDeletion
  <2> QED
    BY <1>1, <2>1, <2>2, <2>3, <2>4 DEF Serve
<1>2. CASE SyncSince
  <2>1. /\ UNCHANGED vars /\ cursor' \in Nat /\ InFlight' = InFlight
    BY <1>2, PollTypes DEF SyncSince, vars, InFlight
  <2>2. PICK last \in Keys : cursor' = rows[last].at /\ rows[last].at > cursor
    BY <1>2 DEF SyncSince, CursorAfter, Pending
  <2>3. \A k \in Keys : cursor' = rows[k].at => k = last
    <3>1. \A k, l \in Keys : rows[k].at > 0 /\ rows[k].at = rows[l].at => k = l
      BY <1>n DEF SerialIInv, Exists
    <3>2. rows[last].at > 0
      BY <2>2, <1>t DEF SyncTypeOK, TypeOK, Row
    <3> QED
      BY <2>2, <3>1, <3>2
  <2>4. \A k \in Keys : k = last => replica'[k] = rows[k]
    <3>1. PICK page \in Pages, end \in Pending :
            /\ end \in page /\ cursor' = CursorAfter(end)
            /\ replica' = [l \in Keys |-> IF l \in page THEN rows[l] ELSE replica[l]]
      BY <1>2 DEF SyncSince
    <3>2. end = last
      BY <3>1, <2>3 DEF CursorAfter, Pending
    <3> QED
      BY <3>1, <3>2
  <2>5. ASSUME NEW k \in Keys, rows[k].at <= cursor' PROVE SameButForDeletion(k)'
    BY <1>2, <1>n, <2>1, <2>3, <2>4, <2>5, LeftBehind
    DEF SameButForDeletion, SerialIInv, OnlyDeletionsAreLost, vars
  <2>6. cursor' <= clock /\ \A r \in InFlight : cursor' < clock
    BY <2>2 DEF SerialIInv
  <2> QED
    BY <1>t, <2>1, <2>5, <2>6 DEF SerialIInv, OnlyDeletionsAreLost, vars, Exists
<1>3. CASE UNCHANGED syncVars
  BY <1>3, <1>t DEF syncVars, vars, SerialIInv, InFlight, Exists, OnlyDeletionsAreLost,
     SameButForDeletion
<1> QED
  BY <1>1, <1>2, <1>3 DEF SyncNext, Next

(* When writers take turns, deletes included, in distinct microseconds,    *)
(* all that the feed loses behind its cursor is that a row was deleted,    *)
(* for every page size and whatever pages and writes interleave            *)
(* (repository.go:148-177, write.go:49).                                   *)
THEOREM SerialLosesOnlyDeletions ==
  ASSUME IsFiniteSet(Requests), SerialWriters
  PROVE  SyncSpec => []OnlyDeletionsAreLost
<1>1. SyncInit => SerialIInv
  BY SerialInit
<1>2. SyncIInv /\ SerialIInv /\ [SyncNext]_syncVars => SerialIInv'
  BY SerialStep
<1>3. SerialIInv => OnlyDeletionsAreLost
  BY DEF SerialIInv
<1> QED
  BY <1>1, <1>2, <1>3, SyncInductive, PTL DEF SyncSpec

(* And if nothing is ever deleted, it loses nothing: sync.go:27 is true of *)
(* writers that take turns in distinct microseconds and never delete.      *)
THEOREM SerialSyncIsComplete ==
  ASSUME IsFiniteSet(Requests), SerialWriters, \A c \in Calls : c.op # "delete"
  PROVE  SyncSpec => []SyncIsComplete
<1> DEFINE Undeleted == call \in [Requests -> Calls] /\ \A k \in Keys : ~rows[k].gone
<1>1. SyncInit => Undeleted
  BY DEF SyncInit, Init, Absent
<1>2. SyncIInv /\ Undeleted /\ [SyncNext]_syncVars => Undeleted'
  <2> SUFFICES ASSUME SyncIInv, Undeleted, [SyncNext]_syncVars PROVE Undeleted'
    OBVIOUS
  <2>t. TypeOK
    BY DEF SyncIInv, IInv
  <2>1. ASSUME NEW r \in Requests, Serve(r) PROVE Undeleted'
    <3>1. CASE Upsert(r) \/ UpdateActive(r)
      BY <2>t, <3>1, Caller DEF Upsert, UpdateActive, Written, TypeOK
    <3>2. ~SoftDelete(r)
      BY DEF SoftDelete
    <3> QED
      BY <2>1, <3>1, <3>2 DEF Serve, Begin, NoMatch, Get, StatementFails
  <2>2. CASE SyncSince
    BY <2>2 DEF SyncSince, vars
  <2>3. CASE UNCHANGED syncVars
    BY <2>3 DEF syncVars, vars
  <2> QED
    BY <2>1, <2>2, <2>3 DEF SyncNext, Next
<1>3. SyncIInv /\ Undeleted /\ OnlyDeletionsAreLost => SyncIsComplete
  BY DEF SyncIInv, SyncTypeOK, TypeOK, Row, OnlyDeletionsAreLost, SameButForDeletion,
     SyncIsComplete, Missed
<1> QED
  BY <1>1, <1>2, <1>3, SyncInductive, SerialLosesOnlyDeletions, PTL DEF SyncSpec
=============================================================================
