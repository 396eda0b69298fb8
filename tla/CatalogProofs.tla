--------------------------- MODULE CatalogProofs ---------------------------
(***************************************************************************)
(* Machine-checked proofs about Catalog, for any number of rows, columns,  *)
(* requests and connections.                                               *)
(***************************************************************************)
EXTENDS Catalog, TLAPS

(* COALESCE keeps mandatory columns and yields a row body.                 *)
LEMMA CoalesceType ==
  ASSUME NEW new \in Bodies, NEW old \in FullBodies
  PROVE  Coalesce(new, old) \in FullBodies
BY CatalogAssumption DEF Coalesce, Bodies, FullBodies

(* What a request may ask for: a key, and a body of the right kind.        *)
LEMMA CallType ==
  ASSUME NEW c \in Call
  PROVE  /\ c.key \in Keys /\ c.body \in Bodies
         /\ c.op \in {"upsert", "put", "patch", "delete"}
         /\ c.op \in {"upsert", "put"} => c.body \in FullBodies
BY DEF Call, FullBodies

(* Rows stay rows, whichever statement writes them.                        *)
LEMMA RowType ==
  ASSUME NEW row \in Row, NEW at \in Nat, NEW body \in Bodies
  PROVE  Written(row, at, body) \in Row /\ Deleted(row) \in Row
BY DEF Written, Deleted, Row

(* The invariant holds in the empty catalog.                               *)
LEMMA CatalogInit == Init => IInv
<1> SUFFICES ASSUME Init PROVE IInv
  OBVIOUS
<1>1. TypeOK
  BY CatalogAssumption DEF Init, TypeOK, Absent, Row, Bodies, Exists
<1>2. RequestsAreSound /\ OneDeleteSucceeds /\ NotFoundMeansGone
  BY DEF Init, RequestsAreSound, OneDeleteSucceeds, NotFoundMeansGone
<1> QED
  BY <1>1, <1>2 DEF IInv

(* Facts about the request that takes a step.                              *)
LEMMA Caller ==
  ASSUME TypeOK, NEW r \in Requests
  PROVE  /\ call[r].key \in Keys /\ call[r].body \in Bodies
         /\ call[r].op \in {"upsert", "put", "patch", "delete"}
         /\ call[r].op \in {"upsert", "put"} => call[r].body \in FullBodies
         /\ rows[call[r].key] \in Row /\ now[r] \in Nat
BY CallType DEF TypeOK

(* Every statement keeps the types, NOT NULL columns included.             *)
LEMMA CatalogTypeStep == IInv /\ [Next]_vars => TypeOK'
<1> SUFFICES ASSUME IInv, [Next]_vars PROVE TypeOK'
  OBVIOUS
<1> USE CatalogAssumption DEF IInv
<1>1. ASSUME NEW r \in Requests, Begin(r) PROVE TypeOK'
  BY <1>1 DEF TypeOK, Begin, Exists
<1>2. ASSUME NEW r \in Requests, Upsert(r) PROVE TypeOK'
  <2>1. Written(rows[call[r].key], now[r], call[r].body) \in Row
    BY Caller, RowType
  <2>2. call[r].body \in FullBodies
    BY <1>2, Caller DEF Upsert
  <2>3. rows' \in [Keys -> Row] /\ \A k \in Keys : Exists(k)' => rows'[k].body \in FullBodies
    BY <1>2, <2>1, <2>2, Caller DEF Upsert, TypeOK, Exists, Written
  <2>4. stage' \in [Requests -> {"new", "begun", "get", "done"}]
        /\ answer' \in [Requests -> {"none", "ok", "notfound", "error"}]
    BY <1>2 DEF Upsert, TypeOK, ReplyOrLoss, Reply
  <2> QED
    BY <1>2, <2>3, <2>4 DEF Upsert, TypeOK, Exists
<1>3. ASSUME NEW r \in Requests, UpdateActive(r) PROVE TypeOK'
  <2> DEFINE body == Coalesce(call[r].body, rows[call[r].key].body)
  <2>1. body \in FullBodies /\ body \in Bodies
    BY <1>3, Caller, CoalesceType DEF UpdateActive, Active, TypeOK, FullBodies
  <2>2. Written(rows[call[r].key], now[r], body) \in Row
    BY <2>1, Caller, RowType
  <2>3. rows' \in [Keys -> Row] /\ \A k \in Keys : Exists(k)' => rows'[k].body \in FullBodies
    <3> HIDE DEF body
    <3> QED
      BY <1>3, <2>1, <2>2, Caller DEF UpdateActive, TypeOK, Exists, Written, body
  <2>4. stage' \in [Requests -> {"new", "begun", "get", "done"}]
        /\ answer' \in [Requests -> {"none", "ok", "notfound", "error"}]
    BY <1>3 DEF UpdateActive, TypeOK, Reply
  <2> QED
    BY <1>3, <2>3, <2>4 DEF UpdateActive, TypeOK, Exists
<1>4. ASSUME NEW r \in Requests, SoftDelete(r) PROVE TypeOK'
  <2>1. Deleted(rows[call[r].key]) \in Row
    BY Caller, RowType
  <2>2. rows' \in [Keys -> Row] /\ \A k \in Keys : Exists(k)' => rows'[k].body \in FullBodies
    BY <1>4, <2>1, Caller DEF SoftDelete, TypeOK, Exists, Deleted
  <2>3. stage' \in [Requests -> {"new", "begun", "get", "done"}]
        /\ answer' \in [Requests -> {"none", "ok", "notfound", "error"}]
    BY <1>4 DEF SoftDelete, TypeOK, ReplyOrLoss, Reply
  <2> QED
    BY <1>4, <2>2, <2>3 DEF SoftDelete, TypeOK, Exists
<1>5. ASSUME NEW r \in Requests, NoMatch(r) \/ Get(r) \/ StatementFails(r) PROVE TypeOK'
  BY <1>5 DEF TypeOK, NoMatch, Get, StatementFails, ReplyOrLoss, Reply, Exists
<1>6. CASE UNCHANGED vars
  BY <1>6 DEF TypeOK, vars, Exists
<1> QED
  BY <1>1, <1>2, <1>3, <1>4, <1>5, <1>6 DEF Next, Serve

(* No statement removes a row or brings a deleted one back.                *)
LEMMA RowsOnlyGrow ==
  ASSUME IInv, [Next]_vars, NEW k \in Keys
  PROVE  /\ Exists(k) => Exists(k)'
         /\ rows[k].gone => rows'[k].gone
<1> USE DEF IInv
<1>1. ASSUME NEW r \in Requests, Upsert(r) \/ UpdateActive(r)
      PROVE  (Exists(k) => Exists(k)') /\ (rows[k].gone => rows'[k].gone)
  <2>1. now[r] > 0 /\ now[r] \in Nat
    BY <1>1, Caller DEF RequestsAreSound, Upsert, UpdateActive
  <2>2. rows'[k] = rows[k] \/ (rows'[k].at = now[r] /\ rows'[k].gone = rows[k].gone)
    BY <1>1, Caller DEF Upsert, UpdateActive, TypeOK, Written
  <2> QED
    BY <2>1, <2>2 DEF Exists
<1>2. ASSUME NEW r \in Requests, SoftDelete(r)
      PROVE  (Exists(k) => Exists(k)') /\ (rows[k].gone => rows'[k].gone)
  BY <1>2, Caller DEF SoftDelete, TypeOK, Exists, Deleted
<1>3. ASSUME NEW r \in Requests, Begin(r) \/ NoMatch(r) \/ Get(r) \/ StatementFails(r)
      PROVE  rows' = rows
  BY <1>3 DEF Begin, NoMatch, Get, StatementFails
<1>4. CASE UNCHANGED vars
  BY <1>4 DEF vars, Exists
<1> QED
  BY <1>1, <1>2, <1>3, <1>4 DEF Next, Serve, Exists

(* What every request knows of its row survives every step of every other. *)
LEMMA CatalogStep == IInv /\ [Next]_vars => IInv'
<1> SUFFICES ASSUME IInv, [Next]_vars PROVE IInv'
  OBVIOUS
<1>t. TypeOK /\ TypeOK'
  BY CatalogTypeStep DEF IInv
<1>c. call' = call
  BY DEF Next, Serve, Begin, Upsert, UpdateActive, SoftDelete, NoMatch, Get, StatementFails, vars
<1>g. \A k \in Keys : (Exists(k) => Exists(k)') /\ (rows[k].gone => rows'[k].gone)
  BY RowsOnlyGrow
<1>k. \A x \in Requests : call[x].key \in Keys /\ call[x].op \in {"upsert", "put", "patch", "delete"}
  BY <1>t, Caller
<1> DEFINE Sound(x) ==
      /\ stage[x] = "begun" => now[x] > 0
      /\ stage[x] # "new" /\ call[x].op # "upsert" => Exists(call[x].key)
      /\ stage[x] \in {"new", "begun"} => answer[x] = "none"
      /\ stage[x] = "get" => call[x].op \in {"patch", "put"}
      /\ answer[x] = "ok" /\ call[x].op = "delete" => rows[call[x].key].gone
      /\ answer[x] = "notfound" => rows[call[x].key].gone
<1>s. \A x \in Requests : Sound(x)
  BY DEF IInv, RequestsAreSound, NotFoundMeansGone
<1>o. ASSUME NEW x \in Requests,
             stage'[x] = stage[x], now'[x] = now[x], answer'[x] = answer[x]
      PROVE  Sound(x)'
  BY <1>o, <1>s, <1>c, <1>g, <1>k
<1>1. ASSUME NEW r \in Requests, Serve(r), NEW x \in Requests PROVE Sound(x)'
  <2>1. CASE x # r
    BY <1>1, <2>1, <1>o, <1>t
    DEF Serve, Begin, Upsert, UpdateActive, SoftDelete, NoMatch, Get, StatementFails,
        ReplyOrLoss, Reply, TypeOK
  <2>2. CASE x = r
    <3> USE <2>2, <1>s, <1>c, <1>g, <1>k, <1>t
    <3>1. CASE Begin(r)
      BY <3>1 DEF Begin, TypeOK, Exists
    <3>2. CASE Upsert(r)
      BY <3>2 DEF Upsert, ReplyOrLoss, Reply, TypeOK
    <3>3. CASE UpdateActive(r)
      BY <3>3 DEF UpdateActive, Reply, TypeOK
    <3>4. CASE SoftDelete(r)
      <4>1. rows'[call[r].key].gone
        BY <3>4, Caller DEF SoftDelete, Deleted, TypeOK
      <4> QED
        BY <3>4, <4>1 DEF SoftDelete, ReplyOrLoss, Reply, TypeOK
    <3>5. CASE NoMatch(r)
      BY <3>5 DEF NoMatch, ReplyOrLoss, Reply, TypeOK, Active
    <3>6. CASE Get(r)
      BY <3>6 DEF Get, Reply, TypeOK, Active
    <3>7. CASE StatementFails(r)
      BY <3>7 DEF StatementFails, Reply, TypeOK
    <3> QED
      BY <1>1, <3>1, <3>2, <3>3, <3>4, <3>5, <3>6, <3>7 DEF Serve
  <2> QED
    BY <2>1, <2>2
<1>2. \A x \in Requests : Sound(x)'
  <2>1. CASE UNCHANGED vars
    BY <2>1, <1>o DEF vars
  <2> QED
    BY <1>1, <2>1 DEF Next
<1>3. OneDeleteSucceeds'
  <2> SUFFICES ASSUME NEW x \in Requests, NEW y \in Requests,
                      call[x].op = "delete", call[y].op = "delete", call[x].key = call[y].key,
                      answer'[x] = "ok", answer'[y] = "ok", x # y
               PROVE  FALSE
    BY <1>c DEF OneDeleteSucceeds
  <2>1. ~(answer[x] = "ok" /\ answer[y] = "ok")
    BY DEF IInv, OneDeleteSucceeds
  <2>2. ASSUME NEW r \in Requests, NEW z \in Requests, Serve(r), call[z].op = "delete",
               answer'[z] = "ok", answer[z] # "ok"
        PROVE  z = r /\ SoftDelete(r)
    BY <2>2, <1>t, <1>s
    DEF Serve, Begin, Upsert, UpdateActive, SoftDelete, NoMatch, Get, StatementFails,
        ReplyOrLoss, Reply, TypeOK
  <2>3. ASSUME NEW r \in Requests, Serve(r) PROVE FALSE
    <3>1. SoftDelete(r) /\ (r = x \/ r = y)
      BY <2>1, <2>2, <2>3
    <3>2. ~rows[call[x].key].gone
      BY <3>1 DEF SoftDelete, Active
    <3>3. answer[x] # "ok" /\ answer[y] # "ok"
      BY <3>2, <1>s
    <3>4. x = r /\ y = r
      BY <2>2, <2>3, <3>3
    <3> QED
      BY <3>4
  <2>4. CASE UNCHANGED vars
    BY <2>4, <2>1 DEF vars
  <2> QED
    BY <2>3, <2>4 DEF Next
<1> QED
  BY <1>t, <1>2, <1>3 DEF IInv, RequestsAreSound, NotFoundMeansGone

(* The inductive invariant of the catalog.                                 *)
THEOREM CatalogInductive == Spec => []IInv
BY CatalogInit, CatalogStep, PTL DEF Spec

(* Of concurrent deletes of a row at most one is told 204 (write.go:49).   *)
THEOREM AtMostOneDeleteSucceeds == Spec => []OneDeleteSucceeds
BY CatalogInductive, PTL DEF IInv

(* A 404 is only told of a row that stays deleted (write.go:72-92).        *)
THEOREM NotFoundIsFinal == Spec => []NotFoundMeansGone
BY CatalogInductive, PTL DEF IInv

(* No statement, upserts included, brings a deleted row back.              *)
THEOREM DeletionIsForever == Spec => DeletedStaysDeleted
<1> DEFINE Stays == \A k \in Keys : rows[k].gone => rows'[k].gone
<1>1. IInv /\ [Next]_vars => [Stays]_vars
  BY RowsOnlyGrow
<1> QED
  BY <1>1, CatalogInductive, PTL DEF Spec, DeletedStaysDeleted

(* Type correctness, a stored row's mandatory columns included.            *)
THEOREM CatalogTypeCorrect == Spec => []TypeOK
BY CatalogInductive, PTL DEF IInv

(* Which request a row's change comes from, and what the row becomes.      *)
LEMMA RowChange ==
  ASSUME IInv, [Next]_vars, NEW k \in Keys, rows'[k] # rows[k]
  PROVE  \E r \in InFlight :
           /\ call[r].key = k
           /\ \/ call[r].op = "upsert" /\ rows'[k].body = call[r].body
              \/ /\ call[r].op \in {"patch", "put"} /\ ~rows[k].gone
                 /\ rows'[k].body = Coalesce(call[r].body, rows[k].body)
              \/ call[r].op = "delete" /\ ~rows[k].gone /\ rows'[k].body = rows[k].body
<1> USE DEF IInv
<1>1. PICK r \in Requests : Upsert(r) \/ UpdateActive(r) \/ SoftDelete(r)
  BY DEF Next, Serve, Begin, NoMatch, Get, StatementFails, vars
<1>2. r \in InFlight /\ call[r].key = k
  BY <1>1, Caller DEF InFlight, Upsert, UpdateActive, SoftDelete, TypeOK
<1>3. CASE Upsert(r)
  BY <1>2, <1>3, Caller DEF Upsert, Written, TypeOK
<1>4. CASE UpdateActive(r)
  BY <1>2, <1>4, Caller DEF UpdateActive, Active, Written, TypeOK
<1>5. CASE SoftDelete(r)
  BY <1>2, <1>5, Caller DEF SoftDelete, Active, Deleted, TypeOK
<1> QED
  BY <1>1, <1>2, <1>3, <1>4, <1>5

(* PATCH and PUT leave a deleted row alone, for any number of requests.    *)
THEOREM UpdatesNeverReachDeletedRows == Spec => UpdatesSpareDeletedRows
<1> DEFINE Spares == \A k \in Keys : rows[k].gone /\ rows'[k] # rows[k] =>
                       \E r \in InFlight : call[r].op = "upsert" /\ call[r].key = k
<1>1. IInv /\ [Next]_vars => [Spares]_vars
  BY RowChange
<1> QED
  BY <1>1, CatalogInductive, PTL DEF Spec, UpdatesSpareDeletedRows

(* Concurrent partial updates merge column by column.                      *)
THEOREM PartialUpdatesMerge == Spec => UpdatesMergeByColumn
<1> DEFINE Merges == \A k \in Keys, f \in Fields :
                       rows'[k].body[f] # rows[k].body[f] =>
                         \E r \in InFlight :
                           /\ call[r].key = k /\ call[r].body[f] = rows'[k].body[f]
                           /\ call[r].op # "upsert" => call[r].body[f] # Null
<1>1. IInv /\ [Next]_vars => [Merges]_vars
  <2> SUFFICES ASSUME IInv, [Next]_vars, NEW k \in Keys, NEW f \in Fields,
                      rows'[k].body[f] # rows[k].body[f]
               PROVE  \E r \in InFlight :
                        /\ call[r].key = k /\ call[r].body[f] = rows'[k].body[f]
                        /\ call[r].op # "upsert" => call[r].body[f] # Null
    OBVIOUS
  <2>1. rows'[k] # rows[k]
    OBVIOUS
  <2>2. PICK r \in InFlight :
           /\ call[r].key = k
           /\ \/ call[r].op = "upsert" /\ rows'[k].body = call[r].body
              \/ /\ call[r].op \in {"patch", "put"}
                 /\ rows'[k].body = Coalesce(call[r].body, rows[k].body)
    BY <2>1, RowChange
  <2> QED
    BY <2>2 DEF Coalesce
<1> QED
  BY <1>1, CatalogInductive, PTL DEF Spec, UpdatesMergeByColumn
=============================================================================
