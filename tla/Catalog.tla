------------------------------ MODULE Catalog ------------------------------
(***************************************************************************)
(* The four typed entity tables and the requests that write them: the      *)
(* ingest upserts (POST /ingest/..., and the worker's routing), PATCH, PUT *)
(* and soft DELETE.  Every statement is a transaction of its own.  Its     *)
(* now() is fixed when the transaction starts (Begin), its effect appears  *)
(* later (Upsert, Update, SoftDelete): other transactions can start and    *)
(* commit between the two.  An update is followed by a separate read       *)
(* (Get) that produces the reply.                                          *)
(***************************************************************************)
EXTENDS Integers, FiniteSets

CONSTANTS
  Keys,      \* rows of all four tables: (entity, source, external_id)
  Fields,    \* columns a request can set
  Optional,  \* those a full record may omit: lat, lng, age, quantity
  Values,    \* values of a column
  Null,      \* field omitted, or column NULL
  Requests,  \* the requests of a behaviour
  Calls,     \* what a request may ask for in this instance
  Conns,     \* connections the writers' pools have together
  MinStep    \* 0: two transactions can start in the same microsecond; 1: not

Bodies == [Fields -> Values \cup {Null}]

(* A full record sets every field that is not optional.                    *)
FullBodies == {b \in Bodies : \A f \in Fields \ Optional : b[f] # Null}

Call == [op : {"upsert", "put"}, key : Keys, body : FullBodies]
        \cup [op : {"patch", "delete"}, key : Keys, body : Bodies]

ASSUME CatalogAssumption ==
  /\ Calls \subseteq Call
  /\ Optional \subseteq Fields
  /\ Null \notin Values
  /\ Conns \in Nat \ {0}
  /\ MinStep \in {0, 1}

VARIABLES
  clock,   \* now() of the transaction started last
  rows,    \* rows[k]: updated_at, columns and deleted_at of a row
  call,    \* call[r]: what request r asks for
  stage,   \* stage[r]: how far its handler is
  now,     \* now[r]: now() of its statement
  answer   \* answer[r]: outcome the client is told

vars == <<clock, rows, call, stage, now, answer>>

Row == [at : Nat, body : Bodies, gone : BOOLEAN]

Absent == [at |-> 0, body |-> [f \in Fields |-> Null], gone |-> FALSE]

(* A statement that writes columns sets updated_at = now() and leaves      *)
(* deleted_at alone; a soft delete does the reverse.                       *)
Written(row, at, body) == [at |-> at, body |-> body, gone |-> row.gone]
Deleted(row) == [at |-> row.at, body |-> row.body, gone |-> TRUE]

Exists(k) == rows[k].at > 0
Active(k) == Exists(k) /\ ~rows[k].gone
InFlight  == {r \in Requests : stage[r] = "begun"}

(* Among the types: NOT NULL, a stored row has every mandatory column.     *)
TypeOK ==
  /\ clock \in Nat \ {0}
  /\ rows \in [Keys -> Row]
  /\ \A k \in Keys : Exists(k) => rows[k].body \in FullBodies
  /\ call \in [Requests -> Call]
  /\ stage \in [Requests -> {"new", "begun", "get", "done"}]
  /\ now \in [Requests -> Nat]
  /\ answer \in [Requests -> {"none", "ok", "notfound", "error"}]

Init ==
  /\ clock = 1
  /\ rows = [k \in Keys |-> Absent]
  /\ call \in [Requests -> Calls]
  /\ stage = [r \in Requests |-> "new"]
  /\ now = [r \in Requests |-> 0]
  /\ answer = [r \in Requests |-> "none"]

-----------------------------------------------------------------------------
(* A statement gets a connection and its transaction starts.  An update or *)
(* delete of an id that no row has is a 404 without effect: left out.      *)
Begin(r) ==
  /\ stage[r] = "new"
  /\ Cardinality(InFlight) < Conns
  /\ call[r].op # "upsert" => Exists(call[r].key)
  /\ \E t \in {clock + MinStep, clock + 1} :
       /\ clock' = t
       /\ now' = [now EXCEPT ![r] = t]
  /\ stage' = [stage EXCEPT ![r] = "begun"]
  /\ UNCHANGED <<rows, call, answer>>

Reply(r, outcome) ==
  /\ stage' = [stage EXCEPT ![r] = "done"]
  /\ answer' = [answer EXCEPT ![r] = outcome]

(* A reply that is lost after the commit reaches the client as an error.   *)
ReplyOrLoss(r, outcome) == Reply(r, outcome) \/ Reply(r, "error")

(* Mutant: the upsert clears deleted_at as well.                           *)
UpsertReviving(r) ==
  /\ stage[r] = "begun" /\ call[r].op = "upsert"
  /\ rows' = [rows EXCEPT ![call[r].key] =
                [at |-> now[r], body |-> call[r].body, gone |-> FALSE]]
  /\ ReplyOrLoss(r, "ok")
  /\ UNCHANGED <<clock, call, now>>

(* INSERT ... ON CONFLICT (source, external_id) DO UPDATE: every column    *)
(* but deleted_at is taken from the request.                               *)
Upsert(r) ==
  /\ stage[r] = "begun" /\ call[r].op = "upsert"
  /\ rows' = [rows EXCEPT ![call[r].key] = Written(@, now[r], call[r].body)]
  /\ ReplyOrLoss(r, "ok")
  /\ UNCHANGED <<clock, call, now>>

(* Mutant: col = $n without COALESCE.                                      *)
CoalesceDropped(new, old) == new

Coalesce(new, old) == [f \in Fields |-> IF new[f] = Null THEN old[f] ELSE new[f]]

(* Mutant: the update does not test deleted_at.                            *)
UpdateAny(r) ==
  /\ stage[r] = "begun" /\ call[r].op \in {"patch", "put"}
  /\ Exists(call[r].key)
  /\ rows' = [rows EXCEPT ![call[r].key] =
                Written(@, now[r], Coalesce(call[r].body, @.body))]
  /\ \/ stage' = [stage EXCEPT ![r] = "get"] /\ UNCHANGED answer
     \/ Reply(r, "error")
  /\ UNCHANGED <<clock, call, now>>

(* UPDATE ... WHERE id = $1 AND deleted_at IS NULL, for PATCH and PUT.     *)
UpdateActive(r) ==
  /\ stage[r] = "begun" /\ call[r].op \in {"patch", "put"}
  /\ Active(call[r].key)
  /\ rows' = [rows EXCEPT ![call[r].key] =
                Written(@, now[r], Coalesce(call[r].body, @.body))]
  /\ \/ stage' = [stage EXCEPT ![r] = "get"] /\ UNCHANGED answer
     \/ Reply(r, "error")
  /\ UNCHANGED <<clock, call, now>>

(* Mutant: the delete does not test deleted_at.                            *)
SoftDeleteAny(r) ==
  /\ stage[r] = "begun" /\ call[r].op = "delete"
  /\ Exists(call[r].key)
  /\ rows' = [rows EXCEPT ![call[r].key] = Deleted(@)]
  /\ ReplyOrLoss(r, "ok")
  /\ UNCHANGED <<clock, call, now>>

(* softDelete: deleted_at is set, updated_at is left alone.                *)
SoftDelete(r) ==
  /\ stage[r] = "begun" /\ call[r].op = "delete"
  /\ Active(call[r].key)
  /\ rows' = [rows EXCEPT ![call[r].key] = Deleted(@)]
  /\ ReplyOrLoss(r, "ok")
  /\ UNCHANGED <<clock, call, now>>

(* The WHERE clause matches nothing: ErrNotFound, 404.                     *)
NoMatch(r) ==
  /\ stage[r] = "begun" /\ call[r].op # "upsert"
  /\ ~Active(call[r].key)
  /\ ReplyOrLoss(r, "notfound")
  /\ UNCHANGED <<clock, rows, call, now>>

(* Mutant: the read looks for the version the update wrote.                *)
GetOwnVersion(r) ==
  /\ stage[r] = "get"
  /\ Reply(r, IF rows[call[r].key].at = now[r] THEN "ok" ELSE "notfound")
  /\ UNCHANGED <<clock, rows, call, now>>

(* GetProject & co. after the update: the record, or 404 if it went away.  *)
Get(r) ==
  /\ stage[r] = "get"
  /\ Reply(r, IF Active(call[r].key) THEN "ok" ELSE "notfound") \/ Reply(r, "error")
  /\ UNCHANGED <<clock, rows, call, now>>

(* The statement has no effect: database error, or cancelled request.      *)
StatementFails(r) ==
  /\ stage[r] = "begun"
  /\ Reply(r, "error")
  /\ UNCHANGED <<clock, rows, call, now>>

Serve(r) ==
  \/ Begin(r) \/ Upsert(r) \/ UpdateActive(r) \/ SoftDelete(r)
  \/ NoMatch(r) \/ Get(r) \/ StatementFails(r)

Next == \E r \in Requests : Serve(r)

Spec == Init /\ [][Next]_vars

-----------------------------------------------------------------------------
(* No later write, upsert included, brings a soft-deleted row back, so a   *)
(* deletion that was acknowledged stays (write.go:49, repository.go:79).   *)
DeletedStaysDeleted == [][\A k \in Keys : rows[k].gone => rows'[k].gone]_vars

(* Of any number of concurrent DELETEs of a row one is told 204: the test  *)
(* and the change of deleted_at are one statement (write.go:49).           *)
OneDeleteSucceeds ==
  \A r, s \in Requests :
    (/\ call[r].op = "delete" /\ call[s].op = "delete"
     /\ call[r].key = call[s].key
     /\ answer[r] = "ok" /\ answer[s] = "ok") => r = s

(* A 404 is only told of a row that is deleted for good, also by the read  *)
(* that follows an update (write.go:92, read.go GetProject).               *)
NotFoundMeansGone ==
  \A r \in Requests : answer[r] = "notfound" => rows[call[r].key].gone

(* Concurrent partial updates do not lose each other's columns: a column   *)
(* only changes to the value some request in flight sets it to, and no     *)
(* update nulls a column it leaves out (COALESCE, write.go:79-140).        *)
UpdatesMergeByColumn ==
  [][\A k \in Keys, f \in Fields :
       rows'[k].body[f] # rows[k].body[f] =>
         \E r \in InFlight :
           /\ call[r].key = k /\ call[r].body[f] = rows'[k].body[f]
           /\ call[r].op # "upsert" => call[r].body[f] # Null]_vars

(* PATCH and PUT never change a row that a DELETE has won against, however *)
(* their statements interleave (WHERE deleted_at IS NULL).                 *)
UpdatesSpareDeletedRows ==
  [][\A k \in Keys : rows[k].gone /\ rows'[k] # rows[k] =>
       \E r \in InFlight : call[r].op = "upsert" /\ call[r].key = k]_vars

(* The strengthening that makes the properties above inductive: what a     *)
(* request knows of the row it names.                                      *)
RequestsAreSound ==
  \A r \in Requests :
    /\ stage[r] = "begun" => now[r] > 0
    /\ stage[r] # "new" /\ call[r].op # "upsert" => Exists(call[r].key)
    /\ stage[r] \in {"new", "begun"} => answer[r] = "none"
    /\ stage[r] = "get" => call[r].op \in {"patch", "put"}
    /\ answer[r] = "ok" /\ call[r].op = "delete" => rows[call[r].key].gone

IInv == TypeOK /\ RequestsAreSound /\ OneDeleteSucceeds /\ NotFoundMeansGone

(* write.go:15-16, handler.go:147 and write_test.go:47: a PUT that the     *)
(* database applied replaces the full record.                              *)
PutReplacesRecord ==
  [][\A r \in InFlight : call[r].op = "put" /\ stage'[r] = "get" =>
       rows'[call[r].key].body = call[r].body]_vars
=============================================================================
