-------------------------- MODULE WebhookPipeline --------------------------
(***************************************************************************)
(* Asynchronous webhook ingestion: POST /webhooks/{source} writes the raw  *)
(* body to webhooks_log and inserts a River job in one transaction; worker *)
(* processes fetch the job, upsert the typed row, record an event and mark *)
(* the log row processed.  One step per database call, so that an error, a *)
(* lost reply or a process crash can land between any two of them.         *)
(*                                                                         *)
(* The job table, its retry and its rescue are River's (external); they    *)
(* are modelled by what internal/jobs relies on: one execution of a job at *)
(* a time, a job of a dead process is rescued, an error is retried until   *)
(* MaxAttempts and then the job is discarded.                              *)
(***************************************************************************)
EXTENDS Integers, FiniteSets

CONSTANTS
  Webhooks,     \* one per POST: the id webhooks_log would give its row
  Workers,      \* worker processes (cmd/worker)
  Keys,         \* identities (table, source, external_id) named by a payload
  NoKey,        \* payload without external_id
  NoRow,        \* no row stored under an identity
  NoWorker,     \* job executed by nobody
  Payloads,     \* bodies the senders use in this instance
  MaxAttempts,  \* River's attempts per job (25 in production)
  MaxWorkers    \* River's concurrent executions per process (10)

Fates == {"entity", "poison", "unrouted", "notjson"}

(* "entity": one of the four typed entities, accepted by its table;        *)
(* "poison": typed, but refused by a column (age beyond int4); "unrouted": *)
(* unknown entity or fields of the wrong type; "notjson": refused by the   *)
(* jsonb column of webhooks_log.                                           *)
Payload == [fate : Fates, key : Keys \cup {NoKey}]

ASSUME PayloadAssumption == Payloads \subseteq Payload
ASSUME SentinelAssumption ==
  NoRow \notin Webhooks /\ NoWorker \notin Workers /\ NoKey \notin Keys
ASSUME IdentityAssumption == Keys \cap Webhooks = {}
ASSUME LimitAssumption == MaxAttempts \in Nat \ {0} /\ MaxWorkers \in Nat \ {0}

VARIABLES
  payload,   \* payload[w]: the body of the request
  api,       \* api[w]: progress of the handler that serves the request
  log,       \* log[w]: the committed webhooks_log row
  job,       \* job[w]: state of the committed river_job row
  attempt,   \* attempt[w]: attempts River has started for the job
  pc,        \* pc[w]: next database call of the execution of the job
  host,      \* host[w]: process that executes the job
  up,        \* up[v]: life cycle of a worker process
  rows,      \* rows[k]: webhook whose content the typed row k holds
  writes,    \* writes[w]: times the typed row was written for w
  events     \* events[w]: rows of the events table recorded for w

logVars  == <<log, job>>
execVars == <<attempt, pc, host, up>>
dataVars == <<rows, writes, events>>
vars == <<payload, api, log, job, attempt, pc, host, up, rows, writes, events>>

Identities == Keys \cup Webhooks

(* firstNonEmpty(p.ExternalID, args.WebhookID): a delivery without an      *)
(* external_id is keyed by the id of its own log row.                      *)
Target(w) == IF payload[w].key = NoKey THEN w ELSE payload[w].key

Is(w, fate) == payload[w].fate = fate

Hosted(v) == {w \in Webhooks : host[w] = v}

ApiStates  == {"idle", "begun", "logged", "jobbed", "acked", "failed"}
LogStates  == {"none", "queued", "processed"}
JobStates  == {"none", "available", "running", "retryable", "completed", "discarded"}
ExecStates == {"none", "load", "route", "event", "mark", "ok", "err"}
UpStates   == {"down", "up", "stopping"}

TypeOK ==
  /\ payload \in [Webhooks -> Payload]
  /\ api \in [Webhooks -> ApiStates]
  /\ log \in [Webhooks -> LogStates]
  /\ job \in [Webhooks -> JobStates]
  /\ attempt \in [Webhooks -> Nat]
  /\ pc \in [Webhooks -> ExecStates]
  /\ host \in [Webhooks -> Workers \cup {NoWorker}]
  /\ up \in [Workers -> UpStates]
  /\ rows \in [Identities -> Webhooks \cup {NoRow}]
  /\ writes \in [Webhooks -> Nat]
  /\ events \in [Webhooks -> Nat]

Init ==
  /\ payload \in [Webhooks -> Payloads]
  /\ api = [w \in Webhooks |-> "idle"]
  /\ log = [w \in Webhooks |-> "none"]
  /\ job = [w \in Webhooks |-> "none"]
  /\ attempt = [w \in Webhooks |-> 0]
  /\ pc = [w \in Webhooks |-> "none"]
  /\ host = [w \in Webhooks |-> NoWorker]
  /\ up = [v \in Workers |-> "down"]
  /\ rows = [k \in Identities |-> NoRow]
  /\ writes = [w \in Webhooks |-> 0]
  /\ events = [w \in Webhooks |-> 0]

-----------------------------------------------------------------------------
(* Enqueuer.EnqueueWebhook, in the API process.  Nothing of the open       *)
(* transaction is visible before Commit.                                   *)

Begin(w) ==
  /\ api[w] = "idle"
  /\ api' = [api EXCEPT ![w] = "begun"]
  /\ UNCHANGED <<payload, logVars, execVars, dataVars>>

InsertLog(w) ==
  /\ api[w] = "begun"
  /\ ~Is(w, "notjson")
  /\ api' = [api EXCEPT ![w] = "logged"]
  /\ UNCHANGED <<payload, logVars, execVars, dataVars>>

(* Mutant: the job is inserted outside the transaction of its log row.     *)
InsertJobOutsideTx(w) ==
  /\ api[w] = "logged"
  /\ api' = [api EXCEPT ![w] = "jobbed"]
  /\ job' = [job EXCEPT ![w] = "available"]
  /\ UNCHANGED <<payload, log, execVars, dataVars>>

InsertJob(w) ==
  /\ api[w] = "logged"
  /\ api' = [api EXCEPT ![w] = "jobbed"]
  /\ UNCHANGED <<payload, logVars, execVars, dataVars>>

(* The reply to COMMIT, or the 202, can be lost after the commit took      *)
(* effect: the sender then sees a failure ("failed").                      *)
Commit(w) ==
  /\ api[w] = "jobbed"
  /\ api' \in {[api EXCEPT ![w] = "acked"], [api EXCEPT ![w] = "failed"]}
  /\ log' = [log EXCEPT ![w] = "queued"]
  /\ job' = [job EXCEPT ![w] = "available"]
  /\ UNCHANGED <<payload, execVars, dataVars>>

(* Mutant: the error of the transaction is dropped and 202 is answered.    *)
RollbackAccepted(w) ==
  /\ api[w] \in {"begun", "logged", "jobbed"}
  /\ api' = [api EXCEPT ![w] = "acked"]
  /\ UNCHANGED <<payload, logVars, execVars, dataVars>>

(* Any error before the commit took effect, or a crash of the API process: *)
(* the deferred Rollback, or the server, drops the transaction; 500.       *)
Rollback(w) ==
  /\ api[w] \in {"begun", "logged", "jobbed"}
  /\ api' = [api EXCEPT ![w] = "failed"]
  /\ UNCHANGED <<payload, logVars, execVars, dataVars>>

-----------------------------------------------------------------------------
(* River.                                                                  *)

Fetch(w, v) ==
  /\ job[w] = "available"
  /\ up[v] = "up"
  /\ Cardinality(Hosted(v)) < MaxWorkers
  /\ job' = [job EXCEPT ![w] = "running"]
  /\ attempt' = [attempt EXCEPT ![w] = @ + 1]
  /\ host' = [host EXCEPT ![w] = v]
  /\ pc' = [pc EXCEPT ![w] = "load"]
  /\ UNCHANGED <<payload, api, log, up, dataVars>>

(* River's scheduler, run by a started client, ends the backoff.           *)
Schedule(w) ==
  /\ job[w] = "retryable"
  /\ \E v \in Workers : up[v] = "up"
  /\ job' = [job EXCEPT ![w] = "available"]
  /\ UNCHANGED <<payload, api, log, execVars, dataVars>>

AfterFailure(w) == IF attempt[w] < MaxAttempts THEN "retryable" ELSE "discarded"

(* River's rescuer: a job still "running" whose process is gone.           *)
Rescue(w) ==
  /\ job[w] = "running"
  /\ host[w] = NoWorker
  /\ \E v \in Workers : up[v] = "up"
  /\ job' = [job EXCEPT ![w] = AfterFailure(w)]
  /\ UNCHANGED <<payload, api, log, execVars, dataVars>>

(* Work returned: its result is recorded in the job row.                   *)
Finish(w) ==
  /\ \/ pc[w] = "ok"  /\ job' = [job EXCEPT ![w] = "completed"]
     \/ pc[w] = "err" /\ job' = [job EXCEPT ![w] = AfterFailure(w)]
  /\ pc' = [pc EXCEPT ![w] = "none"]
  /\ host' = [host EXCEPT ![w] = NoWorker]
  /\ UNCHANGED <<payload, api, log, attempt, up, dataVars>>

-----------------------------------------------------------------------------
(* WebhookProcessWorker.Work, one database call per step.  A call that     *)
(* took effect may still return an error (lost reply, cancelled context):  *)
(* the execution then goes to "err" instead of the next call.              *)

Proceed(w, next) ==
  \/ pc' = [pc EXCEPT ![w] = next]
  \/ pc' = [pc EXCEPT ![w] = "err"]

(* Mutant: Work does not look at log.Processed.                            *)
LoadUnguarded(w) ==
  /\ pc[w] = "load"
  /\ pc' = [pc EXCEPT ![w] = "route"]
  /\ UNCHANGED <<payload, api, logVars, attempt, host, up, dataVars>>

Load(w) ==
  /\ pc[w] = "load"
  /\ \/ log[w] = "processed" /\ pc' = [pc EXCEPT ![w] = "ok"]
     \/ log[w] = "queued" /\ pc' = [pc EXCEPT ![w] = "route"]
  /\ UNCHANGED <<payload, api, logVars, attempt, host, up, dataVars>>

RouteUnrouted(w) ==
  /\ pc[w] = "route"
  /\ Is(w, "unrouted")
  /\ pc' = [pc EXCEPT ![w] = "event"]
  /\ UNCHANGED <<payload, api, logVars, attempt, host, up, dataVars>>

(* Mutant: Work repeats the upsert until it returns no error.              *)
RouteUpsertInPlace(w) ==
  /\ pc[w] = "route"
  /\ Is(w, "entity")
  /\ rows' = [rows EXCEPT ![Target(w)] = w]
  /\ writes' = [writes EXCEPT ![w] = @ + 1]
  /\ pc' \in {[pc EXCEPT ![w] = "event"], pc}
  /\ UNCHANGED <<payload, api, logVars, attempt, host, up, events>>

RouteUpsert(w) ==
  /\ pc[w] = "route"
  /\ Is(w, "entity")
  /\ rows' = [rows EXCEPT ![Target(w)] = w]
  /\ writes' = [writes EXCEPT ![w] = @ + 1]
  /\ Proceed(w, "event")
  /\ UNCHANGED <<payload, api, logVars, attempt, host, up, events>>

(* Mutant: Work repeats the call until it returns no error.                *)
RecordEventInPlace(w) ==
  /\ pc[w] = "event"
  /\ events' = [events EXCEPT ![w] = @ + 1]
  /\ pc' \in {[pc EXCEPT ![w] = "mark"], pc}
  /\ UNCHANGED <<payload, api, logVars, attempt, host, up, rows, writes>>

RecordEvent(w) ==
  /\ pc[w] = "event"
  /\ events' = [events EXCEPT ![w] = @ + 1]
  /\ Proceed(w, "mark")
  /\ UNCHANGED <<payload, api, logVars, attempt, host, up, rows, writes>>

MarkWebhookProcessed(w) ==
  /\ pc[w] = "mark"
  /\ log' = [log EXCEPT ![w] = "processed"]
  /\ Proceed(w, "ok")
  /\ UNCHANGED <<payload, api, job, attempt, host, up, dataVars>>

(* Mutant: an error of RecordEvent is logged and ignored.                  *)
EventErrorIgnored(w) ==
  /\ \/ pc[w] \in {"load", "mark"} /\ pc' = [pc EXCEPT ![w] = "err"]
     \/ pc[w] = "route" /\ ~Is(w, "unrouted") /\ pc' = [pc EXCEPT ![w] = "err"]
     \/ pc[w] = "event" /\ pc' = [pc EXCEPT ![w] = "mark"]
  /\ UNCHANGED <<payload, api, logVars, attempt, host, up, dataVars>>

(* Mutant: an error of MarkWebhookProcessed is ignored.                    *)
MarkErrorIgnored(w) ==
  /\ \/ pc[w] \in {"load", "event"} /\ pc' = [pc EXCEPT ![w] = "err"]
     \/ pc[w] = "route" /\ ~Is(w, "unrouted") /\ pc' = [pc EXCEPT ![w] = "err"]
     \/ pc[w] = "mark" /\ pc' = [pc EXCEPT ![w] = "ok"]
  /\ UNCHANGED <<payload, api, logVars, attempt, host, up, dataVars>>

(* The call fails without effect: database down, pool exhausted, context   *)
(* cancelled by SIGTERM or by the job timeout, a value the table refuses.  *)
(* Routing an unrouted payload makes no call.                              *)
CallFails(w) ==
  /\ \/ pc[w] \in {"load", "event", "mark"}
     \/ pc[w] = "route" /\ ~Is(w, "unrouted")
  /\ pc' = [pc EXCEPT ![w] = "err"]
  /\ UNCHANGED <<payload, api, logVars, attempt, host, up, dataVars>>

Work(w) ==
  \/ Load(w) \/ RouteUnrouted(w) \/ RouteUpsert(w)
  \/ RecordEvent(w) \/ MarkWebhookProcessed(w) \/ CallFails(w)

-----------------------------------------------------------------------------
(* Life of a worker process (cmd/worker).                                  *)

Start(v) ==
  /\ up[v] = "down"
  /\ up' = [up EXCEPT ![v] = "up"]
  /\ UNCHANGED <<payload, api, logVars, attempt, pc, host, dataVars>>

(* SIGTERM cancels the context given to client.Start: no further fetch.    *)
Stop(v) ==
  /\ up[v] = "up"
  /\ up' = [up EXCEPT ![v] = "stopping"]
  /\ UNCHANGED <<payload, api, logVars, attempt, pc, host, dataVars>>

(* client.Stop returned: every execution has been recorded.                *)
Exit(v) ==
  /\ up[v] = "stopping"
  /\ Hosted(v) = {}
  /\ up' = [up EXCEPT ![v] = "down"]
  /\ UNCHANGED <<payload, api, logVars, attempt, pc, host, dataVars>>

(* The process dies, or gives up waiting after the 30 s of shutdownCtx:    *)
(* what it executed stops where it was, its jobs stay "running".           *)
Crash(v) ==
  /\ up[v] # "down"
  /\ up' = [up EXCEPT ![v] = "down"]
  /\ pc' = [w \in Webhooks |-> IF host[w] = v THEN "none" ELSE pc[w]]
  /\ host' = [w \in Webhooks |-> IF host[w] = v THEN NoWorker ELSE host[w]]
  /\ UNCHANGED <<payload, api, logVars, attempt, dataVars>>

-----------------------------------------------------------------------------
EnqueueWebhook(w) == Begin(w) \/ InsertLog(w) \/ InsertJob(w) \/ Commit(w) \/ Rollback(w)
River(w) == Schedule(w) \/ Rescue(w) \/ Finish(w) \/ \E v \in Workers : Fetch(w, v)
Process(v) == Start(v) \/ Stop(v) \/ Exit(v) \/ Crash(v)

Next ==
  \/ \E w \in Webhooks : EnqueueWebhook(w) \/ River(w) \/ Work(w)
  \/ \E v \in Workers : Process(v)

(* The orchestrator restarts a worker, a stop ends, a call returns, and    *)
(* River's periodic services (fetch, schedule, rescue) get a turn if some  *)
(* worker is up again and again, however often it crashes.                 *)
Fairness ==
  /\ \A v \in Workers : WF_vars(Start(v)) /\ WF_vars(Exit(v))
  /\ \A w \in Webhooks :
       /\ WF_vars(Work(w)) /\ WF_vars(Finish(w))
       /\ SF_vars(Schedule(w)) /\ SF_vars(Rescue(w))
       /\ SF_vars(\E v \in Workers : Fetch(w, v))

Spec == Init /\ [][Next]_vars
FairSpec == Spec /\ Fairness

-----------------------------------------------------------------------------
(* Every acknowledged webhook is in the log, and log rows and jobs exist   *)
(* together: EnqueueWebhook's "no lost or orphaned work".                  *)
NoLostOrOrphanedWork ==
  \A w \in Webhooks :
    /\ api[w] = "acked" => log[w] # "none"
    /\ log[w] # "none" <=> job[w] # "none"

(* A log row says processed only when all of Work's effects are in the     *)
(* database: the event, and for an entity the typed row.                   *)
ProcessedIsComplete ==
  \A w \in Webhooks :
    log[w] = "processed" =>
      /\ events[w] >= 1
      /\ Is(w, "entity") => writes[w] >= 1 /\ rows[Target(w)] # NoRow
      /\ ~Is(w, "poison")

(* River never closes a job as completed whose webhook Work left           *)
(* unprocessed: what is not processed is retried or visibly discarded.     *)
CompletedImpliesProcessed ==
  \A w \in Webhooks : job[w] = "completed" => log[w] = "processed"

(* Retries repeat effects, but never more than the attempts River granted, *)
(* an event is never recorded for an entity without its row written first, *)
(* and no typed row comes from an unrouted or refused payload.             *)
EffectsAreBounded ==
  \A w \in Webhooks :
    /\ events[w] <= attempt[w] /\ writes[w] <= attempt[w]
    /\ attempt[w] <= MaxAttempts
    /\ Is(w, "entity") => events[w] <= writes[w]
    /\ ~Is(w, "entity") => writes[w] = 0
    /\ Is(w, "poison") => events[w] = 0

(* Work's guard on log.Processed: after the mark no attempt, however late  *)
(* or rescued, writes for this webhook again or takes the mark back.       *)
ProcessedIsFinal ==
  [][\A w \in Webhooks : log[w] = "processed" =>
       log'[w] = "processed" /\ events'[w] = events[w] /\ writes'[w] = writes[w]]_vars

(* Two deliveries of one identity overwrite each other in any order; but a *)
(* delivery whose content was overwritten takes the row back only in a     *)
(* retry, for which River granted an attempt after one that had written    *)
(* and failed to mark: never once it is marked, and never twice in one     *)
(* attempt (worker.go:65-82, repository.go:79).                            *)
ComebackNeedsRetry ==
  [][\A k \in Identities, w \in Webhooks :
       rows[k] # w /\ rows'[k] = w /\ writes[w] >= 1 =>
         log[w] = "queued" /\ log'[w] = "queued" /\ attempt[w] > writes[w]]_vars

(* What is left to do for a webhook: nine steps for every attempt River    *)
(* still grants, and the rest of the current one.                          *)
StepsOfAttempt(w) ==
  IF pc[w] # "none"
    THEN [load |-> 8, route |-> 7, event |-> 6, mark |-> 5, ok |-> 4, err |-> 4][pc[w]]
    ELSE [none |-> 3, running |-> 3, retryable |-> 2, available |-> 1,
          completed |-> 0, discarded |-> 0][job[w]]

WorkLeft(w) == 9 * (MaxAttempts - attempt[w]) + StepsOfAttempt(w)

(* All that processing changes of one webhook.                             *)
Traces(w) == <<log[w], job[w], attempt[w], pc[w], host[w], writes[w], events[w]>>

(* Nothing puts a webhook's processing back: every step that touches its   *)
(* log row, job, execution or effects, crash and rescue included, leaves   *)
(* strictly less to do, so that a webhook is settled or given up after at  *)
(* most 9 * MaxAttempts + 3 of them, however they interleave with others   *)
(* (worker.go:60-83).                                                      *)
WorkIsBounded ==
  [][\A w \in Webhooks :
       Traces(w)' # Traces(w) => WorkLeft(w)' \in 0 .. WorkLeft(w) - 1]_vars

(* The strengthening that makes the properties above inductive.            *)

(* A process that is down hosts nothing.                                   *)
HostIsAlive(w) == host[w] # NoWorker => pc[w] # "none" /\ up[host[w]] # "down"

(* A job is executed only while River holds it running for some process.   *)
ExecutionHoldsJob(w) == pc[w] # "none" => job[w] = "running" /\ host[w] # NoWorker

(* Before the commit there is neither row nor job; the job's life starts   *)
(* with no attempt, and what waits for a fetch has an attempt left.        *)
AdmissionIsAtomic(w) ==
  /\ api[w] \in {"idle", "begun", "logged", "jobbed"} => log[w] = "none"
  /\ api[w] = "acked" => log[w] # "none"
  /\ log[w] = "none" <=> job[w] = "none"
  /\ job[w] = "none" => attempt[w] = 0
  /\ job[w] \in {"available", "retryable"} => attempt[w] < MaxAttempts
  /\ attempt[w] <= MaxAttempts

(* Past the guard of Work the row is unprocessed, and a result "ok" or     *)
(* "completed" is only reached with the row processed.                     *)
GuardHolds(w) ==
  /\ pc[w] \in {"route", "event", "mark"} => log[w] = "queued"
  /\ pc[w] = "ok" \/ job[w] = "completed" => log[w] = "processed"

(* What the execution has done so far, by the call it makes next.          *)
EffectsInOrder(w) ==
  /\ writes[w] <= attempt[w] /\ events[w] <= attempt[w]
  /\ pc[w] \in {"load", "route"} => writes[w] < attempt[w]
  /\ pc[w] \in {"load", "route", "event"} => events[w] < attempt[w]
  /\ Is(w, "entity") => events[w] <= writes[w]
  /\ pc[w] = "event" /\ Is(w, "entity") => events[w] < writes[w]
  /\ pc[w] \in {"event", "mark"} => ~Is(w, "poison")
  /\ pc[w] = "mark" \/ log[w] = "processed" => events[w] >= 1
  /\ ~Is(w, "entity") => writes[w] = 0
  /\ Is(w, "poison") => events[w] = 0
  /\ writes[w] >= 1 => rows[Target(w)] # NoRow

IInv ==
  /\ TypeOK
  /\ \A w \in Webhooks :
       /\ ExecutionHoldsJob(w) /\ AdmissionIsAtomic(w) /\ GuardHolds(w)
       /\ EffectsInOrder(w) /\ HostIsAlive(w)

(* An attempt that is followed by a crash, an error or a lost reply still  *)
(* ends: every committed webhook is processed or its job is discarded.     *)
EveryWebhookSettles ==
  \A w \in Webhooks :
    log[w] = "queued" ~> (log[w] = "processed" \/ job[w] = "discarded")

(* The detailed pipeline implements the ledger: a log row is an accepted   *)
(* delivery, processed is settled, a discarded job abandons the delivery.  *)
LedgerStatus(w) ==
  CASE log[w] = "none"      -> "absent"
    [] log[w] = "processed" -> "settled"
    [] log[w] = "queued"    -> IF job[w] = "discarded" THEN "abandoned" ELSE "accepted"

Ledger == INSTANCE WebhookLedger WITH
  typed    <- {w \in Webhooks : Is(w, "entity")},
  status   <- [w \in Webhooks |-> LedgerStatus(w)],
  acked    <- {w \in Webhooks : api[w] = "acked"},
  applied  <- {w \in Webhooks : writes[w] > 0},
  recorded <- {w \in Webhooks : events[w] > 0}

(* Every step of the pipeline is a step of the ledger or invisible to it.  *)
ImplementsLedger == Ledger!Spec

(* README.md:91 "exactly-once" and the one event that the worker test      *)
(* counts: no webhook leaves two events.                                   *)
ExactlyOnceEvent == \A w \in Webhooks : events[w] <= 1
=============================================================================
