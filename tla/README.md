# Formal models of the BlazeAid Hub backend

TLA+ models of `src/backend`, the Go service behind the BlazeAid Hub: an HTTP
API and a job worker over one PostgreSQL database. The models are checked with
TLC on small instances; the safety properties are proved with TLAPS for every
value of the constants. Paths below are relative to `src/backend`.

## The system

Two kinds of process share a database and have no other connection: `cmd/api`
(any number of replicas) serves HTTP, `cmd/worker` executes River jobs. All
state is in tables, so every interaction is a sequence of SQL statements, and
the hard behaviours lie *between* statements.

| Component | Code | State | Operations |
|---|---|---|---|
| Webhook pipeline | `handler/webhook.go`, `jobs/`, `cmd/worker` | `webhooks_log`, `events`, `river_job` | accept (log row and job in one transaction), fetch, load, route, record event, mark, retry, rescue, discard; start, stop, crash of a worker |
| Catalog writes | `handler/ingest.go`, `handler/write.go`, `repository/` | four typed tables with `updated_at`, `deleted_at` | upsert, PATCH, PUT, soft DELETE |
| Sync feed | `handler/sync.go`, `SyncSince` | the consumer's cursor and replica | one page of changes after a cursor |
| Schema boot | `migrate/migrate.go`, `jobs.Migrate`, `server.Run`, worker `run` | `schema_migrations`, two advisory locks, the pool | lock, check, apply, record, unlock, River's migration, serve |
| Catalog reads | `repository/read.go`, `handler/read.go` | the client's offset and what it has seen | count and page of a filtered list, get by id |
| Statistics | `repository/stats.go`, `handler/stats.go` | the figures of one reply | counts, breakdowns by status and region, newest rows, each a statement |
| Magic-link login | `handler/auth.go`, `auth/jwt.go` | `magic_tokens`, a user's JWT | mint, store, mail, answer; burn once, issue and accept a session |
| E-mail | `email/email.go` | messages on their way | send by SMTP, or accept and send nothing |
| Server shell | `server/`, `cmd/api` | rate-limit counters of a library | routing, CORS, limits, configuration, shutdown |

How they interact: the webhook worker and the ingest endpoints write the typed
tables with the same four upserts; the sync feed, the lists and the statistics
read what all writers commit, the first two through `updated_at`; the login
mails what it stored and gives the sessions the writing endpoints ask for;
nothing serves before the boot has brought up the schema.

### What makes each component correct, and what is hard about it

* **Pipeline.** Nothing acknowledged is lost, nothing is half done when it says
  "processed", and every job ends. Hard: five database calls in two processes,
  any of which can fail, or take effect and *seem* to fail; crashes, rescues and
  retries that start over; a payload the table refuses every time.
* **Catalog writes.** A deletion is final, concurrent partial updates merge, a
  404 is not a passing glitch. Hard: `now()` is fixed when a statement starts
  and its effect appears later; the reply of an update is a second statement.
* **Sync feed.** What the cursor has passed has been delivered. Hard: ties of
  `updated_at`, commits that overtake each other, deletes that do not touch it.
* **Schema boot.** One migrator at a time, files in order, no serving on a
  partial schema. Hard: replicas of two releases boot together, and a boot can
  end between the application of a file and its record.
* **Lists.** A client that walks the pages gets every matching row. Hard: the
  total and the page are two statements, pages are cut by OFFSET out of an order
  that every write changes, and that order has no tie-breaker.
* **Statistics.** The figures of one dashboard agree. Hard: they are read by
  many statements without a common snapshot, beside the writers.
* **Login.** A token gives one session, only to who got the mail, for a limited
  time; a user is not rejected without cause. Hard: two requests with one token,
  replies lost after the effect, three kinds of clock, a server that shuts down
  between the calls of a request.

`PROJECT.json` lists the hazards one by one, each at its line with the
properties that would catch it.

## Modules

| Module | Role |
|---|---|
| `WebhookLedger` | abstract specification: what ingestion promises to a sender |
| `WebhookPipeline` | the pipeline, one action per database call; implements `WebhookLedger` |
| `WebhookPipelineProofs` | inductive invariant, safety theorems, bounded work, refinement of the ledger |
| `Catalog` | the typed rows and the requests that write them |
| `CatalogProofs` | inductive invariant and safety theorems |
| `SyncFeed` | extends `Catalog` with a consumer that pages through it |
| `SyncFeedProofs` | what a consumer can lose, in general and beside writers that take turns, and that polling advances |
| `ListWalk` | extends `Catalog` with a client that walks a filtered list |
| `ListWalkProofs` | why a row is missed, that a walk ends, and that a quiet one is complete |
| `Dashboard` | extends `Catalog` with one composition of the statistics |
| `DashboardProofs` | inductive invariant, and the bound on the drift of a dashboard |
| `FiniteInduction` | lemmas: induction over a finite set, the sum of a function over one |
| `MagicLogin` | logins, mails, verifications and sessions on several replicas |
| `MagicLoginProofs` | inductive invariant and all its safety properties |
| `SchemaBoot` | concurrent boots of several releases |
| `SchemaBootProofs` | inductive invariant, safety theorems, deadlock freedom, progress |
| `MC*` | constants of the instances TLC checks |

Operators whose comment begins with "Mutant:" are not used by any
specification. Each is a plausible mistake in the definition that follows it;
`PROJECT.json` says which property notices it.

### WebhookPipeline

`log[w]` and `job[w]` are the *committed* `webhooks_log` and `river_job` rows;
`api[w]` is how far `EnqueueWebhook` is in its transaction, so that nothing is
visible before `Commit`. `pc[w]` is the next database call of the execution of
`Work`: `load` (GetWebhookLog and the `Processed` guard), `route` (the upsert),
`event`, `mark`, then `ok` or `err`, which `Finish` records in the job row.
Three things can happen at a call: it succeeds, it fails without effect
(`CallFails`), or it takes effect and its reply is lost (`Proceed` to `err`).
`Crash` may come before or after any of them and leaves the job `running`.

A payload is abstracted to what `route` tells apart: a typed `entity`, a typed
one the table refuses (`poison`: an age beyond `int4`), one that is `unrouted`,
one that the `jsonb` column refuses (`notjson`), and its identity. A payload
without `external_id` is keyed by its own log id (`Target`). `rows[k]` is the
webhook whose content row `k` holds, which is enough to see one delivery
overwrite another.

River is a library: `Fetch`, `Schedule`, `Rescue`, `Finish` and `AfterFailure`
are modelled by what `internal/jobs` relies on, and are marked external. One
execution of a job at a time is an assumption about River: an execution ends by
the job timeout (one minute) long before the rescuer would give the job to
another worker (an hour).

### Catalog

A row is its `updated_at`, its columns and whether `deleted_at` is set. A
request goes through `Begin` (a connection; the statement's `now()` is taken
from `clock`), its statement, and for an update the read that makes the reply.
With `MinStep = 0` two statements may start in the same microsecond; with
`Conns > 1` statements may take effect in another order than they started.
Columns are `Fields`; `Optional` ones are those a PUT may omit. The four tables
have the same operations, so `Keys` ranges over the rows of all of them, and
two rows in one `updated_at` order stand for rows of any tables. In
PostgreSQL's READ COMMITTED an UPDATE that waits for a row lock re-evaluates
its WHERE on the new version: a statement's test and effect are one action.

### SyncFeed

`Pages` is the set of pages ORDER BY `updated_at` LIMIT `PageSize` may return;
rows that tie come in any order. `CursorAfter` is the `updated_at` of the last
row: PostgreSQL keeps microseconds and the cursor is formatted and parsed as
RFC 3339 with nanoseconds, so the round trip loses nothing. `replica` is what a
consumer that applies every change has.

### ListWalk

`Count` and `Page` are the two statements of `List*`; `ListFails` stands for a
statement that fails or a reply that is lost, after which the client asks for
the same page again. A filter is the set of bodies it lets pass, so
`whereBuilder` is `Equal`. `First(n)` is the set of row sets that may come first
in ORDER BY `updated_at` DESC with LIMIT n; the page is what lies between
`First(offset)` and `First(offset + Limit)`, and each statement breaks ties
anew. The client stops at a page that is not full, or also once it has come to
`total`, the two rules the reply offers. The limit and offset of a request are
validated before (`handler/read.go`), so the clamp of `repository/read.go` never
acts and no action stands for it.

### Dashboard

One action per statement of `handler/stats.go`: the counts of all tables
(`Counts`), a breakdown by status and one by region for each (`StatusOf`,
`RegionOf`, in the order of a Go map: any), the newest rows (`RecentOf`).
`churn` is a history variable: how many rows of a table came or went since the
counts. Rows keep their table, and a row's columns include its status and region.

### MagicLogin

`login[l]` and `verify[v]` are how far a request is and then what its client was
told; `token[l]` is the row of `magic_tokens`. A token is identified with the
login that minted it. `clock` is the database's `now()`, `skew[a]` how far the
clock of replica `a` is ahead of it: `Mint` and `IssueJWT` use the replica's
clock, `Burn` the database's as of the start of its statement (`began`),
`Accepts` that of any replica. `Outcomes` are the two senders: without
`SMTP_HOST` nothing is sent and no error returned; with it the message may be
taken and the reply lost. `CutLogin` and `CutVerify` are an error, a lost reply
or the end of the replica between two calls: `server.Run` closes the pool as
soon as a shutdown begins. `Burn` tests and sets `used` in one statement, and
one that waited for the row lock tests again, as in `Catalog`.

### SchemaBoot

One action per statement of `migrate.Run` and `jobs.Migrate`. `Embedded[p]`
is the number of files in the binary of process `p`: releases embed prefixes of
the same sorted list. An advisory lock is free again when its holder unlocks,
fails (the deferred unlock) or dies (the session ends). `RiverMigrate` needs a
second connection of a pool of `PoolSize` while the first holds the lock.

## Runs

Each run takes a few minutes at most.

| Run | Instance | Shows |
|---|---|---|
| `pipeline_safety` | 2 webhooks of any kind, 2 workers, 2 attempts, 1 slot each | the invariants, finality of processed, who may overwrite whom, less to do with every step, every step is a ledger step |
| `pipeline_settles` | 2 webhooks of one identity, 1 worker with 1 slot, 2 attempts | every committed webhook is processed or discarded |
| `catalog_concurrent` | 3 requests of 7 kinds on 1 row, 2 columns | no lost column, one successful delete, no resurrection, 404 is final |
| `sync_concurrent` | 3 requests on 2 rows, pages of 1, ties and overtaking | a copy is only replaced by a later one; the three ways to lose a change are the only ones; the cursor always gets past every row |
| `sync_serial` | the same, deletes included, one statement at a time, no ties | nothing is lost but that a row was deleted; up to that the replica converges |
| `list_walk` | 3 rows, distinct or tied, or 2 and one to come; pages of 1; filtered or not; 2 concurrent writes of 3 kinds | a row not written itself is missed for one of four reasons only; the offset stays within the rows there are |
| `stats_drift` | 2 tables, 3 rows, blank columns, 2 concurrent writes of 3 kinds, 1 recent row | the figures differ by no more than the rows that came or went |
| `login_safety` | 1 login, 3 verifications, 2 replicas, clocks off by 1, production or not, SMTP or not | one session per token, none in production without the mail, every 401 has a cause, authority ends |
| `boot_rolling` | 3 processes of 2 releases with 3 and 2 files, 2 failures | order, exclusion, no partial schema, no deadlock, no boot in circles; every process serves in the end |

Where documentation and code disagree, a run keeps the counterexample:

| Run | What is said | What happens |
|---|---|---|
| `pipeline_exactly_once` | `README.md:91`, `docs/API_READINESS.md:14-15`: exactly once | a retry after the event was recorded records it again |
| `catalog_put` | `repository/write.go:15-16`, `handler/handler.go:147`, `handler/write_test.go:47`: PUT replaces | omitted optional fields keep their old value |
| `sync_late_commit` | `handler/sync.go:27`: every change after the cursor | a commit behind the cursor is never returned |

`LossesAreExplained` shows the other two ways the feed loses a change: a tie cut
by a page, and a soft delete, which leaves `updated_at` alone. Two more
disagreements need no run of their own. `jobs/worker.go:65` calls the guard on
`Processed` idempotent, but the mark is the last statement: a retry before it
upserts again, possibly over a newer delivery of the same identity.
`ComebackNeedsRetry` shows how far that goes: content that was overwritten only
comes back in a later attempt, once in each, and not after the mark. And
`handler/auth.go:52` says a failed mail is surfaced in production, but without
`SMTP_HOST` the sender reports success and sends nothing; the configuration
allows it, and then nobody can log in (`ProductionSessionsNeedMail`).

### Bounds, and why they are enough

* Two webhooks: the hazards of the pipeline are between a delivery and itself
  (retries) or two deliveries of one identity. Two attempts give a first and a
  retry. One slot per process makes the two webhooks compete for it.
* Three requests: two that race and one that comes before them. One row is
  enough for the catalog, whose statements touch one row each; the feed needs
  two, for the tie, and pages of one row, the smallest that can cut it.
* A walk in pages of one over three rows has a page before, at and after the row
  it misses. Two writes make one overtake the other. Each of the four reasons in
  `MissesAreExplained`, left out, gives a counterexample in this instance.
* Two tables and two labels are the least for which a region's total differs
  from a table's figure; two writes move a figure twice.
* A login's token concerns no other login, so one is enough. Three
  verifications: one that burns, one that races it, one that comes later. A
  token lives 2 units and clocks are off by 1, so a token may expire early, in
  time or late, and a session of 1 unit be refused at birth or outlive itself.
* Two failures at boot put one between any two steps and a second into the
  recovery from it; a third process comes from the previous release.
* Symmetry is used only for safety runs, over identifiers the models treat
  alike. The proofs have none of these bounds.

Deadlock checking is off for all instances but the pipeline's: their requests
come to an end, and a booted system has nothing left to do. In the
pipeline the workers always have a step and deadlock is checked.

### Fairness

* Pipeline: a call returns and a result is recorded (weak fairness of `Work` and
  `Finish`: each call has a context with a deadline); the orchestrator restarts
  workers (`restart: unless-stopped`, `Start`) and a stop ends (`Exit`).
  Fetching, scheduling and rescuing are strongly fair: they are periodic in
  every running client, but enabled only while one is up, and a worker may crash
  again and again. Nothing is assumed of the API, of commits, or of success:
  every call may fail every time.
* Feed: the consumer keeps polling (weak fairness of `SyncSince`). No writer is
  assumed to finish.
* Boot: a boot goes on and is restarted (weak fairness of `Boot(p)`), so a
  waiting `pg_advisory_lock` is granted once it stays free. Failures are
  bounded by `MaxFailures`; with no bound nothing could be promised.
* Lists, statistics and login state no liveness: a client may give up at any
  time. A walk that goes on has only so many pages before it (`WalkEnds`).

## Proofs

`tlapm` checks every step of the seven `*Proofs` modules and of
`FiniteInduction`. They assume only the named ASSUMEs of the models, and some
theorems a hypothesis more: those of the dashboard that rows, column values and
entities are finitely many, `PollingAdvances` that the rows are (a database at
any moment), `SerialLosesOnlyDeletions` and `SerialSyncIsComplete` that requests are
finitely many and writers take turns (`SerialWriters`: one statement at a time,
each in a microsecond of its own), `SerialSyncIsComplete` also that none of them
is a delete, `QuietWalkIsComplete`
that nobody writes and no rows tie (`Quiet`), and `OneConnectionNeverServes`
that the pool has one connection.

Every `IInv` (and `SyncIInv`, `WalkIInv`, `DashIInv`) is an invariant of a run
too, and contains the type invariant of its module.

**Pipeline.** The properties are not inductive: that a processed webhook has its
event rests on what the execution has done when it reaches the mark. `IInv`
adds, for each webhook, five facts: an execution holds its job
(`ExecutionHoldsJob`); before the commit there is neither row nor job, and what
waits for a fetch has an attempt left (`AdmissionIsAtomic`); past the guard the
row is unprocessed, and a result `ok` implies it is processed (`GuardHolds`);
the effects so far follow from the next call (`EffectsInOrder`); and a process
that is down hosts nothing (`HostIsAlive`). A step
concerns one webhook, so the proof treats it against the webhook it moves and,
by `BystanderKeepsLocal`, every other; only the typed row two webhooks share
needs thought. `PipelineImplementsLedger` maps each action to a ledger step or
a stutter: `Commit` to Accept, the upsert to Apply, the event to Record, the
mark to Settle, the last failed attempt to Abandon. `StaleContentNeedsRetry`
rests on `GuardHolds` and `EffectsInOrder`: only an upsert of its own brings a
delivery's content back, and an execution that comes to its upsert has not
written in this attempt. `ProcessingIsBounded` is what safety can say of the end
of a job: `WorkLeft`, nine steps for each attempt still granted plus the rest of
the current one, is a natural number that every step touching the webhook lowers
(`StageEnds` goes through the steps), so that there are at most
`9 * MaxAttempts + 3` of them; fairness is only needed for their being taken.

**Catalog.** `IInv` adds what a request knows of its row (`RequestsAreSound`):
the row it names exists, and a delete that was told 204 has deleted it.
`RowsOnlyGrow` says no statement undoes either; `RowChange` names the one
request behind a change, from which the action properties follow.

**Feed.** `SyncIInv` adds to the types that nothing the consumer holds is later
than its cursor. A page only gives out rows beyond the cursor, so a copy is only
ever replaced by a later one (`ReplicaIsMonotone`), although a late commit sets
a row's own `updated_at` back. `LossesHaveThreeCauses` examines each step that
could make a row missed. `PollingAdvances` is why ties never pin the cursor:
while a row is beyond it there is a page (`PageExists`: the largest set of rows
that is closed under "earlier" and within the limit), and each page leaves
strictly fewer rows beyond it, its last row at least. `SerialLosesOnlyDeletions`
takes away two of the three causes, late commits and ties, and leaves the third:
writers take turns, but delete as they like. It needs `SerialIInv`: the
statement in flight is alone and later than every row and than the cursor, and
no two rows tie; a page then leaves behind only rows later than its last. What
the cursor passed has been delivered with every column, and only `deleted_at`
may be missing. Without deletes nothing is (`SerialSyncIsComplete`): under these
three conditions `handler/sync.go:27` is true.

**Lists.** `WalkIInv` adds to the types that the offset of a walk that goes on
is within the rows there are: a page that did not end the walk was full
(`FullPage`). A walk therefore ends (`WalkEnds`), whatever is written meanwhile.
`MissesHaveFourCauses` needs only the types and counting.
A row is missed once fewer rows than the offset are surely ahead of it. For a
page, `PageLeavesBehind`: a row that was not given, nor cut off in a tie, has
the whole page and all it skipped ahead of it, so the next offset is not past
it. For a write, `WriteHides`: if rows ahead of it got fewer, one of them left
the filter or fell behind it, since any other subset would be no smaller.
`QuietWalkIsComplete` turns this round: without writes and ties none of the
causes occurs, so no row is ever missed (`QuietIInv`), and a walk that is done
has them all, whichever rule ended it and however often a request was repeated.

**Statistics.** `DriftIsBounded` compares figures that were read at different
moments. `DashIInv` follows them as they are read: a table's count, its number
of active rows now, and the sums of its two breakdowns, once read, differ from
one another by no more than the rows that came or went since the counts, and the
totals of the regions are those of the tables (`FiguresFollow`, `TotalsAdd`;
`RequestIsOrdered` says which figures have been read). A write
touches one row and moves each true figure by at most one. That the groups of a
breakdown add up to the active rows, and the totals of the regions likewise, is
a sum over a finite set: `FiniteInduction` proves `SubsetInduction` (a set of
subsets that contains the empty one and is closed under adding an element
contains all) from the library's well-founded order of the numbers, and with it
that the model's folds are the cardinality of a set of pairs, from which the
sums follow. `EveryRowIsLabelled` says every active row has its label in both
breakdowns.

**Login.** The properties are not inductive: that a 401 has a cause rests on
what the database knew when the link was mailed. `IInv` adds three parts. A
token that is stored has an expiry within the skew of its minting, a mail or a
reply exists only for a stored token, and a used token was burnt by a
verification that asked for it (`TokensAreSound`); a verification holds a token
somebody knew, and burnt it before its expiry (`VerifiesAreSound`); no two
verifications burnt the same (`OneBurnPerToken`). All four properties follow.

**Boot.** `IInv` ties each lock and connection to the program points that hold
it, and each program point to the files recorded so far. `BootsNeverDeadlock`
uses it to show that a boot is only kept waiting by the holder of the lock it
wants, and that one can go on; `OneConnectionNeverServes` that the two
connections this needs are needed. `Rank` counts the steps before a boot, three
for each file it has yet to look at; every step but a failure lowers it for one
process and no other's rises (`BootsOnlyAdvance`).

What is only model-checked is liveness: `EveryWebhookSettles`,
`CursorPassesEveryRow`, `ReplicaConverges` and `EveryProcessServes`, since the
prover does not reason about fairness or ENABLED. A safety part of each is
proved: that no more than so many steps can be taken (`ProcessingIsBounded`,
`PollingAdvances`, `BootsOnlyAdvance`), that something can go on
(`PollingAdvances`, `BootsNeverDeadlock`), and what the replica is once the
cursor has passed (`SerialLosesOnlyDeletions`). Every other property of a
passing run is a theorem.

## What is not modelled

* Of the statistics, the two figures about `events` (the last 24 hours and the
  timeline): the pipeline is the only writer of that table, and no row of it
  changes.
* Of the lists, the great-circle condition as arithmetic: a filter is any set of
  bodies. Rounding may take the argument of `acos` below -1, which only the
  database's own floating point decides; the statement then fails (`ListFails`).
  The range of `created_at` (`tsRange`) is left out: the column never changes
  once a row is there, so it only fixes which rows a list ranges over. The hidden
  `contact` column and the parsing of dates do not change which rows are read.
* Routing, CORS, rate and body limits, environment parsing, the signature of a
  JWT and the layout of a message: libraries or stateless glue.
* Wording and formatting of replies, `created_at`, `embedding`. Authentication
  in front of the mutations: a rejected request has no effect.
* River's own tables and leader election. The clock of PostgreSQL is monotonic
  in the models; replicas' clocks are off by a constant.
* The composition of the pipeline with `Catalog` in one module: the typed rows
  are the only state they share, the upsert the only operation, and each models
  it in full, the pipeline with one row per identity, the catalog with columns
  and time.
* Domain types, demo data and test scaffolding have no behaviour.
