---------------------------- MODULE SchemaBoot -----------------------------
(***************************************************************************)
(* Boot of the api and worker processes against one shared Postgres:       *)
(* migrate.Run applies the embedded SQL files not yet recorded, then       *)
(* jobs.Migrate brings up River's schema, each under an advisory lock of   *)
(* its own; only then does the process serve.  Processes of several        *)
(* releases may boot together (a release embeds a prefix of the files).    *)
(***************************************************************************)
EXTENDS Integers, FiniteSets

CONSTANTS
  Processes,   \* api and worker replicas
  Nobody,      \* holder of a free advisory lock
  Embedded,    \* Embedded[p]: number of SQL files in the binary of p
  PoolSize,    \* pgxpool's pool_max_conns
  MaxFailures  \* bound: boots that fail, and crashes, in one behaviour

ASSUME BootAssumption ==
  /\ Embedded \in [Processes -> Nat]
  /\ PoolSize \in Nat \ {0}
  /\ MaxFailures \in Nat
  /\ Nobody \notin Processes

VARIABLES
  pc,         \* pc[p]: next step of the boot of p
  next,       \* next[p]: file the loop of migrate.Run is at, in name order
  conns,      \* conns[p]: connections of p's pool in use
  lock,       \* holder of migrate's advisory lock
  riverLock,  \* holder of jobs.Migrate's advisory lock
  tracked,    \* schema_migrations exists
  applied,    \* files whose statements are in the schema
  recorded,   \* files listed in schema_migrations
  river,      \* River's schema is in place
  failures    \* boots that failed so far

dbVars == <<tracked, applied, recorded, river>>
vars == <<pc, next, conns, lock, riverLock, dbVars, failures>>

AppSteps   == {"table", "check", "apply", "record", "unlock"}
RiverSteps == {"rmigrate", "runlock"}
Steps      == AppSteps \cup RiverSteps \cup
              {"down", "acquire", "lock", "racquire", "rlock", "serving"}

TypeOK ==
  /\ pc \in [Processes -> Steps]
  /\ next \in [Processes -> Nat]
  /\ conns \in [Processes -> Nat]
  /\ lock \in Processes \cup {Nobody}
  /\ riverLock \in Processes \cup {Nobody}
  /\ tracked \in BOOLEAN /\ river \in BOOLEAN
  /\ applied \in SUBSET Nat /\ recorded \in SUBSET Nat
  /\ failures \in Nat

Init ==
  /\ pc = [p \in Processes |-> "down"]
  /\ next = [p \in Processes |-> 1]
  /\ conns = [p \in Processes |-> 0]
  /\ lock = Nobody /\ riverLock = Nobody
  /\ tracked = FALSE /\ river = FALSE
  /\ applied = {} /\ recorded = {}
  /\ failures = 0

Goto(p, step) == pc' = [pc EXCEPT ![p] = step]
Take(p) == conns[p] < PoolSize /\ conns' = [conns EXCEPT ![p] = @ + 1]

Give(p) == conns' = [conns EXCEPT ![p] = @ - 1]

-----------------------------------------------------------------------------
(* Boot starts with an empty pool.                                         *)
Start(p) ==
  /\ pc[p] = "down"
  /\ Goto(p, "acquire")
  /\ UNCHANGED <<next, conns, lock, riverLock, dbVars, failures>>

(* migrate.Run.                                                            *)
Acquire(p) ==
  /\ pc[p] = "acquire"
  /\ Take(p)
  /\ Goto(p, "lock")
  /\ UNCHANGED <<next, lock, riverLock, dbVars, failures>>

(* Mutant: pg_try_advisory_lock, its answer ignored.                       *)
LockWithoutWait(p) ==
  /\ pc[p] = "lock"
  /\ lock' = IF lock = Nobody THEN p ELSE lock
  /\ Goto(p, "table")
  /\ UNCHANGED <<next, conns, riverLock, dbVars, failures>>

Lock(p) ==
  /\ pc[p] = "lock"
  /\ lock = Nobody
  /\ lock' = p
  /\ Goto(p, "table")
  /\ UNCHANGED <<next, conns, riverLock, dbVars, failures>>

EnsureTable(p) ==
  /\ pc[p] = "table"
  /\ tracked' = TRUE
  /\ next' = [next EXCEPT ![p] = 1]
  /\ Goto(p, "check")
  /\ UNCHANGED <<conns, lock, riverLock, applied, recorded, river, failures>>

(* Mutant: the loop stops before the last file.                            *)
CheckOffByOne(p) ==
  /\ pc[p] = "check"
  /\ \/ next[p] >= Embedded[p] /\ Goto(p, "unlock") /\ UNCHANGED next
     \/ /\ next[p] < Embedded[p] /\ next[p] \in recorded
        /\ next' = [next EXCEPT ![p] = @ + 1] /\ UNCHANGED pc
     \/ /\ next[p] < Embedded[p] /\ next[p] \notin recorded
        /\ Goto(p, "apply") /\ UNCHANGED next
  /\ UNCHANGED <<conns, lock, riverLock, dbVars, failures>>

(* One round of the loop over the sorted names: SELECT EXISTS.             *)
Check(p) ==
  /\ pc[p] = "check"
  /\ \/ next[p] > Embedded[p] /\ Goto(p, "unlock") /\ UNCHANGED next
     \/ /\ next[p] <= Embedded[p] /\ next[p] \in recorded
        /\ next' = [next EXCEPT ![p] = @ + 1] /\ UNCHANGED pc
     \/ /\ next[p] <= Embedded[p] /\ next[p] \notin recorded
        /\ Goto(p, "apply") /\ UNCHANGED next
  /\ UNCHANGED <<conns, lock, riverLock, dbVars, failures>>

(* Mutant: a failed file is logged and recorded all the same.              *)
ApplyErrorIgnored(p) ==
  /\ pc[p] = "apply"
  /\ applied' \in {applied, applied \cup {next[p]}}
  /\ Goto(p, "record")
  /\ UNCHANGED <<next, conns, lock, riverLock, tracked, recorded, river, failures>>

(* The file as one implicit transaction, all or nothing.                   *)
Apply(p) ==
  /\ pc[p] = "apply"
  /\ applied' = applied \cup {next[p]}
  /\ Goto(p, "record")
  /\ UNCHANGED <<next, conns, lock, riverLock, tracked, recorded, river, failures>>

(* Mutant: the loop starts over after every file.                          *)
RecordAndRestart(p) ==
  /\ pc[p] = "record"
  /\ next[p] \notin recorded
  /\ recorded' = recorded \cup {next[p]}
  /\ next' = [next EXCEPT ![p] = 1]
  /\ Goto(p, "check")
  /\ UNCHANGED <<conns, lock, riverLock, tracked, applied, river, failures>>

(* A separate INSERT; the primary key refuses a version already there.     *)
Record(p) ==
  /\ pc[p] = "record"
  /\ next[p] \notin recorded
  /\ recorded' = recorded \cup {next[p]}
  /\ next' = [next EXCEPT ![p] = @ + 1]
  /\ Goto(p, "check")
  /\ UNCHANGED <<conns, lock, riverLock, tracked, applied, river, failures>>

(* The deferred unlock and release.                                        *)
Unlock(p) ==
  /\ pc[p] = "unlock"
  /\ lock' = Nobody
  /\ Give(p)
  /\ Goto(p, "racquire")
  /\ UNCHANGED <<next, riverLock, dbVars, failures>>

(* jobs.Migrate.                                                           *)
RiverAcquire(p) ==
  /\ pc[p] = "racquire"
  /\ Take(p)
  /\ Goto(p, "rlock")
  /\ UNCHANGED <<next, lock, riverLock, dbVars, failures>>

(* Mutant: River's migration runs without the lock.                        *)
RiverLockSkipped(p) ==
  /\ pc[p] = "rlock"
  /\ Goto(p, "rmigrate")
  /\ UNCHANGED <<next, conns, lock, riverLock, dbVars, failures>>

RiverLock(p) ==
  /\ pc[p] = "rlock"
  /\ riverLock = Nobody
  /\ riverLock' = p
  /\ Goto(p, "rmigrate")
  /\ UNCHANGED <<next, conns, lock, dbVars, failures>>

(* The migrator works on a connection of its own from the same pool.       *)
RiverMigrate(p) ==
  /\ pc[p] = "rmigrate"
  /\ conns[p] < PoolSize
  /\ river' = TRUE
  /\ Goto(p, "runlock")
  /\ UNCHANGED <<next, conns, lock, riverLock, tracked, applied, recorded, failures>>

RiverUnlock(p) ==
  /\ pc[p] = "runlock"
  /\ riverLock' = Nobody
  /\ Give(p)
  /\ Goto(p, "serving")
  /\ UNCHANGED <<next, lock, dbVars, failures>>

(* Mutant: the lock survives the failure of its holder.                    *)
FreeForgotten(holder, p) == holder

Free(holder, p) == IF holder = p THEN Nobody ELSE holder

(* A statement fails, or the process dies: the deferred unlock, or the end *)
(* of the session, frees its locks, and the process exits.  A statement    *)
(* whose reply is lost has already taken effect in the step before.        *)
Fail(p) ==
  /\ pc[p] # "down"
  /\ failures < MaxFailures
  /\ failures' = failures + 1
  /\ lock' = Free(lock, p) /\ riverLock' = Free(riverLock, p)
  /\ conns' = [conns EXCEPT ![p] = 0]
  /\ Goto(p, "down")
  /\ UNCHANGED <<next, dbVars>>

Boot(p) ==
  \/ Start(p) \/ Acquire(p) \/ Lock(p) \/ EnsureTable(p) \/ Check(p)
  \/ Apply(p) \/ Record(p) \/ Unlock(p)
  \/ RiverAcquire(p) \/ RiverLock(p) \/ RiverMigrate(p) \/ RiverUnlock(p)

Next == \E p \in Processes : Boot(p) \/ Fail(p)

Spec == Init /\ [][Next]_vars

(* A started boot goes on, and the orchestrator restarts what exits.       *)
FairSpec == Spec /\ \A p \in Processes : WF_vars(Boot(p))

-----------------------------------------------------------------------------
Files(p) == 1 .. Embedded[p]

(* The check of a file and its application are one unit: when a process is *)
(* about to apply or record a file, nobody has recorded it meanwhile.      *)
CheckedIsStillUnrecorded ==
  \A p \in Processes : pc[p] \in {"apply", "record"} => next[p] \notin recorded

(* Files are applied in order, nothing is recorded that was not applied,   *)
(* and at most the file in progress is applied without being recorded.     *)
SchemaIsPrefix ==
  /\ recorded \subseteq applied
  /\ \A f \in applied : \A g \in 1 .. f - 1 : g \in recorded
  /\ \A f, g \in applied \ recorded : f = g

(* No process serves on less than the schema its release embeds and        *)
(* River's tables, however many crashes preceded it.                       *)
ServingHasSchema ==
  \A p \in Processes : pc[p] = "serving" => Files(p) \subseteq recorded /\ river

(* Each advisory lock admits one process to its critical section.          *)
OneMigratorAtATime ==
  \A p, q \in Processes :
    /\ pc[p] \in AppSteps /\ pc[q] \in AppSteps => p = q
    /\ pc[p] \in RiverSteps /\ pc[q] \in RiverSteps => p = q

(* The schema never goes back and a recorded file is never applied again.  *)
SchemaOnlyGrows ==
  [][/\ applied \subseteq applied' /\ recorded \subseteq recorded'
     /\ \A p \in Processes : pc[p] = "apply" /\ pc'[p] = "record" => next[p] \notin recorded]_vars

(* The next step of the boot of p waits for nothing.                       *)
Ready(p) ==
  \/ pc[p] \in {"down", "table", "check", "apply", "unlock", "runlock"}
  \/ pc[p] = "record" /\ next[p] \notin recorded
  \/ pc[p] \in {"acquire", "racquire", "rmigrate"} /\ conns[p] < PoolSize
  \/ pc[p] = "lock" /\ lock = Nobody
  \/ pc[p] = "rlock" /\ riverLock = Nobody

(* Two locks and a pool, and no deadlock: with room for two connections a  *)
(* boot is only ever kept waiting by the holder of the lock it wants, and  *)
(* that one can go on, whatever failed before (migrate.go:21-33,           *)
(* jobs.go:26-43).                                                         *)
NoBootIsStuck ==
  PoolSize >= 2 =>
    \A p \in Processes :
      \/ pc[p] = "serving" \/ Ready(p)
      \/ pc[p] = "lock" /\ lock \in Processes /\ Ready(lock)
      \/ pc[p] = "rlock" /\ riverLock \in Processes /\ Ready(riverLock)

(* Files the loop has yet to look at.                                      *)
FilesLeft(p) ==
  IF pc[p] \in {"down", "acquire", "lock", "table"} THEN Embedded[p]
  ELSE IF pc[p] \in {"check", "apply", "record"} THEN Embedded[p] + 1 - next[p]
  ELSE 0

(* Steps a boot has before it, at most: three for each file.               *)
Rank(p) ==
  3 * FilesLeft(p) +
  [down |-> 10, acquire |-> 9, lock |-> 8, table |-> 7, check |-> 6, apply |-> 5,
   record |-> 4, unlock |-> 5, racquire |-> 4, rlock |-> 3, rmigrate |-> 2,
   runlock |-> 1, serving |-> 0][pc[p]]

(* No boot runs in circles: every step but a failure brings one process    *)
(* nearer to serving and no other further from it, so that a boot ends     *)
(* within a number of steps fixed by the files of its release              *)
(* (migrate.go:49-71).                                                     *)
BootsMakeProgress ==
  [][failures' = failures =>
       \E p \in Processes :
         /\ 0 <= Rank(p)' /\ Rank(p)' < Rank(p)
         /\ \A q \in Processes \ {p} : Rank(q)' = Rank(q)]_vars

(* The strengthening that makes the properties above inductive.            *)

LocksAreHeld ==
  \A p \in Processes :
    /\ pc[p] \in AppSteps <=> lock = p
    /\ pc[p] \in RiverSteps <=> riverLock = p

(* A boot holds one connection from its Acquire to its Release.            *)
ConnsAreHeld ==
  \A p \in Processes :
    conns[p] = IF pc[p] \in {"down", "acquire", "racquire", "serving"} THEN 0 ELSE 1

(* What the loop has behind it, and the file it is at.                     *)
LoopIsSound ==
  \A p \in Processes :
    /\ next[p] >= 1
    /\ pc[p] \in {"check", "apply", "record", "unlock"} =>
         \A f \in 1 .. next[p] - 1 : f \in recorded
    /\ pc[p] = "record" => next[p] \in applied
    /\ pc[p] \in {"check", "unlock"} => next[p] <= Embedded[p] + 1
    /\ pc[p] \in {"apply", "record"} => next[p] <= Embedded[p]

BootIsSound ==
  \A p \in Processes :
    /\ pc[p] \in {"unlock", "racquire", "rlock", "serving"} \cup RiverSteps =>
         Files(p) \subseteq recorded
    /\ pc[p] \in {"runlock", "serving"} => river

IInv ==
  /\ TypeOK /\ LocksAreHeld /\ ConnsAreHeld /\ LoopIsSound /\ BootIsSound
  /\ CheckedIsStillUnrecorded /\ SchemaIsPrefix
  /\ \A f \in applied : f >= 1

(* Every process serves in the end: no lock or connection is waited for    *)
(* forever.                                                                *)
EveryProcessServes == \A p \in Processes : <>[](pc[p] = "serving")
=============================================================================
