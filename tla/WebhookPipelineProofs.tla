----------------------- MODULE WebhookPipelineProofs -----------------------
(***************************************************************************)
(* Machine-checked proofs about WebhookPipeline, for any number of         *)
(* deliveries, processes, attempts and slots.  The order is: typing, the   *)
(* inductive invariant IInv, the safety properties that follow from it,    *)
(* the action properties WorkIsBounded, ProcessedIsFinal and               *)
(* ComebackNeedsRetry, and the refinement of the ledger.                   *)
(***************************************************************************)
EXTENDS WebhookPipeline, TLAPS

(* Every variable keeps its type, whatever the API, River and the worker   *)
(* processes do.                                                           *)
LEMMA TypeInductive == TypeOK /\ [Next]_vars => TypeOK'
<1> SUFFICES ASSUME TypeOK, [Next]_vars PROVE TypeOK'
  OBVIOUS
<1> USE DEF TypeOK, ApiStates, LogStates, JobStates, ExecStates, UpStates,
            logVars, execVars, dataVars
<1>1. ASSUME NEW w \in Webhooks, EnqueueWebhook(w) PROVE TypeOK'
  BY <1>1 DEF EnqueueWebhook, Begin, InsertLog, InsertJob, Commit, Rollback
<1>2. ASSUME NEW w \in Webhooks, River(w) PROVE TypeOK'
  <2>1. CASE Schedule(w)
    BY <2>1 DEF Schedule
  <2>2. CASE Rescue(w)
    BY <2>2 DEF Rescue, AfterFailure
  <2>3. CASE Finish(w)
    BY <2>3 DEF Finish, AfterFailure
  <2>4. ASSUME NEW v \in Workers, Fetch(w, v) PROVE TypeOK'
    BY <2>4 DEF Fetch
  <2> QED
    BY <1>2, <2>1, <2>2, <2>3, <2>4 DEF River
<1>3. ASSUME NEW w \in Webhooks, Work(w) PROVE TypeOK'
  <2>1. CASE Load(w)
    BY <2>1 DEF Load
  <2>2. CASE RouteUnrouted(w)
    BY <2>2 DEF RouteUnrouted
  <2>3. CASE RouteUpsert(w)
    <3>1. rows' \in [Identities -> Webhooks \cup {NoRow}]
      BY <2>3 DEF RouteUpsert
    <3>2. writes' \in [Webhooks -> Nat] /\ pc' \in [Webhooks -> ExecStates]
      BY <2>3 DEF RouteUpsert, Proceed
    <3> QED
      BY <3>1, <3>2, <2>3 DEF RouteUpsert
  <2>4. CASE RecordEvent(w)
    BY <2>4 DEF RecordEvent, Proceed
  <2>5. CASE MarkWebhookProcessed(w)
    BY <2>5 DEF MarkWebhookProcessed, Proceed
  <2>6. CASE CallFails(w)
    BY <2>6 DEF CallFails
  <2> QED
    BY <1>3, <2>1, <2>2, <2>3, <2>4, <2>5, <2>6 DEF Work
<1>4. ASSUME NEW v \in Workers, Process(v) PROVE TypeOK'
  BY <1>4 DEF Process, Start, Stop, Exit, Crash
<1>5. CASE UNCHANGED vars
  BY <1>5 DEF vars
<1> QED
  BY <1>1, <1>2, <1>3, <1>4, <1>5 DEF Next

(* Nothing is logged, queued, executed or written in an initial state.     *)
LEMMA InitInductive == Init => IInv
<1> SUFFICES ASSUME Init PROVE IInv
  OBVIOUS
<1>1. TypeOK
  BY PayloadAssumption DEF Init, TypeOK, ApiStates, LogStates, JobStates, ExecStates, UpStates
<1>2. ASSUME NEW w \in Webhooks
      PROVE  /\ ExecutionHoldsJob(w) /\ AdmissionIsAtomic(w) /\ GuardHolds(w)
             /\ EffectsInOrder(w) /\ HostIsAlive(w)
  BY LimitAssumption
  DEF Init, ExecutionHoldsJob, AdmissionIsAtomic, GuardHolds, EffectsInOrder, HostIsAlive
<1> QED
  BY <1>1, <1>2 DEF IInv

(* The invariant of one delivery, but for the state of its host.           *)
Local(w) == ExecutionHoldsJob(w) /\ AdmissionIsAtomic(w) /\ GuardHolds(w) /\ EffectsInOrder(w)

(* What a step may change of a delivery that is not the one it serves:     *)
(* the row it shares with others, never back to no row.                    *)
Bystander(x) ==
  /\ UNCHANGED <<payload[x], api[x], log[x], job[x], attempt[x], pc[x], host[x],
                 writes[x], events[x]>>
  /\ rows[Target(x)] # NoRow => rows'[Target(x)] # NoRow

(* A step of another worker leaves what is said of this one alone.         *)
LEMMA BystanderKeepsLocal ==
  ASSUME NEW x \in Webhooks, Local(x), Bystander(x), payload' = payload
  PROVE  Local(x)'
BY DEF Local, Bystander, ExecutionHoldsJob, AdmissionIsAtomic, GuardHolds, EffectsInOrder, Is, Target

(* A process never goes down with executions still in its hands, unless    *)
(* they end with it.                                                       *)
LEMMA HostStep ==
  ASSUME IInv, [Next]_vars, NEW x \in Webhooks
  PROVE  HostIsAlive(x)'
<1>1. TypeOK /\ HostIsAlive(x) /\ ExecutionHoldsJob(x) /\ AdmissionIsAtomic(x)
  BY DEF IInv
<1> USE <1>1, SentinelAssumption DEF HostIsAlive, TypeOK, logVars, execVars, dataVars
<1>2. ASSUME NEW w \in Webhooks, EnqueueWebhook(w) PROVE HostIsAlive(x)'
  BY <1>2 DEF EnqueueWebhook, Begin, InsertLog, InsertJob, Commit, Rollback
<1>3. ASSUME NEW w \in Webhooks, River(w) PROVE HostIsAlive(x)'
  <2>1. CASE Schedule(w)
    BY <2>1 DEF Schedule
  <2>2. CASE Rescue(w) \/ Finish(w)
    <3>1. x # w => host'[x] = host[x] /\ pc'[x] = pc[x]
      BY <2>2 DEF Rescue, Finish
    <3>2. x = w => host'[x] = NoWorker
      BY <2>2 DEF Rescue, Finish
    <3>3. up' = up
      BY <2>2 DEF Rescue, Finish
    <3> QED
      BY <3>1, <3>2, <3>3
  <2>3. ASSUME NEW v \in Workers, Fetch(w, v) PROVE HostIsAlive(x)'
    BY <2>3 DEF Fetch
  <2> QED
    BY <1>3, <2>1, <2>2, <2>3 DEF River
<1>4. ASSUME NEW w \in Webhooks, Work(w) PROVE HostIsAlive(x)'
  BY <1>4 DEF Work, Load, RouteUnrouted, RouteUpsert, RecordEvent, MarkWebhookProcessed,
              CallFails, Proceed
<1>5. ASSUME NEW v \in Workers, Process(v) PROVE HostIsAlive(x)'
  <2>1. CASE Start(v) \/ Stop(v)
    BY <2>1 DEF Start, Stop
  <2>2. CASE Exit(v)
    BY <2>2 DEF Exit, Hosted
  <2>3. CASE Crash(v)
    BY <2>3 DEF Crash
  <2> QED
    BY <1>5, <2>1, <2>2, <2>3 DEF Process
<1>6. CASE UNCHANGED vars
  BY <1>6 DEF vars
<1> QED
  BY <1>2, <1>3, <1>4, <1>5, <1>6 DEF Next

(* No step of the API, of River, of a worker or of its process breaks the  *)
(* inductive invariant.                                                    *)
LEMMA StepInductive == IInv /\ [Next]_vars => IInv'
<1> SUFFICES ASSUME IInv, [Next]_vars PROVE IInv'
  OBVIOUS
<1>0. TypeOK /\ TypeOK'
  BY TypeInductive DEF IInv
<1>l. \A x \in Webhooks : Local(x)
  BY DEF IInv, Local
<1>h. \A x \in Webhooks : HostIsAlive(x)'
  BY HostStep
<1> SUFFICES ASSUME NEW x \in Webhooks PROVE Local(x)'
  BY <1>0, <1>h DEF IInv, Local
<1> USE <1>0, <1>l, LimitAssumption, SentinelAssumption
<1>1. ASSUME NEW w \in Webhooks, EnqueueWebhook(w) PROVE Local(x)'
  <2>1. CASE x = w
    BY <1>1, <2>1 DEF EnqueueWebhook, Begin, InsertLog, InsertJob, Commit, Rollback, TypeOK,
       logVars, execVars, dataVars,
       Local, ExecutionHoldsJob, AdmissionIsAtomic, GuardHolds, EffectsInOrder, Is, Target
  <2>2. CASE x # w
    <3>1. Bystander(x) /\ payload' = payload
      BY <1>1, <2>2 DEF EnqueueWebhook, Begin, InsertLog, InsertJob, Commit, Rollback, TypeOK,
         logVars, execVars, dataVars, Bystander
    <3> QED
      BY <3>1, BystanderKeepsLocal
  <2> QED
    BY <2>1, <2>2
<1>2. ASSUME NEW w \in Webhooks, River(w) PROVE Local(x)'
  <2>1. CASE Schedule(w)
    <3>1. CASE x = w
      BY <2>1, <3>1 DEF Schedule, TypeOK, logVars, execVars, dataVars,
         Local, ExecutionHoldsJob, AdmissionIsAtomic, GuardHolds, EffectsInOrder, Is, Target
    <3>2. CASE x # w
      <4>1. Bystander(x) /\ payload' = payload
        BY <2>1, <3>2 DEF Schedule, TypeOK, logVars, execVars, dataVars, Bystander
      <4> QED
        BY <4>1, BystanderKeepsLocal
    <3> QED
      BY <3>1, <3>2
  <2>2. CASE Rescue(w)
    <3>1. CASE x = w
      BY <2>2, <3>1 DEF Rescue, AfterFailure, TypeOK, logVars, execVars, dataVars,
         Local, ExecutionHoldsJob, AdmissionIsAtomic, GuardHolds, EffectsInOrder, Is, Target
    <3>2. CASE x # w
      <4>1. Bystander(x) /\ payload' = payload
        BY <2>2, <3>2 DEF Rescue, AfterFailure, TypeOK, logVars, execVars, dataVars, Bystander
      <4> QED
        BY <4>1, BystanderKeepsLocal
    <3> QED
      BY <3>1, <3>2
  <2>3. CASE Finish(w)
    <3>1. CASE x = w
      BY <2>3, <3>1 DEF Finish, AfterFailure, TypeOK, logVars, execVars, dataVars,
         Local, ExecutionHoldsJob, AdmissionIsAtomic, GuardHolds, EffectsInOrder, Is, Target
    <3>2. CASE x # w
      <4>1. Bystander(x) /\ payload' = payload
        BY <2>3, <3>2 DEF Finish, AfterFailure, TypeOK, logVars, execVars, dataVars, Bystander
      <4> QED
        BY <4>1, BystanderKeepsLocal
    <3> QED
      BY <3>1, <3>2
  <2>4. ASSUME NEW v \in Workers, Fetch(w, v) PROVE Local(x)'
    <3>1. CASE x = w
      BY <2>4, <3>1 DEF Fetch, TypeOK, logVars, execVars, dataVars,
         Local, ExecutionHoldsJob, AdmissionIsAtomic, GuardHolds, EffectsInOrder, Is, Target
    <3>2. CASE x # w
      <4>1. Bystander(x) /\ payload' = payload
        BY <2>4, <3>2 DEF Fetch, TypeOK, logVars, execVars, dataVars, Bystander
      <4> QED
        BY <4>1, BystanderKeepsLocal
    <3> QED
      BY <3>1, <3>2
  <2> QED
    BY <1>2, <2>1, <2>2, <2>3, <2>4 DEF River
<1>3. ASSUME NEW w \in Webhooks, Work(w) PROVE Local(x)'
  <2>1. CASE Load(w)
    <3>1. CASE x = w
      BY <2>1, <3>1 DEF Load, TypeOK, logVars, execVars, dataVars,
         Local, ExecutionHoldsJob, AdmissionIsAtomic, GuardHolds, EffectsInOrder, Is, Target
    <3>2. CASE x # w
      <4>1. Bystander(x) /\ payload' = payload
        BY <2>1, <3>2 DEF Load, TypeOK, logVars, execVars, dataVars, Bystander
      <4> QED
        BY <4>1, BystanderKeepsLocal
    <3> QED
      BY <3>1, <3>2
  <2>2. CASE RouteUnrouted(w)
    <3>1. CASE x = w
      BY <2>2, <3>1 DEF RouteUnrouted, TypeOK, logVars, execVars, dataVars,
         Local, ExecutionHoldsJob, AdmissionIsAtomic, GuardHolds, EffectsInOrder, Is, Target
    <3>2. CASE x # w
      <4>1. Bystander(x) /\ payload' = payload
        BY <2>2, <3>2 DEF RouteUnrouted, TypeOK, logVars, execVars, dataVars, Bystander
      <4> QED
        BY <4>1, BystanderKeepsLocal
    <3> QED
      BY <3>1, <3>2
  <2>3. CASE RouteUpsert(w)
    <3>1. CASE x = w
      BY <2>3, <3>1 DEF RouteUpsert, Proceed, TypeOK, logVars, execVars, dataVars,
         Local, ExecutionHoldsJob, AdmissionIsAtomic, GuardHolds, EffectsInOrder, Is, Target
    <3>2. CASE x # w
      <4>1. Bystander(x) /\ payload' = payload
        BY <2>3, <3>2 DEF RouteUpsert, Proceed, TypeOK, logVars, execVars, dataVars, Bystander
      <4> QED
        BY <4>1, BystanderKeepsLocal
    <3> QED
      BY <3>1, <3>2
  <2>4. CASE RecordEvent(w)
    <3>1. CASE x = w
      BY <2>4, <3>1 DEF RecordEvent, Proceed, TypeOK, logVars, execVars, dataVars,
         Local, ExecutionHoldsJob, AdmissionIsAtomic, GuardHolds, EffectsInOrder, Is, Target
    <3>2. CASE x # w
      <4>1. Bystander(x) /\ payload' = payload
        BY <2>4, <3>2 DEF RecordEvent, Proceed, TypeOK, logVars, execVars, dataVars, Bystander
      <4> QED
        BY <4>1, BystanderKeepsLocal
    <3> QED
      BY <3>1, <3>2
  <2>5. CASE MarkWebhookProcessed(w)
    <3>1. CASE x = w
      BY <2>5, <3>1 DEF MarkWebhookProcessed, Proceed, TypeOK, logVars, execVars, dataVars,
         Local, ExecutionHoldsJob, AdmissionIsAtomic, GuardHolds, EffectsInOrder, Is, Target
    <3>2. CASE x # w
      <4>1. Bystander(x) /\ payload' = payload
        BY <2>5, <3>2 DEF MarkWebhookProcessed, Proceed, TypeOK, logVars, execVars, dataVars, Bystander
      <4> QED
        BY <4>1, BystanderKeepsLocal
    <3> QED
      BY <3>1, <3>2
  <2>6. CASE CallFails(w)
    <3>1. CASE x = w
      BY <2>6, <3>1 DEF CallFails, TypeOK, logVars, execVars, dataVars,
         Local, ExecutionHoldsJob, AdmissionIsAtomic, GuardHolds, EffectsInOrder, Is, Target
    <3>2. CASE x # w
      <4>1. Bystander(x) /\ payload' = payload
        BY <2>6, <3>2 DEF CallFails, TypeOK, logVars, execVars, dataVars, Bystander
      <4> QED
        BY <4>1, BystanderKeepsLocal
    <3> QED
      BY <3>1, <3>2
  <2> QED
    BY <1>3, <2>1, <2>2, <2>3, <2>4, <2>5, <2>6 DEF Work
<1>4. ASSUME NEW v \in Workers, Process(v) PROVE Local(x)'
  <2>1. CASE Crash(v)
    BY <2>1 DEF Crash, TypeOK, logVars, dataVars,
       Local, ExecutionHoldsJob, AdmissionIsAtomic, GuardHolds, EffectsInOrder, Is, Target
  <2>2. CASE Start(v) \/ Stop(v) \/ Exit(v)
    <3>1. Bystander(x) /\ payload' = payload
      BY <2>2 DEF Start, Stop, Exit, logVars, dataVars, Bystander
    <3> QED
      BY <3>1, BystanderKeepsLocal
  <2> QED
    BY <1>4, <2>1, <2>2 DEF Process
<1>5. CASE UNCHANGED vars
  <2>1. Bystander(x) /\ payload' = payload
    BY <1>5 DEF vars, Bystander
  <2> QED
    BY <2>1, BystanderKeepsLocal
<1> QED
  BY <1>1, <1>2, <1>3, <1>4, <1>5 DEF Next

(* IInv holds in every reachable state of the pipeline.                    *)
THEOREM Inductive == Spec => []IInv
<1>1. Init => IInv
  BY InitInductive
<1>2. IInv /\ [Next]_vars => IInv'
  BY StepInductive
<1> QED
  BY <1>1, <1>2, PTL DEF Spec

(* Every variable of the pipeline keeps its type.                          *)
THEOREM TypeCorrect == Spec => []TypeOK
BY Inductive, PTL DEF IInv

(* An acknowledged webhook is in the log, and no log row is ever without   *)
(* its job or the reverse (jobs.go:77-79).                                 *)
THEOREM NothingLostOrOrphaned == Spec => []NoLostOrOrphanedWork
<1>1. IInv => NoLostOrOrphanedWork
  BY DEF IInv, AdmissionIsAtomic, NoLostOrOrphanedWork
<1> QED
  BY <1>1, Inductive, PTL

(* A webhook marked processed has its event and its typed row, in spite of *)
(* crashes, retries and lost replies (worker.go:69-82).                    *)
THEOREM ProcessedWorkIsComplete == Spec => []ProcessedIsComplete
<1>1. ASSUME IInv, NEW w \in Webhooks, log[w] = "processed"
      PROVE  /\ events[w] >= 1 /\ ~Is(w, "poison")
             /\ Is(w, "entity") => writes[w] >= 1 /\ rows[Target(w)] # NoRow
  BY <1>1 DEF IInv, TypeOK, EffectsInOrder
<1>2. IInv => ProcessedIsComplete
  BY <1>1 DEF ProcessedIsComplete
<1> QED
  BY <1>2, Inductive, PTL

(* River completes a job only when its webhook is processed.               *)
THEOREM CompletedWorkIsProcessed == Spec => []CompletedImpliesProcessed
<1>1. IInv => CompletedImpliesProcessed
  BY DEF IInv, GuardHolds, CompletedImpliesProcessed
<1> QED
  BY <1>1, Inductive, PTL

(* Retries repeat writes and events at most once per granted attempt, and  *)
(* an entity's events never outnumber its writes.                          *)
THEOREM BoundedEffects == Spec => []EffectsAreBounded
<1>1. IInv => EffectsAreBounded
  BY DEF IInv, AdmissionIsAtomic, EffectsInOrder, EffectsAreBounded
<1> QED
  BY <1>1, Inductive, PTL

(* One step leaves a webhook alone, ends a stage of the current attempt,   *)
(* or starts the next attempt with one that is still granted.              *)
LEMMA StageEnds ==
  ASSUME IInv, [Next]_vars, NEW x \in Webhooks
  PROVE  \/ Traces(x)' = Traces(x)
         \/ /\ attempt'[x] = attempt[x]
            /\ StepsOfAttempt(x) \in 1 .. 8
            /\ StepsOfAttempt(x)' \in 0 .. StepsOfAttempt(x) - 1
         \/ /\ attempt'[x] = attempt[x] + 1 /\ attempt[x] < MaxAttempts
            /\ StepsOfAttempt(x) = 1 /\ StepsOfAttempt(x)' = 8
<1> DEFINE Same == Traces(x)' = Traces(x)
           Ends == /\ attempt'[x] = attempt[x]
                   /\ StepsOfAttempt(x) \in 1 .. 8
                   /\ StepsOfAttempt(x)' \in 0 .. StepsOfAttempt(x) - 1
           Again == /\ attempt'[x] = attempt[x] + 1 /\ attempt[x] < MaxAttempts
                    /\ StepsOfAttempt(x) = 1 /\ StepsOfAttempt(x)' = 8
<1> USE SentinelAssumption DEF logVars, execVars, dataVars, Traces
<1>t. TypeOK /\ ExecutionHoldsJob(x) /\ AdmissionIsAtomic(x) /\ HostIsAlive(x)
  BY DEF IInv
<1>1. ASSUME NEW w \in Webhooks, EnqueueWebhook(w) PROVE Same \/ Ends
  <2>1. CASE Begin(w) \/ InsertLog(w) \/ InsertJob(w) \/ Rollback(w)
    BY <2>1 DEF Begin, InsertLog, InsertJob, Rollback
  <2>2. CASE Commit(w) /\ w = x
    <3>1. job[x] = "none" /\ pc[x] = "none"
      BY <2>2, <1>t DEF Commit, AdmissionIsAtomic, ExecutionHoldsJob
    <3>2. job'[x] = "available" /\ pc'[x] = "none" /\ attempt'[x] = attempt[x]
      BY <2>2, <3>1, <1>t DEF Commit, TypeOK
    <3> QED
      BY <3>1, <3>2 DEF StepsOfAttempt
  <2>3. CASE Commit(w) /\ w # x
    BY <2>3, <1>t DEF Commit, TypeOK
  <2> QED
    BY <1>1, <2>1, <2>2, <2>3 DEF EnqueueWebhook
<1>2. ASSUME NEW w \in Webhooks, River(w) PROVE Same \/ Ends \/ Again
  <2>1. CASE Schedule(w) /\ w = x
    <3>1. pc[x] = "none" /\ job[x] = "retryable"
      BY <2>1, <1>t DEF Schedule, ExecutionHoldsJob
    <3>2. job'[x] = "available" /\ pc'[x] = "none" /\ attempt'[x] = attempt[x]
      BY <2>1, <3>1, <1>t DEF Schedule, TypeOK
    <3> QED
      BY <3>1, <3>2 DEF StepsOfAttempt
  <2>2. CASE (Rescue(w) \/ Finish(w)) /\ w = x
    <3>1. \/ pc[x] = "none" /\ job[x] = "running"
          \/ pc[x] \in {"ok", "err"}
      BY <2>2, <1>t DEF Rescue, Finish, ExecutionHoldsJob
    <3>2. AfterFailure(x) \in {"retryable", "discarded"}
      BY DEF AfterFailure
    <3>3. job'[x] \in {"completed", AfterFailure(x)} /\ attempt'[x] = attempt[x]
      BY <2>2, <1>t DEF Rescue, Finish, TypeOK
    <3>4. pc'[x] = "none"
      BY <2>2, <3>1, <1>t DEF Rescue, Finish, TypeOK, ExecutionHoldsJob
    <3> QED
      BY <3>1, <3>2, <3>3, <3>4 DEF StepsOfAttempt
  <2>3. ASSUME NEW v \in Workers, Fetch(w, v), w = x PROVE Again
    <3>1. job[x] = "available" /\ pc[x] = "none" /\ attempt[x] < MaxAttempts
      BY <2>3, <1>t DEF Fetch, ExecutionHoldsJob, AdmissionIsAtomic
    <3>2. pc'[x] = "load" /\ attempt'[x] = attempt[x] + 1
      BY <2>3, <1>t DEF Fetch, TypeOK
    <3> QED
      BY <3>1, <3>2 DEF StepsOfAttempt
  <2>4. CASE w # x
    BY <1>2, <2>4, <1>t DEF River, Schedule, Rescue, Finish, Fetch, TypeOK
  <2> QED
    BY <1>2, <2>1, <2>2, <2>3, <2>4 DEF River
<1>3. ASSUME NEW w \in Webhooks, Work(w) PROVE Same \/ Ends
  <2>1. CASE w = x
    <3>1. /\ job'[x] = job[x] /\ attempt'[x] = attempt[x]
          /\ \/ pc[x] = "load"  /\ pc'[x] \in {"route", "ok", "err"}
             \/ pc[x] = "route" /\ pc'[x] \in {"event", "err"}
             \/ pc[x] = "event" /\ pc'[x] \in {"mark", "err"}
             \/ pc[x] = "mark"  /\ pc'[x] \in {"ok", "err"}
      BY <1>3, <2>1, <1>t DEF Work, Load, RouteUnrouted, RouteUpsert, RecordEvent,
         MarkWebhookProcessed, CallFails, Proceed, TypeOK
    <3> QED
      BY <3>1 DEF StepsOfAttempt
  <2>2. CASE w # x
    BY <1>3, <2>2, <1>t DEF Work, Load, RouteUnrouted, RouteUpsert, RecordEvent,
       MarkWebhookProcessed, CallFails, Proceed, TypeOK
  <2> QED
    BY <2>1, <2>2
<1>4. ASSUME NEW v \in Workers, Process(v) PROVE Same \/ Ends
  <2>1. CASE Start(v) \/ Stop(v) \/ Exit(v)
    BY <2>1 DEF Start, Stop, Exit
  <2>2. CASE Crash(v) /\ host[x] # v
    BY <2>2, <1>t DEF Crash, TypeOK
  <2>3. CASE Crash(v) /\ host[x] = v
    <3>1. job[x] = "running" /\ pc[x] \in {"load", "route", "event", "mark", "ok", "err"}
      BY <2>3, <1>t DEF HostIsAlive, ExecutionHoldsJob, TypeOK, ExecStates
    <3>2. job'[x] = "running" /\ pc'[x] = "none" /\ attempt'[x] = attempt[x]
      BY <2>3, <3>1, <1>t DEF Crash, TypeOK
    <3> QED
      BY <3>1, <3>2 DEF StepsOfAttempt
  <2> QED
    BY <1>4, <2>1, <2>2, <2>3 DEF Process
<1>5. CASE UNCHANGED vars
  BY <1>5 DEF vars
<1> QED
  BY <1>1, <1>2, <1>3, <1>4, <1>5 DEF Next

(* Crashes, lost replies and retries included, every step that touches a   *)
(* webhook brings it nearer to being settled or given up: there are at     *)
(* most 9 * MaxAttempts + 3 of them.                                       *)
THEOREM ProcessingIsBounded == Spec => WorkIsBounded
<1> DEFINE Bounded == \A w \in Webhooks : Traces(w)' # Traces(w) => WorkLeft(w)' \in 0 .. WorkLeft(w) - 1
<1>1. IInv /\ [Next]_vars => [Bounded]_vars
  <2> SUFFICES ASSUME IInv, [Next]_vars, NEW w \in Webhooks, Traces(w)' # Traces(w)
               PROVE  WorkLeft(w)' \in 0 .. WorkLeft(w) - 1
    OBVIOUS
  <2>1. attempt[w] \in Nat /\ attempt[w] <= MaxAttempts /\ MaxAttempts \in Nat
    BY LimitAssumption DEF IInv, TypeOK, AdmissionIsAtomic
  <2>2. \/ /\ attempt'[w] = attempt[w]
           /\ StepsOfAttempt(w) \in 1 .. 8
           /\ StepsOfAttempt(w)' \in 0 .. StepsOfAttempt(w) - 1
        \/ /\ attempt'[w] = attempt[w] + 1 /\ attempt[w] < MaxAttempts
           /\ StepsOfAttempt(w) = 1 /\ StepsOfAttempt(w)' = 8
    BY StageEnds
  <2> QED
    BY <2>1, <2>2 DEF WorkLeft
<1> QED
  BY <1>1, Inductive, PTL DEF Spec, WorkIsBounded

(* A processed webhook is never written, recorded or unmarked again        *)
(* (worker.go:65).                                                         *)
THEOREM ProcessedStaysFinal == Spec => ProcessedIsFinal
<1> DEFINE Final == \A w \in Webhooks : log[w] = "processed" =>
                 log'[w] = "processed" /\ events'[w] = events[w] /\ writes'[w] = writes[w]
<1>1. IInv /\ [Next]_vars => Final
  <2> SUFFICES ASSUME IInv, [Next]_vars, NEW x \in Webhooks, log[x] = "processed"
               PROVE  log'[x] = "processed" /\ events'[x] = events[x] /\ writes'[x] = writes[x]
    OBVIOUS
  <2> USE DEF IInv, TypeOK, GuardHolds, AdmissionIsAtomic, logVars, execVars, dataVars
  <2>1. ASSUME NEW w \in Webhooks, EnqueueWebhook(w)
        PROVE  log'[x] = "processed" /\ events'[x] = events[x] /\ writes'[x] = writes[x]
    BY <2>1 DEF EnqueueWebhook, Begin, InsertLog, InsertJob, Commit, Rollback
  <2>2. ASSUME NEW w \in Webhooks, River(w)
        PROVE  log'[x] = "processed" /\ events'[x] = events[x] /\ writes'[x] = writes[x]
    BY <2>2 DEF River, Schedule, Rescue, Finish, Fetch
  <2>3. ASSUME NEW w \in Webhooks, Work(w)
        PROVE  log'[x] = "processed" /\ events'[x] = events[x] /\ writes'[x] = writes[x]
    BY <2>3 DEF Work, Load, RouteUnrouted, RouteUpsert, RecordEvent, MarkWebhookProcessed, CallFails
  <2>4. ASSUME NEW v \in Workers, Process(v)
        PROVE  log'[x] = "processed" /\ events'[x] = events[x] /\ writes'[x] = writes[x]
    BY <2>4 DEF Process, Start, Stop, Exit, Crash
  <2>5. CASE UNCHANGED vars
    BY <2>5 DEF vars
  <2> QED
    BY <2>1, <2>2, <2>3, <2>4, <2>5 DEF Next
<1>2. IInv /\ [Next]_vars => [Final]_vars
  BY <1>1
<1> QED
  BY <1>2, Inductive, PTL DEF Spec, ProcessedIsFinal

(* A row that shows another delivery goes back to this one only through an *)
(* upsert of its own, and one that follows an earlier upsert belongs to a  *)
(* later attempt of a webhook that is not marked (worker.go:65-82).        *)
THEOREM StaleContentNeedsRetry == Spec => ComebackNeedsRetry
<1> DEFINE Retried == \A k \in Identities, w \in Webhooks :
             rows[k] # w /\ rows'[k] = w /\ writes[w] >= 1 =>
               log[w] = "queued" /\ log'[w] = "queued" /\ attempt[w] > writes[w]
<1>1. IInv /\ [Next]_vars => Retried
  <2> SUFFICES ASSUME IInv, [Next]_vars, NEW k \in Identities, NEW x \in Webhooks,
                      rows[k] # x, rows'[k] = x
               PROVE  log[x] = "queued" /\ log'[x] = "queued" /\ attempt[x] > writes[x]
    OBVIOUS
  <2>1. rows' # rows
    OBVIOUS
  <2>2. PICK w \in Webhooks : RouteUpsert(w)
    BY <2>1 DEF Next, EnqueueWebhook, Begin, InsertLog, InsertJob, Commit, Rollback,
       River, Schedule, Rescue, Finish, Fetch, Work, Load, RouteUnrouted, RecordEvent,
       MarkWebhookProcessed, CallFails, Process, Start, Stop, Exit, Crash, vars, dataVars
  <2>3. w = x
    BY <2>2 DEF RouteUpsert, IInv, TypeOK
  <2>4. pc[x] = "route" /\ log' = log
    BY <2>2, <2>3 DEF RouteUpsert, logVars
  <2> QED
    BY <2>4 DEF IInv, TypeOK, GuardHolds, EffectsInOrder
<1>2. IInv /\ [Next]_vars => [Retried]_vars
  BY <1>1
<1> QED
  BY <1>2, Inductive, PTL DEF Spec, ComebackNeedsRetry

(* The ledger's view of a state.                                           *)
Status    == [w \in Webhooks |-> LedgerStatus(w)]
Typed     == {w \in Webhooks : Is(w, "entity")}
Acked     == {w \in Webhooks : api[w] = "acked"}
Applied   == {w \in Webhooks : writes[w] > 0}
Recorded  == {w \in Webhooks : events[w] > 0}
LedgerView == <<Typed, Status, Acked, Applied, Recorded>>

(* A step that serves w changes the ledger's status of w only.             *)
LEMMA StatusOfOne ==
  ASSUME NEW w \in Webhooks,
         \A x \in Webhooks : x # w => log'[x] = log[x] /\ job'[x] = job[x]
  PROVE  Status' = [Status EXCEPT ![w] = LedgerStatus(w)']
<1>1. \A x \in Webhooks : x # w => LedgerStatus(x)' = LedgerStatus(x)
  BY DEF LedgerStatus
<1> QED
  BY <1>1 DEF Status

(* A step that disturbs nothing the ledger sees is a stutter of it.        *)
LEMMA InvisibleStep ==
  ASSUME payload' = payload, log' = log, writes' = writes, events' = events,
         Acked' = Acked,
         \A w \in Webhooks : job[w] = "discarded" <=> job'[w] = "discarded"
  PROVE  LedgerView' = LedgerView
BY DEF LedgerView, Status, Typed, Applied, Recorded, LedgerStatus, Is

(* When River changes the state of the job of an accepted delivery, the    *)
(* ledger sees the delivery abandoned, or nothing.                         *)
LEMMA JobStep ==
  ASSUME NEW w \in Webhooks, NEW s, TypeOK, log[w] # "none", job[w] # "discarded",
         job' = [job EXCEPT ![w] = s],
         payload' = payload, api' = api, log' = log, writes' = writes, events' = events
  PROVE  Ledger!Abandon(w) \/ LedgerView' = LedgerView
<1>1. Typed' = Typed /\ Acked' = Acked /\ Applied' = Applied /\ Recorded' = Recorded
  BY DEF Typed, Acked, Applied, Recorded, Is
<1>2. Status' = [Status EXCEPT ![w] = LedgerStatus(w)']
  BY StatusOfOne DEF TypeOK
<1>3. CASE s = "discarded" /\ log[w] = "queued"
  <2>1. Status[w] = "accepted"
    BY <1>3 DEF Status, LedgerStatus
  <2>2. LedgerStatus(w)' = "abandoned"
    BY <1>3 DEF LedgerStatus, TypeOK
  <2> QED
    BY <1>1, <1>2, <2>1, <2>2
    DEF Ledger!Abandon, Status, Typed, Acked, Applied, Recorded
<1>4. CASE ~(s = "discarded" /\ log[w] = "queued")
  <2>1. LedgerStatus(w)' = LedgerStatus(w)
    BY <1>4 DEF LedgerStatus, TypeOK, LogStates
  <2>2. Status' = Status
    BY <1>2, <2>1 DEF Status
  <2> QED
    BY <1>1, <2>2 DEF LedgerView
<1> QED
  BY <1>3, <1>4

(* Every step of the pipeline is a step of the ledger or leaves its view.  *)
LEMMA LedgerStep ==
  ASSUME IInv, [Next]_vars
  PROVE  Ledger!Next \/ LedgerView' = LedgerView
<1> DEFINE Goal == Ledger!Next \/ LedgerView' = LedgerView
<1> SUFFICES Goal
  OBVIOUS
<1>t. TypeOK
  BY DEF IInv
<1>a. \A w \in Webhooks : Local(w)
  BY DEF IInv, Local
<1> USE DEF logVars, execVars, dataVars
<1>1. ASSUME NEW w \in Webhooks, EnqueueWebhook(w) PROVE Goal
  <2>1. CASE Commit(w)
    <3>1. log[w] = "none" /\ log' = [log EXCEPT ![w] = "queued"] /\ job' = [job EXCEPT ![w] = "available"]
      BY <2>1, <1>a DEF Commit, Local, AdmissionIsAtomic
    <3>2. Status[w] = "absent" /\ LedgerStatus(w)' = "accepted"
      BY <3>1, <1>t DEF Status, LedgerStatus, TypeOK
    <3>3. Status' = [Status EXCEPT ![w] = LedgerStatus(w)']
      BY <3>1, <1>t, StatusOfOne DEF TypeOK
    <3>4. Acked' = Acked \/ Acked' = Acked \cup {w}
      BY <2>1, <1>t DEF Commit, Acked, TypeOK
    <3>5. Typed' = Typed /\ Applied' = Applied /\ Recorded' = Recorded
      BY <2>1 DEF Commit, Typed, Applied, Recorded, Is
    <3>6. Ledger!Accept(w)
      BY <3>2, <3>3, <3>4, <3>5 DEF Ledger!Accept, Status, Typed, Acked, Applied, Recorded
    <3> QED
      BY <3>6 DEF Ledger!Next
  <2>2. CASE Begin(w) \/ InsertLog(w) \/ InsertJob(w) \/ Rollback(w)
    <3>1. Acked' = Acked
      BY <2>2, <1>t DEF Begin, InsertLog, InsertJob, Rollback, Acked, TypeOK
    <3> QED
      BY <2>2, <3>1, InvisibleStep DEF Begin, InsertLog, InsertJob, Rollback
  <2> QED
    BY <1>1, <2>1, <2>2 DEF EnqueueWebhook
<1>2. ASSUME NEW w \in Webhooks, River(w) PROVE Goal
  <2>1. /\ payload' = payload /\ api' = api /\ log' = log /\ writes' = writes /\ events' = events
        /\ job[w] # "none" /\ job[w] # "discarded"
        /\ \E s : job' = [job EXCEPT ![w] = s]
    BY <1>2, <1>a DEF River, Schedule, Rescue, Finish, Fetch, Local, ExecutionHoldsJob
  <2>2. log[w] # "none"
    BY <2>1, <1>a DEF Local, AdmissionIsAtomic
  <2> QED
    BY <2>1, <2>2, <1>t, JobStep DEF Ledger!Next
<1>3. ASSUME NEW w \in Webhooks, Work(w) PROVE Goal
  <2>1. pc[w] # "none" => job[w] = "running"
    BY <1>a DEF Local, ExecutionHoldsJob
  <2>2. pc[w] \in {"route", "event", "mark"} => Status[w] = "accepted"
    BY <2>1, <1>a DEF Local, GuardHolds, Status, LedgerStatus
  <2>3. CASE RouteUpsert(w)
    <3>1. Applied' = Applied \cup {w}
      BY <2>3, <1>t DEF RouteUpsert, Applied, TypeOK
    <3>2. Typed' = Typed /\ Acked' = Acked /\ Status' = Status /\ Recorded' = Recorded
      BY <2>3 DEF RouteUpsert, Typed, Acked, Status, LedgerStatus, Recorded, Is
    <3>3. w \in Typed /\ Status[w] = "accepted"
      BY <2>2, <2>3 DEF RouteUpsert, Typed
    <3>4. Ledger!Apply(w)
      BY <3>1, <3>2, <3>3 DEF Ledger!Apply, Status, Typed, Acked, Applied, Recorded
    <3> QED
      BY <3>4 DEF Ledger!Next
  <2>4. CASE RecordEvent(w)
    <3>1. Recorded' = Recorded \cup {w}
      BY <2>4, <1>t DEF RecordEvent, Recorded, TypeOK
    <3>2. Typed' = Typed /\ Acked' = Acked /\ Status' = Status /\ Applied' = Applied
      BY <2>4 DEF RecordEvent, Typed, Acked, Status, LedgerStatus, Applied, Is
    <3>3. (w \in Typed => w \in Applied) /\ Status[w] = "accepted"
      BY <2>2, <2>4, <1>a, <1>t DEF RecordEvent, Typed, Applied, Local, EffectsInOrder, TypeOK
    <3>4. Ledger!Record(w)
      BY <3>1, <3>2, <3>3 DEF Ledger!Record, Status, Typed, Acked, Applied, Recorded
    <3> QED
      BY <3>4 DEF Ledger!Next
  <2>5. CASE MarkWebhookProcessed(w)
    <3>1. w \in Recorded /\ Status[w] = "accepted"
      BY <2>2, <2>5, <1>a, <1>t DEF MarkWebhookProcessed, Recorded, Local, EffectsInOrder, TypeOK
    <3>2. Typed' = Typed /\ Acked' = Acked /\ Applied' = Applied /\ Recorded' = Recorded
      BY <2>5 DEF MarkWebhookProcessed, Typed, Acked, Applied, Recorded, Is
    <3>3. LedgerStatus(w)' = "settled"
      BY <2>5, <1>t DEF MarkWebhookProcessed, LedgerStatus, TypeOK
    <3>4. Status' = [Status EXCEPT ![w] = LedgerStatus(w)']
      BY <2>5, <1>t, StatusOfOne DEF MarkWebhookProcessed, TypeOK
    <3>5. Ledger!Settle(w)
      BY <3>1, <3>2, <3>3, <3>4 DEF Ledger!Settle, Status, Typed, Acked, Applied, Recorded
    <3> QED
      BY <3>5 DEF Ledger!Next
  <2>6. CASE Load(w) \/ RouteUnrouted(w) \/ CallFails(w)
    BY <2>6, InvisibleStep DEF Load, RouteUnrouted, CallFails, Acked
  <2> QED
    BY <1>3, <2>3, <2>4, <2>5, <2>6 DEF Work
<1>4. ASSUME NEW v \in Workers, Process(v) PROVE Goal
  BY <1>4, InvisibleStep DEF Process, Start, Stop, Exit, Crash, Acked
<1>5. CASE UNCHANGED vars
  BY <1>5, InvisibleStep DEF vars, Acked
<1> QED
  BY <1>1, <1>2, <1>3, <1>4, <1>5 DEF Next

(* The pipeline, with its crashes, retries and lost replies, implements    *)
(* the ledger: acknowledged work is accepted work, and it is applied,      *)
(* recorded and settled in that order or abandoned, for good.              *)
THEOREM PipelineImplementsLedger == Spec => ImplementsLedger
<1>1. Init => Ledger!Init
  BY DEF Init, Ledger!Init, LedgerStatus, Is
<1>2. IInv /\ [Next]_vars => [Ledger!Next]_(Ledger!vars)
  BY LedgerStep
  DEF Ledger!vars, LedgerView, Status, Typed, Acked, Applied, Recorded
<1> QED
  BY <1>1, <1>2, Inductive, PTL DEF Spec, ImplementsLedger, Ledger!Spec
=============================================================================
