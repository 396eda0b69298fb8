------------------------- MODULE SchemaBootProofs --------------------------
(***************************************************************************)
(* Machine-checked proofs about SchemaBoot, for any number of processes,   *)
(* files, releases and failures.                                           *)
(***************************************************************************)
EXTENDS SchemaBoot, TLAPS

(* The invariant holds before any process has started.                     *)
LEMMA BootInit == Init => IInv
<1> SUFFICES ASSUME Init PROVE IInv
  OBVIOUS
<1> USE BootAssumption DEF Init, Steps, AppSteps, RiverSteps
<1>1. TypeOK
  BY DEF TypeOK
<1>2. LocksAreHeld /\ ConnsAreHeld /\ LoopIsSound /\ BootIsSound
  BY DEF LocksAreHeld, ConnsAreHeld, LoopIsSound, BootIsSound
<1>3. CheckedIsStillUnrecorded /\ SchemaIsPrefix /\ \A f \in applied : f >= 1
  BY DEF CheckedIsStillUnrecorded, SchemaIsPrefix
<1> QED
  BY <1>1, <1>2, <1>3 DEF IInv

(* No step of a boot, and no failure of one, breaks the invariant.         *)
LEMMA BootStep == IInv /\ [Next]_vars => IInv'
<1> SUFFICES ASSUME IInv, [Next]_vars PROVE IInv'
  OBVIOUS
<1> USE BootAssumption
    DEF IInv, TypeOK, LocksAreHeld, ConnsAreHeld, LoopIsSound, BootIsSound, Steps, AppSteps, RiverSteps,
        CheckedIsStillUnrecorded, SchemaIsPrefix, Files, dbVars, Goto
<1>1. ASSUME NEW p \in Processes, Start(p) PROVE IInv'
  BY <1>1 DEF Start
<1>2. ASSUME NEW p \in Processes, Acquire(p) PROVE IInv'
  BY <1>2 DEF Acquire, Take
<1>3. ASSUME NEW p \in Processes, Lock(p) PROVE IInv'
  BY <1>3 DEF Lock
<1>4. ASSUME NEW p \in Processes, EnsureTable(p) PROVE IInv'
  BY <1>4 DEF EnsureTable
<1>5. ASSUME NEW p \in Processes, Check(p) PROVE IInv'
  BY <1>5 DEF Check
<1>6. ASSUME NEW p \in Processes, Apply(p) PROVE IInv'
  <2>1. next[p] \notin recorded /\ next[p] >= 1 /\ \A f \in 1 .. next[p] - 1 : f \in recorded
    BY <1>6 DEF Apply
  <2>2. SchemaIsPrefix'
    <3>1. \A f \in applied \ recorded : f = next[p]
      BY <2>1
    <3>2. \A f, g \in applied' \ recorded' : f = g
      BY <1>6, <3>1 DEF Apply
    <3>3. \A f \in applied' : \A g \in 1 .. f - 1 : g \in recorded'
      BY <1>6, <2>1 DEF Apply
    <3> QED
      BY <1>6, <3>2, <3>3 DEF Apply
  <2>3. TypeOK'
    BY <1>6 DEF Apply
  <2>4. LocksAreHeld' /\ ConnsAreHeld'
    BY <1>6 DEF Apply
  <2>5. LoopIsSound' /\ BootIsSound' /\ CheckedIsStillUnrecorded'
    BY <1>6 DEF Apply
  <2> QED
    BY <1>6, <2>1, <2>2, <2>3, <2>4, <2>5 DEF Apply
<1>7. ASSUME NEW p \in Processes, Record(p) PROVE IInv'
  <2>1. \A q \in Processes : pc[q] \in AppSteps => q = p
    BY <1>7 DEF Record
  <2>2. next[p] \in applied /\ next[p] >= 1 /\ \A f \in 1 .. next[p] - 1 : f \in recorded
    BY <1>7 DEF Record
  <2>3. TypeOK'
    <3>1. next' \in [Processes -> Nat] /\ pc' \in [Processes -> Steps]
      BY <1>7 DEF Record
    <3>2. recorded' \in SUBSET Nat
      BY <1>7 DEF Record
    <3> QED
      BY <1>7, <3>1, <3>2 DEF Record
  <2>4. LocksAreHeld' /\ ConnsAreHeld'
    BY <1>7 DEF Record
  <2>5. LoopIsSound'
    BY <1>7, <2>1, <2>2 DEF Record
  <2>6. BootIsSound' /\ CheckedIsStillUnrecorded'
    BY <1>7, <2>1 DEF Record
  <2>7. SchemaIsPrefix' /\ \A f \in applied' : f >= 1
    BY <1>7, <2>2 DEF Record
  <2> QED
    BY <2>3, <2>4, <2>5, <2>6, <2>7
<1>8. ASSUME NEW p \in Processes, Unlock(p) PROVE IInv'
  BY <1>8 DEF Unlock, Give
<1>9. ASSUME NEW p \in Processes, RiverAcquire(p) PROVE IInv'
  BY <1>9 DEF RiverAcquire, Take
<1>10. ASSUME NEW p \in Processes, RiverLock(p) PROVE IInv'
  BY <1>10 DEF RiverLock
<1>11. ASSUME NEW p \in Processes, RiverMigrate(p) PROVE IInv'
  BY <1>11 DEF RiverMigrate
<1>12. ASSUME NEW p \in Processes, RiverUnlock(p) PROVE IInv'
  BY <1>12 DEF RiverUnlock, Give
<1>13. ASSUME NEW p \in Processes, Fail(p) PROVE IInv'
  BY <1>13 DEF Fail, Free
<1>14. CASE UNCHANGED vars
  BY <1>14 DEF vars
<1> QED
  BY <1>1, <1>2, <1>3, <1>4, <1>5, <1>6, <1>7, <1>8, <1>9, <1>10, <1>11, <1>12, <1>13, <1>14
  DEF Next, Boot

(* The inductive invariant holds throughout every boot.                    *)
THEOREM BootInductive == Spec => []IInv
BY BootInit, BootStep, PTL DEF Spec

(* Every variable keeps its type, and connections are never over-returned. *)
THEOREM BootTypeCorrect == Spec => []TypeOK
<1>1. IInv => TypeOK
  BY DEF IInv
<1> QED
  BY <1>1, BootInductive, PTL

(* Check, apply and record are one unit: nobody records the file meanwhile *)
(* (migrate.go:49-70, under the advisory lock of migrate.go:27).           *)
THEOREM CheckedFileIsUnrecorded == Spec => []CheckedIsStillUnrecorded
BY BootInductive, PTL DEF IInv

(* The schema is a prefix of the files, at most one of them unrecorded,    *)
(* whatever boots failed between applying and recording (migrate.go:64-70) *)
THEOREM SchemaStaysPrefix == Spec => []SchemaIsPrefix
BY BootInductive, PTL DEF IInv

(* A serving process has the schema of its release and River's tables.     *)
THEOREM ServingProcessHasSchema == Spec => []ServingHasSchema
<1>1. IInv => ServingHasSchema
  BY DEF IInv, BootIsSound, ServingHasSchema
<1> QED
  BY <1>1, BootInductive, PTL

(* Each advisory lock admits one process (migrate.go:27, jobs.go:32).      *)
THEOREM MutualExclusion == Spec => []OneMigratorAtATime
<1>1. IInv => OneMigratorAtATime
  BY BootAssumption DEF IInv, LocksAreHeld, OneMigratorAtATime
<1> QED
  BY <1>1, BootInductive, PTL

(* The schema never goes back, and what is recorded is not applied again.  *)
THEOREM SchemaNeverGoesBack == Spec => SchemaOnlyGrows
<1> DEFINE Grows == /\ applied \subseteq applied' /\ recorded \subseteq recorded'
                    /\ \A p \in Processes : pc[p] = "apply" /\ pc'[p] = "record" =>
                         next[p] \notin recorded
<1>1. IInv /\ [Next]_vars => [Grows]_vars
  <2>1. ASSUME IInv, [Next]_vars PROVE applied \subseteq applied' /\ recorded \subseteq recorded'
    BY <2>1
    DEF Next, Boot, Start, Acquire, Lock, EnsureTable, Check, Apply, Record, Unlock,
        RiverAcquire, RiverLock, RiverMigrate, RiverUnlock, Fail, dbVars, vars
  <2> QED
    BY <2>1 DEF IInv, CheckedIsStillUnrecorded
<1> QED
  BY <1>1, BootInductive, PTL DEF Spec, SchemaOnlyGrows

(* Two connections are enough, and the locks cannot deadlock: whoever is   *)
(* waited for can go on (migrate.go:21-33, jobs.go:26-43).                 *)
THEOREM BootsNeverDeadlock == Spec => []NoBootIsStuck
<1>1. IInv => NoBootIsStuck
  <2> SUFFICES ASSUME IInv, PoolSize >= 2, NEW p \in Processes
               PROVE  \/ pc[p] = "serving" \/ Ready(p)
                      \/ pc[p] = "lock" /\ lock \in Processes /\ Ready(lock)
                      \/ pc[p] = "rlock" /\ riverLock \in Processes /\ Ready(riverLock)
    BY DEF NoBootIsStuck
  <2>1. \A q \in Processes : conns[q] < PoolSize
    BY BootAssumption DEF IInv, ConnsAreHeld
  <2>2. \A q \in Processes : pc[q] \in AppSteps \cup RiverSteps => Ready(q)
    BY <2>1 DEF IInv, CheckedIsStillUnrecorded, Ready, AppSteps, RiverSteps
  <2>3. /\ lock \in Processes => pc[lock] \in AppSteps
        /\ riverLock \in Processes => pc[riverLock] \in RiverSteps
    BY DEF IInv, LocksAreHeld
  <2>4. pc[p] \in Steps /\ lock \in Processes \cup {Nobody} /\ riverLock \in Processes \cup {Nobody}
    BY DEF IInv, TypeOK
  <2>5. CASE pc[p] \in AppSteps \cup RiverSteps
    BY <2>2, <2>5
  <2>6. CASE pc[p] = "lock"
    BY <2>2, <2>3, <2>4, <2>6 DEF Ready
  <2>7. CASE pc[p] = "rlock"
    BY <2>2, <2>3, <2>4, <2>7 DEF Ready
  <2>8. CASE pc[p] \in {"down", "acquire", "racquire", "serving"}
    BY <2>1, <2>8 DEF Ready
  <2> QED
    BY <2>4, <2>5, <2>6, <2>7, <2>8 DEF Steps
<1> QED
  BY <1>1, BootInductive, PTL

(* And two are needed: River's migrator asks for a second connection while *)
(* the first one holds the lock, so that with a pool of one (pool_max_conns *)
(* of DATABASE_URL) no process ever serves (jobs.go:26-43).                *)
THEOREM OneConnectionNeverServes ==
  ASSUME PoolSize = 1
  PROVE  Spec => [](\A p \in Processes : pc[p] # "serving")
<1> DEFINE Short == \A p \in Processes : pc[p] \notin {"runlock", "serving"}
<1>1. Init => Short
  BY DEF Init
<1>2. IInv /\ Short /\ [Next]_vars => Short'
  <2> SUFFICES ASSUME IInv, Short, [Next]_vars PROVE Short'
    OBVIOUS
  <2>1. CASE UNCHANGED vars
    BY <2>1 DEF vars
  <2>2. ASSUME NEW p \in Processes, Boot(p) \/ Fail(p) PROVE Short'
    <3>1. ~RiverMigrate(p)
      BY DEF RiverMigrate, IInv, ConnsAreHeld
    <3>2. ~RiverUnlock(p)
      BY DEF RiverUnlock
    <3> QED
      BY <2>2, <3>1, <3>2
      DEF IInv, TypeOK, Boot, Start, Acquire, Lock, EnsureTable, Check, Apply, Record, Unlock,
          RiverAcquire, RiverLock, Fail, Goto
  <2> QED
    BY <2>1, <2>2 DEF Next
<1>3. Short => \A p \in Processes : pc[p] # "serving"
  OBVIOUS
<1> QED
  BY <1>1, <1>2, <1>3, BootInductive, PTL DEF Spec

(* A step of the boot of p leaves every other one where it is.             *)
LEMMA BootMovesOne ==
  ASSUME IInv, NEW p \in Processes, Boot(p)
  PROVE  /\ failures' = failures
         /\ \A q \in Processes \ {p} : pc'[q] = pc[q] /\ next'[q] = next[q]
<1> USE DEF Goto, IInv, TypeOK
<1>1. CASE Start(p) \/ Acquire(p) \/ Lock(p) \/ EnsureTable(p) \/ Check(p) \/ Apply(p)
  BY <1>1 DEF Start, Acquire, Lock, EnsureTable, Check, Apply
<1>2. CASE Record(p) \/ Unlock(p) \/ RiverAcquire(p) \/ RiverLock(p) \/ RiverMigrate(p) \/ RiverUnlock(p)
  BY <1>2 DEF Record, Unlock, RiverAcquire, RiverLock, RiverMigrate, RiverUnlock
<1> QED
  BY <1>1, <1>2 DEF Boot

(* And brings p nearer to serving.                                         *)
LEMMA BootLowersRank ==
  ASSUME IInv, IInv', NEW p \in Processes, Boot(p)
  PROVE  0 <= Rank(p)' /\ Rank(p)' < Rank(p)
<1> USE BootAssumption DEF Goto, IInv, TypeOK, LoopIsSound, Rank, FilesLeft
<1>1. CASE Start(p)
  BY <1>1 DEF Start
<1>2. CASE Acquire(p)
  BY <1>2 DEF Acquire
<1>3. CASE Lock(p)
  BY <1>3 DEF Lock
<1>4. CASE EnsureTable(p)
  BY <1>4 DEF EnsureTable
<1>5. CASE Check(p)
  BY <1>5 DEF Check
<1>6. CASE Apply(p)
  BY <1>6 DEF Apply
<1>7. CASE Record(p)
  BY <1>7 DEF Record
<1>8. CASE Unlock(p)
  BY <1>8 DEF Unlock
<1>9. CASE RiverAcquire(p) \/ RiverLock(p) \/ RiverMigrate(p) \/ RiverUnlock(p)
  BY <1>9 DEF RiverAcquire, RiverLock, RiverMigrate, RiverUnlock
<1> QED
  BY <1>1, <1>2, <1>3, <1>4, <1>5, <1>6, <1>7, <1>8, <1>9 DEF Boot

(* No boot runs in circles: apart from failures, every step is progress    *)
(* towards serving (migrate.go:49-71).                                     *)
THEOREM BootsOnlyAdvance == Spec => BootsMakeProgress
<1> DEFINE Progress ==
             failures' = failures =>
               \E p \in Processes :
                 /\ 0 <= Rank(p)' /\ Rank(p)' < Rank(p)
                 /\ \A q \in Processes \ {p} : Rank(q)' = Rank(q)
<1>1. IInv /\ IInv' /\ [Next]_vars => [Progress]_vars
  <2> SUFFICES ASSUME IInv, IInv', Next, failures' = failures PROVE Progress
    OBVIOUS
  <2>1. PICK p \in Processes : Boot(p)
    BY DEF Next, Fail, IInv, TypeOK
  <2>2. 0 <= Rank(p)' /\ Rank(p)' < Rank(p)
    BY <2>1, BootLowersRank
  <2>3. \A q \in Processes \ {p} : Rank(q)' = Rank(q)
    BY <2>1, BootMovesOne DEF Rank, FilesLeft
  <2> QED
    BY <2>2, <2>3
<1> QED
  BY <1>1, BootInductive, PTL DEF Spec, BootsMakeProgress
=============================================================================
