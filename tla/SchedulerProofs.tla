-------------------------- MODULE SchedulerProofs --------------------------
(***************************************************************************)
(* Proofs about the scheduler, for any number of workers, submissions,     *)
(* waiters and groups and any capacity.                                    *)
(***************************************************************************)
EXTENDS Scheduler, TaskPoolProofs, TaskGroupProofs

\* The invariant holds initially.
LEMMA InitInv == Init => Inv
<1>. SUFFICES ASSUME Init PROVE Inv  OBVIOUS
<1>. USE SubmissionsAssumption, SchedulerAssumption
     DEF Init, SubmissionsAssumption, SchedulerAssumption
<1>1. PoolInv /\ GroupInv  BY PoolInitInv, GroupInitInv
<1>2. TypeOK
  BY <1>1 DEF TypeOK, PoolInv, GroupInv, PushStates, WorkerStates, Sites
<1>3. HandsAgree /\ CasWithinCapacity /\ ExpectAccepted /\ WaitSound
  BY DEF PoolInit, HandsAgree, CasWithinCapacity, ExpectAccepted, WaitSound,
         BeforeDec, AfterDec
<1>4. Waiting = {} /\ InHand = {} /\ InService = {} /\ HeldByPush = {}
  BY DEF PoolInit, Waiting, Injected, InHand, InService, HeldByPush, Holding,
         Admitted
<1>5. AcceptedExactlyOnce
  BY <1>4 DEF AcceptedExactlyOnce, Published
<1>6. Accounting  BY <1>4, FS_EmptySet DEF Accounting, Slots
<1>7. Fenced /\ SitesAgree  BY DEF Fenced, SitesAgree, BeforeDec, AfterDec
<1>8. SleepersExact
  <2>1. Sleepers = {}  BY DEF Sleepers
  <2>. QED  BY <2>1, FS_EmptySet DEF SleepersExact
<1>. QED  BY <1>1, <1>2, <1>3, <1>5, <1>6, <1>7, <1>8 DEF Inv

-----------------------------------------------------------------------------
\* Every step of the scheduler is a step of the queues, or leaves them alone.
LEMMA StepIsPoolStep ==
    ASSUME Inv, [Next]_vars
    PROVE  [PoolNext]_poolVars
<1>0. TypeOK /\ PoolTypeOK /\ HandsAgree /\ AcceptedExactlyOnce
  BY DEF Inv, PoolInv
<1>1. ASSUME NEW t \in Tasks, PushCall(t) \/ PushStep(t)
      PROVE  [PoolNext]_poolVars
  <2>1. CASE Publish(t)
    <3>1. t \notin Waiting \cup InHand
      BY <1>0, <2>1 DEF Publish, AcceptedExactlyOnce, Published
    <3>. QED  BY <2>1, <3>1 DEF Publish, PoolNext
  <2>2. CASE ~Publish(t)
    BY <1>1, <2>2
    DEF PushCall, PushStep, ReserveRead, ReserveSlot,
        PushRecheck, PushGroup, PushLastCheck, ReleaseSlot, GroupRollback,
        RecordSubmission, WakeOneCheck, WakeOneNotify
  <2>. QED  BY <2>1, <2>2
<1>2. ASSUME NEW w \in Workers, Spawn(w) \/ WorkerStep(w)
      PROVE  [PoolNext]_poolVars
  <2>0. /\ wpc[w] # "pop" => pos[w] = "idle"
        /\ pos[w] = "idle" =>
             (current[w] # NoTask <=> wpc[w] \in BeforeDec \cup AfterDec)
    BY <1>0 DEF HandsAgree
  <2>1. CASE Lookup(w)
    <3>1. PopCall(w) => current[w] = NoTask
      BY <2>0, <2>1 DEF Lookup, PopCall, BeforeDec, AfterDec
    <3>. QED  BY <2>1, <3>1 DEF Lookup, PoolNext, PoolClient
  <2>2. CASE LookupDone(w) \/ LookupEmpty(w)
    BY <2>2 DEF LookupDone, LookupEmpty, PoolNext, PoolClient, Results
  <2>3. CASE TaskCompleted(w) \/ NotifyIdle(w) \/ LeaveGroup(w)
    <3>1. pos[w] = "idle" /\ current[w] # NoTask
      BY <2>0, <2>3
      DEF TaskCompleted, NotifyIdle, LeaveGroup, BeforeDec, AfterDec
    <3>2. DropTask(w) \/ UNCHANGED poolVars
      BY <2>3 DEF TaskCompleted, NotifyIdle, LeaveGroup, AfterAccounting
    <3>. QED  BY <3>1, <3>2 DEF PoolNext, PoolClient
  <2>4. CASE \/ Spawn(w) \/ Exit(w) \/ GoOn(w) \/ Lock(w) \/ PublishSleeping(w)
             \/ Park(w) \/ Resume(w) \/ Execute(w) \/ RecordCompletion(w)
    BY <2>4 DEF Spawn, Exit, GoOn, Lock, PublishSleeping, Park, Resume,
                Execute, RecordCompletion
  <2>. QED  BY <1>2, <2>1, <2>2, <2>3, <2>4 DEF WorkerStep
<1>3. ASSUME NEW x \in Waiters, WaitCall(x) \/ WaitCheck(x) \/ WaitPark(x)
      PROVE  UNCHANGED poolVars
  BY <1>3 DEF WaitCall, WaitCheck, WaitPark
<1>4. ASSUME ShutdownStore \/ ShutdownNotify \/ Destroy \/ OwnerStep \/ GroupClient
      PROVE  UNCHANGED poolVars
  BY <1>4 DEF ShutdownStore, ShutdownNotify, Destroy, OwnerStep, Created,
              SpawnFails, OwnerStore, OwnerNotify, OwnerJoin, OwnerTo,
              GroupClient
<1>5. CASE UNCHANGED vars  BY <1>5 DEF vars
<1>. QED  BY <1>1, <1>2, <1>3, <1>4, <1>5 DEF Next

\* Every step of the scheduler is a step of the groups, or leaves them alone.
LEMMA StepIsGroupStep ==
    ASSUME Inv, [Next]_vars
    PROVE  [GroupNext]_groupVars
<1>1. ASSUME NEW t \in Tasks, PushCall(t) \/ PushStep(t)
      PROVE  [GroupNext]_groupVars
  <2>1. CASE PushGroup(t) \/ GroupRollback(t)
    BY <2>1 DEF PushGroup, GroupRollback, GroupNext
  <2>2. CASE ~(PushGroup(t) \/ GroupRollback(t))
    BY <1>1, <2>2
    DEF PushCall, PushStep, ReserveRead, ReserveSlot,
        PushRecheck, PushLastCheck, ReleaseSlot, Publish,
        RecordSubmission, WakeOneCheck, WakeOneNotify
  <2>. QED  BY <2>1, <2>2
<1>2. ASSUME NEW w \in Workers, Spawn(w) \/ WorkerStep(w)
      PROVE  [GroupNext]_groupVars
  <2>1. CASE LeaveGroup(w)
    <3>1. current[w] \in Tasks
      BY <2>1 DEF LeaveGroup, Inv, HandsAgree, AfterDec, PoolInv, PoolTypeOK
    <3>. QED  BY <2>1, <3>1 DEF LeaveGroup, GroupNext
  <2>2. CASE ~LeaveGroup(w)
    BY <1>2, <2>2
    DEF Spawn, WorkerStep, Lookup, LookupDone, LookupEmpty, Exit, GoOn, Lock,
        PublishSleeping, Park, Resume, Execute, RecordCompletion,
        TaskCompleted, NotifyIdle
  <2>. QED  BY <2>1, <2>2
<1>3. ASSUME NEW x \in Waiters, WaitCall(x) \/ WaitCheck(x) \/ WaitPark(x)
      PROVE  UNCHANGED groupVars
  BY <1>3 DEF WaitCall, WaitCheck, WaitPark
<1>4. ASSUME ShutdownStore \/ ShutdownNotify \/ Destroy \/ OwnerStep
      PROVE  UNCHANGED groupVars
  BY <1>4 DEF ShutdownStore, ShutdownNotify, Destroy, OwnerStep, Created,
              SpawnFails, OwnerStore, OwnerNotify, OwnerJoin, OwnerTo
<1>5. CASE GroupClient  BY <1>5 DEF GroupClient, GroupNext
<1>6. CASE UNCHANGED vars  BY <1>6 DEF vars
<1>. QED  BY <1>1, <1>2, <1>3, <1>4, <1>5, <1>6 DEF Next

-----------------------------------------------------------------------------
\* The slots and the sleepers are finite sets.
LEMMA SlotsFinite ==
    /\ IsFiniteSet(Slots)
    /\ Cardinality(Slots) \in Nat
<1>1. Slots \in SUBSET Tasks
  BY DEF Slots, HeldByPush, Waiting, Injected, InService
<1>2. IsFiniteSet(Slots)
  BY <1>1, SubmissionsAssumption, FS_Subset DEF SubmissionsAssumption
<1>. QED  BY <1>2, FS_CardinalityType

LEMMA SleepersFinite ==
    /\ IsFiniteSet(Sleepers)
    /\ Cardinality(Sleepers) \in Nat
<1>1. Sleepers \in SUBSET Workers  BY DEF Sleepers
<1>2. IsFiniteSet(Sleepers)
  BY <1>1, PoolAssumption, FS_Subset DEF PoolAssumption
<1>. QED  BY <1>2, FS_CardinalityType

\* Leaving the sleep region takes the worker out of the sleepers and keeps
\* the count exact (and not below zero).
LEMMA LeaveCounts ==
    ASSUME Inv, NEW w \in Workers, LeaveSleepRegion(w)
    PROVE  SleepersExact' /\ sleeping_workers' \in Nat
<1>0. site \in [Workers -> Sites] /\ SleepersExact  BY DEF Inv, TypeOK
<1>1. Sleepers' = Sleepers \ {w}
  BY <1>0 DEF LeaveSleepRegion, Sleepers
<1>2. Cardinality(Sleepers \ {w}) =
        IF w \in Sleepers THEN Cardinality(Sleepers) - 1 ELSE Cardinality(Sleepers)
  BY SleepersFinite, FS_RemoveElement
<1>3. w \in Sleepers <=> site[w] = "final"  BY DEF Sleepers
<1>4. IsFiniteSet(Sleepers \ {w})  BY SleepersFinite, FS_RemoveElement
<1>5. Cardinality(Sleepers') \in Nat  BY <1>1, <1>4, FS_CardinalityType
<1>. QED
  BY <1>0, <1>1, <1>2, <1>3, <1>5 DEF LeaveSleepRegion, SleepersExact

\* The sleep region: the count of the sleepers stays exact and the workers'
\* positions stay in step with it.
LEMMA SleepStep ==
    ASSUME Inv, [Next]_vars
    PROVE  SitesAgree' /\ SleepersExact' /\ sleeping_workers' \in Nat
<1>0. /\ TypeOK /\ SitesAgree /\ SleepersExact /\ sleeping_workers \in Nat
      /\ wpc \in [Workers -> WorkerStates] /\ site \in [Workers -> Sites]
  BY DEF Inv, TypeOK
<1>1. ASSUME UNCHANGED <<sleeping_workers, wpc, site>>, wake' \subseteq wake \cup Waiters
      PROVE  SitesAgree' /\ SleepersExact' /\ sleeping_workers' \in Nat
  <2>1. Workers \cap Waiters = {}
    BY SchedulerAssumption DEF SchedulerAssumption
  <2>2. SitesAgree'  BY <1>0, <1>1, <2>1 DEF SitesAgree
  <2>3. Sleepers' = Sleepers  BY <1>1 DEF Sleepers
  <2>. QED  BY <1>0, <1>1, <2>2, <2>3 DEF SleepersExact
<1>2. ASSUME NEW w \in Workers, NEW state,
             WorkerTo(w, state), UNCHANGED <<sleeping_workers, site>>,
             wake' \subseteq wake \cup {w},
             w \in wake' => state = "parked",
             state = "publish" => site[w] = "locked",
             state \in {"park", "parked"} => site[w] = "final",
             state \in {"unspawned", "lock", "exited"} \cup BeforeDec \cup AfterDec
                => site[w] = "fast"
      PROVE  SitesAgree' /\ SleepersExact' /\ sleeping_workers' \in Nat
  <2>1. SitesAgree'  BY <1>0, <1>2 DEF SitesAgree, WorkerTo
  <2>2. Sleepers' = Sleepers  BY <1>2 DEF Sleepers
  <2>. QED  BY <1>0, <1>2, <2>1, <2>2 DEF SleepersExact
<1>3. ASSUME NEW w \in Workers, NEW state,
             WorkerTo(w, state), LeaveSleepRegion(w), UNCHANGED wake,
             w \notin wake, state \in {"pop", "run", "exited"}
      PROVE  SitesAgree' /\ SleepersExact' /\ sleeping_workers' \in Nat
  <2>1. SitesAgree'
    BY <1>0, <1>3 DEF SitesAgree, WorkerTo, LeaveSleepRegion, BeforeDec, AfterDec
  <2>. QED  BY <1>3, <2>1, LeaveCounts
<1>4. ASSUME NEW t \in Tasks, PushCall(t) \/ PushStep(t)
      PROVE  SitesAgree' /\ SleepersExact' /\ sleeping_workers' \in Nat
  <2>1. UNCHANGED <<sleeping_workers, wpc, site>> /\ wake' \subseteq wake
    BY <1>4
    DEF PushCall, PushStep, ReserveRead, ReserveSlot,
        PushRecheck, PushGroup, PushLastCheck, ReleaseSlot, GroupRollback,
        Publish, RecordSubmission, WakeOneCheck, WakeOneNotify, NotifyOne,
        sharedVars, workerVars
  <2>. QED  BY <1>1, <2>1
<1>5. ASSUME NEW w \in Workers, Spawn(w) \/ WorkerStep(w)
      PROVE  SitesAgree' /\ SleepersExact' /\ sleeping_workers' \in Nat
  <2>. USE <1>0 DEF sharedVars, workerVars, BeforeDec, AfterDec, SitesAgree
  <2>1. CASE Lookup(w)  BY <2>1, <1>1 DEF Lookup
  <2>2. CASE LookupDone(w)  BY <2>2, <1>3 DEF LookupDone
  <2>3. CASE LookupEmpty(w)  BY <2>3, <1>2 DEF LookupEmpty
  <2>4. CASE Exit(w)  BY <2>4, <1>3 DEF Exit
  <2>5. CASE GoOn(w)
    <3>1. site[w] \in {"fast", "locked", "final"}  BY DEF Sites
    <3>2. CASE site[w] = "fast"
      <4>1. WorkerTo(w, "lock")  BY <2>5, <3>2 DEF GoOn, WorkerTo
      <4>. QED  BY <2>5, <3>2, <4>1, <1>2 DEF GoOn
    <3>3. CASE site[w] = "locked"
      <4>1. WorkerTo(w, "publish")  BY <2>5, <3>3 DEF GoOn, WorkerTo
      <4>. QED  BY <2>5, <3>3, <4>1, <1>2 DEF GoOn
    <3>4. CASE site[w] = "final"
      <4>1. WorkerTo(w, "park")  BY <2>5, <3>4 DEF GoOn, WorkerTo
      <4>. QED  BY <2>5, <3>4, <4>1, <1>2 DEF GoOn
    <3>. QED  BY <3>1, <3>2, <3>3, <3>4
  <2>6. CASE Lock(w)
    <3>1. SitesAgree'  BY <2>6 DEF Lock, WorkerTo
    <3>2. Sleepers' = Sleepers  BY <2>6 DEF Lock, Sleepers
    <3>. QED  BY <2>6, <3>1, <3>2 DEF Lock, SleepersExact
  <2>7. CASE PublishSleeping(w)
    <3>1. SitesAgree'  BY <2>7 DEF PublishSleeping, WorkerTo
    <3>2. Sleepers' = Sleepers \cup {w} /\ w \notin Sleepers
      BY <2>7 DEF PublishSleeping, Sleepers
    <3>3. Cardinality(Sleepers') = Cardinality(Sleepers) + 1
      BY <3>2, SleepersFinite, FS_AddElement
    <3>. QED  BY <2>7, <3>1, <3>3 DEF PublishSleeping, SleepersExact
  <2>8. CASE Park(w)  BY <2>8, <1>2 DEF Park
  <2>9. CASE Resume(w)  BY <2>9, <1>3 DEF Resume
  <2>10. CASE Execute(w)  BY <2>10, <1>2 DEF Execute
  <2>11. CASE RecordCompletion(w)  BY <2>11, <1>2 DEF RecordCompletion
  <2>12. CASE TaskCompleted(w)
    BY <2>12, <1>2 DEF TaskCompleted, AfterAccounting
  <2>13. CASE NotifyIdle(w)  BY <2>13, <1>2 DEF NotifyIdle, AfterAccounting
  <2>14. CASE LeaveGroup(w)
    <3>1. UNCHANGED wpc \/ WorkerTo(w, "pop")  BY <2>14 DEF LeaveGroup
    <3>. QED  BY <2>14, <3>1, <1>1, <1>2 DEF LeaveGroup
  <2>15. CASE Spawn(w)  BY <2>15, <1>2 DEF Spawn
  <2>. QED
    BY <1>5, <2>1, <2>2, <2>3, <2>4, <2>5, <2>6, <2>7, <2>8, <2>9, <2>10,
       <2>11, <2>12, <2>13, <2>14, <2>15 DEF WorkerStep
<1>6. ASSUME NEW x \in Waiters, WaitCall(x) \/ WaitCheck(x) \/ WaitPark(x)
      PROVE  SitesAgree' /\ SleepersExact' /\ sleeping_workers' \in Nat
  BY <1>6, <1>1 DEF WaitCall, WaitCheck, WaitPark, sharedVars, workerVars
<1>7. ASSUME ShutdownStore \/ ShutdownNotify \/ Destroy \/ OwnerStep \/ GroupClient
      PROVE  SitesAgree' /\ SleepersExact' /\ sleeping_workers' \in Nat
  BY <1>7, <1>1
  DEF ShutdownStore, ShutdownNotify, Destroy, OwnerStep, Created, SpawnFails,
      OwnerStore, OwnerNotify, OwnerJoin, OwnerTo, GroupClient, sharedVars,
      workerVars
<1>8. CASE UNCHANGED vars  BY <1>8, <1>1 DEF vars, sharedVars, workerVars
<1>. QED  BY <1>4, <1>5, <1>6, <1>7, <1>8 DEF Next

-----------------------------------------------------------------------------
\* The steps that leave the workers, their tasks and the queues alone.
LEMMA OthersKeepHands ==
    ASSUME Inv,
           \/ \E t \in Tasks : PushCall(t) \/ (PushStep(t) /\ ~Publish(t))
           \/ \E x \in Waiters : WaitCall(x) \/ WaitCheck(x) \/ WaitPark(x)
           \/ ShutdownStore \/ ShutdownNotify \/ Destroy \/ OwnerStep \/ GroupClient
           \/ UNCHANGED vars
    PROVE  UNCHANGED <<poolVars, wpc, executed>>
<1>1. ASSUME NEW t \in Tasks, PushCall(t) \/ (PushStep(t) /\ ~Publish(t))
      PROVE  UNCHANGED <<poolVars, wpc, executed>>
  BY <1>1
  DEF PushCall, PushStep, ReserveRead, ReserveSlot,
      PushRecheck, PushGroup, PushLastCheck, ReleaseSlot, GroupRollback,
      RecordSubmission, WakeOneCheck, WakeOneNotify, workerVars
<1>2. ASSUME NEW x \in Waiters, WaitCall(x) \/ WaitCheck(x) \/ WaitPark(x)
      PROVE  UNCHANGED <<poolVars, wpc, executed>>
  BY <1>2 DEF WaitCall, WaitCheck, WaitPark, workerVars
<1>3. ASSUME ShutdownStore \/ ShutdownNotify \/ Destroy \/ OwnerStep \/ GroupClient
      PROVE  UNCHANGED <<poolVars, wpc, executed>>
  BY <1>3
  DEF ShutdownStore, ShutdownNotify, Destroy, OwnerStep, Created, SpawnFails,
      OwnerStore, OwnerNotify, OwnerJoin, OwnerTo, GroupClient, workerVars
<1>. QED  BY <1>1, <1>2, <1>3 DEF vars, workerVars

\* The steps of a worker that leave the queues and the tasks in hand alone.
LEMMA WorkerKeepsHands ==
    ASSUME Inv, NEW w \in Workers,
           \/ Spawn(w) \/ Exit(w) \/ GoOn(w) \/ Lock(w) \/ PublishSleeping(w)
           \/ Park(w) \/ Resume(w)
    PROVE  /\ UNCHANGED <<poolVars, pushVars, executed, tasks_in_flight, shutdown>>
           /\ wpc[w] \notin {"pop"} \cup BeforeDec \cup AfterDec
           /\ \E state \in WorkerStates \ (BeforeDec \cup AfterDec) :
                 WorkerTo(w, state)
<1>. USE DEF workerVars, sharedVars, BeforeDec, AfterDec, WorkerStates
<1>1. CASE GoOn(w)
  <2>1. site[w] \in {"fast", "locked", "final"}  BY DEF Inv, TypeOK, Sites
  <2>2. \E state \in {"lock", "publish", "park"} : WorkerTo(w, state)
    BY <1>1, <2>1 DEF GoOn, WorkerTo
  <2>. QED  BY <1>1, <2>2 DEF GoOn
<1>2. CASE \/ Spawn(w) \/ Exit(w) \/ Lock(w) \/ PublishSleeping(w)
           \/ Park(w) \/ Resume(w)
  BY <1>2 DEF Spawn, Exit, Lock, PublishSleeping, Park, Resume
<1>. QED  BY <1>1, <1>2

\* A worker has a task in hand exactly when its position says so.
LEMMA HandsStep ==
    ASSUME Inv, [Next]_vars
    PROVE  HandsAgree'
<1>0. /\ HandsAgree /\ PoolInv /\ PoolTypeOK
      /\ wpc \in [Workers -> WorkerStates]
  BY DEF Inv, TypeOK, PoolInv
<1>. USE <1>0 DEF HandsAgree
<1>1. CASE UNCHANGED <<poolVars, wpc, executed>>  BY <1>1 DEF poolVars
<1>2. ASSUME NEW t \in Tasks, Publish(t) PROVE HandsAgree'
  BY <1>2 DEF Publish, PushGlobal, workerVars
<1>3. ASSUME NEW w \in Workers, Spawn(w) \/ WorkerStep(w) PROVE HandsAgree'
  <2>. USE DEF BeforeDec, AfterDec, PoolTypeOK, workerVars
  <2>1. CASE Lookup(w)
    <3>1. UNCHANGED <<wpc, executed>> /\ wpc[w] = "pop"  BY <2>1 DEF Lookup
    <3>2. /\ \A v \in Workers \ {w} : current'[v] = current[v] /\ pos'[v] = pos[v]
          /\ pos'[w] # "idle"
      <4>1. CASE PopCall(w)  BY <4>1 DEF PopCall
      <4>2. CASE PopStep(w)  BY <4>2, PopStepKeeps
      <4>. QED  BY <2>1, <4>1, <4>2 DEF Lookup
    <3>. QED  BY <3>1, <3>2
  <2>2. CASE LookupDone(w)
    BY <2>2 DEF LookupDone, PopReturn, WorkerTo, PoolInv, ResultsAgree
  <2>3. CASE LookupEmpty(w)
    BY <2>3 DEF LookupEmpty, PopReturn, WorkerTo, PoolInv, ResultsAgree
  <2>4. CASE \/ Spawn(w) \/ Exit(w) \/ GoOn(w) \/ Lock(w) \/ PublishSleeping(w)
             \/ Park(w) \/ Resume(w)
    <3>1. /\ UNCHANGED <<poolVars, executed>>
          /\ wpc[w] \notin {"pop"} \cup BeforeDec \cup AfterDec
          /\ \E state \in WorkerStates \ (BeforeDec \cup AfterDec) :
                WorkerTo(w, state)
      BY <2>4, WorkerKeepsHands
    <3>. QED  BY <3>1 DEF WorkerTo, poolVars
  <2>5. CASE Execute(w)  BY <2>5 DEF Execute, WorkerTo, poolVars
  <2>6. CASE RecordCompletion(w)  BY <2>6 DEF RecordCompletion, WorkerTo, poolVars
  <2>7. CASE TaskCompleted(w)
    BY <2>7 DEF TaskCompleted, AfterAccounting, DropTask, WorkerTo, poolVars
  <2>8. CASE NotifyIdle(w)
    BY <2>8 DEF NotifyIdle, AfterAccounting, DropTask, WorkerTo, poolVars
  <2>9. CASE LeaveGroup(w)
    BY <2>9 DEF LeaveGroup, DropTask, WorkerTo, poolVars
  <2>. QED
    BY <1>3, <2>1, <2>2, <2>3, <2>4, <2>5, <2>6, <2>7, <2>8, <2>9
    DEF WorkerStep
<1>. QED  BY <1>1, <1>2, <1>3, OthersKeepHands DEF Next, PushStep

-----------------------------------------------------------------------------
\* A step of a submission other than its publication moves it on, and it is
\* published afterwards if and only if it was before.
LEMMA PushEffect ==
    ASSUME NEW t \in Tasks, PushCall(t) \/ (PushStep(t) /\ ~Publish(t))
    PROVE  \E s \in PushStates :
              PushTo(t, s) /\ (s \in Published <=> push[t] \in Published)
<1>. USE DEF PushStates, Reserving, Admitted, Holding, Published, PushOver
<1>1. CASE PushCall(t)  BY <1>1 DEF PushCall
<1>2. CASE ReserveRead(t)  BY <1>2 DEF ReserveRead
<1>3. CASE ReserveSlot(t)  BY <1>3 DEF ReserveSlot
<1>4. CASE PushRecheck(t)  BY <1>4 DEF PushRecheck
<1>5. CASE PushGroup(t)
  <2>1. \E s \in {"last_check", "unreserve", "group"} : PushTo(t, s)
    <3>1. CASE member'[t] = "member"  BY <1>5, <3>1 DEF PushGroup, PushTo
    <3>2. CASE member'[t] = "refused"  BY <1>5, <3>2 DEF PushGroup, PushTo
    <3>3. CASE member'[t] \notin {"member", "refused"}
      BY <1>5, <3>3 DEF PushGroup, PushTo
    <3>. QED  BY <3>1, <3>2, <3>3
  <2>. QED  BY <1>5, <2>1 DEF PushGroup
<1>6. CASE PushLastCheck(t)  BY <1>6 DEF PushLastCheck
<1>7. CASE ReleaseSlot(t)  BY <1>7 DEF ReleaseSlot
<1>8. CASE GroupRollback(t)  BY <1>8 DEF GroupRollback
<1>9. CASE RecordSubmission(t)  BY <1>9 DEF RecordSubmission
<1>10. CASE WakeOneCheck(t)  BY <1>10 DEF WakeOneCheck
<1>11. CASE WakeOneNotify(t)  BY <1>11 DEF WakeOneNotify
<1>. QED
  BY <1>1, <1>2, <1>3, <1>4, <1>5, <1>6, <1>7, <1>8, <1>9, <1>10,
     <1>11 DEF PushStep

\* The steps of the waiters, the stopper, the owner and the group clients
\* leave the submissions alone.
LEMMA ClientsKeepPush ==
    ASSUME \/ \E x \in Waiters : WaitCall(x) \/ WaitCheck(x) \/ WaitPark(x)
           \/ ShutdownStore \/ ShutdownNotify \/ Destroy \/ OwnerStep \/ GroupClient
           \/ UNCHANGED vars
    PROVE  UNCHANGED <<push, seen_slots, tasks_in_flight>>
  BY DEF WaitCall, WaitCheck, WaitPark, ShutdownStore, ShutdownNotify, Destroy,
         OwnerStep, Created, SpawnFails, OwnerStore, OwnerNotify, OwnerJoin,
         OwnerTo, GroupClient, vars, sharedVars, pushVars

\* So do the steps of the workers.
LEMMA WorkersKeepPush ==
    ASSUME NEW w \in Workers, Spawn(w) \/ WorkerStep(w)
    PROVE  /\ UNCHANGED <<push, seen_slots, shutdown>>
           /\ ~TaskCompleted(w) => UNCHANGED tasks_in_flight
  BY DEF Spawn, WorkerStep, Lookup, LookupDone, LookupEmpty, Exit, GoOn, Lock,
         PublishSleeping, Park, Resume, Execute, RecordCompletion,
         TaskCompleted, NotifyIdle, LeaveGroup, sharedVars, pushVars

\* Accepted tasks are somewhere, once; others are nowhere.
LEMMA AcceptedStep ==
    ASSUME Inv, [Next]_vars
    PROVE  AcceptedExactlyOnce'
<1>0. /\ HandsAgree /\ AcceptedExactlyOnce /\ PoolInv /\ PoolTypeOK
      /\ wpc \in [Workers -> WorkerStates] /\ push \in [Tasks -> PushStates]
      /\ NoTask \notin Tasks /\ executed \in SUBSET Tasks
  BY SubmissionsAssumption DEF Inv, TypeOK, PoolInv, SubmissionsAssumption
<1>. USE <1>0
<1>1. ASSUME NEW t \in Tasks, PushCall(t) \/ (PushStep(t) /\ ~Publish(t))
      PROVE  AcceptedExactlyOnce'
  <2>1. UNCHANGED <<poolVars, wpc, executed>>  BY <1>1, OthersKeepHands
  <2>2. \A u \in Tasks : push'[u] \in Published <=> push[u] \in Published
    BY <1>1, PushEffect DEF PushTo
  <2>. QED  BY <2>1, <2>2 DEF AcceptedExactlyOnce, poolVars, Waiting, Injected, InHand
<1>2. ASSUME NEW t \in Tasks, Publish(t) PROVE AcceptedExactlyOnce'
  <2>1. /\ t \notin Waiting \cup InHand \cup executed
        /\ push' = [push EXCEPT ![t] = "record"] /\ push[t] = "publish"
        /\ UNCHANGED <<current, wpc, executed>>
    BY <1>2 DEF Publish, PushTo, AcceptedExactlyOnce, Published, workerVars, PushGlobal
  <2>2. Waiting' = Waiting \cup {t}
    BY <1>2, SubmissionsAssumption
    DEF Publish, PushGlobal, Waiting, Injected, PoolTypeOK, SubmissionsAssumption
  <2>3. InHand' = InHand  BY <2>1 DEF InHand
  <2>. QED  BY <2>1, <2>2, <2>3 DEF AcceptedExactlyOnce, Published, InHand
<1>3. ASSUME NEW w \in Workers, Spawn(w) \/ WorkerStep(w)
      PROVE  AcceptedExactlyOnce'
  <2>0. UNCHANGED push  BY <1>3, WorkersKeepPush
  <2>. USE <2>0 DEF AcceptedExactlyOnce, InHand, BeforeDec, AfterDec
  <2>1. CASE Lookup(w)
    <3>1. UNCHANGED <<wpc, executed>> /\ wpc[w] = "pop"
      BY <2>1 DEF Lookup, workerVars
    <3>2. CASE PopCall(w)
      BY <3>1, <3>2 DEF PopCall, Waiting, Injected
    <3>3. CASE PopStep(w)
      <4>1. /\ Waiting' \subseteq Waiting
            /\ Waiting \subseteq Waiting' \cup {current'[w]}
            /\ \A v \in Workers \ {w} : current'[v] = current[v]
            /\ \/ current'[w] = current[w]
               \/ current[w] = NoTask /\ current'[w] \in Waiting \ Waiting'
        BY <3>3, PopStepKeeps
      <4>. QED  BY <3>1, <4>1
    <3>. QED  BY <2>1, <3>2, <3>3 DEF Lookup
  <2>2. CASE LookupDone(w) \/ LookupEmpty(w)
    BY <2>2 DEF LookupDone, LookupEmpty, PopReturn, WorkerTo, HandsAgree,
                Waiting, Injected, workerVars, PoolInv, ResultsAgree
  <2>3. CASE \/ Spawn(w) \/ Exit(w) \/ GoOn(w) \/ Lock(w) \/ PublishSleeping(w)
             \/ Park(w) \/ Resume(w)
    <3>1. /\ UNCHANGED <<poolVars, executed>>
          /\ wpc[w] \notin {"pop"} \cup BeforeDec \cup AfterDec
          /\ \E state \in WorkerStates \ (BeforeDec \cup AfterDec) :
                WorkerTo(w, state)
      BY <2>3, WorkerKeepsHands
    <3>2. current[w] = NoTask  BY <3>1 DEF HandsAgree
    <3>. QED  BY <3>1, <3>2 DEF WorkerTo, poolVars, Waiting, Injected
  <2>4. CASE Execute(w)
    <3>1. current[w] \in Tasks /\ current[w] \notin Waiting
      BY <2>4 DEF Execute, HandsAgree, PoolInv, PoolTypeOK, NoDuplication
    <3>2. \A v \in Workers : v # w => current[v] # current[w]
      BY <3>1 DEF PoolInv, NoDuplication
    <3>. QED
      BY <2>4, <3>1, <3>2 DEF Execute, WorkerTo, poolVars, Waiting, Injected
  <2>5. CASE RecordCompletion(w)
    BY <2>5 DEF RecordCompletion, WorkerTo, poolVars, Waiting, Injected
  <2>6. CASE TaskCompleted(w) \/ NotifyIdle(w) \/ LeaveGroup(w)
    <3>1. /\ wpc[w] \in {"dec"} \cup AfterDec
          /\ UNCHANGED <<executed, injector, local, batch>>
          /\ \/ wpc' = [wpc EXCEPT ![w] = "pop"]
                /\ current' = [current EXCEPT ![w] = NoTask]
             \/ UNCHANGED current
                /\ \E state \in AfterDec : wpc' = [wpc EXCEPT ![w] = state]
      BY <2>6 DEF TaskCompleted, NotifyIdle, LeaveGroup, AfterAccounting,
                  DropTask, WorkerTo, poolVars, workerVars
    <3>2. current[w] \in executed  BY <3>1 DEF HandsAgree
    <3>. QED  BY <3>1, <3>2 DEF Waiting, Injected, PoolTypeOK
  <2>. QED
    BY <1>3, <2>1, <2>2, <2>3, <2>4, <2>5, <2>6 DEF WorkerStep
<1>4. ASSUME \/ \E x \in Waiters : WaitCall(x) \/ WaitCheck(x) \/ WaitPark(x)
             \/ ShutdownStore \/ ShutdownNotify \/ Destroy \/ OwnerStep \/ GroupClient
             \/ UNCHANGED vars
      PROVE  AcceptedExactlyOnce'
  <2>1. UNCHANGED <<poolVars, wpc, executed, push>>
    BY <1>4, OthersKeepHands, ClientsKeepPush
  <2>. QED  BY <2>1 DEF AcceptedExactlyOnce, poolVars, Waiting, Injected, InHand
<1>. QED  BY <1>1, <1>2, <1>3, <1>4 DEF Next

-----------------------------------------------------------------------------
\* What each step of a submission does to the slots.
LEMMA PushSlots ==
    ASSUME Inv, NEW t \in Tasks, PushCall(t) \/ PushStep(t)
    PROVE  \/ /\ ReserveSlot(t)
              /\ t \notin Slots /\ Slots' = Slots \cup {t}
              /\ tasks_in_flight' = tasks_in_flight + 1
           \/ /\ ReleaseSlot(t)
              /\ t \in Slots /\ Slots' = Slots \ {t}
              /\ tasks_in_flight' = tasks_in_flight - 1
           \/ Slots' = Slots /\ UNCHANGED tasks_in_flight
<1>0. /\ AcceptedExactlyOnce /\ PoolTypeOK /\ HandsAgree
      /\ push \in [Tasks -> PushStates]
  BY DEF Inv, TypeOK, PoolInv
<1>a. push[t] \notin Published => t \notin Waiting \cup InService
  BY <1>0 DEF AcceptedExactlyOnce, InService, InHand
<1>b. ASSUME ~Publish(t) PROVE Waiting' = Waiting /\ InService' = InService
  <2>1. UNCHANGED <<poolVars, wpc, executed>>  BY <1>b, OthersKeepHands
  <2>. QED  BY <2>1 DEF poolVars, Waiting, Injected, InService
<1>. USE <1>0 DEF Slots, PushTo
<1>1. CASE ReserveSlot(t)
  <2>1. HeldByPush' = HeldByPush \cup {t} /\ t \notin HeldByPush
    BY <1>1 DEF ReserveSlot, HeldByPush, Holding, Admitted
  <2>2. t \notin Waiting \cup InService /\ ~Publish(t)
    BY <1>1, <1>a DEF ReserveSlot, Published, Publish
  <2>. QED  BY <1>1, <1>b, <2>1, <2>2 DEF ReserveSlot
<1>2. CASE ReleaseSlot(t)
  <2>1. HeldByPush' = HeldByPush \ {t} /\ t \in HeldByPush
    BY <1>2 DEF ReleaseSlot, HeldByPush, Holding, Admitted
  <2>2. t \notin Waiting \cup InService /\ ~Publish(t)
    BY <1>2, <1>a DEF ReleaseSlot, Published, Publish
  <2>. QED  BY <1>2, <1>b, <2>1, <2>2 DEF ReleaseSlot
<1>3. CASE Publish(t)
  <2>1. HeldByPush' = HeldByPush \ {t} /\ t \in HeldByPush
    BY <1>3 DEF Publish, HeldByPush, Holding, Admitted
  <2>2. Waiting' = Waiting \cup {t}
    BY <1>3, SubmissionsAssumption
    DEF Publish, PushGlobal, Waiting, Injected, PoolTypeOK, SubmissionsAssumption
  <2>3. InService' = InService
    BY <1>3 DEF Publish, PushGlobal, InService, workerVars
  <2>. QED  BY <1>3, <2>1, <2>2, <2>3 DEF Publish, sharedVars
<1>4. CASE \/ PushCall(t) \/ ReserveRead(t) \/ PushRecheck(t) \/ PushLastCheck(t)
           \/ GroupRollback(t) \/ RecordSubmission(t) \/ WakeOneCheck(t)
           \/ WakeOneNotify(t)
  <2>1. ~Publish(t) /\ UNCHANGED tasks_in_flight
    BY <1>4 DEF PushCall, ReserveRead, PushRecheck, PushLastCheck,
                GroupRollback, RecordSubmission, WakeOneCheck, WakeOneNotify,
                Publish, sharedVars
  <2>2. HeldByPush' = HeldByPush
    BY <1>4 DEF PushCall, ReserveRead, PushRecheck, PushLastCheck,
                GroupRollback, RecordSubmission, WakeOneCheck, WakeOneNotify,
                HeldByPush, Holding, Admitted
  <2>. QED  BY <1>b, <2>1, <2>2
<1>5. CASE PushGroup(t)
  <2>1. ~Publish(t) /\ UNCHANGED tasks_in_flight
    BY <1>5 DEF PushGroup, Publish, sharedVars
  <2>2. \E s \in {"last_check", "unreserve", "group"} : PushTo(t, s)
    <3>1. CASE member'[t] = "member"  BY <1>5, <3>1 DEF PushGroup
    <3>2. CASE member'[t] = "refused"  BY <1>5, <3>2 DEF PushGroup
    <3>3. CASE member'[t] \notin {"member", "refused"}
      BY <1>5, <3>3 DEF PushGroup
    <3>. QED  BY <3>1, <3>2, <3>3
  <2>3. HeldByPush' = HeldByPush
    BY <1>5, <2>2 DEF PushGroup, HeldByPush, Holding, Admitted
  <2>. QED  BY <1>b, <2>1, <2>3
<1>. QED  BY <1>1, <1>2, <1>3, <1>4, <1>5 DEF PushStep

\* What each step of a worker does to the slots: only the fetch_sub of
\* task_completed frees one, that of the task in hand.
LEMMA WorkerSlots ==
    ASSUME Inv, NEW w \in Workers, Spawn(w) \/ WorkerStep(w)
    PROVE  \/ /\ TaskCompleted(w)
              /\ current[w] \in Slots /\ Slots' = Slots \ {current[w]}
              /\ tasks_in_flight' = tasks_in_flight - 1
           \/ Slots' = Slots /\ UNCHANGED tasks_in_flight
<1>0. /\ HandsAgree /\ AcceptedExactlyOnce /\ PoolInv /\ PoolTypeOK
      /\ wpc \in [Workers -> WorkerStates]
      /\ NoTask \notin Tasks /\ executed \in SUBSET Tasks
  BY SubmissionsAssumption DEF Inv, TypeOK, PoolInv, SubmissionsAssumption
<1>1. /\ HeldByPush' = HeldByPush
      /\ ~TaskCompleted(w) => UNCHANGED tasks_in_flight
  BY WorkersKeepPush DEF HeldByPush
<1>. USE <1>0 DEF Slots, InService, BeforeDec, AfterDec
<1>2. CASE Lookup(w)
  <2>1. UNCHANGED <<wpc, tasks_in_flight>> /\ wpc[w] = "pop"
    BY <1>2 DEF Lookup, workerVars, sharedVars
  <2>2. CASE PopCall(w)
    BY <1>1, <2>1, <2>2 DEF PopCall, Waiting, Injected
  <2>3. CASE PopStep(w)
    <3>1. /\ Waiting' \subseteq Waiting
          /\ Waiting \subseteq Waiting' \cup {current'[w]}
          /\ \A v \in Workers \ {w} : current'[v] = current[v]
          /\ \/ current'[w] = current[w]
             \/ current[w] = NoTask /\ current'[w] \in Waiting \ Waiting'
      BY <2>3, PopStepKeeps
    <3>2. Waiting \subseteq Tasks  BY DEF Waiting, Injected
    <3>3. (Waiting \cup InService)' = Waiting \cup InService
      BY <2>1, <3>1, <3>2
    <3>. QED  BY <1>1, <2>1, <3>3
  <2>. QED  BY <1>2, <2>2, <2>3 DEF Lookup
<1>3. CASE LookupDone(w) \/ LookupEmpty(w)
  <2>1. UNCHANGED <<injector, local, batch, current>> /\ wpc[w] = "pop"
    BY <1>3 DEF LookupDone, LookupEmpty, PopReturn
  <2>2. \E state \in {"pop", "run", "should_stop"} : WorkerTo(w, state)
    BY <1>3 DEF LookupDone, LookupEmpty
  <2>3. Waiting' = Waiting  BY <2>1 DEF Waiting, Injected
  <2>4. InService' = InService  BY <2>1, <2>2 DEF WorkerTo
  <2>5. ~TaskCompleted(w)  BY <2>1 DEF TaskCompleted
  <2>. QED  BY <1>1, <2>3, <2>4, <2>5
<1>4. CASE \/ Spawn(w) \/ Exit(w) \/ GoOn(w) \/ Lock(w) \/ PublishSleeping(w)
           \/ Park(w) \/ Resume(w)
  <2>1. /\ UNCHANGED <<poolVars, tasks_in_flight>>
        /\ wpc[w] \notin {"pop"} \cup BeforeDec \cup AfterDec
        /\ \E state \in WorkerStates \ (BeforeDec \cup AfterDec) :
              WorkerTo(w, state)
    BY <1>4, WorkerKeepsHands
  <2>2. Waiting' = Waiting  BY <2>1 DEF Waiting, Injected, poolVars
  <2>3. InService' = InService  BY <2>1 DEF WorkerTo, poolVars
  <2>. QED  BY <1>1, <2>1, <2>2, <2>3
<1>5. CASE Execute(w) \/ RecordCompletion(w)
  <2>1. /\ UNCHANGED <<poolVars, tasks_in_flight>>
        /\ wpc[w] \in BeforeDec
        /\ \E state \in BeforeDec : WorkerTo(w, state)
    BY <1>5 DEF Execute, RecordCompletion, sharedVars
  <2>2. Waiting' = Waiting  BY <2>1 DEF Waiting, Injected, poolVars
  <2>3. InService' = InService  BY <2>1 DEF WorkerTo, poolVars
  <2>. QED  BY <1>1, <2>1, <2>2, <2>3
<1>6. CASE TaskCompleted(w) \/ NotifyIdle(w) \/ LeaveGroup(w)
  <2>1. /\ wpc[w] \in {"dec"} \cup AfterDec
        /\ UNCHANGED <<injector, local, batch>>
        /\ \/ wpc' = [wpc EXCEPT ![w] = "pop"]
              /\ current' = [current EXCEPT ![w] = NoTask]
           \/ UNCHANGED current
              /\ \E state \in AfterDec : wpc' = [wpc EXCEPT ![w] = state]
    BY <1>6 DEF TaskCompleted, NotifyIdle, LeaveGroup, AfterAccounting,
                DropTask, WorkerTo, poolVars, workerVars
  <2>2. Waiting' = Waiting  BY <2>1 DEF Waiting, Injected
  <2>3. /\ current[w] \in Tasks /\ current[w] \notin Waiting
        /\ \A v \in Workers : v # w => current[v] # current[w]
    BY <2>1 DEF HandsAgree, PoolInv, PoolTypeOK, NoDuplication
  <2>4. current[w] \notin HeldByPush
    BY <2>3 DEF AcceptedExactlyOnce, InHand, HeldByPush, Holding, Admitted,
                Published
  <2>5. InService' = InService \ {current[w]}
    BY <2>1, <2>3 DEF PoolTypeOK
  <2>6. CASE TaskCompleted(w)
    <3>1. current[w] \in InService  BY <2>3, <2>6 DEF TaskCompleted
    <3>. QED  BY <1>1, <2>2, <2>3, <2>4, <2>5, <2>6, <3>1 DEF TaskCompleted
  <2>7. CASE ~TaskCompleted(w)
    <3>1. wpc[w] \in AfterDec
      BY <1>6, <2>7 DEF NotifyIdle, LeaveGroup
    <3>2. current[w] \notin InService  BY <2>3, <3>1
    <3>. QED  BY <1>1, <2>2, <2>5, <2>7, <3>2
  <2>. QED  BY <2>6, <2>7
<1>. QED  BY <1>2, <1>3, <1>4, <1>5, <1>6 DEF WorkerStep

\* The steps of the waiters, the stopper, the owner and the group clients
\* leave the slots alone.
LEMMA ClientSlots ==
    ASSUME Inv,
           \/ \E x \in Waiters : WaitCall(x) \/ WaitCheck(x) \/ WaitPark(x)
           \/ ShutdownStore \/ ShutdownNotify \/ Destroy \/ OwnerStep \/ GroupClient
           \/ UNCHANGED vars
    PROVE  Slots' = Slots /\ UNCHANGED tasks_in_flight
<1>1. UNCHANGED <<poolVars, wpc, push, tasks_in_flight>>
  BY OthersKeepHands, ClientsKeepPush
<1>. QED
  BY <1>1 DEF Slots, HeldByPush, Waiting, Injected, InService, poolVars

\* The counter of slots stays exact, and does not fall below zero.
LEMMA AccountingStep ==
    ASSUME Inv, [Next]_vars
    PROVE  Accounting' /\ tasks_in_flight' \in Nat
<1>0. Accounting /\ tasks_in_flight \in Nat  BY DEF Inv, TypeOK
<1>1. ASSUME Slots' = Slots, UNCHANGED tasks_in_flight
      PROVE  Accounting' /\ tasks_in_flight' \in Nat
  BY <1>0, <1>1 DEF Accounting
<1>2. ASSUME NEW t, t \notin Slots, Slots' = Slots \cup {t},
             tasks_in_flight' = tasks_in_flight + 1
      PROVE  Accounting' /\ tasks_in_flight' \in Nat
  BY <1>0, <1>2, SlotsFinite, FS_AddElement DEF Accounting
<1>3. ASSUME NEW t, t \in Slots, Slots' = Slots \ {t},
             tasks_in_flight' = tasks_in_flight - 1
      PROVE  Accounting' /\ tasks_in_flight' \in Nat
  <2>1. Cardinality(Slots) # 0  BY <1>3, SlotsFinite, FS_EmptySet
  <2>2. Cardinality(Slots') = Cardinality(Slots) - 1
    BY <1>3, SlotsFinite, FS_RemoveElement
  <2>. QED  BY <1>0, <1>3, <2>1, <2>2 DEF Accounting
<1>4. ASSUME NEW t \in Tasks, PushCall(t) \/ PushStep(t)
      PROVE  Accounting' /\ tasks_in_flight' \in Nat
  BY <1>1, <1>2, <1>3, <1>4, PushSlots
<1>5. ASSUME NEW w \in Workers, Spawn(w) \/ WorkerStep(w)
      PROVE  Accounting' /\ tasks_in_flight' \in Nat
  BY <1>1, <1>3, <1>5, WorkerSlots
<1>. QED  BY <1>1, <1>4, <1>5, ClientSlots DEF Next

\* The compare-exchange loop keeps the counter within the capacity.
LEMMA CapacityStep ==
    ASSUME Inv, [Next]_vars
    PROVE  CasWithinCapacity'
<1>0. /\ CasWithinCapacity /\ QueueCapacity \in Nat /\ tasks_in_flight \in Nat
      /\ push \in [Tasks -> PushStates] /\ seen_slots \in [Tasks -> Nat]
  BY SchedulerAssumption DEF Inv, TypeOK, SchedulerAssumption
<1>. USE <1>0 DEF CasWithinCapacity
<1>1. ASSUME NEW t \in Tasks, PushCall(t) \/ PushStep(t)
      PROVE  CasWithinCapacity'
  <2>. USE DEF PushTo
  <2>1. CASE ReserveRead(t)  BY <2>1 DEF ReserveRead, sharedVars
  <2>2. CASE ReserveSlot(t)  BY <2>2 DEF ReserveSlot
  <2>3. CASE ReleaseSlot(t)  BY <2>3 DEF ReleaseSlot
  <2>4. CASE PushGroup(t)
    <3>1. /\ UNCHANGED <<tasks_in_flight, seen_slots>>
          /\ \A u \in Tasks : push'[u] = "cas" => push[u] = "cas"
      <4>1. CASE member'[t] = "member"
        BY <2>4, <4>1 DEF PushGroup, sharedVars
      <4>2. CASE member'[t] = "refused"
        BY <2>4, <4>2 DEF PushGroup, sharedVars
      <4>3. CASE member'[t] \notin {"member", "refused"}
        BY <2>4, <4>3 DEF PushGroup, sharedVars
      <4>. QED  BY <4>1, <4>2, <4>3
    <3>. QED  BY <3>1
  <2>5. CASE \/ PushCall(t) \/ PushRecheck(t) \/ PushLastCheck(t) \/ Publish(t)
             \/ GroupRollback(t) \/ RecordSubmission(t) \/ WakeOneCheck(t)
             \/ WakeOneNotify(t)
    BY <2>5
    DEF PushCall, PushRecheck, PushLastCheck, GroupRollback, Publish,
        RecordSubmission, WakeOneCheck, WakeOneNotify, sharedVars
  <2>. QED  BY <1>1, <2>1, <2>2, <2>3, <2>4, <2>5 DEF PushStep
<1>2. ASSUME NEW w \in Workers, Spawn(w) \/ WorkerStep(w)
      PROVE  CasWithinCapacity'
  <2>1. /\ UNCHANGED <<push, seen_slots>>
        /\ tasks_in_flight' \in {tasks_in_flight, tasks_in_flight - 1}
    BY <1>2, WorkersKeepPush, WorkerSlots
  <2>. QED  BY <2>1
<1>. QED  BY <1>1, <1>2, ClientsKeepPush DEF Next

\* With no slot taken, everything accepted has run.
LEMMA IdleMeansDone ==
    ASSUME Inv, tasks_in_flight = 0
    PROVE  Slots = {} /\ Outstanding = {}
<1>1. Slots = {}
  BY SlotsFinite, FS_EmptySet DEF Inv, Accounting
<1>2. ASSUME NEW t \in Tasks, push[t] \in Published, t \notin executed
      PROVE  t \in Slots
  <2>1. CASE t \in Waiting  BY <2>1 DEF Slots
  <2>2. CASE t \in InHand
    BY <1>2, <2>2 DEF Inv, HandsAgree, InHand, Slots, InService
  <2>. QED  BY <1>2, <2>1, <2>2 DEF Inv, AcceptedExactlyOnce
<1>. QED  BY <1>1, <1>2 DEF Outstanding

\* Once a worker has exited, no submission gets past the shutdown flag.
LEMMA FenceStep ==
    ASSUME Inv, [Next]_vars
    PROVE  Fenced'
<1>0. /\ Fenced /\ push \in [Tasks -> PushStates]
      /\ wpc \in [Workers -> WorkerStates] /\ shutdown \in BOOLEAN
      /\ Slots \subseteq Tasks
  BY DEF Inv, TypeOK, Slots, HeldByPush, Waiting, Injected, InService
<1>. USE <1>0
<1>1. ASSUME NEW t \in Tasks, PushCall(t) \/ PushStep(t)
      PROVE  Fenced'
  <2>1. UNCHANGED <<wpc, shutdown>>
    <3>1. UNCHANGED wpc
      BY <1>1, OthersKeepHands DEF Publish, workerVars
    <3>2. UNCHANGED shutdown
      BY <1>1
      DEF PushCall, PushStep, ReserveRead, ReserveSlot,
          PushRecheck, PushGroup, PushLastCheck, ReleaseSlot, GroupRollback,
          Publish, RecordSubmission, WakeOneCheck, WakeOneNotify, sharedVars
    <3>. QED  BY <3>1, <3>2
  <2>2. SUFFICES ASSUME \E w \in Workers : wpc[w] = "exited"
                 PROVE  \A u \in Slots' : push'[u] \in {"recheck", "unreserve"}
    BY <2>1 DEF Fenced
  <2>3. shutdown /\ \A u \in Slots : push[u] \in {"recheck", "unreserve"}
    BY <2>2 DEF Fenced
  <2>. USE DEF PushTo
  <2>4. CASE ReserveSlot(t)
    <3>0. ~ReleaseSlot(t)
      BY <2>4 DEF ReserveSlot, ReleaseSlot
    <3>1. Slots' = Slots \cup {t} \/ Slots' = Slots
      BY <1>1, <3>0, PushSlots
    <3>2. push' = [push EXCEPT ![t] = "recheck"]
      BY <2>4 DEF ReserveSlot
    <3>. QED  BY <2>3, <3>1, <3>2
  <2>5. CASE ReleaseSlot(t)
    <3>0. /\ ~ReserveSlot(t)
          /\ tasks_in_flight' # tasks_in_flight
      BY <2>5 DEF ReleaseSlot, ReserveSlot, Inv, TypeOK
    <3>1. Slots' = Slots \ {t}  BY <1>1, <3>0, PushSlots
    <3>. QED  BY <2>3, <2>5, <3>1 DEF ReleaseSlot
  <2>6. CASE ~(ReserveSlot(t) \/ ReleaseSlot(t))
    <3>1. Slots' = Slots  BY <1>1, <2>6, PushSlots
    <3>2. CASE t \in Slots
      <4>1. push[t] \in {"recheck", "unreserve"}  BY <2>3, <3>2
      <4>2. PushRecheck(t)
        BY <1>1, <2>6, <4>1
        DEF PushCall, PushStep, ReserveRead, PushRecheck, PushGroup,
            PushLastCheck, GroupRollback, Publish, RecordSubmission,
            WakeOneCheck, WakeOneNotify
      <4>3. push' = [push EXCEPT ![t] = "unreserve"]
        BY <2>3, <4>2 DEF PushRecheck
      <4>. QED  BY <2>3, <3>1, <4>3
    <3>3. CASE t \notin Slots
      <4>1. \A u \in Tasks \ {t} : push'[u] = push[u]
        <5>1. CASE Publish(t)  BY <5>1 DEF Publish
        <5>2. CASE ~Publish(t)  BY <1>1, <5>2, PushEffect
        <5>. QED  BY <5>1, <5>2
      <4>. QED  BY <2>3, <3>1, <3>3, <4>1
    <3>. QED  BY <3>2, <3>3
  <2>. QED  BY <2>4, <2>5, <2>6
<1>2. ASSUME NEW w \in Workers, Spawn(w) \/ WorkerStep(w)
      PROVE  Fenced'
  <2>1. UNCHANGED <<push, shutdown>> /\ Slots' \subseteq Slots
    BY <1>2, WorkersKeepPush, WorkerSlots
  <2>2. CASE Exit(w)
    <3>1. shutdown /\ tasks_in_flight = 0  BY <2>2 DEF Exit, ShouldStop
    <3>2. Slots' = {}  BY <2>1, <3>1, IdleMeansDone
    <3>. QED  BY <2>1, <3>1, <3>2 DEF Fenced
  <2>3. CASE ~Exit(w)
    <3>1. \A v \in Workers : wpc'[v] = "exited" => wpc[v] = "exited"
      BY <1>2, <2>3
      DEF Spawn, WorkerStep, Lookup, LookupDone, LookupEmpty, GoOn, Lock,
          PublishSleeping, Park, Resume, Execute, RecordCompletion,
          TaskCompleted, NotifyIdle, LeaveGroup, AfterAccounting, WorkerTo,
          workerVars, Inv, TypeOK, Sites
    <3>. QED  BY <2>1, <3>1 DEF Fenced
  <2>. QED  BY <2>2, <2>3
<1>3. ASSUME \/ \E x \in Waiters : WaitCall(x) \/ WaitCheck(x) \/ WaitPark(x)
             \/ ShutdownStore \/ ShutdownNotify \/ Destroy \/ OwnerStep \/ GroupClient
             \/ UNCHANGED vars
      PROVE  Fenced'
  <2>1. UNCHANGED <<wpc, push>> /\ Slots' = Slots
    BY <1>3, OthersKeepHands, ClientsKeepPush, ClientSlots
  <2>2. shutdown => shutdown'
    BY <1>3
    DEF WaitCall, WaitCheck, WaitPark, ShutdownStore, ShutdownNotify, Destroy,
        OwnerStep, Created, SpawnFails, OwnerStore, OwnerNotify, OwnerJoin,
        GroupClient, vars, sharedVars
  <2>. QED  BY <2>1, <2>2 DEF Fenced
<1>. QED  BY <1>1, <1>2, <1>3 DEF Next

\* A waiter expects accepted tasks, and returns when they have run.
LEMMA WaitStepInv ==
    ASSUME Inv, [Next]_vars
    PROVE  ExpectAccepted' /\ WaitSound'
<1>0. /\ ExpectAccepted /\ WaitSound /\ executed \in SUBSET Tasks
      /\ push \in [Tasks -> PushStates] /\ expect \in [Waiters -> SUBSET Tasks]
      /\ wait \in [Waiters -> {"idle", "lock", "park", "parked", "returned"}]
  BY DEF Inv, TypeOK
<1>. USE <1>0 DEF ExpectAccepted, WaitSound
<1>1. ASSUME UNCHANGED <<wait, expect>>, executed \subseteq executed',
             \A t \in Tasks : push[t] \in Published => push'[t] \in Published
      PROVE  ExpectAccepted' /\ WaitSound'
  BY <1>1
<1>2. ASSUME NEW t \in Tasks, PushCall(t) \/ PushStep(t)
      PROVE  ExpectAccepted' /\ WaitSound'
  <2>1. UNCHANGED <<wait, expect, executed>>
    BY <1>2
    DEF PushCall, PushStep, ReserveRead, ReserveSlot,
        PushRecheck, PushGroup, PushLastCheck, ReleaseSlot, GroupRollback,
        Publish, RecordSubmission, WakeOneCheck, WakeOneNotify, clientVars,
        workerVars
  <2>2. \A u \in Tasks : push[u] \in Published => push'[u] \in Published
    <3>1. CASE Publish(t)  BY <3>1 DEF Publish, PushTo, Published
    <3>2. CASE ~Publish(t)  BY <1>2, <3>2, PushEffect DEF PushTo
    <3>. QED  BY <3>1, <3>2
  <2>. QED  BY <1>1, <2>1, <2>2
<1>3. ASSUME NEW w \in Workers, Spawn(w) \/ WorkerStep(w)
      PROVE  ExpectAccepted' /\ WaitSound'
  <2>1. UNCHANGED <<wait, expect, push>> /\ executed \subseteq executed'
    BY <1>3
    DEF Spawn, WorkerStep, Lookup, LookupDone, LookupEmpty, Exit, GoOn, Lock,
        PublishSleeping, Park, Resume, Execute, RecordCompletion,
        TaskCompleted, NotifyIdle, LeaveGroup, clientVars, workerVars, pushVars
  <2>. QED  BY <1>1, <2>1
<1>4. ASSUME NEW x \in Waiters, WaitCall(x) \/ WaitCheck(x) \/ WaitPark(x)
      PROVE  ExpectAccepted' /\ WaitSound'
  <2>. USE DEF workerVars, pushVars
  <2>1. CASE WaitCall(x)
    <3>1. Outstanding \subseteq {t \in Tasks : push[t] \in Published}
      BY DEF Outstanding
    <3>. QED  BY <2>1, <3>1 DEF WaitCall
  <2>2. CASE WaitCheck(x) /\ tasks_in_flight = 0
    <3>1. expect[x] \subseteq executed
      BY <2>2, IdleMeansDone DEF Outstanding
    <3>. QED  BY <2>2, <3>1 DEF WaitCheck
  <2>3. CASE WaitCheck(x) /\ tasks_in_flight # 0  BY <2>3 DEF WaitCheck
  <2>4. CASE WaitPark(x)  BY <2>4 DEF WaitPark
  <2>. QED  BY <1>4, <2>1, <2>2, <2>3, <2>4
<1>5. ASSUME \/ ShutdownStore \/ ShutdownNotify \/ Destroy \/ OwnerStep \/ GroupClient
             \/ UNCHANGED vars
      PROVE  ExpectAccepted' /\ WaitSound'
  <2>1. UNCHANGED <<wait, expect, push, executed>>
    BY <1>5
    DEF ShutdownStore, ShutdownNotify, Destroy, OwnerStep, Created, SpawnFails,
        OwnerStore, OwnerNotify, OwnerJoin, OwnerTo, GroupClient, vars,
        clientVars, workerVars, pushVars
  <2>. QED  BY <1>1, <2>1
<1>. QED  BY <1>2, <1>3, <1>4, <1>5 DEF Next

-----------------------------------------------------------------------------
\* The variables keep their types.
LEMMA TypeStep ==
    ASSUME Inv, [Next]_vars
    PROVE  TypeOK'
<1>0. TypeOK /\ NoThread \notin Workers  BY SchedulerAssumption DEF Inv, SchedulerAssumption
<1>1. PoolTypeOK'  BY StepIsPoolStep, PoolNextInv DEF Inv, PoolInv
<1>2. GroupTypeOK'  BY StepIsGroupStep, GroupNextInv DEF Inv, GroupInv
<1>3. tasks_in_flight' \in Nat /\ sleeping_workers' \in Nat
  BY AccountingStep, SleepStep
<1>. DEFINE Rest ==
       /\ shutdown \in BOOLEAN
       /\ sleep_lock \in Workers \cup Waiters \cup {NoThread}
       /\ wake \in SUBSET (Workers \cup Waiters)
       /\ submitted \in Nat /\ completed \in Nat /\ queue_full \in Nat
       /\ push \in [Tasks -> PushStates]
       /\ seen_slots \in [Tasks -> Nat]
       /\ wpc \in [Workers -> WorkerStates]
       /\ site \in [Workers -> Sites]
       /\ wait \in [Waiters -> {"idle", "lock", "park", "parked", "returned"}]
       /\ stopper \in {"idle", "notify"}
       /\ owner \in {"create", "live", "store", "notify", "join", "freed"}
       /\ executed \in SUBSET Tasks
       /\ expect \in [Waiters -> SUBSET Tasks]
<1>4. Rest /\ tasks_in_flight \in Nat /\ PoolTypeOK  BY <1>0 DEF TypeOK
<1>. USE DEF sharedVars, statVars, pushVars, workerVars, clientVars
<1>5. ASSUME NEW t \in Tasks, PushCall(t) \/ PushStep(t)
      PROVE  Rest'
  <2>1. push' \in [Tasks -> PushStates]
    <3>1. CASE Publish(t)  BY <1>4, <3>1 DEF Publish, PushTo, PushStates, Published
    <3>2. CASE ~Publish(t)  BY <1>4, <1>5, <3>2, PushEffect DEF PushTo
    <3>. QED  BY <3>1, <3>2
  <2>. QED
    BY <1>4, <1>5, <2>1
    DEF PushCall, PushStep, ReserveRead, ReserveSlot,
        PushRecheck, PushGroup, PushLastCheck, ReleaseSlot, GroupRollback,
        Publish, RecordSubmission, WakeOneCheck, WakeOneNotify, NotifyOne
<1>6. ASSUME NEW w \in Workers, Spawn(w) \/ WorkerStep(w)
      PROVE  Rest'
  <2>. USE <1>4 DEF WorkerTo, WorkerStates, Sites, BeforeDec, AfterDec
  <2>1. CASE Lookup(w) \/ LookupDone(w) \/ LookupEmpty(w)
    BY <2>1 DEF Lookup, LookupDone, LookupEmpty, LeaveSleepRegion
  <2>2. CASE Exit(w) \/ Resume(w)
    BY <2>2 DEF Exit, Resume, LeaveSleepRegion
  <2>3. CASE GoOn(w)
    <3>1. wpc' \in [Workers -> WorkerStates]
      BY <2>3 DEF GoOn
    <3>. QED  BY <2>3, <3>1 DEF GoOn
  <2>4. CASE Spawn(w) \/ Lock(w) \/ PublishSleeping(w) \/ Park(w)
    BY <2>4 DEF Spawn, Lock, PublishSleeping, Park
  <2>5. CASE Execute(w)
    <3>1. current[w] \in Tasks
      BY <2>5 DEF Execute, Inv, HandsAgree, PoolTypeOK
    <3>. QED  BY <2>5, <3>1 DEF Execute
  <2>6. CASE RecordCompletion(w) \/ TaskCompleted(w) \/ NotifyIdle(w)
    BY <2>6 DEF RecordCompletion, TaskCompleted, NotifyIdle, AfterAccounting
  <2>7. CASE LeaveGroup(w)  BY <2>7 DEF LeaveGroup
  <2>. QED
    BY <1>6, <2>1, <2>2, <2>3, <2>4, <2>5, <2>6, <2>7 DEF WorkerStep
<1>7. ASSUME NEW x \in Waiters, WaitCall(x) \/ WaitCheck(x) \/ WaitPark(x)
      PROVE  Rest'
  BY <1>4, <1>7 DEF WaitCall, WaitCheck, WaitPark, Outstanding
<1>8. ASSUME ShutdownStore \/ ShutdownNotify \/ Destroy \/ OwnerStep \/ GroupClient
      PROVE  Rest'
  BY <1>4, <1>8
  DEF ShutdownStore, ShutdownNotify, Destroy, OwnerStep, Created, SpawnFails,
      OwnerStore, OwnerNotify, OwnerJoin, OwnerTo, GroupClient
<1>9. CASE UNCHANGED vars
  <2>1. Rest'  BY <1>4, <1>9 DEF vars
  <2>. QED  BY <1>1, <1>2, <1>3, <2>1 DEF TypeOK
<1>10. Rest'  BY <1>4, <1>5, <1>6, <1>7, <1>8 DEF Next, vars
<1>. QED  BY <1>1, <1>2, <1>3, <1>10 DEF TypeOK

\* Every step keeps the invariant.
LEMMA NextInv == Inv /\ [Next]_vars => Inv'
<1>. SUFFICES ASSUME Inv, [Next]_vars PROVE Inv'  OBVIOUS
<1>1. PoolInv'  BY StepIsPoolStep, PoolNextInv DEF Inv
<1>2. GroupInv'  BY StepIsGroupStep, GroupNextInv DEF Inv
<1>. QED
  BY <1>1, <1>2, TypeStep, HandsStep, AcceptedStep, AccountingStep,
     CapacityStep, FenceStep, WaitStepInv, SleepStep DEF Inv

-----------------------------------------------------------------------------
\* In every behaviour of the scheduler the invariant holds.
THEOREM SchedulerSafe == Spec => []Inv
  BY InitInv, NextInv, PTL DEF Spec

\* Every variable of the scheduler, its queues and its groups keeps its type;
\* in particular no counter is ever decremented below zero.
THEOREM SchedulerTypes == Spec => []TypeOK
<1>1. Inv => TypeOK  BY DEF Inv
<1>. QED  BY <1>1, SchedulerSafe, PTL

\* The scheduler uses its queues only as TaskPool allows.
THEOREM ImplementsPool == Spec => PoolSpec
<1>1. Init => PoolInit  BY DEF Init
<1>2. Inv /\ [Next]_vars => [PoolNext]_poolVars  BY StepIsPoolStep
<1>. QED  BY <1>1, <1>2, SchedulerSafe, PTL DEF Spec, PoolSpec

\* The scheduler uses its groups only as TaskGroup allows.
THEOREM ImplementsGroups == Spec => GroupSpec
<1>1. Init => GroupInit  BY DEF Init
<1>2. Inv /\ [Next]_vars => [GroupNext]_groupVars  BY StepIsGroupStep
<1>. QED  BY <1>1, <1>2, SchedulerSafe, PTL DEF Spec, GroupSpec

\* tasks_in_flight is exact: reserve_task_slot, release_task_slot and
\* task_completed neither lose nor duplicate a slot.
THEOREM SlotsExact == Spec => []Accounting
<1>1. Inv => Accounting  BY DEF Inv
<1>. QED  BY <1>1, SchedulerSafe, PTL

\* An accepted task is waiting, in hand or executed, once; a rejected one is
\* nowhere.
THEOREM ExactlyOnce == Spec => []AcceptedExactlyOnce
<1>1. Inv => AcceptedExactlyOnce  BY DEF Inv
<1>. QED  BY <1>1, SchedulerSafe, PTL

\* The tasks accepted and not yet executed never exceed the capacity.
THEOREM CapacityHolds == Spec => []CapacityRespected
<1>1. ASSUME Inv PROVE CapacityRespected
  <2>1. Outstanding \subseteq Slots
    <3>1. ASSUME NEW t \in Tasks, push[t] \in Published, t \notin executed
          PROVE  t \in Slots
      <4>1. CASE t \in Waiting  BY <4>1 DEF Slots
      <4>2. CASE t \in InHand
        BY <1>1, <3>1, <4>2 DEF Inv, HandsAgree, InHand, Slots, InService
      <4>. QED  BY <1>1, <3>1, <4>1, <4>2 DEF Inv, AcceptedExactlyOnce
    <3>. QED  BY <3>1 DEF Outstanding
  <2>2. /\ Cardinality(Outstanding) <= Cardinality(Slots)
        /\ Cardinality(Outstanding) \in Nat
    BY <2>1, SlotsFinite, FS_Subset, FS_CardinalityType
  <2>3. tasks_in_flight = Cardinality(Slots) /\ QueueCapacity \in Nat
    BY <1>1, SchedulerAssumption DEF Inv, Accounting, SchedulerAssumption
  <2>4. QueueCapacity # 0 => tasks_in_flight <= QueueCapacity
    BY <1>1 DEF Inv, CasWithinCapacity
  <2>. QED  BY <2>2, <2>3, <2>4, SlotsFinite DEF CapacityRespected
<1>. QED  BY <1>1, SchedulerSafe, PTL

\* A worker exits only when nothing accepted is unfinished, and no submission
\* publishes afterwards.
THEOREM ExitIsGraceful == Spec => []GracefulExit
<1>1. ASSUME Inv, NEW w \in Workers, wpc[w] = "exited"
      PROVE  Outstanding = {} /\ \A t \in Tasks : push[t] \notin Admitted
  <2>1. \A t \in Slots : push[t] \in {"recheck", "unreserve"}
    BY <1>1 DEF Inv, Fenced
  <2>2. \A t \in Tasks : push[t] \notin Admitted
    BY <2>1 DEF Slots, HeldByPush, Holding, Admitted
  <2>3. ASSUME NEW t \in Tasks, push[t] \in Published, t \notin executed
        PROVE  FALSE
    <3>1. t \notin Slots  BY <2>1, <2>3 DEF Published
    <3>2. CASE t \in Waiting  BY <3>1, <3>2 DEF Slots
    <3>3. CASE t \in InHand
      BY <1>1, <2>3, <3>1, <3>3 DEF Inv, HandsAgree, InHand, Slots, InService
    <3>. QED  BY <1>1, <2>3, <3>2, <3>3 DEF Inv, AcceptedExactlyOnce
  <2>. QED  BY <2>2, <2>3 DEF Outstanding
<1>2. Inv => GracefulExit  BY <1>1 DEF GracefulExit
<1>. QED  BY <1>2, SchedulerSafe, PTL

\* cortlet_sched_wait returns only when all tasks accepted before the call
\* have run.
THEOREM WaitNotEarly == Spec => []WaitSound
<1>1. Inv => WaitSound  BY DEF Inv
<1>. QED  BY <1>1, SchedulerSafe, PTL

\* cortlet_sched_wait returns only at an instant at which no slot is taken.
THEOREM WaitReturnsWhenIdle == Spec => WaitReturnsIdle
<1>1. ASSUME Inv, [Next]_vars, NEW x \in Waiters,
             wait[x] # "returned", wait'[x] = "returned"
      PROVE  Slots = {}
  <2>1. CASE \E t \in Tasks : PushCall(t) \/ PushStep(t)
    BY <1>1, <2>1
    DEF PushCall, PushStep, ReserveRead, ReserveSlot,
        PushRecheck, PushGroup, PushLastCheck, ReleaseSlot, GroupRollback,
        Publish, RecordSubmission, WakeOneCheck, WakeOneNotify, clientVars
  <2>2. CASE \E w \in Workers : Spawn(w) \/ WorkerStep(w)
    BY <1>1, <2>2
    DEF Spawn, WorkerStep, Lookup, LookupDone, LookupEmpty, Exit, GoOn, Lock,
        PublishSleeping, Park, Resume, Execute, RecordCompletion,
        TaskCompleted, NotifyIdle, LeaveGroup, clientVars
  <2>3. CASE \E y \in Waiters : WaitCall(y) \/ WaitCheck(y) \/ WaitPark(y)
    <3>1. wait \in [Waiters -> {"idle", "lock", "park", "parked", "returned"}]
      BY <1>1 DEF Inv, TypeOK
    <3>2. tasks_in_flight = 0
      BY <1>1, <2>3, <3>1 DEF WaitCall, WaitCheck, WaitPark
    <3>. QED  BY <1>1, <3>2, IdleMeansDone
  <2>4. CASE \/ ShutdownStore \/ ShutdownNotify \/ Destroy \/ OwnerStep
             \/ GroupClient \/ UNCHANGED vars
    BY <1>1, <2>4
    DEF ShutdownStore, ShutdownNotify, Destroy, OwnerStep, Created, SpawnFails,
        OwnerStore, OwnerNotify, OwnerJoin, OwnerTo, GroupClient, vars,
        clientVars
  <2>. QED  BY <1>1, <2>1, <2>2, <2>3, <2>4 DEF Next
<1>2. Inv /\ [Next]_vars =>
        [\A x \in Waiters : wait[x] # "returned" /\ wait'[x] = "returned"
            => Slots = {}]_vars
  BY <1>1
<1>. QED  BY <1>2, SchedulerSafe, PTL DEF Spec, WaitReturnsIdle

\* wake_one's test of sleeping_workers never overlooks a parked worker.
THEOREM SleepersAreCounted == Spec => []SleepersCounted
<1>1. ASSUME Inv PROVE SleepersCounted
  <2>1. wake \cap Workers \subseteq Sleepers
    BY <1>1 DEF Inv, SitesAgree, Sleepers
  <2>2. Sleepers \subseteq Workers  BY DEF Sleepers
  <2>3. Cardinality(wake \cap Workers) <= Cardinality(Sleepers)
    BY <2>1, SleepersFinite, FS_Subset
  <2>4. Cardinality(Sleepers) <= Cardinality(Workers)
    BY <2>2, PoolAssumption, FS_Subset DEF PoolAssumption
  <2>. QED  BY <1>1, <2>3, <2>4 DEF Inv, SleepersExact, SleepersCounted
<1>. QED  BY <1>1, SchedulerSafe, PTL

=============================================================================
