----------------------------- MODULE WakeProofs -----------------------------
(***************************************************************************)
(* Proofs about WakeUps: the wake-ups that the scheduler can lose are the  *)
(* ones its two histories record, and no others.                           *)
(***************************************************************************)
EXTENDS WakeUps, DrainProofs

\* The histories observe the scheduler's steps and constrain none, so all
\* that is known of the scheduler holds here.
LEMMA WakeIsScheduler == WakeSpec => Spec
<1>1. [WakeNext]_wakeVars => [Next]_vars  BY DEF WakeNext, wakeVars
<1>2. WakeInit => Init  BY DEF WakeInit
<1>. QED  BY <1>1, <1>2, PTL DEF WakeSpec, Spec

-----------------------------------------------------------------------------
(* The ends of work *)

\* A thread begins to block after a test that told it to wait.
LEMMA BlocksAfterTest ==
    ASSUME Inv, [Next]_vars, NEW z \in Blocked', z \notin Blocked
    PROVE  ~Ended(z)'
<1>0. /\ wpc \in [Workers -> WorkerStates] /\ site \in [Workers -> Sites]
      /\ wait \in [Waiters -> {"idle", "lock", "park", "parked", "returned"}]
      /\ Workers \cap Waiters = {}
  BY SchedulerAssumption DEF Inv, TypeOK
<1>. USE <1>0 DEF Blocked, InGap
<1>1. ASSUME UNCHANGED <<wpc, wait>>, wake' \subseteq wake PROVE FALSE
  BY <1>1
<1>2. ASSUME NEW t \in Tasks, PushCall(t) \/ PushStep(t) PROVE FALSE
  <2>1. UNCHANGED <<wpc, wait>> /\ wake' \subseteq wake
    BY <1>2
    DEF PushCall, PushStep, ReserveRead, ReserveSlot,
        PushRecheck, PushGroup, PushLastCheck, ReleaseSlot, GroupRollback,
        Publish, RecordSubmission, WakeOneCheck, WakeOneNotify, NotifyOne,
        clientVars, workerVars, sharedVars
  <2>. QED  BY <1>1, <2>1
<1>3. ASSUME NEW w \in Workers, Spawn(w) \/ WorkerStep(w) PROVE ~Ended(z)'
  <2>1. CASE GoOn(w)
    <3>1. UNCHANGED <<wait, wake, tasks_in_flight, shutdown>> /\ ~ShouldStop
      BY <2>1 DEF GoOn, clientVars, sharedVars
    <3>2. z = w  BY <2>1, <3>1 DEF GoOn, WorkerTo
    <3>. QED  BY <3>1, <3>2 DEF ShouldStop, Ended
  <2>2. CASE Park(w)
    <3>1. /\ wpc[w] = "park" /\ wpc' = [wpc EXCEPT ![w] = "parked"]
          /\ UNCHANGED wait /\ wake' = wake \cup {w}
      BY <2>2 DEF Park, WorkerTo, clientVars
    <3>. QED  BY <3>1
  <2>3. CASE (WorkerStep(w) /\ ~GoOn(w) /\ ~Park(w)) \/ Spawn(w)
    <3>1. /\ UNCHANGED wait /\ wake' \subseteq wake
          /\ \A v \in Workers : wpc'[v] = "park" => wpc[v] = "park"
      BY <2>3
      DEF Spawn, WorkerStep, Lookup, LookupDone, LookupEmpty, Exit, Lock,
          PublishSleeping, Resume, Execute, RecordCompletion, TaskCompleted,
          NotifyIdle, LeaveGroup, AfterAccounting, WorkerTo, clientVars,
          sharedVars, workerVars
    <3>. QED  BY <3>1
  <2>. QED  BY <1>3, <2>1, <2>2, <2>3
<1>4. ASSUME NEW x \in Waiters, WaitCall(x) \/ WaitCheck(x) \/ WaitPark(x)
      PROVE  ~Ended(z)'
  <2>1. CASE WaitCall(x)
    BY <2>1 DEF WaitCall, sharedVars, workerVars
  <2>2. CASE WaitCheck(x)
    <3>1. UNCHANGED <<wpc, wake, tasks_in_flight>>
      BY <2>2 DEF WaitCheck, workerVars
    <3>2. tasks_in_flight # 0  BY <2>2, <3>1 DEF WaitCheck
    <3>. QED  BY <3>1, <3>2 DEF Ended
  <2>3. CASE WaitPark(x)
    BY <2>3 DEF WaitPark, workerVars
  <2>. QED  BY <1>4, <2>1, <2>2, <2>3
<1>5. ASSUME \/ ShutdownStore \/ ShutdownNotify \/ Destroy \/ OwnerStep \/ GroupClient
             \/ UNCHANGED vars
      PROVE  FALSE
  <2>1. UNCHANGED <<wpc, wait>> /\ wake' \subseteq wake
    BY <1>5
    DEF ShutdownStore, ShutdownNotify, Destroy, OwnerStep, Created, SpawnFails,
        OwnerStore, OwnerNotify, OwnerJoin, OwnerTo, GroupClient, vars,
        clientVars, workerVars, sharedVars
  <2>. QED  BY <1>1, <2>1
<1>. QED  BY <1>2, <1>3, <1>4, <1>5 DEF Next

\* The end of work comes with a notification on its way, except when a
\* submission gives back the last slot.
LEMMA EndIsAnnounced ==
    ASSUME Inv, [Next]_vars, NEW z, ~Ended(z), Ended(z)'
    PROVE  NotifyPending' \/ ReleasesLast
<1>0. tasks_in_flight \in Nat /\ wpc \in [Workers -> WorkerStates]
      /\ push \in [Tasks -> PushStates]
  BY DEF Inv, TypeOK
<1>. USE <1>0 DEF Ended
<1>1. ASSUME UNCHANGED <<tasks_in_flight, shutdown>> PROVE FALSE
  BY <1>1
<1>2. ASSUME NEW t \in Tasks, PushCall(t) \/ PushStep(t)
      PROVE  ReleasesLast
  <2>1. CASE ReleaseSlot(t)
    <3>1. /\ tasks_in_flight' = tasks_in_flight - 1 /\ UNCHANGED shutdown
          /\ push[t] \in {"unreserve", "rollback"}
          /\ push'[t] \in {"group_rollback", "stopped"}
      BY <2>1 DEF ReleaseSlot, PushTo
    <3>. QED  BY <3>1 DEF ReleasesLast
  <2>2. CASE ReserveSlot(t)
    BY <2>2 DEF ReserveSlot
  <2>3. CASE \/ PushCall(t) \/ ReserveRead(t) \/ PushRecheck(t) \/ PushGroup(t)
             \/ PushLastCheck(t) \/ GroupRollback(t) \/ Publish(t)
             \/ RecordSubmission(t) \/ WakeOneCheck(t) \/ WakeOneNotify(t)
    BY <1>1, <2>3
    DEF PushCall, ReserveRead, PushRecheck, PushGroup, PushLastCheck,
        GroupRollback, Publish, RecordSubmission, WakeOneCheck, WakeOneNotify,
        sharedVars
  <2>. QED  BY <1>2, <2>1, <2>2, <2>3 DEF PushStep
<1>3. ASSUME NEW w \in Workers, Spawn(w) \/ WorkerStep(w)
      PROVE  NotifyPending'
  <2>1. CASE TaskCompleted(w)
    <3>1. tasks_in_flight = 1  BY <2>1 DEF TaskCompleted
    <3>2. wpc'[w] = "notify"  BY <2>1, <3>1 DEF TaskCompleted, WorkerTo
    <3>. QED  BY <3>2 DEF NotifyPending
  <2>2. CASE ~TaskCompleted(w)  BY <1>1, <1>3, <2>2, WorkersKeepPush
  <2>. QED  BY <2>1, <2>2
<1>4. CASE ShutdownStore \/ OwnerStore
  BY <1>4 DEF ShutdownStore, OwnerStore, OwnerTo, NotifyPending
<1>5. ASSUME \/ \E x \in Waiters : WaitCall(x) \/ WaitCheck(x) \/ WaitPark(x)
             \/ ShutdownNotify \/ Destroy \/ (OwnerStep /\ ~OwnerStore)
             \/ GroupClient \/ UNCHANGED vars
      PROVE  FALSE
  <2>1. UNCHANGED <<tasks_in_flight, shutdown>>
    BY <1>5
    DEF WaitCall, WaitCheck, WaitPark, ShutdownNotify, Destroy, OwnerStep,
        Created, SpawnFails, OwnerNotify, OwnerJoin, GroupClient, vars,
        sharedVars
  <2>. QED  BY <1>1, <2>1
<1>. QED  BY <1>2, <1>3, <1>4, <1>5 DEF Next, OwnerStep

\* A notify_all empties the condition variable, and no thread enters the gap
\* in the same step.
LEMMA NotifyEmpties ==
    ASSUME Inv, [Next]_vars, NotifiesAll
    PROVE  wake' = {} /\ InGap' \subseteq InGap
<1>0. wpc \in [Workers -> WorkerStates]  BY DEF Inv, TypeOK
<1>. USE <1>0 DEF NotifiesAll
<1>1. ASSUME NEW t \in Tasks, PushCall(t) \/ PushStep(t) PROVE FALSE
  <2>1. UNCHANGED <<stopper, owner, wpc>>
    BY <1>1
    DEF PushCall, PushStep, ReserveRead, ReserveSlot,
        PushRecheck, PushGroup, PushLastCheck, ReleaseSlot, GroupRollback,
        Publish, RecordSubmission, WakeOneCheck, WakeOneNotify, clientVars,
        workerVars
  <2>. QED  BY <2>1
<1>2. ASSUME NEW w \in Workers, Spawn(w) \/ WorkerStep(w)
      PROVE  wake' = {} /\ InGap' \subseteq InGap
  <2>1. UNCHANGED <<stopper, owner, wait>>
    BY <1>2
    DEF Spawn, WorkerStep, Lookup, LookupDone, LookupEmpty, Exit, GoOn, Lock,
        PublishSleeping, Park, Resume, Execute, RecordCompletion,
        TaskCompleted, NotifyIdle, LeaveGroup, clientVars
  <2>2. \A v \in Workers \ {w} : wpc'[v] = wpc[v]
    BY <1>2
    DEF Spawn, WorkerStep, Lookup, LookupDone, LookupEmpty, Exit, GoOn, Lock,
        PublishSleeping, Park, Resume, Execute, RecordCompletion,
        TaskCompleted, NotifyIdle, LeaveGroup, AfterAccounting, WorkerTo,
        workerVars
  <2>3. wpc[w] = "notify"  BY <2>1, <2>2
  <2>4. NotifyIdle(w)
    BY <1>2, <2>3
    DEF Spawn, WorkerStep, Lookup, LookupDone, LookupEmpty, Exit, GoOn, Lock,
        PublishSleeping, Park, Resume, Execute, RecordCompletion,
        TaskCompleted, LeaveGroup
  <2>5. wake' = {} /\ wpc'[w] \in {"pop", "group"}
    BY <2>4 DEF NotifyIdle, AfterAccounting, WorkerTo
  <2>. QED  BY <2>1, <2>2, <2>5 DEF InGap
<1>3. ASSUME ShutdownNotify \/ OwnerNotify
      PROVE  wake' = {} /\ InGap' \subseteq InGap
  BY <1>3 DEF ShutdownNotify, OwnerNotify, OwnerTo, workerVars, InGap
<1>4. ASSUME \/ \E x \in Waiters : WaitCall(x) \/ WaitCheck(x) \/ WaitPark(x)
             \/ ShutdownStore \/ Destroy \/ (OwnerStep /\ ~OwnerNotify)
             \/ GroupClient \/ UNCHANGED vars
      PROVE  FALSE
  BY <1>4
  DEF WaitCall, WaitCheck, WaitPark, ShutdownStore, Destroy, OwnerStep,
      Created, SpawnFails, OwnerStore, OwnerJoin, OwnerTo, GroupClient, vars,
      clientVars, workerVars
<1>. QED  BY <1>1, <1>2, <1>3, <1>4 DEF Next, OwnerStep

LEMMA MissedStep ==
    ASSUME Inv, OnlyMissedStay, [WakeNext]_wakeVars
    PROVE  OnlyMissedStay'
<1>1. CASE UNCHANGED wakeVars
  BY <1>1
  DEF wakeVars, vars, sharedVars, clientVars, workerVars, OnlyMissedStay,
      Blocked, InGap, Ended, NotifyPending
<1>2. CASE WakeNext
  <2>1. SUFFICES ASSUME NEW z \in Blocked', Ended(z)', ~NotifyPending'
                 PROVE  z \in missed'
    BY DEF OnlyMissedStay
  <2>2. Next /\ Observe  BY <1>2 DEF WakeNext
  <2>3. z \in Blocked  BY <2>1, <2>2, BlocksAfterTest
  <2>4. CASE NotifiesAll \/ ReleasesLast
    <3>1. CASE ReleasesLast
      BY <2>1, <2>2, <2>3, <3>1 DEF Observe, MissedNow
    <3>2. CASE NotifiesAll /\ ~ReleasesLast
      <4>1. z \in InGap  BY <2>1, <2>2, <3>2, NotifyEmpties DEF Blocked
      <4>. QED  BY <2>1, <2>2, <3>2, <4>1 DEF Observe, MissedNow
    <3>. QED  BY <2>4, <3>1, <3>2
  <2>5. CASE ~NotifiesAll /\ ~ReleasesLast
    <3>1. ~NotifyPending  BY <2>1, <2>5 DEF NotifyPending, NotifiesAll
    <3>2. Ended(z)  BY <2>1, <2>2, <2>5, EndIsAnnounced
    <3>3. z \in missed  BY <2>3, <3>1, <3>2 DEF OnlyMissedStay
    <3>. QED  BY <2>1, <2>2, <2>5, <3>3 DEF Observe
  <2>. QED  BY <2>4, <2>5
<1>. QED  BY <1>1, <1>2

\* No thread stays blocked beyond the end of its wait, unless a notify_all
\* came between its test and its wait or a rejected submission gave back the
\* last slot; for any number of workers, waiters and submissions.
THEOREM OnlyMissedStayBlocked == WakeSpec => []OnlyMissedStay
<1>1. WakeInit => OnlyMissedStay
  BY DEF WakeInit, Init, OnlyMissedStay, Blocked, InGap
<1>. QED
  BY <1>1, MissedStep, WakeIsScheduler, SchedulerSafe, PTL DEF WakeSpec

-----------------------------------------------------------------------------
(* Wake-ups for submitted tasks *)

\* A worker whose lookup passes the injector of t has found it empty.
LEMMA LookupPasses ==
    ASSUME Inv, NEW v \in Workers, Lookup(v), NEW t \in Injected, ~Passed(v, t)
    PROVE  ~Passed(v, t)'
<1>0. /\ PriorityOf[t] \in {"High", "Normal", "Low"} /\ t \in injector[PriorityOf[t]]
      /\ pos \in [Workers -> Positions]
  BY SubmissionsAssumption
  DEF Injected, Inv, PoolInv, PoolTypeOK, PriorityPure, Priorities
<1>1. UNCHANGED <<wpc, site, wake>> /\ wpc[v] = "pop"
  BY DEF Lookup, workerVars, sharedVars
<1>2. SUFFICES ASSUME site[v] = "final", v \notin wake,
                      pos[v] \notin Behind(PriorityOf[t])
               PROVE  pos'[v] \notin Behind(PriorityOf[t])
  BY <1>1 DEF Passed
<1>. USE <1>0 DEF Behind
<1>3. CASE PopCall(v)  BY <1>3 DEF PopCall
<1>4. CASE InjectorEmpty(v)
  <2>1. /\ pos[v] \in InjectorPos /\ injector[InjectorAt(pos[v])] = {}
        /\ pos'[v] = After(pos[v])
    BY <1>4 DEF InjectorEmpty
  <2>2. CASE pos[v] = "fair_normal"  BY <2>1, <2>2 DEF After
  <2>3. CASE pos[v] = "fair_low"  BY <2>1, <2>3 DEF After
  <2>4. CASE pos[v] = "high"
    BY <1>2, <2>1, <2>4 DEF After, InjectorAt
  <2>5. CASE pos[v] = "normal"
    BY <1>2, <2>1, <2>5 DEF After, InjectorAt
  <2>6. CASE pos[v] = "low"
    BY <1>2, <2>1, <2>6 DEF After, InjectorAt
  <2>. QED  BY <2>1, <2>2, <2>3, <2>4, <2>5, <2>6 DEF InjectorPos
<1>5. CASE LocalEmpty(v)  BY <1>5 DEF LocalEmpty, After
<1>6. CASE StealBatch(v) \/ DeliverBatch(v) \/ LocalPop(v) \/ StealPeer(v) \/ StealRetry(v)
  BY <1>6 DEF StealBatch, DeliverBatch, LocalPop, StealPeer, StealRetry
<1>7. CASE PeerEmpty(v) \/ PeersExhausted(v)
  BY <1>2, <1>7 DEF PeerEmpty, PeersExhausted
<1>. QED  BY <1>3, <1>4, <1>5, <1>6, <1>7 DEF Lookup, PopStep

\* A worker that has still to look into the injector of t goes to sleep only
\* behind such a look.
LEMMA StaysBefore ==
    ASSUME Inv, [Next]_vars, NEW v \in Workers, NEW t \in Injected, ~Passed(v, t)
    PROVE  ~Passed(v, t)'
<1>0. /\ wpc \in [Workers -> WorkerStates] /\ site \in [Workers -> Sites]
      /\ pos \in [Workers -> Positions] /\ HandsAgree /\ SitesAgree
      /\ Workers \cap Waiters = {} /\ t \in Tasks
  BY SchedulerAssumption DEF Inv, TypeOK, PoolTypeOK, Injected
<1>1. ASSUME wpc'[v] = wpc[v], site'[v] = site[v], pos'[v] = pos[v],
             v \in wake' => v \in wake
      PROVE  ~Passed(v, t)'
  BY <1>1 DEF Passed
<1>2. ASSUME NEW u \in Tasks, PushCall(u) \/ PushStep(u) PROVE ~Passed(v, t)'
  <2>1. UNCHANGED <<wpc, site, pos>> /\ wake' \subseteq wake
    BY <1>2
    DEF PushCall, PushStep, ReserveRead, ReserveSlot,
        PushRecheck, PushGroup, PushLastCheck, ReleaseSlot, GroupRollback,
        Publish, RecordSubmission, WakeOneCheck, WakeOneNotify, NotifyOne,
        PushGlobal, poolVars, workerVars, sharedVars
  <2>. QED  BY <1>1, <2>1
<1>3. ASSUME NEW w \in Workers, w # v, Spawn(w) \/ WorkerStep(w)
      PROVE  ~Passed(v, t)'
  <2>1. pos'[v] = pos[v]
    <3>1. CASE Lookup(w)
      <4>1. CASE PopCall(w)  BY <1>0, <1>3, <4>1 DEF PopCall
      <4>2. CASE PopStep(w)  BY <1>3, <4>2, PopStepKeeps DEF Inv, PoolInv
      <4>. QED  BY <3>1, <4>1, <4>2 DEF Lookup
    <3>2. CASE LookupDone(w) \/ LookupEmpty(w)
      BY <1>0, <1>3, <3>2 DEF LookupDone, LookupEmpty, PopReturn
    <3>3. CASE \/ Spawn(w)
               \/ WorkerStep(w) /\ ~Lookup(w) /\ ~LookupDone(w) /\ ~LookupEmpty(w)
      BY <3>3
      DEF Spawn, WorkerStep, Exit, GoOn, Lock, PublishSleeping, Park, Resume,
          Execute, RecordCompletion, TaskCompleted, NotifyIdle, LeaveGroup,
          AfterAccounting, DropTask, poolVars
    <3>. QED  BY <1>3, <3>1, <3>2, <3>3
  <2>2. wpc'[v] = wpc[v] /\ site'[v] = site[v] /\ (v \in wake' => v \in wake)
    BY <1>0, <1>3
    DEF Spawn, WorkerStep, Lookup, LookupDone, LookupEmpty, Exit, GoOn, Lock,
        PublishSleeping, Park, Resume, Execute, RecordCompletion,
        TaskCompleted, NotifyIdle, LeaveGroup, AfterAccounting,
        LeaveSleepRegion, WorkerTo, workerVars, sharedVars
  <2>. QED  BY <1>1, <2>1, <2>2
<1>4. ASSUME Spawn(v) \/ WorkerStep(v) PROVE ~Passed(v, t)'
  <2>. USE <1>0
  <2>1. CASE Lookup(v)  BY <2>1, LookupPasses
  <2>2. CASE LookupDone(v) \/ Exit(v) \/ Lock(v) \/ Resume(v)
    <3>1. site'[v] # "final"
      BY <2>2 DEF LookupDone, Exit, Lock, Resume, LeaveSleepRegion
    <3>. QED  BY <3>1 DEF Passed
  <2>3. CASE LookupEmpty(v)
    <3>1. site[v] # "final"
      <4>1. PriorityOf[t] \in {"High", "Normal", "Low"}
        BY SubmissionsAssumption DEF Priorities
      <4>. QED  BY <2>3, <4>1 DEF LookupEmpty, Passed, Behind
    <3>. QED  BY <2>3, <3>1 DEF LookupEmpty, Passed
  <2>4. CASE GoOn(v)
    <3>1. site[v] # "final"  BY <2>4 DEF GoOn, Passed
    <3>. QED  BY <2>4, <3>1 DEF GoOn, Passed
  <2>5. CASE Park(v)  BY <2>5 DEF Park, Passed, SitesAgree
  <2>6. CASE Spawn(v) \/ PublishSleeping(v)
    <3>1. pos'[v] = "idle" /\ wpc'[v] = "pop" /\ wake' = wake /\ wpc[v] # "parked"
      BY <2>6 DEF Spawn, PublishSleeping, WorkerTo, poolVars, sharedVars, HandsAgree
    <3>2. PriorityOf[t] \in {"High", "Normal", "Low"}
      BY SubmissionsAssumption DEF Priorities
    <3>. QED  BY <3>1, <3>2 DEF Passed, Behind, SitesAgree
  <2>7. CASE \/ Execute(v) \/ RecordCompletion(v) \/ TaskCompleted(v)
             \/ NotifyIdle(v) \/ LeaveGroup(v)
    <3>1. wpc[v] \in BeforeDec \cup AfterDec /\ site' = site
      BY <2>7
      DEF Execute, RecordCompletion, TaskCompleted, NotifyIdle, LeaveGroup,
          BeforeDec, AfterDec
    <3>. QED  BY <3>1 DEF Passed, SitesAgree
  <2>. QED  BY <1>4, <2>1, <2>2, <2>3, <2>4, <2>5, <2>6, <2>7 DEF WorkerStep
<1>5. ASSUME \/ \E x \in Waiters : WaitCall(x) \/ WaitCheck(x) \/ WaitPark(x)
             \/ ShutdownStore \/ ShutdownNotify \/ Destroy \/ OwnerStep \/ GroupClient
             \/ UNCHANGED vars
      PROVE  ~Passed(v, t)'
  <2>1. UNCHANGED <<wpc, site, pos>> /\ (v \in wake' => v \in wake)
    BY <1>0, <1>5
    DEF WaitCall, WaitCheck, WaitPark, ShutdownStore, ShutdownNotify, Destroy,
        OwnerStep, Created, SpawnFails, OwnerStore, OwnerNotify, OwnerJoin,
        OwnerTo, GroupClient, vars, poolVars, workerVars, sharedVars
  <2>. QED  BY <1>1, <2>1
<1>. QED  BY <1>2, <1>3, <1>4, <1>5 DEF Next

\* A submission returns with its wake-up spent: it found no worker announced,
\* or notified somebody.
LEMMA PushEnds ==
    ASSUME Inv, [Next]_vars, NEW t \in Tasks, push[t] # "ok", push'[t] = "ok"
    PROVE  WakeOneCheck(t) \/ WakeOneNotify(t)
<1>0. push \in [Tasks -> PushStates]  BY DEF Inv, TypeOK
<1>1. ASSUME NEW u \in Tasks, PushCall(u) \/ PushStep(u)
      PROVE  WakeOneCheck(t) \/ WakeOneNotify(t)
  <2>1. CASE PushGroup(u)
    <3>1. \E state \in {"last_check", "unreserve", "group"} : PushTo(u, state)
      <4>1. CASE member'[u] = "member"  BY <2>1, <4>1 DEF PushGroup
      <4>2. CASE member'[u] = "refused"  BY <2>1, <4>2 DEF PushGroup
      <4>3. CASE member'[u] \notin {"member", "refused"}
        BY <2>1, <4>3 DEF PushGroup
      <4>. QED  BY <4>1, <4>2, <4>3
    <3>. QED  BY <1>0, <3>1 DEF PushTo
  <2>2. CASE \/ PushCall(u) \/ ReserveRead(u) \/ ReserveSlot(u)
             \/ PushRecheck(u) \/ PushLastCheck(u)
             \/ ReleaseSlot(u) \/ GroupRollback(u) \/ Publish(u)
             \/ RecordSubmission(u)
    BY <1>0, <2>2
    DEF PushCall, ReserveRead, ReserveSlot, PushRecheck,
        PushLastCheck, ReleaseSlot, GroupRollback, Publish, RecordSubmission,
        PushTo
  <2>3. CASE WakeOneCheck(u) \/ WakeOneNotify(u)
    <3>1. u = t  BY <1>0, <2>3 DEF WakeOneCheck, WakeOneNotify, PushTo
    <3>. QED  BY <2>3, <3>1
  <2>. QED  BY <1>1, <2>1, <2>2, <2>3 DEF PushStep
<1>. QED  BY <1>1, ClientsKeepPush, WorkersKeepPush DEF Next

\* Only a publication puts a task into an injector.
LEMMA InjectedByPublish ==
    ASSUME Inv, [Next]_vars, NEW t \in Injected', push[t] # "publish"
    PROVE  t \in Injected
<1>0. PoolTypeOK /\ t \in Tasks  BY DEF Inv, PoolInv, Injected
<1>1. CASE UNCHANGED injector  BY <1>1 DEF Injected
<1>2. ASSUME NEW u \in Tasks, Publish(u) PROVE t \in Injected
  <2>1. u # t  BY <1>2 DEF Publish
  <2>. QED  BY <1>0, <1>2, <2>1 DEF Publish, PushGlobal, PoolTypeOK, Injected
<1>3. ASSUME NEW w \in Workers, Spawn(w) \/ WorkerStep(w) PROVE t \in Injected
  <2>1. CASE Lookup(w)
    <3>1. CASE StealBatch(w)
      <4>1. \A p \in Priorities : injector'[p] \subseteq injector[p]
        BY <1>0, <3>1 DEF StealBatch, PoolTypeOK
      <4>. QED  BY <1>0, <4>1 DEF Injected
    <3>2. CASE Lookup(w) /\ ~StealBatch(w)
      BY <1>1, <3>2
      DEF Lookup, PopCall, PopStep, InjectorEmpty, DeliverBatch, LocalPop,
          LocalEmpty, StealPeer, PeerEmpty, PeersExhausted, StealRetry
    <3>. QED  BY <2>1, <3>1, <3>2
  <2>2. CASE (WorkerStep(w) /\ ~Lookup(w)) \/ Spawn(w)
    BY <1>1, <2>2
    DEF Spawn, WorkerStep, LookupDone, LookupEmpty, Exit, GoOn, Lock,
        PublishSleeping, Park, Resume, Execute, RecordCompletion,
        TaskCompleted, NotifyIdle, LeaveGroup, AfterAccounting, PopReturn,
        DropTask, poolVars
  <2>. QED  BY <1>3, <2>1, <2>2
<1>. QED
  BY <1>1, <1>2, <1>3, OthersKeepHands DEF Next, PushStep, poolVars

LEMMA CoveredStep ==
    ASSUME Inv, Covered, [WakeNext]_wakeVars
    PROVE  Covered'
<1>1. CASE UNCHANGED wakeVars
  BY <1>1
  DEF wakeVars, vars, sharedVars, workerVars, pushVars, poolVars, Covered,
      Injected, Passed
<1>2. CASE WakeNext
  <2>0. Next /\ Observe  BY <1>2 DEF WakeNext
  <2>1. SUFFICES ASSUME NEW t \in Injected', push'[t] = "ok", t \notin wasted'
                 PROVE  \E v \in Workers : ~Passed(v, t)'
    BY DEF Covered
  <2>2. t \in Tasks /\ t \notin wasted /\ t \notin WastedNow
    BY <2>0, <2>1 DEF Injected, Observe
  <2>3. CASE push[t] = "ok"
    <3>1. t \in Injected  BY <2>0, <2>1, <2>3, InjectedByPublish
    <3>2. PICK v \in Workers : ~Passed(v, t)  BY <2>2, <2>3, <3>1 DEF Covered
    <3>. QED  BY <2>0, <3>1, <3>2, StaysBefore
  <2>4. CASE push[t] # "ok" /\ WakeOneCheck(t)
    <3>1. push[t] = "wake" /\ UNCHANGED site
      BY <2>4 DEF WakeOneCheck, workerVars
    <3>2. sleeping_workers = 0
      BY <2>1, <2>4, <2>2 DEF WakeOneCheck, PushTo, Inv, TypeOK
    <3>3. Sleepers = {}
      BY <3>2, SleepersFinite, FS_EmptySet DEF Inv, SleepersExact
    <3>4. PICK v \in Workers : TRUE  BY SchedulerAssumption
    <3>. QED  BY <3>1, <3>3, <3>4 DEF Sleepers, Passed
  <2>5. CASE push[t] # "ok" /\ WakeOneNotify(t)
    <3>1. push[t] = "notify" /\ UNCHANGED <<wpc, site>>
      BY <2>5 DEF WakeOneNotify, workerVars
    <3>2. PICK v \in Workers : v \in wake /\ v \notin wake'
      <4>1. wake \cap Workers # {} /\ (wake \ wake') \cap Waiters = {}
        BY <2>1, <2>2, <3>1 DEF WastedNow
      <4>2. \E x \in wake : wake' = wake \ {x}
        BY <2>5, <4>1 DEF WakeOneNotify, NotifyOne
      <4>. QED  BY <4>1, <4>2 DEF Inv, TypeOK
    <3>3. wpc[v] = "parked"  BY <3>2 DEF Inv, SitesAgree
    <3>. QED  BY <3>1, <3>2, <3>3 DEF Passed
  <2>. QED  BY <2>0, <2>1, <2>2, <2>3, <2>4, <2>5, PushEnds
<1>. QED  BY <1>1, <1>2

\* With every worker asleep, a waiting task sits in an injector that all of
\* them have passed.
LEMMA CoveredIsEnough ==
    ASSUME Inv, DrainInv, Covered
    PROVE  OnlyWastedStrand
<1>1. SUFFICES ASSUME Awake = {}, NEW t \in Waiting,
                      push[t] \notin {"record", "wake", "notify"}, t \notin wasted
               PROVE  FALSE
  BY DEF OnlyWastedStrand
<1>2. t \in Tasks /\ push[t] = "ok"
  BY <1>1 DEF Waiting, Injected, Inv, AcceptedExactlyOnce, Published
<1>3. ASSUME NEW w \in Workers
      PROVE  w \in wake /\ wpc[w] = "parked" /\ site[w] = "final"
  <2>1. wpc[w] # "exited"
    BY <1>1, <1>2 DEF Inv, Fenced, Slots
  <2>2. wpc[w] # "unspawned"
    BY <1>2 DEF DrainInv, OwnerAgrees
  <2>. QED  BY <1>1, <2>1, <2>2 DEF Awake, Inv, SitesAgree
<1>4. \A w \in Workers : local[w] = {} /\ batch[w] = {}
  <2>1. ASSUME NEW w \in Workers PROVE local[w] = {} /\ batch[w] = {}
    <3>1. wpc[w] = "parked"  BY <1>3
    <3>2. local[w] = {}
      BY <3>1 DEF DrainInv, DequesAgree, BeforeDec, AfterDec
    <3>3. pos[w] = "idle"  BY <3>1 DEF Inv, HandsAgree
    <3>. QED  BY <3>2, <3>3 DEF Inv, PoolInv, ResultsAgree
  <2>. QED  BY <2>1
<1>5. t \in Injected  BY <1>1, <1>4 DEF Waiting
<1>6. PICK v \in Workers : ~Passed(v, t)  BY <1>1, <1>2, <1>5 DEF Covered
<1>. QED  BY <1>3, <1>6 DEF Passed

\* Every submission that has returned has a worker on its way to its task,
\* unless its notification was wasted.
THEOREM WakeUpsCover == WakeSpec => []Covered
<1>1. WakeInit => Covered
  BY DEF WakeInit, Init, PoolInit, Covered, Injected
<1>. QED
  BY <1>1, CoveredStep, WakeIsScheduler, SchedulerSafe, PTL DEF WakeSpec

\* Accepted work is left to sleeping workers only if its own notification
\* released none of them; for any number of workers, waiters and submissions.
THEOREM OnlyWastedAreStranded == WakeSpec => []OnlyWastedStrand
  BY WakeUpsCover, CoveredIsEnough, WakeIsScheduler, SchedulerSafe, DrainSafe, PTL

=============================================================================
