---------------------------- MODULE DrainProofs ----------------------------
(***************************************************************************)
(* Proofs about what is left when the scheduler's work is done: groups,    *)
(* statistics, deques and the destroyed scheduler.  They need the second   *)
(* invariant DrainInv on top of Inv.  With both of them the scheduler is   *)
(* shown to implement Executor, in the last section.                       *)
(***************************************************************************)
EXTENDS SchedulerProofs

LEMMA InitDrain == Init => DrainInv
<1>. SUFFICES ASSUME Init PROVE DrainInv  OBVIOUS
<1>. USE DEF Init
<1>1. MembersAgree /\ OwnerAgrees
  BY DEF GroupInit, MembersAgree, MemberAgrees, OwnerAgrees, Published, Reserving
<1>2. StatsExact
  <2>1. Recorded = {} /\ Finished = {} /\ {t \in Tasks : push[t] = "full"} = {}
    BY DEF Recorded, Finished
  <2>. QED  BY <2>1, FS_EmptySet DEF StatsExact
<1>3. DequesAgree  BY DEF PoolInit, DequesAgree
<1>. QED  BY <1>1, <1>2, <1>3 DEF DrainInv

-----------------------------------------------------------------------------
\* The steps of a submission leave the workers and the owner alone, and are
\* taken while the scheduler is in use.
LEMMA PushInLife ==
    ASSUME Inv, OwnerAgrees, NEW t \in Tasks, PushCall(t) \/ PushStep(t)
    PROVE  UNCHANGED <<owner, wpc>> /\ owner = "live"
<1>1. UNCHANGED <<owner, wpc>>
  BY DEF PushCall, PushStep, ReserveRead, ReserveSlot,
         PushRecheck, PushGroup, PushLastCheck, ReleaseSlot, GroupRollback,
         Publish, RecordSubmission, WakeOneCheck, WakeOneNotify, clientVars,
         workerVars
<1>2. PushStep(t) => push[t] \notin {"idle"} \cup PushOver
  BY DEF PushStep, ReserveRead, ReserveSlot,
         PushRecheck, PushGroup, PushLastCheck, ReleaseSlot, GroupRollback,
         Publish, RecordSubmission, WakeOneCheck, WakeOneNotify, PushOver
<1>. QED  BY <1>1, <1>2 DEF PushCall, OwnerAgrees

\* The owner's life cycle.
LEMMA LifeStep ==
    ASSUME Inv, OwnerAgrees, [Next]_vars
    PROVE  OwnerAgrees'
<1>0. /\ wpc \in [Workers -> WorkerStates] /\ push \in [Tasks -> PushStates]
  BY DEF Inv, TypeOK
<1>1. ASSUME NEW t \in Tasks, PushCall(t) \/ PushStep(t) PROVE OwnerAgrees'
  BY <1>1, PushInLife DEF OwnerAgrees
<1>2. ASSUME NEW w \in Workers, Spawn(w) PROVE OwnerAgrees'
  BY <1>0, <1>2 DEF Spawn, WorkerTo, OwnerAgrees, clientVars, pushVars
<1>3. ASSUME NEW w \in Workers, WorkerStep(w) PROVE OwnerAgrees'
  <2>1. UNCHANGED <<owner, push>>
    BY <1>3, WorkersKeepPush
    DEF WorkerStep, Lookup, LookupDone, LookupEmpty, Exit, GoOn, Lock,
        PublishSleeping, Park, Resume, Execute, RecordCompletion,
        TaskCompleted, NotifyIdle, LeaveGroup, clientVars
  <2>2. wpc[w] \notin {"unspawned", "exited"}
    BY <1>3
    DEF WorkerStep, Lookup, LookupDone, LookupEmpty, Exit, GoOn, Lock,
        PublishSleeping, Park, Resume, Execute, RecordCompletion,
        TaskCompleted, NotifyIdle, LeaveGroup
  <2>3. \A v \in Workers : wpc'[v] = "unspawned" => wpc[v] = "unspawned"
    BY <1>0, <1>3
    DEF WorkerStep, Lookup, LookupDone, LookupEmpty, Exit, GoOn, Lock,
        PublishSleeping, Park, Resume, Execute, RecordCompletion,
        TaskCompleted, NotifyIdle, LeaveGroup, AfterAccounting, WorkerTo,
        workerVars, Inv, TypeOK, Sites
  <2>. QED  BY <2>1, <2>2, <2>3 DEF OwnerAgrees
<1>4. ASSUME NEW x \in Waiters, WaitCall(x) \/ WaitCheck(x) \/ WaitPark(x)
      PROVE  OwnerAgrees'
  BY <1>4 DEF WaitCall, WaitCheck, WaitPark, OwnerAgrees, workerVars, pushVars
<1>5. ASSUME ShutdownStore \/ ShutdownNotify \/ Destroy \/ OwnerStep \/ GroupClient
      PROVE  OwnerAgrees'
  BY <1>5
  DEF ShutdownStore, ShutdownNotify, Destroy, OwnerStep, Created, SpawnFails,
      OwnerStore, OwnerNotify, OwnerJoin, OwnerTo, GroupClient, OwnerAgrees,
      workerVars, pushVars, clientVars
<1>6. CASE UNCHANGED vars
  BY <1>6 DEF OwnerAgrees, vars, workerVars, pushVars, clientVars
<1>. QED  BY <1>1, <1>2, <1>3, <1>4, <1>5, <1>6 DEF Next

-----------------------------------------------------------------------------
\* What the step of a worker does to the tasks in the queues and in hand:
\* only its own task can leave, at the end of execute_task.
LEMMA WorkerHolds ==
    ASSUME Inv, NEW w \in Workers, Spawn(w) \/ WorkerStep(w)
    PROVE  /\ \A v \in Workers \ {w} : current'[v] = current[v] /\ wpc'[v] = wpc[v]
           /\ IF current[w] # NoTask /\ current'[w] = NoTask
              THEN /\ current[w] \in InHand
                   /\ (Waiting \cup InHand)' = (Waiting \cup InHand) \ {current[w]}
                   /\ \/ LeaveGroup(w) /\ member'[current[w]] = "left"
                      \/ ~LeaveGroup(w) /\ GroupOf[current[w]] = NoGroup
              ELSE (Waiting \cup InHand)' = Waiting \cup InHand
<1>0. /\ HandsAgree /\ PoolInv /\ PoolTypeOK
      /\ wpc \in [Workers -> WorkerStates] /\ site \in [Workers -> Sites]
      /\ NoTask \notin Tasks
  BY SubmissionsAssumption DEF Inv, TypeOK, PoolInv, SubmissionsAssumption
<1>. USE <1>0
<1>1. CASE Lookup(w)
  <2>1. UNCHANGED wpc /\ wpc[w] = "pop"  BY <1>1 DEF Lookup, workerVars
  <2>2. CASE PopCall(w)
    BY <2>1, <2>2 DEF PopCall, Waiting, Injected, InHand
  <2>3. CASE PopStep(w)
    <3>1. /\ Waiting' \subseteq Waiting
          /\ Waiting \subseteq Waiting' \cup {current'[w]}
          /\ \A v \in Workers \ {w} : current'[v] = current[v]
          /\ \/ current'[w] = current[w]
             \/ current[w] = NoTask /\ current'[w] \in Waiting \ Waiting'
      BY <2>3, PopStepKeeps
    <3>2. Waiting \subseteq Tasks  BY DEF Waiting, Injected
    <3>3. (Waiting \cup InHand)' = Waiting \cup InHand
      BY <3>1, <3>2 DEF InHand
    <3>. QED  BY <2>1, <3>1, <3>2, <3>3
  <2>. QED  BY <1>1, <2>2, <2>3 DEF Lookup
<1>2. CASE LookupDone(w) \/ LookupEmpty(w)
  <2>1. UNCHANGED <<injector, local, batch, current>>
    BY <1>2 DEF LookupDone, LookupEmpty, PopReturn
  <2>2. Waiting' = Waiting /\ InHand' = InHand
    BY <2>1 DEF Waiting, Injected, InHand
  <2>3. \A v \in Workers \ {w} : wpc'[v] = wpc[v]
    BY <1>2 DEF LookupDone, LookupEmpty, WorkerTo
  <2>. QED  BY <2>1, <2>2, <2>3
<1>3. CASE \/ Spawn(w) \/ Exit(w) \/ GoOn(w) \/ Lock(w) \/ PublishSleeping(w)
           \/ Park(w) \/ Resume(w) \/ Execute(w) \/ RecordCompletion(w)
  <2>1. UNCHANGED poolVars
    BY <1>3 DEF Spawn, Exit, GoOn, Lock, PublishSleeping, Park, Resume,
                Execute, RecordCompletion
  <2>2. Waiting' = Waiting /\ InHand' = InHand
    BY <2>1 DEF Waiting, Injected, InHand, poolVars
  <2>3. \A v \in Workers \ {w} : wpc'[v] = wpc[v]
    BY <1>3 DEF Spawn, Exit, GoOn, Lock, PublishSleeping, Park, Resume,
                Execute, RecordCompletion, WorkerTo
  <2>. QED  BY <2>1, <2>2, <2>3 DEF poolVars
<1>4. CASE TaskCompleted(w) \/ NotifyIdle(w) \/ LeaveGroup(w)
  <2>1. /\ \A v \in Workers \ {w} : wpc'[v] = wpc[v]
        /\ \/ UNCHANGED poolVars
           \/ /\ DropTask(w)
              /\ \/ LeaveGroup(w) /\ member'[current[w]] = "left"
                 \/ ~LeaveGroup(w) /\ GroupOf[current[w]] = NoGroup
    BY <1>4 DEF TaskCompleted, NotifyIdle, LeaveGroup, AfterAccounting, WorkerTo
  <2>2. CASE UNCHANGED poolVars
    <3>1. Waiting' = Waiting /\ InHand' = InHand
      BY <2>2 DEF Waiting, Injected, InHand, poolVars
    <3>. QED  BY <2>1, <2>2, <3>1 DEF poolVars
  <2>3. CASE /\ DropTask(w)
             /\ \/ LeaveGroup(w) /\ member'[current[w]] = "left"
                \/ ~LeaveGroup(w) /\ GroupOf[current[w]] = NoGroup
    <3>1. current[w] # NoTask
      BY <1>4 DEF TaskCompleted, NotifyIdle, LeaveGroup, HandsAgree, AfterDec,
                  BeforeDec
    <3>2. /\ current[w] \in Tasks /\ current[w] \notin Waiting
          /\ \A v \in Workers : v # w => current[v] # current[w]
      BY <3>1 DEF PoolInv, PoolTypeOK, NoDuplication
    <3>3. Waiting' = Waiting  BY <2>3 DEF DropTask, Waiting, Injected
    <3>4. current' = [current EXCEPT ![w] = NoTask]  BY <2>3 DEF DropTask
    <3>5. InHand' = InHand \ {current[w]}
      BY <3>2, <3>4 DEF InHand, PoolTypeOK
    <3>6. current[w] \in InHand  BY <3>2 DEF InHand
    <3>. QED  BY <2>1, <2>3, <3>1, <3>2, <3>3, <3>4, <3>5, <3>6 DEF PoolTypeOK
  <2>. QED  BY <2>1, <2>2, <2>3
<1>. QED  BY <1>1, <1>2, <1>3, <1>4 DEF WorkerStep

-----------------------------------------------------------------------------
\* What a step of add_task and of task_completed does to a registration.
LEMMA AddEffect ==
    ASSUME GroupInv, NEW t \in Tasks, AddTaskStep(t)
    PROVE  \E m \in {"checked", "counted", "member", "undo", "undo_notify", "refused"} :
              member' = [member EXCEPT ![t] = m]
<1>1. CASE AddTaskCheck(t)  BY <1>1 DEF AddTaskCheck
<1>2. CASE AddTaskCount(t)  BY <1>2 DEF AddTaskCount
<1>3. CASE AddTaskRecheck(t)  BY <1>3 DEF AddTaskRecheck
<1>4. CASE member[t] = "undo" /\ GroupTaskCompleted(t)
  <2>. DEFINE m == Completed(member[t], group_tasks[GroupOf[t]])
  <2>1. m \in {"undo_notify", "refused"}  BY <1>4 DEF Completed
  <2>2. member' = [member EXCEPT ![t] = m]
    BY <1>4 DEF GroupTaskCompleted, GroupInv, GroupTypeOK
  <2>. QED  BY <2>1, <2>2
<1>5. CASE member[t] = "undo_notify" /\ GroupNotify(t)  BY <1>5 DEF GroupNotify
<1>. QED  BY <1>1, <1>2, <1>3, <1>4, <1>5 DEF AddTaskStep

LEMMA LeaveEffect ==
    ASSUME GroupInv, NEW t \in Tasks, LeaveStep(t)
    PROVE  /\ member[t] \in {"member", "notify"}
           /\ \E m \in {"notify", "left"} :
                 /\ member' = [member EXCEPT ![t] = m]
                 /\ member[t] = "notify" => m = "left"
<1>1. CASE member[t] = "member" /\ GroupTaskCompleted(t)
  <2>. DEFINE m == Completed(member[t], group_tasks[GroupOf[t]])
  <2>1. m \in {"notify", "left"}  BY <1>1 DEF Completed
  <2>2. member' = [member EXCEPT ![t] = m]
    BY <1>1 DEF GroupTaskCompleted, GroupInv, GroupTypeOK
  <2>. QED  BY <1>1, <2>1, <2>2
<1>2. CASE member[t] = "notify" /\ GroupNotify(t)  BY <1>2 DEF GroupNotify
<1>. QED  BY <1>1, <1>2 DEF LeaveStep

\* A step that does not concern a submission, its registration or its task.
LEMMA MemberFrame ==
    ASSUME NEW t \in Tasks, MemberAgrees(t),
           push'[t] = push[t], member'[t] = member[t],
           t \in (Waiting \cup InHand)' <=> t \in Waiting \cup InHand,
           \A w \in Workers : current[w] = t /\ wpc[w] = "group" =>
                                 current'[w] = t /\ wpc'[w] = "group"
    PROVE  MemberAgrees(t)'
  BY DEF MemberAgrees

\* The steps of a submission keep it in step with its registration.
LEMMA PushMembers ==
    ASSUME Inv, MembersAgree, NEW t \in Tasks, PushCall(t) \/ PushStep(t)
    PROVE  MembersAgree'
<1>0. /\ push \in [Tasks -> PushStates] /\ member \in [Tasks -> MemberStates]
      /\ GroupInv /\ Grouped /\ PoolTypeOK /\ MemberAgrees(t) /\ NoGroup \notin Groups
      /\ AcceptedExactlyOnce
  BY SubmissionsAssumption
  DEF Inv, TypeOK, PoolInv, GroupInv, GroupTypeOK, MembersAgree, SubmissionsAssumption
<1>. USE <1>0
<1>1. ASSUME MemberAgrees(t)',
             \A u \in Tasks \ {t} :
                /\ push'[u] = push[u] /\ member'[u] = member[u]
                /\ u \in (Waiting \cup InHand)' <=> u \in Waiting \cup InHand,
             UNCHANGED <<current, wpc>>
      PROVE  MembersAgree'
  <2>1. ASSUME NEW u \in Tasks, u # t PROVE MemberAgrees(u)'
    BY <1>1, <2>1, MemberFrame DEF MembersAgree
  <2>. QED  BY <1>1, <2>1 DEF MembersAgree
<1>2. CASE Publish(t)
  <2>1. /\ push[t] = "publish" /\ push' = [push EXCEPT ![t] = "record"]
        /\ UNCHANGED <<current, wpc, member>>
    BY <1>2 DEF Publish, PushTo, PushGlobal, workerVars, groupVars
  <2>2. Waiting' = Waiting \cup {t} /\ InHand' = InHand
    BY <1>2, SubmissionsAssumption
    DEF Publish, PushGlobal, Waiting, Injected, InHand, PoolTypeOK,
        SubmissionsAssumption
  <2>3. MemberAgrees(t)'
    BY <2>1, <2>2 DEF MemberAgrees, Published, Reserving
  <2>. QED  BY <1>1, <2>1, <2>2, <2>3
<1>3. CASE ~Publish(t)
  <2>1. UNCHANGED <<poolVars, wpc>>  BY <1>3, OthersKeepHands
  <2>2. Waiting' = Waiting /\ InHand' = InHand /\ UNCHANGED <<current, wpc>>
    BY <2>1 DEF poolVars, Waiting, Injected, InHand
  <2>3. \A u \in Tasks \ {t} : push'[u] = push[u]
    BY <1>3, PushEffect DEF PushTo
  <2>. USE DEF PushTo
  <2>4. CASE PushGroup(t)
    <3>1. push[t] = "group" /\ AddTaskStep(t)  BY <2>4 DEF PushGroup
    <3>2. PICK m \in {"checked", "counted", "member", "undo", "undo_notify", "refused"} :
             member' = [member EXCEPT ![t] = m]
      BY <3>1, AddEffect
    <3>3. GroupOf[t] # NoGroup
      BY <3>1 DEF AddTaskStep, AddTaskCheck, AddTaskCount, AddTaskRecheck, Grouped
    <3>4. member'[t] = m  BY <3>2
    <3>5. CASE m = "member"
      <4>1. push' = [push EXCEPT ![t] = "last_check"]
        BY <2>4, <3>4, <3>5 DEF PushGroup
      <4>. QED  BY <1>1, <2>2, <3>2, <3>3, <3>5, <4>1 DEF MemberAgrees, Published, Reserving
    <3>6. CASE m = "refused"
      <4>1. push' = [push EXCEPT ![t] = "unreserve"]
        BY <2>4, <3>4, <3>6 DEF PushGroup
      <4>. QED  BY <1>1, <2>2, <3>2, <3>3, <3>6, <4>1 DEF MemberAgrees, Published, Reserving
    <3>7. CASE m \notin {"member", "refused"}
      <4>1. push' = [push EXCEPT ![t] = "group"]
        BY <2>4, <3>4, <3>7 DEF PushGroup
      <4>. QED  BY <1>1, <2>2, <3>2, <3>3, <3>7, <4>1 DEF MemberAgrees, Published, Reserving
    <3>. QED  BY <3>5, <3>6, <3>7
  <2>5. CASE GroupRollback(t)
    <3>1. push[t] = "group_rollback" /\ LeaveStep(t)  BY <2>5 DEF GroupRollback
    <3>2. PICK m \in {"notify", "left"} : member' = [member EXCEPT ![t] = m]
      BY <3>1, LeaveEffect
    <3>3. push' = [push EXCEPT ![t] = IF m = "left" THEN "stopped" ELSE "group_rollback"]
      BY <2>5, <3>2 DEF GroupRollback
    <3>. QED  BY <1>1, <2>2, <3>1, <3>2, <3>3 DEF MemberAgrees, Published, Reserving
  <2>6. CASE ~PushGroup(t) /\ ~GroupRollback(t)
    <3>1. UNCHANGED member
      BY <1>3, <2>6
      DEF PushCall, PushStep, ReserveRead, ReserveSlot,
          PushRecheck, PushLastCheck, ReleaseSlot, RecordSubmission,
          WakeOneCheck, WakeOneNotify, groupVars
    <3>2. MemberAgrees(t)'
      <4>. USE <2>2, <3>1 DEF MemberAgrees, Published, Reserving
      <4>1. CASE PushCall(t)  BY <4>1 DEF PushCall
      <4>2. CASE ReserveRead(t)  BY <4>2 DEF ReserveRead
      <4>3. CASE ReserveSlot(t)  BY <4>3 DEF ReserveSlot
      <4>4. CASE PushRecheck(t)  BY <4>4 DEF PushRecheck
      <4>5. CASE PushLastCheck(t)  BY <4>5 DEF PushLastCheck
      <4>6. CASE ReleaseSlot(t)  BY <4>6 DEF ReleaseSlot
      <4>7. CASE RecordSubmission(t)  BY <4>7 DEF RecordSubmission
      <4>8. CASE WakeOneCheck(t)  BY <4>8 DEF WakeOneCheck
      <4>9. CASE WakeOneNotify(t)  BY <4>9 DEF WakeOneNotify
      <4>. QED
        BY <1>3, <2>6, <4>1, <4>2, <4>3, <4>4, <4>5, <4>6, <4>7, <4>8,
           <4>9 DEF PushStep
    <3>. QED  BY <1>1, <2>2, <2>3, <3>1, <3>2
  <2>. QED  BY <2>4, <2>5, <2>6
<1>. QED  BY <1>2, <1>3

\* So do the steps of a worker: its group is left when its task is dropped.
LEMMA WorkerMembers ==
    ASSUME Inv, MembersAgree, NEW w \in Workers, Spawn(w) \/ WorkerStep(w)
    PROVE  MembersAgree'
<1>0. /\ push \in [Tasks -> PushStates] /\ member \in [Tasks -> MemberStates]
      /\ GroupInv /\ PoolInv /\ PoolTypeOK /\ HandsAgree /\ AcceptedExactlyOnce
      /\ NoTask \notin Tasks /\ wpc \in [Workers -> WorkerStates]
  BY SubmissionsAssumption
  DEF Inv, TypeOK, PoolInv, GroupInv, GroupTypeOK, SubmissionsAssumption
<1>1. UNCHANGED push  BY WorkersKeepPush
<1>2. \A v \in Workers \ {w} : current'[v] = current[v] /\ wpc'[v] = wpc[v]
  BY WorkerHolds
<1>. USE <1>0, <1>1, <1>2
<1>3. CASE LeaveGroup(w)
  <2>0. current[w] \in Tasks
    BY <1>3 DEF LeaveGroup, HandsAgree, AfterDec, BeforeDec, PoolTypeOK
  <2>. PICK t \in Tasks : t = current[w]  BY <2>0
  <2>1. wpc[w] = "group" /\ LeaveStep(t)  BY <1>3 DEF LeaveGroup
  <2>2. t \in Tasks /\ t \in InHand  BY DEF InHand
  <2>3. push[t] \in Published  BY <2>2 DEF AcceptedExactlyOnce
  <2>4. MemberAgrees(t)  BY <2>2 DEF MembersAgree
  <2>5. /\ member[t] \in {"member", "notify"} /\ GroupOf[t] # NoGroup
        /\ \E m \in {"notify", "left"} : member' = [member EXCEPT ![t] = m]
    BY <2>1, <2>2, <2>3, <2>4, LeaveEffect DEF MemberAgrees
  <2>6. \A v \in Workers : v # w => current[v] # t
    BY <2>2 DEF PoolInv, NoDuplication
  <2>7. CASE member'[t] = "left"
    <3>1. DropTask(w) /\ member' = [member EXCEPT ![t] = "left"]
      BY <1>3, <2>2, <2>5, <2>7 DEF LeaveGroup
    <3>2. current[w] # NoTask /\ current'[w] = NoTask
      BY <2>2, <3>1 DEF DropTask, PoolTypeOK
    <3>3. (Waiting \cup InHand)' = (Waiting \cup InHand) \ {t}
      BY <3>2, WorkerHolds
    <3>4. ASSUME NEW u \in Tasks, u # t PROVE MemberAgrees(u)'
      BY <3>1, <3>3, <3>4, MemberFrame DEF MembersAgree
    <3>5. MemberAgrees(t)'
      BY <2>2, <2>3, <2>5, <2>7, <3>3 DEF MemberAgrees, Published, Reserving
    <3>. QED  BY <3>4, <3>5 DEF MembersAgree
  <2>8. CASE member'[t] # "left"
    <3>1. UNCHANGED <<wpc, poolVars>> /\ member' = [member EXCEPT ![t] = "notify"]
      BY <1>3, <2>2, <2>5, <2>8 DEF LeaveGroup
    <3>2. Waiting' = Waiting /\ InHand' = InHand /\ UNCHANGED current
      BY <3>1 DEF poolVars, Waiting, Injected, InHand
    <3>4. ASSUME NEW u \in Tasks, u # t PROVE MemberAgrees(u)'
      BY <3>1, <3>2, <3>4, MemberFrame DEF MembersAgree
    <3>5. MemberAgrees(t)'
      BY <2>1, <2>2, <2>3, <2>5, <3>1, <3>2 DEF MemberAgrees, Published, Reserving
    <3>. QED  BY <3>4, <3>5 DEF MembersAgree
  <2>. QED  BY <2>7, <2>8
<1>4. CASE ~LeaveGroup(w)
  <2>1. UNCHANGED member
    BY <1>4
    DEF Spawn, WorkerStep, Lookup, LookupDone, LookupEmpty, Exit, GoOn, Lock,
        PublishSleeping, Park, Resume, Execute, RecordCompletion,
        TaskCompleted, NotifyIdle, groupVars
  <2>2. wpc[w] # "group"
    BY <1>4
    DEF Spawn, WorkerStep, Lookup, LookupDone, LookupEmpty, Exit, GoOn, Lock,
        PublishSleeping, Park, Resume, Execute, RecordCompletion,
        TaskCompleted, NotifyIdle
  <2>3. ASSUME NEW u \in Tasks,
               u \in (Waiting \cup InHand)' <=> u \in Waiting \cup InHand
        PROVE  MemberAgrees(u)'
    BY <2>1, <2>2, <2>3, MemberFrame DEF MembersAgree
  <2>4. CASE current[w] # NoTask /\ current'[w] = NoTask
    <3>0. current[w] \in InHand  BY <2>4, WorkerHolds
    <3>. PICK t \in Tasks : t = current[w]  BY <3>0 DEF InHand
    <3>1. /\ t \in InHand /\ (Waiting \cup InHand)' = (Waiting \cup InHand) \ {t}
          /\ GroupOf[t] = NoGroup
      BY <1>4, <2>4, WorkerHolds
    <3>2. t \in Tasks  OBVIOUS
    <3>3. push[t] \in Published  BY <3>1, <3>2 DEF AcceptedExactlyOnce
    <3>4. MemberAgrees(t)'
      BY <2>1, <3>1, <3>2, <3>3 DEF MembersAgree, MemberAgrees, Published, Reserving
    <3>. QED  BY <2>3, <3>1, <3>4 DEF MembersAgree
  <2>5. CASE ~(current[w] # NoTask /\ current'[w] = NoTask)
    <3>1. (Waiting \cup InHand)' = Waiting \cup InHand  BY <2>5, WorkerHolds
    <3>. QED  BY <2>3, <3>1 DEF MembersAgree
  <2>. QED  BY <2>4, <2>5
<1>. QED  BY <1>3, <1>4

LEMMA MembersStep ==
    ASSUME Inv, MembersAgree, [Next]_vars
    PROVE  MembersAgree'
<1>1. ASSUME \/ \E x \in Waiters : WaitCall(x) \/ WaitCheck(x) \/ WaitPark(x)
             \/ ShutdownStore \/ ShutdownNotify \/ Destroy \/ OwnerStep \/ GroupClient
             \/ UNCHANGED vars
      PROVE  MembersAgree'
  <2>1. UNCHANGED <<poolVars, wpc, push>>
    BY <1>1, OthersKeepHands, ClientsKeepPush
  <2>2. UNCHANGED member
    BY <1>1
    DEF WaitCall, WaitCheck, WaitPark, ShutdownStore, ShutdownNotify, Destroy,
        OwnerStep, Created, SpawnFails, OwnerStore, OwnerNotify, OwnerJoin,
        OwnerTo, GroupClient, GroupCall, CloseStore, GroupWaitCall, CloseNotify,
        GroupWaitStep, GroupWaitCheck, GroupPark, vars, groupVars
  <2>3. Waiting' = Waiting /\ InHand' = InHand /\ UNCHANGED current
    BY <2>1 DEF poolVars, Waiting, Injected, InHand
  <2>. QED  BY <2>1, <2>2, <2>3, MemberFrame DEF MembersAgree
<1>. QED  BY <1>1, PushMembers, WorkerMembers DEF Next

-----------------------------------------------------------------------------
\* Sets of tasks are finite.
LEMMA TaskSetsFinite ==
    ASSUME NEW S \in SUBSET Tasks
    PROVE  IsFiniteSet(S) /\ Cardinality(S) \in Nat
  BY SubmissionsAssumption, FS_Subset, FS_CardinalityType
  DEF SubmissionsAssumption

\* The step of a submission counts itself when it records its success or its
\* rejection, and nothing else.
LEMMA PushStats ==
    ASSUME Inv, StatsExact, NEW t \in Tasks, PushCall(t) \/ PushStep(t)
    PROVE  StatsExact'
<1>. DEFINE Full == {u \in Tasks : push[u] = "full"}
<1>0. push \in [Tasks -> PushStates]  BY DEF Inv, TypeOK
<1>. USE <1>0
<1>1. /\ IsFiniteSet(Recorded) /\ Cardinality(Recorded) \in Nat
      /\ IsFiniteSet(Full) /\ Cardinality(Full) \in Nat
  BY TaskSetsFinite DEF Recorded
<1>2. UNCHANGED completed /\ Finished' = Finished
  <2>1. UNCHANGED <<completed, executed, wpc, current>>
    <3>1. CASE Publish(t)
      BY <3>1 DEF Publish, PushGlobal, workerVars, statVars
    <3>2. CASE ~Publish(t)
      <4>1. UNCHANGED <<poolVars, wpc, executed>>  BY <3>2, OthersKeepHands
      <4>2. UNCHANGED completed
        BY <3>2
        DEF PushCall, PushStep, ReserveRead, ReserveSlot,
            PushRecheck, PushGroup, PushLastCheck, ReleaseSlot, GroupRollback,
            RecordSubmission, WakeOneCheck, WakeOneNotify, statVars
      <4>. QED  BY <4>1, <4>2 DEF poolVars
    <3>. QED  BY <3>1, <3>2
  <2>. QED  BY <2>1 DEF Finished
<1>. USE DEF PushTo
<1>3. CASE RecordSubmission(t)
  <2>1. Recorded' = Recorded \cup {t} /\ t \notin Recorded /\ Full' = Full
    BY <1>3 DEF RecordSubmission, Recorded
  <2>2. Cardinality(Recorded') = Cardinality(Recorded) + 1
    BY <1>1, <2>1, FS_AddElement
  <2>. QED  BY <1>2, <1>3, <2>1, <2>2 DEF RecordSubmission, StatsExact
<1>4. CASE ReserveRead(t) /\ push'[t] = "full"
  <2>1. Full' = Full \cup {t} /\ t \notin Full /\ Recorded' = Recorded
    BY <1>4 DEF ReserveRead, Recorded
  <2>2. Cardinality(Full') = Cardinality(Full) + 1
    BY <1>1, <2>1, FS_AddElement
  <2>3. queue_full' = queue_full + 1 /\ UNCHANGED submitted
    BY <1>4 DEF ReserveRead
  <2>. QED  BY <1>2, <2>1, <2>2, <2>3 DEF StatsExact
<1>5. CASE ~RecordSubmission(t) /\ ~(ReserveRead(t) /\ push'[t] = "full")
  <2>1. UNCHANGED <<submitted, queue_full>>
    BY <1>5
    DEF PushCall, PushStep, ReserveRead, ReserveSlot,
        PushRecheck, PushGroup, PushLastCheck, ReleaseSlot, GroupRollback,
        Publish, WakeOneCheck, WakeOneNotify, statVars
  <2>2. Recorded' = Recorded /\ Full' = Full
    <3>1. CASE PushGroup(t)
      <4>1. \E s \in {"last_check", "unreserve", "group"} : PushTo(t, s)
        <5>1. CASE member'[t] = "member"  BY <3>1, <5>1 DEF PushGroup
        <5>2. CASE member'[t] = "refused"  BY <3>1, <5>2 DEF PushGroup
        <5>3. CASE member'[t] \notin {"member", "refused"}
          BY <3>1, <5>3 DEF PushGroup
        <5>. QED  BY <5>1, <5>2, <5>3
      <4>. QED  BY <3>1, <4>1 DEF PushGroup, Recorded
    <3>2. CASE ~PushGroup(t)
      BY <1>5, <3>2
      DEF PushCall, PushStep, ReserveRead, ReserveSlot,
          PushRecheck, PushLastCheck, ReleaseSlot, GroupRollback,
          Publish, WakeOneCheck, WakeOneNotify, Recorded
    <3>. QED  BY <3>1, <3>2
  <2>. QED  BY <1>2, <2>1, <2>2 DEF StatsExact
<1>. QED  BY <1>3, <1>4, <1>5

\* The step of a worker counts a completion after the callback, once.
LEMMA WorkerStats ==
    ASSUME Inv, StatsExact, NEW w \in Workers, Spawn(w) \/ WorkerStep(w)
    PROVE  StatsExact'
<1>0. /\ HandsAgree /\ AcceptedExactlyOnce /\ PoolInv /\ PoolTypeOK
      /\ wpc \in [Workers -> WorkerStates] /\ site \in [Workers -> Sites]
      /\ executed \in SUBSET Tasks /\ NoTask \notin Tasks
  BY SubmissionsAssumption DEF Inv, TypeOK, PoolInv, SubmissionsAssumption
<1>. USE <1>0
<1>1. UNCHANGED <<push, submitted, queue_full>>
  BY WorkersKeepPush
  DEF Spawn, WorkerStep, Lookup, LookupDone, LookupEmpty, Exit, GoOn, Lock,
      PublishSleeping, Park, Resume, Execute, RecordCompletion,
      TaskCompleted, NotifyIdle, LeaveGroup, statVars
<1>2. Recorded' = Recorded  BY <1>1 DEF Recorded
<1>3. ASSUME UNCHANGED completed, Finished' = Finished PROVE StatsExact'
  BY <1>1, <1>2, <1>3 DEF StatsExact
<1>4. CASE RecordCompletion(w)
  <2>1. /\ wpc[w] = "complete" /\ wpc' = [wpc EXCEPT ![w] = "dec"]
        /\ completed' = completed + 1 /\ UNCHANGED <<current, executed>>
    BY <1>4 DEF RecordCompletion, WorkerTo, poolVars
  <2>2. /\ current[w] \in executed
        /\ \A v \in Workers : v # w => current[v] # current[w]
    BY <2>1 DEF HandsAgree, PoolInv, NoDuplication
  <2>3. Finished' = Finished \cup {current[w]} /\ current[w] \notin Finished
    BY <2>1, <2>2 DEF Finished
  <2>4. IsFiniteSet(Finished) /\ Cardinality(Finished) \in Nat
    BY TaskSetsFinite DEF Finished
  <2>5. Cardinality(Finished') = Cardinality(Finished) + 1
    BY <2>3, <2>4, FS_AddElement
  <2>. QED  BY <1>1, <1>2, <2>1, <2>5 DEF StatsExact
<1>5. CASE Execute(w)
  <2>1. /\ wpc[w] = "run" /\ wpc' = [wpc EXCEPT ![w] = "complete"]
        /\ executed' = executed \cup {current[w]}
        /\ UNCHANGED <<completed, current>>
    BY <1>5 DEF Execute, WorkerTo, poolVars, statVars
  <2>2. current[w] \in Tasks
    BY <2>1 DEF HandsAgree, BeforeDec, PoolTypeOK
  <2>3. current[w] \notin executed
    BY <2>1, <2>2 DEF AcceptedExactlyOnce, AfterDec
  <2>4. Finished' = Finished  BY <2>1, <2>3 DEF Finished
  <2>. QED  BY <1>3, <2>1, <2>4
<1>6. CASE ~RecordCompletion(w) /\ ~Execute(w)
  <2>1. UNCHANGED <<completed, executed>>
    BY <1>6
    DEF Spawn, WorkerStep, Lookup, LookupDone, LookupEmpty, Exit, GoOn, Lock,
        PublishSleeping, Park, Resume, TaskCompleted, NotifyIdle, LeaveGroup,
        statVars, workerVars
  <2>2. wpc[w] # "complete"
    BY <1>6
    DEF Spawn, WorkerStep, Lookup, LookupDone, LookupEmpty, Exit, GoOn, Lock,
        PublishSleeping, Park, Resume, TaskCompleted, NotifyIdle, LeaveGroup
  <2>3. wpc'[w] # "complete"
    BY <1>6, <2>2
    DEF Spawn, WorkerStep, Lookup, LookupDone, LookupEmpty, Exit, GoOn, Lock,
        PublishSleeping, Park, Resume, TaskCompleted, NotifyIdle, LeaveGroup,
        AfterAccounting, WorkerTo, workerVars, Sites
  <2>4. \A v \in Workers \ {w} : current'[v] = current[v] /\ wpc'[v] = wpc[v]
    BY WorkerHolds
  <2>5. Finished' = Finished  BY <2>1, <2>2, <2>3, <2>4 DEF Finished
  <2>. QED  BY <1>3, <2>1, <2>5
<1>. QED  BY <1>4, <1>5, <1>6

LEMMA StatsStep ==
    ASSUME Inv, StatsExact, [Next]_vars
    PROVE  StatsExact'
<1>1. ASSUME \/ \E x \in Waiters : WaitCall(x) \/ WaitCheck(x) \/ WaitPark(x)
             \/ ShutdownStore \/ ShutdownNotify \/ Destroy \/ OwnerStep \/ GroupClient
             \/ UNCHANGED vars
      PROVE  StatsExact'
  <2>1. UNCHANGED <<poolVars, wpc, executed, push>>
    BY <1>1, OthersKeepHands, ClientsKeepPush
  <2>2. UNCHANGED <<submitted, completed, queue_full>>
    BY <1>1
    DEF WaitCall, WaitCheck, WaitPark, ShutdownStore, ShutdownNotify, Destroy,
        OwnerStep, Created, SpawnFails, OwnerStore, OwnerNotify, OwnerJoin,
        OwnerTo, GroupClient, vars, statVars
  <2>. QED  BY <2>1, <2>2 DEF StatsExact, Recorded, Finished, poolVars
<1>. QED  BY <1>1, PushStats, WorkerStats DEF Next

-----------------------------------------------------------------------------
\* Only its owner puts tasks into a deque, and it does not go to sleep then.
LEMMA DequesStep ==
    ASSUME Inv, DequesAgree, [Next]_vars
    PROVE  DequesAgree'
<1>0. /\ HandsAgree /\ PoolTypeOK
      /\ wpc \in [Workers -> WorkerStates] /\ site \in [Workers -> Sites]
  BY DEF Inv, TypeOK, PoolInv
<1>. USE <1>0
<1>1. ASSUME UNCHANGED <<local, pos, wpc>> PROVE DequesAgree'
  BY <1>1 DEF DequesAgree
<1>2. ASSUME NEW t \in Tasks, PushCall(t) \/ PushStep(t) PROVE DequesAgree'
  <2>1. CASE Publish(t)  BY <1>1, <2>1 DEF Publish, PushGlobal, workerVars
  <2>2. CASE ~Publish(t)  BY <1>1, <1>2, <2>2, OthersKeepHands DEF poolVars
  <2>. QED  BY <2>1, <2>2
<1>3. ASSUME NEW w \in Workers, Spawn(w) \/ WorkerStep(w) PROVE DequesAgree'
  <2>. USE DEF DequesAgree, BeforeDec, AfterDec
  <2>1. CASE Lookup(w)
    <3>1. UNCHANGED wpc /\ wpc[w] = "pop"  BY <2>1 DEF Lookup, workerVars
    <3>. USE <3>1 DEF PoolTypeOK, InjectorPos
    <3>2. CASE PopCall(w)  BY <3>2 DEF PopCall
    <3>3. CASE InjectorEmpty(w)
      <4>1. /\ pos[w] \in InjectorPos /\ UNCHANGED local
            /\ pos' = [pos EXCEPT ![w] = After(pos[w])]
        BY <3>3 DEF InjectorEmpty
      <4>2. pos[w] \in {"fair_normal", "fair_low"} => After(pos[w]) \in {"fair_low", "local"}
        BY DEF After
      <4>. QED  BY <4>1, <4>2
    <3>4. CASE LocalEmpty(w)  BY <3>4 DEF LocalEmpty
    <3>5. CASE StealBatch(w) \/ DeliverBatch(w) \/ LocalPop(w) \/ StealRetry(w)
      BY <3>5 DEF StealBatch, DeliverBatch, LocalPop, StealRetry
    <3>6. CASE StealPeer(w)
      <4>1. /\ pos' = [pos EXCEPT ![w] = "task"]
            /\ \A v \in Workers : local'[v] \subseteq local[v]
        BY <3>6 DEF StealPeer
      <4>. QED  BY <4>1
    <3>7. CASE PeerEmpty(w) \/ PeersExhausted(w)
      BY <3>7 DEF PeerEmpty, PeersExhausted
    <3>. QED
      BY <2>1, <3>2, <3>3, <3>4, <3>5, <3>6, <3>7 DEF Lookup, PopStep
  <2>2. CASE LookupDone(w)
    BY <2>2 DEF LookupDone, PopReturn, WorkerTo, PoolTypeOK
  <2>3. CASE LookupEmpty(w)
    BY <2>3 DEF LookupEmpty, PopReturn, WorkerTo, PoolTypeOK
  <2>4. CASE \/ Spawn(w) \/ Exit(w) \/ GoOn(w) \/ Lock(w) \/ PublishSleeping(w)
             \/ Park(w) \/ Resume(w)
    <3>1. /\ UNCHANGED poolVars
          /\ wpc[w] \notin {"pop"} \cup BeforeDec \cup AfterDec
          /\ \E state \in WorkerStates \ (BeforeDec \cup AfterDec) :
                WorkerTo(w, state)
      BY <2>4, WorkerKeepsHands
    <3>2. pos[w] = "idle" /\ local[w] = {}  BY <3>1 DEF HandsAgree
    <3>. QED  BY <3>1, <3>2 DEF WorkerTo, poolVars
  <2>5. CASE Execute(w) \/ RecordCompletion(w)
    BY <2>5 DEF Execute, RecordCompletion, WorkerTo, poolVars
  <2>6. CASE TaskCompleted(w) \/ NotifyIdle(w) \/ LeaveGroup(w)
    <3>1. /\ wpc[w] \in {"dec"} \cup AfterDec /\ UNCHANGED <<local, pos>>
          /\ \E state \in {"pop"} \cup AfterDec : wpc' = [wpc EXCEPT ![w] = state]
      BY <2>6 DEF TaskCompleted, NotifyIdle, LeaveGroup, AfterAccounting,
                  DropTask, WorkerTo, poolVars
    <3>2. pos[w] = "idle"  BY <3>1 DEF HandsAgree
    <3>. QED  BY <3>1, <3>2
  <2>. QED
    BY <1>3, <2>1, <2>2, <2>3, <2>4, <2>5, <2>6 DEF WorkerStep
<1>4. ASSUME \/ \E x \in Waiters : WaitCall(x) \/ WaitCheck(x) \/ WaitPark(x)
             \/ ShutdownStore \/ ShutdownNotify \/ Destroy \/ OwnerStep \/ GroupClient
             \/ UNCHANGED vars
      PROVE  DequesAgree'
  BY <1>1, <1>4, OthersKeepHands DEF poolVars
<1>. QED  BY <1>2, <1>3, <1>4 DEF Next

-----------------------------------------------------------------------------
LEMMA DrainNext == Inv /\ DrainInv /\ [Next]_vars => DrainInv'
  BY LifeStep, MembersStep, StatsStep, DequesStep DEF DrainInv

\* In every behaviour of the scheduler the second invariant holds.
THEOREM DrainSafe == Spec => []DrainInv
<1>1. Spec => []Inv  BY SchedulerSafe
<1>. QED  BY <1>1, InitDrain, DrainNext, PTL DEF Spec

\* Destruction, and the error path of create, leave nothing behind: every
\* accepted task has run, both counters are back at zero and no group counts
\* a task any more.
THEOREM DestroyIsDrained == Spec => []DestroyDrains
<1>1. ASSUME Inv, DrainInv, owner = "freed"
      PROVE  /\ Outstanding = {} /\ tasks_in_flight = 0 /\ sleeping_workers = 0
             /\ \A t \in Tasks : member[t] \notin Counted
  <2>1. /\ \A w \in Workers : wpc[w] \in {"unspawned", "exited"}
        /\ \A t \in Tasks : push[t] \in {"idle"} \cup PushOver
        /\ Workers # {}
    BY <1>1, SchedulerAssumption DEF DrainInv, OwnerAgrees, SchedulerAssumption
  <2>2. InHand = {} /\ InService = {}
    BY <1>1, <2>1, SubmissionsAssumption
    DEF Inv, HandsAgree, InHand, InService, BeforeDec, AfterDec,
        SubmissionsAssumption
  <2>3. HeldByPush = {}
    BY <2>1 DEF HeldByPush, Holding, Admitted, PushOver
  <2>4. Waiting = {}
    <3>1. ASSUME NEW t \in Tasks, t \in Waiting PROVE FALSE
      <4>1. push[t] \in Published  BY <1>1, <3>1 DEF Inv, AcceptedExactlyOnce
      <4>2. PICK w \in Workers : wpc[w] \in {"unspawned", "exited"}  BY <2>1
      <4>3. CASE wpc[w] = "exited"
        BY <1>1, <3>1, <4>1, <4>3 DEF Inv, Fenced, Slots, Published
      <4>4. CASE wpc[w] = "unspawned"
        BY <1>1, <4>1, <4>4 DEF DrainInv, OwnerAgrees, Published
      <4>. QED  BY <4>2, <4>3, <4>4
    <3>2. Waiting \subseteq Tasks  BY DEF Waiting, Injected
    <3>. QED  BY <3>1, <3>2
  <2>5. tasks_in_flight = 0
    BY <1>1, <2>2, <2>3, <2>4, FS_EmptySet DEF Inv, Accounting, Slots
  <2>6. Outstanding = {}  BY <1>1, <2>5, IdleMeansDone
  <2>7. sleeping_workers = 0
    <3>1. Sleepers = {}  BY <1>1, <2>1 DEF Inv, SitesAgree, Sleepers
    <3>. QED  BY <1>1, <3>1, FS_EmptySet DEF Inv, SleepersExact
  <2>8. ASSUME NEW t \in Tasks PROVE member[t] \notin Counted
    <3>1. MemberAgrees(t)  BY <1>1 DEF DrainInv, MembersAgree
    <3>. QED
      BY <2>1, <2>2, <2>4, <3>1
      DEF MemberAgrees, PushOver, Published, Counted
  <2>. QED  BY <2>5, <2>6, <2>7, <2>8
<1>2. Inv /\ DrainInv => DestroyDrains  BY <1>1 DEF DestroyDrains
<1>. QED  BY <1>2, SchedulerSafe, DrainSafe, PTL

\* A wait on a group returns only when the members it was called for have
\* run, or their submission was rolled back.
THEOREM GroupWaitMeansRan == Spec => []GroupWaitRan
<1>1. ASSUME Inv, DrainInv, NEW y \in GroupWaiters, gwait[y] = "returned",
             NEW t \in gexpect[y]
      PROVE  t \in executed \/ push[t] \in {"group_rollback", "stopped"}
  <2>1. t \in Tasks /\ member[t] \in {"notify", "left"}
    BY <1>1 DEF Inv, GroupInv, GroupTypeOK, GroupWaitSound
  <2>2. /\ MemberAgrees(t) /\ push[t] \in PushStates
        /\ push[t] \in Published => t \in Waiting \cup InHand \cup executed
    BY <1>1, <2>1
    DEF DrainInv, MembersAgree, Inv, TypeOK, AcceptedExactlyOnce
  <2>3. CASE push[t] \in Published
    <3>1. CASE member[t] = "left"  BY <2>2, <2>3, <3>1 DEF MemberAgrees
    <3>2. CASE member[t] = "notify"
      BY <1>1, <2>2, <2>3, <3>2 DEF MemberAgrees, Inv, HandsAgree, AfterDec
    <3>. QED  BY <2>1, <3>1, <3>2
  <2>4. CASE push[t] \in {"unreserve"}
    BY <1>1, <2>1, <2>2, <2>4 DEF MemberAgrees, Inv, GroupInv, Expected
  <2>. QED
    BY <2>1, <2>2, <2>3, <2>4
    DEF MemberAgrees, PushStates, Reserving, Holding, Admitted, PushOver, Published
<1>2. Inv /\ DrainInv => GroupWaitRan  BY <1>1 DEF GroupWaitRan
<1>. QED  BY <1>2, SchedulerSafe, DrainSafe, PTL

\* No worker goes to sleep, or exits, with tasks in its deque.
THEOREM DequesWithSleepersEmpty == Spec => []DequeOwnerAwake
<1>1. ASSUME Inv, DrainInv, NEW w \in Workers,
             wpc[w] \notin {"pop"} \cup BeforeDec \cup AfterDec
      PROVE  local[w] = {} /\ batch[w] = {}
  <2>1. local[w] = {}  BY <1>1 DEF DrainInv, DequesAgree
  <2>2. pos[w] = "idle"  BY <1>1 DEF Inv, HandsAgree
  <2>. QED  BY <1>1, <2>1, <2>2 DEF Inv, PoolInv, ResultsAgree
<1>2. Inv /\ DrainInv => DequeOwnerAwake  BY <1>1 DEF DequeOwnerAwake
<1>. QED  BY <1>2, SchedulerSafe, DrainSafe, PTL

\* The statistics count what has been accepted and what has run.
LEMMA CountsSettle ==
    ASSUME Inv, DrainInv
    PROVE  StatsSettle
<1>0. /\ StatsExact /\ HandsAgree /\ AcceptedExactlyOnce
      /\ executed \in SUBSET Tasks /\ tasks_in_flight = Cardinality(Slots)
  BY DEF DrainInv, Inv, TypeOK, Accounting
<1>1. Recorded \subseteq Finished \cup Slots
  <2>1. ASSUME NEW t \in Recorded, t \notin Slots PROVE t \in Finished
    <3>1. t \in Tasks /\ push[t] \in Published  BY DEF Recorded, Published
    <3>2. t \notin Waiting /\ t \notin InService  BY <2>1 DEF Slots
    <3>3. t \in executed
      BY <1>0, <3>1, <3>2
      DEF AcceptedExactlyOnce, InHand, InService, HandsAgree
    <3>. QED  BY <3>1, <3>2, <3>3 DEF Finished, InService, AfterDec
  <2>. QED  BY <2>1
<1>2. /\ IsFiniteSet(Finished) /\ Cardinality(Finished) \in Nat
      /\ IsFiniteSet(Slots) /\ Cardinality(Slots) \in Nat
  BY <1>0, TaskSetsFinite, SlotsFinite DEF Finished
<1>3. submitted <= completed + tasks_in_flight
  <2>1. IsFiniteSet(Finished \cup Slots) /\ IsFiniteSet(Finished \cap Slots)
    BY <1>2, FS_Union, FS_Intersection
  <2>2. Cardinality(Finished \cup Slots) =
           Cardinality(Finished) + Cardinality(Slots) - Cardinality(Finished \cap Slots)
    BY <1>2, FS_Union
  <2>3. Cardinality(Finished \cap Slots) \in Nat /\ Cardinality(Finished \cup Slots) \in Nat
    BY <2>1, FS_CardinalityType
  <2>4. Cardinality(Recorded) <= Cardinality(Finished \cup Slots)
    BY <1>1, <2>1, FS_Subset
  <2>5. Cardinality(Recorded) \in Nat
    BY <1>1, <2>1, FS_Subset, FS_CardinalityType
  <2>. QED  BY <1>0, <1>2, <2>2, <2>3, <2>4, <2>5 DEF StatsExact
<1>4. ASSUME tasks_in_flight = 0,
             \A t \in Tasks : push[t] \in {"idle"} \cup PushOver
      PROVE  submitted = completed /\ completed = Cardinality(executed)
  <2>1. Slots = {} /\ Outstanding = {}  BY <1>4, IdleMeansDone
  <2>2. Finished = executed
    <3>1. ASSUME NEW t \in executed, NEW w \in Workers, current[w] = t,
                 wpc[w] = "complete"
          PROVE  t \in InService
      BY <1>0, <3>1 DEF InService, AfterDec
    <3>. QED  BY <2>1, <3>1 DEF Slots, Finished
  <2>3. Recorded = executed
    <3>1. \A t \in executed : t \in Tasks /\ push[t] \in Published
      BY <1>0 DEF AcceptedExactlyOnce
    <3>2. executed \subseteq Recorded
      BY <1>4, <3>1 DEF Recorded, Published, PushOver
    <3>3. Recorded \subseteq executed
      BY <2>1 DEF Recorded, Outstanding, Published
    <3>. QED  BY <3>2, <3>3
  <2>. QED  BY <1>0, <2>2, <2>3 DEF StatsExact
<1>. QED  BY <1>3, <1>4 DEF StatsSettle

\* The statistics agree with the slots, and are settled when the scheduler
\* is idle.
THEOREM StatisticsSettle == Spec => []StatsSettle
<1>1. Inv /\ DrainInv => StatsSettle  BY CountsSettle
<1>. QED  BY <1>1, SchedulerSafe, DrainSafe, PTL

-----------------------------------------------------------------------------
(* The scheduler implements Executor *)

\* A group does not open again, and only a closed one undoes a registration.
LEMMA ClosedGroups ==
    ASSUME Inv, ExecInv, [Next]_vars
    PROVE  /\ \A g \in Groups : closed[g] # "open" => closed'[g] # "open"
           /\ \A t \in Tasks : member'[t] \in {"undo", "undo_notify"} =>
                 closed'[GroupOf[t]] # "open"
<1>0. /\ member \in [Tasks -> MemberStates] /\ Grouped
      /\ closed \in [Groups -> {"open", "closing", "closed"}]
      /\ \A t \in Tasks : member[t] \in {"undo", "undo_notify"} =>
            GroupOf[t] \in Groups /\ closed[GroupOf[t]] # "open"
  BY DEF Inv, GroupInv, GroupTypeOK, ExecInv, Grouped
<1>1. [GroupNext]_groupVars  BY StepIsGroupStep
<1>2. CASE UNCHANGED groupVars  BY <1>0, <1>2 DEF groupVars
<1>3. ASSUME NEW t \in Tasks, AddTaskStep(t) \/ LeaveStep(t)
      PROVE  /\ UNCHANGED closed
             /\ \A u \in Tasks : member'[u] \in {"undo", "undo_notify"} =>
                   \/ member[u] \in {"undo", "undo_notify"}
                   \/ closed[GroupOf[u]] # "open"
  <2>1. UNCHANGED closed
    BY <1>3
    DEF AddTaskStep, LeaveStep, AddTaskCheck, AddTaskCount, AddTaskRecheck,
        GroupTaskCompleted, GroupNotify
  <2>2. CASE GroupTaskCompleted(t)
    BY <1>0, <2>1, <2>2 DEF GroupTaskCompleted, Completed
  <2>3. CASE AddTaskCheck(t) \/ AddTaskCount(t) \/ AddTaskRecheck(t) \/ GroupNotify(t)
    BY <1>0, <2>1, <2>3
    DEF AddTaskCheck, AddTaskCount, AddTaskRecheck, GroupNotify
  <2>. QED  BY <1>3, <2>1, <2>2, <2>3 DEF AddTaskStep, LeaveStep
<1>4. ASSUME \/ GroupCall \/ \E g \in Groups : CloseNotify(g)
             \/ \E y \in GroupWaiters : GroupWaitStep(y)
      PROVE  /\ UNCHANGED member
             /\ \A g \in Groups : closed[g] # "open" => closed'[g] # "open"
  BY <1>0, <1>4
  DEF GroupCall, CloseStore, GroupWaitCall, CloseNotify, GroupWaitStep,
      GroupWaitCheck, GroupPark
<1>. QED  BY <1>0, <1>1, <1>2, <1>3, <1>4 DEF GroupNext

\* A submission that gives back its slot has a reason for it, and the workers
\* are joined after shutdown.
LEMMA ExecInvStep ==
    ASSUME Inv, DrainInv, ExecInv, [Next]_vars
    PROVE  ExecInv'
<1>. DEFINE Reason(t, s) ==
       /\ s = "unreserve" => \/ shutdown'
                             \/ GroupOf[t] \in Groups /\ closed'[GroupOf[t]] # "open"
       /\ s = "rollback" => shutdown'
<1>0. push \in [Tasks -> PushStates] /\ (shutdown => shutdown')
  <2>1. shutdown => shutdown'
    BY WorkersKeepPush
    DEF Next, PushCall, PushStep, ReserveRead, ReserveSlot, PushRecheck,
        PushGroup, PushLastCheck, ReleaseSlot, GroupRollback, Publish,
        RecordSubmission, WakeOneCheck, WakeOneNotify, WaitCall, WaitCheck,
        WaitPark, ShutdownStore, ShutdownNotify, Destroy, OwnerStep, Created,
        SpawnFails, OwnerStore, OwnerNotify, OwnerJoin, GroupClient, vars,
        sharedVars
  <2>. QED  BY <2>1 DEF Inv, TypeOK
<1>1. SUFFICES /\ \A t \in Tasks : Reason(t, push'[t])
               /\ owner' \in {"notify", "join", "freed"} => shutdown'
  BY ClosedGroups DEF ExecInv
<1>2. \A t \in Tasks : Reason(t, push[t])
  BY <1>0, ClosedGroups DEF ExecInv
<1>3. owner \in {"notify", "join", "freed"} => shutdown  BY DEF ExecInv
<1>. HIDE DEF Reason
<1>4. ASSUME NEW t \in Tasks, PushCall(t) \/ PushStep(t)
      PROVE  UNCHANGED <<owner, shutdown>> /\ \A u \in Tasks : Reason(u, push'[u])
  <2>1. UNCHANGED <<owner, shutdown>>
    BY <1>4
    DEF PushCall, PushStep, ReserveRead, ReserveSlot,
        PushRecheck, PushGroup, PushLastCheck, ReleaseSlot, GroupRollback,
        Publish, RecordSubmission, WakeOneCheck, WakeOneNotify, clientVars,
        sharedVars
  <2>. SUFFICES \A u \in Tasks : Reason(u, push'[u])  BY <2>1
  <2>2. ASSUME NEW s, PushTo(t, s), Reason(t, s)
        PROVE  \A u \in Tasks : Reason(u, push'[u])
    BY <1>0, <1>2, <2>2 DEF PushTo
  <2>3. ASSUME NEW s, s \notin {"unreserve", "rollback"} PROVE Reason(t, s)
    BY <2>3 DEF Reason
  <2>4. CASE PushGroup(t)
    <3>1. CASE member'[t] = "refused"
      <4>1. GroupOf[t] \in Groups /\ closed'[GroupOf[t]] # "open"
        <5>1. GroupOf[t] \in Groups
          BY <2>4, SubmissionsAssumption
          DEF PushGroup, AddTaskStep, AddTaskCheck, AddTaskCount,
              AddTaskRecheck, SubmissionsAssumption, Inv, GroupInv, Grouped
        <5>2. /\ member \in [Tasks -> MemberStates]
              /\ member[t] \in {"undo", "undo_notify"} => closed[GroupOf[t]] # "open"
          BY DEF Inv, GroupInv, GroupTypeOK, ExecInv
        <5>3. UNCHANGED closed
          BY <2>4
          DEF PushGroup, AddTaskStep, AddTaskCheck, AddTaskCount,
              AddTaskRecheck, GroupTaskCompleted, GroupNotify
        <5>4. CASE AddTaskCheck(t)
          BY <3>1, <5>1, <5>2, <5>3, <5>4 DEF AddTaskCheck
        <5>5. CASE AddTaskCount(t) \/ AddTaskRecheck(t)
          BY <3>1, <5>2, <5>5 DEF AddTaskCount, AddTaskRecheck
        <5>. QED
          BY <2>4, <5>1, <5>2, <5>3, <5>4, <5>5 DEF PushGroup, AddTaskStep
      <4>2. Reason(t, "unreserve")  BY <4>1 DEF Reason
      <4>3. PushTo(t, "unreserve")  BY <2>4, <3>1 DEF PushGroup
      <4>. QED  BY <2>2, <4>2, <4>3
    <3>2. CASE member'[t] # "refused"
      <4>1. PushTo(t, "last_check") \/ PushTo(t, "group")
        BY <2>4, <3>2 DEF PushGroup
      <4>. QED  BY <2>2, <2>3, <4>1
    <3>. QED  BY <3>1, <3>2
  <2>5. CASE PushRecheck(t) \/ PushLastCheck(t)
    <3>1. CASE shutdown
      <4>1. \E s : PushTo(t, s)  BY <2>5 DEF PushRecheck, PushLastCheck
      <4>2. \A s : Reason(t, s)  BY <1>0, <3>1 DEF Reason
      <4>. QED  BY <2>2, <4>1, <4>2
    <3>2. CASE ~shutdown
      <4>1. PushTo(t, "last_check") \/ PushTo(t, "group") \/ PushTo(t, "publish")
        BY <2>5, <3>2 DEF PushRecheck, PushLastCheck
      <4>. QED  BY <2>2, <2>3, <4>1
    <3>. QED  BY <3>1, <3>2
  <2>6. CASE PushCall(t) \/ ReserveRead(t) \/ ReserveSlot(t)
    <3>1. \E s \in {"stopped", "reserve", "full", "cas", "recheck"} : PushTo(t, s)
      BY <2>6 DEF PushCall, ReserveRead, ReserveSlot
    <3>. QED  BY <2>2, <2>3, <3>1
  <2>7. CASE ReleaseSlot(t) \/ GroupRollback(t)
    <3>1. \E s \in {"group_rollback", "stopped"} : PushTo(t, s)
      BY <2>7 DEF ReleaseSlot, GroupRollback
    <3>. QED  BY <2>2, <2>3, <3>1
  <2>8. CASE Publish(t) \/ RecordSubmission(t) \/ WakeOneCheck(t) \/ WakeOneNotify(t)
    <3>1. \E s \in {"record", "wake", "notify", "ok"} : PushTo(t, s)
      BY <2>8 DEF Publish, RecordSubmission, WakeOneCheck, WakeOneNotify
    <3>. QED  BY <2>2, <2>3, <3>1
  <2>. QED
    BY <1>4, <2>1, <2>4, <2>5, <2>6, <2>7, <2>8 DEF PushStep
<1>5. ASSUME NEW w \in Workers, Spawn(w) \/ WorkerStep(w)
      PROVE  UNCHANGED <<owner, push>>
  <2>1. UNCHANGED owner
    BY <1>5
    DEF Spawn, WorkerStep, Lookup, LookupDone, LookupEmpty, Exit, GoOn, Lock,
        PublishSleeping, Park, Resume, Execute, RecordCompletion,
        TaskCompleted, NotifyIdle, LeaveGroup, clientVars
  <2>. QED  BY <1>5, <2>1, WorkersKeepPush
<1>6. ASSUME \/ \E x \in Waiters : WaitCall(x) \/ WaitCheck(x) \/ WaitPark(x)
             \/ ShutdownStore \/ ShutdownNotify \/ GroupClient \/ UNCHANGED vars
      PROVE  UNCHANGED <<owner, push>>
  <2>1. UNCHANGED owner
    BY <1>6
    DEF WaitCall, WaitCheck, WaitPark, ShutdownStore, ShutdownNotify,
        GroupClient, vars, clientVars
  <2>. QED  BY <1>6, <2>1, ClientsKeepPush
<1>7. ASSUME Destroy \/ OwnerStep
      PROVE  UNCHANGED push /\ (owner' \in {"notify", "join", "freed"} => shutdown')
  <2>1. owner' \in {"notify", "join", "freed"} => shutdown'
    BY <1>0, <1>3, <1>7
    DEF Destroy, OwnerStep, Created, SpawnFails, OwnerStore, OwnerNotify,
        OwnerJoin, OwnerTo
  <2>. QED  BY <1>7, <2>1, ClientsKeepPush
<1>. QED  BY <1>0, <1>2, <1>3, <1>4, <1>5, <1>6, <1>7 DEF Next

LEMMA ExecSafe == Spec => []ExecInv
<1>1. Init => ExecInv  BY DEF Init, GroupInit, ExecInv
<1>. QED  BY <1>1, ExecInvStep, SchedulerSafe, DrainSafe, PTL DEF Spec

-----------------------------------------------------------------------------
\* No accepted task is lost, and what fills the executor's capacity are the
\* slots in use.
LEMMA HeldAreSlots ==
    ASSUME Inv
    PROVE  Exec!Held = Slots /\ \A t \in Tasks : Life(t) # "lost"
<1>0. AcceptedExactlyOnce /\ HandsAgree /\ push \in [Tasks -> PushStates]
  BY DEF Inv, TypeOK
<1>1. ASSUME NEW t \in Tasks
      PROVE  /\ Life(t) # "lost"
             /\ Life(t) \in {"reserved", "accepted", "claimed"} <=> t \in Slots
  <2>1. CASE push[t] \in Published
    <3>1. t \in Waiting \cup InHand \cup executed
      BY <1>0, <2>1 DEF AcceptedExactlyOnce
    <3>2. t \in InHand \ InService => t \in executed
      BY <1>0 DEF HandsAgree, InHand, InService
    <3>3. t \notin HeldByPush
      BY <2>1 DEF HeldByPush, Holding, Admitted, Published
    <3>4. Life(t) = IF t \in Waiting THEN "accepted"
                    ELSE IF t \in InService THEN "claimed"
                    ELSE IF t \in executed THEN "done" ELSE "lost"
      BY <2>1 DEF Life, Published, Reserving, Holding, Admitted
    <3>. QED  BY <3>1, <3>2, <3>3, <3>4 DEF Slots
  <2>2. CASE push[t] \notin Published
    <3>1. t \in Slots <=> push[t] \in Holding
      BY <1>0, <2>2 DEF AcceptedExactlyOnce, Slots, HeldByPush, InService, InHand
    <3>2. Life(t) \in {"new", "full", "refused", "offered", "reserved"}
          /\ (Life(t) = "reserved" <=> push[t] \in Holding)
      BY <1>0, <2>2
      DEF Life, PushStates, Published, PushOver, Reserving, Holding, Admitted
    <3>. QED  BY <3>1, <3>2
  <2>. QED  BY <2>1, <2>2
<1>2. Slots \subseteq Tasks
  BY DEF Slots, HeldByPush, Waiting, Injected, InService
<1>. QED  BY <1>1, <1>2 DEF Exec!Held

\* A step that changes the life of no submission, and one that changes one.
LEMMA LifeKept ==
    ASSUME \A t \in Tasks : Life(t)' = Life(t),
           UNCHANGED <<shutdown, wait>>, (owner = "freed")' = (owner = "freed"),
           {g \in Groups : closed[g] # "open"}' = {g \in Groups : closed[g] # "open"}
    PROVE  UNCHANGED Exec!execVars
  BY DEF Exec!execVars

LEMMA LifeMoves ==
    ASSUME NEW t \in Tasks, NEW from, NEW to, Life(t) = from, Life(t)' = to,
           \A u \in Tasks \ {t} : Life(u)' = Life(u),
           UNCHANGED <<shutdown, wait, owner, closed>>
    PROVE  Exec!Move(t, from, to)
  BY DEF Exec!Move

\* Executor counts with its own instance of Cardinality.
LEMMA SameCardinality ==
    ASSUME NEW S
    PROVE  Exec!Cardinality(S) = Cardinality(S)
  BY DEF Cardinality, Exec!Cardinality

\* The executor is full exactly when the counter has reached the capacity.
LEMMA FullIsFull ==
    ASSUME Inv
    PROVE  Exec!Full <=> QueueCapacity # 0 /\ tasks_in_flight >= QueueCapacity
<1>1. Exec!Cardinality(Exec!Held) = tasks_in_flight
  BY HeldAreSlots, SameCardinality DEF Inv, Accounting
<1>. QED  BY <1>1 DEF Exec!Full

\* Where a published task is follows from where the slots are.
PublishedLife ==
    \A t \in Tasks : push[t] \in Published =>
        Life(t) = IF t \in Waiting THEN "accepted"
                  ELSE IF t \in Slots THEN "claimed" ELSE "done"

LEMMA LifeAndSlots == Inv => PublishedLife
<1>. SUFFICES ASSUME Inv, NEW t \in Tasks, push[t] \in Published
              PROVE  Life(t) = IF t \in Waiting THEN "accepted"
                               ELSE IF t \in Slots THEN "claimed" ELSE "done"
  BY DEF PublishedLife
<1>1. Life(t) = IF t \in Waiting THEN "accepted"
                ELSE IF t \in InService THEN "claimed"
                ELSE IF t \in executed THEN "done" ELSE "lost"
  BY DEF Life, Published, Reserving, Holding, Admitted
<1>2. t \in Slots <=> t \in Waiting \cup InService
  BY DEF Slots, HeldByPush, Holding, Admitted, Published
<1>. QED  BY <1>1, <1>2, HeldAreSlots

\* A step of a submission.
LEMMA PushExec ==
    ASSUME Inv, DrainInv, ExecInv, NEW t \in Tasks, PushCall(t) \/ PushStep(t)
    PROVE  Exec!ExecNext \/ UNCHANGED Exec!execVars
<1>0. /\ push \in [Tasks -> PushStates] /\ AcceptedExactlyOnce /\ PoolTypeOK
      /\ UNCHANGED <<owner, wpc>> /\ owner = "live"
  BY PushInLife DEF Inv, TypeOK, PoolInv, DrainInv
<1>1. UNCHANGED <<shutdown, wait, executed, closed>>
  <2>1. UNCHANGED <<shutdown, wait, executed>>
    BY DEF PushCall, PushStep, ReserveRead, ReserveSlot,
           PushRecheck, PushGroup, PushLastCheck, ReleaseSlot, GroupRollback,
           Publish, RecordSubmission, WakeOneCheck, WakeOneNotify, clientVars,
           sharedVars, workerVars
  <2>2. CASE PushGroup(t) \/ GroupRollback(t)
    BY <2>1, <2>2
    DEF PushGroup, GroupRollback, AddTaskStep, LeaveStep, AddTaskCheck,
        AddTaskCount, AddTaskRecheck, GroupTaskCompleted, GroupNotify
  <2>3. CASE ~(PushGroup(t) \/ GroupRollback(t))
    BY <2>1, <2>3
    DEF PushCall, PushStep, ReserveRead, ReserveSlot, PushRecheck,
        PushLastCheck, ReleaseSlot, Publish, RecordSubmission, WakeOneCheck,
        WakeOneNotify, groupVars
  <2>. QED  BY <2>2, <2>3
<1>. USE <1>0, <1>1
<1>2. CASE Publish(t)
  <2>1. /\ push[t] = "publish" /\ push' = [push EXCEPT ![t] = "record"]
        /\ injector' = [injector EXCEPT ![PriorityOf[t]] = @ \cup {t}]
        /\ UNCHANGED <<local, batch, current>>
    BY <1>2 DEF Publish, PushGlobal, PushTo
  <2>2. PriorityOf[t] \in Priorities
    BY SubmissionsAssumption DEF SubmissionsAssumption
  <2>3. Waiting' = Waiting \cup {t} /\ InService' = InService
    BY <2>1, <2>2 DEF Waiting, Injected, InService, PoolTypeOK
  <2>4. Life(t) = "reserved" /\ Life(t)' = "accepted"
    BY <2>1, <2>3 DEF Life, Reserving, Holding, Admitted, Published
  <2>5. \A u \in Tasks \ {t} : Life(u)' = Life(u)
    BY <2>1, <2>3 DEF Life
  <2>6. Exec!Move(t, "reserved", "accepted")  BY <2>4, <2>5, LifeMoves
  <2>. QED  BY <2>6 DEF Exec!ExecNext, Exec!Accept
<1>3. CASE ~Publish(t)
  <2>0. UNCHANGED poolVars  BY <1>3, OthersKeepHands
  <2>1. Waiting' = Waiting /\ InService' = InService
    BY <2>0 DEF Waiting, Injected, InService, poolVars
  <2>2. ASSUME NEW s, PushTo(t, s)
        PROVE  /\ push'[t] = s
               /\ \A u \in Tasks \ {t} : Life(u)' = Life(u)
    BY <2>1, <2>2 DEF PushTo, Life
  <2>3. ASSUME NEW s, PushTo(t, s), Life(t)' = Life(t)
        PROVE  UNCHANGED Exec!execVars
    BY <2>2, <2>3, LifeKept
  <2>4. ASSUME NEW s, PushTo(t, s), NEW from, NEW to,
               Life(t) = from, Life(t)' = to
        PROVE  Exec!Move(t, from, to)
    BY <2>2, <2>4, LifeMoves
  <2>. USE DEF Published, PushStates, Reserving, Holding, Admitted
  <2>5. CASE PushCall(t)
    <3>1. CASE shutdown
      <4>1. push[t] = "idle" /\ PushTo(t, "stopped")  BY <2>5, <3>1 DEF PushCall
      <4>2. Life(t) = "new" /\ Life(t)' = "refused"  BY <2>2, <4>1 DEF Life
      <4>3. Exec!Reject(t)
        <5>1. Exec!Move(t, "new", "refused")  BY <2>4, <4>1, <4>2
        <5>. QED  BY <3>1, <5>1 DEF Exec!Reject
      <4>. QED  BY <4>3 DEF Exec!ExecNext
    <3>2. CASE ~shutdown
      <4>1. push[t] = "idle" /\ PushTo(t, "reserve")  BY <2>5, <3>2 DEF PushCall
      <4>2. Life(t) = "new" /\ Life(t)' = "offered"  BY <2>2, <4>1 DEF Life
      <4>3. Exec!Offer(t)
        <5>1. Exec!Move(t, "new", "offered")  BY <2>4, <4>1, <4>2
        <5>. QED  BY <3>2, <5>1 DEF Exec!Offer
      <4>. QED  BY <4>3 DEF Exec!ExecNext
    <3>. QED  BY <3>1, <3>2
  <2>6. CASE ReserveRead(t)
    <3>1. push[t] \in {"reserve", "cas"} /\ QueueCapacity # 0
      BY <2>6 DEF ReserveRead
    <3>2. CASE tasks_in_flight >= QueueCapacity
      <4>1. PushTo(t, "full")  BY <2>6, <3>2 DEF ReserveRead
      <4>2. Life(t) = "offered" /\ Life(t)' = "full"
        BY <2>2, <3>1, <4>1 DEF Life
      <4>3. Exec!RefuseFull(t)
        <5>1. Exec!Move(t, "offered", "full")  BY <2>4, <4>1, <4>2
        <5>. QED  BY <3>1, <3>2, <5>1, FullIsFull DEF Exec!RefuseFull
      <4>. QED  BY <4>3 DEF Exec!ExecNext
    <3>3. CASE ~(tasks_in_flight >= QueueCapacity)
      <4>1. PushTo(t, "cas")  BY <2>6, <3>3 DEF ReserveRead
      <4>2. Life(t)' = Life(t)  BY <2>2, <3>1, <4>1 DEF Life
      <4>. QED  BY <2>3, <4>1, <4>2
    <3>. QED  BY <3>2, <3>3
  <2>7. CASE ReserveSlot(t)
    <3>1. push[t] \in {"reserve", "cas"} /\ PushTo(t, "recheck")
      BY <2>7 DEF ReserveSlot
    <3>2. ~Exec!Full
      <4>1. QueueCapacity # 0 => tasks_in_flight < QueueCapacity
        BY <2>7 DEF ReserveSlot, Inv, CasWithinCapacity
      <4>2. tasks_in_flight \in Nat /\ QueueCapacity \in Nat
        BY SchedulerAssumption DEF SchedulerAssumption, Inv, TypeOK
      <4>. QED  BY <4>1, <4>2, FullIsFull
    <3>3. Life(t) = "offered" /\ Life(t)' = "reserved"
      BY <2>2, <3>1 DEF Life
    <3>4. Exec!Move(t, "offered", "reserved")  BY <2>4, <3>1, <3>3
    <3>. QED  BY <3>2, <3>4 DEF Exec!ExecNext, Exec!Reserve
  <2>8. ASSUME push[t] \in Holding, NEW s \in Holding, PushTo(t, s)
        PROVE  UNCHANGED Exec!execVars
    <3>1. Life(t)' = Life(t)  BY <2>2, <2>8 DEF Life
    <3>. QED  BY <2>3, <2>8, <3>1
  <2>9. CASE PushRecheck(t) \/ PushLastCheck(t)
    <3>1. /\ push[t] \in {"recheck", "last_check"}
          /\ \E s \in {"unreserve", "last_check", "group", "rollback", "publish"} :
                PushTo(t, s)
      BY <2>9 DEF PushRecheck, PushLastCheck
    <3>. QED  BY <2>8, <3>1
  <2>10. CASE PushGroup(t)
    <3>1. \E s \in {"last_check", "unreserve", "group"} : PushTo(t, s)
      <4>1. CASE member'[t] = "member"  BY <2>10, <4>1 DEF PushGroup
      <4>2. CASE member'[t] = "refused"  BY <2>10, <4>2 DEF PushGroup
      <4>3. CASE member'[t] \notin {"member", "refused"}
        BY <2>10, <4>3 DEF PushGroup
      <4>. QED  BY <4>1, <4>2, <4>3
    <3>2. push[t] = "group"  BY <2>10 DEF PushGroup
    <3>. QED  BY <2>8, <3>1, <3>2
  <2>11. CASE ReleaseSlot(t)
    <3>1. push[t] \in {"unreserve", "rollback"}  BY <2>11 DEF ReleaseSlot
    <3>2. PICK s \in {"stopped", "group_rollback"} : PushTo(t, s)
      BY <2>11 DEF ReleaseSlot
    <3>3. Life(t) = "reserved" /\ Life(t)' = "refused"
      BY <2>2, <3>1, <3>2 DEF Life
    <3>4. shutdown \/ GroupOf[t] \in {g \in Groups : closed[g] # "open"}
      BY <3>1 DEF ExecInv
    <3>5. Exec!Move(t, "reserved", "refused")  BY <2>4, <3>2, <3>3
    <3>. QED  BY <3>4, <3>5 DEF Exec!ExecNext, Exec!GiveUp
  <2>12. CASE GroupRollback(t)
    <3>1. /\ push[t] = "group_rollback"
          /\ \E s \in {"stopped", "group_rollback"} : PushTo(t, s)
      BY <2>12 DEF GroupRollback
    <3>2. Life(t)' = Life(t)  BY <2>2, <3>1 DEF Life
    <3>. QED  BY <2>3, <3>1, <3>2
  <2>13. CASE RecordSubmission(t) \/ WakeOneCheck(t) \/ WakeOneNotify(t)
    <3>1. /\ push[t] \in {"record", "wake", "notify"}
          /\ \E s \in {"wake", "notify", "ok"} : PushTo(t, s)
      BY <2>13 DEF RecordSubmission, WakeOneCheck, WakeOneNotify
    <3>2. Life(t)' = Life(t)  BY <2>1, <2>2, <3>1 DEF Life
    <3>. QED  BY <2>3, <3>1, <3>2
  <2>. QED
    BY <1>3, <2>5, <2>6, <2>7, <2>9, <2>10, <2>11, <2>12, <2>13
    DEF PushStep
<1>. QED  BY <1>2, <1>3

\* A step of a worker: its lookup claims a task, and the task is finished when
\* its slot is given back.
LEMMA WorkerExec ==
    ASSUME Inv, NEW w \in Workers, Spawn(w) \/ WorkerStep(w)
    PROVE  Exec!ExecNext \/ UNCHANGED Exec!execVars
<1>0. PublishedLife /\ PublishedLife'
  <2>1. Inv'  BY NextInv DEF Next
  <2>2. Inv' => PublishedLife'  BY LifeAndSlots, PTL
  <2>. QED  BY <2>1, <2>2, LifeAndSlots
<1>1. UNCHANGED <<push, shutdown, wait, owner, closed>>
  <2>1. UNCHANGED <<wait, owner>>
    BY DEF Spawn, WorkerStep, Lookup, LookupDone, LookupEmpty, Exit, GoOn,
           Lock, PublishSleeping, Park, Resume, Execute, RecordCompletion,
           TaskCompleted, NotifyIdle, LeaveGroup, clientVars
  <2>2. CASE LeaveGroup(w)
    BY <2>1, <2>2, WorkersKeepPush
    DEF LeaveGroup, LeaveStep, GroupTaskCompleted, GroupNotify
  <2>3. CASE ~LeaveGroup(w)
    <3>1. UNCHANGED groupVars
      BY <2>3 DEF Spawn, WorkerStep, Lookup, LookupDone, LookupEmpty, Exit,
           GoOn, Lock, PublishSleeping, Park, Resume, Execute,
           RecordCompletion, TaskCompleted, NotifyIdle
    <3>. QED  BY <2>1, <3>1, WorkersKeepPush DEF groupVars
  <2>. QED  BY <2>2, <2>3
<1>2. /\ Waiting \subseteq Tasks /\ AcceptedExactlyOnce /\ NoDuplication
      /\ PoolInv /\ NoTask \notin Tasks
  BY SubmissionsAssumption
  DEF Waiting, Injected, Inv, PoolInv, SubmissionsAssumption
<1>3. ASSUME NEW t \in Tasks, push[t] \notin Published PROVE Life(t)' = Life(t)
  BY <1>1, <1>3 DEF Life, Inv, TypeOK, PushStates, PushOver, Published
<1>4. ASSUME Waiting' = Waiting, Slots' = Slots PROVE UNCHANGED Exec!execVars
  <2>1. \A t \in Tasks : Life(t)' = Life(t)
    BY <1>0, <1>1, <1>3, <1>4 DEF PublishedLife
  <2>. QED  BY <1>1, <2>1, LifeKept
<1>5. ASSUME ~Lookup(w) PROVE Waiting' = Waiting
  <2>1. UNCHANGED <<injector, local, batch>>
    BY <1>5
    DEF Spawn, WorkerStep, LookupDone, LookupEmpty, Exit, GoOn, Lock,
        PublishSleeping, Park, Resume, Execute, RecordCompletion,
        TaskCompleted, NotifyIdle, LeaveGroup, AfterAccounting, DropTask,
        PopReturn, poolVars
  <2>. QED  BY <2>1 DEF Waiting, Injected
<1>6. CASE TaskCompleted(w)
  <2>1. ~Lookup(w)  BY <1>6 DEF TaskCompleted, Lookup
  <2>2. PICK t \in Tasks : t = current[w]
    <3>1. current[w] # NoTask
      BY <1>6 DEF TaskCompleted, Inv, HandsAgree, BeforeDec
    <3>. QED  BY <3>1 DEF Inv, PoolInv, PoolTypeOK
  <2>3. t \in Slots /\ Slots' = Slots \ {t}
    <3>1. tasks_in_flight' # tasks_in_flight
      BY <1>6 DEF TaskCompleted, Inv, TypeOK
    <3>. QED  BY <2>2, <3>1, WorkerSlots
  <2>4. t \notin Waiting /\ push[t] \in Published
    BY <1>2, <2>2 DEF NoDuplication, AcceptedExactlyOnce, InHand
  <2>5. Life(t) = "claimed" /\ Life(t)' = "done"
    BY <1>0, <1>1, <1>5, <2>1, <2>3, <2>4 DEF PublishedLife
  <2>6. \A u \in Tasks \ {t} : Life(u)' = Life(u)
    BY <1>0, <1>1, <1>3, <1>5, <2>1, <2>3 DEF PublishedLife
  <2>7. Exec!Move(t, "claimed", "done")  BY <1>1, <2>5, <2>6, LifeMoves
  <2>. QED  BY <2>7 DEF Exec!ExecNext, Exec!Finish
<1>7. CASE ~TaskCompleted(w)
  <2>1. Slots' = Slots  BY <1>7, WorkerSlots
  <2>2. CASE ~Lookup(w)  BY <1>4, <1>5, <2>1, <2>2
  <2>3. CASE Lookup(w) /\ PopCall(w)
    <3>1. Waiting' = Waiting  BY <2>3 DEF PopCall, Waiting, Injected
    <3>. QED  BY <1>4, <2>1, <3>1
  <2>4. CASE Lookup(w) /\ PopStep(w)
    <3>1. /\ Waiting' \subseteq Waiting
          /\ Waiting \subseteq Waiting' \cup {current'[w]}
          /\ \/ current'[w] = current[w]
             \/ current[w] = NoTask /\ current'[w] \in Waiting \ Waiting'
      BY <1>2, <2>4, PopStepKeeps
    <3>2. CASE Waiting' = Waiting  BY <1>4, <2>1, <3>2
    <3>3. CASE Waiting' # Waiting
      <4>1. PICK t \in Tasks : t \in Waiting /\ Waiting' = Waiting \ {t}
        BY <1>2, <3>1, <3>3
      <4>2. push[t] \in Published /\ t \in Slots
        BY <1>2, <4>1 DEF AcceptedExactlyOnce, Slots
      <4>3. Life(t) = "accepted" /\ Life(t)' = "claimed"
        BY <1>0, <1>1, <2>1, <4>1, <4>2 DEF PublishedLife
      <4>4. \A u \in Tasks \ {t} : Life(u)' = Life(u)
        BY <1>0, <1>1, <1>3, <2>1, <4>1 DEF PublishedLife
      <4>5. Exec!Move(t, "accepted", "claimed")  BY <1>1, <4>3, <4>4, LifeMoves
      <4>. QED  BY <4>5 DEF Exec!ExecNext, Exec!Claim
    <3>. QED  BY <3>2, <3>3
  <2>. QED  BY <2>2, <2>3, <2>4 DEF Lookup
<1>. QED  BY <1>6, <1>7

\* A step of a waiter, the stopper, the owner or a user of a group.
LEMMA ClientExec ==
    ASSUME Inv, DrainInv, ExecInv,
           \/ \E x \in Waiters : WaitCall(x) \/ WaitCheck(x) \/ WaitPark(x)
           \/ ShutdownStore \/ ShutdownNotify \/ Destroy \/ OwnerStep \/ GroupClient
           \/ UNCHANGED vars
    PROVE  Exec!ExecNext \/ UNCHANGED Exec!execVars
<1>. DEFINE Back == {x \in Waiters : wait[x] = "returned"}
            Shut == {g \in Groups : closed[g] # "open"}
<1>0. /\ UNCHANGED <<poolVars, wpc, executed>>
      /\ wait \in [Waiters -> {"idle", "lock", "park", "parked", "returned"}]
      /\ closed \in [Groups -> {"open", "closing", "closed"}]
  BY OthersKeepHands DEF Inv, TypeOK, GroupTypeOK
<1>1. UNCHANGED push  BY ClientsKeepPush
<1>2. Waiting' = Waiting /\ InService' = InService
  BY <1>0 DEF Waiting, Injected, InService, poolVars
<1>3. \A t \in Tasks : Life(t)' = Life(t)  BY <1>0, <1>1, <1>2 DEF Life
<1>4. [t \in Tasks |-> Life(t)]' = [t \in Tasks |-> Life(t)]  BY <1>3
<1>. USE <1>0, <1>4
<1>5. ASSUME NEW x \in Waiters, WaitCheck(x), tasks_in_flight = 0
      PROVE  Exec!ExecNext
  <2>1. Exec!Held = {}  BY <1>5, IdleMeansDone, HeldAreSlots
  <2>2. /\ wait' = [wait EXCEPT ![x] = "returned"]
        /\ UNCHANGED <<shutdown, owner, closed>>
    BY <1>5 DEF WaitCheck, groupVars
  <2>3. Back' = Back \cup {x} /\ Shut' = Shut  BY <2>2
  <2>4. Exec!Return(x)  BY <2>1, <2>2, <2>3 DEF Exec!Return
  <2>. QED  BY <2>4 DEF Exec!ExecNext
<1>6. ASSUME NEW x \in Waiters,
             WaitCall(x) \/ (WaitCheck(x) /\ tasks_in_flight # 0) \/ WaitPark(x)
      PROVE  UNCHANGED Exec!execVars
  <2>1. UNCHANGED <<shutdown, owner, closed>>
    BY <1>6 DEF WaitCall, WaitCheck, WaitPark, sharedVars, groupVars
  <2>2. /\ wait[x] # "returned"
        /\ \E s \in {"lock", "park", "parked"} : wait' = [wait EXCEPT ![x] = s]
    BY <1>6 DEF WaitCall, WaitCheck, WaitPark
  <2>3. Back' = Back /\ Shut' = Shut  BY <2>1, <2>2
  <2>. QED  BY <2>1, <2>3 DEF Exec!execVars
<1>7. ASSUME ShutdownStore \/ OwnerStore PROVE Exec!ExecNext
  <2>1. /\ shutdown' = TRUE /\ UNCHANGED <<wait, closed>>
        /\ (owner = "freed")' = (owner = "freed")
    BY <1>7 DEF ShutdownStore, OwnerStore, OwnerTo, groupVars
  <2>2. Exec!Stop  BY <2>1 DEF Exec!Stop
  <2>. QED  BY <2>2 DEF Exec!ExecNext
<1>8. ASSUME OwnerJoin PROVE Exec!ExecNext
  <2>1. /\ owner = "join" /\ owner' = "freed" /\ UNCHANGED <<shutdown, wait, closed>>
        /\ \A w \in Workers : wpc[w] \in {"unspawned", "exited"}
    BY <1>8 DEF OwnerJoin, OwnerTo, sharedVars, groupVars
  <2>2. shutdown  BY <2>1 DEF ExecInv
  <2>3. \A t \in Tasks : push[t] \in {"idle", "ok", "stopped", "full"}
    BY <2>1 DEF DrainInv, OwnerAgrees, PushOver
  <2>4. \A t \in Tasks : push[t] \in Published => t \notin Slots
    <3>1. PICK w \in Workers : wpc[w] \in {"unspawned", "exited"}
      BY <2>1, SchedulerAssumption DEF SchedulerAssumption
    <3>2. CASE wpc[w] = "unspawned"
      BY <3>2 DEF DrainInv, OwnerAgrees, Published
    <3>3. CASE wpc[w] = "exited"
      BY <3>3 DEF Inv, Fenced, Published
    <3>. QED  BY <3>1, <3>2, <3>3
  <2>5. \A t \in Tasks : Life(t) \in {"new", "full", "refused", "done"}
    <3>1. \A t \in Tasks : push[t] \in Published => Life(t) = "done"
      BY <2>4, LifeAndSlots DEF PublishedLife, Slots
    <3>2. \A t \in Tasks : push[t] \notin Published =>
             Life(t) \in {"new", "full", "refused"}
      BY <2>3 DEF Life, Published, Reserving, Holding, Admitted
    <3>. QED  BY <3>1, <3>2
  <2>6. Exec!Close  BY <2>1, <2>2, <2>5 DEF Exec!Close
  <2>. QED  BY <2>6 DEF Exec!ExecNext
<1>9. ASSUME \/ ShutdownNotify \/ Destroy \/ Created \/ SpawnFails \/ OwnerNotify
             \/ UNCHANGED vars
      PROVE  UNCHANGED Exec!execVars
  <2>1. UNCHANGED <<shutdown, wait, closed>> /\ (owner = "freed")' = (owner = "freed")
    BY <1>9 DEF ShutdownNotify, Destroy, Created, SpawnFails, OwnerNotify,
                OwnerTo, vars, sharedVars, clientVars, groupVars
  <2>. QED  BY <1>3, <2>1, LifeKept
<1>10. ASSUME GroupClient PROVE Exec!ExecNext \/ UNCHANGED Exec!execVars
  <2>1. UNCHANGED <<shutdown, wait, owner>>
    BY <1>10 DEF GroupClient, sharedVars, clientVars
  <2>2. CASE \E g \in Groups : CloseStore(g)
    <3>1. PICK g \in Groups : CloseStore(g)  BY <2>2
    <3>2. Shut' = Shut \cup {g}  BY <3>1 DEF CloseStore
    <3>3. Exec!CloseGroup(g)  BY <2>1, <3>2 DEF Exec!CloseGroup
    <3>. QED  BY <3>3 DEF Exec!ExecNext
  <2>3. CASE ~\E g \in Groups : CloseStore(g)
    <3>1. Shut' = Shut
      BY <1>10, <2>3
      DEF GroupClient, GroupCall, GroupWaitCall, CloseNotify, GroupWaitStep,
          GroupWaitCheck, GroupPark
    <3>. QED  BY <1>3, <2>1, <3>1, LifeKept
  <2>. QED  BY <2>2, <2>3
<1>. QED  BY <1>5, <1>6, <1>7, <1>8, <1>9, <1>10 DEF OwnerStep

\* The scheduler is the executor its interface promises: whatever the
\* interleaving of reservations, roll-backs, steals and the accounting behind
\* a callback, QUEUE_FULL is answered only when the slots in use fill the
\* capacity, a slot is given back unused only for shutdown or a closed group;
\* an accepted task is claimed once and finished once; a wait returns when
\* nothing is under way or left to run; and destroy returns when every
\* submission is refused or done.
THEOREM SchedulerIsExecutor == Spec => ImplementsExecutor
<1>1. Init => Exec!ExecInit
  <2>. HAVE Init
  <2>1. \A t \in Tasks : Life(t) = "new"
    BY DEF Init, Life, Reserving, Holding, Admitted, Published
  <2>2. closed = [g \in Groups |-> "open"]  BY DEF Init, GroupInit
  <2>. QED  BY <2>1, <2>2 DEF Init, Exec!ExecInit
<1>2. Inv /\ DrainInv /\ ExecInv /\ [Next]_vars => [Exec!ExecNext]_(Exec!execVars)
  BY PushExec, WorkerExec, ClientExec DEF Next
<1>. QED
  BY <1>1, <1>2, SchedulerSafe, DrainSafe, ExecSafe, PTL
  DEF Spec, ImplementsExecutor, Exec!ExecSpec

=============================================================================
