-------------------------- MODULE InterfaceProofs --------------------------
(***************************************************************************)
(* The C interface is a client of the scheduler: what it adds (argument    *)
(* checks, result codes, handles, snapshots) takes no step that Scheduler  *)
(* does not allow, so every theorem about Scheduler holds of it.  And what *)
(* it adds is right: InterfaceInv, in three independent parts (references, *)
(* answers, statistics) on top of the scheduler's two invariants.          *)
(***************************************************************************)
EXTENDS Interface, DrainProofs

LEMMA GroupInterfaceStep == GroupInterface => Next
<1>. SUFFICES ASSUME GroupInterface PROVE GroupClient  BY DEF Next
<1>1. UNCHANGED <<sharedVars, statVars, pushVars, workerVars, clientVars, poolVars>>
  BY DEF GroupInterface
<1>2. \/ GroupCall \/ \E g \in Groups : CloseNotify(g)
      \/ \E x \in GroupWaiters : GroupWaitStep(x)
  BY DEF GroupInterface, HandleCall, GroupDestroy, GroupCall
<1>. QED  BY <1>1, <1>2 DEF GroupClient

LEMMA PushCallStep ==
    ASSUME NEW t \in Tasks, NEW a \in Arguments,
           \/ SchedPush(t, a) \/ SchedPushGroup(t, a)
           \/ SchedTryPush(t, a) \/ SchedTryPushGroup(t, a)
    PROVE  Next \/ UNCHANGED vars
<1>1. SchedPush(t, a) \/ SchedPushGroup(t, a)
  BY DEF SchedTryPush, SchedTryPushGroup
<1>2. Enter(t) \/ Refuse(t)  BY <1>1 DEF SchedPush, SchedPushGroup
<1>3. PushCall(t) \/ UNCHANGED vars  BY <1>2 DEF Enter, Refuse
<1>. QED  BY <1>3 DEF Next

LEMMA LifecycleStep == Lifecycle => Next
  BY DEF Lifecycle, Next

LEMMA InterfaceStep == [InterfaceNext]_allVars => [Next]_vars
<1>. SUFFICES ASSUME [InterfaceNext]_allVars PROVE Next \/ UNCHANGED vars
  OBVIOUS
<1>1. CASE UNCHANGED allVars  BY <1>1 DEF allVars
<1>2. CASE \E g \in Groups : GroupCreate(g)  BY <1>2 DEF GroupCreate
<1>3. CASE \E t \in Tasks : PushGoesOn(t)  BY <1>3 DEF PushGoesOn, Next
<1>4. CASE \E w \in Workers : WorkerGoesOn(w)  BY <1>4 DEF WorkerGoesOn, Next
<1>5. ASSUME NEW x \in Waiters,
             WaitReturns(x) \/ GetStatsCall(x) \/ Snapshot(x) \/ LoadOutstanding(x)
      PROVE  Next \/ UNCHANGED vars
  <2>1. CASE WaitReturns(x)  BY <2>1 DEF WaitReturns, Next
  <2>2. CASE GetStatsCall(x)  BY <2>2 DEF GetStatsCall
  <2>3. CASE Snapshot(x) \/ LoadOutstanding(x)
    BY <2>3 DEF Snapshot, LoadOutstanding, Load
  <2>. QED  BY <1>5, <2>1, <2>2, <2>3
<1>. QED
  BY <1>1, <1>2, <1>3, <1>4, <1>5, GroupInterfaceStep, PushCallStep, LifecycleStep
  DEF InterfaceNext

\* Seen through the C interface the scheduler is the scheduler of Scheduler.
THEOREM InterfaceIsScheduler == InterfaceSpec => Spec
<1>1. InterfaceInit => Init  BY DEF InterfaceInit
<1>. QED  BY <1>1, InterfaceStep, PTL DEF InterfaceSpec, Spec

\* Seen through the C interface, whatever arguments, handles and snapshots C
\* code uses, the scheduler is the executor the header promises.
THEOREM InterfaceIsExecutor == InterfaceSpec => ImplementsExecutor
  BY InterfaceIsScheduler, SchedulerIsExecutor

-----------------------------------------------------------------------------
(* References to groups *)

\* A step of push_internal is taken between the call and its return.
LEMMA PushAdvances ==
    ASSUME NEW t \in Tasks, PushStep(t)
    PROVE  /\ push[t] \notin {"idle"} \cup PushOver
           /\ \E s \in PushStates \ {"idle"} : PushTo(t, s)
<1>1. push[t] \notin {"idle"} \cup PushOver
  BY DEF PushStep, ReserveRead, ReserveSlot,
         PushRecheck, PushGroup, PushLastCheck, ReleaseSlot, GroupRollback,
         Publish, RecordSubmission, WakeOneCheck, WakeOneNotify, PushOver
<1>2. \E s \in PushStates \ {"idle"} : PushTo(t, s)
  <2>. USE DEF PushStates, Reserving, Holding, Admitted, Published, PushOver
  <2>1. CASE ReserveRead(t)  BY <2>1 DEF ReserveRead
  <2>2. CASE ReserveSlot(t)  BY <2>2 DEF ReserveSlot
  <2>3. CASE PushRecheck(t)  BY <2>3 DEF PushRecheck
  <2>4. CASE PushGroup(t)
    <3>1. CASE member'[t] = "member"  BY <2>4, <3>1 DEF PushGroup
    <3>2. CASE member'[t] = "refused"  BY <2>4, <3>2 DEF PushGroup
    <3>3. CASE member'[t] \notin {"member", "refused"}
      BY <2>4, <3>3 DEF PushGroup
    <3>. QED  BY <3>1, <3>2, <3>3
  <2>5. CASE PushLastCheck(t)  BY <2>5 DEF PushLastCheck
  <2>6. CASE ReleaseSlot(t)  BY <2>6 DEF ReleaseSlot
  <2>7. CASE GroupRollback(t)  BY <2>7 DEF GroupRollback
  <2>8. CASE Publish(t)  BY <2>8 DEF Publish
  <2>9. CASE RecordSubmission(t)  BY <2>9 DEF RecordSubmission
  <2>10. CASE WakeOneCheck(t)  BY <2>10 DEF WakeOneCheck
  <2>11. CASE WakeOneNotify(t)  BY <2>11 DEF WakeOneNotify
  <2>. QED
    BY <2>1, <2>2, <2>3, <2>4, <2>5, <2>6, <2>7, <2>8, <2>9, <2>10,
       <2>11 DEF PushStep
<1>. QED  BY <1>1, <1>2

\* A task gives its reference up when its submission is refused, and then only.
LEMMA PushHolders ==
    ASSUME Inv, NEW t \in Tasks, PushStep(t), NEW g \in Groups
    PROVE  IF push'[t] \in PushOver \ {"ok"} /\ GroupOf[t] = g
           THEN t \in Holders(g) /\ Holders(g)' = Holders(g) \ {t}
           ELSE Holders(g)' = Holders(g)
<1>0. /\ push \in [Tasks -> PushStates] /\ AcceptedExactlyOnce /\ PoolTypeOK
  BY DEF Inv, TypeOK
<1>1. PICK s \in PushStates \ {"idle"} : PushTo(t, s)  BY PushAdvances
<1>2. push[t] \notin {"idle"} \cup PushOver  BY PushAdvances
<1>3. /\ \A u \in Tasks \ {t} : push'[u] = push[u]
      /\ push'[t] = s
  BY <1>0, <1>1 DEF PushTo
<1>4. CASE Publish(t)
  <2>1. push[t] = "publish" /\ s = "record"
    BY <1>0, <1>1, <1>4 DEF Publish, PushTo
  <2>2. Waiting' = Waiting \cup {t} /\ InHand' = InHand
    BY <1>0, <1>4, SubmissionsAssumption
    DEF Publish, PushGlobal, Waiting, Injected, InHand, PoolTypeOK,
        SubmissionsAssumption
  <2>3. \A u \in Tasks : u \in Holders(g)' <=> u \in Holders(g)
    <3>1. ASSUME NEW u \in Tasks, u # t PROVE u \in Holders(g)' <=> u \in Holders(g)
      BY <1>3, <2>2, <3>1 DEF Holders
    <3>2. t \in Holders(g)' <=> t \in Holders(g)
      BY <1>3, <2>1, <2>2 DEF Holders, PushOver, Published
    <3>. QED  BY <3>1, <3>2
  <2>4. Holders(g) \subseteq Tasks /\ Holders(g)' \subseteq Tasks  BY DEF Holders
  <2>. QED  BY <1>3, <2>1, <2>3, <2>4 DEF PushOver
<1>5. CASE ~Publish(t)
  <2>1. UNCHANGED poolVars  BY <1>5, OthersKeepHands
  <2>2. Waiting' = Waiting /\ InHand' = InHand
    BY <2>1 DEF poolVars, Waiting, Injected, InHand
  <2>3. s \in Published <=> push[t] \in Published
    BY <1>0, <1>3, <1>5, PushEffect DEF PushTo
  <2>4. push[t] \notin Published => t \notin Waiting \cup InHand
    BY <1>0 DEF AcceptedExactlyOnce
  <2>5. \A u \in Tasks \ {t} : u \in Holders(g)' <=> u \in Holders(g)
    BY <1>3, <2>2 DEF Holders
  <2>6. t \in Holders(g)' <=>
           t \in Holders(g) /\ ~(s \in PushOver \ {"ok"} /\ GroupOf[t] = g)
    BY <1>2, <1>3, <2>2, <2>3, <2>4 DEF Holders, PushOver, Published
  <2>7. s \in PushOver \ {"ok"} /\ GroupOf[t] = g => t \in Holders(g)
    BY <1>2, <2>3 DEF Holders, PushOver, Published
  <2>8. Holders(g) \subseteq Tasks /\ Holders(g)' \subseteq Tasks  BY DEF Holders
  <2>9. CASE s \in PushOver \ {"ok"} /\ GroupOf[t] = g
    BY <1>3, <2>5, <2>6, <2>7, <2>8, <2>9
  <2>10. CASE ~(s \in PushOver \ {"ok"} /\ GroupOf[t] = g)
    BY <1>3, <2>5, <2>6, <2>8, <2>10
  <2>. QED  BY <2>9, <2>10
<1>. QED  BY <1>4, <1>5

\* A call that gets into push_internal makes its task a holder.
LEMMA EnterHolders ==
    ASSUME Inv, NEW t \in Tasks, PushCall(t), NEW g \in Groups
    PROVE  IF push'[t] \notin PushOver /\ GroupOf[t] = g
           THEN t \notin Holders(g) /\ Holders(g)' = Holders(g) \cup {t}
           ELSE Holders(g)' = Holders(g)
<1>0. push \in [Tasks -> PushStates] /\ AcceptedExactlyOnce
  BY DEF Inv, TypeOK
<1>1. /\ push[t] = "idle" /\ push'[t] \in {"stopped", "reserve"}
      /\ \A u \in Tasks \ {t} : push'[u] = push[u]
      /\ UNCHANGED poolVars
  BY <1>0 DEF PushCall, PushTo
<1>2. Waiting' = Waiting /\ InHand' = InHand
  BY <1>1 DEF poolVars, Waiting, Injected, InHand
<1>3. t \notin Waiting \cup InHand
  BY <1>0, <1>1 DEF AcceptedExactlyOnce, Published
<1>4. Holders(g) \subseteq Tasks /\ Holders(g)' \subseteq Tasks  BY DEF Holders
<1>5. \A u \in Tasks \ {t} : u \in Holders(g)' <=> u \in Holders(g)
  BY <1>1, <1>2 DEF Holders
<1>6. /\ t \notin Holders(g)
      /\ t \in Holders(g)' <=> push'[t] \notin PushOver /\ GroupOf[t] = g
  BY <1>1, <1>2, <1>3 DEF Holders, PushOver, Published
<1>. QED  BY <1>4, <1>5, <1>6

\* A worker's step takes away one holder at most: the task it drops.
LEMMA WorkerHolders ==
    ASSUME Inv, NEW w \in Workers, Spawn(w) \/ WorkerStep(w), NEW g \in Groups
    PROVE  IF current[w] # NoTask /\ current'[w] = NoTask /\ GroupOf[current[w]] = g
           THEN current[w] \in Holders(g) /\ Holders(g)' = Holders(g) \ {current[w]}
           ELSE Holders(g)' = Holders(g)
<1>0. push \in [Tasks -> PushStates] /\ AcceptedExactlyOnce /\ UNCHANGED push
      /\ InHand \subseteq Tasks
  BY WorkersKeepPush DEF Inv, TypeOK, InHand
<1>1. CASE current[w] # NoTask /\ current'[w] = NoTask
  <2>1. /\ current[w] \in InHand
        /\ (Waiting \cup InHand)' = (Waiting \cup InHand) \ {current[w]}
    BY <1>1, WorkerHolds
  <2>2. push[current[w]] \in Published
    BY <1>0, <2>1 DEF AcceptedExactlyOnce
  <2>3. CASE GroupOf[current[w]] = g
    BY <1>0, <1>1, <2>1, <2>2, <2>3 DEF Holders
  <2>4. CASE GroupOf[current[w]] # g
    BY <1>0, <1>1, <2>1, <2>2, <2>4 DEF Holders
  <2>. QED  BY <2>3, <2>4
<1>2. CASE ~(current[w] # NoTask /\ current'[w] = NoTask)
  <2>1. (Waiting \cup InHand)' = Waiting \cup InHand
    BY <1>2, WorkerHolds
  <2>. QED  BY <1>0, <1>2, <2>1 DEF Holders
<1>. QED  BY <1>1, <1>2

\* All other steps leave the holders alone.
LEMMA ClientHolders ==
    ASSUME Inv,
           \/ \E x \in Waiters : WaitCall(x) \/ WaitCheck(x) \/ WaitPark(x)
           \/ ShutdownStore \/ ShutdownNotify \/ Destroy \/ OwnerStep \/ GroupClient
           \/ UNCHANGED vars,
           NEW g \in Groups
    PROVE  Holders(g)' = Holders(g)
<1>1. UNCHANGED <<poolVars, push>>  BY OthersKeepHands, ClientsKeepPush
<1>. QED  BY <1>1 DEF poolVars, Holders, Waiting, Injected, InHand

LEMMA HoldersFinite ==
    ASSUME NEW g \in Groups
    PROVE  IsFiniteSet(Holders(g)) /\ Cardinality(Holders(g)) \in Nat
  BY TaskSetsFinite DEF Holders

\* A reference gained with a holder, next to the handle's.
LEMMA RefGained ==
    ASSUME NEW g \in Groups, NEW t, refs[g] \in Nat, RefExact(g), refs[g] > 0,
           closed[g] # "closed", closed'[g] = closed[g], refs'[g] = refs[g] + 1,
           t \notin Holders(g), Holders(g)' = Holders(g) \cup {t}
    PROVE  refs'[g] \in Nat /\ RefExact(g)' /\ refs'[g] > 0
<1>1. Cardinality(Holders(g)') = Cardinality(Holders(g)) + 1
  BY HoldersFinite, FS_AddElement
<1>. QED  BY <1>1, HoldersFinite DEF RefExact

\* A reference dropped with a holder; the handle's is another one.
LEMMA RefDropped ==
    ASSUME NEW g \in Groups, NEW t, refs[g] \in Nat, RefExact(g),
           closed'[g] = closed[g], refs'[g] = refs[g] - 1,
           t \in Holders(g), Holders(g)' = Holders(g) \ {t}
    PROVE  /\ refs'[g] \in Nat /\ RefExact(g)'
           /\ closed[g] # "closed" => refs'[g] > 0
<1>1. Cardinality(Holders(g)') = Cardinality(Holders(g)) - 1
  BY HoldersFinite, FS_RemoveElement
<1>2. Cardinality(Holders(g)) > 0
  BY HoldersFinite, FS_EmptySet
<1>3. CASE closed[g] = "closed"  BY <1>1, <1>2, <1>3, HoldersFinite DEF RefExact
<1>4. CASE closed[g] # "closed"  BY <1>1, <1>2, <1>4, HoldersFinite DEF RefExact
<1>. QED  BY <1>3, <1>4

\* Submissions and workers neither close groups nor move their waiters.
LEMMA OthersKeepHandles ==
    ASSUME \/ \E t \in Tasks : PushCall(t) \/ PushStep(t)
           \/ \E w \in Workers : Spawn(w) \/ WorkerStep(w)
           \/ \E x \in Waiters : WaitCall(x) \/ WaitCheck(x) \/ WaitPark(x)
           \/ ShutdownStore \/ ShutdownNotify \/ Destroy \/ OwnerStep
           \/ UNCHANGED vars
    PROVE  UNCHANGED <<closed, gwait>>
<1>. USE DEF groupVars
<1>1. ASSUME NEW t \in Tasks, PushCall(t) \/ PushStep(t)
      PROVE  UNCHANGED <<closed, gwait>>
  BY <1>1
  DEF PushCall, PushStep, ReserveRead, ReserveSlot,
      PushRecheck, PushGroup, PushLastCheck, ReleaseSlot, GroupRollback,
      Publish, RecordSubmission, WakeOneCheck, WakeOneNotify, AddTaskStep,
      AddTaskCheck, AddTaskCount, AddTaskRecheck, LeaveStep,
      GroupTaskCompleted, GroupNotify
<1>2. ASSUME NEW w \in Workers, Spawn(w) \/ WorkerStep(w)
      PROVE  UNCHANGED <<closed, gwait>>
  BY <1>2
  DEF Spawn, WorkerStep, Lookup, LookupDone, LookupEmpty, Exit, GoOn, Lock,
      PublishSleeping, Park, Resume, Execute, RecordCompletion,
      TaskCompleted, NotifyIdle, LeaveGroup, LeaveStep, GroupTaskCompleted,
      GroupNotify
<1>3. ASSUME \/ \E x \in Waiters : WaitCall(x) \/ WaitCheck(x) \/ WaitPark(x)
             \/ ShutdownStore \/ ShutdownNotify \/ Destroy \/ OwnerStep
             \/ UNCHANGED vars
      PROVE  UNCHANGED <<closed, gwait>>
  BY <1>3
  DEF WaitCall, WaitCheck, WaitPark, ShutdownStore, ShutdownNotify, Destroy,
      OwnerStep, Created, SpawnFails, OwnerStore, OwnerNotify, OwnerJoin,
      OwnerTo, vars
<1>. QED  BY <1>1, <1>2, <1>3

\* The counts of references stay exact, and a handle in use keeps its own.
LEMMA RefsStep ==
    ASSUME Inv, RefsInv, [InterfaceNext]_allVars
    PROVE  RefsInv'
<1>0. /\ refs \in [Groups -> Nat] /\ RefsExact /\ HandlesAgree
      /\ closed \in [Groups -> {"open", "closing", "closed"}]
      /\ gwait \in [GroupWaiters -> {"idle", "lock", "park", "parked", "returned"}]
      /\ WaitsFor \in [GroupWaiters -> Groups]
      /\ \A t \in Tasks : GroupOf[t] # NoGroup => GroupOf[t] \in Groups
      /\ NoGroup \notin Groups
  BY SubmissionsAssumption, GroupAssumption
  DEF RefsInv, Inv, TypeOK, GroupTypeOK, SubmissionsAssumption, GroupAssumption
<1>. USE <1>0
\* Nothing happens to references and holders.
<1>1. ASSUME UNCHANGED <<refs, closed, gwait>>,
             \A g \in Groups : Holders(g)' = Holders(g)
      PROVE  RefsInv'
  BY <1>1 DEF RefsInv, RefsExact, RefExact, HandlesAgree
\* One task drops its reference.
<1>2. ASSUME UNCHANGED <<closed, gwait>>, NEW t \in Tasks, DropRef(t),
             \A g \in Groups :
                IF GroupOf[t] = g
                THEN t \in Holders(g) /\ Holders(g)' = Holders(g) \ {t}
                ELSE Holders(g)' = Holders(g)
      PROVE  RefsInv'
  <2>1. ASSUME NEW g \in Groups
        PROVE  /\ refs'[g] \in Nat /\ RefExact(g)'
               /\ refs[g] > 0 /\ closed[g] # "closed" => refs'[g] > 0
    <3>1. CASE GroupOf[t] = g
      <4>1. refs'[g] = refs[g] - 1  BY <1>2, <3>1 DEF DropRef
      <4>. QED  BY <1>2, <3>1, <4>1, RefDropped DEF RefsExact
    <3>2. CASE GroupOf[t] # g
      <4>1. refs'[g] = refs[g]  BY <1>2, <3>2 DEF DropRef
      <4>. QED  BY <1>2, <3>2, <4>1 DEF RefsExact, RefExact
    <3>. QED  BY <3>1, <3>2
  <2>2. refs' \in [Groups -> Nat]  BY <1>2, <2>1 DEF DropRef
  <2>. QED  BY <1>2, <2>1, <2>2 DEF RefsInv, RefsExact, HandlesAgree
<1>3. ASSUME NEW t \in Tasks, NEW a \in Arguments,
             SchedPush(t, a) \/ SchedPushGroup(t, a)
      PROVE  RefsInv'
  <2>1. CASE Refuse(t)
    BY <1>1, <2>1, ClientHolders, OthersKeepHandles DEF Refuse
  <2>2. CASE Enter(t) /\ GroupOf[t] = NoGroup
    <3>1. PushCall(t) /\ UNCHANGED refs
      BY <1>3, <2>2 DEF Enter, SchedPush, SchedPushGroup, Refuse
    <3>2. \A g \in Groups : Holders(g)' = Holders(g)
      BY <2>2, <3>1, EnterHolders
    <3>. QED  BY <1>1, <3>1, <3>2, OthersKeepHandles
  <2>3. CASE Enter(t) /\ GroupOf[t] # NoGroup /\ ~Refuse(t)
    <3>1. /\ PushCall(t) /\ refs[GroupOf[t]] > 0
          /\ IF push'[t] \in PushOver THEN UNCHANGED refs ELSE GainRef(t)
      BY <1>3, <2>3 DEF Enter, SchedPush, SchedPushGroup
    <3>2. UNCHANGED <<closed, gwait>>  BY <3>1, OthersKeepHandles
    <3>3. closed[GroupOf[t]] = "open"  BY <2>3, <3>1 DEF PushCall
    <3>4. CASE push'[t] \in PushOver
      <4>1. \A g \in Groups : Holders(g)' = Holders(g)
        BY <3>1, <3>4, EnterHolders
      <4>. QED  BY <1>1, <3>1, <3>2, <3>4, <4>1
    <3>5. CASE push'[t] \notin PushOver
      <4>1. GainRef(t)  BY <3>1, <3>5
      <4>2. ASSUME NEW g \in Groups
            PROVE  /\ refs'[g] \in Nat /\ RefExact(g)'
                   /\ refs[g] > 0 => refs'[g] > 0
        <5>1. CASE GroupOf[t] = g
          <6>1. refs'[g] = refs[g] + 1  BY <4>1, <5>1 DEF GainRef
          <6>2. t \notin Holders(g) /\ Holders(g)' = Holders(g) \cup {t}
            BY <3>1, <3>5, <5>1, EnterHolders
          <6>. QED
            BY <3>1, <3>2, <3>3, <5>1, <6>1, <6>2, RefGained DEF RefsExact
        <5>2. CASE GroupOf[t] # g
          <6>1. refs'[g] = refs[g]  BY <4>1, <5>2 DEF GainRef
          <6>2. Holders(g)' = Holders(g)  BY <3>1, <5>2, EnterHolders
          <6>. QED  BY <3>2, <6>1, <6>2 DEF RefsExact, RefExact
        <5>. QED  BY <5>1, <5>2
      <4>3. refs' \in [Groups -> Nat]  BY <4>1, <4>2 DEF GainRef
      <4>. QED  BY <3>2, <4>2, <4>3 DEF RefsInv, RefsExact, HandlesAgree
    <3>. QED  BY <3>4, <3>5
  <2>. QED  BY <1>3, <2>1, <2>2, <2>3 DEF SchedPush, SchedPushGroup
<1>4. ASSUME NEW t \in Tasks, PushGoesOn(t) PROVE RefsInv'
  <2>1. PushStep(t) /\ UNCHANGED <<closed, gwait>>
    BY <1>4, OthersKeepHandles DEF PushGoesOn
  <2>2. CASE push'[t] \in PushOver \ {"ok"}
    <3>1. DropRef(t)  BY <1>4, <2>2 DEF PushGoesOn
    <3>2. \A g \in Groups :
             IF GroupOf[t] = g
             THEN t \in Holders(g) /\ Holders(g)' = Holders(g) \ {t}
             ELSE Holders(g)' = Holders(g)
      BY <2>1, <2>2, PushHolders
    <3>. QED  BY <1>2, <2>1, <3>1, <3>2
  <2>3. CASE push'[t] \notin PushOver \ {"ok"}
    <3>1. UNCHANGED refs  BY <1>4, <2>3 DEF PushGoesOn
    <3>2. \A g \in Groups : Holders(g)' = Holders(g)
      BY <2>1, <2>3, PushHolders
    <3>. QED  BY <1>1, <2>1, <3>1, <3>2
  <2>. QED  BY <2>2, <2>3
<1>5. ASSUME NEW w \in Workers, WorkerGoesOn(w) PROVE RefsInv'
  <2>1. WorkerStep(w) /\ UNCHANGED <<closed, gwait>>
    BY <1>5, OthersKeepHandles DEF WorkerGoesOn
  <2>2. CASE current[w] # NoTask /\ current'[w] = NoTask
    <3>1. current[w] \in Tasks
      BY <2>2 DEF Inv, PoolInv, PoolTypeOK
    <3>2. PICK t \in Tasks : t = current[w]  BY <3>1
    <3>3. DropRef(t)  BY <1>5, <2>2, <3>2 DEF WorkerGoesOn
    <3>4. \A g \in Groups :
             IF GroupOf[t] = g
             THEN t \in Holders(g) /\ Holders(g)' = Holders(g) \ {t}
             ELSE Holders(g)' = Holders(g)
      BY <2>1, <2>2, <3>2, WorkerHolders
    <3>. QED  BY <1>2, <2>1, <3>3, <3>4
  <2>3. CASE ~(current[w] # NoTask /\ current'[w] = NoTask)
    <3>1. UNCHANGED refs  BY <1>5, <2>3 DEF WorkerGoesOn
    <3>2. \A g \in Groups : Holders(g)' = Holders(g)
      BY <2>1, <2>3, WorkerHolders
    <3>. QED  BY <1>1, <2>1, <3>1, <3>2
  <2>. QED  BY <2>2, <2>3
<1>6. ASSUME \/ UNCHANGED allVars
             \/ Lifecycle
             \/ \E x \in Waiters : \/ WaitReturns(x) \/ GetStatsCall(x)
                                   \/ Snapshot(x) \/ LoadOutstanding(x)
      PROVE  RefsInv'
  <2>1. UNCHANGED refs
    BY <1>6 DEF allVars, interfaceVars, Lifecycle, WaitReturns, GetStatsCall,
                Snapshot, LoadOutstanding, Load
  <2>2. \/ \E x \in Waiters : WaitCall(x) \/ WaitCheck(x) \/ WaitPark(x)
        \/ ShutdownStore \/ ShutdownNotify \/ Destroy \/ OwnerStep
        \/ UNCHANGED vars
        \/ \E w \in Workers : Spawn(w)
    BY <1>6 DEF allVars, Lifecycle, WaitReturns, GetStatsCall,
                Snapshot, LoadOutstanding, Load
  <2>3. UNCHANGED <<closed, gwait>>  BY <2>2, OthersKeepHandles
  <2>4. CASE \E w \in Workers : Spawn(w)
    <3>1. \A g \in Groups : Holders(g)' = Holders(g)
      BY <2>4, WorkersKeepPush
      DEF Spawn, poolVars, Holders, Waiting, Injected, InHand
    <3>. QED  BY <1>1, <2>1, <2>3, <3>1
  <2>5. CASE ~\E w \in Workers : Spawn(w)
    <3>1. \A g \in Groups : Holders(g)' = Holders(g)
      BY <2>2, <2>5, ClientHolders
    <3>. QED  BY <1>1, <2>1, <2>3, <3>1
  <2>. QED  BY <2>4, <2>5
<1>7. ASSUME GroupInterface PROVE RefsInv'
  <2>1. GroupClient
    BY <1>7 DEF GroupInterface, HandleCall, GroupDestroy, GroupCall, GroupClient
  <2>2. \A g \in Groups : Holders(g)' = Holders(g)  BY <2>1, ClientHolders
  <2>3. ASSUME NEW y \in GroupWaiters, refs[WaitsFor[y]] > 0, GroupWaitCall(y),
               UNCHANGED refs
        PROVE  RefsInv'
    BY <2>2, <2>3 DEF GroupWaitCall, RefsInv, RefsExact, RefExact, HandlesAgree
  <2>4. ASSUME NEW g \in Groups, refs[g] > 0, CloseStore(g), UNCHANGED refs
        PROVE  RefsInv'
    BY <2>2, <2>4 DEF CloseStore, RefsInv, RefsExact, RefExact, HandlesAgree
  <2>5. ASSUME NEW y \in GroupWaiters, GroupWaitStep(y), UNCHANGED refs
        PROVE  RefsInv'
    BY <2>2, <2>5
    DEF GroupWaitStep, GroupWaitCheck, GroupPark, RefsInv, RefsExact, RefExact,
        HandlesAgree
  <2>6. ASSUME NEW g \in Groups, GroupDestroy(g) PROVE RefsInv'
    <3>1. /\ closed[g] = "closing" /\ closed' = [closed EXCEPT ![g] = "closed"]
          /\ refs' = [refs EXCEPT ![g] = @ - 1] /\ UNCHANGED gwait
      BY <2>6 DEF GroupDestroy, CloseNotify
    <3>2. refs[g] > 0  BY <3>1 DEF HandlesAgree
    <3>3. refs'[g] \in Nat /\ refs'[g] = Cardinality(Holders(g))
      BY <3>1, <3>2, HoldersFinite DEF RefsExact, RefExact
    <3>4. \A h \in Groups : RefExact(h)'
      BY <2>2, <3>1, <3>3 DEF RefsExact, RefExact
    <3>. QED  BY <3>1, <3>3, <3>4 DEF RefsInv, RefsExact, HandlesAgree
  <2>. QED  BY <1>7, <2>3, <2>4, <2>5, <2>6 DEF GroupInterface, HandleCall
<1>8. ASSUME NEW g \in Groups, GroupCreate(g) PROVE RefsInv'
  <2>1. /\ closed[g] = "open" /\ refs[g] = 0 /\ UNCHANGED vars
        /\ refs' = [refs EXCEPT ![g] = 1]
    BY <1>8 DEF GroupCreate
  <2>2. \A h \in Groups : Holders(h)' = Holders(h)  BY <2>1, ClientHolders
  <2>3. UNCHANGED <<closed, gwait>>  BY <2>1, OthersKeepHandles
  <2>4. Cardinality(Holders(g)) = 0  BY <2>1, HoldersFinite DEF RefsExact, RefExact
  <2>5. RefExact(g)'  BY <2>1, <2>2, <2>3, <2>4 DEF RefExact
  <2>6. \A h \in Groups \ {g} : RefExact(h)'
    BY <2>1, <2>2, <2>3 DEF RefsExact, RefExact
  <2>. QED  BY <2>1, <2>3, <2>5, <2>6 DEF RefsInv, RefsExact, HandlesAgree
<1>. QED
  BY <1>3, <1>4, <1>5, <1>6, <1>7, <1>8
  DEF InterfaceNext, SchedTryPush, SchedTryPushGroup

-----------------------------------------------------------------------------
(* Answers *)

LEMMA Answers ==
    /\ Answer("ok") = "Ok"
    /\ Answer("stopped") = "SchedulerStopped"
    /\ Answer("full") = "QueueFull"
<1>1. Answer("ok") = "Ok"  BY DEF Answer
<1>2. Answer("stopped") = "SchedulerStopped"  BY DEF Answer
<1>3. Answer("full") = "QueueFull"  BY DEF Answer
<1>. QED  BY <1>1, <1>2, <1>3

\* Steps other than those of the push functions change neither submissions nor
\* answers.
LEMMA OthersKeepAnswers ==
    ASSUME [InterfaceNext]_allVars
    PROVE  \/ \E t \in Tasks : Enter(t) \/ Refuse(t) \/ PushGoesOn(t)
           \/ UNCHANGED <<push, result>>
<1>1. CASE UNCHANGED allVars
  BY <1>1 DEF allVars, interfaceVars, vars, pushVars
<1>2. CASE \E g \in Groups : GroupCreate(g)
  BY <1>2 DEF GroupCreate, vars, pushVars
<1>3. CASE GroupInterface  BY <1>3 DEF GroupInterface, pushVars
<1>4. CASE \E w \in Workers : WorkerGoesOn(w)
  BY <1>4, WorkersKeepPush DEF WorkerGoesOn
<1>5. CASE \E x \in Waiters : \/ WaitReturns(x) \/ GetStatsCall(x)
                              \/ Snapshot(x) \/ LoadOutstanding(x)
  BY <1>5, ClientsKeepPush
  DEF WaitReturns, GetStatsCall, Snapshot, LoadOutstanding, Load, vars, pushVars
<1>6. CASE Lifecycle
  BY <1>6, ClientsKeepPush, WorkersKeepPush DEF Lifecycle, interfaceVars
<1>7. ASSUME NEW t \in Tasks, NEW a \in Arguments,
             SchedPush(t, a) \/ SchedPushGroup(t, a)
      PROVE  Enter(t) \/ Refuse(t)
  BY <1>7 DEF SchedPush, SchedPushGroup
<1>. QED
  BY <1>1, <1>2, <1>3, <1>4, <1>5, <1>6, <1>7
  DEF InterfaceNext, SchedTryPush, SchedTryPushGroup

LEMMA AnswersStep ==
    ASSUME Inv, AnswersInv, [InterfaceNext]_allVars
    PROVE  AnswersInv'
<1>0. /\ push \in [Tasks -> PushStates] /\ result \in [Tasks -> Codes \cup {"none"}]
      /\ AnswersAgree
  BY DEF AnswersInv, Inv, TypeOK
<1>1. \A s \in PushOver : Answer(s) \in Codes
  BY Answers DEF PushOver, Codes
<1>2. ASSUME NEW t \in Tasks, NEW s \in PushStates, NEW r \in Codes \cup {"none"},
             push' = [push EXCEPT ![t] = s], result' = [result EXCEPT ![t] = r],
             s \in PushOver => r = Answer(s),
             s = "idle" => r \in {"none", "InvalidArgument"},
             s \notin {"idle"} \cup PushOver => r = "none"
      PROVE  AnswersInv'
  BY <1>0, <1>2 DEF AnswersInv, AnswersAgree
<1>3. ASSUME NEW t \in Tasks, Enter(t) PROVE AnswersInv'
  <2>1. PICK s \in PushStates \ {"idle"} : push' = [push EXCEPT ![t] = s]
    BY <1>3 DEF Enter, PushCall, PushTo, PushStates, Reserving, PushOver
  <2>. DEFINE r == IF s \in PushOver THEN Answer(s) ELSE "none"
  <2>2. result' = [result EXCEPT ![t] = r]
    BY <1>0, <1>3, <2>1 DEF Enter
  <2>3. r \in Codes \cup {"none"}  BY <1>1
  <2>. QED  BY <1>2, <2>1, <2>2, <2>3
<1>4. ASSUME NEW t \in Tasks, Refuse(t) PROVE AnswersInv'
  <2>1. /\ push[t] = "idle" /\ UNCHANGED push
        /\ result' = [result EXCEPT ![t] = "InvalidArgument"]
    BY <1>4 DEF Refuse, vars, pushVars
  <2>. QED  BY <1>0, <2>1 DEF AnswersInv, AnswersAgree, Codes, PushOver
<1>5. ASSUME NEW t \in Tasks, PushGoesOn(t) PROVE AnswersInv'
  <2>1. PICK s \in PushStates \ {"idle"} : PushTo(t, s)
    BY <1>5, PushAdvances DEF PushGoesOn
  <2>. DEFINE r == IF s \in PushOver THEN Answer(s) ELSE result[t]
  <2>2. push' = [push EXCEPT ![t] = s] /\ push'[t] = s
    BY <1>0, <2>1 DEF PushTo
  <2>3. result' = [result EXCEPT ![t] = r]
    BY <1>0, <1>5, <2>2 DEF PushGoesOn
  <2>4. result[t] = "none"
    BY <1>0, <1>5, PushAdvances DEF PushGoesOn, AnswersAgree
  <2>5. r \in Codes \cup {"none"}  BY <1>1, <2>4
  <2>. QED  BY <1>2, <2>2, <2>3, <2>4, <2>5
<1>6. CASE UNCHANGED <<push, result>>
  BY <1>0, <1>6 DEF AnswersInv, AnswersAgree
<1>. QED  BY <1>3, <1>4, <1>5, <1>6, OthersKeepAnswers

-----------------------------------------------------------------------------
(* Statistics *)

\* A task that has run and been counted stays so.
LEMMA FinishedGrows ==
    ASSUME Inv, [Next]_vars
    PROVE  Finished \subseteq Finished'
<1>0. /\ HandsAgree /\ AcceptedExactlyOnce /\ PoolTypeOK
      /\ wpc \in [Workers -> WorkerStates] /\ site \in [Workers -> Sites]
      /\ NoTask \notin Tasks /\ executed \in SUBSET Tasks
  BY SubmissionsAssumption DEF Inv, TypeOK, SubmissionsAssumption
<1>. USE <1>0
<1>1. ASSUME NEW w \in Workers, Spawn(w) \/ WorkerStep(w)
      PROVE  Finished \subseteq Finished'
  <2>1. \A v \in Workers \ {w} : current'[v] = current[v] /\ wpc'[v] = wpc[v]
    BY <1>1, WorkerHolds
  <2>2. CASE Execute(w)
    <3>1. /\ wpc[w] = "run" /\ executed' = executed \cup {current[w]}
          /\ UNCHANGED current
      BY <2>2 DEF Execute, poolVars
    <3>2. current[w] \in Tasks  BY <3>1 DEF HandsAgree, BeforeDec, PoolTypeOK
    <3>3. current[w] \notin executed
      BY <3>1, <3>2 DEF AcceptedExactlyOnce, AfterDec
    <3>. QED  BY <2>1, <3>1, <3>3 DEF Finished
  <2>3. CASE ~Execute(w)
    <3>1. UNCHANGED executed
      BY <1>1, <2>3
      DEF Spawn, WorkerStep, Lookup, LookupDone, LookupEmpty, Exit, GoOn, Lock,
          PublishSleeping, Park, Resume, RecordCompletion, TaskCompleted,
          NotifyIdle, LeaveGroup, workerVars
    <3>2. wpc'[w] # "complete"
      BY <1>1, <2>3
      DEF Spawn, WorkerStep, Lookup, LookupDone, LookupEmpty, Exit, GoOn, Lock,
          PublishSleeping, Park, Resume, RecordCompletion, TaskCompleted,
          NotifyIdle, LeaveGroup, AfterAccounting, WorkerTo, workerVars, Sites
    <3>. QED  BY <2>1, <3>1, <3>2 DEF Finished
  <2>. QED  BY <2>2, <2>3
<1>2. CASE ~\E w \in Workers : Spawn(w) \/ WorkerStep(w)
  <2>1. UNCHANGED <<current, wpc, executed>>
    <3>1. CASE \E t \in Tasks : Publish(t)
      BY <3>1 DEF Publish, PushGlobal, workerVars
    <3>2. CASE ~\E t \in Tasks : Publish(t)
      BY <1>2, <3>2, OthersKeepHands DEF Next, poolVars
    <3>. QED  BY <3>1, <3>2
  <2>. QED  BY <2>1 DEF Finished
<1>. QED  BY <1>1, <1>2

\* Without a submission an idle scheduler stays idle and its counters stay.
LEMMA IdleStays ==
    ASSUME Inv, DrainInv, Inv', DrainInv', [Next]_vars, NoPush,
           tasks_in_flight = 0, UNCHANGED push
    PROVE  UNCHANGED <<tasks_in_flight, submitted, completed, queue_full>>
<1>1. UNCHANGED tasks_in_flight
  <2>1. ASSUME NEW t \in Tasks, PushCall(t) \/ PushStep(t) PROVE FALSE
    <3>1. ~PushStep(t)  BY PushAdvances DEF NoPush
    <3>2. push' = [push EXCEPT ![t] = IF shutdown THEN "stopped" ELSE "reserve"]
          /\ push[t] = "idle"
      BY <2>1, <3>1 DEF PushCall, PushTo
    <3>3. push \in [Tasks -> PushStates]  BY DEF Inv, TypeOK
    <3>. QED  BY <3>2, <3>3
  <2>2. ASSUME NEW w \in Workers, Spawn(w) \/ WorkerStep(w)
        PROVE  UNCHANGED tasks_in_flight
    BY <2>2, WorkerSlots, IdleMeansDone
  <2>. QED  BY <2>1, <2>2, ClientsKeepPush DEF Next
<1>2. /\ submitted = Cardinality(Recorded) /\ submitted' = Cardinality(Recorded')
      /\ queue_full = Cardinality({t \in Tasks : push[t] = "full"})
      /\ queue_full' = Cardinality({t \in Tasks : push'[t] = "full"})
  BY DEF DrainInv, StatsExact
<1>3. Recorded' = Recorded  BY DEF Recorded
<1>4. submitted = completed
  BY CountsSettle DEF StatsSettle, NoPush
<1>5. submitted' = completed'
  <2>1. StatsSettle'  BY CountsSettle, PTL
  <2>. QED  BY <1>1, <2>1 DEF StatsSettle, NoPush
<1>. QED  BY <1>1, <1>2, <1>3, <1>4, <1>5

\* What a client has read stays true while it does not read.
LEMMA SnapshotFrame ==
    ASSUME Inv, DrainInv, Inv', DrainInv', [Next]_vars, SnapshotInv,
           NEW x \in Waiters,
           wait'[x] = wait[x], expect'[x] = expect[x], reader'[x] = reader[x],
           snap'[x] = snap[x], settled'[x] => settled[x] /\ UNCHANGED push
    PROVE  SnapshotAgrees(x)'
<1>1. SnapshotAgrees(x)  BY DEF SnapshotInv
<1>2. Finished \subseteq Finished'  BY FinishedGrows
<1>3. CASE settled'[x]
  <2>1. settled[x] /\ UNCHANGED push  BY <1>3
  <2>2. NoPush /\ tasks_in_flight = 0  BY <1>1, <2>1 DEF SnapshotAgrees
  <2>3. UNCHANGED <<tasks_in_flight, submitted, completed, queue_full>>
    BY <2>1, <2>2, IdleStays
  <2>4. NoPush'  BY <2>1, <2>2 DEF NoPush
  <2>. QED  BY <1>1, <1>2, <1>3, <2>1, <2>2, <2>3, <2>4 DEF SnapshotAgrees
<1>4. CASE ~settled'[x]  BY <1>1, <1>2, <1>4 DEF SnapshotAgrees
<1>. QED  BY <1>3, <1>4

\* A load, while the scheduler does nothing.
LEMMA SnapshotLoads ==
    ASSUME Inv, DrainInv, SnapshotInv, NEW x \in Waiters,
           Snapshot(x) \/ LoadOutstanding(x)
    PROVE  SnapshotInv'
<1>0. /\ reader \in [Waiters -> Loads \cup {"idle", "done"}]
      /\ snap \in [Waiters -> [Loads -> Nat]] /\ settled \in [Waiters -> BOOLEAN]
      /\ \A y \in Waiters : SnapshotAgrees(y)
      /\ submitted \in Nat /\ completed \in Nat /\ queue_full \in Nat
      /\ tasks_in_flight \in Nat
  BY DEF SnapshotInv, Inv, TypeOK
<1>1. /\ UNCHANGED <<wait, expect, settled, push, submitted, completed, queue_full,
                     tasks_in_flight, executed, current, wpc>>
  BY DEF Snapshot, LoadOutstanding, Load, vars, clientVars, pushVars, statVars,
         sharedVars, workerVars, poolVars
<1>2. Finished' = Finished /\ (NoPush' <=> NoPush)
  BY <1>1 DEF Finished, NoPush
<1>3. wait[x] = "returned" => Cardinality(expect[x]) <= completed
  <2>1. ASSUME wait[x] = "returned" PROVE expect[x] \in SUBSET Finished
    BY <1>0, <2>1 DEF SnapshotAgrees
  <2>2. IsFiniteSet(Finished)  BY TaskSetsFinite DEF Finished, Inv, TypeOK
  <2>3. completed = Cardinality(Finished)  BY DEF DrainInv, StatsExact
  <2>. QED  BY <2>1, <2>2, <2>3, FS_Subset
<1>. USE <1>0, <1>1, <1>2 DEF Loads
<1>4. ASSUME NEW c \in Loads, NEW v \in Nat, NEW n \in Loads \cup {"done"},
             Load(x, c, v, n)
      PROVE  /\ reader[x] = c /\ reader'[x] = n
             /\ snap'[x][c] = v /\ \A d \in Loads \ {c} : snap'[x][d] = snap[x][d]
             /\ \A y \in Waiters \ {x} :
                   reader'[y] = reader[y] /\ snap'[y] = snap[y]
             /\ reader' \in [Waiters -> Loads \cup {"idle", "done"}]
             /\ snap' \in [Waiters -> [Loads -> Nat]]
  BY <1>4 DEF Load
<1>5. ASSUME SnapshotAgrees(x)',
             \A y \in Waiters \ {x} : reader'[y] = reader[y] /\ snap'[y] = snap[y],
             reader' \in [Waiters -> Loads \cup {"idle", "done"}],
             snap' \in [Waiters -> [Loads -> Nat]]
      PROVE  SnapshotInv'
  <2>1. ASSUME NEW y \in Waiters, y # x PROVE SnapshotAgrees(y)'
    BY <1>5, <2>1 DEF SnapshotAgrees
  <2>. QED  BY <1>5, <2>1 DEF SnapshotInv
<1>6. CASE Load(x, "submitted", submitted, "completed")
  <2>1. SnapshotAgrees(x)'  BY <1>4, <1>6 DEF SnapshotAgrees
  <2>. QED  BY <1>4, <1>5, <1>6, <2>1
<1>7. CASE Load(x, "completed", completed, "rejected_full")
  <2>1. SnapshotAgrees(x)'  BY <1>3, <1>4, <1>7 DEF SnapshotAgrees
  <2>. QED  BY <1>4, <1>5, <1>7, <2>1
<1>8. CASE Load(x, "rejected_full", queue_full, "outstanding")
  <2>1. SnapshotAgrees(x)'  BY <1>4, <1>8 DEF SnapshotAgrees
  <2>. QED  BY <1>4, <1>5, <1>8, <2>1
<1>9. CASE Load(x, "outstanding", tasks_in_flight, "done")
  <2>1. SnapshotAgrees(x)'  BY <1>4, <1>9 DEF SnapshotAgrees
  <2>. QED  BY <1>4, <1>5, <1>9, <2>1
<1>. QED  BY <1>6, <1>7, <1>8, <1>9 DEF Snapshot, LoadOutstanding

LEMMA SnapshotStep ==
    ASSUME Inv, DrainInv, Inv', DrainInv', SnapshotInv, [InterfaceNext]_allVars
    PROVE  SnapshotInv'
<1>0. /\ reader \in [Waiters -> Loads \cup {"idle", "done"}]
      /\ snap \in [Waiters -> [Loads -> Nat]] /\ settled \in [Waiters -> BOOLEAN]
      /\ \A x \in Waiters : SnapshotAgrees(x)
      /\ wait \in [Waiters -> {"idle", "lock", "park", "parked", "returned"}]
      /\ expect \in [Waiters -> SUBSET Tasks]
      /\ push \in [Tasks -> PushStates]
      /\ [Next]_vars
  BY InterfaceStep DEF SnapshotInv, Inv, TypeOK
<1>. USE <1>0
\* Nobody reads or waits.
<1>1. ASSUME UNCHANGED <<wait, expect, reader, snap>>,
             settled' \in [Waiters -> BOOLEAN],
             \A x \in Waiters : settled'[x] => settled[x] /\ UNCHANGED push
      PROVE  SnapshotInv'
  BY <1>1, SnapshotFrame DEF SnapshotInv
<1>2. ASSUME NEW t \in Tasks, Enter(t) PROVE SnapshotInv'
  BY <1>1, <1>2 DEF Enter, PushCall, clientVars
<1>3. ASSUME NEW t \in Tasks, PushGoesOn(t) PROVE SnapshotInv'
  <2>1. UNCHANGED <<wait, expect, reader, snap, settled>>
    BY <1>3
    DEF PushGoesOn, PushStep, ReserveRead, ReserveSlot,
        PushRecheck, PushGroup, PushLastCheck, ReleaseSlot, GroupRollback,
        Publish, RecordSubmission, WakeOneCheck, WakeOneNotify, clientVars
  <2>2. \A x \in Waiters : ~settled[x]
    BY <1>3, PushAdvances DEF PushGoesOn, SnapshotAgrees, NoPush
  <2>. QED  BY <1>1, <2>1, <2>2
<1>4. ASSUME \/ UNCHANGED allVars \/ GroupInterface
             \/ \E g \in Groups : GroupCreate(g)
             \/ \E t \in Tasks : Refuse(t)
      PROVE  SnapshotInv'
  <2>1. UNCHANGED <<wait, expect, reader, snap, settled, push>>
    BY <1>4
    DEF allVars, interfaceVars, vars, clientVars, pushVars, GroupInterface,
        GroupCreate, Refuse
  <2>. QED  BY <1>1, <2>1
<1>5. ASSUME NEW w \in Workers,
             WorkerGoesOn(w) \/ (Spawn(w) /\ UNCHANGED interfaceVars)
      PROVE  SnapshotInv'
  <2>1. UNCHANGED <<wait, expect, reader, snap, settled>>
    BY <1>5
    DEF WorkerGoesOn, Spawn, WorkerStep, Lookup, LookupDone, LookupEmpty, Exit,
        GoOn, Lock, PublishSleeping, Park, Resume, Execute, RecordCompletion,
        TaskCompleted, NotifyIdle, LeaveGroup, clientVars, interfaceVars
  <2>2. UNCHANGED push  BY <1>5, WorkersKeepPush DEF WorkerGoesOn
  <2>. QED  BY <1>1, <2>1, <2>2
<1>6. ASSUME Destroy \/ OwnerStep \/ ShutdownStore \/ ShutdownNotify,
             UNCHANGED interfaceVars
      PROVE  SnapshotInv'
  <2>1. UNCHANGED <<wait, expect, reader, snap, settled, push>>
    BY <1>6
    DEF Destroy, OwnerStep, Created, SpawnFails, OwnerStore, OwnerNotify,
        OwnerJoin, OwnerTo, ShutdownStore, ShutdownNotify, clientVars,
        interfaceVars, pushVars
  <2>. QED  BY <1>1, <2>1
\* One client waits or asks; the others are as they were.
<1>7. ASSUME NEW x \in Waiters, SnapshotAgrees(x)', UNCHANGED push,
             \A y \in Waiters \ {x} :
                /\ wait'[y] = wait[y] /\ expect'[y] = expect[y]
                /\ reader'[y] = reader[y] /\ settled'[y] = settled[y],
             UNCHANGED snap,
             reader' \in [Waiters -> Loads \cup {"idle", "done"}],
             settled' \in [Waiters -> BOOLEAN]
      PROVE  SnapshotInv'
  <2>1. ASSUME NEW y \in Waiters, y # x PROVE SnapshotAgrees(y)'
    BY <1>7, <2>1, SnapshotFrame
  <2>. QED  BY <1>7, <2>1 DEF SnapshotInv
<1>8. ASSUME NEW x \in Waiters, WaitCall(x) \/ WaitPark(x), UNCHANGED interfaceVars
      PROVE  SnapshotInv'
  <2>1. /\ wait[x] # "returned" /\ wait'[x] # "returned"
        /\ UNCHANGED <<push, reader, snap, settled>>
        /\ \A y \in Waiters \ {x} : wait'[y] = wait[y] /\ expect'[y] = expect[y]
    BY <1>8 DEF WaitCall, WaitPark, interfaceVars, pushVars
  <2>2. SnapshotAgrees(x)'  BY <2>1 DEF SnapshotAgrees
  <2>. QED  BY <1>7, <2>1, <2>2
<1>9. ASSUME NEW x \in Waiters, WaitReturns(x) PROVE SnapshotInv'
  <2>1. /\ wait[x] \in {"lock", "parked"} /\ UNCHANGED <<push, expect, reader, snap>>
        /\ UNCHANGED tasks_in_flight
        /\ wait'[x] = "returned" => tasks_in_flight = 0
        /\ \A y \in Waiters \ {x} : wait'[y] = wait[y] /\ settled'[y] = settled[y]
        /\ settled'[x] <=> NoPush /\ wait'[x] = "returned"
        /\ settled' \in [Waiters -> BOOLEAN]
    BY <1>9 DEF WaitReturns, WaitCheck, pushVars
  <2>2. reader[x] = "idle"  BY <2>1 DEF SnapshotAgrees
  <2>3. wait'[x] = "returned" => expect'[x] \subseteq Finished'
    <3>1. ASSUME wait'[x] = "returned" PROVE expect'[x] \subseteq Finished'
      <4>1. expect'[x] \subseteq executed'  BY <3>1 DEF Inv, WaitSound
      <4>2. tasks_in_flight = 0  BY <2>1, <3>1
      <4>3. Slots = {}  BY <4>2, IdleMeansDone
      <4>4. UNCHANGED <<executed, current, wpc>>
        BY <1>9 DEF WaitReturns, WaitCheck, workerVars, poolVars
      <4>5. Finished = executed
        BY <4>3 DEF Inv, TypeOK, Slots, InService, Finished, AfterDec
      <4>6. Finished' = Finished  BY <4>4 DEF Finished
      <4>. QED  BY <4>1, <4>4, <4>5, <4>6
    <3>. QED  BY <3>1
  <2>4. NoPush' <=> NoPush  BY <2>1 DEF NoPush
  <2>5. SnapshotAgrees(x)'  BY <2>1, <2>2, <2>3, <2>4 DEF SnapshotAgrees
  <2>. QED  BY <1>7, <2>1, <2>5
<1>10. ASSUME NEW x \in Waiters, GetStatsCall(x) PROVE SnapshotInv'
  <2>1. /\ wait[x] = "returned" /\ reader' = [reader EXCEPT ![x] = "submitted"]
        /\ UNCHANGED <<wait, expect, snap, settled, push, tasks_in_flight,
                       executed, current, wpc>>
    BY <1>10 DEF GetStatsCall, vars, clientVars, pushVars, sharedVars,
                 workerVars, poolVars
  <2>2. Finished' = Finished /\ (NoPush' <=> NoPush)  BY <2>1 DEF Finished, NoPush
  <2>3. SnapshotAgrees(x)'  BY <2>1, <2>2 DEF SnapshotAgrees
  <2>4. reader' \in [Waiters -> Loads \cup {"idle", "done"}]  BY <2>1 DEF Loads
  <2>. QED  BY <1>7, <2>1, <2>3, <2>4
<1>11. CASE \E x \in Waiters : Snapshot(x) \/ LoadOutstanding(x)
  BY <1>11, SnapshotLoads
<1>12. CASE Lifecycle  BY <1>5, <1>6, <1>8, <1>12 DEF Lifecycle
<1>13. ASSUME NEW t \in Tasks, NEW a \in Arguments,
              SchedPush(t, a) \/ SchedPushGroup(t, a)
       PROVE  SnapshotInv'
  BY <1>2, <1>4, <1>13 DEF SchedPush, SchedPushGroup
<1>14. CASE \E t \in Tasks, a \in Arguments :
               \/ SchedPush(t, a) \/ SchedPushGroup(t, a)
               \/ SchedTryPush(t, a) \/ SchedTryPushGroup(t, a)
  BY <1>13, <1>14 DEF SchedTryPush, SchedTryPushGroup
<1>15. CASE UNCHANGED allVars \/ GroupInterface \/ \E g \in Groups : GroupCreate(g)
  BY <1>4, <1>15
<1>16. CASE \E w \in Workers : WorkerGoesOn(w)  BY <1>5, <1>16
<1>17. CASE \E x \in Waiters : \/ WaitReturns(x)
                               \/ GetStatsCall(x) \/ Snapshot(x) \/ LoadOutstanding(x)
  BY <1>9, <1>10, <1>11, <1>17
<1>18. CASE \E t \in Tasks : PushGoesOn(t)  BY <1>3, <1>18
<1>. QED  BY <1>12, <1>14, <1>15, <1>16, <1>17, <1>18 DEF InterfaceNext

-----------------------------------------------------------------------------
LEMMA InitInterface == InterfaceInit => InterfaceInv
<1>. SUFFICES ASSUME InterfaceInit PROVE InterfaceInv  OBVIOUS
<1>. USE DEF InterfaceInit, Init
<1>1. ASSUME NEW g \in Groups PROVE Holders(g) = {}
  BY SubmissionsAssumption
  DEF PoolInit, Holders, Waiting, Injected, InHand, SubmissionsAssumption
<1>2. RefsInv
  <2>1. refs \in [Groups -> Nat] /\ HandlesAgree  BY DEF GroupInit, HandlesAgree
  <2>2. ASSUME NEW g \in Groups PROVE RefExact(g)
    <3>1. refs[g] = 0 /\ Cardinality(Holders(g)) = 0  BY <1>1, FS_EmptySet
    <3>. QED  BY <3>1 DEF RefExact
  <2>. QED  BY <2>1, <2>2 DEF RefsInv, RefsExact
<1>3. AnswersInv  BY DEF AnswersInv, AnswersAgree, Codes, PushOver
<1>4. SnapshotInv  BY DEF SnapshotInv, SnapshotAgrees, Loads
<1>. QED  BY <1>2, <1>3, <1>4 DEF InterfaceInv

\* In every behaviour of the C interface its invariant holds, on top of the
\* two of the scheduler.
THEOREM InterfaceSafe == InterfaceSpec => [](Inv /\ DrainInv /\ InterfaceInv)
<1>1. InterfaceSpec => [](Inv /\ DrainInv)
  BY InterfaceIsScheduler, SchedulerSafe, DrainSafe, PTL
<1>2. Inv /\ DrainInv /\ (Inv /\ DrainInv)' /\ InterfaceInv /\ [InterfaceNext]_allVars
         => InterfaceInv'
  BY RefsStep, AnswersStep, SnapshotStep DEF InterfaceInv
<1>. QED  BY <1>1, <1>2, InitInterface, PTL DEF InterfaceSpec

\* The variables of the interface keep their types; in particular no count of
\* references is decremented below zero.
THEOREM InterfaceTypes == InterfaceSpec => []InterfaceTypeOK
<1>1. InterfaceInv => InterfaceTypeOK
  BY DEF InterfaceInv, RefsInv, AnswersInv, SnapshotInv, InterfaceTypeOK
<1>. QED  BY <1>1, InterfaceSafe, PTL

\* A group outlives everybody who uses it.
THEOREM GroupsOutliveUse == InterfaceSpec => []GroupAlive
<1>1. ASSUME Inv, DrainInv, InterfaceInv PROVE GroupAlive
  <2>0. refs \in [Groups -> Nat] /\ RefsExact /\ HandlesAgree
    BY <1>1 DEF InterfaceInv, RefsInv
  <2>1. ASSUME NEW t \in Tasks, member[t] \notin {"none", "left", "refused"}
        PROVE  refs[GroupOf[t]] > 0
    <3>1. PICK g \in Groups : g = GroupOf[t]
      BY <1>1, <2>1 DEF Inv, GroupInv, Grouped
    <3>2. MemberAgrees(t) /\ push[t] \in PushStates
      BY <1>1 DEF DrainInv, MembersAgree, Inv, TypeOK
    <3>3. t \in Holders(g)
      BY <1>1, <2>1, <3>1, <3>2
      DEF MemberAgrees, Inv, TypeOK, GroupTypeOK, MemberStates, PushStates,
          Reserving, Holding, Admitted, Published, PushOver, Holders
    <3>4. Cardinality(Holders(g)) > 0  BY <3>3, HoldersFinite, FS_EmptySet
    <3>. QED  BY <2>0, <3>1, <3>4, HoldersFinite DEF RefsExact, RefExact
  <2>. QED  BY <2>0, <2>1 DEF HandlesAgree, GroupAlive
<1>. QED  BY <1>1, InterfaceSafe, PTL

\* And it is freed when its handle is destroyed and its last submission over.
THEOREM GroupsAreReleased == InterfaceSpec => []GroupReleased
<1>1. ASSUME InterfaceInv, NEW g \in Groups, closed[g] = "closed",
             \A t \in Tasks : GroupOf[t] = g =>
                push[t] \in {"idle"} \cup PushOver /\ t \notin Waiting \cup InHand
      PROVE  refs[g] = 0
  <2>1. Holders(g) = {}  BY <1>1 DEF Holders
  <2>. QED
    BY <1>1, <2>1, FS_EmptySet DEF InterfaceInv, RefsInv, RefsExact, RefExact
<1>2. InterfaceInv => GroupReleased  BY <1>1 DEF GroupReleased
<1>. QED  BY <1>2, InterfaceSafe, PTL

\* The code a push function returns says what has become of the task.
THEOREM AnswersAreTrue == InterfaceSpec => []AnswerTrue
<1>1. ASSUME Inv, DrainInv, InterfaceInv PROVE AnswerTrue
  <2>1. ASSUME NEW t \in Tasks
        PROVE  /\ result[t] = "Ok" => push[t] = "ok"
               /\ result[t] \notin {"Ok", "none"} =>
                     push[t] \in {"idle", "stopped", "full"}
    BY <1>1, <2>1, Answers DEF InterfaceInv, AnswersInv, AnswersAgree, PushOver
  <2>2. ASSUME NEW t \in Tasks, result[t] = "Ok"
        PROVE  /\ t \in Waiting \cup InHand \cup executed
               /\ GroupOf[t] # NoGroup => member[t] \in {"member", "notify", "left"}
    <3>1. push[t] = "ok"  BY <2>1, <2>2
    <3>2. MemberAgrees(t) /\ AcceptedExactlyOnce
      BY <1>1 DEF DrainInv, MembersAgree, Inv
    <3>. QED  BY <3>1, <3>2 DEF MemberAgrees, AcceptedExactlyOnce, Published
  <2>3. ASSUME NEW t \in Tasks, result[t] \notin {"Ok", "none"}
        PROVE  /\ t \notin Slots \cup InHand \cup executed
               /\ member[t] \in {"none", "left", "refused"}
    <3>1. push[t] \in {"idle", "stopped", "full"}  BY <2>1, <2>3
    <3>2. MemberAgrees(t) /\ AcceptedExactlyOnce
      BY <1>1 DEF DrainInv, MembersAgree, Inv
    <3>3. t \notin Waiting \cup InHand \cup executed
      BY <3>1, <3>2 DEF AcceptedExactlyOnce, Published
    <3>4. t \notin HeldByPush /\ t \notin InService
      BY <3>1, <3>3 DEF HeldByPush, Holding, Admitted, InService, InHand
    <3>. QED  BY <3>1, <3>2, <3>3, <3>4 DEF MemberAgrees, Slots
  <2>. QED  BY <2>2, <2>3 DEF AnswerTrue
<1>. QED  BY <1>1, InterfaceSafe, PTL

\* The statistics a client reads after its wait account for what it waited
\* for, and are settled if no submission was or came under way.
THEOREM SnapshotsAreTrue == InterfaceSpec => []SnapshotTrue
<1>1. ASSUME Inv, DrainInv, InterfaceInv, NEW x \in Waiters, reader[x] = "done"
      PROVE  /\ snap[x].completed >= Cardinality(expect[x])
             /\ settled[x] =>
                   /\ snap[x].submitted = snap[x].completed
                   /\ snap[x].outstanding = 0
                   /\ snap[x].rejected_full =
                         Cardinality({t \in Tasks : result[t] = "QueueFull"})
  <2>1. SnapshotAgrees(x)  BY <1>1 DEF InterfaceInv, SnapshotInv
  <2>2. snap[x]["completed"] >= Cardinality(expect[x])
    BY <1>1, <2>1 DEF SnapshotAgrees
  <2>3. ASSUME settled[x]
        PROVE  /\ snap[x]["submitted"] = snap[x]["completed"]
               /\ snap[x]["outstanding"] = 0
               /\ snap[x]["rejected_full"] =
                     Cardinality({t \in Tasks : result[t] = "QueueFull"})
    <3>1. NoPush /\ tasks_in_flight = 0  BY <2>1, <2>3 DEF SnapshotAgrees
    <3>2. submitted = completed  BY <1>1, <3>1, CountsSettle DEF StatsSettle, NoPush
    <3>3. queue_full = Cardinality({t \in Tasks : push[t] = "full"})
      BY <1>1 DEF DrainInv, StatsExact
    <3>4. \A t \in Tasks : push[t] = "full" <=> result[t] = "QueueFull"
      BY <1>1, <3>1, Answers DEF InterfaceInv, AnswersInv, AnswersAgree, NoPush, PushOver
    <3>5. {t \in Tasks : push[t] = "full"} = {t \in Tasks : result[t] = "QueueFull"}
      BY <3>4
    <3>. QED  BY <1>1, <2>1, <2>3, <3>2, <3>3, <3>5 DEF SnapshotAgrees
  <2>. QED  BY <2>2, <2>3
<1>2. Inv /\ DrainInv /\ InterfaceInv => SnapshotTrue  BY <1>1 DEF SnapshotTrue
<1>. QED  BY <1>2, InterfaceSafe, PTL

=============================================================================
