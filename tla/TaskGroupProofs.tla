-------------------------- MODULE TaskGroupProofs --------------------------
(***************************************************************************)
(* Proofs about task groups: the counter is exact, wait does not return    *)
(* early, and a wait is left behind only by a notification that came       *)
(* between its test and its park; for any number of groups, submissions    *)
(* and waiters.                                                            *)
(***************************************************************************)
EXTENDS GroupWaits, FiniteSetTheorems, TLAPS

\* The set of submissions a group counter stands for is finite.
LEMMA CountedFinite ==
    ASSUME NEW g
    PROVE  /\ IsFiniteSet(CountedIn(g))
           /\ Cardinality(CountedIn(g)) \in Nat
<1>1. CountedIn(g) \in SUBSET Tasks  BY DEF CountedIn
<1>2. IsFiniteSet(CountedIn(g))
  BY <1>1, SubmissionsAssumption, FS_Subset DEF SubmissionsAssumption
<1>. QED  BY <1>2, FS_CardinalityType

\* A step that changes neither the counters nor any submission's being
\* counted keeps the accounting.
LEMMA CountersUntouched ==
    ASSUME GroupAccounting, UNCHANGED group_tasks,
           \A t \in Tasks : member'[t] \in Counted <=> member[t] \in Counted
    PROVE  GroupAccounting'
<1>1. \A g \in Groups : CountedIn(g)' = CountedIn(g)  BY DEF CountedIn
<1>. QED  BY <1>1 DEF GroupAccounting

\* fetch_add by a submission that was not counted keeps the accounting.
LEMMA CounterUp ==
    ASSUME GroupInv, NEW t \in Tasks, GroupOf[t] \in Groups,
           member[t] \notin Counted,
           NEW m \in Counted,
           member' = [member EXCEPT ![t] = m],
           group_tasks' = [group_tasks EXCEPT ![GroupOf[t]] = @ + 1]
    PROVE  GroupAccounting'
<1>. DEFINE g == GroupOf[t]
<1>0. /\ member \in [Tasks -> MemberStates]
      /\ group_tasks \in [Groups -> Nat]
  BY DEF GroupInv, GroupTypeOK
<1>1. CountedIn(g)' = CountedIn(g) \cup {t}  BY <1>0 DEF CountedIn
<1>2. t \notin CountedIn(g)  BY DEF CountedIn
<1>3. Cardinality(CountedIn(g)') = Cardinality(CountedIn(g)) + 1
  BY <1>1, <1>2, CountedFinite, FS_AddElement
<1>4. \A h \in Groups : h # g => CountedIn(h)' = CountedIn(h)
  BY <1>0 DEF CountedIn
<1>. QED  BY <1>0, <1>3, <1>4 DEF GroupAccounting, GroupInv

\* fetch_sub by a submission that was counted keeps the accounting.
LEMMA CounterDown ==
    ASSUME GroupInv, NEW t \in Tasks, GroupOf[t] \in Groups,
           member[t] \in Counted,
           NEW m \in MemberStates \ Counted,
           member' = [member EXCEPT ![t] = m],
           group_tasks' = [group_tasks EXCEPT ![GroupOf[t]] = @ - 1]
    PROVE  GroupAccounting' /\ group_tasks' \in [Groups -> Nat]
<1>. DEFINE g == GroupOf[t]
<1>0. /\ member \in [Tasks -> MemberStates]
      /\ group_tasks \in [Groups -> Nat]
  BY DEF GroupInv, GroupTypeOK
<1>1. CountedIn(g)' = CountedIn(g) \ {t}  BY <1>0 DEF CountedIn
<1>2. t \in CountedIn(g)  BY DEF CountedIn
<1>3. Cardinality(CountedIn(g)') = Cardinality(CountedIn(g)) - 1
  BY <1>1, <1>2, CountedFinite, FS_RemoveElement
<1>4. \A h \in Groups : h # g => CountedIn(h)' = CountedIn(h)
  BY <1>0 DEF CountedIn
<1>5. GroupAccounting'
  BY <1>0, <1>3, <1>4 DEF GroupAccounting, GroupInv
<1>6. Cardinality(CountedIn(g)) # 0
  BY <1>2, CountedFinite, FS_EmptySet
<1>7. group_tasks[g] \in Nat \ {0}
  BY <1>0, <1>6 DEF GroupAccounting, GroupInv
<1>. QED  BY <1>0, <1>5, <1>7

-----------------------------------------------------------------------------
\* The invariant holds initially.
LEMMA GroupInitInv == GroupInit => GroupInv
<1>. SUFFICES ASSUME GroupInit PROVE GroupInv  OBVIOUS
<1>. USE DEF GroupInit
<1>1. GroupTypeOK  BY DEF GroupTypeOK, MemberStates
<1>2. Grouped /\ Expected /\ GroupWaitSound
  BY DEF Grouped, Expected, GroupWaitSound
<1>3. \A g \in Groups : CountedIn(g) = {}  BY DEF CountedIn, Counted
<1>4. GroupAccounting  BY <1>3, FS_EmptySet DEF GroupAccounting
<1>. QED  BY <1>1, <1>2, <1>4 DEF GroupInv

\* Every step of the registrations keeps the invariant.
LEMMA RegistrationInv ==
    ASSUME GroupInv, NEW t \in Tasks, AddTaskStep(t) \/ LeaveStep(t)
    PROVE  GroupInv'
<1>. USE DEF GroupInv
<1>0. GroupOf[t] \in Groups \cup {NoGroup}
  BY SubmissionsAssumption DEF SubmissionsAssumption
<1>1. CASE AddTaskCheck(t) \/ AddTaskRecheck(t)
  <2>. USE <1>1 DEF AddTaskCheck, AddTaskRecheck
  <2>1. GroupTypeOK'  BY DEF GroupTypeOK, MemberStates
  <2>2. Grouped'  BY <1>0 DEF Grouped, GroupTypeOK
  <2>3. GroupAccounting'
    BY CountersUntouched DEF Counted, GroupTypeOK
  <2>4. Expected' /\ GroupWaitSound'
    BY DEF Expected, GroupWaitSound, GroupTypeOK
  <2>. QED  BY <2>1, <2>2, <2>3, <2>4
<1>2. CASE AddTaskCount(t)
  <2>. USE <1>2 DEF AddTaskCount
  <2>0. GroupOf[t] \in Groups  BY DEF Grouped
  <2>1. GroupTypeOK'  BY <2>0 DEF GroupTypeOK, MemberStates
  <2>2. Grouped'  BY <2>0 DEF Grouped, GroupTypeOK
  <2>3. GroupAccounting'  BY <2>0, CounterUp DEF Counted
  <2>4. Expected' /\ GroupWaitSound'
    BY DEF Expected, GroupWaitSound, GroupTypeOK
  <2>. QED  BY <2>1, <2>2, <2>3, <2>4
<1>3. CASE GroupTaskCompleted(t)
  <2>. USE <1>3 DEF GroupTaskCompleted
  <2>0. GroupOf[t] \in Groups  BY DEF Grouped
  <2>. DEFINE m == Completed(member[t], group_tasks[GroupOf[t]])
  <2>1. /\ m \in {"notify", "left", "undo_notify", "refused"}
        /\ member[t] = "member" => m \in {"notify", "left"}
    BY DEF Completed
  <2>2. member' = [member EXCEPT ![t] = m]  OBVIOUS
  <2>3. GroupAccounting' /\ group_tasks' \in [Groups -> Nat]
    BY <2>0, <2>1, <2>2, CounterDown DEF Counted, MemberStates
  <2>4. GroupTypeOK'  BY <2>1, <2>2, <2>3 DEF GroupTypeOK, MemberStates
  <2>5. Grouped'  BY <2>0, <2>2 DEF Grouped, GroupTypeOK
  <2>6. Expected' /\ GroupWaitSound'
    BY <2>1, <2>2 DEF Expected, GroupWaitSound, GroupTypeOK
  <2>. QED  BY <2>3, <2>4, <2>5, <2>6
<1>4. CASE GroupNotify(t)
  <2>. USE <1>4 DEF GroupNotify
  <2>0. GroupOf[t] \in Groups  BY DEF Grouped
  <2>1. GroupTypeOK'  BY <2>0 DEF GroupTypeOK, MemberStates
  <2>2. Grouped'  BY <2>0 DEF Grouped, GroupTypeOK
  <2>3. GroupAccounting'
    BY CountersUntouched DEF Counted, GroupTypeOK
  <2>4. Expected' /\ GroupWaitSound'
    BY DEF Expected, GroupWaitSound, GroupTypeOK
  <2>. QED  BY <2>1, <2>2, <2>3, <2>4
<1>. QED  BY <1>1, <1>2, <1>3, <1>4 DEF AddTaskStep, LeaveStep

\* Every step of the waiters keeps the invariant: a waiter that returns has
\* seen the counter at zero, so none of the tasks it expects is counted.
LEMMA WaiterInv ==
    ASSUME GroupInv, NEW x \in GroupWaiters, GroupWaitCall(x) \/ GroupWaitStep(x)
    PROVE  GroupInv'
<1>. USE DEF GroupInv
<1>0. WaitsFor[x] \in Groups
  BY GroupAssumption DEF GroupAssumption
<1>1. CASE GroupWaitCall(x)
  <2>. USE <1>1 DEF GroupWaitCall
  <2>1. GroupTypeOK'  BY DEF GroupTypeOK
  <2>2. Grouped'  BY DEF Grouped
  <2>3. GroupAccounting'  BY CountersUntouched
  <2>4. Expected' /\ GroupWaitSound'
    BY DEF Expected, GroupWaitSound, GroupTypeOK
  <2>. QED  BY <2>1, <2>2, <2>3, <2>4
<1>2. CASE GroupWaitCheck(x)
  <2>. USE <1>2 DEF GroupWaitCheck
  <2>1. GroupTypeOK'  BY <1>0 DEF GroupTypeOK
  <2>2. Grouped'  BY DEF Grouped
  <2>3. GroupAccounting'  BY CountersUntouched
  <2>4. Expected'  BY DEF Expected
  <2>5. GroupWaitSound'
    <3>1. CASE group_tasks[WaitsFor[x]] = 0
      <4>1. CountedIn(WaitsFor[x]) = {}
        BY <1>0, <3>1, CountedFinite, FS_EmptySet DEF GroupAccounting
      <4>2. \A t \in gexpect[x] : t \in Tasks /\ member[t] \notin Counted
        BY <4>1 DEF CountedIn, Expected, GroupTypeOK
      <4>3. \A t \in gexpect[x] : member[t] \in {"notify", "left"}
        BY <4>2 DEF Expected, Counted
      <4>. QED  BY <3>1, <4>3 DEF GroupWaitSound, GroupTypeOK
    <3>2. CASE group_tasks[WaitsFor[x]] # 0
      BY <3>2 DEF GroupWaitSound, GroupTypeOK
    <3>. QED  BY <3>1, <3>2
  <2>. QED  BY <2>1, <2>2, <2>3, <2>4, <2>5
<1>3. CASE GroupPark(x)
  <2>. USE <1>3 DEF GroupPark
  <2>1. GroupTypeOK'  BY <1>0 DEF GroupTypeOK
  <2>2. Grouped'  BY DEF Grouped
  <2>3. GroupAccounting'  BY CountersUntouched
  <2>4. Expected' /\ GroupWaitSound'
    BY DEF Expected, GroupWaitSound, GroupTypeOK
  <2>. QED  BY <2>1, <2>2, <2>3, <2>4
<1>. QED  BY <1>1, <1>2, <1>3 DEF GroupWaitStep

\* Closing keeps the invariant.
LEMMA CloseInv ==
    ASSUME GroupInv, NEW g \in Groups, CloseStore(g) \/ CloseNotify(g)
    PROVE  GroupInv'
<1>. USE DEF GroupInv, CloseStore, CloseNotify
<1>1. GroupTypeOK'  BY DEF GroupTypeOK
<1>2. Grouped' /\ Expected' /\ GroupWaitSound'
  BY DEF Grouped, Expected, GroupWaitSound
<1>3. GroupAccounting'  BY CountersUntouched
<1>. QED  BY <1>1, <1>2, <1>3

\* Every step keeps the invariant.
LEMMA GroupNextInv == GroupInv /\ [GroupNext]_groupVars => GroupInv'
<1>. SUFFICES ASSUME GroupInv, [GroupNext]_groupVars PROVE GroupInv'  OBVIOUS
<1>1. CASE UNCHANGED groupVars
  <2>. USE <1>1 DEF groupVars, GroupInv
  <2>1. GroupTypeOK' /\ Grouped' /\ Expected' /\ GroupWaitSound'
    BY DEF GroupTypeOK, Grouped, Expected, GroupWaitSound
  <2>2. GroupAccounting'  BY CountersUntouched
  <2>. QED  BY <2>1, <2>2
<1>2. CASE GroupNext
  BY <1>2, RegistrationInv, WaiterInv, CloseInv DEF GroupNext, GroupCall
<1>. QED  BY <1>1, <1>2

\* In every behaviour of the groups the invariant holds.
THEOREM GroupSafe == GroupSpec => []GroupInv
  BY GroupInitInv, GroupNextInv, PTL DEF GroupSpec

\* The variables of a group keep their types; in particular its counter is
\* never decremented below zero.
THEOREM GroupTypes == GroupSpec => []GroupTypeOK
<1>1. GroupInv => GroupTypeOK  BY DEF GroupInv
<1>. QED  BY <1>1, GroupSafe, PTL

\* The counter of a group is exact (fetch_add and fetch_sub in group.rs), in
\* every interleaving of add_task, its undo, task_completed and close.
THEOREM GroupCounterExact == GroupSpec => []GroupAccounting
<1>1. GroupInv => GroupAccounting  BY DEF GroupInv
<1>. QED  BY <1>1, GroupSafe, PTL

\* TaskGroup::wait returns only when all tasks that were members at the call
\* have completed.
THEOREM GroupWaitNotEarly == GroupSpec => []GroupWaitSound
<1>1. GroupInv => GroupWaitSound  BY DEF GroupInv
<1>. QED  BY <1>1, GroupSafe, PTL

-----------------------------------------------------------------------------
(* Wake-ups *)

\* The history observes the group's steps and constrains none.
LEMMA WaitsAreGroup == WaitsSpec => GroupSpec
<1>1. [WaitsNext]_waitsVars => [GroupNext]_groupVars  BY DEF WaitsNext, waitsVars
<1>2. WaitsInit => GroupInit  BY DEF WaitsInit
<1>. QED  BY <1>1, <1>2, PTL DEF WaitsSpec, GroupSpec

\* A waiter begins to block after a test that found a task.
LEMMA WaitsAfterTest ==
    ASSUME GroupInv, GroupNext, NEW x \in GroupWaiters, ~InWait(x), InWait(x)'
    PROVE  group_tasks'[WaitsFor[x]] # 0
<1>0. /\ gwait \in [GroupWaiters -> {"idle", "lock", "park", "parked", "returned"}]
      /\ group_wake \in [Groups -> SUBSET GroupWaiters]
      /\ WaitsFor \in [GroupWaiters -> Groups]
  BY GroupAssumption DEF GroupInv, GroupTypeOK
<1>. USE <1>0 DEF InWait
<1>1. ASSUME NEW y \in GroupWaiters, GroupWaitStep(y)
      PROVE  group_tasks'[WaitsFor[x]] # 0
  <2>1. CASE GroupWaitCheck(y)
    BY <2>1 DEF GroupWaitCheck
  <2>2. CASE GroupPark(y)
    BY <2>2 DEF GroupPark
  <2>. QED  BY <1>1, <2>1, <2>2 DEF GroupWaitStep
<1>2. ASSUME \/ GroupCall \/ \E g \in Groups : CloseNotify(g)
             \/ \E t \in Tasks : AddTaskStep(t) \/ LeaveStep(t)
      PROVE  FALSE
  <2>1. /\ gwait'[x] = "park" => gwait[x] = "park"
        /\ \A g \in Groups : group_wake'[g] \subseteq group_wake[g]
    BY <1>2
    DEF GroupCall, CloseStore, GroupWaitCall, CloseNotify, AddTaskStep,
        LeaveStep, AddTaskCheck, AddTaskCount, AddTaskRecheck,
        GroupTaskCompleted, GroupNotify
  <2>. QED  BY <2>1
<1>. QED  BY <1>1, <1>2 DEF GroupNext

\* A group becomes idle with a notification on its way.
LEMMA IdleIsNotified ==
    ASSUME GroupInv, GroupNext, NEW g \in Groups,
           group_tasks[g] # 0, group_tasks'[g] = 0
    PROVE  NotifyComes(g)'
<1>0. /\ group_tasks \in [Groups -> Nat] /\ member \in [Tasks -> MemberStates]
      /\ Grouped
  BY DEF GroupInv, GroupTypeOK
<1>1. ASSUME UNCHANGED group_tasks PROVE FALSE  BY <1>1
<1>2. ASSUME NEW t \in Tasks, GroupTaskCompleted(t) PROVE NotifyComes(g)'
  <2>1. GroupOf[t] \in Groups  BY <1>0, <1>2 DEF GroupTaskCompleted, Grouped
  <2>2. GroupOf[t] = g /\ group_tasks[g] = 1
    BY <1>0, <1>2, <2>1 DEF GroupTaskCompleted
  <2>3. member'[t] \in {"notify", "undo_notify"}
    BY <1>0, <1>2, <2>2 DEF GroupTaskCompleted, Completed
  <2>. QED  BY <2>2, <2>3 DEF NotifyComes
<1>3. ASSUME NEW t \in Tasks, AddTaskCount(t) PROVE FALSE
  BY <1>0, <1>3 DEF AddTaskCount
<1>4. ASSUME NEW t \in Tasks, AddTaskStep(t) \/ LeaveStep(t) PROVE NotifyComes(g)'
  <2>1. CASE GroupTaskCompleted(t)  BY <1>2, <2>1
  <2>2. CASE AddTaskCount(t)  BY <1>3, <2>2
  <2>3. CASE AddTaskCheck(t) \/ AddTaskRecheck(t) \/ GroupNotify(t)
    BY <1>1, <2>3 DEF AddTaskCheck, AddTaskRecheck, GroupNotify
  <2>. QED  BY <1>4, <2>1, <2>2, <2>3 DEF AddTaskStep, LeaveStep
<1>5. ASSUME \/ GroupCall \/ \E h \in Groups : CloseNotify(h)
             \/ \E y \in GroupWaiters : GroupWaitStep(y)
      PROVE  FALSE
  BY <1>1, <1>5
  DEF GroupCall, CloseStore, GroupWaitCall, CloseNotify, GroupWaitStep,
      GroupWaitCheck, GroupPark
<1>. QED  BY <1>4, <1>5 DEF GroupNext

\* A notify_all leaves in wait only those it found before their park.
LEMMA NotifyReleases ==
    ASSUME GroupInv, GroupNext, NEW x \in GroupWaiters,
           InWait(x)', WaitsFor[x] \in NotifiedNow
    PROVE  x \in OvertakenNow
<1>0. /\ member \in [Tasks -> MemberStates] /\ Grouped
      /\ group_wake \in [Groups -> SUBSET GroupWaiters]
  BY DEF GroupInv, GroupTypeOK
<1>1. PICK u \in Tasks : /\ GroupOf[u] = WaitsFor[x]
                         /\ member[u] \in {"notify", "undo_notify"}
                         /\ member'[u] # member[u]
  BY DEF NotifiedNow
<1>2. GroupNotify(u)
  <2>1. ASSUME NEW t \in Tasks, AddTaskStep(t) \/ LeaveStep(t)
        PROVE  GroupNotify(u)
    <3>1. t = u
      BY <1>0, <1>1, <2>1
      DEF AddTaskStep, LeaveStep, AddTaskCheck, AddTaskCount, AddTaskRecheck,
          GroupTaskCompleted, GroupNotify
    <3>. QED
      BY <1>1, <2>1, <3>1
      DEF AddTaskStep, LeaveStep, AddTaskCheck, AddTaskCount, AddTaskRecheck
  <2>2. ASSUME \/ GroupCall \/ \E h \in Groups : CloseNotify(h)
               \/ \E y \in GroupWaiters : GroupWaitStep(y)
        PROVE  FALSE
    BY <1>1, <2>2
    DEF GroupCall, CloseStore, GroupWaitCall, CloseNotify, GroupWaitStep,
        GroupWaitCheck, GroupPark
  <2>. QED  BY <2>1, <2>2 DEF GroupNext
<1>3. GroupOf[u] \in Groups  BY <1>0, <1>1 DEF Grouped
<1>4. group_wake'[WaitsFor[x]] = {} /\ UNCHANGED gwait
  BY <1>0, <1>1, <1>2, <1>3 DEF GroupNotify
<1>. QED  BY <1>4 DEF InWait, OvertakenNow

LEMMA OvertakenStep ==
    ASSUME GroupInv, OnlyOvertakenStay, [WaitsNext]_waitsVars
    PROVE  OnlyOvertakenStay'
<1>1. CASE UNCHANGED waitsVars
  BY <1>1 DEF waitsVars, groupVars, OnlyOvertakenStay, InWait, NotifyComes
<1>2. CASE WaitsNext
  <2>0. GroupNext /\ overtaken' = {x \in overtaken \cup OvertakenNow : InWait(x)'}
    BY <1>2 DEF WaitsNext
  <2>1. SUFFICES ASSUME NEW x \in GroupWaiters, InWait(x)',
                        group_tasks'[WaitsFor[x]] = 0, ~NotifyComes(WaitsFor[x])'
                 PROVE  x \in overtaken'
    BY DEF OnlyOvertakenStay
  <2>2. InWait(x)  BY <2>0, <2>1, WaitsAfterTest
  <2>3. CASE WaitsFor[x] \in NotifiedNow
    BY <2>0, <2>1, <2>3, NotifyReleases
  <2>4. CASE WaitsFor[x] \notin NotifiedNow
    <3>1. ~NotifyComes(WaitsFor[x])
      BY <2>1, <2>4 DEF NotifyComes, NotifiedNow
    <3>2. group_tasks[WaitsFor[x]] = 0
      BY <2>0, <2>1, IdleIsNotified, GroupAssumption
    <3>3. x \in overtaken  BY <2>2, <3>1, <3>2 DEF OnlyOvertakenStay
    <3>. QED  BY <2>0, <2>1, <3>3
  <2>. QED  BY <2>3, <2>4
<1>. QED  BY <1>1, <1>2

\* A thread stays in TaskGroup::wait although its group is idle only if a
\* notify_all came between its test and its park, or is still to come; for
\* any number of groups, waiters and submissions.
THEOREM OnlyOvertakenStayBlocked == WaitsSpec => []OnlyOvertakenStay
<1>1. WaitsInit => OnlyOvertakenStay
  BY GroupAssumption DEF WaitsInit, GroupInit, OnlyOvertakenStay, InWait
<1>. QED
  BY <1>1, OvertakenStep, WaitsAreGroup, GroupSafe, PTL DEF WaitsSpec

=============================================================================
