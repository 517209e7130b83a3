----------------------------- MODULE TaskGroup -----------------------------
(***************************************************************************)
(* Task groups (src/src/group.rs): a counter of unfinished tasks, a closed *)
(* flag, and a mutex and condition variable for threads that wait for the  *)
(* counter to reach zero.                                                  *)
(*                                                                         *)
(* Every atomic operation is a step of its own.  A registration is the     *)
(* call add_task by one submission, and its later task_completed; a waiter *)
(* is one call of TaskGroup::wait.  task_completed and close notify        *)
(* WITHOUT holding wait_lock, so a waiter may check and park around them.  *)
(*                                                                         *)
(* The mutex and the condition variable are parking_lot's: waiting         *)
(* releases the mutex and enqueues atomically, and there are no spurious   *)
(* wakeups.                                                                *)
(***************************************************************************)
EXTENDS Submissions

CONSTANTS
    GroupWaiters,   \* the calls of TaskGroup::wait
    WaitsFor,       \* the group each of them waits for
    NoThread        \* an unlocked mutex

ASSUME GroupAssumption ==
    /\ WaitsFor \in [GroupWaiters -> Groups]
    /\ NoThread \notin GroupWaiters

VARIABLES
    group_tasks,    \* TaskGroup::tasks_in_flight
    closed,         \* TaskGroup::closed; "closing" until close has notified
    wait_lock,      \* TaskGroup::wait_lock: its owner
    group_wake,     \* TaskGroup::wake: the threads parked on it
    member,         \* where each submission is in add_task / task_completed
    gwait,          \* where each group waiter is
    gexpect         \* history: the members each waiter found when it called

groupVars ==
    <<group_tasks, closed, wait_lock, group_wake, member, gwait, gexpect>>

(***************************************************************************)
(* A submission in a group goes                                            *)
(*   none -> checked -> counted -> member -> (notify ->) left              *)
(* or is turned away: none -> refused, counted -> undo -> (undo_notify ->) *)
(* refused.  The notify states are those of the thread that took the       *)
(* counter from 1 to 0 and has not called notify_all yet.                  *)
(***************************************************************************)
MemberStates == {"none", "checked", "counted", "member", "notify", "left",
                 "undo", "undo_notify", "refused"}
Counted == {"counted", "member", "undo"}

GroupTypeOK ==
    /\ group_tasks \in [Groups -> Nat]
    /\ closed \in [Groups -> {"open", "closing", "closed"}]
    /\ wait_lock \in [Groups -> GroupWaiters \cup {NoThread}]
    /\ group_wake \in [Groups -> SUBSET GroupWaiters]
    /\ member \in [Tasks -> MemberStates]
    /\ gwait \in [GroupWaiters -> {"idle", "lock", "park", "parked", "returned"}]
    /\ gexpect \in [GroupWaiters -> SUBSET Tasks]

GroupInit ==
    /\ group_tasks = [g \in Groups |-> 0]
    /\ closed = [g \in Groups |-> "open"]
    /\ wait_lock = [g \in Groups |-> NoThread]
    /\ group_wake = [g \in Groups |-> {}]
    /\ member = [t \in Tasks |-> "none"]
    /\ gwait = [x \in GroupWaiters |-> "idle"]
    /\ gexpect = [x \in GroupWaiters |-> {}]

-----------------------------------------------------------------------------
\* add_task: refuse at once if the group is closed ...
AddTaskCheck(t) ==
    /\ GroupOf[t] # NoGroup
    /\ member[t] = "none"
    /\ member' = [member EXCEPT ![t] =
                    IF closed[GroupOf[t]] = "open" THEN "checked" ELSE "refused"]
    /\ UNCHANGED <<group_tasks, closed, wait_lock, group_wake, gwait, gexpect>>

\* Mutant: the task is registered without being counted.
AddTaskCount_Uncounted(t) ==
    /\ member[t] = "checked"
    /\ member' = [member EXCEPT ![t] = "counted"]
    /\ UNCHANGED <<group_tasks, closed, wait_lock, group_wake, gwait, gexpect>>

\* ... else count the task ...
AddTaskCount(t) ==
    /\ member[t] = "checked"
    /\ group_tasks' = [group_tasks EXCEPT ![GroupOf[t]] = @ + 1]
    /\ member' = [member EXCEPT ![t] = "counted"]
    /\ UNCHANGED <<closed, wait_lock, group_wake, gwait, gexpect>>

\* Mutant: a registration refused by the second check is not undone.
AddTaskRecheck_NoUndo(t) ==
    /\ member[t] = "counted"
    /\ member' = [member EXCEPT ![t] =
                    IF closed[GroupOf[t]] = "open" THEN "member" ELSE "refused"]
    /\ UNCHANGED <<group_tasks, closed, wait_lock, group_wake, gwait, gexpect>>

\* Mutant: the second check has its condition the wrong way round.
AddTaskRecheck_Inverted(t) ==
    /\ member[t] = "counted"
    /\ member' = [member EXCEPT ![t] =
                    IF closed[GroupOf[t]] = "open" THEN "undo" ELSE "member"]
    /\ UNCHANGED <<group_tasks, closed, wait_lock, group_wake, gwait, gexpect>>

\* ... and look again, because close may have come in between.
AddTaskRecheck(t) ==
    /\ member[t] = "counted"
    /\ member' = [member EXCEPT ![t] =
                    IF closed[GroupOf[t]] = "open" THEN "member" ELSE "undo"]
    /\ UNCHANGED <<group_tasks, closed, wait_lock, group_wake, gwait, gexpect>>

\* The successor of a member state in task_completed, given the counter's
\* previous value: only the thread that makes the group idle notifies.
Completed(m, previous) ==
    CASE m = "member" -> IF previous = 1 THEN "notify" ELSE "left"
      [] m = "undo"   -> IF previous = 1 THEN "undo_notify" ELSE "refused"

\* task_completed: fetch_sub.
GroupTaskCompleted(t) ==
    /\ member[t] \in {"member", "undo"}
    /\ LET g == GroupOf[t] IN
          /\ group_tasks' = [group_tasks EXCEPT ![g] = @ - 1]
          /\ member' = [member EXCEPT ![t] = Completed(@, group_tasks[g])]
    /\ UNCHANGED <<closed, wait_lock, group_wake, gwait, gexpect>>

\* Mutant: the waiters are not notified.
GroupNotify_Silent(t) ==
    /\ member[t] \in {"notify", "undo_notify"}
    /\ member' = [member EXCEPT ![t] =
                    IF @ = "notify" THEN "left" ELSE "refused"]
    /\ UNCHANGED <<group_tasks, closed, wait_lock, group_wake, gwait, gexpect>>

\* task_completed: wake.notify_all(), after the counter reached zero.
GroupNotify(t) ==
    /\ member[t] \in {"notify", "undo_notify"}
    /\ group_wake' = [group_wake EXCEPT ![GroupOf[t]] = {}]
    /\ member' = [member EXCEPT ![t] =
                    IF @ = "notify" THEN "left" ELSE "refused"]
    /\ UNCHANGED <<group_tasks, closed, wait_lock, gwait, gexpect>>

\* add_task as the submission that calls it sees it.
AddTaskStep(t) ==
    \/ AddTaskCheck(t) \/ AddTaskCount(t) \/ AddTaskRecheck(t)
    \/ member[t] = "undo" /\ GroupTaskCompleted(t)
    \/ member[t] = "undo_notify" /\ GroupNotify(t)

\* task_completed for a task that add_task accepted.
LeaveStep(t) ==
    \/ member[t] = "member" /\ GroupTaskCompleted(t)
    \/ member[t] = "notify" /\ GroupNotify(t)

-----------------------------------------------------------------------------
\* The handle may be used until the group is closed; that a thread does not
\* destroy a handle another one is waiting on is the C header's contract.
GroupWaitCall(x) ==
    /\ gwait[x] = "idle"
    /\ closed[WaitsFor[x]] = "open"
    /\ gwait' = [gwait EXCEPT ![x] = "lock"]
    /\ gexpect' = [gexpect EXCEPT ![x] =
           {t \in Tasks : GroupOf[t] = WaitsFor[x] /\ member[t] = "member"}]
    /\ UNCHANGED <<group_tasks, closed, wait_lock, group_wake, member>>

\* Mutant: the wait ends one task early.
GroupWaitCheck_OffByOne(x) ==
    LET g == WaitsFor[x] IN
    /\ \/ gwait[x] = "lock"
       \/ gwait[x] = "parked" /\ x \notin group_wake[g]
    /\ wait_lock[g] = NoThread
    /\ IF group_tasks[g] <= 1
       THEN gwait' = [gwait EXCEPT ![x] = "returned"] /\ UNCHANGED wait_lock
       ELSE /\ gwait' = [gwait EXCEPT ![x] = "park"]
            /\ wait_lock' = [wait_lock EXCEPT ![g] = x]
    /\ UNCHANGED <<group_tasks, closed, group_wake, member, gexpect>>

\* wait: with the mutex (again) in hand, test the counter.  A waiter that
\* condvar.wait has enqueued gets here once it has been notified.
GroupWaitCheck(x) ==
    LET g == WaitsFor[x] IN
    /\ \/ gwait[x] = "lock"
       \/ gwait[x] = "parked" /\ x \notin group_wake[g]
    /\ wait_lock[g] = NoThread
    /\ IF group_tasks[g] = 0
       THEN gwait' = [gwait EXCEPT ![x] = "returned"] /\ UNCHANGED wait_lock
       ELSE /\ gwait' = [gwait EXCEPT ![x] = "park"]
            /\ wait_lock' = [wait_lock EXCEPT ![g] = x]
    /\ UNCHANGED <<group_tasks, closed, group_wake, member, gexpect>>

\* wake.wait(&mut guard): enqueue and release the mutex, atomically.
GroupPark(x) ==
    LET g == WaitsFor[x] IN
    /\ gwait[x] = "park"
    /\ gwait' = [gwait EXCEPT ![x] = "parked"]
    /\ group_wake' = [group_wake EXCEPT ![g] = @ \cup {x}]
    /\ wait_lock' = [wait_lock EXCEPT ![g] = NoThread]
    /\ UNCHANGED <<group_tasks, closed, member, gexpect>>

\* close: the flag, then notify_all.
CloseStore(g) ==
    /\ closed[g] = "open"
    /\ \A x \in GroupWaiters :
          WaitsFor[x] = g => gwait[x] \in {"idle", "returned"}
    /\ closed' = [closed EXCEPT ![g] = "closing"]
    /\ UNCHANGED <<group_tasks, wait_lock, group_wake, member, gwait, gexpect>>

CloseNotify(g) ==
    /\ closed[g] = "closing"
    /\ group_wake' = [group_wake EXCEPT ![g] = {}]
    /\ closed' = [closed EXCEPT ![g] = "closed"]
    /\ UNCHANGED <<group_tasks, wait_lock, member, gwait, gexpect>>

-----------------------------------------------------------------------------
\* Steps that the client decides on, and the steps that then follow.
GroupCall == \/ \E g \in Groups : CloseStore(g)
             \/ \E x \in GroupWaiters : GroupWaitCall(x)

GroupWaitStep(x) == GroupWaitCheck(x) \/ GroupPark(x)

GroupNext ==
    \/ GroupCall
    \/ \E g \in Groups : CloseNotify(g)
    \/ \E t \in Tasks : AddTaskStep(t) \/ LeaveStep(t)
    \/ \E x \in GroupWaiters : GroupWaitStep(x)

GroupSpec == GroupInit /\ [][GroupNext]_groupVars

\* The threads keep running and parking_lot's mutex is fair enough; no
\* thread is obliged to begin a registration, a wait or a close.
GroupFairness ==
    /\ \A g \in Groups : WF_groupVars(CloseNotify(g))
    /\ \A t \in Tasks :
          WF_groupVars(member[t] # "none" /\ (AddTaskStep(t) \/ LeaveStep(t)))
    /\ \A x \in GroupWaiters :
          WF_groupVars(GroupPark(x)) /\ SF_groupVars(GroupWaitCheck(x))

-----------------------------------------------------------------------------
\* The submissions the counter of group g stands for.
CountedIn(g) == {t \in Tasks : GroupOf[t] = g /\ member[t] \in Counted}

\* The group counter is exact at every step of every interleaving of
\* add_task, its undo, task_completed and close: it never drifts and never
\* wraps below zero (fetch_add / fetch_sub in group.rs).
GroupAccounting ==
    \A g \in Groups : group_tasks[g] = Cardinality(CountedIn(g))

\* TaskGroup::wait does not return early: every task that was a member of
\* the group when wait was called has completed when it returns, although
\* registrations that will be undone pass through the same counter.
GroupWaitSound ==
    \A x \in GroupWaiters : gwait[x] = "returned" =>
        \A t \in gexpect[x] : member[t] \in {"notify", "left"}

\* Only grouped submissions register, and a waiter's expectation consists of
\* tasks of its group that were accepted.
Grouped == \A t \in Tasks : member[t] # "none" => GroupOf[t] \in Groups
Expected ==
    \A x \in GroupWaiters : \A t \in gexpect[x] :
        GroupOf[t] = WaitsFor[x] /\ member[t] \in {"member", "notify", "left"}

\* The inductive invariant of a group: its counter, and what a waiter may
\* conclude from the counter being zero.
GroupInv ==
    GroupTypeOK /\ Grouped /\ GroupAccounting /\ Expected /\ GroupWaitSound

\* After close the group drains for good: its counter reaches zero and stays
\* there, also when add_task counted a task after close had set the flag.
GroupDrains ==
    \A g \in Groups : closed[g] # "open" ~> [](group_tasks[g] = 0)

\* "Wakes threads waiting for this group's tasks to finish" (group.rs:23):
\* a wait on a group returns.
GroupWaitReturns ==
    \A x \in GroupWaiters : gwait[x] = "lock" ~> gwait[x] = "returned"

=============================================================================
