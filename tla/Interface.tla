----------------------------- MODULE Interface -----------------------------
(***************************************************************************)
(* The C interface (src/src/ffi.rs) around the scheduler: the argument     *)
(* checks of the push functions and the code each call returns, the life   *)
(* of a task group behind its handle, and cortlet_sched_get_stats, which   *)
(* reads the statistics one counter after the other.                       *)
(*                                                                         *)
(* A group is reference counted (Arc): the handle is one reference, every  *)
(* grouped submission clones one, and it travels with the task through the *)
(* queues to the worker that completes it.                                 *)
(***************************************************************************)
EXTENDS Scheduler, Integers

CONSTANT RawPriorities      \* the integers C code passes as a priority

ASSUME InterfaceAssumption == RawPriorities \subseteq Int

VARIABLES
    refs,       \* strong count of each Arc<TaskGroup>; at 0 the group is freed
    result,     \* the code each submission's last call returned
    reader,     \* the counter each waiter's get_stats loads next
    snap,       \* what it has loaded so far
    settled     \* history: nothing was under way when the wait returned, and
                \* no submission has begun since

interfaceVars == <<refs, result, reader, snap, settled>>
allVars == <<vars, interfaceVars>>

Codes == {"Ok", "InvalidArgument", "SchedulerStopped", "QueueFull"}
Loads == {"submitted", "completed", "rejected_full", "outstanding"}

InterfaceTypeOK ==
    /\ refs \in [Groups -> Nat]
    /\ result \in [Tasks -> Codes \cup {"none"}]
    /\ reader \in [Waiters -> Loads \cup {"idle", "done"}]
    /\ snap \in [Waiters -> [Loads -> Nat]]
    /\ settled \in [Waiters -> BOOLEAN]

InterfaceInit ==
    /\ Init
    /\ refs = [g \in Groups |-> 0]
    /\ result = [t \in Tasks |-> "none"]
    /\ reader = [x \in Waiters |-> "idle"]
    /\ snap = [x \in Waiters |-> [c \in Loads |-> 0]]
    /\ settled = [x \in Waiters |-> FALSE]

-----------------------------------------------------------------------------
(* Task groups *)

\* cortlet_task_group_create: the handle is the first reference.
GroupCreate(g) ==
    /\ closed[g] = "open" /\ refs[g] = 0
    /\ refs' = [refs EXCEPT ![g] = 1]
    /\ UNCHANGED <<vars, result, reader, snap, settled>>

\* The reference of a submission's task: gained when the call clones the
\* handle's, and dropped at the end of a refused call, or by the worker.
GainRef(t) == refs' = [g \in Groups |-> IF g = GroupOf[t] THEN refs[g] + 1 ELSE refs[g]]
DropRef(t) == refs' = [g \in Groups |-> IF g = GroupOf[t] THEN refs[g] - 1 ELSE refs[g]]

\* Calls of C code that use a group's handle need one.
HandleCall ==
    \/ \E y \in GroupWaiters : refs[WaitsFor[y]] > 0 /\ GroupWaitCall(y)
    \/ \E g \in Groups : refs[g] > 0 /\ CloseStore(g)

\* cortlet_task_group_destroy closes the group and drops the handle's
\* reference.
GroupDestroy(g) ==
    /\ CloseNotify(g)
    /\ refs' = [refs EXCEPT ![g] = @ - 1]

GroupInterface ==
    /\ \/ UNCHANGED refs /\ HandleCall
       \/ UNCHANGED refs /\ \E y \in GroupWaiters : GroupWaitStep(y)
       \/ \E g \in Groups : GroupDestroy(g)
    /\ UNCHANGED <<sharedVars, statVars, pushVars, workerVars, clientVars,
                   poolVars, result, reader, snap, settled>>

-----------------------------------------------------------------------------
(* Submission *)

\* map_priority; any other integer is refused.
MapPriority(raw) == CASE raw = 0 -> "Low"
                      [] raw = 1 -> "Normal"
                      [] raw = 2 -> "High"
                      [] OTHER   -> "invalid"

\* Ok, and map_scheduler_error.
Answer(state) == CASE state = "ok"      -> "Ok"
                   [] state = "stopped" -> "SchedulerStopped"
                   [] state = "full"    -> "QueueFull"

\* The arguments of a call: which pointers are given, and the priority.  The
\* functions without a priority argument submit NORMAL tasks.
Arguments == [scheduler : BOOLEAN, group : BOOLEAN, task : BOOLEAN,
              priority : RawPriorities]

\* A call with a NULL pointer or an unknown priority returns at once.
Refuse(t) ==
    /\ push[t] = "idle" /\ result[t] = "none"
    /\ result' = [result EXCEPT ![t] = "InvalidArgument"]
    /\ UNCHANGED <<vars, refs, reader, snap, settled>>

\* A call with valid arguments enters push_internal, unless that returns at
\* its first check.
Enter(t) ==
    /\ result[t] = "none"
    /\ PushCall(t)
    /\ result' = [result EXCEPT ![t] =
                    IF push'[t] \in PushOver THEN Answer(push'[t]) ELSE "none"]
    /\ settled' = [x \in Waiters |-> FALSE]
    /\ UNCHANGED <<reader, snap>>

\* cortlet_sched_push, cortlet_sched_push_priority
SchedPush(t, a) ==
    /\ GroupOf[t] = NoGroup
    /\ IF a.scheduler /\ a.task /\ MapPriority(a.priority) # "invalid"
       THEN MapPriority(a.priority) = PriorityOf[t] /\ Enter(t) /\ UNCHANGED refs
       ELSE Refuse(t)

\* Mutant: the handle's reference is given away instead of a clone.
SchedPushGroup_NoClone(t, a) ==
    /\ GroupOf[t] # NoGroup
    /\ IF /\ a.scheduler /\ a.group /\ a.task
          /\ MapPriority(a.priority) # "invalid"
       THEN /\ MapPriority(a.priority) = PriorityOf[t]
            /\ refs[GroupOf[t]] > 0
            /\ Enter(t)
            /\ UNCHANGED refs
       ELSE Refuse(t)

\* cortlet_sched_push_group, cortlet_sched_push_group_priority: the Arc is
\* cloned before the call of push_internal.
SchedPushGroup(t, a) ==
    /\ GroupOf[t] # NoGroup
    /\ IF /\ a.scheduler /\ a.group /\ a.task
          /\ MapPriority(a.priority) # "invalid"
       THEN /\ MapPriority(a.priority) = PriorityOf[t]
            /\ refs[GroupOf[t]] > 0
            /\ Enter(t)
            /\ IF push'[t] \in PushOver THEN UNCHANGED refs ELSE GainRef(t)
       ELSE Refuse(t)

\* The try_ functions check the same and call the same push_internal.
SchedTryPush(t, a) == SchedPush(t, a)
SchedTryPushGroup(t, a) == SchedPushGroup(t, a)

\* Mutant: a refused call leaks the reference of its task.
PushGoesOn_LeaksRef(t) ==
    /\ PushStep(t)
    /\ result' = [result EXCEPT ![t] =
                    IF push'[t] \in PushOver THEN Answer(push'[t]) ELSE @]
    /\ UNCHANGED <<refs, reader, snap, settled>>

\* push_internal goes on; when it returns the call does, and a task that was
\* not published is dropped, with its reference.
PushGoesOn(t) ==
    /\ PushStep(t)
    /\ result' = [result EXCEPT ![t] =
                    IF push'[t] \in PushOver THEN Answer(push'[t]) ELSE @]
    /\ IF push'[t] \in PushOver \ {"ok"} THEN DropRef(t) ELSE UNCHANGED refs
    /\ UNCHANGED <<reader, snap, settled>>

\* execute_task drops the group reference when it is through with the group.
WorkerGoesOn(w) ==
    /\ WorkerStep(w)
    /\ IF current[w] # NoTask /\ current'[w] = NoTask
       THEN DropRef(current[w]) ELSE UNCHANGED refs
    /\ UNCHANGED <<result, reader, snap, settled>>

-----------------------------------------------------------------------------
(* cortlet_sched_get_stats *)

\* Nothing is on its way through the push functions.
NoPush == \A t \in Tasks : push[t] \in {"idle"} \cup PushOver

WaitReturns(x) ==
    /\ WaitCheck(x)
    /\ settled' = [settled EXCEPT ![x] = NoPush /\ wait'[x] = "returned"]
    /\ UNCHANGED <<refs, result, reader, snap>>

\* A client that has waited asks for the statistics.
GetStatsCall(x) ==
    /\ owner = "live"
    /\ wait[x] = "returned" /\ reader[x] = "idle"
    /\ reader' = [reader EXCEPT ![x] = "submitted"]
    /\ UNCHANGED <<vars, refs, result, snap, settled>>

Load(x, counter, value, next) ==
    /\ reader[x] = counter
    /\ snap' = [snap EXCEPT ![x][counter] = value]
    /\ reader' = [reader EXCEPT ![x] = next]
    /\ UNCHANGED <<vars, refs, result, settled>>

\* snapshot: one relaxed load after the other (those of the steal and
\* fairness counters, which the scheduler's state does not have, left out).
Snapshot(x) ==
    \/ Load(x, "submitted", submitted, "completed")
    \/ Load(x, "completed", completed, "rejected_full")
    \/ Load(x, "rejected_full", queue_full, "outstanding")

\* get_stats adds the number of outstanding tasks and returns.
LoadOutstanding(x) == Load(x, "outstanding", tasks_in_flight, "done")

-----------------------------------------------------------------------------
\* Destroying the scheduler while a client reads its statistics is excluded
\* by the C header, as for the other calls.
Lifecycle ==
    /\ \/ Destroy /\ \A x \in Waiters : reader[x] \in {"idle", "done"}
       \/ OwnerStep
       \/ ShutdownStore \/ ShutdownNotify
       \/ \E w \in Workers : Spawn(w)
       \/ \E x \in Waiters : WaitCall(x) \/ WaitPark(x)
    /\ UNCHANGED interfaceVars

InterfaceNext ==
    \/ \E g \in Groups : GroupCreate(g)
    \/ GroupInterface
    \/ \E t \in Tasks, a \in Arguments :
          \/ SchedPush(t, a) \/ SchedPushGroup(t, a)
          \/ SchedTryPush(t, a) \/ SchedTryPushGroup(t, a)
    \/ \E t \in Tasks : PushGoesOn(t)
    \/ \E w \in Workers : WorkerGoesOn(w)
    \/ \E x \in Waiters : \/ WaitReturns(x)
                           \/ GetStatsCall(x) \/ Snapshot(x) \/ LoadOutstanding(x)
    \/ Lifecycle

InterfaceSpec == InterfaceInit /\ [][InterfaceNext]_allVars

-----------------------------------------------------------------------------
\* A group is never used after it was freed: whoever is inside add_task,
\* task_completed, wait or close, or has a task of the group still to
\* complete, holds a reference, even when C code has destroyed the handle.
GroupAlive ==
    /\ \A t \in Tasks :
          member[t] \notin {"none", "left", "refused"} => refs[GroupOf[t]] > 0
    /\ \A y \in GroupWaiters :
          gwait[y] \in {"lock", "park", "parked"} => refs[WaitsFor[y]] > 0
    /\ \A g \in Groups : closed[g] = "closing" => refs[g] > 0

\* And it is freed: once the handle is destroyed and the last of its
\* submissions is over, refused, rolled back or executed, no reference is left.
GroupReleased ==
    \A g \in Groups :
       /\ closed[g] = "closed"
       /\ \A t \in Tasks : GroupOf[t] = g =>
             push[t] \in {"idle"} \cup PushOver /\ t \notin Waiting \cup InHand
       => refs[g] = 0

\* The code a push function returns is the truth: after CORTLET_OK the task
\* is queued, running or done and its group has counted it; after any other
\* code no queue, worker, slot or group knows of it, whichever of the checks
\* turned it away.
AnswerTrue ==
    \A t \in Tasks :
       /\ result[t] = "Ok" =>
             /\ t \in Waiting \cup InHand \cup executed
             /\ GroupOf[t] # NoGroup => member[t] \in {"member", "notify", "left"}
       /\ result[t] \notin {"Ok", "none"} =>
             /\ t \notin Slots \cup InHand \cup executed
             /\ member[t] \in {"none", "left", "refused"}

\* The statistics a client reads after cortlet_sched_wait account for what it
\* has waited for, although other clients go on submitting; and if nobody
\* does, they are settled: everything submitted is completed, nothing is
\* outstanding, and every QUEUE_FULL answer is counted.
SnapshotTrue ==
    \A x \in Waiters : reader[x] = "done" =>
       /\ snap[x].completed >= Cardinality(expect[x])
       /\ settled[x] =>
             /\ snap[x].submitted = snap[x].completed
             /\ snap[x].outstanding = 0
             /\ snap[x].rejected_full =
                   Cardinality({t \in Tasks : result[t] = "QueueFull"})

\* The inductive core of GroupAlive and GroupReleased: the strong count is
\* the handle and one for each task of the group that has not been dropped.
Holders(g) == {t \in Tasks : GroupOf[t] = g /\
                  \/ push[t] \notin {"idle"} \cup PushOver \cup Published
                  \/ t \in Waiting \cup InHand}
RefExact(g) ==
    refs[g] = Cardinality(Holders(g)) +
              (IF closed[g] = "closed" \/ refs[g] = 0 THEN 0 ELSE 1)
RefsExact == \A g \in Groups : RefExact(g)

\* A handle in use is a reference; C code destroys it when nobody waits.
HandlesAgree ==
    /\ \A g \in Groups : closed[g] = "closing" => refs[g] > 0
    /\ \A y \in GroupWaiters : gwait[y] \in {"lock", "park", "parked"} =>
          closed[WaitsFor[y]] = "open" /\ refs[WaitsFor[y]] > 0

RefsInv == refs \in [Groups -> Nat] /\ RefsExact /\ HandlesAgree

\* The inductive core of AnswerTrue: a call has its answer when push_internal
\* is through with it, or never saw it.
AnswersAgree ==
    \A t \in Tasks :
       /\ push[t] \in PushOver => result[t] = Answer(push[t])
       /\ push[t] = "idle" => result[t] \in {"none", "InvalidArgument"}
       /\ push[t] \notin {"idle"} \cup PushOver => result[t] = "none"

AnswersInv == result \in [Tasks -> Codes \cup {"none"}] /\ AnswersAgree

\* The inductive core of SnapshotTrue: what a returned wait has waited for is
\* counted as completed, and a settled scheduler stays as it is.
SnapshotAgrees(x) ==
    /\ settled[x] \/ reader[x] # "idle" => wait[x] = "returned"
    /\ wait[x] = "returned" => expect[x] \subseteq Finished
    /\ reader[x] \in {"rejected_full", "outstanding", "done"} =>
          snap[x]["completed"] >= Cardinality(expect[x])
    /\ settled[x] =>
          /\ NoPush /\ tasks_in_flight = 0
          /\ reader[x] \in {"completed", "rejected_full", "outstanding", "done"} =>
                snap[x]["submitted"] = submitted
          /\ reader[x] \in {"rejected_full", "outstanding", "done"} =>
                snap[x]["completed"] = completed
          /\ reader[x] \in {"outstanding", "done"} =>
                snap[x]["rejected_full"] = queue_full
          /\ reader[x] = "done" => snap[x]["outstanding"] = 0

SnapshotInv ==
    /\ reader \in [Waiters -> Loads \cup {"idle", "done"}]
    /\ snap \in [Waiters -> [Loads -> Nat]]
    /\ settled \in [Waiters -> BOOLEAN]
    /\ \A x \in Waiters : SnapshotAgrees(x)

InterfaceInv == RefsInv /\ AnswersInv /\ SnapshotInv
=============================================================================
