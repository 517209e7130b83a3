----------------------------- MODULE Scheduler -----------------------------
(***************************************************************************)
(* The scheduler: submission, shutdown, waiting, creation and destruction  *)
(* (src/src/scheduler.rs), and the workers (src/src/worker.rs), on top of  *)
(* the queues (TaskPool) and the task groups (TaskGroup).                  *)
(*                                                                         *)
(* The processes are                                                       *)
(*   - a submission t: one call of a push function (push_internal);        *)
(*   - a worker w: worker_main and execute_task;                           *)
(*   - a waiter x: one call of cortlet_sched_wait;                         *)
(*   - the stopper: calls of cortlet_sched_shutdown;                       *)
(*   - the owner: creates the scheduler and destroys it.                   *)
(* Each access to an atomic, the mutex or the condition variable is a step *)
(* of its own, except that a step which only releases the mutex is joined  *)
(* to the one before it, and one that only takes it to the one after it.   *)
(* Memory is sequentially consistent.                                      *)
(*                                                                         *)
(* No notify in this code holds sleep_lock, and one condition variable     *)
(* serves idle workers and waiters alike.                                  *)
(***************************************************************************)
EXTENDS TaskPool, TaskGroup

CONSTANTS
    Waiters,        \* the calls of cortlet_sched_wait
    QueueCapacity   \* queue_capacity; 0 means unlimited

ASSUME SchedulerAssumption ==
    /\ QueueCapacity \in Nat
    /\ NoThread \notin Workers \cup Waiters
    /\ Workers \cap Waiters = {}
    /\ Workers # {}             \* worker_count.max(1)

VARIABLES
    tasks_in_flight,    \* slots reserved and not given back
    sleeping_workers,   \* workers that may be parked
    shutdown,           \* set once, by begin_shutdown
    sleep_lock,         \* the mutex: its owner
    wake,               \* the condition variable: the threads parked on it
    submitted,          \* SchedulerStats: successful submissions
    completed,          \* SchedulerStats: completed tasks
    queue_full,         \* SchedulerStats: submissions rejected for capacity
    push,               \* where each submission is in push_internal
    seen_slots,         \* `current` of reserve_task_slot: the value last read
    wpc,                \* where each worker is in worker_main
    site,               \* which of its three lookups a worker has reached
    wait,               \* where each waiter is
    stopper,            \* "notify" between the two steps of begin_shutdown
    owner,              \* where the owner is
    executed,           \* the tasks whose callback has returned
    expect              \* history: what each waiter has to wait for

sharedVars == <<tasks_in_flight, sleeping_workers, shutdown, sleep_lock, wake>>
statVars   == <<submitted, completed, queue_full>>
pushVars   == <<push, seen_slots>>
workerVars == <<wpc, site, executed>>
clientVars == <<wait, stopper, owner, expect>>
vars == <<sharedVars, statVars, pushVars, workerVars, clientVars,
          poolVars, groupVars>>

(***************************************************************************)
(* A submission before it owns a slot, while it owns one that no task in   *)
(* the queues stands for, after publication, and when it is over.          *)
(***************************************************************************)
Reserving == {"reserve", "cas"}
Admitted  == {"group", "last_check", "publish"}
Holding   == {"recheck", "unreserve", "rollback"} \cup Admitted
Published == {"record", "wake", "notify", "ok"}
PushOver  == {"ok", "stopped", "full"}
PushStates == {"idle", "group_rollback"} \cup Reserving \cup Holding
              \cup Published \cup PushOver

(***************************************************************************)
(* A worker.  "run" to "dec" are execute_task up to the fetch_sub that     *)
(* gives the slot back; "notify" and "group" follow it.                    *)
(***************************************************************************)
BeforeDec == {"run", "complete", "dec"}
AfterDec  == {"notify", "group"}
WorkerStates == {"unspawned", "pop", "should_stop", "lock", "publish", "park",
                 "parked", "exited"} \cup BeforeDec \cup AfterDec
Sites == {"fast", "locked", "final"}

TypeOK ==
    /\ PoolTypeOK
    /\ GroupTypeOK
    /\ tasks_in_flight \in Nat /\ sleeping_workers \in Nat
    /\ shutdown \in BOOLEAN
    /\ sleep_lock \in Workers \cup Waiters \cup {NoThread}
    /\ wake \in SUBSET (Workers \cup Waiters)
    /\ submitted \in Nat /\ completed \in Nat /\ queue_full \in Nat
    /\ push \in [Tasks -> PushStates]
    /\ seen_slots \in [Tasks -> Nat]
    /\ wpc \in [Workers -> WorkerStates]
    /\ site \in [Workers -> Sites]
    /\ wait \in [Waiters -> {"idle", "lock", "park", "parked", "returned"}]
    /\ stopper \in {"idle", "notify"}
    /\ owner \in {"create", "live", "store", "notify", "join", "freed"}
    /\ executed \in SUBSET Tasks
    /\ expect \in [Waiters -> SUBSET Tasks]

Init ==
    /\ PoolInit
    /\ GroupInit
    /\ tasks_in_flight = 0 /\ sleeping_workers = 0
    /\ shutdown = FALSE
    /\ sleep_lock = NoThread
    /\ wake = {}
    /\ submitted = 0 /\ completed = 0 /\ queue_full = 0
    /\ push = [t \in Tasks |-> "idle"]
    /\ seen_slots = [t \in Tasks |-> 0]
    /\ wpc = [w \in Workers |-> "unspawned"]
    /\ site = [w \in Workers |-> "fast"]
    /\ wait = [x \in Waiters |-> "idle"]
    /\ stopper = "idle"
    /\ owner = "create"
    /\ executed = {}
    /\ expect = [x \in Waiters |-> {}]

-----------------------------------------------------------------------------
(* push_internal *)

PushTo(t, state) == push' = [push EXCEPT ![t] = state]

\* Mutant: a submission rejected by the first check gives back a slot that it
\* never reserved.
PushCall_ReleasesUnreserved(t) ==
    /\ owner = "live"
    /\ push[t] = "idle"
    /\ GroupOf[t] # NoGroup => closed[GroupOf[t]] = "open"
    /\ PushTo(t, IF shutdown THEN "unreserve" ELSE "reserve")
    /\ UNCHANGED <<sharedVars, statVars, seen_slots, workerVars, clientVars,
                   poolVars, groupVars>>

\* The call, up to the first look at the shutdown flag.
PushCall(t) ==
    /\ owner = "live"
    /\ push[t] = "idle"
    /\ GroupOf[t] # NoGroup => closed[GroupOf[t]] = "open"
    /\ PushTo(t, IF shutdown THEN "stopped" ELSE "reserve")
    /\ UNCHANGED <<sharedVars, statVars, seen_slots, workerVars, clientVars,
                   poolVars, groupVars>>

\* Mutant: a failed exchange retries with the value it already had.
ReserveRead_StaleRetry(t) ==
    /\ QueueCapacity # 0
    /\ push[t] = "reserve"
    /\ IF tasks_in_flight >= QueueCapacity
       THEN /\ PushTo(t, "full")
            /\ queue_full' = queue_full + 1
            /\ UNCHANGED seen_slots
       ELSE /\ PushTo(t, "cas")
            /\ seen_slots' = [seen_slots EXCEPT ![t] = tasks_in_flight]
            /\ UNCHANGED queue_full
    /\ UNCHANGED <<sharedVars, submitted, completed, workerVars, clientVars,
                   poolVars, groupVars>>

\* Mutant: the last slot is never given out.
ReserveRead_OneTooFew(t) ==
    /\ QueueCapacity # 0
    /\ \/ push[t] = "reserve"
       \/ push[t] = "cas" /\ tasks_in_flight # seen_slots[t]
    /\ IF tasks_in_flight + 1 >= QueueCapacity
       THEN /\ PushTo(t, "full")
            /\ queue_full' = queue_full + 1
            /\ UNCHANGED seen_slots
       ELSE /\ PushTo(t, "cas")
            /\ seen_slots' = [seen_slots EXCEPT ![t] = tasks_in_flight]
            /\ UNCHANGED queue_full
    /\ UNCHANGED <<sharedVars, submitted, completed, workerVars, clientVars,
                   poolVars, groupVars>>

\* reserve_task_slot with a capacity: the load, and each failed exchange,
\* bring in a value that is tested against the capacity.  A spurious failure
\* of compare_exchange_weak changes nothing.
ReserveRead(t) ==
    /\ QueueCapacity # 0
    /\ \/ push[t] = "reserve"
       \/ push[t] = "cas" /\ tasks_in_flight # seen_slots[t]
    /\ IF tasks_in_flight >= QueueCapacity
       THEN /\ PushTo(t, "full")
            /\ queue_full' = queue_full + 1
            /\ UNCHANGED seen_slots
       ELSE /\ PushTo(t, "cas")
            /\ seen_slots' = [seen_slots EXCEPT ![t] = tasks_in_flight]
            /\ UNCHANGED queue_full
    /\ UNCHANGED <<sharedVars, submitted, completed, workerVars, clientVars,
                   poolVars, groupVars>>

\* Mutant: fetch_add after the test instead of a compare-exchange.
ReserveSlot_FetchAdd(t) ==
    /\ \/ QueueCapacity = 0 /\ push[t] = "reserve"
       \/ push[t] = "cas"
    /\ tasks_in_flight' = tasks_in_flight + 1
    /\ PushTo(t, "recheck")
    /\ UNCHANGED <<sleeping_workers, shutdown, sleep_lock, wake, statVars,
                   seen_slots, workerVars, clientVars, poolVars, groupVars>>

\* reserve_task_slot takes the slot: by fetch_add without a capacity, else by an
\* exchange that finds the counter at the value it was last seen to have.  The
\* local `current` goes out of scope.
ReserveSlot(t) ==
    /\ \/ QueueCapacity = 0 /\ push[t] = "reserve"
       \/ push[t] = "cas" /\ tasks_in_flight = seen_slots[t]
    /\ tasks_in_flight' = tasks_in_flight + 1
    /\ seen_slots' = [seen_slots EXCEPT ![t] = 0]
    /\ PushTo(t, "recheck")
    /\ UNCHANGED <<sleeping_workers, shutdown, sleep_lock, wake, statVars,
                   workerVars, clientVars, poolVars, groupVars>>

\* Mutant: the second check rejects without giving the slot back.
PushRecheck_LeaksSlot(t) ==
    /\ push[t] = "recheck"
    /\ PushTo(t, IF shutdown THEN "stopped"
                 ELSE IF GroupOf[t] = NoGroup THEN "last_check" ELSE "group")
    /\ UNCHANGED <<sharedVars, statVars, seen_slots, workerVars, clientVars,
                   poolVars, groupVars>>

\* The second look at the shutdown flag, with the slot reserved.
PushRecheck(t) ==
    /\ push[t] = "recheck"
    /\ PushTo(t, IF shutdown THEN "unreserve"
                 ELSE IF GroupOf[t] = NoGroup THEN "last_check" ELSE "group")
    /\ UNCHANGED <<sharedVars, statVars, seen_slots, workerVars, clientVars,
                   poolVars, groupVars>>

\* task_group.add_task(): its steps, and its answer.
PushGroup(t) ==
    /\ push[t] = "group"
    /\ AddTaskStep(t)
    /\ PushTo(t, CASE member'[t] = "member"  -> "last_check"
                   [] member'[t] = "refused" -> "unreserve"
                   [] OTHER                  -> "group")
    /\ UNCHANGED <<sharedVars, statVars, seen_slots, workerVars, clientVars,
                   poolVars>>

\* Mutant: the last check gives back the slot but not the registration.
PushLastCheck_ForgetsGroup(t) ==
    /\ push[t] = "last_check"
    /\ PushTo(t, IF shutdown THEN "unreserve" ELSE "publish")
    /\ UNCHANGED <<sharedVars, statVars, seen_slots, workerVars, clientVars,
                   poolVars, groupVars>>

\* The last look at the shutdown flag.
PushLastCheck(t) ==
    /\ push[t] = "last_check"
    /\ PushTo(t, IF shutdown THEN "rollback" ELSE "publish")
    /\ UNCHANGED <<sharedVars, statVars, seen_slots, workerVars, clientVars,
                   poolVars, groupVars>>

\* release_task_slot: fetch_sub, and nobody is notified.
ReleaseSlot(t) ==
    /\ push[t] \in {"unreserve", "rollback"}
    /\ tasks_in_flight' = tasks_in_flight - 1
    /\ PushTo(t, IF push[t] = "rollback" /\ GroupOf[t] # NoGroup
                 THEN "group_rollback" ELSE "stopped")
    /\ UNCHANGED <<sleeping_workers, shutdown, sleep_lock, wake, statVars,
                   seen_slots, workerVars, clientVars, poolVars, groupVars>>

\* The group registration is rolled back after the slot.
GroupRollback(t) ==
    /\ push[t] = "group_rollback"
    /\ LeaveStep(t)
    /\ PushTo(t, IF member'[t] = "left" THEN "stopped" ELSE "group_rollback")
    /\ UNCHANGED <<sharedVars, statVars, seen_slots, workerVars, clientVars,
                   poolVars>>

\* Mutant: the flag is looked at after the task has been published.
Publish_ChecksLate(t) ==
    /\ push[t] = "publish"
    /\ PushGlobal(t)
    /\ PushTo(t, IF shutdown THEN "stopped" ELSE "record")
    /\ UNCHANGED <<sharedVars, statVars, seen_slots, workerVars, clientVars,
                   groupVars>>

\* The task becomes visible to the workers.
Publish(t) ==
    /\ push[t] = "publish"
    /\ PushGlobal(t)
    /\ PushTo(t, "record")
    /\ UNCHANGED <<sharedVars, statVars, seen_slots, workerVars, clientVars,
                   groupVars>>

\* Mutant: the submission publishes its task again.
RecordSubmission_PublishesAgain(t) ==
    /\ push[t] = "record"
    /\ submitted' = submitted + 1
    /\ PushGlobal(t)
    /\ PushTo(t, "wake")
    /\ UNCHANGED <<sharedVars, completed, queue_full, seen_slots, workerVars,
                   clientVars, groupVars>>

RecordSubmission(t) ==
    /\ push[t] = "record"
    /\ submitted' = submitted + 1
    /\ PushTo(t, "wake")
    /\ UNCHANGED <<sharedVars, completed, queue_full, seen_slots, workerVars,
                   clientVars, poolVars, groupVars>>

\* wake_one: notify only if a worker may be sleeping ...
WakeOneCheck(t) ==
    /\ push[t] = "wake"
    /\ PushTo(t, IF sleeping_workers # 0 THEN "notify" ELSE "ok")
    /\ UNCHANGED <<sharedVars, statVars, seen_slots, workerVars, clientVars,
                   poolVars, groupVars>>

\* ... and then notify_one, which takes any one thread off the condition
\* variable, be it a worker or a waiter.
NotifyOne == IF wake = {} THEN wake' = {} ELSE \E x \in wake : wake' = wake \ {x}

WakeOneNotify(t) ==
    /\ push[t] = "notify"
    /\ NotifyOne
    /\ PushTo(t, "ok")
    /\ UNCHANGED <<tasks_in_flight, sleeping_workers, shutdown, sleep_lock,
                   statVars, seen_slots, workerVars, clientVars, poolVars,
                   groupVars>>

\* A submission that has begun goes on by itself.
PushStep(t) ==
    \/ ReserveRead(t) \/ ReserveSlot(t)
    \/ PushRecheck(t) \/ PushGroup(t) \/ PushLastCheck(t)
    \/ ReleaseSlot(t) \/ GroupRollback(t)
    \/ Publish(t) \/ RecordSubmission(t) \/ WakeOneCheck(t) \/ WakeOneNotify(t)

-----------------------------------------------------------------------------
(* worker_main and execute_task *)

WorkerTo(w, state) == wpc' = [wpc EXCEPT ![w] = state]

\* Leaving the sleep region: a worker past its second fetch undoes the
\* sleeping_workers count, and one past its first releases the mutex.
LeaveSleepRegion(w) ==
    /\ sleeping_workers' = IF site[w] = "final" THEN sleeping_workers - 1
                                                ELSE sleeping_workers
    /\ sleep_lock' = IF site[w] = "fast" THEN sleep_lock ELSE NoThread
    /\ site' = [site EXCEPT ![w] = "fast"]

\* One step of the lookup a worker is in.
Lookup(w) ==
    /\ wpc[w] = "pop"
    /\ PopCall(w) \/ PopStep(w)
    /\ UNCHANGED <<sharedVars, statVars, pushVars, workerVars, clientVars,
                   groupVars>>

\* Mutant: a task found by the last lookup before sleeping is ignored.
LookupDone_IgnoresFinal(w) ==
    /\ wpc[w] = "pop"
    /\ pos[w] \in {"task", "retry"}
    /\ PopReturn(w)
    /\ LeaveSleepRegion(w)
    /\ WorkerTo(w, IF pos[w] = "task" /\ site[w] # "final" THEN "run" ELSE "pop")
    /\ UNCHANGED <<tasks_in_flight, shutdown, wake, statVars, pushVars,
                   executed, clientVars, groupVars>>

\* Mutant: Retry is taken for Empty.
LookupDone_RetrySleeps(w) ==
    /\ wpc[w] = "pop"
    /\ pos[w] \in {"task", "retry"}
    /\ PopReturn(w)
    /\ IF pos[w] = "task"
       THEN LeaveSleepRegion(w) /\ WorkerTo(w, "run")
       ELSE WorkerTo(w, "should_stop") /\ UNCHANGED <<sleeping_workers, sleep_lock, site>>
    /\ UNCHANGED <<tasks_in_flight, shutdown, wake, statVars, pushVars,
                   executed, clientVars, groupVars>>

\* PopResult::Task and PopResult::Retry leave the sleep region.
LookupDone(w) ==
    /\ wpc[w] = "pop"
    /\ pos[w] \in {"task", "retry"}
    /\ PopReturn(w)
    /\ LeaveSleepRegion(w)
    /\ WorkerTo(w, IF pos[w] = "task" THEN "run" ELSE "pop")
    /\ UNCHANGED <<tasks_in_flight, shutdown, wake, statVars, pushVars,
                   executed, clientVars, groupVars>>

LookupEmpty(w) ==
    /\ wpc[w] = "pop"
    /\ pos[w] = "empty"
    /\ PopReturn(w)
    /\ WorkerTo(w, "should_stop")
    /\ UNCHANGED <<sharedVars, statVars, pushVars, site, executed, clientVars,
                   groupVars>>

\* Mutant: the shutdown flag alone stops a worker.
ShouldStop_FlagOnly == shutdown

\* should_stop.  The flag is loaded before the counter and is never cleared,
\* so the two loads are one.
ShouldStop == shutdown /\ tasks_in_flight = 0

Exit(w) ==
    /\ wpc[w] = "should_stop"
    /\ ShouldStop
    /\ LeaveSleepRegion(w)
    /\ WorkerTo(w, "exited")
    /\ UNCHANGED <<tasks_in_flight, shutdown, wake, statVars, pushVars,
                   executed, clientVars, poolVars, groupVars>>

GoOn(w) ==
    /\ wpc[w] = "should_stop"
    /\ ~ShouldStop
    /\ WorkerTo(w, CASE site[w] = "fast"   -> "lock"
                     [] site[w] = "locked" -> "publish"
                     [] site[w] = "final"  -> "park")
    /\ UNCHANGED <<sharedVars, statVars, pushVars, site, executed, clientVars,
                   poolVars, groupVars>>

\* The slow path: take the mutex and look again.
Lock(w) ==
    /\ wpc[w] = "lock"
    /\ sleep_lock = NoThread
    /\ sleep_lock' = w
    /\ site' = [site EXCEPT ![w] = "locked"]
    /\ WorkerTo(w, "pop")
    /\ UNCHANGED <<tasks_in_flight, sleeping_workers, shutdown, wake, statVars,
                   pushVars, executed, clientVars, poolVars, groupVars>>

\* Mutant: the worker goes to sleep unannounced.
PublishSleeping_Uncounted(w) ==
    /\ wpc[w] = "publish"
    /\ site' = [site EXCEPT ![w] = "final"]
    /\ WorkerTo(w, "pop")
    /\ UNCHANGED <<tasks_in_flight, sleeping_workers, shutdown, sleep_lock,
                   wake, statVars, pushVars, executed, clientVars, poolVars,
                   groupVars>>

\* Announce the intention to sleep, then look a last time.
PublishSleeping(w) ==
    /\ wpc[w] = "publish"
    /\ sleeping_workers' = sleeping_workers + 1
    /\ site' = [site EXCEPT ![w] = "final"]
    /\ WorkerTo(w, "pop")
    /\ UNCHANGED <<tasks_in_flight, shutdown, sleep_lock, wake, statVars,
                   pushVars, executed, clientVars, poolVars, groupVars>>

\* Condvar::wait: enqueue and release the mutex, atomically.
Park(w) ==
    /\ wpc[w] = "park"
    /\ wake' = wake \cup {w}
    /\ sleep_lock' = NoThread
    /\ WorkerTo(w, "parked")
    /\ UNCHANGED <<tasks_in_flight, sleeping_workers, shutdown, statVars,
                   pushVars, site, executed, clientVars, poolVars, groupVars>>

\* Notified: Condvar::wait takes the mutex back, the count is undone, and
\* the guard is dropped at the end of the loop body.
Resume(w) ==
    /\ wpc[w] = "parked"
    /\ w \notin wake
    /\ sleep_lock = NoThread
    /\ LeaveSleepRegion(w)
    /\ WorkerTo(w, "pop")
    /\ UNCHANGED <<tasks_in_flight, shutdown, wake, statVars, pushVars,
                   executed, clientVars, poolVars, groupVars>>

\* Mutant: the completion is not recorded.
Execute_Unrecorded(w) ==
    /\ wpc[w] = "run"
    /\ executed' = executed \cup {current[w]}
    /\ WorkerTo(w, "dec")
    /\ UNCHANGED <<sharedVars, statVars, pushVars, site, clientVars, poolVars,
                   groupVars>>

\* task.execute(): the callback returns.
Execute(w) ==
    /\ wpc[w] = "run"
    /\ executed' = executed \cup {current[w]}
    /\ WorkerTo(w, "complete")
    /\ UNCHANGED <<sharedVars, statVars, pushVars, site, clientVars, poolVars,
                   groupVars>>

RecordCompletion(w) ==
    /\ wpc[w] = "complete"
    /\ completed' = completed + 1
    /\ WorkerTo(w, "dec")
    /\ UNCHANGED <<sharedVars, submitted, queue_full, pushVars, site, executed,
                   clientVars, poolVars, groupVars>>

\* Mutant: the group is never told that its task is done.
AfterAccounting_ForgetsGroup(w) == WorkerTo(w, "pop") /\ DropTask(w)

\* Behind the scheduler-wide accounting: the group's, if there is one; else
\* execute_task returns and the loop goes round.
AfterAccounting(w) ==
    IF GroupOf[current[w]] = NoGroup
    THEN WorkerTo(w, "pop") /\ DropTask(w)
    ELSE WorkerTo(w, "group") /\ UNCHANGED poolVars

\* Mutant: the thread that saw 2 notifies.
TaskCompleted_NotifiesAtOne(w) ==
    /\ wpc[w] = "dec"
    /\ tasks_in_flight' = tasks_in_flight - 1
    /\ IF tasks_in_flight' = 1
       THEN WorkerTo(w, "notify") /\ UNCHANGED poolVars
       ELSE AfterAccounting(w)
    /\ UNCHANGED <<sleeping_workers, shutdown, sleep_lock, wake, statVars,
                   pushVars, site, executed, clientVars, groupVars>>

\* task_completed: fetch_sub, and the thread that saw 1 notifies.
TaskCompleted(w) ==
    /\ wpc[w] = "dec"
    /\ tasks_in_flight' = tasks_in_flight - 1
    /\ IF tasks_in_flight = 1
       THEN WorkerTo(w, "notify") /\ UNCHANGED poolVars
       ELSE AfterAccounting(w)
    /\ UNCHANGED <<sleeping_workers, shutdown, sleep_lock, wake, statVars,
                   pushVars, site, executed, clientVars, groupVars>>

NotifyIdle(w) ==
    /\ wpc[w] = "notify"
    /\ wake' = {}
    /\ AfterAccounting(w)
    /\ UNCHANGED <<tasks_in_flight, sleeping_workers, shutdown, sleep_lock,
                   statVars, pushVars, site, executed, clientVars, groupVars>>

\* Mutant: the worker counts the task out of its group without the test for
\* the last one, so that nobody is notified.
LeaveGroup_NeverNotifies(w) ==
    /\ wpc[w] = "group"
    /\ LET t == current[w] IN
          /\ group_tasks' = [group_tasks EXCEPT ![GroupOf[t]] = @ - 1]
          /\ member' = [member EXCEPT ![t] = "left"]
    /\ WorkerTo(w, "pop")
    /\ DropTask(w)
    /\ UNCHANGED <<closed, wait_lock, group_wake, gwait, gexpect>>
    /\ UNCHANGED <<sharedVars, statVars, pushVars, site, executed, clientVars>>

\* group.task_completed()
LeaveGroup(w) ==
    /\ wpc[w] = "group"
    /\ LeaveStep(current[w])
    /\ IF member'[current[w]] = "left"
       THEN WorkerTo(w, "pop") /\ DropTask(w)
       ELSE UNCHANGED <<wpc, poolVars>>
    /\ UNCHANGED <<sharedVars, statVars, pushVars, site, executed, clientVars>>

WorkerStep(w) ==
    \/ Lookup(w) \/ LookupDone(w) \/ LookupEmpty(w) \/ Exit(w) \/ GoOn(w)
    \/ Lock(w) \/ PublishSleeping(w) \/ Park(w) \/ Resume(w)
    \/ Execute(w) \/ RecordCompletion(w) \/ TaskCompleted(w) \/ NotifyIdle(w)
    \/ LeaveGroup(w)

-----------------------------------------------------------------------------
(* wait, shutdown, create and drop *)

\* The tasks that have been published and not completed so far.
Outstanding == {t \in Tasks : push[t] \in Published} \ executed

WaitCall(x) ==
    /\ owner = "live"
    /\ wait[x] = "idle"
    /\ wait' = [wait EXCEPT ![x] = "lock"]
    /\ expect' = [expect EXCEPT ![x] = Outstanding]
    /\ UNCHANGED <<sharedVars, statVars, pushVars, workerVars, stopper, owner,
                   poolVars, groupVars>>

\* Mutant: `if` instead of `while`, a notified waiter returns untested.
WaitCheck_NoRetest(x) ==
    /\ \/ wait[x] = "lock"
       \/ wait[x] = "parked" /\ x \notin wake
    /\ sleep_lock = NoThread
    /\ IF tasks_in_flight = 0 \/ wait[x] = "parked"
       THEN wait' = [wait EXCEPT ![x] = "returned"] /\ UNCHANGED sleep_lock
       ELSE wait' = [wait EXCEPT ![x] = "park"] /\ sleep_lock' = x
    /\ UNCHANGED <<tasks_in_flight, sleeping_workers, shutdown, wake, statVars,
                   pushVars, workerVars, stopper, owner, expect, poolVars,
                   groupVars>>

\* With the mutex in hand, test the counter: return, or go on to park.
WaitCheck(x) ==
    /\ \/ wait[x] = "lock"
       \/ wait[x] = "parked" /\ x \notin wake
    /\ sleep_lock = NoThread
    /\ IF tasks_in_flight = 0
       THEN wait' = [wait EXCEPT ![x] = "returned"] /\ UNCHANGED sleep_lock
       ELSE wait' = [wait EXCEPT ![x] = "park"] /\ sleep_lock' = x
    /\ UNCHANGED <<tasks_in_flight, sleeping_workers, shutdown, wake, statVars,
                   pushVars, workerVars, stopper, owner, expect, poolVars,
                   groupVars>>

WaitPark(x) ==
    /\ wait[x] = "park"
    /\ wait' = [wait EXCEPT ![x] = "parked"]
    /\ wake' = wake \cup {x}
    /\ sleep_lock' = NoThread
    /\ UNCHANGED <<tasks_in_flight, sleeping_workers, shutdown, statVars,
                   pushVars, workerVars, stopper, owner, expect, poolVars,
                   groupVars>>

\* begin_shutdown: the flag, then notify_all.
ShutdownStore ==
    /\ owner = "live"
    /\ stopper = "idle"
    /\ shutdown' = TRUE
    /\ stopper' = "notify"
    /\ UNCHANGED <<tasks_in_flight, sleeping_workers, sleep_lock, wake,
                   statVars, pushVars, workerVars, wait, owner, expect,
                   poolVars, groupVars>>

ShutdownNotify ==
    /\ stopper = "notify"
    /\ wake' = {}
    /\ stopper' = "idle"
    /\ UNCHANGED <<tasks_in_flight, sleeping_workers, shutdown, sleep_lock,
                   statVars, pushVars, workerVars, wait, owner, expect,
                   poolVars, groupVars>>

\* create: start the workers; a thread that cannot be started makes create
\* shut down and join those that were.
Spawn(w) ==
    /\ owner = "create"
    /\ wpc[w] = "unspawned"
    /\ WorkerTo(w, "pop")
    /\ UNCHANGED <<sharedVars, statVars, pushVars, site, executed, clientVars,
                   poolVars, groupVars>>

OwnerTo(state) ==
    /\ owner' = state
    /\ UNCHANGED <<statVars, pushVars, workerVars, wait, stopper, expect,
                   poolVars, groupVars>>

Created ==
    /\ owner = "create"
    /\ \A w \in Workers : wpc[w] # "unspawned"
    /\ OwnerTo("live")
    /\ UNCHANGED sharedVars

SpawnFails ==
    /\ owner = "create"
    /\ \E w \in Workers : wpc[w] = "unspawned"
    /\ OwnerTo("store")
    /\ UNCHANGED sharedVars

\* cortlet_sched_destroy.  That no other call on the scheduler is in progress
\* is the C header's contract.
Destroy ==
    /\ owner = "live"
    /\ \A t \in Tasks : push[t] \in {"idle"} \cup PushOver
    /\ \A x \in Waiters : wait[x] \in {"idle", "returned"}
    /\ stopper = "idle"
    /\ OwnerTo("store")
    /\ UNCHANGED sharedVars

\* drop, and the error path of create: begin_shutdown and join.
OwnerStore ==
    /\ owner = "store"
    /\ shutdown' = TRUE
    /\ OwnerTo("notify")
    /\ UNCHANGED <<tasks_in_flight, sleeping_workers, sleep_lock, wake>>

\* Mutant: begin_shutdown stores the flag and notifies nobody.
OwnerNotify_Silent ==
    /\ owner = "notify"
    /\ OwnerTo("join")
    /\ UNCHANGED sharedVars

OwnerNotify ==
    /\ owner = "notify"
    /\ wake' = {}
    /\ OwnerTo("join")
    /\ UNCHANGED <<tasks_in_flight, sleeping_workers, shutdown, sleep_lock>>

\* Mutant: the scheduler is freed without joining its workers.
OwnerJoin_Detaches ==
    /\ owner = "join"
    /\ OwnerTo("freed")
    /\ UNCHANGED sharedVars

OwnerJoin ==
    /\ owner = "join"
    /\ \A w \in Workers : wpc[w] \in {"unspawned", "exited"}
    /\ OwnerTo("freed")
    /\ UNCHANGED sharedVars

-----------------------------------------------------------------------------
GroupClient ==
    /\ \/ GroupCall
       \/ \E g \in Groups : CloseNotify(g)
       \/ \E x \in GroupWaiters : GroupWaitStep(x)
    /\ UNCHANGED <<sharedVars, statVars, pushVars, workerVars, clientVars,
                   poolVars>>

OwnerStep == Created \/ SpawnFails \/ OwnerStore \/ OwnerNotify \/ OwnerJoin

Next ==
    \/ \E t \in Tasks : PushCall(t) \/ PushStep(t)
    \/ \E w \in Workers : Spawn(w) \/ WorkerStep(w)
    \/ \E x \in Waiters : WaitCall(x) \/ WaitCheck(x) \/ WaitPark(x)
    \/ ShutdownStore \/ ShutdownNotify
    \/ Destroy \/ OwnerStep
    \/ GroupClient

Spec == Init /\ [][Next]_vars

(***************************************************************************)
(* Fairness.  Every started thread keeps running, callbacks return, and    *)
(* nobody is obliged to call the library.  A thread that finds the mutex   *)
(* free again and again gets it (parking_lot hands it over eventually),    *)
(* and a lookup that finds a task again and again does not lose the race   *)
(* for it for ever: Steal::Retry means that another thread made progress.  *)
(***************************************************************************)
Fairness ==
    /\ \A t \in Tasks : WF_vars(PushStep(t))
    /\ \A w \in Workers :
          /\ WF_vars(Spawn(w) \/ WorkerStep(w))
          /\ SF_vars(Lock(w) \/ Resume(w))
          /\ SF_vars(Lookup(w) /\ TakeTask(w))
    /\ \A x \in Waiters : SF_vars(WaitCheck(x)) /\ WF_vars(WaitPark(x))
    /\ WF_vars(ShutdownNotify) /\ WF_vars(OwnerStep)

FairSpec == Spec /\ Fairness

-----------------------------------------------------------------------------
(* Safety *)

\* The tasks a slot of tasks_in_flight stands for: reserved by a submission
\* that has not published its task or given up, waiting in a queue, or taken
\* by a worker that has not given the slot back.
HeldByPush == {t \in Tasks : push[t] \in Holding}
InService  == {t \in Tasks : \E w \in Workers :
                   current[w] = t /\ wpc[w] \notin AfterDec}
Slots == HeldByPush \cup Waiting \cup InService

\* tasks_in_flight is exact at every step of every interleaving of
\* reservations, roll-backs, publications and completions; so it neither
\* leaks a slot nor wraps below zero.
Accounting == tasks_in_flight = Cardinality(Slots)

\* A bounded scheduler never has more accepted, unfinished tasks than its
\* capacity, however many producers race through the compare-exchange loop.
CapacityRespected ==
    QueueCapacity # 0 =>
        /\ tasks_in_flight <= QueueCapacity
        /\ Cardinality(Outstanding) <= QueueCapacity

\* A task whose submission was accepted is waiting, in a worker's hands or
\* executed, never two of these (so it runs exactly once); a task whose
\* submission was rejected or rolled back is nowhere.
AcceptedExactlyOnce ==
    \A t \in Tasks :
       IF push[t] \in Published
       THEN /\ t \in Waiting \cup InHand \cup executed
            /\ t \in executed =>
                  /\ t \notin Waiting
                  /\ \A w \in Workers : current[w] = t =>
                        wpc[w] \in {"complete", "dec"} \cup AfterDec
       ELSE t \notin Waiting \cup InHand \cup executed

\* A worker exits only when the work is really over: from then on nothing
\* accepted is unfinished, and no submission under way can still publish,
\* although it may have passed its first look at the shutdown flag.
GracefulExit ==
    (\E w \in Workers : wpc[w] = "exited") =>
        /\ Outstanding = {}
        /\ \A t \in Tasks : push[t] \notin Admitted

\* When destroy returns, every accepted task has run, every counter is back
\* at zero and no group is left waiting for one of the scheduler's tasks.
DestroyDrains ==
    owner = "freed" =>
        /\ Outstanding = {}
        /\ tasks_in_flight = 0 /\ sleeping_workers = 0
        /\ \A t \in Tasks : member[t] \notin Counted

\* cortlet_sched_wait does not return early: all tasks accepted before the
\* call have run when it returns.
WaitSound == \A x \in Waiters : wait[x] = "returned" => expect[x] \subseteq executed

\* It returns at an instant at which the scheduler is idle: no task waits, no
\* submission holds a slot and no callback is running; not even one that has
\* called cortlet_sched_wait itself, which therefore waits for ever.
WaitReturnsIdle ==
    [][\A x \in Waiters : wait[x] # "returned" /\ wait'[x] = "returned"
          => Slots = {}]_vars

\* TaskGroup::wait does not return early either: the tasks that were members
\* of the group at the call have run, or their submission was rolled back.
GroupWaitRan ==
    \A y \in GroupWaiters : gwait[y] = "returned" =>
        \A t \in gexpect[y] :
            t \in executed \/ push[t] \in {"group_rollback", "stopped"}

\* A worker on the condition variable is always counted in sleeping_workers,
\* so wake_one's test never skips the notification of a parked worker; and
\* the count, which four paths take back, never exceeds the pool.
SleepersCounted ==
    /\ Cardinality(wake \cap Workers) <= sleeping_workers
    /\ sleeping_workers <= Cardinality(Workers)

\* A local deque with tasks in it belongs to a worker that is awake and will
\* look into it again: batch stealing never strands tasks with a sleeper.
DequeOwnerAwake ==
    \A w \in Workers : local[w] \cup batch[w] # {} =>
        wpc[w] \in {"pop"} \cup BeforeDec \cup AfterDec

\* The submission and completion statistics agree with the slots: what has
\* been counted as submitted is counted as completed or still holds a slot,
\* and with no submission under way an idle scheduler has equal counts.
StatsSettle ==
    /\ submitted <= completed + tasks_in_flight
    /\ /\ tasks_in_flight = 0
       /\ \A t \in Tasks : push[t] \in {"idle"} \cup PushOver
       => submitted = completed /\ completed = Cardinality(executed)

(***************************************************************************)
(* The inductive invariant behind Accounting, CapacityRespected,           *)
(* AcceptedExactlyOnce, GracefulExit, WaitSound and SleepersCounted.       *)
(***************************************************************************)

\* A worker has a task in hand from the moment its lookup finds one to the
\* end of execute_task, and the callback comes before the accounting.
HandsAgree ==
    \A w \in Workers :
       /\ wpc[w] # "pop" => pos[w] = "idle"
       /\ pos[w] = "idle" =>
             (current[w] # NoTask <=> wpc[w] \in BeforeDec \cup AfterDec)
       /\ wpc[w] \in {"complete", "dec"} \cup AfterDec => current[w] \in executed

\* The value a compare-exchange will install is within the capacity.
CasWithinCapacity ==
    QueueCapacity # 0 =>
        /\ tasks_in_flight <= QueueCapacity
        /\ \A t \in Tasks : push[t] = "cas" => seen_slots[t] < QueueCapacity

\* Once a worker has exited, the only slots are those of submissions that
\* have still to look at the shutdown flag, or are giving up already.
Fenced ==
    (\E w \in Workers : wpc[w] = "exited") =>
        /\ shutdown
        /\ \A t \in Slots : push[t] \in {"recheck", "unreserve"}

\* What a waiter has to wait for was accepted.
ExpectAccepted ==
    \A x \in Waiters : \A t \in expect[x] : push[t] \in Published

\* How deep a worker is in the sleep region fits where it is in the loop, and
\* only a parked worker is on the condition variable.
SitesAgree ==
    \A w \in Workers :
       /\ wpc[w] = "publish" => site[w] = "locked"
       /\ wpc[w] \in {"park", "parked"} => site[w] = "final"
       /\ wpc[w] \in {"unspawned", "lock", "exited"} \cup BeforeDec \cup AfterDec
             => site[w] = "fast"
       /\ w \in wake => wpc[w] = "parked"

\* sleeping_workers counts the workers past their announcement.
Sleepers == {w \in Workers : site[w] = "final"}
SleepersExact == sleeping_workers = Cardinality(Sleepers)

Inv ==
    /\ TypeOK /\ PoolInv /\ GroupInv
    /\ HandsAgree /\ AcceptedExactlyOnce /\ Accounting
    /\ CasWithinCapacity /\ Fenced /\ ExpectAccepted /\ WaitSound
    /\ SitesAgree /\ SleepersExact

(***************************************************************************)
(* What DestroyDrains, GroupWaitRan, DequeOwnerAwake and StatsSettle need  *)
(* on top of it.                                                           *)
(***************************************************************************)

\* Where a submission is in its group fits where it is in push_internal and,
\* once it is published, where its task is.
MemberAgrees(t) ==
    /\ push[t] \in {"idle", "recheck", "full"} \cup Reserving => member[t] = "none"
    /\ push[t] = "group" =>
          member[t] \in {"none", "checked", "counted", "undo", "undo_notify"}
    /\ push[t] \in {"last_check", "publish", "rollback"} =>
          member[t] = IF GroupOf[t] = NoGroup THEN "none" ELSE "member"
    /\ push[t] = "group_rollback" => member[t] \in {"member", "notify"}
    /\ push[t] = "unreserve" => member[t] \in {"none", "refused"}
    /\ push[t] = "stopped" => member[t] \in {"none", "refused", "left"}
    /\ push[t] \in Published =>
          /\ member[t] \in IF GroupOf[t] = NoGroup THEN {"none"}
                           ELSE {"member", "notify", "left"}
          /\ member[t] \in {"member", "notify"} => t \in Waiting \cup InHand
          /\ member[t] = "left" => t \notin Waiting \cup InHand
          /\ member[t] = "notify" =>
                \E w \in Workers : current[w] = t /\ wpc[w] = "group"
MembersAgree == \A t \in Tasks : MemberAgrees(t)

\* Submissions belong to the life of the scheduler: none before all workers
\* are started, none under way once it is being destroyed.
OwnerAgrees ==
    /\ owner = "live" => \A w \in Workers : wpc[w] # "unspawned"
    /\ owner = "create" \/ (\E w \in Workers : wpc[w] = "unspawned") =>
          \A t \in Tasks : push[t] = "idle"
    /\ owner # "live" => \A t \in Tasks : push[t] \in {"idle"} \cup PushOver
    /\ owner = "freed" => \A w \in Workers : wpc[w] \in {"unspawned", "exited"}

\* The statistics count submissions and completions exactly.
Recorded == {t \in Tasks : push[t] \in {"wake", "notify", "ok"}}
Finished == {t \in executed : \A w \in Workers :
                current[w] = t => wpc[w] # "complete"}
StatsExact ==
    /\ submitted = Cardinality(Recorded)
    /\ completed = Cardinality(Finished)
    /\ queue_full = Cardinality({t \in Tasks : push[t] = "full"})

\* A worker that has looked into its own deque, and found no task since, has
\* left it empty; only the worker itself puts tasks there.
DequesAgree ==
    \A w \in Workers :
       \/ wpc[w] = "pop" /\ pos[w] \notin {"high", "normal", "low", "peers", "empty"}
       \/ wpc[w] \in BeforeDec \cup AfterDec
       \/ local[w] = {}

DrainInv == MembersAgree /\ OwnerAgrees /\ StatsExact /\ DequesAgree

(***************************************************************************)
(* The scheduler implements Executor.                                      *)
(***************************************************************************)
Life(t) ==
    CASE push[t] = "idle"                           -> "new"
      [] push[t] = "full"                           -> "full"
      [] push[t] \in {"stopped", "group_rollback"}  -> "refused"
      [] push[t] \in Reserving                      -> "offered"
      [] push[t] \in Holding                        -> "reserved"
      [] push[t] \in Published ->
            IF t \in Waiting        THEN "accepted"
            ELSE IF t \in InService THEN "claimed"
            ELSE IF t \in executed  THEN "done"
            ELSE                         "lost"

Exec == INSTANCE Executor WITH
            life         <- [t \in Tasks |-> Life(t)],
            stopped      <- shutdown,
            over         <- owner = "freed",
            closedGroups <- {g \in Groups : closed[g] # "open"},
            returned     <- {x \in Waiters : wait[x] = "returned"}

\* Seen from outside, the scheduler with its slots, queues, workers and
\* roll-backs is the executor its interface promises: QUEUE_FULL is answered
\* only when slots in use fill the capacity, and a slot is given back before
\* publication only for shutdown or a closed group.
ImplementsExecutor == Exec!ExecSpec

\* What the refinement needs on top of Inv and DrainInv: a registration is
\* undone and a slot given back for a reason, and nobody joins the workers
\* before shutdown.
ExecInv ==
    /\ \A t \in Tasks :
          /\ member[t] \in {"undo", "undo_notify"} => closed[GroupOf[t]] # "open"
          /\ push[t] = "unreserve" =>
                \/ shutdown
                \/ GroupOf[t] \in Groups /\ closed[GroupOf[t]] # "open"
          /\ push[t] = "rollback" => shutdown
    /\ owner \in {"notify", "join", "freed"} => shutdown

-----------------------------------------------------------------------------
(* Liveness *)

\* Every submission returns: the compare-exchange loop ends, because each
\* failed exchange is another submission's or a completion's success, and
\* every roll-back comes to its end.
PushReturns == []<>(\A t \in Tasks : push[t] \in {"idle"} \cup PushOver)

-----------------------------------------------------------------------------
(* What the comments of the code claim, and its interleavings refute *)

\* worker.rs:345-352, the final check "closes the race between task
\* submission and the worker actually entering Condvar::wait()": an accepted
\* task runs.
AcceptedRuns == \A t \in Tasks : push[t] = "ok" ~> t \in executed

\* worker.rs:103-105, "1 -> 0 means the scheduler has become idle.  Wake all
\* threads waiting inside cortlet_sched_wait()": a step that takes the counter
\* from 1 to 0 is followed by a notification.
IdleIsAnnounced ==
    [][tasks_in_flight = 1 /\ tasks_in_flight' = 0
         => \E w \in Workers : wpc'[w] = "notify"]_vars

\* worker.rs:150, wake_one "wakes one worker": if a worker is parked, the
\* notification goes to a worker.
WakeOneWakesWorker ==
    [][\A t \in Tasks :
         push[t] = "notify" /\ push'[t] = "ok" /\ wake \cap Workers # {}
            => (wake \ wake') \cap Workers # {}]_vars

\* worker.rs:143-146, begin_shutdown "wakes all sleeping workers so they can
\* either drain work or observe that shutdown is complete": destroy returns.
DestroyReturns == owner = "store" ~> owner = "freed"

=============================================================================
