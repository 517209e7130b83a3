# Verification of libcortlet-upgradesched

TLA+ specifications of the task scheduler in `src/src/`, TLC configurations that
check them on small instances, and TLAPS proofs that hold for every number of
workers, submissions, waiters and groups, for every capacity, every burst limit
and every width of the wrapping counters.

The library is a multi-threaded scheduler behind a C interface. Producers push
callbacks; a fixed pool of worker threads runs them; clients wait for all tasks
or for the tasks of a group; shutdown rejects new tasks and lets the workers
drain what was accepted.

## 1. Inventory

| Component | State | Operations | Hard part |
|---|---|---|---|
| `queue.rs` QueueSystem | three injectors (HIGH, NORMAL, LOW), one deque per worker | `push_global`, `pop_for_worker` | a lookup is a sequence of probes, each of which races with pushes, batch steals and peer steals |
| `queue.rs` PriorityState | HIGH streak of one worker | `record_task`, `fairness_due` | when lower priorities get their turn |
| `steal.rs` StealState | rotating cursor | `victims` | modular arithmetic, each peer once |
| `group.rs` TaskGroup | counter, closed flag, mutex, condition variable | `add_task`, `task_completed`, `wait`, `close` | registration racing with close; notification racing with wait |
| `worker.rs` WorkerShared | `tasks_in_flight`, `sleeping_workers`, `shutdown`, mutex, condition variable | `task_completed`, `should_stop`, `begin_shutdown`, `wake_one` | none of them takes the mutex |
| `worker.rs` worker_main | position in the loop, task in hand | three lookups, sleep region, `execute_task` | going to sleep while work arrives; leaving while work may still arrive |
| `scheduler.rs` Scheduler | capacity, thread handles | `push*`, `wait`, `shutdown`, `create`, `drop` | admission with three looks at the shutdown flag and two kinds of roll-back |
| `stats.rs` SchedulerStats | monotone counters | `record_*`, `snapshot` | a snapshot is not atomic |
| `ffi.rs` | boxed handles, `Arc` of each group | argument checks, result codes, `create`/`destroy` of handles, `get_stats` | a group lives on after its handle is destroyed; result codes after roll-backs |
| `topology.rs` | CPU list | `cpu_for_worker`, pinning | system calls |

Interactions: a submission changes the scheduler's counter, then the group's,
then the queues, then the statistics, then wakes a worker. A worker takes from
the queues, runs the callback, then goes through the same counters. Waiters and
sleeping workers share one mutex and one condition variable. The group has its
own. There are no messages, nothing is persisted, and there are no timeouts.

What makes the parts correct:

* queues: no task is lost, duplicated or misfiled; *Empty* is answered soundly;
* groups: the counter is exact, a wait is not early and does return;
* submission: the capacity holds, a rejected submission leaves nothing behind,
  an accepted one runs exactly once;
* workers: they do not sleep while there is work for them, and exit only when
  no more can come;
* shutdown: destroy drains, and returns;
* interface: the result code tells what has become of the task, a group is
  neither freed too early nor leaked, the statistics read after a wait account
  for what was waited for.

## 2. Modules

| Module | Models | Uses |
|---|---|---|
| `Submissions` | the Task record: constants only | |
| `TaskPool` | `queue.rs` as its callers see it: sets of tasks, every probe a step, order and fairness open; with the most general client (`PoolSpec`) | Submissions |
| `QueueSystem` | `queue.rs`, `steal.rs` and the lookup counters of `stats.rs` in detail: FIFO sequences, HIGH streak, rotating cursor, wrapping counters; implements `TaskPool` | Submissions; `INSTANCE TaskPool` |
| `QueueService` | `QueueSystem` with two history variables, for what a client may expect of the order | QueueSystem |
| `TaskGroup` | `group.rs` with the most general client (`GroupSpec`) | Submissions |
| `GroupWaits` | `TaskGroup` with a history variable, for the notifications a group waiter can miss | TaskGroup |
| `Scheduler` | `scheduler.rs` and `worker.rs` | TaskPool, TaskGroup |
| `Executor` | the abstract specification: what the C header promises, without queues, slots, counters or threads; `Scheduler` implements it | |
| `WakeUps` | `Scheduler` with two history variables, for the wake-ups that get lost | Scheduler |
| `Interface` | `ffi.rs` around the scheduler: argument checks, result codes, reference counts of groups, `get_stats` with `stats.rs`'s snapshot | Scheduler |
| `MCTaskGroup`, `MCScheduler`, `MCWakeUps`, `MCQueueService`, `MCInterface` | instances for TLC | |
| `TaskPoolProofs`, `TaskGroupProofs`, `SchedulerProofs`, `DrainProofs`, `QueueSystemProofs`, `QueueServiceProofs`, `WakeProofs`, `InterfaceProofs` | theorems | |

**Four refinements.**

* `Scheduler` implements `PoolSpec` and `GroupSpec`. It has the components'
  variables among its own, so the mapping is the identity and both appear
  directly as properties. The clients of `PoolSpec` and `GroupSpec` are more
  general than the scheduler: it is a theorem, and not built in, that the
  scheduler never pushes a task that is in the pool already, or looks for a task
  with one in hand.
* `QueueSystem` implements `TaskPool` (`INSTANCE TaskPool WITH ...`): the mapping
  forgets the order in the sequences, the streaks, the cursors and the counters,
  and turns the list of victims still to be probed into a set. What is shown of
  `TaskPool`, and of `Scheduler` on top of it, relies on nothing that `queue.rs`
  does not do.
* `Scheduler` implements `Executor` (`INSTANCE Executor WITH ...`). The mapping
  gives each submission a life: new, offered, reserved, accepted, claimed, done,
  or full or refused. A push is offered when it has passed its first look at the
  shutdown flag, reserved when it has its slot, accepted when it publishes its
  task, claimed when a lookup takes the task out of a queue, and done when the
  slot is given back after the callback. Exchanges that fail, batches on their
  way, group registrations, the sleep region and the rest of the accounting are
  stutters. Each way to be turned away has its reason: `RefuseFull`
  (`QUEUE_FULL`) needs a full executor at that instant, `GiveUp` needs shutdown
  or the submission's own group closed, `Reject` needs shutdown. The one
  concession to the code is that *full* counts slots: a submission that will be
  rolled back holds one meanwhile, so `QUEUE_FULL` may be answered although fewer
  tasks than the capacity are queued or executing (the header, lines 84-88 and
  127-134, speaks of tasks). Nothing that is finished counts.
* `Interface` implements `Scheduler`: each of its steps is a step of `Scheduler`
  or leaves the scheduler alone. It restricts which calls are made (those a C
  program can make with its handles) and observes what they return.

**Grain.** Each access to an atomic variable, to the mutex or to the condition
variable is one step. A step that only releases the mutex is joined to the one
before it and a step that only takes it to the one after it, which changes no
observable interleaving. Two loads are joined in one place, `should_stop`: the
flag is loaded first and is never cleared, so the result is that of an atomic
test at the moment of the second load. Three more steps are joined to a
neighbour, which is harmless: `Exit` takes the worker out of `sleeping_workers`
with the `should_stop` that ends it (a `wake_one` in between would read a count
that is one too high, and its notification goes to nobody, to a worker that the
count holds anyway, or to a waiter that tests again); `ReserveRead` counts
`record_queue_full` with the load or the failed exchange that found the scheduler
full (a relaxed counter that no decision reads); `Interface.GroupDestroy` drops
the handle's `Arc` with `close`'s `notify_all` (nobody waits on a handle that is
being destroyed). A spurious failure of `compare_exchange_weak` leaves the loop
where it was and is a stutter. Argument checks touch no shared state and are part
of the call.

**Correspondence of state.** Variables have the names of the fields. In
addition there is a program counter per process (`push`, `wpc` with `site`,
`wait`, `gwait`, `stopper`, `owner`, `member` for a submission inside its group,
`pos` for a lookup, `reader` for `get_stats`), and history variables that no
guard reads: `executed`, `expect`, `gexpect`, `settled`, `seen` and `passed`
in `QueueService`, `overtaken` in `GroupWaits`, and `wasted` and `missed` in
`WakeUps`. `site` says which of the three lookups of `worker_main` a worker has
reached: `fast` (no lock), `locked` (mutex held), `final` (mutex held
and counted in `sleeping_workers`). `refs` is the strong count of a group's
`Arc`: the handle, and one for each submission from the clone in the push
function until the call is refused or the worker drops the task.

**External code.** `parking_lot`: `Condvar::wait` releases the mutex and
enqueues atomically, does not wake spuriously, and `notify_one` takes any one
thread. `crossbeam-deque`: a successful batch steal moves any number of tasks
beyond the returned one into the caller's deque, and they leave the injector
before they are visible in the deque; *Retry* is answered only by a source that
was seen non-empty. `Arc`: clone and drop are atomic. All three are modelled
from the way the code uses them.

**Memory model.** The model is sequentially consistent. The code uses acquire,
release and acq-rel operations. Wherever the argument is a chain through one
atomic (slots, group counter, capacity) that is enough; the pair *store to the
queue, then load `sleeping_workers`* against *increment `sleeping_workers`, then
look into the queue* is a store/load pattern that acquire and release do not
order, so on weaker hardware more wake-ups can be lost than the model shows.

**Statistics.** The counters are relaxed and are read one by one. A snapshot
taken while others submit may therefore show more completions than submissions
(a worker can finish a task before its submission is recorded, `StatsSettle`
says how far the counts may differ), and the steal failures it shows may exceed
the attempts, which are loaded first; `test/scheduler.c:5699-5705` compares them
in a quiet scheduler only. What a client can rely on is `SnapshotTrue`.

## 3. Runs

All `pass` runs explore the complete state space of their instance, within the
state constraints named below. Deadlock is checked for the queues, whose workers
never stop looking; the other systems may come to rest (everybody returned, or
all workers parked), and what rest states are acceptable is what the liveness
properties say.

| Run | Instance | Shows |
|---|---|---|
| `group` | 3 registrations, 2 waiters, 1 group, fair | `GroupTypeOK`, `GroupAccounting`, `GroupWaitSound`, `OnlyOvertakenStay`, `GroupDrains`, `GroupWaitReturnsUnlessOvertaken` |
| `sched` | 2 workers, unbounded; 2 tasks, or 1 task and 1 waiter | `TypeOK`, `Accounting`, `AcceptedExactlyOnce`, `GracefulExit`, `DestroyDrains`, `SleepersCounted`, `DequeOwnerAwake`, `StatsSettle`, `NoDuplication`, `OnlyWastedStrand`, `OnlyMissedStay`, `ImplementsExecutor`, `NothingLost` |
| `clients` | C interface, 1 worker, 2 tasks, capacity 1, 1 client that waits and then reads the statistics, good and bad priorities and pointers | `CapacityRespected`, `WaitSound`, `AnswerTrue`, `SnapshotTrue`, `PoolSpec`, `ImplementsExecutor` |
| `groups` | C interface, 1 worker, 2 tasks in one group, 1 group waiter, creation and destruction of the handle | `GroupWaitRan`, `DestroyDrains`, `AnswerTrue`, `GroupAlive`, `GroupReleased`, `GroupSpec`, `ImplementsExecutor` |
| `live` | 2 workers, 2 tasks, capacity 2, fair | `AcceptedRunsUnlessStranded`, `PushReturns`, `DestroyEndsUnlessMissed` |
| `queue` | 2 workers; 2 HIGH, 2 NORMAL and 1 LOW task submitted again and again, three at a time; burst limit 2, fair | `EmptyIsSound`, `BurstBounded`, `ImplementsTaskPool`, `HighAndNormalServed`, `PriorityOrder` |

`ImplementsExecutor` is in three runs because each has what the others lack:
steals, peers and exits (`sched`), a full scheduler (`clients`), and closed groups
with their roll-backs (`groups`).

Bounds. In the scheduler the only bounds are the sizes of the sets: a
submission, a waiter and a group wait are one call each, so every counter is
bounded by them. The `sched` run has one more, `WaiterOrSecond`, which keeps the
waiter and the second submission out of the same behaviour. Two workers are
needed for stealing, for a sleeper next to an active worker, for an exit next to
a running task, and for a failed `create` with a worker already started. Two
tasks let one be batched behind the other. With one slot an exchange fails, is
retried and is rejected (`clients`); with two it fails, is retried and succeeds
(`live`).

`LiveBound` keeps the graph of the `live` run small enough for the temporal
checker. Workers are started, and calls made, in one order (they are
interchangeable); two calls that overlap, and calls that overlap
`cortlet_sched_shutdown`, do so before the workers' first lookup; the fairness
path, which two tasks cannot reach, is left out. What remains of the races with
the workers: a second call against workers in any state, among them one parked
and one awake, and the whole of destroy. Nothing that fairness requires is cut
off for good, with one exception: after `cortlet_sched_shutdown` the workers of
this instance move only once destroy has begun. That shutdown races with the
workers in the `sched` run.

A late notification for the first task that meets a waiter for the
second needs one worker and one waiter. Raw priority 3 stands for every integer
`map_priority` does not know.

In the `queue` run tasks are submitted for ever. `HighBurstLimit` = 2 (32 in the
code) is the smallest limit at which a streak can be broken below it.
The constraint `Together` says which tasks may be about at the same time: a HIGH
batch and a NORMAL task, a NORMAL batch and a HIGH task, or one task of each
priority; the second is what lets a deque hold NORMAL tasks when a HIGH one comes.
`CursorSize` = 1 (2^64) and `CounterSize` = 1 forget the cursor and the values of
the steal and fairness counters: with two workers there is one victim whatever
the cursor, and nothing reads the counters. That the cursor's wrap and jump skip
no victim is `VictimsAreAllPeers`, for every width and number of workers.
The theorems of section 4 cover all values of these constants. Symmetry is used
only in runs of safety properties and only over values the instance treats alike.

`EmptyIsSound` is about a lookup as a whole, so `QueueService` has a history
variable with what was in the injectors and in the worker's own deque when the
lookup began. It says nothing about the deques of peers, and could not: a batch
in flight is invisible, and a task may move to a deque that was already probed.
`DequeOwnerAwake` is the reason why that is harmless.

`PriorityOrder` uses the same history for a lookup that does find a task: outside
the fairness path nothing that was in an earlier source at the call is left there.
The first source is the worker's own deque (`queue.rs:295`), whatever the
priority of the tasks in it. So a batch of NORMAL tasks stolen earlier passes a
HIGH task in the injector on the normal path: `README.md:88` ("prefers
HIGH-priority work, then NORMAL, then LOW") is true of the injectors among themselves,
and not of a worker with a batch.

`BurstBounded` is the promise of `HIGH_BURST_LIMIT` as a client sees it: while a
lower queue stays non-empty a worker takes at most that many HIGH tasks before a
lower one, wherever it finds them.

### What the code's comments claim and the interleavings refute

Six runs expect a violation. Each states what a comment or the repository's
README says of the program.

* `lost_submission` (`AcceptedRuns`). The worker finishes its final lookup and
  `should_stop`; a submission publishes, sees `sleeping_workers` = 1 and calls
  `notify_one`; nobody is on the condition variable yet; the worker parks. The
  accepted task stays queued. `worker.rs:345-351` says the final check closes
  this race. It would, if `wake_one` took `sleep_lock`, which the worker holds
  from before the final check until it is parked.
* `lost_shutdown` (`DestroyReturns`) and `group_wait_lost` (`GroupWaitReturns`):
  the same gap for a worker that should see the shutdown, and for
  `TaskGroup::wait`. `cortlet_sched_wait` has the same code as `TaskGroup::wait`
  and the same gap (`worker.rs:108`).
* `silent_release` (`IdleIsAnnounced`): a submission that is rolled back takes
  the counter from 1 to 0 in `release_task_slot`, which notifies nobody. A
  waiter that parked because of the reserved slot is not told that the scheduler
  is idle.
* `stolen_wakeup` (`WakeOneWakesWorker`): waiters and workers park on the same
  condition variable, so the one notification for a new task may go to a waiter.
* `low_starved` (`LowServed`): `README.md:90` promises a mechanism against the
  starvation of lower priorities. It is entered after a streak of HIGH tasks and
  tries NORMAL before LOW, so a steady stream of NORMAL tasks keeps a LOW task
  waiting for ever.

`WakeUps` answers the question that these runs raise: are there other ways to
lose a wake-up? There are not. `OnlyWastedStrand`: when no worker is awake, a task
whose submission has returned is left in the queues only if the `notify_one` of
that submission released no worker, either because nobody was on the condition
variable yet or because it picked a waiter. The announcement in
`sleeping_workers`, the last lookup and the test in `wake_one` do what their
comments say, apart from that. `OnlyMissedStay`: a thread stays blocked after the
end of what it waits for only if a `notify_all` fell between its test and its
wait, or if a rolled-back submission gave back the last slot. `OnlyOvertakenStay`
(`GroupWaits`) is the same for the waiters of a group. These are also the
places to repair: notifying under `sleep_lock`, a condition variable of its own
for waiters, and a notification in `release_task_slot` would each empty a part of
the histories.

An observation about the last lookup: without it the instance with two workers
violates nothing, because the lookups under the mutex exclude each other (a task
that one worker misses between lookup and announcement is found by the other
before that one sleeps, or notified to it). A single worker needs it.

The passing liveness properties are the complement: what gets done, in spite of
these gaps. Each excuses only the threads and tasks that a history names, so that
a `notify_all` that is left out, or sent too early in any other way, is a
violation. Accepted work is executed unless its own wake-up was wasted and no
worker is awake; destroy, and the error path of create, return unless a
`notify_all` came while a worker was between its test and its park; a group wait
returns unless a `notify_all` overtook it in the same way; every submission
returns; HIGH and NORMAL tasks are served against any stream of others.

### Fairness

Started threads keep running (weak fairness of every step of a submission that
has begun, of a worker, of a waiter about to park, and of the owner); callbacks
return. No client is obliged to make a call. Strong fairness is assumed for
taking a mutex (`SF(Lock \/ Resume)` of a worker, `SF(WaitCheck)`,
`SF(GroupWaitCheck)`: `parking_lot` hands the lock over when a thread has waited
long enough) and for a lookup that finds a task again and again
(`Lookup(w) /\ TakeTask(w)` in `Scheduler`, `TakeTask` in `QueueSystem`): *Retry*
means that another thread has taken something, and spurious failures of a weak
exchange do not recur for ever. `QueueFairness` has these two assumptions for
the workers' loops; nobody is obliged to submit.

## 4. Proofs

Everything below holds for arbitrary finite sets of tasks and workers, arbitrary
sets of groups, waiters and group waiters, any capacity, any burst limit and any
width of cursor and counters. The assumptions are the `ASSUME`s of the modules:
the sets are disjoint where they denote different threads, there is at least one
worker, and the numbers are natural numbers (positive where they are a modulus or
the burst limit).

* **Pool** (`TaskPoolProofs`): `PoolInv` is inductive and consists of the type
  invariant, `NoDuplication`, `PriorityPure` and `ResultsAgree`. The last one is
  what makes the others inductive: a step that overwrites `current[w]` or
  `batch[w]` must know that they are empty. `PoolNothingLost` is an action
  property and follows step by step from it.
* **Groups** (`TaskGroupProofs`): `GroupInv` adds to `GroupAccounting` that only
  grouped submissions register, and `Expected`, which says that the tasks a
  waiter expects were accepted. A counter of zero then means that none of them is
  counted, and they are beyond `member`, so the wait is not early. Cardinality is
  used only through two lemmas (`CounterUp`, `CounterDown`).
  `OnlyOvertakenStayBlocked` is inductive on top of it: a waiter goes on to park
  after it has seen a count above zero, and the step that takes the count to zero
  leaves a `notify_all` pending.
* **Scheduler** (`SchedulerProofs`): first `StepIsPoolStep` and
  `StepIsGroupStep`, that a scheduler step in an invariant state is a step of the
  pool's client and of the groups' client or leaves their variables alone; the
  component invariants then come for free, and `ImplementsPool` and
  `ImplementsGroups` are the refinement theorems. The rest of `Inv` is
  - `HandsAgree`: a worker has a task exactly from the end of its lookup to the
    end of `execute_task`;
  - `AcceptedExactlyOnce` and `Accounting`: the slots of `tasks_in_flight` are
    the disjoint union of submissions between reservation and publication, tasks
    in the pool, and tasks whose worker has not given the slot back. Each step
    changes `Slots` by one element and the counter by one, or neither;
  - `CasWithinCapacity`: what an exchange will install is within the capacity;
  - `Fenced`: once a worker has exited, shutdown is set and every slot belongs
    to a submission that has still to see it. This is why the second look at the
    flag in `push_internal`, after the reservation, is needed: a submission that
    reserved after the worker read zero is bound to see the flag. It is the
    strengthening that makes `GracefulExit` provable;
  - `ExpectAccepted` for `WaitSound`; `SitesAgree` and `SleepersExact` for
    `SleepersCounted`.
* **What is left behind** (`DrainProofs`): a second invariant `DrainInv`, proved
  inductive relative to `Inv`:
  - `MembersAgree` ties the position of a submission in its group to its
    position in `push_internal` and, once published, to where its task is. With
    `GroupWaitSound` it turns *completed in the group* into *has run*;
  - `OwnerAgrees`: submissions only while the scheduler lives;
  - `StatsExact`: the counters are the cardinalities of two sets of tasks;
  - `DequesAgree`: a worker that has looked into its deque and found no task
    since has left it empty.

  `SchedulerIsExecutor` is the refinement of `Executor`, one lemma per process
  (`PushExec`, `WorkerExec`, `ClientExec`). `HeldAreSlots` shows that what fills
  the abstract capacity are the slots in use, so by `Accounting` the executor is
  full exactly when the counter has reached the capacity (`FullIsFull`). A third
  small invariant, `ExecInv`, says that a submission on its way back has a reason
  (shutdown, or a closed group, which `ClosedGroups` shows to stay closed) and
  that nobody joins before shutdown.

  From both follow `DestroyIsDrained` (through `Fenced`, or because no worker was
  ever started), `GroupWaitMeansRan`, `DequesWithSleepersEmpty` and
  `StatisticsSettle`.
* **Queues** (`QueueSystemProofs`): `QueuesImplementTaskPool`, step by step: each
  probe of the detailed queues is the same probe of `TaskPool`. It needs that no
  task is twice in a sequence (`NoRepetition`), so that removing the head removes
  the element, and that the victims still to be probed are peers.
  `VictimsAreAllPeers` is the arithmetic of `round_robin_victims`.
* **Service** (`QueueServiceProofs`): `ProbedSources` says that what a lookup has
  passed holds nothing it saw at its start (injectors only grow at the end, and
  by new submissions); `StreakCovers` that the streak is an upper bound of what
  has passed, below the limit outside the fairness path. They give
  `EmptyMeansTaken`, `SourcesInOrder` and `BurstIsBounded`.
* **Wake-ups** (`WakeProofs`): the histories constrain no step (`WakeIsScheduler`),
  so `Inv` and `DrainInv` hold here too.
  - `OnlyMissedStayBlocked` is inductive by itself. A thread blocks after a test
    that told it to wait (`BlocksAfterTest`), and what it waits for ends in a step
    that a `notify_all` follows, or in a silent release, which the history has;
    a `notify_all` leaves blocked only who is in the gap (`NotifyEmpties`).
  - `OnlyWastedStrand` needs `Covered`: for every published task whose wake-up was
    not wasted there is a worker that has not yet passed the task's injector in
    its last lookup. The argument is Dekker's: the worker counts itself before
    it looks, the submission publishes before it reads the count, so one of the
    two sees the other. If the submission sees a count of zero, no worker has
    reached its last lookup (`SleepersExact`); if its `notify_one` releases a
    worker, that one looks again. A task in a deque or a batch has an owner that
    is awake (`DequesAgree`, `ResultsAgree`).
* **Interface** (`InterfaceProofs`): `InterfaceIsScheduler` is the refinement,
  and carries `Inv` and `DrainInv` over, and with `SchedulerIsExecutor` it gives
  `InterfaceIsExecutor`. On top of them `InterfaceInv` has three
  independent parts:
  - `RefsExact` with `HandlesAgree`: the strong count is the handle and one for
    each task of the group that has not been dropped, so `GroupsOutliveUse` and
    `GroupsAreReleased`;
  - `AnswersAgree`: a call has its code exactly when `push_internal` is through
    or was never entered, so `AnswersAreTrue`;
  - `SnapshotAgrees`: finished tasks stay finished, and a settled scheduler
    stays as it is while it is read, so `SnapshotsAreTrue`.

`WaitReturnsWhenIdle` (`SchedulerProofs`) is an action property: the step in which
a wait returns finds no slot in use.

The inductive invariants `Inv`, `DrainInv`, `ExecInv`, `Covered` and `InterfaceInv` were checked with
TLC on the instances of section 3 before they were proved.

Only model-checked: the liveness properties (`GroupDrains`,
`GroupWaitReturnsUnlessOvertaken`, `AcceptedRunsUnlessStranded`, `PushReturns`,
`DestroyEndsUnlessMissed`, `HighAndNormalServed`), which need fairness and
ENABLED, out of the prover's reach. Every safety property of a passing run is
also a theorem.

## 5. Contracts taken from the C header

`cortlet_sched_destroy` is not called while another call on the scheduler is
running, and no call follows it (guards of `Destroy` and of the calls). A group
handle is not destroyed while a thread waits on it (guard of `CloseStore`), and
not used afterwards. A close may however overtake a push that has already taken
its reference to the group, because `add_task` looks at the flag twice for that
case.

Callbacks are opaque. A callback may submit tasks (then it is one of the
producers). A callback that waits for its own scheduler waits for itself, and the
code does not detect it: by `ImplementsExecutor` (and the theorem
`WaitReturnsWhenIdle`) a wait returns only when no callback is running, whoever
has called it.

## 6. Not modelled, and the plan

Left out for good:

* CPU detection and pinning (`topology.rs`): system calls whose failure `create`
  ignores, and nothing depends on where a worker runs;
* the init functions' reading of the configuration, up to the loop that starts
  the threads; accessors and version numbers of the C interface, which change no
  state; `wake_all`, which nobody calls;
* the size of a stolen batch, which is crossbeam's choice;
* tests, benchmarks, examples and build files.

Every hazard listed in `PROJECT.json` has a property.

What could follow: `Scheduler`'s control put together with `QueueSystem`'s queues
in one specification, shown to implement `Scheduler` by the two refinements there
are; a model of the store/load pattern of section 2 under release
and acquire ordering, and the liveness of `cortlet_sched_wait` together with a
second worker, whose state space is beyond the present runs.
