---------------------------- MODULE QueueSystem ----------------------------
(***************************************************************************)
(* The task queues in detail (src/src/queue.rs, src/src/steal.rs): what    *)
(* TaskPool leaves open is fixed here.                                     *)
(*   - An injector and a deque is a FIFO SEQUENCE; steal_batch_and_pop     *)
(*     takes a prefix of the injector, its first task for the caller and   *)
(*     the rest, in order, for the end of the caller's deque.              *)
(*   - PriorityState counts the HIGH tasks a worker has taken in a row,    *)
(*     and the fairness path is entered when they reach HIGH_BURST_LIMIT.  *)
(*   - StealState fixes the order in which peers are probed.               *)
(*   - The steal and fairness counters of SchedulerStats are counted.      *)
(* The last section is the refinement mapping to TaskPool.                 *)
(***************************************************************************)
EXTENDS Submissions, Integers, Sequences

CONSTANTS
    WorkerCount,        \* number of workers; worker ids start at 0
    HighBurstLimit,     \* HIGH_BURST_LIMIT, 32 in the code
    CursorSize,         \* 2^(width of usize): the rotation cursor wraps
    CounterSize         \* 2^64: the statistics counters wrap

ASSUME QueueAssumption ==
    /\ WorkerCount \in Nat \ {0}        \* worker_count.max(1)
    /\ HighBurstLimit \in Nat \ {0}
    /\ CursorSize \in Nat \ {0}
    /\ CounterSize \in Nat \ {0}

WorkerIds == 0 .. WorkerCount - 1

VARIABLES
    queue,              \* the injector of each priority
    deque,              \* the local deque of each worker
    batch,              \* tasks claimed from an injector, not yet in the deque
    current,            \* the task pop_for_worker hands to its caller
    pos,                \* where each worker is inside pop_for_worker
    todo,               \* victims the running steal_from_peers has still to probe
    high_streak,        \* PriorityState of each worker
    cursor,             \* StealState of each worker
    stats               \* the counters of SchedulerStats that lookups change

queueVars == <<queue, deque, batch, current, pos, todo, high_streak, cursor,
               stats>>

Elements(s) == {s[i] : i \in DOMAIN s}

InjectorPos == {"fair_normal", "fair_low", "high", "normal", "low"}
Results == {"task", "retry", "empty"}
Positions == InjectorPos \cup {"idle", "local", "peers", "deliver"} \cup Results

\* The queue a position probes.
InjectorAt(p) == CASE p \in {"fair_normal", "normal"} -> "Normal"
                   [] p \in {"fair_low", "low"}       -> "Low"
                   [] p = "high"                      -> "High"

\* Mutant: the lookup passes over the NORMAL injector.
After_SkipsNormal(p) == CASE p = "fair_normal" -> "fair_low"
                          [] p = "fair_low"    -> "local"
                          [] p = "local"       -> "high"
                          [] p = "high"        -> "low"
                          [] p = "normal"      -> "low"
                          [] p = "low"         -> "peers"

\* Mutant: the NORMAL injector is probed before the HIGH one.
After_NormalFirst(p) == CASE p = "fair_normal" -> "fair_low"
                          [] p = "fair_low"    -> "local"
                          [] p = "local"       -> "normal"
                          [] p = "normal"      -> "high"
                          [] p = "high"        -> "low"
                          [] p = "low"         -> "peers"

\* The source probed next when p was empty.
After(p) == CASE p = "fair_normal" -> "fair_low"
              [] p = "fair_low"    -> "local"
              [] p = "local"       -> "high"
              [] p = "high"        -> "normal"
              [] p = "normal"      -> "low"
              [] p = "low"         -> "peers"

Counters == {"steals_attempted", "steals_succeeded", "steal_failures",
             "fairness_yields"}

QueueTypeOK ==
    /\ queue \in [Priorities -> Seq(Tasks)]
    /\ deque \in [WorkerIds -> Seq(Tasks)]
    /\ batch \in [WorkerIds -> Seq(Tasks)]
    /\ current \in [WorkerIds -> Tasks \cup {NoTask}]
    /\ pos \in [WorkerIds -> Positions]
    /\ todo \in [WorkerIds -> Seq(WorkerIds)]
    /\ high_streak \in [WorkerIds -> Nat]
    /\ cursor \in [WorkerIds -> 0 .. CursorSize - 1]
    /\ stats \in [Counters -> 0 .. CounterSize - 1]

QueueInit ==
    /\ queue = [p \in Priorities |-> <<>>]
    /\ deque = [w \in WorkerIds |-> <<>>]
    /\ batch = [w \in WorkerIds |-> <<>>]
    /\ current = [w \in WorkerIds |-> NoTask]
    /\ pos = [w \in WorkerIds |-> "idle"]
    /\ todo = [w \in WorkerIds |-> <<>>]
    /\ high_streak = [w \in WorkerIds |-> 0]
    /\ cursor = [w \in WorkerIds |-> 0]
    /\ stats = [c \in Counters |-> 0]

-----------------------------------------------------------------------------
(* PriorityState *)

\* Mutant: the fairness path is due one task too late.
FairnessDue_OneLate(w) == high_streak[w] > HighBurstLimit

FairnessDue(w) == high_streak[w] >= HighBurstLimit

\* Mutant: a HIGH task found by a lookup is not recorded.
RecordTask_ForgetsHigh(w, t) ==
    high_streak' = [high_streak EXCEPT ![w] =
                      IF PriorityOf[t] = "High" THEN @ ELSE 0]

\* record_task: a HIGH task makes the streak longer, any other one ends it.
RecordTask(w, t) ==
    high_streak' = [high_streak EXCEPT ![w] =
                      IF PriorityOf[t] = "High" THEN @ + 1 ELSE 0]

\* record_fairness_yield and its like.
Count(cs) == stats' = [c \in Counters |->
                         IF c \in cs THEN (stats[c] + 1) % CounterSize
                                     ELSE stats[c]]

-----------------------------------------------------------------------------
(* StealState *)

\* Mutant: the loop over the offsets stops one short.
RoundRobin_OneShort(n, w, first) ==
    LET own == (w + n - first) % n
    IN  [k \in 1 .. n - 2 |-> (first + (IF k <= own THEN k - 1 ELSE k)) % n]

\* round_robin_victims for worker w of n: the ids from `first` on in a circle,
\* without w itself, which the loop meets at offset `own` and skips.
RoundRobin(n, w, first) ==
    LET own == (w + n - first) % n
    IN  [k \in 1 .. n - 1 |-> (first + (IF k <= own THEN k - 1 ELSE k)) % n]

\* The first id of the circle: the cursor rotates it.  The sum wraps as the
\* cursor does.
FirstVictim(w) == ((w + 1 + cursor[w]) % CursorSize) % WorkerCount

-----------------------------------------------------------------------------
(* QueueSystem *)

PushGlobal(t) ==
    /\ queue' = [queue EXCEPT ![PriorityOf[t]] = Append(@, t)]
    /\ UNCHANGED <<deque, batch, current, pos, todo, high_streak, cursor, stats>>

\* pop_for_worker begins, with the fairness path when that is due.
PopCall(w) ==
    /\ pos[w] = "idle"
    /\ IF FairnessDue(w)
       THEN pos' = [pos EXCEPT ![w] = "fair_normal"] /\ Count({"fairness_yields"})
       ELSE pos' = [pos EXCEPT ![w] = "local"] /\ UNCHANGED stats
    /\ UNCHANGED <<queue, deque, batch, current, todo, high_streak, cursor>>

\* try_priority_queue found its injector empty.  At the end of the fairness
\* path the streak is reset; behind the last injector the victims are listed,
\* which moves the cursor unless the worker is alone.
InjectorEmpty(w) ==
    /\ pos[w] \in InjectorPos
    /\ queue[InjectorAt(pos[w])] = <<>>
    /\ pos' = [pos EXCEPT ![w] = After(@)]
    /\ high_streak' = [high_streak EXCEPT ![w] =
                         IF pos[w] = "fair_low" THEN 0 ELSE @]
    /\ IF pos[w] = "low" /\ WorkerCount > 1
       THEN /\ todo' = [todo EXCEPT ![w] =
                                 RoundRobin(WorkerCount, w, FirstVictim(w))]
            /\ cursor' = [cursor EXCEPT ![w] = (@ + 1) % CursorSize]
       ELSE UNCHANGED <<todo, cursor>>
    /\ UNCHANGED <<queue, deque, batch, current, stats>>

\* steal_batch_and_pop, first half: n tasks leave the injector.
StealBatch(w) ==
    /\ pos[w] \in InjectorPos
    /\ LET p == InjectorAt(pos[w])
           q == queue[p]
       IN  \E n \in 1 .. Len(q) :
              /\ queue' = [queue EXCEPT ![p] = SubSeq(q, n + 1, Len(q))]
              /\ batch' = [batch EXCEPT ![w] = SubSeq(q, 2, n)]
              /\ current' = [current EXCEPT ![w] = Head(q)]
              /\ RecordTask(w, Head(q))
    /\ pos' = [pos EXCEPT ![w] = "deliver"]
    /\ UNCHANGED <<deque, todo, cursor, stats>>

\* Second half: the rest of them becomes visible in the caller's deque.
DeliverBatch(w) ==
    /\ pos[w] = "deliver"
    /\ deque' = [deque EXCEPT ![w] = @ \o batch[w]]
    /\ batch' = [batch EXCEPT ![w] = <<>>]
    /\ pos' = [pos EXCEPT ![w] = "task"]
    /\ UNCHANGED <<queue, current, todo, high_streak, cursor, stats>>

LocalPop(w) ==
    /\ pos[w] = "local"
    /\ deque[w] # <<>>
    /\ deque' = [deque EXCEPT ![w] = Tail(@)]
    /\ current' = [current EXCEPT ![w] = Head(deque[w])]
    /\ RecordTask(w, Head(deque[w]))
    /\ pos' = [pos EXCEPT ![w] = "task"]
    /\ UNCHANGED <<queue, batch, todo, cursor, stats>>

LocalEmpty(w) ==
    /\ pos[w] = "local"
    /\ deque[w] = <<>>
    /\ pos' = [pos EXCEPT ![w] = After(@)]
    /\ UNCHANGED <<queue, deque, batch, current, todo, high_streak, cursor, stats>>

\* One turn of the loop of steal_from_peers, with its counters: the next
\* victim's first task, or nothing there.
StealPeer(w) ==
    /\ pos[w] = "peers"
    /\ todo[w] # <<>>
    /\ LET v == Head(todo[w]) IN
          /\ deque[v] # <<>>
          /\ deque' = [deque EXCEPT ![v] = Tail(@)]
          /\ current' = [current EXCEPT ![w] = Head(deque[v])]
          /\ RecordTask(w, Head(deque[v]))
    /\ Count({"steals_attempted", "steals_succeeded"})
    /\ todo' = [todo EXCEPT ![w] = <<>>]
    /\ pos' = [pos EXCEPT ![w] = "task"]
    /\ UNCHANGED <<queue, batch, cursor>>

PeerEmpty(w) ==
    /\ pos[w] = "peers"
    /\ todo[w] # <<>>
    /\ deque[Head(todo[w])] = <<>>
    /\ Count({"steals_attempted", "steal_failures"})
    /\ todo' = [todo EXCEPT ![w] = Tail(@)]
    /\ UNCHANGED <<queue, deque, batch, current, pos, high_streak, cursor>>

PeersExhausted(w) ==
    /\ pos[w] = "peers"
    /\ todo[w] = <<>>
    /\ pos' = [pos EXCEPT ![w] = "empty"]
    /\ UNCHANGED <<queue, deque, batch, current, todo, high_streak, cursor, stats>>

\* Steal::Retry ends the lookup; the streak stays what it was, so a retry on
\* the fairness path is followed by another turn of the fairness path.
StealRetry(w) ==
    /\ \/ pos[w] \in InjectorPos /\ queue[InjectorAt(pos[w])] # <<>> /\ UNCHANGED stats
       \/ /\ pos[w] = "peers"
          /\ todo[w] # <<>>
          /\ deque[Head(todo[w])] # <<>>
          /\ Count({"steals_attempted"})
    /\ pos' = [pos EXCEPT ![w] = "retry"]
    /\ todo' = [todo EXCEPT ![w] = <<>>]
    /\ UNCHANGED <<queue, deque, batch, current, high_streak, cursor>>

TakeTask(w) == StealBatch(w) \/ LocalPop(w) \/ StealPeer(w)

PopStep(w) ==
    \/ InjectorEmpty(w) \/ TakeTask(w) \/ DeliverBatch(w) \/ LocalEmpty(w)
    \/ PeerEmpty(w) \/ PeersExhausted(w) \/ StealRetry(w)

\* The caller takes the result, and later drops the task.
PopReturn(w) ==
    /\ pos[w] \in Results
    /\ pos' = [pos EXCEPT ![w] = "idle"]
    /\ UNCHANGED <<queue, deque, batch, current, todo, high_streak, cursor, stats>>

DropTask(w) ==
    /\ pos[w] = "idle"
    /\ current[w] # NoTask
    /\ current' = [current EXCEPT ![w] = NoTask]
    /\ UNCHANGED <<queue, deque, batch, pos, todo, high_streak, cursor, stats>>

-----------------------------------------------------------------------------
Waiting == {t \in Tasks : \/ \E p \in Priorities : t \in Elements(queue[p])
                          \/ \E w \in WorkerIds :
                                t \in Elements(deque[w]) \cup Elements(batch[w])}
InHand == {t \in Tasks : \E w \in WorkerIds : current[w] = t}

\* The callers: a worker loops over lookup, task and lookup; a task is pushed
\* when it is not in the queues, so a finite set of tasks makes an endless
\* stream.
WorkerLoop(w) ==
    \/ current[w] = NoTask /\ PopCall(w)
    \/ PopStep(w)
    \/ PopReturn(w)
    \/ DropTask(w)

QueueNext ==
    \/ \E t \in Tasks \ (Waiting \cup InHand) : PushGlobal(t)
    \/ \E w \in WorkerIds : WorkerLoop(w)

QueueSpec == QueueInit /\ [][QueueNext]_queueVars

\* Workers keep running, callbacks return, nobody has to push, and a worker
\* that finds a task again and again takes one (Retry does not recur for ever).
QueueFairness ==
    \A w \in WorkerIds : WF_queueVars(WorkerLoop(w)) /\ SF_queueVars(TakeTask(w))

QueueFairSpec == QueueSpec /\ QueueFairness

-----------------------------------------------------------------------------
(* Invariants of the detail, on top of those of TaskPool *)

Injective(s) == \A i, j \in DOMAIN s : s[i] = s[j] => i = j

\* No task is twice in a queue, and no victim twice in the list of victims.
NoRepetition ==
    /\ \A p \in Priorities : Injective(queue[p])
    /\ \A w \in WorkerIds : /\ Injective(deque[w])
                             /\ Injective(batch[w])
                             /\ Injective(todo[w])

\* The list of victims belongs to a running steal_from_peers.
VictimsInUse == \A w \in WorkerIds : pos[w] # "peers" => todo[w] = <<>>

-----------------------------------------------------------------------------
(***************************************************************************)
(* Refinement: forget the order, the streaks, the cursors and the counters *)
(***************************************************************************)
Contents(f) == [x \in DOMAIN f |-> Elements(f[x])]

Pool == INSTANCE TaskPool WITH
            Workers  <- WorkerIds,
            injector <- Contents(queue),
            local    <- Contents(deque),
            batch    <- Contents(batch),
            victims  <- Contents(todo)

\* Whatever the order of tasks and victims and whenever the fairness path is
\* taken, pop_for_worker and push_global behave as TaskPool says; so what is
\* proved of the scheduler on top of TaskPool holds of these queues.
ImplementsTaskPool == Pool!PoolSpec

=============================================================================
