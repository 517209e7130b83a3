------------------------------ MODULE WakeUps ------------------------------
(***************************************************************************)
(* Which wake-ups the scheduler can lose.  No notify in this code holds    *)
(* sleep_lock, one condition variable serves idle workers and waiters, and *)
(* release_task_slot notifies nobody: tasks and threads can be left behind *)
(* (the runs lost_submission, silent_release, stolen_wakeup and            *)
(* lost_shutdown).  The question here is whether there is any OTHER way.   *)
(*                                                                         *)
(* Scheduler with two history variables, which no action reads.            *)
(***************************************************************************)
EXTENDS Scheduler

VARIABLES
    wasted,     \* the submissions whose notify_one released no worker
    missed      \* the blocked threads that an end of work has passed by

wakeVars == <<vars, wasted, missed>>

Threads == Workers \cup Waiters

\* The gap: a thread has made its last test, and is not on the condition
\* variable yet.
InGap == {w \in Workers : wpc[w] = "park"} \cup {x \in Waiters : wait[x] = "park"}

\* The threads from their last test, with the mutex still in their hands, to
\* the notification that takes them off the condition variable.
Blocked == InGap \cup wake

\* The notify_all of begin_shutdown and of task_completed: about to happen ...
NotifyPending == \/ stopper = "notify" \/ owner = "notify"
                 \/ \E w \in Workers : wpc[w] = "notify"

\* ... and happening in a step.
NotifiesAll == \/ stopper = "notify" /\ stopper' # "notify"
               \/ owner = "notify" /\ owner' # "notify"
               \/ \E w \in Workers : wpc[w] = "notify" /\ wpc'[w] # "notify"

\* A submission that gives up returns the last slot, which notifies nobody.
ReleasesLast == /\ tasks_in_flight = 1 /\ tasks_in_flight' = 0
                /\ \E t \in Tasks : push'[t] # push[t]

\* A notify_all misses the threads in the gap, a silent release all of them.
MissedNow == IF ReleasesLast THEN Blocked ELSE IF NotifiesAll THEN InGap ELSE {}

\* notify_one happens with no worker on the condition variable, or it picks a
\* waiter.
WastedNow == {t \in Tasks : /\ push[t] = "notify" /\ push'[t] = "ok"
                            /\ \/ wake \cap Workers = {}
                               \/ (wake \ wake') \cap Waiters # {}}

WakeInit == Init /\ wasted = {} /\ missed = {}

Observe ==
    /\ wasted' = wasted \cup WastedNow
    /\ missed' = Blocked' \cap (missed \cup MissedNow)

WakeNext == Next /\ Observe

WakeSpec == WakeInit /\ [][WakeNext]_wakeVars
WakeFairSpec == WakeSpec /\ Fairness

WakeTypeOK == wasted \in SUBSET Tasks /\ missed \in SUBSET Threads

-----------------------------------------------------------------------------
\* The workers that will look for work again before anybody wakes them.
Awake == {w \in Workers : w \notin wake /\ wpc[w] \notin {"unspawned", "exited"}}

\* Accepted work is left to sleeping workers only if its own wake-up was
\* wasted.  Everything else that can happen between the worker's last lookup
\* and its wait is covered: the announcement before that lookup, wake_one's
\* test of the count after the publication, and batches that other workers
\* carry away.
OnlyWastedStrand ==
    Awake = {} =>
        \A t \in Waiting : push[t] \in {"record", "wake", "notify"} \/ t \in wasted

\* What a blocked thread waits for: all work done, and for a worker also the
\* shutdown flag.
Ended(z) == tasks_in_flight = 0 /\ (z \in Workers => shutdown)

\* A thread stays blocked beyond the end of its wait only if a notify_all came
\* between its test and its wait, or if the last slot was given back by a
\* rejected submission; in every other case a notification is under way.
OnlyMissedStay ==
    \A z \in Blocked : Ended(z) => z \in missed \/ NotifyPending

\* A task is stranded: nobody is awake, and its own wake-up was wasted.
Stranded(t) == t \in Waiting \cap wasted /\ Awake = {}

\* Accepted work gets done: again and again, so in the end for ever, every
\* submission that has returned is executed or its task is stranded.  Neither
\* batches, nor peers, nor Retry, nor another worker that goes to sleep or
\* exits holds a task back.
AcceptedRunsUnlessStranded ==
    []<>(\A t \in Tasks : push[t] = "ok" => t \in executed \/ Stranded(t))

\* Destroy, and the error path of create with the workers that have been
\* started, return, unless the last notify_all came while a worker was in the
\* gap: that worker has been missed, and stays so.
DestroyEndsUnlessMissed ==
    []<>(owner \in {"create", "live", "freed"} \/ missed \cap Workers # {})

\* A submission's wake-up is as good as a worker that has still to look into
\* the injector of its task before it sleeps.
Behind(p) == CASE p = "High"   -> {"normal", "low", "peers", "empty"}
               [] p = "Normal" -> {"low", "peers", "empty"}
               [] p = "Low"    -> {"peers", "empty"}
Passed(v, t) ==
    /\ site[v] = "final"
    /\ \/ wpc[v] = "pop" /\ pos[v] \in Behind(PriorityOf[t])
       \/ wpc[v] \in {"should_stop", "park"}
       \/ v \in wake
Covered ==
    \A t \in Injected : push[t] = "ok" /\ t \notin wasted =>
        \E v \in Workers : ~Passed(v, t)
=============================================================================
