----------------------------- MODULE GroupWaits -----------------------------
(***************************************************************************)
(* Which wake-ups a task group can lose.  task_completed notifies without  *)
(* holding wait_lock, so its notify_all can come between a waiter's test   *)
(* of the counter and its park (the run group_wait_lost).  The question    *)
(* here is whether a wait can be left behind in any OTHER way.             *)
(*                                                                         *)
(* TaskGroup with a history variable, which no action reads.               *)
(***************************************************************************)
EXTENDS TaskGroup

VARIABLE overtaken  \* the waiters in wait that a notify_all has passed by

waitsVars == <<groupVars, overtaken>>

\* A waiter from its last test to the notification that releases it.
InWait(x) == gwait[x] = "park" \/ x \in group_wake[WaitsFor[x]]

\* The groups whose waiters a step notifies because the last task has left.
NotifiedNow == {GroupOf[t] : t \in {u \in Tasks :
                   member[u] \in {"notify", "undo_notify"} /\ member'[u] # member[u]}}

\* A notify_all passes by the waiters that have tested and not yet parked.
OvertakenNow == {x \in GroupWaiters : gwait[x] = "park" /\ WaitsFor[x] \in NotifiedNow}

WaitsInit == GroupInit /\ overtaken = {}
WaitsNext == /\ GroupNext
             /\ overtaken' = {x \in overtaken \cup OvertakenNow : InWait(x)'}
WaitsSpec == WaitsInit /\ [][WaitsNext]_waitsVars
WaitsFairSpec == WaitsSpec /\ GroupFairness

-----------------------------------------------------------------------------
\* The notify_all of task_completed is still to come.
NotifyComes(g) ==
    \E t \in Tasks : GroupOf[t] = g /\ member[t] \in {"notify", "undo_notify"}

\* A waiter is blocked although its group is idle only if a notify_all came
\* between its test and its park; in every other case one is under way, also
\* when registrations that are undone take the counter to zero again.
OnlyOvertakenStay ==
    \A x \in GroupWaiters :
        InWait(x) /\ group_tasks[WaitsFor[x]] = 0 =>
            x \in overtaken \/ NotifyComes(WaitsFor[x])

\* A wait on a group returns, unless a notify_all came between its test and
\* its park and no later one releases it: it stays parked for ever.
GroupWaitReturnsUnlessOvertaken ==
    \A x \in GroupWaiters :
        gwait[x] = "lock" ~> gwait[x] = "returned" \/ [](x \in overtaken)
=============================================================================
