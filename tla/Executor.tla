------------------------------ MODULE Executor ------------------------------
(***************************************************************************)
(* What the scheduler promises its clients (include/, README.md): an       *)
(* executor that refuses a submission only for a reason, runs each task it *)
(* has accepted once, keeps to its capacity, lets a waiter go only when    *)
(* nothing is left to run, and ends with all accepted work done.           *)
(*                                                                         *)
(* There are no queues, no counters and no threads here; the scheduler is  *)
(* shown to implement this specification.  The one concession to the code  *)
(* is that a submission takes its share of the capacity before the last    *)
(* checks, so one that is about to be rolled back can make another find    *)
(* the scheduler full.                                                     *)
(***************************************************************************)
EXTENDS Naturals, FiniteSets

CONSTANTS Tasks, Groups, GroupOf, NoGroup, Waiters, QueueCapacity

VARIABLES
    life,           \* the life of each submission
    stopped,        \* shutdown has been requested
    over,           \* the scheduler has been destroyed
    closedGroups,   \* the groups that take no more tasks
    returned        \* the waits that have returned

execVars == <<life, stopped, over, closedGroups, returned>>

\* What fills the capacity: submissions under way that have been let in, and
\* accepted tasks, queued or executing.
Held == {t \in Tasks : life[t] \in {"reserved", "accepted", "claimed"}}
Full == QueueCapacity # 0 /\ Cardinality(Held) >= QueueCapacity

ExecInit ==
    /\ life = [t \in Tasks |-> "new"]
    /\ stopped = FALSE
    /\ over = FALSE
    /\ closedGroups = {}
    /\ returned = {}

Move(t, from, to) ==
    /\ life[t] = from
    /\ life' = [life EXCEPT ![t] = to]
    /\ UNCHANGED <<stopped, over, closedGroups, returned>>

\* A call of a push function begins, or is refused at once after shutdown.
Offer(t)  == ~stopped /\ ~over /\ Move(t, "new", "offered")
Reject(t) == stopped /\ ~over /\ Move(t, "new", "refused")

\* It is let in if there is room, and QUEUE_FULL is the answer if there is
\* none at that instant.
Reserve(t)    == ~Full /\ Move(t, "offered", "reserved")
RefuseFull(t) == Full /\ Move(t, "offered", "full")

\* It may yet be turned away because of shutdown or because its group is
\* closed; else it is accepted, even after shutdown.
GiveUp(t) ==
    /\ stopped \/ GroupOf[t] \in closedGroups
    /\ Move(t, "reserved", "refused")
Accept(t) == Move(t, "reserved", "accepted")

\* A worker takes the task; its callback has returned, and its place is free.
Claim(t)  == Move(t, "accepted", "claimed")
Finish(t) == Move(t, "claimed", "done")

Stop == stopped' = TRUE /\ UNCHANGED <<life, over, closedGroups, returned>>

CloseGroup(g) ==
    /\ closedGroups' = closedGroups \cup {g}
    /\ UNCHANGED <<life, stopped, over, returned>>

\* A wait returns when nothing is under way, queued or executing.
Return(x) ==
    /\ Held = {}
    /\ returned' = returned \cup {x}
    /\ UNCHANGED <<life, stopped, over, closedGroups>>

Close ==
    /\ stopped
    /\ \A t \in Tasks : life[t] \in {"new", "full", "refused", "done"}
    /\ over' = TRUE
    /\ UNCHANGED <<life, stopped, closedGroups, returned>>

ExecNext ==
    \/ \E t \in Tasks : \/ Offer(t) \/ Reject(t) \/ Reserve(t) \/ RefuseFull(t)
                        \/ GiveUp(t) \/ Accept(t) \/ Claim(t) \/ Finish(t)
    \/ \E g \in Groups : CloseGroup(g)
    \/ \E x \in Waiters : Return(x)
    \/ Stop \/ Close

ExecSpec == ExecInit /\ [][ExecNext]_execVars
=============================================================================
