----------------------------- MODULE MCWakeUps -----------------------------
(***************************************************************************)
(* Model-checking instance of WakeUps.                                     *)
(***************************************************************************)
EXTENDS WakeUps, MCScheduler

\* Bound: two submissions, or one submission and a waiter.
WaiterOrSecond ==
    (\E x \in Waiters : wait[x] # "idle") =>
        Cardinality({t \in Tasks : push[t] # "idle"}) <= 1

\* Bounds of the run live.  Interchangeable workers are started, and calls
\* made, in one order.
InOrder ==
    /\ wpc[w1] = "unspawned" => wpc[w2] = "unspawned"
    /\ push[t1] = "idle" => push[t2] = "idle"

\* Two calls race each other, and calls race shutdown, before the workers have
\* made their first lookup; the second call alone races the workers, and so
\* does the shutdown that is part of destroy.
NotStarted == \A w \in Workers : wpc[w] = "pop" /\ pos[w] = "idle" /\ site[w] = "fast"
RacesFirst ==
    /\ push[t1] \notin PushOver /\ push[t2] \notin {"idle"} \cup PushOver => NotStarted
    /\ owner = "live" /\ shutdown => NotStarted

\* Two NORMAL tasks never reach the HIGH burst limit.
NoFairPath == \A w \in Workers : pos[w] # "fair_normal"

LiveBound == InOrder /\ RacesFirst /\ NoFairPath
=============================================================================
