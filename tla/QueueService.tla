---------------------------- MODULE QueueService ----------------------------
(***************************************************************************)
(* The service the queues give: what Empty means, how long HIGH tasks may  *)
(* pass lower ones, and which tasks are served at all.  QueueSystem with   *)
(* two history variables about one worker, which no action reads.          *)
(***************************************************************************)
EXTENDS QueueSystem

CONSTANT Watched    \* the worker the histories are about: any one of them

ASSUME WatchedAssumption == Watched \in WorkerIds

VARIABLES
    seen,           \* injectors and own deque when the worker's lookup began
    passed          \* HIGH tasks it has taken past the waiting tasks of a queue

serviceVars == <<queueVars, seen, passed>>

Lower == {"Normal", "Low"}

ServiceInit == QueueInit /\ seen = {} /\ passed = [p \in Lower |-> 0]

Globally == UNION {Elements(queue[p]) : p \in Priorities}

\* A task that is pushed again is a new submission.
Submit(t) == PushGlobal(t) /\ seen' = seen \ {t} /\ UNCHANGED passed

Starts(w) == w = Watched /\ pos[w] = "idle" /\ pos'[w] # "idle"
Takes(w, ps) == /\ w = Watched
                /\ current[w] = NoTask /\ current'[w] # NoTask
                /\ PriorityOf[current'[w]] \in ps

\* passed[p] grows as long as queue p stays non-empty and the worker takes
\* nothing but HIGH tasks; one beyond the limit says enough.
Observe(w) ==
    /\ seen' = IF Starts(w) THEN Globally \cup Elements(deque[w])
               ELSE IF pos'[Watched] \in {"idle", "deliver", "task", "retry"} THEN {}
               ELSE seen
    /\ passed' = [p \in Lower |->
                    IF queue'[p] = <<>> \/ Takes(w, Lower) THEN 0
                    ELSE IF Takes(w, {"High"}) /\ passed[p] <= HighBurstLimit
                         THEN passed[p] + 1
                    ELSE passed[p]]

ServiceNext ==
    \/ \E t \in Tasks \ (Waiting \cup InHand) : Submit(t)
    \/ \E w \in WorkerIds : WorkerLoop(w) /\ Observe(w)

ServiceSpec == ServiceInit /\ [][ServiceNext]_serviceVars
ServiceFairSpec == ServiceSpec /\ QueueFairness

-----------------------------------------------------------------------------
\* pop_for_worker answers Empty soundly: whatever was in an injector or in
\* the worker's own deque when the call began has been taken by somebody, or
\* sits in the deque or the batch of a peer, which is awake.
EmptyIsSound ==
    pos[Watched] = "empty" =>
        seen \cap (Globally \cup Elements(deque[Watched])) = {}

\* The sources a lookup has gone past when it is at p, fairness path aside.
Behind(p) ==
    (IF p \in {"high", "normal", "low", "peers"} THEN Elements(deque[Watched]) ELSE {})
    \cup UNION {Elements(queue[q]) : q \in CASE p = "normal" -> {"High"}
                                             [] p = "low"    -> {"High", "Normal"}
                                             [] p = "peers"  -> Priorities
                                             [] OTHER        -> {}}

\* pop_for_worker keeps the order of its sources against racing workers: it
\* takes a task only when nothing that was in the sources before that one as
\* the call began is left there; so a peer is robbed only by a worker without
\* own work.  The own deque comes before the HIGH injector (queue.rs:295): a
\* NORMAL or LOW task passes a HIGH one that was in the injector at the call
\* only on the fairness path or out of the own deque, where an earlier batch
\* has put it.  "Prefers HIGH-priority work" (README.md:88) is true of the
\* injectors only.
PriorityOrder ==
    [][current[Watched] = NoTask /\ current'[Watched] # NoTask
         => seen \cap Behind(pos[Watched]) = {}]_serviceVars

\* HIGH_BURST_LIMIT bounds what a worker may do past waiting work: while the
\* NORMAL (or the LOW) queue stays non-empty, a worker takes at most that many
\* HIGH tasks before a lower one, wherever it finds them: in its own deque,
\* in the HIGH queue or in the deque of a peer, and however often it retries.
BurstBounded == \A p \in Lower : passed[p] <= HighBurstLimit

\* HIGH and NORMAL tasks are served: a task in a queue, a batch or a deque
\* gets into the hands of a worker, against an endless stream of other tasks
\* of any priority.
HighAndNormalServed ==
    \A t \in Tasks : PriorityOf[t] # "Low" => (t \in Waiting ~> t \in InHand)

\* README.md:90, "To prevent lower-priority starvation, workers use a fairness
\* mechanism": LOW tasks are served as well.
LowServed ==
    \A t \in Tasks : PriorityOf[t] = "Low" => (t \in Waiting ~> t \in InHand)

-----------------------------------------------------------------------------
(* The inductive invariants behind EmptyIsSound and BurstBounded *)

\* What the worker's lookup has left behind it holds nothing it saw at first.
ProbedSources ==
    /\ pos[Watched] \in {"high", "normal", "low", "peers", "empty"} =>
          seen \cap Elements(deque[Watched]) = {}
    /\ pos[Watched] \in {"normal", "low", "peers", "empty"} =>
          seen \cap Elements(queue["High"]) = {}
    /\ pos[Watched] \in {"low", "peers", "empty"} =>
          seen \cap Elements(queue["Normal"]) = {}
    /\ pos[Watched] \in {"peers", "empty"} =>
          seen \cap Elements(queue["Low"]) = {}

\* The streak is an upper bound of what has passed, it never exceeds the
\* limit, and beyond the fairness path it is below it.
StreakCovers ==
    /\ \A p \in Lower : passed[p] <= high_streak[Watched]
    /\ pos[Watched] = "fair_low" => passed["Normal"] = 0
    /\ high_streak[Watched] <= HighBurstLimit
    /\ pos[Watched] \in {"local", "high", "normal", "low", "peers"} =>
          high_streak[Watched] < HighBurstLimit
=============================================================================
