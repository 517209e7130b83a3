------------------------------ MODULE TaskPool ------------------------------
(***************************************************************************)
(* The task queues of the scheduler (src/src/queue.rs) as the rest of the  *)
(* scheduler sees them: three global priority injectors, one local deque   *)
(* per worker, and the lookup pop_for_worker, which is not atomic.         *)
(*                                                                         *)
(* This is the abstract view.  A queue is the SET of tasks it holds, the   *)
(* order in which peers are probed is arbitrary, and whether the fairness  *)
(* path is taken is a free choice; QueueSystem refines all three.  What is *)
(* kept is the order in which the sources are probed and every point at    *)
(* which another thread can interleave: each probe of an injector or of a  *)
(* deque is one step, and crossbeam's steal_batch_and_pop is two (the      *)
(* batch leaves the injector before it is visible in the local deque).     *)
(***************************************************************************)
EXTENDS Submissions

CONSTANT Workers    \* the worker threads, each owner of one local deque

ASSUME PoolAssumption == IsFiniteSet(Workers)

VARIABLES
    injector,       \* global queue of each priority
    local,          \* local deque of each worker
    batch,          \* tasks claimed from an injector, not yet in the deque
    current,        \* the task pop_for_worker hands to its caller
    pos,            \* where each worker is inside pop_for_worker
    victims         \* peers the running steal_from_peers has still to probe

poolVars == <<injector, local, batch, current, pos, victims>>

(***************************************************************************)
(* Positions inside one call of pop_for_worker.  The first five probe an   *)
(* injector (InjectorAt); "task", "retry" and "empty" are the results.     *)
(***************************************************************************)
InjectorPos == {"fair_normal", "fair_low", "high", "normal", "low"}
Results == {"task", "retry", "empty"}
Positions == InjectorPos \cup {"idle", "local", "peers", "deliver"} \cup Results

InjectorAt(p) == CASE p \in {"fair_normal", "normal"} -> "Normal"
                   [] p \in {"fair_low", "low"}       -> "Low"
                   [] p = "high"                      -> "High"

\* The source probed after p when p turned out to be empty.
After(p) == CASE p = "fair_normal" -> "fair_low"
              [] p = "fair_low"    -> "local"
              [] p = "local"       -> "high"
              [] p = "high"        -> "normal"
              [] p = "normal"      -> "low"
              [] p = "low"         -> "peers"

PoolTypeOK ==
    /\ injector \in [Priorities -> SUBSET Tasks]
    /\ local    \in [Workers -> SUBSET Tasks]
    /\ batch    \in [Workers -> SUBSET Tasks]
    /\ current  \in [Workers -> Tasks \cup {NoTask}]
    /\ pos      \in [Workers -> Positions]
    /\ victims  \in [Workers -> SUBSET Workers]

PoolInit ==
    /\ injector = [p \in Priorities |-> {}]
    /\ local    = [w \in Workers |-> {}]
    /\ batch    = [w \in Workers |-> {}]
    /\ current  = [w \in Workers |-> NoTask]
    /\ pos      = [w \in Workers |-> "idle"]
    /\ victims  = [w \in Workers |-> {}]

-----------------------------------------------------------------------------
\* push_global: the task enters the injector of its priority.
PushGlobal(t) ==
    /\ injector' = [injector EXCEPT ![PriorityOf[t]] = @ \cup {t}]
    /\ UNCHANGED <<local, batch, current, pos, victims>>

\* A call of pop_for_worker begins.  The fairness path is entered when the
\* worker's HIGH streak has reached its limit, which this view leaves open.
PopCall(w) ==
    /\ pos[w] = "idle"
    /\ \E p \in {"fair_normal", "local"} : pos' = [pos EXCEPT ![w] = p]
    /\ UNCHANGED <<injector, local, batch, current, victims>>

\* StealState::victims: every other worker, once.
Victims(w) == Workers \ {w}

\* try_priority_queue found its injector empty: go on to the next source.
\* Behind the last injector steal_from_peers starts on its victims.
InjectorEmpty(w) ==
    /\ pos[w] \in InjectorPos
    /\ injector[InjectorAt(pos[w])] = {}
    /\ pos' = [pos EXCEPT ![w] = After(@)]
    /\ victims' = [victims EXCEPT ![w] =
                     IF pos[w] = "low" THEN Victims(w) ELSE @]
    /\ UNCHANGED <<injector, local, batch, current>>

\* Injector::steal_batch_and_pop, first half: a task for the caller and any
\* further tasks of the same injector are claimed.
StealBatch(w) ==
    /\ pos[w] \in InjectorPos
    /\ LET p == InjectorAt(pos[w]) IN
       \E t \in injector[p] : \E more \in SUBSET (injector[p] \ {t}) :
          /\ injector' = [injector EXCEPT ![p] = (@ \ {t}) \ more]
          /\ current' = [current EXCEPT ![w] = t]
          /\ batch' = [batch EXCEPT ![w] = more]
    /\ pos' = [pos EXCEPT ![w] = "deliver"]
    /\ UNCHANGED <<local, victims>>

\* Mutant: the batch is dropped instead of delivered.
DeliverBatch_DropsBatch(w) ==
    /\ pos[w] = "deliver"
    /\ batch' = [batch EXCEPT ![w] = {}]
    /\ pos' = [pos EXCEPT ![w] = "task"]
    /\ UNCHANGED <<injector, local, current, victims>>

\* Injector::steal_batch_and_pop, second half: the rest of the batch becomes
\* visible in the worker's own deque, where peers can steal it.
DeliverBatch(w) ==
    /\ pos[w] = "deliver"
    /\ local' = [local EXCEPT ![w] = @ \cup batch[w]]
    /\ batch' = [batch EXCEPT ![w] = {}]
    /\ pos' = [pos EXCEPT ![w] = "task"]
    /\ UNCHANGED <<injector, current, victims>>

LocalPop(w) ==
    /\ pos[w] = "local"
    /\ \E t \in local[w] :
          /\ local' = [local EXCEPT ![w] = @ \ {t}]
          /\ current' = [current EXCEPT ![w] = t]
    /\ pos' = [pos EXCEPT ![w] = "task"]
    /\ UNCHANGED <<injector, batch, victims>>

\* Mutant: the worker's own deque is not looked at.
LocalEmpty_Unchecked(w) ==
    /\ pos[w] = "local"
    /\ pos' = [pos EXCEPT ![w] = After(@)]
    /\ UNCHANGED <<injector, local, batch, current, victims>>

LocalEmpty(w) ==
    /\ pos[w] = "local"
    /\ local[w] = {}
    /\ pos' = [pos EXCEPT ![w] = After(@)]
    /\ UNCHANGED <<injector, local, batch, current, victims>>

\* Mutant: the stolen task stays in the victim's deque.
StealPeer_Copies(w) ==
    /\ pos[w] = "peers"
    /\ \E v \in victims[w] : \E t \in local[v] :
          current' = [current EXCEPT ![w] = t]
    /\ victims' = [victims EXCEPT ![w] = {}]
    /\ pos' = [pos EXCEPT ![w] = "task"]
    /\ UNCHANGED <<injector, local, batch>>

\* Stealer::steal on one of the victims not probed yet.
StealPeer(w) ==
    /\ pos[w] = "peers"
    /\ \E v \in victims[w] : \E t \in local[v] :
          /\ local' = [local EXCEPT ![v] = @ \ {t}]
          /\ current' = [current EXCEPT ![w] = t]
    /\ victims' = [victims EXCEPT ![w] = {}]
    /\ pos' = [pos EXCEPT ![w] = "task"]
    /\ UNCHANGED <<injector, batch>>

PeerEmpty(w) ==
    /\ pos[w] = "peers"
    /\ \E v \in victims[w] :
          /\ local[v] = {}
          /\ victims' = [victims EXCEPT ![w] = @ \ {v}]
    /\ UNCHANGED <<injector, local, batch, current, pos>>

PeersExhausted(w) ==
    /\ pos[w] = "peers"
    /\ victims[w] = {}
    /\ pos' = [pos EXCEPT ![w] = "empty"]
    /\ UNCHANGED <<injector, local, batch, current, victims>>

\* Steal::Retry: the source was seen non-empty, but another thread (or a
\* spurious failure of the weak compare-exchange) won the race for it.
StealRetry(w) ==
    /\ \/ pos[w] \in InjectorPos /\ injector[InjectorAt(pos[w])] # {}
       \/ pos[w] = "peers" /\ \E v \in victims[w] : local[v] # {}
    /\ pos' = [pos EXCEPT ![w] = "retry"]
    /\ victims' = [victims EXCEPT ![w] = {}]
    /\ UNCHANGED <<injector, local, batch, current>>

TakeTask(w) == StealBatch(w) \/ LocalPop(w) \/ StealPeer(w)

\* One step of a running call of pop_for_worker.
PopStep(w) ==
    \/ InjectorEmpty(w) \/ StealBatch(w) \/ DeliverBatch(w)
    \/ LocalPop(w) \/ LocalEmpty(w)
    \/ StealPeer(w) \/ PeerEmpty(w) \/ PeersExhausted(w)
    \/ StealRetry(w)

\* The caller has taken the result: no call is running any more.  The task,
\* if there is one, stays in the caller's hands until it drops it.
PopReturn(w) ==
    /\ pos' = [pos EXCEPT ![w] = "idle"]
    /\ UNCHANGED <<injector, local, batch, current, victims>>

DropTask(w) ==
    /\ current' = [current EXCEPT ![w] = NoTask]
    /\ UNCHANGED <<injector, local, batch, pos, victims>>

-----------------------------------------------------------------------------
\* All tasks waiting in a global queue, in a local deque, or on their way.
Injected == {t \in Tasks : \E p \in Priorities : t \in injector[p]}
Waiting  == Injected \cup {t \in Tasks : \E w \in Workers :
                                t \in local[w] \cup batch[w]}
InHand   == {t \in Tasks : \E w \in Workers : current[w] = t}

\* The pool with the most general client: a worker looks for its next task
\* when it has none, and a task enters when it is not in the pool already.
PoolClient(w) ==
    \/ current[w] = NoTask /\ PopCall(w)
    \/ pos[w] \in Results /\ PopReturn(w)
    \/ pos[w] = "idle" /\ current[w] # NoTask /\ DropTask(w)

PoolNext ==
    \/ \E t \in Tasks : t \notin Waiting \cup InHand /\ PushGlobal(t)
    \/ \E w \in Workers : PoolClient(w) \/ PopStep(w)

PoolSpec == PoolInit /\ [][PoolNext]_poolVars

-----------------------------------------------------------------------------
\* A task is in one place only, through every interleaving of push_global,
\* batch stealing, local pops and peer stealing: no callback can run twice.
NoDuplication ==
    /\ \A v, w \in Workers : v # w =>
          /\ local[v] \cap local[w] = {}
          /\ batch[v] \cap batch[w] = {}
          /\ current[v] = current[w] => current[v] = NoTask
    /\ \A v, w \in Workers : local[v] \cap batch[w] = {}
    /\ \A w \in Workers : (local[w] \cup batch[w]) \cap Injected = {}
    /\ \A w \in Workers : current[w] \notin Waiting

\* Each injector holds tasks of its own priority only (the match in
\* push_global), so probing in priority order is serving in priority order.
PriorityPure ==
    \A p \in Priorities : \A t \in injector[p] : PriorityOf[t] = p

\* The result of a lookup and the task in hand agree: Retry and Empty come
\* back with nothing in hand, Task with a task and with its batch delivered.
ResultsAgree ==
    \A w \in Workers :
       /\ pos[w] \in {"deliver", "task"} => current[w] # NoTask
       /\ pos[w] \notin {"deliver", "task", "idle"} => current[w] = NoTask
       /\ pos[w] # "deliver" => batch[w] = {}

\* The inductive invariant of the pool.
PoolInv == PoolTypeOK /\ NoDuplication /\ PriorityPure /\ ResultsAgree

\* What a step takes out of the pool was in the hand of a worker whose lookup
\* had returned it.
OnlyReturnedLeave ==
    (Waiting \cup InHand) \ (Waiting' \cup InHand')
        \subseteq {current[w] : w \in {v \in Workers : pos[v] = "idle"}}

\* Nothing is lost: no step of any lookup makes a task disappear, not even
\* between the two halves of a batch steal or when a steal must be retried.
NothingLost == [][OnlyReturnedLeave]_poolVars

=============================================================================
