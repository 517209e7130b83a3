-------------------------- MODULE TaskPoolProofs --------------------------
(***************************************************************************)
(* Proofs about the task queues: a task is in one place, and no task is    *)
(* lost, for any number of workers and tasks.                              *)
(***************************************************************************)
EXTENDS TaskPool, TLAPS

\* The invariant holds initially.
LEMMA PoolInitInv == PoolInit => PoolInv
<1>. SUFFICES ASSUME PoolInit PROVE PoolInv  OBVIOUS
<1>. USE DEF PoolInit
<1>1. PoolTypeOK  BY DEF PoolTypeOK, Positions
<1>2. NoDuplication
  BY SubmissionsAssumption
  DEF NoDuplication, Waiting, Injected, SubmissionsAssumption
<1>3. PriorityPure /\ ResultsAgree  BY DEF PriorityPure, ResultsAgree
<1>. QED  BY <1>1, <1>2, <1>3 DEF PoolInv

\* push_global of a task that is not in the pool.
LEMMA PushGlobalInv ==
    ASSUME PoolInv, NEW t \in Tasks, t \notin Waiting \cup InHand, PushGlobal(t)
    PROVE  PoolInv'
<1>. USE SubmissionsAssumption
     DEF SubmissionsAssumption, PoolInv, PoolTypeOK, PushGlobal
<1>1. PoolTypeOK' /\ PriorityPure' /\ ResultsAgree'
  BY DEF PriorityPure, ResultsAgree
<1>2. NoDuplication'
  BY DEF NoDuplication, Waiting, Injected, InHand
<1>. QED  BY <1>1, <1>2

\* steal_batch_and_pop claims a task and a batch from one injector: all of
\* them leave it, and they go to different places.
LEMMA StealBatchInv ==
    ASSUME PoolInv, NEW w \in Workers, StealBatch(w)
    PROVE  PoolInv'
<1>. USE SubmissionsAssumption DEF SubmissionsAssumption, PoolInv, PoolTypeOK
<1>. DEFINE p == InjectorAt(pos[w])
<1>1. p \in Priorities
  BY DEF StealBatch, InjectorAt, InjectorPos, Priorities
<1>2. PICK t \in injector[p] : \E more \in SUBSET (injector[p] \ {t}) :
         /\ injector' = [injector EXCEPT ![p] = (@ \ {t}) \ more]
         /\ current' = [current EXCEPT ![w] = t]
         /\ batch' = [batch EXCEPT ![w] = more]
  BY DEF StealBatch
<1>3. PICK more \in SUBSET (injector[p] \ {t}) :
         /\ injector' = [injector EXCEPT ![p] = (@ \ {t}) \ more]
         /\ current' = [current EXCEPT ![w] = t]
         /\ batch' = [batch EXCEPT ![w] = more]
  BY <1>2
<1>4. /\ pos[w] \in InjectorPos
      /\ pos' = [pos EXCEPT ![w] = "deliver"]
      /\ UNCHANGED <<local, victims>>
  BY DEF StealBatch
<1>5. t \in Tasks /\ more \in SUBSET Tasks /\ t # NoTask  BY <1>1, <1>2, <1>3
<1>. HIDE DEF p
<1>6. PoolTypeOK'  BY <1>1, <1>3, <1>4, <1>5 DEF Positions
<1>7. NoDuplication'
  BY <1>1, <1>3, <1>4, <1>5
  DEF NoDuplication, PriorityPure, ResultsAgree, Waiting, Injected, InjectorPos
<1>8. PriorityPure'  BY <1>1, <1>3, <1>4 DEF PriorityPure
<1>9. ResultsAgree'  BY <1>3, <1>4, <1>5 DEF ResultsAgree
<1>. QED  BY <1>6, <1>7, <1>8, <1>9

\* Every other step of pop_for_worker.
LEMMA PopStepInv ==
    ASSUME PoolInv, NEW w \in Workers, PopStep(w)
    PROVE  PoolInv'
<1>. USE SubmissionsAssumption
     DEF SubmissionsAssumption, PoolInv, PoolTypeOK, NoDuplication,
         PriorityPure, ResultsAgree, Waiting, Injected,
         Positions, Results, InjectorPos
<1>1. CASE InjectorEmpty(w)  BY <1>1 DEF InjectorEmpty, Victims, After
<1>2. CASE StealBatch(w)     BY <1>2, StealBatchInv
<1>3. CASE DeliverBatch(w)   BY <1>3 DEF DeliverBatch
<1>4. CASE LocalPop(w)       BY <1>4 DEF LocalPop
<1>5. CASE LocalEmpty(w)     BY <1>5 DEF LocalEmpty, After
<1>6. CASE StealPeer(w)      BY <1>6 DEF StealPeer
<1>7. CASE PeerEmpty(w)      BY <1>7 DEF PeerEmpty
<1>8. CASE PeersExhausted(w) BY <1>8 DEF PeersExhausted
<1>9. CASE StealRetry(w)     BY <1>9 DEF StealRetry
<1>. QED
  BY <1>1, <1>2, <1>3, <1>4, <1>5, <1>6, <1>7, <1>8, <1>9 DEF PopStep

\* The caller's side of a lookup.
LEMMA PoolClientInv ==
    ASSUME PoolInv, NEW w \in Workers, PoolClient(w)
    PROVE  PoolInv'
<1>. USE SubmissionsAssumption
     DEF SubmissionsAssumption, PoolInv, PoolTypeOK, NoDuplication,
         PriorityPure, ResultsAgree, Waiting, Injected,
         Positions, Results, InjectorPos
<1>1. CASE current[w] = NoTask /\ PopCall(w)  BY <1>1 DEF PopCall
<1>2. CASE pos[w] \in Results /\ PopReturn(w)  BY <1>2 DEF PopReturn
<1>3. CASE pos[w] = "idle" /\ current[w] # NoTask /\ DropTask(w)
  BY <1>3 DEF DropTask
<1>. QED  BY <1>1, <1>2, <1>3 DEF PoolClient

\* Every step keeps the invariant.
LEMMA PoolNextInv == PoolInv /\ [PoolNext]_poolVars => PoolInv'
<1>. SUFFICES ASSUME PoolInv, [PoolNext]_poolVars PROVE PoolInv'  OBVIOUS
<1>1. CASE UNCHANGED poolVars
  BY <1>1 DEF poolVars, PoolInv, PoolTypeOK, NoDuplication, PriorityPure,
              ResultsAgree, Waiting, Injected
<1>2. CASE PoolNext
  BY <1>2, PushGlobalInv, PoolClientInv, PopStepInv DEF PoolNext
<1>. QED  BY <1>1, <1>2

\* In every behaviour of the queues the invariant holds.
THEOREM PoolSafe == PoolSpec => []PoolInv
  BY PoolInitInv, PoolNextInv, PTL DEF PoolSpec

\* A task is in one place only (queue.rs: push_global, pop_for_worker,
\* steal_from_peers), so no callback can be run by two workers.
THEOREM PoolNoDuplication == PoolSpec => []NoDuplication
<1>1. PoolInv => NoDuplication  BY DEF PoolInv
<1>. QED  BY <1>1, PoolSafe, PTL

\* What a lookup returns and the task in hand agree (Steal::Success, Retry and
\* Empty in queue.rs), and no batch is left behind undelivered.
THEOREM PoolResultsAgree == PoolSpec => []ResultsAgree
<1>1. PoolInv => ResultsAgree  BY DEF PoolInv
<1>. QED  BY <1>1, PoolSafe, PTL

\* A step of a lookup by w keeps the tasks in the pool; it moves tasks on, at
\* most into the hand of w.
LEMMA PopStepKeeps ==
    ASSUME PoolInv, NEW w \in Workers, PopStep(w)
    PROVE  /\ Waiting' \subseteq Waiting
           /\ Waiting \subseteq Waiting' \cup {current'[w]}
           /\ \A v \in Workers \ {w} : current'[v] = current[v] /\ pos'[v] = pos[v]
           /\ pos[w] # "idle" /\ pos'[w] # "idle"
           /\ \/ current'[w] = current[w]
              \/ current[w] = NoTask /\ current'[w] \in Waiting \ Waiting'
<1>. USE SubmissionsAssumption
     DEF SubmissionsAssumption, PoolInv, PoolTypeOK, Waiting, Injected
<1>0. /\ pos[w] # "deliver" => batch[w] = {}
      /\ pos[w] \in InjectorPos \cup {"local", "peers"} => current[w] = NoTask
  BY DEF ResultsAgree, InjectorPos
<1>1. CASE \/ InjectorEmpty(w) \/ LocalEmpty(w) \/ PeerEmpty(w)
           \/ PeersExhausted(w) \/ StealRetry(w)
  <2>1. UNCHANGED <<injector, local, batch, current>>
    BY <1>1 DEF InjectorEmpty, LocalEmpty, PeerEmpty, PeersExhausted, StealRetry
  <2>2. Waiting' = Waiting  BY <2>1
  <2>3. /\ \A v \in Workers \ {w} : pos'[v] = pos[v]
        /\ pos[w] # "idle" /\ pos'[w] # "idle"
    BY <1>1 DEF InjectorEmpty, LocalEmpty, PeerEmpty, PeersExhausted,
                StealRetry, InjectorPos, After
  <2>. HIDE DEF Waiting
  <2>. QED  BY <2>1, <2>2, <2>3
<1>3. CASE StealBatch(w)
  <2>. DEFINE p == InjectorAt(pos[w])
  <2>1. PICK t \in injector[p] : \E more \in SUBSET (injector[p] \ {t}) :
           /\ injector' = [injector EXCEPT ![p] = (@ \ {t}) \ more]
           /\ current' = [current EXCEPT ![w] = t]
           /\ batch' = [batch EXCEPT ![w] = more]
    BY <1>3 DEF StealBatch
  <2>2. PICK more \in SUBSET (injector[p] \ {t}) :
           /\ injector' = [injector EXCEPT ![p] = (@ \ {t}) \ more]
           /\ current' = [current EXCEPT ![w] = t]
           /\ batch' = [batch EXCEPT ![w] = more]
    BY <2>1
  <2>3. /\ pos[w] \in InjectorPos /\ UNCHANGED local
        /\ pos' = [pos EXCEPT ![w] = "deliver"]
    BY <1>3 DEF StealBatch
  <2>4. p \in Priorities  BY <2>3 DEF InjectorAt, InjectorPos, Priorities
  <2>. HIDE DEF p
  <2>5. batch[w] = {} /\ current[w] = NoTask  BY <1>0, <2>3 DEF InjectorPos
  <2>6. t \in Waiting  BY <2>4
  <2>7. t \notin Waiting'
    BY <2>2, <2>3, <2>4, <2>6 DEF NoDuplication, PriorityPure
  <2>8. Waiting' \subseteq Waiting  BY <2>2, <2>3, <2>4
  <2>9. Waiting \subseteq Waiting' \cup {t}  BY <2>2, <2>3, <2>4, <2>5
  <2>. QED  BY <2>2, <2>3, <2>5, <2>6, <2>7, <2>8, <2>9 DEF InjectorPos
<1>4. CASE DeliverBatch(w)
  <2>1. Waiting' = Waiting  BY <1>4 DEF DeliverBatch
  <2>. HIDE DEF Waiting
  <2>. QED  BY <1>4, <2>1 DEF DeliverBatch
<1>5. CASE LocalPop(w)
  BY <1>0, <1>5 DEF LocalPop, NoDuplication
<1>6. CASE StealPeer(w)
  BY <1>0, <1>6 DEF StealPeer, NoDuplication
<1>. QED  BY <1>1, <1>3, <1>4, <1>5, <1>6 DEF PopStep

\* Each step keeps every task in the pool, except the one a worker drops.
LEMMA StepLosesNothing ==
    ASSUME PoolInv, PoolNext
    PROVE  OnlyReturnedLeave
<1>. USE SubmissionsAssumption
     DEF SubmissionsAssumption, PoolInv, PoolTypeOK, OnlyReturnedLeave,
         Waiting, Injected, InHand
<1>1. ASSUME NEW t \in Tasks, PushGlobal(t) PROVE OnlyReturnedLeave
  BY <1>1 DEF PushGlobal
<1>2. ASSUME NEW w \in Workers, PoolClient(w) PROVE OnlyReturnedLeave
  BY <1>2 DEF PoolClient, PopCall, PopReturn, DropTask
<1>3. ASSUME NEW w \in Workers, PopStep(w) PROVE OnlyReturnedLeave
  <2>0. pos[w] # "deliver" => batch[w] = {}  BY DEF ResultsAgree
  <2>1. pos[w] \in InjectorPos \cup {"local", "peers"} => current[w] = NoTask
    BY DEF ResultsAgree, InjectorPos
  <2>2. CASE InjectorEmpty(w) \/ LocalEmpty(w) \/ PeerEmpty(w)
             \/ PeersExhausted(w) \/ StealRetry(w)
    BY <2>2 DEF InjectorEmpty, LocalEmpty, PeerEmpty, PeersExhausted, StealRetry
  <2>3. CASE StealBatch(w)
    <3>. DEFINE p == InjectorAt(pos[w])
    <3>1. PICK t \in injector[p] : \E more \in SUBSET (injector[p] \ {t}) :
             /\ injector' = [injector EXCEPT ![p] = (@ \ {t}) \ more]
             /\ current' = [current EXCEPT ![w] = t]
             /\ batch' = [batch EXCEPT ![w] = more]
      BY <2>3 DEF StealBatch
    <3>2. pos[w] \in InjectorPos /\ UNCHANGED local
      BY <2>3 DEF StealBatch
    <3>. HIDE DEF p
    <3>3. batch[w] = {} /\ current[w] = NoTask
      BY <2>0, <2>1, <3>2 DEF InjectorPos
    <3>4. ASSUME NEW u \in Waiting \cup InHand PROVE u \in Waiting' \cup InHand'
      BY <3>1, <3>2, <3>3
    <3>. QED  BY <3>4
  <2>4. CASE DeliverBatch(w)  BY <2>4 DEF DeliverBatch
  <2>5. CASE LocalPop(w)  BY <2>1, <2>5 DEF LocalPop
  <2>6. CASE StealPeer(w)  BY <2>1, <2>6 DEF StealPeer
  <2>. QED  BY <1>3, <2>2, <2>3, <2>4, <2>5, <2>6 DEF PopStep
<1>. QED  BY <1>1, <1>2, <1>3 DEF PoolNext

\* No step of pop_for_worker, its steals or push_global loses a task.
THEOREM PoolNothingLost == PoolSpec => NothingLost
<1>1. PoolInv /\ [PoolNext]_poolVars => [OnlyReturnedLeave]_poolVars
  BY StepLosesNothing
<1>. QED  BY <1>1, PoolSafe, PTL DEF PoolSpec, NothingLost

=============================================================================
