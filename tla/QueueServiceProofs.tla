------------------------- MODULE QueueServiceProofs -------------------------
(***************************************************************************)
(* Proofs about QueueService: what Empty means and how long HIGH tasks may *)
(* pass lower ones, for any number of workers and tasks and any limit.     *)
(***************************************************************************)
EXTENDS QueueSystemProofs

ServiceTypeOK == passed \in [Lower -> Nat]

\* The inductive invariant: what the queues keep by themselves, and the two
\* facts that tie the histories to the state of the watched worker.
ServiceInv ==
    /\ QueueInv /\ PP!PoolInv
    /\ ServiceTypeOK /\ ProbedSources /\ StreakCovers

-----------------------------------------------------------------------------
(* What a step of a worker does to the queues and to its streak *)

\* A worker's step is a step of the pool.
LEMMA LoopIsQueueStep ==
    ASSUME QueueInv, PP!PoolInv, NEW w \in WorkerIds, WorkerLoop(w)
    PROVE  QueueInv' /\ PP!PoolInv'
<1>1. [QueueNext]_queueVars  BY DEF QueueNext
<1>. QED  BY <1>1, StepIsPoolStep, PoolStepInv

\* A step of worker w takes tasks out of queues and adds none, except to its
\* own deque when it delivers a batch; and it moves no other worker.
LEMMA SourcesShrink ==
    ASSUME QueueInv, PP!PoolInv, NEW w \in WorkerIds, WorkerLoop(w)
    PROVE  /\ \A p \in Priorities : Elements(queue'[p]) \subseteq Elements(queue[p])
           /\ \A v \in WorkerIds :
                 v # w \/ pos[w] # "deliver" =>
                    Elements(deque'[v]) \subseteq Elements(deque[v])
           /\ \A v \in WorkerIds \ {w} :
                 pos'[v] = pos[v] /\ high_streak'[v] = high_streak[v]
<1>. USE DEF QueueInv, QueueTypeOK
<1>1. CASE StealBatch(w)
  <2>. DEFINE p == InjectorAt(pos[w])
              q == queue[p]
  <2>1. p \in Priorities /\ q \in Seq(Tasks) /\ Injective(q)
    BY <1>1, SamePositions DEF StealBatch, NoRepetition
  <2>2. PICK n \in 1 .. Len(q) :
           queue' = [queue EXCEPT ![p] = SubSeq(q, n + 1, Len(q))]
    BY <1>1 DEF StealBatch
  <2>3. Elements(SubSeq(q, n + 1, Len(q))) \subseteq Elements(q)
    BY <2>1, <2>2, PrefixElements
  <2>. HIDE DEF p, q
  <2>4. \A x \in Priorities : Elements(queue'[x]) \subseteq Elements(queue[x])
    BY <2>1, <2>2, <2>3 DEF q
  <2>. QED  BY <1>1, <2>4 DEF StealBatch, RecordTask
<1>2. CASE DeliverBatch(w)
  BY <1>2 DEF DeliverBatch
<1>3. ASSUME NEW v \in WorkerIds, deque[v] # <<>>,
             deque' = [deque EXCEPT ![v] = Tail(deque[v])]
      PROVE  \A x \in WorkerIds : Elements(deque'[x]) \subseteq Elements(deque[x])
  <2>1. Elements(Tail(deque[v])) \subseteq Elements(deque[v])
    BY <1>3, TailElements DEF NoRepetition
  <2>. QED  BY <1>3, <2>1
<1>4. CASE LocalPop(w)
  <2>1. \A x \in WorkerIds : Elements(deque'[x]) \subseteq Elements(deque[x])
    BY <1>3, <1>4 DEF LocalPop
  <2>. QED  BY <1>4, <2>1 DEF LocalPop, RecordTask
<1>5. CASE StealPeer(w)
  <2>1. Head(todo[w]) \in WorkerIds
    BY <1>5, NoElements DEF StealPeer
  <2>2. \A x \in WorkerIds : Elements(deque'[x]) \subseteq Elements(deque[x])
    BY <1>3, <1>5, <2>1 DEF StealPeer
  <2>. QED  BY <1>5, <2>2 DEF StealPeer, RecordTask
<1>6. CASE \/ InjectorEmpty(w) \/ LocalEmpty(w) \/ PeerEmpty(w)
           \/ PeersExhausted(w) \/ StealRetry(w) \/ PopCall(w)
           \/ PopReturn(w) \/ DropTask(w)
  BY <1>6 DEF InjectorEmpty, LocalEmpty, PeerEmpty, PeersExhausted, StealRetry,
              PopCall, PopReturn, DropTask
<1>. QED
  BY <1>1, <1>2, <1>4, <1>5, <1>6 DEF WorkerLoop, PopStep, TakeTask

\* A lookup gets past a source only by finding it empty.
LEMMA PassedIsEmpty ==
    ASSUME QueueInv, NEW w \in WorkerIds, WorkerLoop(w),
           pos'[w] \in {"high", "normal", "low", "peers", "empty"}
    PROVE  /\ pos'[w] = "high" => pos[w] = "local" /\ deque[w] = <<>>
           /\ pos'[w] = "normal" => pos[w] = "high" /\ queue["High"] = <<>>
           /\ pos'[w] = "low" => pos[w] = "normal" /\ queue["Normal"] = <<>>
           /\ pos'[w] = "peers" =>
                 \/ pos[w] = "peers"
                 \/ pos[w] = "low" /\ queue["Low"] = <<>>
           /\ pos'[w] = "empty" => pos[w] = "peers"
           /\ pos[w] # "idle"
<1>. USE DEF QueueInv, QueueTypeOK
<1>1. CASE InjectorEmpty(w)
  <2>1. /\ pos[w] \in InjectorPos /\ queue[InjectorAt(pos[w])] = <<>>
        /\ pos'[w] = After(pos[w])
    BY <1>1 DEF InjectorEmpty
  <2>2. CASE pos[w] \in {"fair_normal", "fair_low"}
    BY <2>1, <2>2 DEF After
  <2>3. CASE pos[w] = "high"
    BY <2>1, <2>3 DEF After, InjectorAt
  <2>4. CASE pos[w] = "normal"
    BY <2>1, <2>4 DEF After, InjectorAt
  <2>5. CASE pos[w] = "low"
    BY <2>1, <2>5 DEF After, InjectorAt
  <2>. QED  BY <2>1, <2>2, <2>3, <2>4, <2>5 DEF InjectorPos
<1>2. CASE LocalEmpty(w)
  BY <1>2 DEF LocalEmpty, After
<1>3. CASE PeerEmpty(w) \/ PeersExhausted(w)
  BY <1>3 DEF PeerEmpty, PeersExhausted
<1>4. CASE TakeTask(w) \/ DeliverBatch(w) \/ StealRetry(w) \/ PopReturn(w)
  BY <1>4 DEF TakeTask, StealBatch, LocalPop, StealPeer, DeliverBatch,
              StealRetry, PopReturn
<1>5. CASE PopCall(w) \/ DropTask(w)
  BY <1>5 DEF PopCall, DropTask
<1>. QED  BY <1>1, <1>2, <1>3, <1>4, <1>5 DEF WorkerLoop, PopStep


\* The tasks a lookup takes are recorded in the worker's streak: what it
\* takes while the fairness path is due is not HIGH.
LEMMA StreakStep ==
    ASSUME QueueInv, PP!PoolInv, NEW w \in WorkerIds, WorkerLoop(w),
           high_streak[w] <= HighBurstLimit,
           pos[w] \in {"local", "high", "normal", "low", "peers"} =>
              high_streak[w] < HighBurstLimit
    PROVE  \/ /\ ~ TakeTask(w)
              /\ current'[w] \in {current[w], NoTask}
              /\ high_streak'[w] \in {high_streak[w], 0}
           \/ /\ TakeTask(w)
              /\ current[w] = NoTask /\ current'[w] \in Tasks
              /\ pos'[w] \in {"deliver", "task"}
              /\ IF PriorityOf[current'[w]] = "High"
                 THEN /\ high_streak[w] < HighBurstLimit
                      /\ high_streak'[w] = high_streak[w] + 1
                 ELSE high_streak'[w] = 0
<1>. USE DEF QueueInv, QueueTypeOK
<1>1. CASE StealBatch(w)
  <2>. DEFINE p == InjectorAt(pos[w])
              q == queue[p]
  <2>1. p \in Priorities /\ q \in Seq(Tasks) /\ pos[w] \in InjectorPos
    BY <1>1, SamePositions DEF StealBatch
  <2>2. PICK n \in 1 .. Len(q) : /\ current' = [current EXCEPT ![w] = Head(q)]
                                 /\ RecordTask(w, Head(q))
    BY <1>1 DEF StealBatch
  <2>3. q # <<>> /\ Head(q) \in Elements(q) /\ Head(q) \in Tasks
    <3>1. q # <<>>  BY <2>1, <2>2
    <3>. QED  BY <2>1, <3>1, NoElements
  <2>4. PriorityOf[Head(q)] = p
    <3>1. PP!PriorityPure  BY DEF PP!PoolInv
    <3>2. Head(q) \in Contents(queue)[p]  BY <2>1, <2>3 DEF Contents
    <3>. QED  BY <2>1, <3>1, <3>2 DEF PP!PriorityPure, PP!Priorities, Priorities
  <2>5. current[w] = NoTask
    BY <2>1 DEF PP!PoolInv, PP!ResultsAgree, InjectorPos
  <2>6. p = "High" => high_streak[w] < HighBurstLimit
    BY <2>1 DEF InjectorPos, InjectorAt
  <2>7. pos'[w] = "deliver" /\ TakeTask(w)  BY <1>1 DEF StealBatch, TakeTask
  <2>. HIDE DEF p, q
  <2>. QED  BY <2>2, <2>3, <2>4, <2>5, <2>6, <2>7 DEF RecordTask
<1>2. CASE LocalPop(w)
  <2>1. Head(deque[w]) \in Tasks  BY <1>2, NoElements DEF LocalPop
  <2>2. current[w] = NoTask
    BY <1>2 DEF LocalPop, PP!PoolInv, PP!ResultsAgree
  <2>. QED  BY <1>2, <2>1, <2>2 DEF LocalPop, RecordTask, TakeTask
<1>3. CASE StealPeer(w)
  <2>1. Head(todo[w]) \in WorkerIds
    BY <1>3, NoElements DEF StealPeer
  <2>2. Head(deque[Head(todo[w])]) \in Tasks
    BY <1>3, <2>1, NoElements DEF StealPeer
  <2>3. current[w] = NoTask
    BY <1>3 DEF StealPeer, PP!PoolInv, PP!ResultsAgree
  <2>. QED  BY <1>3, <2>2, <2>3 DEF StealPeer, RecordTask, TakeTask
<1>4. ASSUME ~ TakeTask(w)
      PROVE  /\ current'[w] \in {current[w], NoTask}
             /\ high_streak'[w] \in {high_streak[w], 0}
  <2>1. \/ InjectorEmpty(w) \/ LocalEmpty(w) \/ PeerEmpty(w) \/ DeliverBatch(w)
        \/ PeersExhausted(w) \/ StealRetry(w) \/ PopCall(w)
        \/ PopReturn(w) \/ DropTask(w)
    BY <1>4 DEF WorkerLoop, PopStep
  <2>2. CASE InjectorEmpty(w)  BY <2>2 DEF InjectorEmpty
  <2>3. CASE DropTask(w)  BY <2>3 DEF DropTask
  <2>4. CASE \/ LocalEmpty(w) \/ PeerEmpty(w) \/ DeliverBatch(w)
             \/ PeersExhausted(w) \/ StealRetry(w) \/ PopCall(w) \/ PopReturn(w)
    BY <2>4 DEF LocalEmpty, PeerEmpty, DeliverBatch, PeersExhausted, StealRetry,
                PopCall, PopReturn
  <2>. QED  BY <2>1, <2>2, <2>3, <2>4
<1>. QED  BY <1>1, <1>2, <1>3, <1>4 DEF TakeTask

-----------------------------------------------------------------------------
(* The invariant of the histories *)

LEMMA ServiceInitInv == ServiceInit => ServiceInv
<1>. SUFFICES ASSUME ServiceInit PROVE ServiceInv  OBVIOUS
<1>1. QueueInv /\ PP!PoolInv  BY QueueInitOK DEF ServiceInit
<1>2. /\ pos[Watched] = "idle" /\ high_streak[Watched] = 0
      /\ HighBurstLimit \in Nat \ {0} /\ passed = [p \in Lower |-> 0]
  BY WatchedAssumption, QueueAssumption
  DEF ServiceInit, QueueInit, WatchedAssumption, QueueAssumption
<1>3. ServiceTypeOK /\ StreakCovers
  BY <1>2 DEF ServiceTypeOK, StreakCovers, Lower
<1>4. ProbedSources  BY <1>2 DEF ProbedSources
<1>. QED  BY <1>1, <1>3, <1>4 DEF ServiceInv

\* A submission adds one task, and what is pushed was not seen before.
LEMMA SubmitInv ==
    ASSUME ServiceInv, NEW t \in Tasks \ (Waiting \cup InHand), Submit(t)
    PROVE  ServiceInv'
<1>1. QueueInv' /\ PP!PoolInv'
  <2>1. [QueueNext]_queueVars  BY DEF QueueNext, Submit
  <2>. QED  BY <2>1, StepIsPoolStep, PoolStepInv DEF ServiceInv
<1>2. /\ UNCHANGED <<deque, pos, high_streak, passed>>
      /\ seen' = seen \ {t}
      /\ queue' = [queue EXCEPT ![PriorityOf[t]] = Append(queue[PriorityOf[t]], t)]
  BY DEF Submit, PushGlobal
<1>3. /\ queue \in [Priorities -> Seq(Tasks)] /\ PriorityOf[t] \in Priorities
      /\ t \in Tasks
  BY SubmissionsAssumption DEF SubmissionsAssumption, ServiceInv, QueueInv, QueueTypeOK
<1>4. \A p \in Priorities : Elements(queue'[p]) \subseteq Elements(queue[p]) \cup {t}
  <2>1. Elements(Append(queue[PriorityOf[t]], t))
           = Elements(queue[PriorityOf[t]]) \cup {t}
    BY <1>3, AppendElements
  <2>. QED  BY <1>2, <1>3, <2>1
<1>5. ProbedSources'
  BY <1>2, <1>4 DEF ServiceInv, ProbedSources, Priorities
<1>6. ServiceTypeOK' /\ StreakCovers'
  BY <1>2 DEF ServiceInv, ServiceTypeOK, StreakCovers
<1>. QED  BY <1>1, <1>5, <1>6 DEF ServiceInv

LEMMA ProbedSourcesInv ==
    ASSUME ServiceInv, NEW w \in WorkerIds, WorkerLoop(w), Observe(w)
    PROVE  ProbedSources'
<1>. DEFINE Q(p) == Elements(queue[p])
            D == Elements(deque[Watched])
<1>1. QueueInv /\ PP!PoolInv /\ ProbedSources  BY DEF ServiceInv
<1>2. Watched \in WorkerIds  BY WatchedAssumption DEF WatchedAssumption
<1>3. \A p \in Priorities : Elements(queue'[p]) \subseteq Q(p)
  BY <1>1, SourcesShrink
<1>4. pos'[Watched] \in {"high", "normal", "low", "peers", "empty"} =>
        /\ Elements(deque'[Watched]) \subseteq D
        /\ seen' \subseteq seen
  <2>1. CASE w = Watched
    <3>1. pos[w] = "deliver" => pos'[w] = "task"
      BY <1>1 DEF WorkerLoop, PopStep, PopCall, InjectorEmpty, TakeTask,
         StealBatch, LocalPop, StealPeer, DeliverBatch, LocalEmpty, PeerEmpty,
         PeersExhausted, StealRetry, PopReturn, DropTask, InjectorPos, Results,
         QueueInv, QueueTypeOK
    <3>. QED
      BY <1>1, <1>2, <2>1, <3>1, SourcesShrink, PassedIsEmpty DEF Observe, Starts
  <2>2. CASE w # Watched
    BY <1>1, <1>2, <2>2, SourcesShrink DEF Observe, Starts
  <2>. QED  BY <2>1, <2>2
<1>5. CASE w # Watched
  <2>1. pos'[Watched] = pos[Watched]  BY <1>1, <1>2, <1>5, SourcesShrink
  <2>. QED  BY <1>1, <1>3, <1>4, <2>1 DEF ProbedSources, Priorities
<1>6. CASE w = Watched /\ pos'[w] \in {"high", "normal", "low", "peers", "empty"}
  <2>1. \A s : s = <<>> => Elements(s) = {}  BY DEF Elements
  <2>2. /\ pos'[w] = "high" => pos[w] = "local" /\ D = {}
        /\ pos'[w] = "normal" => pos[w] = "high" /\ Q("High") = {}
        /\ pos'[w] = "low" => pos[w] = "normal" /\ Q("Normal") = {}
        /\ pos'[w] = "peers" =>
              \/ pos[w] = "peers"
              \/ pos[w] = "low" /\ Q("Low") = {}
        /\ pos'[w] = "empty" => pos[w] = "peers"
    BY <1>1, <1>6, <2>1, PassedIsEmpty
  <2>. HIDE DEF Q, D
  <2>3. /\ pos[w] \in {"high", "normal", "low", "peers"} => seen \cap D = {}
        /\ pos[w] \in {"normal", "low", "peers"} => seen \cap Q("High") = {}
        /\ pos[w] \in {"low", "peers"} => seen \cap Q("Normal") = {}
        /\ pos[w] = "peers" => seen \cap Q("Low") = {}
    BY <1>1, <1>6 DEF ProbedSources, Q, D
  <2>4. /\ Elements(queue'["High"]) \subseteq Q("High")
        /\ Elements(queue'["Normal"]) \subseteq Q("Normal")
        /\ Elements(queue'["Low"]) \subseteq Q("Low")
    BY <1>3 DEF Priorities
  <2>. QED  BY <1>4, <1>6, <2>2, <2>3, <2>4 DEF ProbedSources
<1>. QED  BY <1>5, <1>6 DEF ProbedSources

\* The history of a worker's step, in terms of TakeTask.
LEMMA PassedStep ==
    ASSUME ServiceInv, NEW w \in WorkerIds, WorkerLoop(w), Observe(w),
           NEW p \in Lower
    PROVE  /\ passed'[p] \in {0, passed[p], passed[p] + 1}
           /\ queue'[p] = <<>> => passed'[p] = 0
           /\ w # Watched \/ current'[w] \in {current[w], NoTask} =>
                 passed'[p] \in {0, passed[p]}
           /\ /\ w = Watched /\ current[w] = NoTask /\ current'[w] \in Tasks
              /\ PriorityOf[current'[w]] # "High"
              => passed'[p] = 0
<1>1. \A t \in Tasks : PriorityOf[t] \in Lower \cup {"High"}
  BY SubmissionsAssumption DEF SubmissionsAssumption, Priorities, Lower
<1>2. NoTask \notin Tasks
  BY SubmissionsAssumption DEF SubmissionsAssumption
<1>. QED  BY <1>1, <1>2 DEF Observe, Takes, ServiceInv, ServiceTypeOK

LEMMA StreakCoversInv ==
    ASSUME ServiceInv, NEW w \in WorkerIds, WorkerLoop(w), Observe(w)
    PROVE  ServiceTypeOK' /\ StreakCovers'
<1>1. QueueInv /\ PP!PoolInv /\ StreakCovers /\ ServiceTypeOK  BY DEF ServiceInv
<1>2. Watched \in WorkerIds  BY WatchedAssumption DEF WatchedAssumption
<1>3. /\ HighBurstLimit \in Nat \ {0} /\ high_streak[Watched] \in Nat
      /\ \A p \in Lower : passed[p] \in Nat
      /\ "Normal" \in Lower /\ "Low" \in Lower
  BY <1>1, <1>2, QueueAssumption
  DEF QueueAssumption, QueueInv, QueueTypeOK, ServiceTypeOK, Lower
<1>4. ServiceTypeOK'
  <2>1. passed' = [p \in Lower |-> passed'[p]]  BY DEF Observe
  <2>2. \A p \in Lower : passed'[p] \in Nat  BY <1>3, PassedStep
  <2>. QED  BY <2>1, <2>2 DEF ServiceTypeOK
<1>5. CASE w # Watched
  <2>1. /\ pos'[Watched] = pos[Watched]
        /\ high_streak'[Watched] = high_streak[Watched]
    BY <1>1, <1>2, <1>5, SourcesShrink
  <2>2. \A p \in Lower : passed'[p] \in {0, passed[p]}  BY <1>5, PassedStep
  <2>. QED  BY <1>1, <1>3, <1>4, <2>1, <2>2 DEF StreakCovers
<1>6. CASE w = Watched /\ TakeTask(w)
  <2>1. /\ current[w] = NoTask /\ current'[w] \in Tasks
        /\ pos'[w] \in {"deliver", "task"}
        /\ IF PriorityOf[current'[w]] = "High"
           THEN /\ high_streak[w] < HighBurstLimit
                /\ high_streak'[w] = high_streak[w] + 1
           ELSE high_streak'[w] = 0
    BY <1>1, <1>6, StreakStep DEF StreakCovers
  <2>2. \A p \in Lower : /\ passed'[p] \in {0, passed[p], passed[p] + 1}
                         /\ PriorityOf[current'[w]] # "High" => passed'[p] = 0
    BY <1>6, <2>1, PassedStep
  <2>. QED  BY <1>1, <1>3, <1>4, <1>6, <2>1, <2>2 DEF StreakCovers
<1>7. CASE w = Watched /\ ~ TakeTask(w)
  <2>1. /\ current'[w] \in {current[w], NoTask}
        /\ high_streak'[w] \in {high_streak[w], 0}
    BY <1>1, <1>7, StreakStep DEF StreakCovers
  <2>2. \A p \in Lower : /\ passed'[p] \in {0, passed[p]}
                         /\ queue'[p] = <<>> => passed'[p] = 0
    BY <1>7, <2>1, PassedStep
  <2>3. CASE InjectorEmpty(w)
    <3>1. /\ pos[w] \in InjectorPos /\ queue[InjectorAt(pos[w])] = <<>>
          /\ pos'[w] = After(pos[w]) /\ queue' = queue
          /\ high_streak'[w] = IF pos[w] = "fair_low" THEN 0 ELSE high_streak[w]
      BY <1>1, <2>3 DEF InjectorEmpty, QueueInv, QueueTypeOK
    <3>2. CASE pos[w] = "fair_normal"
      BY <1>1, <1>3, <1>4, <1>7, <2>2, <3>1, <3>2
      DEF StreakCovers, After, InjectorAt, Lower
    <3>3. CASE pos[w] = "fair_low"
      BY <1>1, <1>3, <1>4, <1>7, <2>2, <3>1, <3>3
      DEF StreakCovers, After, InjectorAt, Lower
    <3>4. CASE pos[w] \in {"high", "normal", "low"}
      <4>1. pos'[w] \in {"normal", "low", "peers"}  BY <3>1, <3>4 DEF After
      <4>. QED  BY <1>1, <1>3, <1>4, <1>7, <2>2, <3>1, <3>4, <4>1 DEF StreakCovers
    <3>. QED  BY <3>1, <3>2, <3>3, <3>4 DEF InjectorPos
  <2>4. CASE PopCall(w)
    <3>1. /\ high_streak' = high_streak
          /\ \/ pos'[w] = "fair_normal"
             \/ pos'[w] = "local" /\ ~ (high_streak[w] >= HighBurstLimit)
      BY <1>1, <2>4 DEF PopCall, FairnessDue, QueueInv, QueueTypeOK
    <3>. QED  BY <1>1, <1>3, <1>4, <1>7, <2>2, <3>1 DEF StreakCovers
  <2>5. CASE LocalEmpty(w) \/ PeerEmpty(w)
    <3>1. /\ high_streak' = high_streak
          /\ pos[w] \in {"local", "peers"} /\ pos'[w] \in {"high", "peers"}
      BY <1>1, <2>5 DEF LocalEmpty, PeerEmpty, After, QueueInv, QueueTypeOK
    <3>. QED  BY <1>1, <1>3, <1>4, <1>7, <2>2, <3>1 DEF StreakCovers
  <2>6. CASE \/ DeliverBatch(w) \/ PeersExhausted(w) \/ StealRetry(w)
             \/ PopReturn(w) \/ DropTask(w)
    <3>1. /\ high_streak' = high_streak
          /\ pos'[w] \in {"task", "empty", "retry", "idle"}
      BY <1>1, <2>6 DEF DeliverBatch, PeersExhausted, StealRetry, PopReturn,
                        DropTask, QueueInv, QueueTypeOK
    <3>. QED  BY <1>1, <1>3, <1>4, <1>7, <2>2, <3>1 DEF StreakCovers
  <2>. QED
    BY <1>7, <2>3, <2>4, <2>5, <2>6 DEF WorkerLoop, PopStep
<1>. QED  BY <1>5, <1>6, <1>7

LEMMA ServiceNextInv == ServiceInv /\ [ServiceNext]_serviceVars => ServiceInv'
<1>. SUFFICES ASSUME ServiceInv, [ServiceNext]_serviceVars PROVE ServiceInv'
  OBVIOUS
<1>1. ASSUME NEW w \in WorkerIds, WorkerLoop(w), Observe(w) PROVE ServiceInv'
  <2>1. QueueInv' /\ PP!PoolInv'  BY <1>1, LoopIsQueueStep DEF ServiceInv
  <2>2. ProbedSources'  BY <1>1, ProbedSourcesInv
  <2>3. ServiceTypeOK' /\ StreakCovers'  BY <1>1, StreakCoversInv
  <2>. QED  BY <2>1, <2>2, <2>3 DEF ServiceInv
<1>2. CASE UNCHANGED serviceVars
  <2>1. [QueueNext]_queueVars /\ UNCHANGED <<seen, passed>>
    BY <1>2 DEF serviceVars
  <2>2. QueueInv' /\ PP!PoolInv'
    BY <2>1, StepIsPoolStep, PoolStepInv DEF ServiceInv
  <2>3. UNCHANGED <<queue, deque, pos, high_streak>>
    BY <1>2 DEF serviceVars, queueVars
  <2>4. ServiceTypeOK' /\ ProbedSources' /\ StreakCovers'
    BY <2>1, <2>3 DEF ServiceInv, ServiceTypeOK, ProbedSources, StreakCovers
  <2>. QED  BY <2>2, <2>4 DEF ServiceInv
<1>. QED  BY <1>1, <1>2, SubmitInv DEF ServiceNext

THEOREM ServiceSafe == ServiceSpec => []ServiceInv
  BY ServiceInitInv, ServiceNextInv, PTL DEF ServiceSpec

-----------------------------------------------------------------------------
\* pop_for_worker answers Empty soundly, for any number of workers and tasks
\* and against any pushes and steals of others during the call.
THEOREM EmptyMeansTaken == ServiceSpec => []EmptyIsSound
<1>1. ServiceInv => EmptyIsSound
  BY DEF ServiceInv, ProbedSources, EmptyIsSound, Globally, Priorities
<1>. QED  BY <1>1, ServiceSafe, PTL

\* A lookup takes from a source only when nothing that was in the sources
\* before it as the call began is left there, whatever other workers and
\* submissions do during the call.
THEOREM SourcesInOrder == ServiceSpec => PriorityOrder
<1>1. ServiceInv => seen \cap Behind(pos[Watched]) = {}
  <2>. SUFFICES ASSUME ServiceInv PROVE seen \cap Behind(pos[Watched]) = {}
    OBVIOUS
  <2>. DEFINE p == pos[Watched]
  <2>0. ProbedSources  BY DEF ServiceInv
  <2>1. CASE p = "high"  BY <2>0, <2>1 DEF Behind, ProbedSources
  <2>2. CASE p = "normal"  BY <2>0, <2>2 DEF Behind, ProbedSources
  <2>3. CASE p = "low"  BY <2>0, <2>3 DEF Behind, ProbedSources
  <2>4. CASE p = "peers"  BY <2>0, <2>4 DEF Behind, ProbedSources, Priorities
  <2>5. CASE p \notin {"high", "normal", "low", "peers"}  BY <2>5 DEF Behind
  <2>. QED  BY <2>1, <2>2, <2>3, <2>4, <2>5
<1>2. ServiceInv =>
        [current[Watched] = NoTask /\ current'[Watched] # NoTask
            => seen \cap Behind(pos[Watched]) = {}]_serviceVars
  BY <1>1
<1>. QED  BY <1>2, ServiceSafe, PTL DEF PriorityOrder

\* HIGH_BURST_LIMIT holds as documented for every worker, for any limit: with
\* NORMAL (or LOW) tasks waiting, a worker takes at most that many HIGH tasks
\* before a lower one.
THEOREM BurstIsBounded == ServiceSpec => []BurstBounded
<1>1. ServiceInv => BurstBounded
  <2>. SUFFICES ASSUME ServiceInv, NEW p \in Lower
                PROVE  passed[p] <= HighBurstLimit
    BY DEF BurstBounded
  <2>1. passed[p] \in Nat /\ high_streak[Watched] \in Nat /\ HighBurstLimit \in Nat
    BY WatchedAssumption, QueueAssumption
    DEF WatchedAssumption, QueueAssumption, ServiceInv, ServiceTypeOK, QueueInv,
        QueueTypeOK
  <2>. QED  BY <2>1 DEF ServiceInv, StreakCovers
<1>. QED  BY <1>1, ServiceSafe, PTL

=============================================================================
