------------------------- MODULE QueueSystemProofs -------------------------
(***************************************************************************)
(* Proofs about the detailed queues, for any number of workers and tasks   *)
(* and any burst limit: they implement TaskPool, Empty is sound and bursts *)
(* are bounded.                                                            *)
(***************************************************************************)
EXTENDS QueueService, FiniteSetTheorems, SequenceTheorems, TLAPS

\* TaskPool with its theorems, under the refinement mapping of QueueSystem.
PP == INSTANCE TaskPoolProofs WITH
          Workers  <- WorkerIds,
          injector <- Contents(queue),
          local    <- Contents(deque),
          batch    <- Contents(batch),
          victims  <- Contents(todo)

-----------------------------------------------------------------------------
(* Sequences and their elements *)

\* A sequence is empty when it has no elements.
LEMMA NoElements ==
    ASSUME NEW S, NEW s \in Seq(S)
    PROVE  /\ Elements(s) \subseteq S
           /\ Elements(s) = {} <=> s = <<>>
           /\ s # <<>> => Head(s) \in Elements(s) /\ Head(s) \in S
<1>1. /\ Len(s) \in Nat /\ DOMAIN s = 1 .. Len(s)
      /\ \A i \in 1 .. Len(s) : s[i] \in S
      /\ Len(s) = 0 <=> s = <<>>
      /\ s # <<>> => Head(s) = s[1]
  OBVIOUS
<1>2. s # <<>> => 1 \in DOMAIN s  BY <1>1
<1>3. s = <<>> => DOMAIN s = {}  BY <1>1
<1>4. s # <<>> => s[1] \in Elements(s)  BY <1>2 DEF Elements
<1>5. s = <<>> => Elements(s) = {}  BY <1>3 DEF Elements
<1>6. Elements(s) \subseteq S  BY <1>1 DEF Elements
<1>. QED  BY <1>1, <1>4, <1>5, <1>6

\* push: the new task comes to the elements.
LEMMA AppendElements ==
    ASSUME NEW S, NEW s \in Seq(S), NEW e \in S
    PROVE  /\ Append(s, e) \in Seq(S)
           /\ Elements(Append(s, e)) = Elements(s) \cup {e}
           /\ Injective(s) /\ e \notin Elements(s) => Injective(Append(s, e))
  BY DEF Elements, Injective

\* pop: the first element leaves.
LEMMA TailElements ==
    ASSUME NEW S, NEW s \in Seq(S), s # <<>>, Injective(s)
    PROVE  /\ Tail(s) \in Seq(S)
           /\ Elements(Tail(s)) = Elements(s) \ {Head(s)}
           /\ Injective(Tail(s))
<1>1. /\ Tail(s) \in Seq(S) /\ Len(Tail(s)) = Len(s) - 1 /\ Len(s) \in Nat \ {0}
      /\ \A i \in 1 .. Len(s) - 1 : Tail(s)[i] = s[i + 1]
      /\ Head(s) = s[1]
      /\ DOMAIN s = 1 .. Len(s) /\ DOMAIN Tail(s) = 1 .. Len(s) - 1
  OBVIOUS
<1>2. Injective(Tail(s))  BY <1>1 DEF Injective
<1>3. ASSUME NEW e \in Elements(Tail(s)) PROVE e \in Elements(s) \ {Head(s)}
  BY <1>1 DEF Elements, Injective
<1>4. ASSUME NEW e \in Elements(s) \ {Head(s)} PROVE e \in Elements(Tail(s))
  <2>1. PICK i \in 1 .. Len(s) : e = s[i]  BY <1>1 DEF Elements
  <2>2. i - 1 \in 1 .. Len(s) - 1 /\ Tail(s)[i - 1] = e  BY <1>1, <2>1
  <2>. QED  BY <1>1, <2>2 DEF Elements
<1>. QED  BY <1>1, <1>2, <1>3, <1>4

\* A batch is put behind what the deque holds.
LEMMA ConcatElements ==
    ASSUME NEW S, NEW s \in Seq(S), NEW r \in Seq(S)
    PROVE  /\ s \o r \in Seq(S)
           /\ Elements(s \o r) = Elements(s) \cup Elements(r)
           /\ /\ Injective(s) /\ Injective(r)
              /\ Elements(s) \cap Elements(r) = {}
              => Injective(s \o r)
<1>1. /\ s \o r \in Seq(S) /\ Len(s) \in Nat /\ Len(r) \in Nat
      /\ DOMAIN s = 1 .. Len(s) /\ DOMAIN r = 1 .. Len(r)
      /\ DOMAIN (s \o r) = 1 .. Len(s) + Len(r)
      /\ \A i \in 1 .. Len(s) + Len(r) :
            (s \o r)[i] = IF i <= Len(s) THEN s[i] ELSE r[i - Len(s)]
  OBVIOUS
<1>. DEFINE c == s \o r
<1>. HIDE DEF c
<1>2. ASSUME NEW e \in Elements(c) PROVE e \in Elements(s) \cup Elements(r)
  BY <1>1 DEF Elements, c
<1>3. ASSUME NEW e \in Elements(s) PROVE e \in Elements(c)
  BY <1>1 DEF Elements, c
<1>4. ASSUME NEW e \in Elements(r) PROVE e \in Elements(c)
  <2>1. PICK i \in 1 .. Len(r) : e = r[i]  BY <1>1 DEF Elements
  <2>2. i + Len(s) \in 1 .. Len(s) + Len(r) /\ c[i + Len(s)] = e
    BY <1>1, <2>1 DEF c
  <2>. QED  BY <1>1, <2>2 DEF Elements, c
<1>5. ASSUME Injective(s), Injective(r), Elements(s) \cap Elements(r) = {}
      PROVE  Injective(c)
  <2>. SUFFICES ASSUME NEW i \in 1 .. Len(s) + Len(r),
                       NEW j \in 1 .. Len(s) + Len(r), c[i] = c[j]
                PROVE  i = j
    BY <1>1 DEF Injective, c
  <2>1. CASE i <= Len(s) /\ j <= Len(s)  BY <1>1, <1>5, <2>1 DEF Injective, c
  <2>2. CASE i > Len(s) /\ j > Len(s)
    <3>1. i - Len(s) \in 1 .. Len(r) /\ j - Len(s) \in 1 .. Len(r)
      BY <1>1, <2>2
    <3>2. r[i - Len(s)] = r[j - Len(s)]  BY <1>1, <2>2 DEF c
    <3>3. i - Len(s) = j - Len(s)  BY <1>1, <1>5, <3>1, <3>2 DEF Injective
    <3>. QED  BY <1>1, <3>3
  <2>3. CASE i <= Len(s) /\ j > Len(s)
    <3>1. s[i] \in Elements(s) /\ r[j - Len(s)] \in Elements(r)
      BY <1>1, <2>3 DEF Elements
    <3>2. s[i] = r[j - Len(s)]  BY <1>1, <2>3 DEF c
    <3>. QED  BY <1>5, <3>1, <3>2
  <2>4. CASE i > Len(s) /\ j <= Len(s)
    <3>1. s[j] \in Elements(s) /\ r[i - Len(s)] \in Elements(r)
      BY <1>1, <2>4 DEF Elements
    <3>2. s[j] = r[i - Len(s)]  BY <1>1, <2>4 DEF c
    <3>. QED  BY <1>5, <3>1, <3>2
  <2>. QED  BY <1>1, <2>1, <2>2, <2>3, <2>4
<1>. QED  BY <1>1, <1>2, <1>3, <1>4, <1>5 DEF c

\* steal_batch_and_pop: a prefix is cut off, its head and the rest of it.
LEMMA PrefixElements ==
    ASSUME NEW S, NEW s \in Seq(S), NEW n \in 1 .. Len(s), Injective(s)
    PROVE  LET more == SubSeq(s, 2, n)
               rest == SubSeq(s, n + 1, Len(s))
           IN  /\ more \in Seq(S) /\ rest \in Seq(S)
               /\ Injective(more) /\ Injective(rest)
               /\ Head(s) \in Elements(s)
               /\ Elements(more) \subseteq Elements(s) \ {Head(s)}
               /\ Elements(rest) = (Elements(s) \ {Head(s)}) \ Elements(more)
<1>. DEFINE more == SubSeq(s, 2, n)
            rest == SubSeq(s, n + 1, Len(s))
<1>1. /\ Len(s) \in Nat /\ n \in Nat /\ n >= 1 /\ n <= Len(s)
      /\ DOMAIN s = 1 .. Len(s) /\ Head(s) = s[1]
  OBVIOUS
<1>2. /\ more \in Seq(S) /\ DOMAIN more = 1 .. n - 1
      /\ \A i \in 1 .. n - 1 : more[i] = s[i + 1]
  BY <1>1, SubSeqProperties
<1>3. /\ rest \in Seq(S) /\ DOMAIN rest = 1 .. Len(s) - n
      /\ \A i \in 1 .. Len(s) - n : rest[i] = s[i + n]
  BY <1>1, SubSeqProperties
<1>. HIDE DEF more, rest
<1>4. Injective(more)
  <2>. SUFFICES ASSUME NEW i \in 1 .. n - 1, NEW j \in 1 .. n - 1,
                       more[i] = more[j]
                PROVE  i = j
    BY <1>2 DEF Injective
  <2>1. i + 1 \in 1 .. Len(s) /\ j + 1 \in 1 .. Len(s)  BY <1>1
  <2>2. s[i + 1] = s[j + 1]  BY <1>2
  <2>3. i + 1 = j + 1  BY <1>1, <2>1, <2>2 DEF Injective
  <2>. QED  BY <2>3
<1>5. Injective(rest)
  <2>. SUFFICES ASSUME NEW i \in 1 .. Len(s) - n, NEW j \in 1 .. Len(s) - n,
                       rest[i] = rest[j]
                PROVE  i = j
    BY <1>3 DEF Injective
  <2>1. i + n \in 1 .. Len(s) /\ j + n \in 1 .. Len(s)  BY <1>1
  <2>2. s[i + n] = s[j + n]  BY <1>3
  <2>3. i + n = j + n  BY <1>1, <2>1, <2>2 DEF Injective
  <2>. QED  BY <1>1, <2>3
<1>6. \A e : e \in Elements(more) <=> \E i \in 2 .. n : e = s[i]
  <2>1. ASSUME NEW i \in 2 .. n PROVE s[i] \in Elements(more)
    <3>1. i - 1 \in 1 .. n - 1 /\ more[i - 1] = s[i]  BY <1>1, <1>2
    <3>. QED  BY <1>2, <3>1 DEF Elements
  <2>2. ASSUME NEW i \in 1 .. n - 1 PROVE more[i] = s[i + 1] /\ i + 1 \in 2 .. n
    BY <1>1, <1>2
  <2>. QED  BY <1>2, <2>1, <2>2 DEF Elements
<1>7. \A e : e \in Elements(rest) <=> \E i \in n + 1 .. Len(s) : e = s[i]
  <2>1. ASSUME NEW i \in n + 1 .. Len(s) PROVE s[i] \in Elements(rest)
    <3>1. i - n \in 1 .. Len(s) - n /\ rest[i - n] = s[i]  BY <1>1, <1>3
    <3>. QED  BY <1>3, <3>1 DEF Elements
  <2>2. ASSUME NEW i \in 1 .. Len(s) - n
        PROVE  rest[i] = s[i + n] /\ i + n \in n + 1 .. Len(s)
    BY <1>1, <1>3
  <2>. QED  BY <1>3, <2>1, <2>2 DEF Elements
<1>8. \A e : e \in Elements(s) <=> \E i \in 1 .. Len(s) : e = s[i]
  BY <1>1 DEF Elements
<1>9. Head(s) \in Elements(s)  BY <1>1, <1>8
<1>10. Elements(more) \subseteq Elements(s) \ {Head(s)}
  BY <1>1, <1>6, <1>8 DEF Injective
<1>11. Elements(rest) \subseteq (Elements(s) \ {Head(s)}) \ Elements(more)
  BY <1>1, <1>6, <1>7, <1>8 DEF Injective
<1>12. (Elements(s) \ {Head(s)}) \ Elements(more) \subseteq Elements(rest)
  BY <1>1, <1>6, <1>7, <1>8
<1>. QED
  BY <1>2, <1>3, <1>4, <1>5, <1>9, <1>10, <1>11, <1>12 DEF more, rest

-----------------------------------------------------------------------------
(* The order of victims *)

\* What % does within two rounds of the circle.
LEMMA ModTwoRounds ==
    ASSUME NEW n \in Nat \ {0}, NEW a \in 0 .. 2 * n - 1
    PROVE  /\ a < n => a % n = a
           /\ a >= n => a % n = a - n
  OBVIOUS

\* round_robin_victims lists every peer exactly once, and never the worker
\* itself, wherever the circle begins.
LEMMA EveryPeerOnce ==
    ASSUME NEW n \in Nat \ {0}, NEW w \in 0 .. n - 1, NEW first \in 0 .. n - 1
    PROVE  /\ RoundRobin(n, w, first) \in Seq(0 .. n - 1)
           /\ Injective(RoundRobin(n, w, first))
           /\ Elements(RoundRobin(n, w, first)) = (0 .. n - 1) \ {w}
<1>. DEFINE own == IF w >= first THEN w - first ELSE w + n - first
            off(k) == IF k <= own THEN k - 1 ELSE k
            at(k) == IF first + off(k) < n THEN first + off(k)
                     ELSE first + off(k) - n
<1>1. (w + n - first) % n = own
  <2>. DEFINE a == w + n - first
  <2>1. a \in 0 .. 2 * n - 1  OBVIOUS
  <2>2. own = IF a < n THEN a ELSE a - n  OBVIOUS
  <2>3. (a < n => a % n = a) /\ (a >= n => a % n = a - n)
    BY <2>1, ModTwoRounds
  <2>. HIDE DEF a, own
  <2>4. a % n = own  BY <2>1, <2>2, <2>3
  <2>. QED  BY <2>4 DEF a
<1>2. own \in 0 .. n - 1  OBVIOUS
<1>3. ASSUME NEW k \in 1 .. n - 1
      PROVE  off(k) \in 0 .. n - 1 /\ (first + off(k)) % n = at(k)
  <2>1. off(k) \in 0 .. n - 1  BY <1>2
  <2>. DEFINE a == first + off(k)
  <2>2. a \in 0 .. 2 * n - 1  BY <2>1
  <2>3. (a < n => a % n = a) /\ (a >= n => a % n = a - n)
    BY <2>2, ModTwoRounds
  <2>4. at(k) = IF a < n THEN a ELSE a - n  OBVIOUS
  <2>. HIDE DEF a, at
  <2>5. a % n = at(k)  BY <2>2, <2>3, <2>4
  <2>. QED  BY <2>1, <2>5 DEF a
<1>4. RoundRobin(n, w, first) = [k \in 1 .. n - 1 |-> at(k)]
  BY <1>1, <1>3 DEF RoundRobin
<1>5. ASSUME NEW k \in 1 .. n - 1 PROVE at(k) \in (0 .. n - 1) \ {w}
  BY <1>2
<1>6. ASSUME NEW j \in 1 .. n - 1, NEW k \in 1 .. n - 1, at(j) = at(k)
      PROVE  j = k
  BY <1>2, <1>6
<1>7. ASSUME NEW v \in (0 .. n - 1) \ {w}
      PROVE  \E k \in 1 .. n - 1 : at(k) = v
  <2>. DEFINE o == IF v >= first THEN v - first ELSE v + n - first
              k == IF o < own THEN o + 1 ELSE o
  <2>1. o \in 0 .. n - 1 /\ o # own  OBVIOUS
  <2>2. k \in 1 .. n - 1 /\ off(k) = o  BY <1>2, <2>1
  <2>3. at(k) = v  BY <2>1, <2>2
  <2>. QED  BY <2>2, <2>3
<1>. HIDE DEF at
<1>. DEFINE s == [k \in 1 .. n - 1 |-> at(k)]
<1>8. s \in Seq(0 .. n - 1)  BY <1>5, n - 1 \in Nat
<1>9. Injective(s)  BY <1>6 DEF Injective
<1>10. Elements(s) = (0 .. n - 1) \ {w}  BY <1>5, <1>7 DEF Elements
<1>. QED  BY <1>4, <1>8, <1>9, <1>10

-----------------------------------------------------------------------------
(* Every step of the queues is a step of TaskPool *)

QueueInv == QueueTypeOK /\ NoRepetition /\ VictimsInUse

\* The assumptions of TaskPool hold under the mapping.
LEMMA PoolAssumptions == PP!SubmissionsAssumption /\ PP!PoolAssumption
<1>1. IsFiniteSet(WorkerIds)
  BY QueueAssumption, FS_Interval DEF QueueAssumption, WorkerIds
<1>2. PP!IsFiniteSet(WorkerIds) /\ PP!IsFiniteSet(Tasks)
  BY <1>1, SubmissionsAssumption
  DEF PP!IsFiniteSet, IsFiniteSet, SubmissionsAssumption
<1>. QED
  BY <1>2, SubmissionsAssumption
  DEF SubmissionsAssumption, PP!SubmissionsAssumption, PP!PoolAssumption,
      PP!Priorities, Priorities

\* So what TaskPoolProofs shows of a step of the pool holds here.
LEMMA PoolStepInv ==
    ASSUME PP!PoolInv, [PP!PoolNext]_(PP!poolVars)
    PROVE  PP!PoolInv'
  BY PoolAssumptions, PP!PoolNextInv

LEMMA QueueInitOK == QueueInit => QueueInv /\ PP!PoolInit /\ PP!PoolInv
<1>. SUFFICES ASSUME QueueInit PROVE QueueInv /\ PP!PoolInit /\ PP!PoolInv
  OBVIOUS
<1>1. QueueTypeOK
  BY QueueAssumption
  DEF QueueInit, QueueTypeOK, Positions, QueueAssumption
<1>2. NoRepetition /\ VictimsInUse
  BY DEF QueueInit, NoRepetition, VictimsInUse, Injective
<1>3. Elements(<<>>) = {}  BY DEF Elements
<1>4. PP!PoolInit
  BY <1>3 DEF QueueInit, PP!PoolInit, Contents, PP!Priorities, Priorities
<1>5. PP!PoolInv  BY <1>4, PoolAssumptions, PP!PoolInitInv
<1>. QED  BY <1>1, <1>2, <1>4, <1>5 DEF QueueInv

\* Tasks under way are the same on both levels.
LEMMA SameTasks ==
    ASSUME QueueTypeOK
    PROVE  PP!Waiting = Waiting /\ PP!InHand = InHand
  BY DEF QueueTypeOK, PP!Waiting, PP!Injected, PP!InHand, Waiting, InHand,
         Contents, PP!Priorities, Priorities

LEMMA PushGlobalOK ==
    ASSUME QueueInv, NEW t \in Tasks, t \notin Waiting, PushGlobal(t)
    PROVE  QueueInv' /\ PP!PushGlobal(t)
<1>. USE DEF QueueInv, QueueTypeOK
<1>. DEFINE p == PriorityOf[t]
<1>1. p \in Priorities
  BY SubmissionsAssumption DEF SubmissionsAssumption
<1>2. queue' = [queue EXCEPT ![p] = Append(queue[p], t)]  BY DEF PushGlobal
<1>3. UNCHANGED <<deque, batch, current, pos, todo, high_streak, cursor, stats>>
  BY DEF PushGlobal
<1>. HIDE DEF p
<1>4. t \notin Elements(queue[p])  BY <1>1 DEF Waiting
<1>5. /\ Append(queue[p], t) \in Seq(Tasks)
      /\ Elements(Append(queue[p], t)) = Elements(queue[p]) \cup {t}
      /\ Injective(Append(queue[p], t))
  BY <1>1, <1>4, AppendElements DEF NoRepetition
<1>6. QueueTypeOK'  BY <1>1, <1>2, <1>3, <1>5
<1>7. NoRepetition'  BY <1>1, <1>2, <1>3, <1>5 DEF NoRepetition
<1>8. VictimsInUse'  BY <1>3 DEF VictimsInUse
<1>9. Contents(queue') = [Contents(queue) EXCEPT ![p] = Elements(queue[p]) \cup {t}]
  BY <1>1, <1>2, <1>5 DEF Contents
<1>10. Contents(queue)[p] = Elements(queue[p])  BY <1>1 DEF Contents
<1>11. PP!PushGlobal(t)
  BY <1>3, <1>9, <1>10 DEF PP!PushGlobal, Contents, p
<1>. QED  BY <1>6, <1>7, <1>8, <1>11

\* Both levels probe the same injector at the same position, and go on alike.
LEMMA SamePositions ==
    /\ PP!InjectorPos = InjectorPos
    /\ PP!Results = Results
    /\ \A p : PP!InjectorAt(p) = InjectorAt(p) /\ PP!After(p) = After(p)
    /\ \A p \in InjectorPos : InjectorAt(p) \in Priorities /\ p \in Positions
    /\ \A p \in InjectorPos \cup {"local"} : After(p) \in Positions
<1>1. \A p \in InjectorPos : InjectorAt(p) \in Priorities /\ p \in Positions
  BY DEF InjectorPos, InjectorAt, Priorities, Positions
<1>2. \A p \in InjectorPos \cup {"local"} : After(p) \in Positions
  BY DEF InjectorPos, After, Positions
<1>. QED
  BY <1>1, <1>2 DEF PP!InjectorPos, PP!Results, PP!InjectorAt, PP!After,
                    InjectorPos, Results, InjectorAt, After

\* record_task keeps the streak a number.
LEMMA RecordTaskOK ==
    ASSUME QueueTypeOK, NEW w \in WorkerIds, NEW t, RecordTask(w, t)
    PROVE  high_streak' \in [WorkerIds -> Nat]
  BY DEF QueueTypeOK, RecordTask

\* The counters keep their width.
LEMMA CountOK ==
    ASSUME QueueTypeOK, NEW cs, Count(cs)
    PROVE  stats' \in [Counters -> 0 .. CounterSize - 1]
<1>1. \A n \in 0 .. CounterSize - 1 : (n + 1) % CounterSize \in 0 .. CounterSize - 1
  BY QueueAssumption DEF QueueAssumption
<1>. QED  BY <1>1 DEF QueueTypeOK, Count

LEMMA StealBatchOK ==
    ASSUME QueueInv, NEW w \in WorkerIds, StealBatch(w)
    PROVE  QueueInv' /\ PP!StealBatch(w)
<1>. USE DEF QueueInv, QueueTypeOK
<1>. DEFINE p == InjectorAt(pos[w])
            q == queue[p]
<1>1. PICK n \in 1 .. Len(q) :
         /\ queue' = [queue EXCEPT ![p] = SubSeq(q, n + 1, Len(q))]
         /\ batch' = [batch EXCEPT ![w] = SubSeq(q, 2, n)]
         /\ current' = [current EXCEPT ![w] = Head(q)]
         /\ RecordTask(w, Head(q))
  BY DEF StealBatch
<1>2. /\ pos[w] \in InjectorPos
      /\ pos' = [pos EXCEPT ![w] = "deliver"]
      /\ UNCHANGED <<deque, todo, cursor, stats>>
  BY DEF StealBatch
<1>3. p \in Priorities  BY <1>2, SamePositions
<1>4. q \in Seq(Tasks) /\ Injective(q)  BY <1>3 DEF NoRepetition
<1>. DEFINE more == SubSeq(q, 2, n)
            rest == SubSeq(q, n + 1, Len(q))
<1>5. /\ more \in Seq(Tasks) /\ rest \in Seq(Tasks)
      /\ Injective(more) /\ Injective(rest)
      /\ Head(q) \in Elements(q)
      /\ Elements(more) \subseteq Elements(q) \ {Head(q)}
      /\ Elements(rest) = (Elements(q) \ {Head(q)}) \ Elements(more)
  BY <1>4, PrefixElements
<1>6. Head(q) \in Tasks  BY <1>4, <1>5, NoElements
<1>7. high_streak' \in [WorkerIds -> Nat]  BY <1>1, RecordTaskOK
<1>8. /\ queue' = [queue EXCEPT ![p] = rest]
      /\ batch' = [batch EXCEPT ![w] = more]
      /\ current' = [current EXCEPT ![w] = Head(q)]
  BY <1>1
<1>9. Contents(queue)[p] = Elements(q)  BY <1>3 DEF Contents
<1>. HIDE DEF more, rest, q, p
<1>10. QueueTypeOK'
  BY <1>2, <1>3, <1>5, <1>6, <1>7, <1>8 DEF Positions
<1>11. NoRepetition'  BY <1>2, <1>3, <1>5, <1>8 DEF NoRepetition
<1>12. VictimsInUse'  BY <1>2 DEF VictimsInUse, InjectorPos
<1>13. /\ Contents(queue') = [Contents(queue) EXCEPT
                                ![p] = (Elements(q) \ {Head(q)}) \ Elements(more)]
       /\ Contents(batch') = [Contents(batch) EXCEPT ![w] = Elements(more)]
       /\ Contents(deque') = Contents(deque) /\ Contents(todo') = Contents(todo)
  BY <1>2, <1>3, <1>5, <1>8 DEF Contents
<1>14. PP!InjectorAt(pos[w]) = p /\ pos[w] \in PP!InjectorPos
  BY <1>2, SamePositions DEF p
<1>15. PP!StealBatch(w)
  BY <1>2, <1>5, <1>8, <1>9, <1>13, <1>14 DEF PP!StealBatch
<1>. QED  BY <1>10, <1>11, <1>12, <1>15

LEMMA DeliverBatchOK ==
    ASSUME QueueInv, PP!PoolInv, NEW w \in WorkerIds, DeliverBatch(w)
    PROVE  QueueInv' /\ PP!DeliverBatch(w)
<1>. USE DEF QueueInv, QueueTypeOK
<1>1. /\ pos[w] = "deliver" /\ pos' = [pos EXCEPT ![w] = "task"]
      /\ deque' = [deque EXCEPT ![w] = deque[w] \o batch[w]]
      /\ batch' = [batch EXCEPT ![w] = <<>>]
      /\ UNCHANGED <<queue, current, todo, high_streak, cursor, stats>>
  BY DEF DeliverBatch
<1>2. Elements(deque[w]) \cap Elements(batch[w]) = {}
  BY DEF PP!PoolInv, PP!NoDuplication, Contents
<1>. DEFINE all == deque[w] \o batch[w]
<1>3. /\ all \in Seq(Tasks) /\ Injective(all)
      /\ Elements(all) = Elements(deque[w]) \cup Elements(batch[w])
  BY <1>2, ConcatElements DEF NoRepetition
<1>4. Injective(<<>>) /\ Elements(<<>>) = {} /\ <<>> \in Seq(Tasks)
  BY DEF Injective, Elements
<1>5. deque' = [deque EXCEPT ![w] = all]  BY <1>1
<1>. HIDE DEF all
<1>6. QueueTypeOK'  BY <1>1, <1>3, <1>4, <1>5 DEF Positions, Results
<1>7. NoRepetition'  BY <1>1, <1>3, <1>4, <1>5 DEF NoRepetition
<1>8. VictimsInUse'  BY <1>1 DEF VictimsInUse
<1>9. /\ Contents(deque') = [Contents(deque) EXCEPT ![w] =
                               Elements(deque[w]) \cup Elements(batch[w])]
      /\ Contents(batch') = [Contents(batch) EXCEPT ![w] = {}]
      /\ Contents(queue') = Contents(queue) /\ Contents(todo') = Contents(todo)
      /\ Contents(deque)[w] = Elements(deque[w])
      /\ Contents(batch)[w] = Elements(batch[w])
  BY <1>1, <1>3, <1>4, <1>5 DEF Contents
<1>10. PP!DeliverBatch(w)  BY <1>1, <1>9 DEF PP!DeliverBatch
<1>. QED  BY <1>6, <1>7, <1>8, <1>10

\* The first task of a deque is taken by its owner or by a thief.
LEMMA TakeFirst ==
    ASSUME QueueInv, NEW v \in WorkerIds, deque[v] # <<>>,
           deque' = [deque EXCEPT ![v] = Tail(deque[v])]
    PROVE  /\ deque' \in [WorkerIds -> Seq(Tasks)]
           /\ \A x \in WorkerIds : Injective(deque'[x])
           /\ Head(deque[v]) \in Tasks
           /\ Head(deque[v]) \in Contents(deque)[v]
           /\ Contents(deque') = [Contents(deque) EXCEPT ![v] =
                                    Contents(deque)[v] \ {Head(deque[v])}]
<1>. USE DEF QueueInv, QueueTypeOK
<1>1. /\ Tail(deque[v]) \in Seq(Tasks) /\ Injective(Tail(deque[v]))
      /\ Elements(Tail(deque[v])) = Elements(deque[v]) \ {Head(deque[v])}
  BY TailElements DEF NoRepetition
<1>2. Head(deque[v]) \in Tasks /\ Head(deque[v]) \in Elements(deque[v])
  BY NoElements
<1>3. Contents(deque)[v] = Elements(deque[v])  BY DEF Contents
<1>4. Contents(deque') = [Contents(deque) EXCEPT ![v] =
                            Elements(deque[v]) \ {Head(deque[v])}]
  BY <1>1 DEF Contents
<1>. QED  BY <1>1, <1>2, <1>3, <1>4 DEF NoRepetition

LEMMA LocalPopOK ==
    ASSUME QueueInv, NEW w \in WorkerIds, LocalPop(w)
    PROVE  QueueInv' /\ PP!LocalPop(w)
<1>. USE DEF QueueInv, QueueTypeOK
<1>1. /\ pos[w] = "local" /\ deque[w] # <<>>
      /\ deque' = [deque EXCEPT ![w] = Tail(deque[w])]
      /\ current' = [current EXCEPT ![w] = Head(deque[w])]
      /\ pos' = [pos EXCEPT ![w] = "task"]
      /\ UNCHANGED <<queue, batch, todo, cursor, stats>>
  BY DEF LocalPop
<1>2. high_streak' \in [WorkerIds -> Nat]  BY RecordTaskOK DEF LocalPop
<1>3. /\ deque' \in [WorkerIds -> Seq(Tasks)]
      /\ \A x \in WorkerIds : Injective(deque'[x])
      /\ Head(deque[w]) \in Tasks
      /\ Head(deque[w]) \in Contents(deque)[w]
      /\ Contents(deque') = [Contents(deque) EXCEPT ![w] =
                               Contents(deque)[w] \ {Head(deque[w])}]
  BY <1>1, TakeFirst
<1>4. QueueTypeOK'  BY <1>1, <1>2, <1>3 DEF Positions, Results
<1>5. NoRepetition'  BY <1>1, <1>3 DEF NoRepetition
<1>6. VictimsInUse'  BY <1>1 DEF VictimsInUse
<1>7. PP!LocalPop(w)  BY <1>1, <1>3 DEF PP!LocalPop
<1>. QED  BY <1>4, <1>5, <1>6, <1>7

LEMMA StealPeerOK ==
    ASSUME QueueInv, NEW w \in WorkerIds, StealPeer(w)
    PROVE  QueueInv' /\ PP!StealPeer(w)
<1>. USE DEF QueueInv, QueueTypeOK
<1>. DEFINE v == Head(todo[w])
<1>1. /\ pos[w] = "peers" /\ todo[w] # <<>> /\ deque[v] # <<>>
      /\ deque' = [deque EXCEPT ![v] = Tail(deque[v])]
      /\ current' = [current EXCEPT ![w] = Head(deque[v])]
      /\ todo' = [todo EXCEPT ![w] = <<>>]
      /\ pos' = [pos EXCEPT ![w] = "task"]
      /\ UNCHANGED <<queue, batch, cursor>>
  BY DEF StealPeer
<1>2. high_streak' \in [WorkerIds -> Nat]  BY RecordTaskOK DEF StealPeer
<1>3. stats' \in [Counters -> 0 .. CounterSize - 1]  BY CountOK DEF StealPeer
<1>4. v \in WorkerIds /\ v \in Elements(todo[w])  BY <1>1, NoElements
<1>5. v \in Contents(todo)[w]  BY <1>4 DEF Contents
<1>. HIDE DEF v
<1>6. /\ deque' \in [WorkerIds -> Seq(Tasks)]
      /\ \A x \in WorkerIds : Injective(deque'[x])
      /\ Head(deque[v]) \in Tasks
      /\ Head(deque[v]) \in Contents(deque)[v]
      /\ Contents(deque') = [Contents(deque) EXCEPT ![v] =
                               Contents(deque)[v] \ {Head(deque[v])}]
  BY <1>1, <1>4, TakeFirst
<1>7. Injective(<<>>) /\ Elements(<<>>) = {} /\ <<>> \in Seq(WorkerIds)
  BY DEF Injective, Elements
<1>8. QueueTypeOK'  BY <1>1, <1>2, <1>3, <1>6, <1>7 DEF Positions, Results
<1>9. NoRepetition'  BY <1>1, <1>6, <1>7 DEF NoRepetition
<1>10. VictimsInUse'  BY <1>1 DEF VictimsInUse
<1>11. Contents(todo') = [Contents(todo) EXCEPT ![w] = {}]
  BY <1>1, <1>7 DEF Contents
<1>12. PP!StealPeer(w)  BY <1>1, <1>5, <1>6, <1>11 DEF PP!StealPeer
<1>. QED  BY <1>8, <1>9, <1>10, <1>12

LEMMA PeerEmptyOK ==
    ASSUME QueueInv, NEW w \in WorkerIds, PeerEmpty(w)
    PROVE  QueueInv' /\ PP!PeerEmpty(w)
<1>. USE DEF QueueInv, QueueTypeOK
<1>. DEFINE v == Head(todo[w])
<1>1. /\ pos[w] = "peers" /\ todo[w] # <<>> /\ deque[v] = <<>>
      /\ todo' = [todo EXCEPT ![w] = Tail(todo[w])]
      /\ UNCHANGED <<queue, deque, batch, current, pos, high_streak, cursor>>
  BY DEF PeerEmpty
<1>2. stats' \in [Counters -> 0 .. CounterSize - 1]  BY CountOK DEF PeerEmpty
<1>3. /\ Tail(todo[w]) \in Seq(WorkerIds) /\ Injective(Tail(todo[w]))
      /\ Elements(Tail(todo[w])) = Elements(todo[w]) \ {v}
  BY <1>1, TailElements DEF NoRepetition
<1>4. v \in WorkerIds /\ v \in Elements(todo[w])  BY <1>1, NoElements
<1>. HIDE DEF v
<1>5. /\ Contents(todo)[w] = Elements(todo[w])
      /\ Contents(deque)[v] = Elements(deque[v])
      /\ Contents(todo') = [Contents(todo) EXCEPT ![w] = Elements(todo[w]) \ {v}]
  BY <1>1, <1>3, <1>4 DEF Contents
<1>6. Elements(deque[v]) = {}  BY <1>1 DEF Elements
<1>7. QueueTypeOK'  BY <1>1, <1>2, <1>3
<1>8. NoRepetition'  BY <1>1, <1>3 DEF NoRepetition
<1>9. VictimsInUse'  BY <1>1 DEF VictimsInUse
<1>10. PP!PeerEmpty(w)  BY <1>1, <1>4, <1>5, <1>6 DEF PP!PeerEmpty
<1>. QED  BY <1>7, <1>8, <1>9, <1>10

LEMMA InjectorEmptyOK ==
    ASSUME QueueInv, NEW w \in WorkerIds, InjectorEmpty(w)
    PROVE  QueueInv' /\ PP!InjectorEmpty(w)
<1>. USE DEF QueueInv, QueueTypeOK
<1>. DEFINE p == InjectorAt(pos[w])
            list == RoundRobin(WorkerCount, w, FirstVictim(w))
<1>1. /\ pos[w] \in InjectorPos /\ queue[p] = <<>>
      /\ pos' = [pos EXCEPT ![w] = After(pos[w])]
      /\ high_streak' = [high_streak EXCEPT ![w] =
                           IF pos[w] = "fair_low" THEN 0 ELSE high_streak[w]]
      /\ UNCHANGED <<queue, deque, batch, current, stats>>
  BY DEF InjectorEmpty
<1>2. FirstVictim(w) \in 0 .. WorkerCount - 1
  <2>. DEFINE c == cursor[w]
  <2>0. /\ c \in 0 .. CursorSize - 1 /\ w \in Nat
        /\ CursorSize \in Nat \ {0} /\ WorkerCount \in Nat \ {0}
    BY QueueAssumption DEF QueueAssumption, WorkerIds
  <2>. HIDE DEF c
  <2>1. w + 1 + c \in Nat  BY <2>0
  <2>2. (w + 1 + c) % CursorSize \in Nat  BY <2>0, <2>1
  <2>3. \A a \in Nat : a % WorkerCount \in 0 .. WorkerCount - 1  BY <2>0
  <2>. QED  BY <2>2, <2>3 DEF FirstVictim, c
<1>3. /\ list \in Seq(WorkerIds) /\ Injective(list)
      /\ Elements(list) = WorkerIds \ {w}
  BY <1>2, QueueAssumption, EveryPeerOnce DEF QueueAssumption, WorkerIds
<1>4. \A c \in 0 .. CursorSize - 1 : (c + 1) % CursorSize \in 0 .. CursorSize - 1
  BY QueueAssumption DEF QueueAssumption
<1>5. CASE pos[w] = "low" /\ WorkerCount > 1
  <2>1. todo' = [todo EXCEPT ![w] = list]
        /\ cursor' = [cursor EXCEPT ![w] = (cursor[w] + 1) % CursorSize]
    BY <1>5 DEF InjectorEmpty
  <2>. HIDE DEF list
  <2>2. After(pos[w]) = "peers" /\ pos' = [pos EXCEPT ![w] = "peers"]
    BY <1>1, <1>5 DEF After
  <2>3. QueueTypeOK'  BY <1>1, <1>3, <1>4, <2>1, <2>2 DEF Positions
  <2>4. NoRepetition'  BY <1>1, <1>3, <2>1 DEF NoRepetition
  <2>5. VictimsInUse'  BY <2>1, <2>2 DEF VictimsInUse
  <2>6. Contents(todo') = [Contents(todo) EXCEPT ![w] = WorkerIds \ {w}]
    BY <1>3, <2>1 DEF Contents
  <2>7. Contents(queue)["Low"] = {}
    BY <1>1, <1>5 DEF InjectorAt, Contents, Priorities, Elements
  <2>8. PP!InjectorEmpty(w)
    BY <1>1, <1>5, <2>2, <2>6, <2>7
    DEF PP!InjectorEmpty, PP!InjectorPos, PP!InjectorAt, PP!After, PP!Victims
  <2>. QED  BY <2>3, <2>4, <2>5, <2>8
<1>6. CASE ~(pos[w] = "low" /\ WorkerCount > 1)
  <2>1. UNCHANGED <<todo, cursor>>  BY <1>6 DEF InjectorEmpty
  <2>2. p \in Priorities /\ After(pos[w]) \in Positions
    BY <1>1, SamePositions
  <2>3. QueueTypeOK'  BY <1>1, <2>1, <2>2
  <2>4. NoRepetition'  BY <1>1, <2>1 DEF NoRepetition
  <2>5. todo[w] = <<>>  BY <1>1 DEF VictimsInUse, InjectorPos
  <2>6. VictimsInUse'  BY <1>1, <2>1, <2>5 DEF VictimsInUse
  <2>7. Contents(queue)[p] = {}
    BY <1>1, <2>2 DEF Contents, Elements
  <2>8. Contents(todo)[w] = {}  BY <2>5 DEF Contents, Elements
  <2>9. pos[w] = "low" => PP!Victims(w) = {}
    <3>. SUFFICES ASSUME pos[w] = "low" PROVE WorkerIds \ {w} = {}
      BY DEF PP!Victims
    <3>1. WorkerCount = 1  BY <1>6, QueueAssumption DEF QueueAssumption
    <3>2. \A v \in WorkerIds : v = 0  BY <3>1 DEF WorkerIds
    <3>. QED  BY <3>2
  <2>10. Contents(todo) \in [WorkerIds -> SUBSET WorkerIds]
    BY NoElements DEF Contents
  <2>11. Contents(todo') = [Contents(todo) EXCEPT ![w] =
                             IF pos[w] = "low" THEN PP!Victims(w) ELSE @]
    BY <2>1, <2>8, <2>9, <2>10
  <2>12. /\ pos[w] \in PP!InjectorPos /\ PP!InjectorAt(pos[w]) = p
         /\ PP!After(pos[w]) = After(pos[w])
    BY <1>1, SamePositions
  <2>13. UNCHANGED <<Contents(queue), Contents(deque), Contents(batch), current>>
    BY <1>1
  <2>. HIDE DEF p
  <2>14. PP!InjectorEmpty(w)
    BY <1>1, <2>7, <2>11, <2>12, <2>13 DEF PP!InjectorEmpty
  <2>. QED  BY <2>3, <2>4, <2>6, <2>14
<1>. QED  BY <1>5, <1>6

\* The steps that change nothing but the position.
LEMMA OtherStepsOK ==
    ASSUME QueueInv, NEW w \in WorkerIds
    PROVE  /\ PopCall(w) => QueueInv' /\ PP!PopCall(w)
           /\ LocalEmpty(w) => QueueInv' /\ PP!LocalEmpty(w)
           /\ PeersExhausted(w) => QueueInv' /\ PP!PeersExhausted(w)
           /\ StealRetry(w) => QueueInv' /\ PP!StealRetry(w)
           /\ PopReturn(w) => QueueInv' /\ pos[w] \in PP!Results /\ PP!PopReturn(w)
           /\ DropTask(w) => QueueInv' /\ PP!DropTask(w)
<1>. USE DEF QueueInv, QueueTypeOK
<1>0. /\ \A v \in WorkerIds : Contents(deque)[v] = Elements(deque[v])
      /\ \A v \in WorkerIds : Contents(todo)[v] = Elements(todo[v])
      /\ \A p \in Priorities : Contents(queue)[p] = Elements(queue[p])
  BY DEF Contents
<1>1. ASSUME PopCall(w) PROVE QueueInv' /\ PP!PopCall(w)
  <2>1. /\ pos[w] = "idle" /\ UNCHANGED <<queue, deque, batch, current, todo,
                                           high_streak, cursor>>
        /\ \E p \in {"fair_normal", "local"} : pos' = [pos EXCEPT ![w] = p]
    BY <1>1 DEF PopCall
  <2>2. stats' \in [Counters -> 0 .. CounterSize - 1]
    BY <1>1, CountOK DEF PopCall
  <2>3. QueueTypeOK'  BY <2>1, <2>2 DEF Positions, InjectorPos
  <2>4. NoRepetition' /\ VictimsInUse'  BY <2>1 DEF NoRepetition, VictimsInUse
  <2>5. PP!PopCall(w)  BY <2>1 DEF PP!PopCall
  <2>. QED  BY <2>3, <2>4, <2>5
<1>2. ASSUME LocalEmpty(w) PROVE QueueInv' /\ PP!LocalEmpty(w)
  <2>1. /\ pos[w] = "local" /\ deque[w] = <<>>
        /\ pos' = [pos EXCEPT ![w] = After(pos[w])]
        /\ UNCHANGED <<queue, deque, batch, current, todo, high_streak, cursor,
                       stats>>
    BY <1>2 DEF LocalEmpty
  <2>2. After(pos[w]) = "high" /\ PP!After(pos[w]) = "high"
    BY <2>1 DEF After, PP!After
  <2>3. QueueTypeOK'  BY <2>1, <2>2 DEF Positions, InjectorPos
  <2>4. NoRepetition' /\ VictimsInUse'
    BY <2>1, <2>2 DEF NoRepetition, VictimsInUse
  <2>5. Contents(deque)[w] = {}  BY <1>0, <2>1 DEF Elements
  <2>6. PP!LocalEmpty(w)  BY <2>1, <2>2, <2>5 DEF PP!LocalEmpty
  <2>. QED  BY <2>3, <2>4, <2>6
<1>3. ASSUME PeersExhausted(w) PROVE QueueInv' /\ PP!PeersExhausted(w)
  <2>1. /\ pos[w] = "peers" /\ todo[w] = <<>>
        /\ pos' = [pos EXCEPT ![w] = "empty"]
        /\ UNCHANGED <<queue, deque, batch, current, todo, high_streak, cursor,
                       stats>>
    BY <1>3 DEF PeersExhausted
  <2>2. QueueTypeOK'  BY <2>1 DEF Positions, Results
  <2>3. NoRepetition' /\ VictimsInUse'  BY <2>1 DEF NoRepetition, VictimsInUse
  <2>4. Contents(todo)[w] = {}  BY <1>0, <2>1 DEF Elements
  <2>5. PP!PeersExhausted(w)  BY <2>1, <2>4 DEF PP!PeersExhausted
  <2>. QED  BY <2>2, <2>3, <2>5
<1>4. ASSUME StealRetry(w) PROVE QueueInv' /\ PP!StealRetry(w)
  <2>1. /\ \/ pos[w] \in InjectorPos /\ queue[InjectorAt(pos[w])] # <<>>
           \/ pos[w] = "peers" /\ todo[w] # <<>> /\ deque[Head(todo[w])] # <<>>
        /\ pos' = [pos EXCEPT ![w] = "retry"]
        /\ todo' = [todo EXCEPT ![w] = <<>>]
        /\ UNCHANGED <<queue, deque, batch, current, high_streak, cursor>>
    BY <1>4 DEF StealRetry
  <2>2. stats' \in [Counters -> 0 .. CounterSize - 1]
    BY <1>4, CountOK DEF StealRetry
  <2>3. Injective(<<>>) /\ Elements(<<>>) = {} /\ <<>> \in Seq(WorkerIds)
    BY DEF Injective, Elements
  <2>4. QueueTypeOK'  BY <2>1, <2>2, <2>3 DEF Positions, Results
  <2>5. NoRepetition' /\ VictimsInUse'
    BY <2>1, <2>3 DEF NoRepetition, VictimsInUse
  <2>6. Contents(todo') = [Contents(todo) EXCEPT ![w] = {}]
    BY <2>1, <2>3 DEF Contents
  <2>7. \/ pos[w] \in PP!InjectorPos /\ Contents(queue)[PP!InjectorAt(pos[w])] # {}
        \/ pos[w] = "peers" /\ \E v \in Contents(todo)[w] : Contents(deque)[v] # {}
    <3>1. CASE pos[w] \in InjectorPos /\ queue[InjectorAt(pos[w])] # <<>>
      <4>1. InjectorAt(pos[w]) \in Priorities  BY <3>1, SamePositions
      <4>2. Elements(queue[InjectorAt(pos[w])]) # {}  BY <3>1, <4>1, NoElements
      <4>. QED  BY <1>0, <3>1, <4>1, <4>2, SamePositions
    <3>2. CASE pos[w] = "peers" /\ todo[w] # <<>> /\ deque[Head(todo[w])] # <<>>
      <4>. DEFINE v == Head(todo[w])
      <4>1. v \in WorkerIds /\ v \in Elements(todo[w])  BY <3>2, NoElements
      <4>2. Elements(deque[v]) # {}  BY <3>2, <4>1, NoElements
      <4>. HIDE DEF v
      <4>. QED  BY <1>0, <3>2, <4>1, <4>2
    <3>. QED  BY <2>1, <3>1, <3>2
  <2>8. PP!StealRetry(w)  BY <2>1, <2>6, <2>7 DEF PP!StealRetry
  <2>. QED  BY <2>4, <2>5, <2>8
<1>5. ASSUME PopReturn(w)
      PROVE  QueueInv' /\ pos[w] \in PP!Results /\ PP!PopReturn(w)
  <2>1. /\ pos[w] \in Results /\ pos' = [pos EXCEPT ![w] = "idle"]
        /\ UNCHANGED <<queue, deque, batch, current, todo, high_streak, cursor,
                       stats>>
    BY <1>5 DEF PopReturn
  <2>2. QueueTypeOK'  BY <2>1 DEF Positions
  <2>3. NoRepetition' /\ VictimsInUse'
    BY <2>1 DEF NoRepetition, VictimsInUse, Results
  <2>4. pos[w] \in PP!Results /\ PP!PopReturn(w)
    BY <2>1, SamePositions DEF PP!PopReturn
  <2>. QED  BY <2>2, <2>3, <2>4
<1>6. ASSUME DropTask(w) PROVE QueueInv' /\ PP!DropTask(w)
  <2>1. /\ current' = [current EXCEPT ![w] = NoTask]
        /\ UNCHANGED <<queue, deque, batch, pos, todo, high_streak, cursor, stats>>
    BY <1>6 DEF DropTask
  <2>2. QueueTypeOK' /\ NoRepetition' /\ VictimsInUse'
    BY <2>1 DEF NoRepetition, VictimsInUse
  <2>3. PP!DropTask(w)  BY <2>1 DEF PP!DropTask
  <2>. QED  BY <2>2, <2>3
<1>. QED  BY <1>1, <1>2, <1>3, <1>4, <1>5, <1>6

\* Every step is a step of TaskPool's most general client.
LEMMA StepIsPoolStep ==
    ASSUME QueueInv, PP!PoolInv, [QueueNext]_queueVars
    PROVE  QueueInv' /\ [PP!PoolNext]_(PP!poolVars)
<1>1. ASSUME NEW t \in Tasks \ (Waiting \cup InHand), PushGlobal(t)
      PROVE  QueueInv' /\ PP!PoolNext
  <2>1. QueueInv' /\ PP!PushGlobal(t)  BY <1>1, PushGlobalOK
  <2>2. t \notin PP!Waiting \cup PP!InHand
    BY <1>1, SameTasks DEF QueueInv
  <2>. QED  BY <2>1, <2>2 DEF PP!PoolNext
<1>2. ASSUME NEW w \in WorkerIds, WorkerLoop(w)
      PROVE  QueueInv' /\ PP!PoolNext
  <2>1. CASE current[w] = NoTask /\ PopCall(w)
    BY <2>1, OtherStepsOK DEF PP!PoolNext, PP!PoolClient
  <2>2. CASE PopReturn(w)
    BY <2>2, OtherStepsOK DEF PP!PoolNext, PP!PoolClient
  <2>3. CASE DropTask(w)
    BY <2>3, OtherStepsOK DEF PP!PoolNext, PP!PoolClient, DropTask
  <2>4. CASE PopStep(w)
    <3>1. QueueInv' /\ PP!PopStep(w)
      BY <2>4, StealBatchOK, DeliverBatchOK, LocalPopOK, StealPeerOK,
         PeerEmptyOK, InjectorEmptyOK, OtherStepsOK
      DEF PopStep, TakeTask, PP!PopStep
    <3>. QED  BY <3>1 DEF PP!PoolNext
  <2>. QED  BY <1>2, <2>1, <2>2, <2>3, <2>4 DEF WorkerLoop
<1>3. CASE UNCHANGED queueVars
  <2>1. UNCHANGED <<queue, deque, batch, current, pos, todo, high_streak, cursor,
                    stats>>
    BY <1>3 DEF queueVars
  <2>2. QueueInv'
    BY <2>1 DEF QueueInv, QueueTypeOK, NoRepetition, VictimsInUse
  <2>. QED  BY <2>1, <2>2 DEF PP!poolVars
<1>. QED  BY <1>1, <1>2, <1>3 DEF QueueNext

\* PP and the Pool of QueueSystem are the same instance of TaskPool.
LEMMA SamePool ==
    /\ PP!PoolInit => Pool!PoolInit
    /\ PP!PoolNext => Pool!PoolNext
    /\ PP!poolVars = Pool!poolVars
<1>1. PP!PoolInit => Pool!PoolInit
  BY DEF PP!PoolInit, Pool!PoolInit, PP!Priorities, Pool!Priorities
<1>2. PP!poolVars = Pool!poolVars  BY DEF PP!poolVars, Pool!poolVars
<1>3. /\ PP!InjectorPos = Pool!InjectorPos /\ PP!Results = Pool!Results
      /\ \A p : PP!InjectorAt(p) = Pool!InjectorAt(p) /\ PP!After(p) = Pool!After(p)
      /\ \A w : PP!Victims(w) = Pool!Victims(w)
  BY DEF PP!InjectorPos, Pool!InjectorPos, PP!Results, Pool!Results,
         PP!InjectorAt, Pool!InjectorAt, PP!After, Pool!After,
         PP!Victims, Pool!Victims
<1>4. PP!Waiting = Pool!Waiting /\ PP!InHand = Pool!InHand
  BY DEF PP!Waiting, Pool!Waiting, PP!Injected, Pool!Injected, PP!InHand,
         Pool!InHand, PP!Priorities, Pool!Priorities
<1>5. \A t \in Tasks : PP!PushGlobal(t) => Pool!PushGlobal(t)
  BY DEF PP!PushGlobal, Pool!PushGlobal
<1>6. \A w \in WorkerIds : PP!PoolClient(w) => Pool!PoolClient(w)
  BY <1>3 DEF PP!PoolClient, Pool!PoolClient, PP!PopCall, Pool!PopCall,
              PP!PopReturn, Pool!PopReturn, PP!DropTask, Pool!DropTask
<1>7. ASSUME NEW w \in WorkerIds, PP!PopStep(w) PROVE Pool!PopStep(w)
  <2>1. PP!InjectorEmpty(w) => Pool!InjectorEmpty(w)
    BY <1>3 DEF PP!InjectorEmpty, Pool!InjectorEmpty
  <2>2. PP!StealBatch(w) => Pool!StealBatch(w)
    BY <1>3 DEF PP!StealBatch, Pool!StealBatch
  <2>3. PP!DeliverBatch(w) => Pool!DeliverBatch(w)
    BY DEF PP!DeliverBatch, Pool!DeliverBatch
  <2>4. PP!LocalPop(w) => Pool!LocalPop(w)
    BY DEF PP!LocalPop, Pool!LocalPop
  <2>5. PP!LocalEmpty(w) => Pool!LocalEmpty(w)
    BY <1>3 DEF PP!LocalEmpty, Pool!LocalEmpty
  <2>6. PP!StealPeer(w) => Pool!StealPeer(w)
    BY DEF PP!StealPeer, Pool!StealPeer
  <2>7. PP!PeerEmpty(w) => Pool!PeerEmpty(w)
    BY DEF PP!PeerEmpty, Pool!PeerEmpty
  <2>8. PP!PeersExhausted(w) => Pool!PeersExhausted(w)
    BY DEF PP!PeersExhausted, Pool!PeersExhausted
  <2>9. PP!StealRetry(w) => Pool!StealRetry(w)
    BY <1>3 DEF PP!StealRetry, Pool!StealRetry
  <2>. QED
    BY <1>7, <2>1, <2>2, <2>3, <2>4, <2>5, <2>6, <2>7, <2>8, <2>9
    DEF PP!PopStep, Pool!PopStep
<1>. QED
  BY <1>1, <1>2, <1>4, <1>5, <1>6, <1>7 DEF PP!PoolNext, Pool!PoolNext

\* The invariants of both levels hold in every behaviour.
LEMMA QueueSafe == QueueSpec => [](QueueInv /\ PP!PoolInv)
<1>1. QueueInit => QueueInv /\ PP!PoolInv  BY QueueInitOK
<1>2. (QueueInv /\ PP!PoolInv) /\ [QueueNext]_queueVars
        => (QueueInv /\ PP!PoolInv)'
  BY StepIsPoolStep, PoolStepInv
<1>. QED  BY <1>1, <1>2, PTL DEF QueueSpec

\* The queues of queue.rs and steal.rs implement TaskPool: FIFO order, batches
\* that are prefixes, the HIGH streak and the rotating list of victims are one
\* way of making the choices that TaskPool leaves open.
THEOREM QueuesImplementTaskPool == QueueSpec => ImplementsTaskPool
<1>1. QueueInit => Pool!PoolInit  BY QueueInitOK, SamePool
<1>2. QueueInv /\ PP!PoolInv /\ [QueueNext]_queueVars
        => [Pool!PoolNext]_(Pool!poolVars)
  <2>1. UNCHANGED PP!poolVars => UNCHANGED Pool!poolVars
    BY DEF PP!poolVars, Pool!poolVars
  <2>. QED  BY <2>1, StepIsPoolStep, SamePool
<1>. QED
  BY <1>1, <1>2, QueueSafe, PTL
  DEF QueueSpec, ImplementsTaskPool, Pool!PoolSpec

\* round_robin_victims: wherever the cursor stands, the victims of a lookup
\* are all the other workers, each of them once.
THEOREM VictimsAreAllPeers ==
    ASSUME NEW w \in WorkerIds, cursor \in [WorkerIds -> 0 .. CursorSize - 1]
    PROVE  LET victims == RoundRobin(WorkerCount, w, FirstVictim(w))
           IN  /\ Injective(victims)
               /\ Elements(victims) = WorkerIds \ {w}
<1>. DEFINE c == cursor[w]
<1>1. /\ c \in 0 .. CursorSize - 1 /\ w \in Nat
      /\ CursorSize \in Nat \ {0} /\ WorkerCount \in Nat \ {0}
  BY QueueAssumption DEF QueueAssumption, WorkerIds
<1>. HIDE DEF c
<1>2. w + 1 + c \in Nat  BY <1>1
<1>3. (w + 1 + c) % CursorSize \in Nat  BY <1>1, <1>2
<1>4. \A a \in Nat : a % WorkerCount \in 0 .. WorkerCount - 1  BY <1>1
<1>5. FirstVictim(w) \in 0 .. WorkerCount - 1  BY <1>3, <1>4 DEF FirstVictim, c
<1>. QED  BY <1>1, <1>5, EveryPeerOnce DEF WorkerIds

=============================================================================
