---------------------------- MODULE MCScheduler ----------------------------
(***************************************************************************)
(* Model-checking instances of Scheduler.                                  *)
(***************************************************************************)
EXTENDS Scheduler, TLC

CONSTANTS w1, w2, t1, t2, x1, g1, y1

AllNormal == [t \in Tasks |-> "Normal"]

Ungrouped == [t \in Tasks |-> NoGroup]
FirstInG  == [t \in Tasks |-> IF t = t1 THEN g1 ELSE NoGroup]
AllWaitG  == [y \in GroupWaiters |-> g1]

\* Submissions that ask for the same are interchangeable, and so are workers
\* and waiters.
SymWorkers == Permutations(Workers) \cup Permutations(Waiters)
SymAll == SymWorkers \cup Permutations(Tasks)
=============================================================================
