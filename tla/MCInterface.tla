---------------------------- MODULE MCInterface ----------------------------
(***************************************************************************)
(* Model-checking instances of Interface.                                  *)
(***************************************************************************)
EXTENDS Interface, TLC

CONSTANTS w1, t1, t2, x1, g1, y1

AllNormal == [t \in Tasks |-> "Normal"]
Ungrouped == [t \in Tasks |-> NoGroup]
AllInG    == [t \in Tasks |-> g1]
AllWaitG  == [y \in GroupWaiters |-> g1]

\* Submissions that ask for the same are interchangeable.
SymTasks == Permutations(Tasks)
=============================================================================
