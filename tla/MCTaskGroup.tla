---------------------------- MODULE MCTaskGroup ----------------------------
(***************************************************************************)
(* Model-checking instances of GroupWaits: all submissions in one group.   *)
(***************************************************************************)
EXTENDS GroupWaits, TLC

CONSTANTS g1, t1, t2, t3, x1, x2

AllNormal  == [t \in Tasks |-> "Normal"]
OneGroup   == [t \in Tasks |-> g1]
AllWaitOne == [x \in GroupWaiters |-> g1]
=============================================================================
