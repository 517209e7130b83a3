--------------------------- MODULE MCQueueService ---------------------------
(***************************************************************************)
(* Model-checking instances of QueueService.                               *)
(***************************************************************************)
EXTENDS QueueService, TLC

CONSTANTS h1, h2, n1, n2, l1

Mix == [t \in Tasks |-> CASE t \in {h1, h2} -> "High"
                          [] t \in {n1, n2} -> "Normal"
                          [] t = l1         -> "Low"]
Ungrouped == [t \in Tasks |-> NoGroup]

\* Bound: which tasks are queued or in hand together.  A HIGH batch and a
\* NORMAL task, a NORMAL batch and a HIGH task, or one of each priority.
Together ==
    \E S \in {{h1, h2, n1}, {h1, n1, n2}, {h1, n1, l1}} : Waiting \cup InHand \subseteq S
=============================================================================
