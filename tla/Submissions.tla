---------------------------- MODULE Submissions ----------------------------
(***************************************************************************)
(* What a client submits: the Task record of src/src/queue.rs.  A task is  *)
(* one call of a push function; its callback and argument are opaque, its  *)
(* priority and its optional group are fixed by the call.                  *)
(***************************************************************************)
EXTENDS Naturals, FiniteSets

CONSTANTS
    Tasks,          \* the submissions
    NoTask,         \* "no task in hand"
    PriorityOf,     \* the priority each submission asks for
    Groups,         \* the task groups
    NoGroup,        \* the group of an ungrouped submission
    GroupOf         \* the group each submission names

Priorities == {"High", "Normal", "Low"}

ASSUME SubmissionsAssumption ==
    /\ IsFiniteSet(Tasks)
    /\ NoTask \notin Tasks
    /\ PriorityOf \in [Tasks -> Priorities]
    /\ NoGroup \notin Groups
    /\ GroupOf \in [Tasks -> Groups \cup {NoGroup}]

=============================================================================
