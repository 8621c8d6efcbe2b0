---------------------------- MODULE MCTaskLists ----------------------------
(* Two tasks on each of two of the three levels.                           *)
EXTENDS TaskLists

CONSTANTS a, b, c, d

TwoLevels == [t \in Task |-> IF t \in {a, b} THEN 0 ELSE 2]

=============================================================================
