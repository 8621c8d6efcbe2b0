--------------------------- MODULE MCRiscvKernel ---------------------------
(* The four-task instance of RiscvKernel: idle, root and two tasks that    *)
(* are created while the system runs.                                      *)
EXTENDS RiscvKernel

CONSTANTS a, b

\* both created tasks are of the highest level
TwoRealtime == [t \in Task |-> CASE t = Idle -> 0 [] t = Root -> 1 [] OTHER -> 2]

\* a shares the level of root, b alone is of the highest
OneRealtime == [t \in Task |-> CASE t = Idle -> 0 [] t = b -> 2 [] OTHER -> 1]

=============================================================================
