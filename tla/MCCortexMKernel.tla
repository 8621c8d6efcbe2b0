-------------------------- MODULE MCCortexMKernel --------------------------
(* The four-task instance of CortexMKernel: idle, root and two tasks of    *)
(* the highest level that are created while the system runs.               *)
EXTENDS CortexMKernel

CONSTANTS a, b

TwoRealtime == [t \in Task |-> CASE t = Idle -> 0 [] t = Root -> 1 [] OTHER -> 2]

=============================================================================
