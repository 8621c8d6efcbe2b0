---------------------------- MODULE MCWaitQueues ---------------------------
(* Three tasks, queues with room for two.                                  *)
EXTENDS WaitQueues, TLC

TaskSymmetry == Permutations(Task)

=============================================================================
