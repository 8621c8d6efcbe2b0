-------------------------- MODULE MCAsyncExecutor --------------------------
(* A heartbeat, a listener and a sleeping future that may end.             *)
EXTENDS AsyncExecutor

=============================================================================
