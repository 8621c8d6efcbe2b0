------------------------------ MODULE MCRxPath -----------------------------
(* A ring of four places, which holds three bytes.                         *)
EXTENDS RxPath

\* every board with one reader
OneReader == {r \in Board : r.has_shell # r.has_calls}

\* a board without polling, with both readers
TwoReaders == {[has_poll |-> FALSE, has_shell |-> TRUE, has_calls |-> TRUE]}

=============================================================================
