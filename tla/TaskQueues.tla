----------------------------- MODULE TaskQueues ----------------------------
(***************************************************************************)
(* What Scheduler takes the task lists to be: one sequence of tasks per    *)
(* priority level, first in first out, and one sequence of sleepers.       *)
(***************************************************************************)
EXTENDS Integers, Sequences

CONSTANTS Task, Priority, MaxPriority

VARIABLES ready, sleep, out     \* out: the last task taken from a level

Levels == 0..MaxPriority

Init == ready = [p \in Levels |-> <<>>] /\ sleep = <<>> /\ out \notin Task

Push(t) == ready' = [ready EXCEPT ![Priority[t]] = Append(@, t)] /\ UNCHANGED <<sleep, out>>

PopFrom(p) ==
    /\ ready[p] # <<>>
    /\ out' = Head(ready[p])
    /\ ready' = [ready EXCEPT ![p] = Tail(@)]
    /\ UNCHANGED sleep

PopHighest == \E p \in Levels : (\A q \in Levels : q > p => ready[q] = <<>>) /\ PopFrom(p)

PopLowest == \E p \in Levels : (\A q \in Levels : q < p => ready[q] = <<>>) /\ PopFrom(p)

Sleep(t) == sleep' = <<t>> \o sleep /\ UNCHANGED <<ready, out>>

\* the i-th sleeper becomes ready
Wake(i) ==
    /\ ready' = [ready EXCEPT ![Priority[sleep[i]]] = Append(@, sleep[i])]
    /\ sleep' = SubSeq(sleep, 1, i - 1) \o SubSeq(sleep, i + 1, Len(sleep))
    /\ UNCHANGED out

Next ==
    \/ \E t \in Task : Push(t) \/ Sleep(t)
    \/ PopHighest \/ PopLowest
    \/ \E i \in 1..Len(sleep) : Wake(i)

Spec == Init /\ [][Next]_<<ready, sleep, out>>

=============================================================================
