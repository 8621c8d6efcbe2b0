----------------------------- MODULE TaskLists -----------------------------
(***************************************************************************)
(* The task lists as the code keeps them: kernel/src/sched/ready_queue.rs  *)
(* with a head and a tail pointer per level and a bitmap of the non-empty  *)
(* levels, and the sleep list of Scheduler::delay and tick_update.  All of *)
(* them link tasks through the one field TaskControlBlock.next.  Every     *)
(* operation runs under the scheduler lock; the loop of tick_update is one *)
(* step per iteration, and nothing else happens while it runs.             *)
(***************************************************************************)
EXTENDS Integers, Sequences, FiniteSets

CONSTANTS Task, Null, Priority, MaxPriority, MaxTasks

ASSUME ListsAssumption ==
    /\ IsFiniteSet(Task) /\ Null \notin Task
    /\ MaxPriority \in Nat /\ Priority \in [Task -> 0..MaxPriority]
    /\ MaxTasks \in Nat /\ Cardinality(Task) <= MaxTasks

VARIABLES
    head, tail,             \* ReadyQueue.queues: level -> task or Null
    non_empty,              \* the bits of ReadyQueue.non_empty
    task_count,
    queued, next,           \* the fields of TaskControlBlock
    state,                  \* "Off": in no list here (free, blocked, terminated, stolen)
    sleep_queue,            \* Scheduler.sleep_queue
    scanning, prev, curr,   \* the loop of tick_update
    out                     \* the last task taken by a pop

vars == <<head, tail, non_empty, task_count, queued, next, state, sleep_queue,
          scanning, prev, curr, out>>

Levels == 0..MaxPriority
Init ==
    /\ head = [p \in Levels |-> Null] /\ tail = [p \in Levels |-> Null]
    /\ non_empty = {} /\ task_count = 0
    /\ queued = [t \in Task |-> FALSE] /\ next = [t \in Task |-> Null]
    /\ state = [t \in Task |-> "Off"]
    /\ sleep_queue = Null
    /\ scanning = FALSE /\ prev = Null /\ curr = Null
    /\ out = Null

-----------------------------------------------------------------------------
(* ReadyQueue, started with the next fields n.                             *)

CanPush(t, n) == ~queued[t] /\ n[t] = Null /\ task_count < MaxTasks

Push(t, n) ==
    LET p    == Priority[t]
        last == tail[p]
    IN  /\ head' = IF last = Null THEN [head EXCEPT ![p] = t] ELSE head
        /\ next' = IF last = Null THEN n ELSE [n EXCEPT ![last] = t]
        /\ tail' = [tail EXCEPT ![p] = t]
        /\ queued' = [queued EXCEPT ![t] = TRUE]
        /\ task_count' = task_count + 1
        /\ non_empty' = non_empty \cup {p}

PopFront(p) ==
    LET t == head[p]
    IN  /\ head' = [head EXCEPT ![p] = next[t]]
        /\ tail' = IF next[t] = Null THEN [tail EXCEPT ![p] = Null] ELSE tail
        /\ next' = [next EXCEPT ![t] = Null]
        /\ non_empty' = IF next[t] = Null THEN non_empty \ {p} ELSE non_empty
        /\ task_count' = task_count - 1
        /\ queued' = [queued EXCEPT ![t] = FALSE]
        /\ out' = t

\* pop_highest; the task is made Running by the scheduler
PopHighest ==
    /\ ~scanning
    /\ \E p \in non_empty :
         /\ \A q \in non_empty : q <= p
         /\ PopFront(p)
         /\ state' = [state EXCEPT ![head[p]] = "Running"]
    /\ UNCHANGED <<sleep_queue, scanning, prev, curr>>

\* pop_lowest and pop_lowest_raw: another CPU takes the task to its own queue
PopLowest ==
    /\ ~scanning
    /\ \E p \in non_empty :
         /\ \A q \in non_empty : q >= p
         /\ PopFront(p)
         /\ state' = [state EXCEPT ![head[p]] = "Off"]
    /\ UNCHANGED <<sleep_queue, scanning, prev, curr>>

\* a task that is created, woken or preempted goes to the back of its level
MakeReady(t) ==
    /\ ~scanning
    /\ state[t] \in {"Off", "Running"}
    /\ CanPush(t, next)
    /\ Push(t, next)
    /\ state' = [state EXCEPT ![t] = "Ready"]
    /\ UNCHANGED <<sleep_queue, scanning, prev, curr, out>>

\* block_current_task_irq_disabled, terminate_current
Block(t) ==
    /\ ~scanning
    /\ state[t] = "Running"
    /\ state' = [state EXCEPT ![t] = "Off"]
    /\ next' = [next EXCEPT ![t] = Null]
    /\ UNCHANGED <<head, tail, non_empty, task_count, queued, sleep_queue,
                   scanning, prev, curr, out>>

-----------------------------------------------------------------------------
(* The sleep list.                                                         *)

Delay(t) ==
    /\ ~scanning
    /\ state[t] = "Running"
    /\ state' = [state EXCEPT ![t] = "Sleeping"]
    /\ next' = [next EXCEPT ![t] = sleep_queue]
    /\ sleep_queue' = t
    /\ UNCHANGED <<head, tail, non_empty, task_count, queued, scanning, prev, curr, out>>

ScanStart ==
    /\ ~scanning /\ sleep_queue # Null
    /\ scanning' = TRUE
    /\ prev' = Null /\ curr' = sleep_queue
    /\ UNCHANGED <<head, tail, non_empty, task_count, queued, next, state, sleep_queue, out>>

\* the task is not due
ScanPass ==
    /\ scanning /\ curr # Null
    /\ prev' = curr
    /\ curr' = next[curr]
    /\ UNCHANGED <<head, tail, non_empty, task_count, queued, next, state,
                   sleep_queue, scanning, out>>

\* faulty variant: prev follows a task that has left the list
ScanWakeMovesPrev ==
    /\ scanning /\ curr # Null
    /\ LET n  == IF prev = Null THEN next ELSE [next EXCEPT ![prev] = next[curr]]
           n2 == [n EXCEPT ![curr] = Null]
       IN  CanPush(curr, n2) /\ Push(curr, n2)
    /\ sleep_queue' = IF prev = Null THEN next[curr] ELSE sleep_queue
    /\ state' = [state EXCEPT ![curr] = "Ready"]
    /\ prev' = curr
    /\ curr' = next[curr]
    /\ UNCHANGED <<scanning, out>>

\* the task is due: unlink it and push it; a refused task goes to the head of
\* the list again
ScanWake ==
    /\ scanning /\ curr # Null
    /\ LET n  == IF prev = Null THEN next ELSE [next EXCEPT ![prev] = next[curr]]
           n2 == [n EXCEPT ![curr] = Null]
           sq == IF prev = Null THEN next[curr] ELSE sleep_queue
       IN  IF CanPush(curr, n2)
           THEN /\ Push(curr, n2)
                /\ state' = [state EXCEPT ![curr] = "Ready"]
                /\ sleep_queue' = sq
           ELSE /\ next' = [n2 EXCEPT ![curr] = sq]
                /\ sleep_queue' = curr
                /\ UNCHANGED <<head, tail, non_empty, task_count, queued, state>>
    /\ curr' = next[curr]
    /\ UNCHANGED <<scanning, prev, out>>

ScanEnd ==
    /\ scanning /\ curr = Null
    /\ scanning' = FALSE /\ prev' = Null
    /\ UNCHANGED <<head, tail, non_empty, task_count, queued, next, state,
                   sleep_queue, curr, out>>

Next ==
    \/ PopHighest \/ PopLowest
    \/ \E t \in Task : MakeReady(t) \/ Block(t) \/ Delay(t)
    \/ ScanStart \/ ScanPass \/ ScanWake \/ ScanEnd

Spec == Init /\ [][Next]_vars

-----------------------------------------------------------------------------
RECURSIVE Follow(_, _)
\* the first n tasks of the list that starts at t
Follow(t, n) == IF t = Null \/ n = 0 THEN <<>> ELSE <<t>> \o Follow(next[t], n - 1)

Chain(t) == Follow(t, Cardinality(Task) + 1)

Queues == INSTANCE TaskQueues WITH
            ready <- [p \in Levels |-> Chain(head[p])],
            sleep <- Chain(sleep_queue)

\* ReadyQueue.push would accept every task that is in no list, and outside the
\* scan every sleeper once it is unlinked.
PushesAccepted ==
    ~scanning => \A t \in Task :
      /\ state[t] \in {"Off", "Running"} => CanPush(t, next)
      /\ state[t] = "Sleeping" => CanPush(t, [next EXCEPT ![t] = Null])

(***************************************************************************)
(* Followed from their heads, the linked lists are the sequences Scheduler *)
(* works with, and every operation does to them what Scheduler says.  No   *)
(* push of a task that is in no list is refused, whatever lists it was in  *)
(* before: its link and its queued flag are clear, and the count is not    *)
(* at its limit.                                                           *)
(***************************************************************************)
ImplementsQueues == Queues!Spec /\ []PushesAccepted

=============================================================================
