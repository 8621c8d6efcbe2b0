----------------------------- MODULE WaitQueues ----------------------------
(***************************************************************************)
(* WaitQueue, Event and Semaphore of kernel/src/sched/wait.rs, one object  *)
(* of each, used by tasks and interrupt handlers on one CPU.  A critical   *)
(* section is one step; tasks preempt each other between steps, and a      *)
(* handler runs to its end before any task goes on.  Of the scheduler only *)
(* the set of Blocked tasks matters here: the others make steps in any     *)
(* order.  The async waiter of Event is in AsyncExecutor.                  *)
(***************************************************************************)
EXTENDS Integers, Sequences, FiniteSets, SequencesExt, Functions

CONSTANTS
    Task,
    Isr,            \* the interrupt handlers, which never wait
    Capacity,       \* N, the length of the array of a WaitQueue
    Permits,        \* the argument of Semaphore::new
    Counts,         \* the arguments of release_many
    MaxReleased     \* bound on the permits released in a behaviour

ASSUME WaitAssumption ==
    /\ IsFiniteSet(Task) /\ Isr \notin Task
    /\ Capacity \in Nat /\ Permits \in Nat /\ MaxReleased \in Nat
    /\ Counts \subseteq Nat \ {0}

Agent == Task \cup {Isr}
Queue == {"plain", "event", "sem"}

VARIABLES
    waiters,        \* queue -> the tasks in WaitQueueInner.tasks, first to be woken first
    blocked,        \* the tasks in state Blocked
    taken,          \* wake_one, wake_all: popped by the agent and not yet woken
    signaled,       \* EventInner.signaled
    permits,        \* SemaphoreInner.permits
    todo,           \* release_many: count - woke of the agent
    pc,
    acquired, released,     \* history: permits taken and given back
    late            \* history: tasks that began to wait inside the gap of a release

vars == <<waiters, blocked, taken, signaled, permits, todo, pc, acquired, released, late>>
semVars == <<permits, todo, acquired, released, late>>

Init ==
    /\ waiters = [q \in Queue |-> <<>>]
    /\ blocked = {}
    /\ taken = [a \in Agent |-> <<>>]
    /\ signaled = FALSE
    /\ permits = Permits
    /\ todo = [a \in Agent |-> 0]
    /\ pc = [a \in Agent |-> "run"]
    /\ acquired = 0 /\ released = 0
    /\ late = {}

\* agent a can make a step, from the point p of its program
At(a, p) ==
    /\ pc[a] = p
    /\ a \notin blocked
    /\ a = Isr \/ pc[Isr] = "run"

HasRoom(q) == Len(waiters[q]) < Capacity

\* faulty variant: the caller blocks although the queue had no room for it
EnqueueAlways(q, t) ==
    /\ waiters' = IF HasRoom(q) THEN [waiters EXCEPT ![q] = Append(@, t)] ELSE waiters
    /\ blocked' = blocked \cup {t}

\* enqueue and block_current_task_irq_disabled; wait() fails when there is no room
Enqueue(q, t) ==
    IF HasRoom(q)
    THEN /\ waiters' = [waiters EXCEPT ![q] = Append(@, t)]
         /\ blocked' = blocked \cup {t}
    ELSE UNCHANGED <<waiters, blocked>>

\* wake_one inside a critical section of the caller, and whether it succeeds;
\* wake_blocked_task fails for a task that is not Blocked
WakeOne(q) ==
    IF waiters[q] = <<>>
    THEN UNCHANGED <<waiters, blocked>>
    ELSE /\ waiters' = [waiters EXCEPT ![q] = Tail(@)]
         /\ blocked' = blocked \ {Head(waiters[q])}

WokeOne(q) == waiters[q] # <<>> /\ Head(waiters[q]) \in blocked

-----------------------------------------------------------------------------
(* WaitQueue                                                               *)

Wait(t) ==
    /\ At(t, "run")
    /\ Enqueue("plain", t)
    /\ UNCHANGED <<taken, signaled, pc, semVars>>

\* wake_one and wake_all take tasks under the lock and wake them without it
TakeOne(a) ==
    /\ At(a, "run")
    /\ waiters["plain"] # <<>>
    /\ taken' = [taken EXCEPT ![a] = <<Head(waiters["plain"])>>]
    /\ waiters' = [waiters EXCEPT !["plain"] = Tail(@)]
    /\ pc' = [pc EXCEPT ![a] = "waking"]
    /\ UNCHANGED <<blocked, signaled, semVars>>

TakeAll(a) ==
    /\ At(a, "run")
    /\ waiters["plain"] # <<>>
    /\ taken' = [taken EXCEPT ![a] = waiters["plain"]]
    /\ waiters' = [waiters EXCEPT !["plain"] = <<>>]
    /\ pc' = [pc EXCEPT ![a] = "waking"]
    /\ UNCHANGED <<blocked, signaled, semVars>>

WakeTaken(a) ==
    /\ At(a, "waking")
    /\ blocked' = blocked \ {Head(taken[a])}
    /\ taken' = [taken EXCEPT ![a] = Tail(@)]
    /\ pc' = [pc EXCEPT ![a] = IF Len(taken[a]) = 1 THEN "run" ELSE "waking"]
    /\ UNCHANGED <<waiters, signaled, semVars>>

-----------------------------------------------------------------------------
(* Event                                                                   *)

EventWait(t) ==
    /\ At(t, "run")
    /\ IF signaled
       THEN signaled' = FALSE /\ UNCHANGED <<waiters, blocked>>
       ELSE Enqueue("event", t) /\ UNCHANGED signaled
    /\ UNCHANGED <<taken, pc, semVars>>

\* faulty variant: sets the flag also when a waiter was woken
SignalAlways(a) ==
    /\ At(a, "run")
    /\ signaled' = TRUE
    /\ WakeOne("event")
    /\ UNCHANGED <<taken, pc, semVars>>

Signal(a) ==
    /\ At(a, "run")
    /\ WakeOne("event")
    /\ signaled' = (signaled \/ ~WokeOne("event"))
    /\ UNCHANGED <<taken, pc, semVars>>

Clear(a) ==
    /\ At(a, "run")
    /\ signaled' = FALSE
    /\ UNCHANGED <<waiters, blocked, taken, pc, semVars>>

-----------------------------------------------------------------------------
(* Semaphore                                                               *)

TryAcquire(a) ==
    /\ At(a, "run")
    /\ permits > 0
    /\ permits' = permits - 1
    /\ acquired' = acquired + 1
    /\ UNCHANGED <<waiters, blocked, taken, signaled, todo, pc, released, late>>

SemWait(t) ==
    /\ At(t, "run")
    /\ IF permits > 0
       THEN /\ permits' = permits - 1 /\ acquired' = acquired + 1
            /\ UNCHANGED <<waiters, blocked, late>>
       ELSE /\ Enqueue("sem", t)
            /\ late' = IF \E a \in Agent : pc[a] = "add" THEN late \cup {t} ELSE late \ {t}
            /\ UNCHANGED <<permits, acquired>>
    /\ UNCHANGED <<taken, signaled, todo, pc, released>>

Release(a, count) ==
    /\ At(a, "run")
    /\ released + count <= MaxReleased
    /\ released' = released + count
    /\ todo' = [todo EXCEPT ![a] = count]
    /\ pc' = [pc EXCEPT ![a] = "release"]
    /\ UNCHANGED <<waiters, blocked, taken, signaled, permits, acquired, late>>

\* faulty variant: wakes at most one waiter
ReleaseWakeOnce(a) ==
    /\ At(a, "release")
    /\ WakeOne("sem")
    /\ IF WokeOne("sem")
       THEN /\ acquired' = acquired + 1
            /\ todo' = [todo EXCEPT ![a] = @ - 1]
       ELSE UNCHANGED <<acquired, todo>>
    /\ pc' = [pc EXCEPT ![a] = IF todo'[a] = 0 THEN "run" ELSE "add"]
    /\ UNCHANGED <<taken, signaled, permits, released, late>>

\* an iteration of release_many: a waiter is handed its permit
ReleaseWake(a) ==
    /\ At(a, "release")
    /\ WakeOne("sem")
    /\ IF WokeOne("sem")
       THEN /\ acquired' = acquired + 1
            /\ todo' = [todo EXCEPT ![a] = @ - 1]
            /\ pc' = [pc EXCEPT ![a] = IF todo[a] = 1 THEN "run" ELSE "release"]
       ELSE /\ pc' = [pc EXCEPT ![a] = "add"]
            /\ UNCHANGED <<acquired, todo>>
    /\ UNCHANGED <<taken, signaled, permits, released, late>>

\* faulty variant: adds one permit
ReleaseAddOne(a) ==
    /\ At(a, "add")
    /\ permits' = permits + 1
    /\ todo' = [todo EXCEPT ![a] = 0]
    /\ pc' = [pc EXCEPT ![a] = "run"]
    /\ UNCHANGED <<waiters, blocked, taken, signaled, acquired, released, late>>

\* the second critical section of release_many: nobody was waiting
ReleaseAdd(a) ==
    /\ At(a, "add")
    /\ permits' = permits + todo[a]
    /\ todo' = [todo EXCEPT ![a] = 0]
    /\ pc' = [pc EXCEPT ![a] = "run"]
    /\ UNCHANGED <<waiters, blocked, taken, signaled, acquired, released, late>>

Next ==
    \/ \E t \in Task : Wait(t) \/ EventWait(t) \/ SemWait(t)
    \/ \E a \in Agent :
         \/ TakeOne(a) \/ TakeAll(a) \/ WakeTaken(a)
         \/ Signal(a) \/ Clear(a)
         \/ TryAcquire(a) \/ ReleaseWake(a) \/ ReleaseAdd(a)
         \/ \E count \in Counts : Release(a, count)

Spec == Init /\ [][Next]_vars

-----------------------------------------------------------------------------
\* how often t stands in the arrays of the queues and of the agents that wake
Places(t) ==
    Cardinality({q \in Queue : Contains(waiters[q], t)})
      + Cardinality({a \in Agent : Contains(taken[a], t)})

(***************************************************************************)
(* Nobody is forgotten: a Blocked task stands in exactly one queue, or in  *)
(* the array of exactly one agent that is about to wake it, and only once; *)
(* a task that is not Blocked stands nowhere.  So every pop of a queue     *)
(* finds a task it can wake: wake_one drops a task it cannot wake.         *)
(***************************************************************************)
NobodyForgotten ==
    /\ \A t \in Task : Places(t) = IF t \in blocked THEN 1 ELSE 0
    /\ \A q \in Queue : IsInjective(waiters[q])

(***************************************************************************)
(* A signal is not missed: no task waits for an event that is signaled.    *)
(***************************************************************************)
SignalNotMissed == signaled => waiters["event"] = <<>>

(***************************************************************************)
(* Permits are neither lost nor made up: those available, handed out and   *)
(* on their way through release_many are all that ever were released.      *)
(***************************************************************************)
PermitsConserved ==
    permits + acquired + SumFunctionOnSet(todo, Agent)
      = Permits + released

(***************************************************************************)
(* A task waits beside an available permit only if it began to wait        *)
(* between the two critical sections of a release_many, after the look for *)
(* waiters and before the permits are added; no permit is stranded in any  *)
(* other way.                                                              *)
(***************************************************************************)
StrandedOnlyInGap == permits > 0 => Range(waiters["sem"]) \subseteq late

=============================================================================
