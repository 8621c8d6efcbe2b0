----------------------------- MODULE Scheduler -----------------------------
(***************************************************************************)
(* The scheduler of kernel/src/sched/mod.rs on one CPU: the state it keeps *)
(* and the effect of each of its functions.  What runs those functions,    *)
(* and when the task that was selected really starts to execute, depends   *)
(* on the architecture; RiscvKernel and CortexMKernel supply that.         *)
(*                                                                         *)
(* The ready queue appears as one sequence of tasks per priority level,    *)
(* the view that ReadyQueue implements with linked lists and a bitmap.     *)
(* The sleep list is a sequence too, its head first.                       *)
(***************************************************************************)
EXTENDS Integers, Sequences, FiniteSets, Functions

CONSTANTS
    Task,           \* the TCB slots of TCB_POOL
    Idle, Root,     \* the tasks init_system_tasks creates
    NoTask,         \* the null TCB pointer
    MaxPriority,    \* MAX_PRIORITY
    Priority,       \* the priority each TCB is created with
    MaxTasks,       \* MAX_TASKS, the capacity of the ready queue
    TickMod,        \* the number of values of the tick counter (2^32)
    Delays          \* the arguments delay() is called with

(***************************************************************************)
(* TCB_POOL and the ready queue have the same capacity.  A delay longer    *)
(* than this bound is taken for a wake-up time already past.               *)
(***************************************************************************)
ASSUME SchedulerAssumption ==
    /\ IsFiniteSet(Task)
    /\ Idle \in Task /\ Root \in Task /\ Idle # Root
    /\ NoTask \notin Task
    /\ MaxPriority \in Nat \ {0}
    /\ Priority \in [Task -> 0..MaxPriority]
    /\ Priority[Idle] = 0 /\ Priority[Root] = 1
    /\ MaxTasks \in Nat /\ Cardinality(Task) <= MaxTasks
    /\ TickMod \in Nat /\ TickMod > 4
    /\ Delays \subseteq 0..(TickMod - ((TickMod - 1) \div 2))

VARIABLES
    state,              \* TaskControlBlock.state; "Free" for a slot not allocated
    ready,              \* the ready queue: level -> sequence of tasks
    sleep_queue,        \* the sleep list, head first
    wakeup_tick,        \* TaskControlBlock.wakeup_tick, 0 unless Sleeping
    preempt_pending,    \* CpuScheduler.preempt_pending
    current, next,      \* CURRENT_TCB and NEXT_TCB
    ticks,              \* the tick counter of timer.rs
    mode,               \* what the CPU is doing
    pc,                 \* where each task is inside a scheduler call
    prev, curr,         \* tick_update: positions in sleep_queue, 0 for null
    left                \* history: ticks until the delay of a sleeper is over

vars == <<state, ready, sleep_queue, wakeup_tick, preempt_pending, current,
          next, ticks, mode, pc, prev, curr, left>>

Levels == 0..MaxPriority

States == {"Free", "Ready", "Running", "Blocked", "Terminated", "Sleeping"}

Queued == UNION {Range(ready[p]) : p \in Levels}

-----------------------------------------------------------------------------
(* The ready queue.                                                        *)

CanPush(t) == t \notin Queued /\ Cardinality(Queued) < MaxTasks

\* faulty variant: at the front of the level
PushFront(t) == [ready EXCEPT ![Priority[t]] = <<t>> \o @]

Push(t) == [ready EXCEPT ![Priority[t]] = Append(@, t)]

IsHighest(rq, p) == rq[p] # <<>> /\ \A q \in Levels : q > p => rq[q] = <<>>

-----------------------------------------------------------------------------
(* Preemption tests.                                                       *)

CheckPreemptNeeded(st, p) ==
    current # NoTask /\ st[current] = "Running" /\ p > Priority[current]

HasHigherReady ==
    /\ current # NoTask
    /\ state[current] = "Running"
    /\ \E p \in Levels : p > Priority[current] /\ ready[p] # <<>>

-----------------------------------------------------------------------------
(***************************************************************************)
(* schedule_cpu_locked, started in task states st.  A running task keeps   *)
(* the CPU only when every ready task is below it; otherwise it goes to    *)
(* the back of its level and the first task of the highest level is taken. *)
(***************************************************************************)
ScheduleCpuLocked(st) ==
    LET running == current # NoTask /\ st[current] = "Running"
        keep    == running /\ \A q \in Levels :
                                ready[q] # <<>> => q < Priority[current]
        refused == running /\ ~CanPush(current)
        nothing == ~running /\ \A q \in Levels : ready[q] = <<>>
        st2     == IF running THEN [st EXCEPT ![current] = "Ready"] ELSE st
        rq      == IF running THEN Push(current) ELSE ready
    IN  /\ preempt_pending' = FALSE
        /\ IF keep \/ refused \/ nothing
           THEN next' = current /\ state' = st /\ ready' = ready
           ELSE \E p \in Levels :
                  /\ IsHighest(rq, p)
                  /\ next'  = Head(rq[p])
                  /\ ready' = [rq EXCEPT ![p] = Tail(@)]
                  /\ state' = [st2 EXCEPT ![Head(rq[p])] = "Running"]

Schedule == ScheduleCpuLocked(state)

ScheduleIfPreemptPending ==
    IF preempt_pending /\ HasHigherReady
    THEN Schedule
    ELSE preempt_pending' = FALSE /\ next' = current /\ UNCHANGED <<state, ready>>

-----------------------------------------------------------------------------
(***************************************************************************)
(* Making a task ready, from one of the places that do it.  The flag is    *)
(* assigned, not accumulated.                                              *)
(***************************************************************************)
MakeReady(t) ==
    /\ state' = [state EXCEPT ![t] = "Ready"]
    /\ ready' = Push(t)
    /\ preempt_pending' = CheckPreemptNeeded(state', Priority[t])

\* create_task_on_cpu for the slot t of the pool
CreateTaskOnCpu(t) ==
    /\ state[t] = "Free"
    /\ IF CanPush(t) THEN MakeReady(t)
                     ELSE UNCHANGED <<state, ready, preempt_pending>>

WakeBlockedTask(t) ==
    /\ state[t] = "Blocked"
    /\ IF CanPush(t) THEN MakeReady(t)
                     ELSE UNCHANGED <<state, ready, preempt_pending>>

\* block_current_task_irq_disabled
BlockCurrentTask ==
    /\ state[current] = "Running"
    /\ state' = [state EXCEPT ![current] = "Blocked"]

\* the critical section of delay(d)
DelayCurrentTask(d) ==
    /\ state' = [state EXCEPT ![current] = "Sleeping"]
    /\ wakeup_tick' = [wakeup_tick EXCEPT ![current] = (ticks + d) % TickMod]
    /\ sleep_queue' = <<current>> \o sleep_queue
    /\ left' = [left EXCEPT ![current] = IF d = 0 THEN 1 ELSE d]

-----------------------------------------------------------------------------
(***************************************************************************)
(* The timer interrupt: timer::tick() and the start of tick_update(), then *)
(* one ScanSleeper step for each iteration of its loop.  prev is null (0)  *)
(* until a task that is not due has been passed.                           *)
(***************************************************************************)
Tick ==
    /\ ticks' = (ticks + 1) % TickMod
    /\ left' = [t \in Task |-> IF state[t] = "Sleeping" /\ left[t] > 0
                           THEN left[t] - 1 ELSE left[t]]
    /\ prev' = 0
    /\ curr' = 1

\* faulty variants: due only after its tick; a comparison that ignores the wrap
DueLate(t) == ticks # wakeup_tick[t] /\ (ticks - wakeup_tick[t]) % TickMod < (TickMod - 1) \div 2
Due(t) == (ticks - wakeup_tick[t]) % TickMod < (TickMod - 1) \div 2

\* faulty variants: the list head is not advanced; the rest of the list is dropped
UnlinkedNotHead == IF prev = 0 THEN sleep_queue
                   ELSE SubSeq(sleep_queue, 1, prev)
                          \o SubSeq(sleep_queue, curr + 1, Len(sleep_queue))
UnlinkedNoRest == SubSeq(sleep_queue, 1, prev)

Unlinked == SubSeq(sleep_queue, 1, prev)
              \o SubSeq(sleep_queue, curr + 1, Len(sleep_queue))

PassSleeper ==
    /\ prev' = curr
    /\ curr' = curr + 1
    /\ UNCHANGED <<state, ready, preempt_pending, sleep_queue, wakeup_tick>>

WakeSleeper(t) ==
    IF CanPush(t)
    THEN /\ MakeReady(t)
         /\ sleep_queue' = Unlinked
         /\ wakeup_tick' = [wakeup_tick EXCEPT ![t] = 0]
         /\ curr' = prev + 1
         /\ prev' = prev
    ELSE /\ sleep_queue' = <<t>> \o Unlinked
         /\ wakeup_tick' = [wakeup_tick EXCEPT ![t] = ticks]
         /\ prev' = IF prev = 0 THEN 0 ELSE prev + 1
         /\ curr' = prev + 2
         /\ UNCHANGED <<state, ready, preempt_pending>>

ScanSleeper ==
    /\ curr <= Len(sleep_queue)
    /\ LET t == sleep_queue[curr]
       IN  IF Due(t) THEN WakeSleeper(t) ELSE PassSleeper

ScanDone == curr > Len(sleep_queue)

-----------------------------------------------------------------------------
(***************************************************************************)
(* init, init_system_tasks: the idle and the root task are created and     *)
(* queued, interrupts are off, and no task is current yet.                 *)
(***************************************************************************)
Init ==
    /\ state = [t \in Task |-> IF t \in {Idle, Root} THEN "Ready" ELSE "Free"]
    /\ ready = [p \in Levels |-> CASE p = Priority[Idle] -> <<Idle>>
                                [] p = Priority[Root] -> <<Root>>
                                [] OTHER -> <<>>]
    /\ sleep_queue = <<>>
    /\ wakeup_tick = [t \in Task |-> 0]
    /\ preempt_pending = FALSE
    /\ current = NoTask /\ next = NoTask
    /\ ticks = 0
    /\ mode = "boot"
    /\ pc = [t \in Task |-> "run"]
    /\ prev = 0 /\ curr = 1
    /\ left = [t \in Task |-> 0]

-----------------------------------------------------------------------------
(* Where tasks in states st stand in the ready queue rq and the sleep list. *)

ReadyInQueue(st, rq) ==
    \A p \in Levels :
        /\ IsInjective(rq[p])
        /\ Range(rq[p]) = {t \in Task : st[t] = "Ready" /\ Priority[t] = p}

SleepingInList(st, sq) ==
    /\ IsInjective(sq)
    /\ Range(sq) = {t \in Task : st[t] = "Sleeping"}

=============================================================================
