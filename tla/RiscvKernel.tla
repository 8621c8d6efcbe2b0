---------------------------- MODULE RiscvKernel ----------------------------
(***************************************************************************)
(* The scheduler under the trap handler of arch/src/riscv/trap.rs, on one  *)
(* hart.  Every scheduling decision is taken inside a trap, with interrupts *)
(* off, and trap.S makes it effective (CURRENT_TCB := NEXT_TCB) before the *)
(* trap returns.  Tasks run with interrupts on, so that a timer or an      *)
(* external interrupt may come between any two of their steps; a critical  *)
(* section of a task is one step.                                          *)
(*                                                                         *)
(* mode: "boot" before the first task, "task" while the current task       *)
(* executes, "tick" and "irq" inside a timer or an external interrupt (or  *)
(* a system call that does not reschedule), "panic" after create_task      *)
(* found TCB_POOL empty.                                                   *)
(*                                                                         *)
(* pc: "run" in ordinary code; "check" before yield_if_preempt_pending();  *)
(* "yield" between the end of a critical section that asks for a switch    *)
(* and the ebreak of yield_task().                                         *)
(***************************************************************************)
EXTENDS Scheduler

\* trap.S after rust_trap_handler returns: switch to NEXT_TCB
TrapExit == current' = next' /\ mode' = "task"

\* faulty variant: the idle task makes calls
RunsEvenIdle(t) == mode = "task" /\ current = t /\ pc[t] = "run"

\* The current task executes ordinary code; the idle task makes no calls.
Runs(t) == mode = "task" /\ current = t /\ pc[t] = "run" /\ t # Idle

\* boot(): schedule() and start_first_task()
Start ==
    /\ mode = "boot"
    /\ Schedule
    /\ TrapExit
    /\ UNCHANGED <<sleep_queue, wakeup_tick, ticks, pc, prev, curr, left>>

-----------------------------------------------------------------------------
(* Calls of the current task.                                              *)

CreateTask(t, n) ==
    /\ Runs(t)
    /\ CreateTaskOnCpu(n)
    /\ pc' = [pc EXCEPT ![t] = IF CanPush(n) THEN "check" ELSE "run"]
    /\ UNCHANGED <<sleep_queue, wakeup_tick, current, next, ticks, mode, prev, curr, left>>

\* TCB_POOL.alloc(...).expect("No more TCB")
PoolExhausted(t) ==
    /\ Runs(t)
    /\ \A n \in Task : state[n] # "Free"
    /\ mode' = "panic"
    /\ UNCHANGED <<state, ready, sleep_queue, wakeup_tick, preempt_pending, current,
                   next, ticks, pc, prev, curr, left>>

Delay(t, d) ==
    /\ Runs(t)
    /\ DelayCurrentTask(d)
    /\ pc' = [pc EXCEPT ![t] = "yield"]
    /\ UNCHANGED <<ready, preempt_pending, current, next, ticks, mode, prev, curr>>

\* WaitQueue::wait, Event::wait, Semaphore::wait: the caller blocks
Block(t) ==
    /\ Runs(t)
    /\ BlockCurrentTask
    /\ pc' = [pc EXCEPT ![t] = "yield"]
    /\ UNCHANGED <<ready, sleep_queue, wakeup_tick, preempt_pending, current, next,
                   ticks, mode, prev, curr, left>>

\* wake_blocked_task(w); inside a caller's critical section (locked), as in
\* Event::signal, can_preempt_now() is false
Wake(t, w, locked) ==
    /\ Runs(t)
    /\ WakeBlockedTask(w)
    /\ pc' = [pc EXCEPT ![t] = IF CanPush(w) /\ ~locked THEN "check" ELSE "run"]
    /\ UNCHANGED <<sleep_queue, wakeup_tick, current, next, ticks, mode, prev, curr, left>>

YieldIfPreemptPending(t) ==
    /\ mode = "task" /\ current = t /\ pc[t] = "check"
    /\ pc' = [pc EXCEPT ![t] = IF preempt_pending /\ HasHigherReady THEN "yield" ELSE "run"]
    /\ UNCHANGED <<state, ready, sleep_queue, wakeup_tick, preempt_pending, current,
                   next, ticks, mode, prev, curr, left>>

-----------------------------------------------------------------------------
(* Traps of the current task.                                              *)

\* ebreak of yield_task(), or the yield system call from ordinary code
YieldTrap(t) ==
    /\ mode = "task" /\ current = t
    /\ pc[t] = "yield" \/ Runs(t)
    /\ Schedule
    /\ TrapExit
    /\ pc' = [pc EXCEPT ![t] = "run"]
    /\ UNCHANGED <<sleep_queue, wakeup_tick, ticks, prev, curr, left>>

\* the exit system call: terminate_current()
ExitTrap(t) ==
    /\ Runs(t)
    /\ ScheduleCpuLocked([state EXCEPT ![t] = "Terminated"])
    /\ TrapExit
    /\ UNCHANGED <<sleep_queue, wakeup_tick, ticks, pc, prev, curr, left>>

-----------------------------------------------------------------------------
(* Interrupts.                                                             *)

TimerTrap ==
    /\ mode = "task"
    /\ mode' = "tick"
    /\ Tick
    /\ UNCHANGED <<state, ready, sleep_queue, wakeup_tick, preempt_pending, current,
                   next, pc>>

TimerScan ==
    /\ mode = "tick"
    /\ ScanSleeper
    /\ UNCHANGED <<current, next, ticks, mode, pc, left>>

\* faulty variant: reschedule only when the preemption flag asks for it
TimerExitIfPending ==
    /\ mode = "tick"
    /\ ScanDone
    /\ ScheduleIfPreemptPending
    /\ TrapExit
    /\ UNCHANGED <<sleep_queue, wakeup_tick, ticks, pc, prev, curr, left>>

TimerExit ==
    /\ mode = "tick"
    /\ ScanDone
    /\ Schedule
    /\ TrapExit
    /\ UNCHANGED <<sleep_queue, wakeup_tick, ticks, pc, prev, curr, left>>

\* an external interrupt, or a read or write system call
ExternalTrap ==
    /\ mode = "task"
    /\ mode' = "irq"
    /\ UNCHANGED <<state, ready, sleep_queue, wakeup_tick, preempt_pending, current,
                   next, ticks, pc, prev, curr, left>>

\* the handler wakes a task; it is in a critical section, so it does not yield
HandlerWake(w) ==
    /\ mode = "irq"
    /\ WakeBlockedTask(w)
    /\ UNCHANGED <<sleep_queue, wakeup_tick, current, next, ticks, mode, pc, prev, curr, left>>

ExternalExit ==
    /\ mode = "irq"
    /\ ScheduleIfPreemptPending
    /\ TrapExit
    /\ UNCHANGED <<sleep_queue, wakeup_tick, ticks, pc, prev, curr, left>>

\* the panic handler never returns
Halted == mode = "panic" /\ UNCHANGED vars

TaskStep(t) ==
    \/ \E n \in Task : CreateTask(t, n)
    \/ PoolExhausted(t)
    \/ \E d \in Delays : Delay(t, d)
    \/ Block(t)
    \/ \E w \in Task, locked \in BOOLEAN : Wake(t, w, locked)
    \/ YieldIfPreemptPending(t)
    \/ YieldTrap(t)
    \/ ExitTrap(t)

Next ==
    \/ Start
    \/ \E t \in Task : TaskStep(t)
    \/ TimerTrap \/ TimerScan \/ TimerExit
    \/ ExternalTrap \/ (\E w \in Task : HandlerWake(w)) \/ ExternalExit
    \/ Halted

Spec == Init /\ [][Next]_vars

(***************************************************************************)
(* A handler runs to its end, a task that has decided to yield reaches its *)
(* ebreak, and the timer interrupt, which stays pending until it is taken, *)
(* is not kept out for ever by other interrupts.                           *)
(***************************************************************************)
Fairness ==
    /\ WF_vars(Start)
    /\ WF_vars(TimerScan \/ TimerExit \/ ExternalExit)
    /\ SF_vars(TimerTrap)

LiveSpec == Spec /\ Fairness

-----------------------------------------------------------------------------
\* The types of the variables; the scan of the sleep list has passed prev.
TypeOK ==
    /\ state \in [Task -> States]
    /\ ready \in [Levels -> Seq(Task)]
    /\ sleep_queue \in Seq(Task)
    /\ wakeup_tick \in [Task -> 0..(TickMod - 1)]
    /\ preempt_pending \in BOOLEAN
    /\ current \in Task \cup {NoTask}
    /\ next \in Task \cup {NoTask}
    /\ ticks \in 0..(TickMod - 1)
    /\ mode \in {"boot", "task", "tick", "irq", "panic"}
    /\ pc \in [Task -> {"run", "check", "yield"}]
    /\ prev \in Nat /\ curr \in Nat \ {0} /\ prev < curr
    /\ left \in [Task -> Int]

(***************************************************************************)
(* No task is ever lost or held twice: a Ready task stands exactly once in *)
(* the queue of its own level, a Sleeping one exactly once in the sleep    *)
(* list, no other task stands in either, and only the current task is      *)
(* Running.  The two lists share TaskControlBlock.next, so that a task in  *)
(* both, or twice in one, would corrupt them.                              *)
(***************************************************************************)
OnePlace ==
    /\ ReadyInQueue(state, ready)
    /\ SleepingInList(state, sleep_queue)
    /\ \A t \in Task : state[t] = "Running" => t = current

(***************************************************************************)
(* delay(), wait() and yield_task() come back to their caller only when    *)
(* the scheduler has made it Running: in ordinary code the current task is *)
(* Running.  schedule_cpu_locked resumes a task in whatever state it is    *)
(* when the ready queue is empty; this never happens, because the idle     *)
(* task is always ready or running.                                        *)
(***************************************************************************)
RunsOnlyRunning ==
    mode = "task" /\ pc[current] # "yield" => state[current] = "Running"

(***************************************************************************)
(* The inductive invariant behind OnePlace and RunsOnlyRunning: the idle   *)
(* task never leaves the CPU for anything but the ready queue, a current   *)
(* task that is not Running is on its way to its ebreak, and the scan of   *)
(* the sleep list is one element ahead of prev.                            *)
(***************************************************************************)
KernelInv ==
    /\ TypeOK
    /\ OnePlace
    /\ state[Idle] \in {"Ready", "Running"} /\ pc[Idle] = "run"
    /\ IF mode = "boot"
       THEN current = NoTask
       ELSE current \in Task /\ (pc[current] # "yield" => state[current] = "Running")
    /\ mode = "tick" => prev = curr - 1 /\ curr <= Len(sleep_queue) + 1

(***************************************************************************)
(* A task sleeps for the ticks it asked for, however the tick counter has  *)
(* wrapped: tick_update wakes no sleeper before its delay is over, and     *)
(* leaves none asleep that has used it up when the interrupt returns.      *)
(***************************************************************************)
SleepsAsAsked ==
    [][\A t \in Task :
         /\ state[t] = "Sleeping" /\ state'[t] # "Sleeping" => left[t] <= 0
         /\ state'[t] = "Sleeping" /\ mode' # "tick" => left'[t] > 0]_vars

(***************************************************************************)
(* After a timer interrupt the CPU runs a task that no ready task exceeds  *)
(* in priority, whatever was lost or deferred before it.                   *)
(***************************************************************************)
TickRunsHighest ==
    [][mode = "tick" /\ mode' = "task" =>
         /\ state'[current'] = "Running"
         /\ \A t \in Task : state'[t] = "Ready" => Priority[t] <= Priority[current']]_vars

(***************************************************************************)
(* What ready_queue.rs says of the highest level ("preempts all normal     *)
(* tasks"): when an interrupt handler that may have woken tasks returns to *)
(* a running task, that task is of the highest level or no task of that    *)
(* level is ready.                                                         *)
(***************************************************************************)
RealtimePreempts ==
    [][mode = "irq" /\ mode' = "task" /\ state'[current'] = "Running" =>
         \/ Priority[current'] = MaxPriority
         \/ \A t \in Task : state'[t] = "Ready" => Priority[t] < MaxPriority]_vars

(***************************************************************************)
(* A sleeping task is eventually woken (unless the kernel panics).         *)
(***************************************************************************)
SleepersWake ==
    \A t \in Task : state[t] = "Sleeping" ~> state[t] # "Sleeping" \/ mode = "panic"

(***************************************************************************)
(* Round robin at the highest level: a ready task that no task exceeds in  *)
(* priority eventually runs, with any number of tasks on its level that    *)
(* never yield.                                                            *)
(***************************************************************************)
TopLevelRuns ==
    \A t \in {u \in Task : \A v \in Task : Priority[v] <= Priority[u]} :
        state[t] = "Ready" ~> state[t] = "Running" \/ mode = "panic"

=============================================================================
