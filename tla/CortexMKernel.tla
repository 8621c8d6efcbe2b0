--------------------------- MODULE CortexMKernel ---------------------------
(***************************************************************************)
(* The scheduler under the exception handlers of arch/src/arm/cortex_m.    *)
(* Here the scheduling decision of a task that yields is taken in thread   *)
(* mode: yield_task() calls schedule(), which selects NEXT_TCB and enables *)
(* interrupts again, and only then does yield_cpu() set PendSV pending.    *)
(* The calls of tasks and the scheduler are those of RiscvKernel; there    *)
(* are no system calls.                                                    *)
(*                                                                         *)
(* All exceptions have the same priority: a handler is not interrupted,    *)
(* and PendSV, with the lowest number, follows before any other handler.   *)
(* A handler that sets it pending therefore ends in the switch (TrapExit). *)
(*                                                                         *)
(* pc = "pend": schedule() has returned true, yield_cpu() comes next.      *)
(***************************************************************************)
EXTENDS RiscvKernel

CONSTANT WindowInterrupts   \* may an interrupt come while pc = "pend"?

ASSUME WindowAssumption == WindowInterrupts \in BOOLEAN

Interruptible == mode = "task" /\ (pc[current] = "pend" => WindowInterrupts)

-----------------------------------------------------------------------------
\* schedule() in yield_task(), up to its enable_irq()
YieldTask(t) ==
    /\ mode = "task" /\ current = t
    /\ pc[t] = "yield" \/ Runs(t)
    /\ Schedule
    /\ pc' = [pc EXCEPT ![t] = IF next' # t THEN "pend" ELSE "run"]
    /\ UNCHANGED <<sleep_queue, wakeup_tick, current, ticks, mode, prev, curr, left>>

\* faulty variant: the handler does not store CURRENT_TCB
PendSvNoStore(t) ==
    /\ mode = "task" /\ current = t /\ pc[t] = "pend"
    /\ pc' = [pc EXCEPT ![t] = "run"]
    /\ UNCHANGED <<state, ready, sleep_queue, wakeup_tick, preempt_pending, current,
                   next, ticks, mode, prev, curr, left>>

\* yield_cpu() and the PendSV handler it starts
PendSv(t) ==
    /\ mode = "task" /\ current = t /\ pc[t] = "pend"
    /\ current' = next
    /\ pc' = [pc EXCEPT ![t] = "run"]
    /\ UNCHANGED <<state, ready, sleep_queue, wakeup_tick, preempt_pending,
                   next, ticks, mode, prev, curr, left>>

SysTick == Interruptible /\ TimerTrap

Irq == Interruptible /\ ExternalTrap

ThreadStep(t) ==
    \/ \E n \in Task : CreateTask(t, n)
    \/ PoolExhausted(t)
    \/ \E d \in Delays : Delay(t, d)
    \/ Block(t)
    \/ \E w \in Task, locked \in BOOLEAN : Wake(t, w, locked)
    \/ YieldIfPreemptPending(t)
    \/ YieldTask(t)
    \/ PendSv(t)

CmNext ==
    \/ Start
    \/ \E t \in Task : ThreadStep(t)
    \/ SysTick \/ TimerScan \/ TimerExit
    \/ Irq \/ (\E w \in Task : HandlerWake(w)) \/ ExternalExit
    \/ Halted

CmSpec == Init /\ [][CmNext]_vars

-----------------------------------------------------------------------------
(***************************************************************************)
(* As OnePlace of RiscvKernel: no task is lost or held twice.  The Running *)
(* task is the current one or, between schedule() and PendSV, the one      *)
(* selected.                                                               *)
(***************************************************************************)
CmOnePlace ==
    /\ ReadyInQueue(state, ready)
    /\ SleepingInList(state, sleep_queue)
    /\ \A t \in Task : state[t] = "Running" =>
           t = IF pc[current] = "pend" THEN next ELSE current

(***************************************************************************)
(* What the comment in yield_task() says of the call of yield_cpu():       *)
(* "Cortex-M reaches here after NEXT_TCB has already been selected above." *)
(* When the call is reached, NEXT_TCB is the task schedule() selected, the *)
(* one that is Running.                                                    *)
(***************************************************************************)
SelectedIsNext ==
    mode = "task" /\ pc[current] = "pend" =>
        \A t \in Task : state[t] = "Running" <=> t = next

=============================================================================
