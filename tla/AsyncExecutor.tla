--------------------------- MODULE AsyncExecutor ---------------------------
(***************************************************************************)
(* The async executor of kernel/src/sched/async_rt.rs with its sleep slots *)
(* and the async side of Event in kernel/src/sched/wait.rs, on one CPU.    *)
(* The executor is a task that any interrupt or other task may preempt     *)
(* between two of its critical sections; a critical section, and the timer *)
(* interrupt as a whole, is one step.                                      *)
(*                                                                         *)
(* The futures are those the kernel spawns: heartbeat_task awaits          *)
(* sleep_ticks in a loop, demo_event_task and rx_counter_task await an     *)
(* event of their own in a loop.  A member of MayEnd may end instead.      *)
(***************************************************************************)
EXTENDS Integers, FiniteSets

CONSTANTS
    Slots,          \* MAX_ASYNC_TASKS; slots are numbered from 1
    Sleepers,       \* the slots whose future sleeps; the others listen
    MayEnd,         \* the slots whose future may end after an await
    NoTask,         \* NO_TASK
    SleepTicks,     \* the argument of sleep_ticks
    TickMod,        \* the number of values of the tick counter (2^32)
    MaxLag          \* ticks the executor may be late for a sleeper

ASSUME AsyncAssumption ==
    /\ Slots \in Nat \ {0} /\ NoTask \notin 1..Slots
    /\ Sleepers \subseteq 1..Slots /\ MayEnd \subseteq 1..Slots
    /\ SleepTicks \in Nat \ {0} /\ MaxLag \in Nat \ {0}
    /\ TickMod \in Nat /\ MaxLag < (TickMod - 1) \div 2
    /\ SleepTicks <= TickMod - ((TickMod - 1) \div 2)

Slot == 1..Slots
Listeners == Slot \ Sleepers

VARIABLES
    future,         \* "none", "held" in its slot, or "taken" out of it for polling
    ready,          \* AsyncSlot.ready
    sleep_slots,    \* Executor.sleep_slots: [task_idx, wake_tick], NoTask when free
    ticks,
    pc, idx,        \* where executor_main is; the slot of the loop of poll_once
    wake_tick,      \* SleepTicks.wake_tick of the sleep a future awaits
    registered,     \* SleepTicks.registered
    awaiting,       \* the future is inside an await
    signaled,       \* the event each listener awaits
    async_waiter,
    left,           \* history: ticks until the sleep is over
    missed          \* history: a wake-up found the future taken out

execVars == <<future, ready, pc, idx>>
futVars  == <<wake_tick, registered, awaiting, left>>
vars == <<execVars, sleep_slots, ticks, futVars, signaled, async_waiter, missed>>

FreeSleep == [task_idx |-> NoTask, wake_tick |-> 0]

Init ==
    /\ future = [i \in Slot |-> "none"]
    /\ ready = [i \in Slot |-> FALSE]
    /\ sleep_slots = [k \in Slot |-> FreeSleep]
    /\ ticks = 0
    /\ pc = "boot" /\ idx = 1
    /\ wake_tick = [i \in Sleepers |-> 0]
    /\ registered = [i \in Sleepers |-> FALSE]
    /\ awaiting = [i \in Slot |-> FALSE]
    /\ left = [i \in Sleepers |-> 0]
    /\ signaled = [i \in Listeners |-> FALSE]
    /\ async_waiter = [i \in Listeners |-> NoTask]
    /\ missed = [i \in Slot |-> FALSE]

Due(w) == (ticks - w) % TickMod < (TickMod - 1) \div 2

\* mark_ready for a set of slots: only a future that is in its slot is marked
MarkReady(S) ==
    /\ ready' = [i \in Slot |-> ready[i] \/ (i \in S /\ future[i] = "held")]
    /\ missed' = [i \in Slot |-> missed[i] \/ (i \in S /\ future[i] = "taken")]

-----------------------------------------------------------------------------
(* start_async_runtime: spawn takes the first free slot; then the executor *)
(* task is created.                                                        *)

Spawn(i) ==
    /\ pc = "boot"
    /\ future[i] = "none"
    /\ \A j \in Slot : j < i => future[j] # "none"
    /\ future' = [future EXCEPT ![i] = "held"]
    /\ ready' = [ready EXCEPT ![i] = TRUE]
    /\ UNCHANGED <<pc, idx, sleep_slots, ticks, futVars, signaled, async_waiter, missed>>

StartExecutor ==
    /\ pc = "boot"
    /\ pc' = "scan"
    /\ UNCHANGED <<future, ready, idx, sleep_slots, ticks, futVars, signaled,
                   async_waiter, missed>>

-----------------------------------------------------------------------------
(* poll_once                                                               *)

\* the first critical section of an iteration: skip the slot or take its future
PollPick ==
    /\ pc = "scan" /\ idx <= Slots
    /\ ready' = [ready EXCEPT ![idx] = FALSE]
    /\ IF ready[idx] /\ future[idx] = "held"
       THEN /\ future' = [future EXCEPT ![idx] = "taken"]
            /\ pc' = "poll"
            /\ UNCHANGED idx
       ELSE /\ idx' = idx + 1
            /\ UNCHANGED <<future, pc>>
    /\ UNCHANGED <<sleep_slots, ticks, futVars, signaled, async_waiter, missed>>

\* a future that awaits nothing calls sleep_ticks(...), or wait_async()
PollEnter ==
    /\ pc = "poll" /\ ~awaiting[idx]
    /\ awaiting' = [awaiting EXCEPT ![idx] = TRUE]
    /\ IF idx \in Sleepers
       THEN /\ wake_tick' = [wake_tick EXCEPT ![idx] = (ticks + SleepTicks) % TickMod]
            /\ registered' = [registered EXCEPT ![idx] = FALSE]
            /\ left' = [left EXCEPT ![idx] = SleepTicks]
       ELSE UNCHANGED <<wake_tick, registered, left>>
    /\ UNCHANGED <<execVars, sleep_slots, ticks, signaled, async_waiter, missed>>

\* the await is over: the future ends, or goes on to its next await
AwaitOver ==
    /\ awaiting' = [awaiting EXCEPT ![idx] = FALSE]
    /\ \/ pc' = "poll"
       \/ idx \in MayEnd /\ pc' = "ended"

\* SleepTicks::poll up to the lock
SleepPoll ==
    /\ pc = "poll" /\ idx \in Sleepers /\ awaiting[idx]
    /\ IF Due(wake_tick[idx])
       THEN AwaitOver
       ELSE /\ pc' = IF registered[idx] THEN "suspended" ELSE "register"
            /\ UNCHANGED awaiting
    /\ UNCHANGED <<future, ready, idx, sleep_slots, ticks, wake_tick, registered, left,
                   signaled, async_waiter, missed>>

\* the slot register_sleep(idx, ...) uses: its own, else the first free one
SleepSlotOf(k) ==
    LET own  == {j \in Slot : sleep_slots[j].task_idx = idx}
        free == {j \in Slot : sleep_slots[j].task_idx = NoTask}
        from == IF own # {} THEN own ELSE free
    IN  k \in from /\ \A j \in from : k <= j

RegisterSleep ==
    /\ pc = "register"
    /\ IF \E k \in Slot : SleepSlotOf(k)
       THEN /\ sleep_slots' = [k \in Slot |->
                 IF SleepSlotOf(k)
                 THEN [task_idx |-> idx, wake_tick |-> wake_tick[idx]]
                 ELSE sleep_slots[k]]
            /\ UNCHANGED <<ready, missed>>
       ELSE MarkReady({idx}) /\ UNCHANGED sleep_slots
    /\ registered' = [registered EXCEPT ![idx] = TRUE]
    /\ pc' = "suspended"
    /\ UNCHANGED <<future, idx, ticks, wake_tick, awaiting, left, signaled, async_waiter>>

\* EventWait::poll
EventPoll ==
    /\ pc = "poll" /\ idx \in Listeners /\ awaiting[idx]
    /\ IF signaled[idx]
       THEN /\ AwaitOver
            /\ signaled' = [signaled EXCEPT ![idx] = FALSE]
            /\ async_waiter' = [async_waiter EXCEPT ![idx] = IF @ = idx THEN NoTask ELSE @]
       ELSE /\ pc' = "suspended"
            /\ async_waiter' = [async_waiter EXCEPT ![idx] = IF @ = NoTask THEN idx ELSE @]
            /\ UNCHANGED <<awaiting, signaled>>
    /\ UNCHANGED <<future, ready, idx, sleep_slots, ticks, wake_tick, registered, left, missed>>

\* Poll::Pending: the future goes back to its slot
PollPending ==
    /\ pc = "suspended"
    /\ future' = [future EXCEPT ![idx] = "held"]
    /\ pc' = "scan" /\ idx' = idx + 1
    /\ UNCHANGED <<ready, sleep_slots, ticks, futVars, signaled, async_waiter, missed>>

\* Poll::Ready: the slot is free again
PollReady ==
    /\ pc = "ended"
    /\ future' = [future EXCEPT ![idx] = "none"]
    /\ ready' = [ready EXCEPT ![idx] = FALSE]
    /\ sleep_slots' = [k \in Slot |-> IF sleep_slots[k].task_idx = idx
                                      THEN FreeSleep ELSE sleep_slots[k]]
    /\ pc' = "scan" /\ idx' = idx + 1
    /\ UNCHANGED <<ticks, futVars, signaled, async_waiter, missed>>

\* executor_main: delay(1); the tick wakes the executor task again
PollDone ==
    /\ pc = "scan" /\ idx > Slots
    /\ pc' = "delay" /\ idx' = 1
    /\ UNCHANGED <<future, ready, sleep_slots, ticks, futVars, signaled, async_waiter, missed>>

-----------------------------------------------------------------------------
(* Interrupts and other tasks.                                             *)

\* a sleeper that still waits for its wake-up or is being polled
Active(i) == i \in Sleepers /\ awaiting[i] /\ ~missed[i]

\* the bound on how late the executor may be; the tick that ends its delay(1)
\* is always to spare
WithinLag == \A i \in Sleepers : Active(i) => left[i] > IF pc = "delay" THEN -MaxLag ELSE 1 - MaxLag

(***************************************************************************)
(* The timer interrupt: tick(), and async_rt::tick_update() with the new   *)
(* count; the executor's delay(1) ends.                                    *)
(***************************************************************************)
Tick ==
    LET woken == {k \in Slot : /\ sleep_slots[k].task_idx # NoTask
                               /\ (ticks + 1 - sleep_slots[k].wake_tick) % TickMod
                                     < (TickMod - 1) \div 2}
    IN  /\ pc # "boot"
        /\ WithinLag
        /\ ticks' = (ticks + 1) % TickMod
        /\ left' = [i \in Sleepers |-> IF Active(i) THEN left[i] - 1 ELSE left[i]]
        /\ sleep_slots' = [k \in Slot |-> IF k \in woken THEN FreeSleep ELSE sleep_slots[k]]
        /\ MarkReady({sleep_slots[k].task_idx : k \in woken})
        /\ pc' = IF pc = "delay" THEN "scan" ELSE pc
        /\ UNCHANGED <<future, idx, wake_tick, registered, awaiting, signaled, async_waiter>>

\* faulty variant: sets the flag and leaves the waiter alone
SignalNoWake(e) ==
    /\ pc # "boot"
    /\ signaled' = [signaled EXCEPT ![e] = TRUE]
    /\ UNCHANGED <<execVars, sleep_slots, ticks, futVars, async_waiter, missed>>

\* Event::signal, from an interrupt handler or another task
Signal(e) ==
    /\ pc # "boot"
    /\ signaled' = [signaled EXCEPT ![e] = TRUE]
    /\ async_waiter' = [async_waiter EXCEPT ![e] = NoTask]
    /\ MarkReady({async_waiter[e]})
    /\ UNCHANGED <<future, pc, idx, sleep_slots, ticks, futVars>>

Executor ==
    \/ StartExecutor \/ PollPick \/ PollEnter \/ SleepPoll \/ RegisterSleep
    \/ EventPoll \/ PollPending \/ PollReady \/ PollDone

Next == Executor \/ (\E i \in Slot : Spawn(i)) \/ Tick \/ (\E e \in Listeners : Signal(e))

Spec == Init /\ [][Next]_vars

(***************************************************************************)
(* The executor has priority 1 and no task above it, so round robin gives  *)
(* it the CPU again and again; the timer keeps ticking.                    *)
(***************************************************************************)
LiveSpec == Spec /\ WF_vars(Executor) /\ WF_vars(Tick)

-----------------------------------------------------------------------------
\* a future that will not be polled again unless something marks it ready
Idle(i) == future[i] = "held" /\ ~ready[i]

\* A round of poll_once ends: it does not happen for ever that an await is over
\* each time it is polled, which would keep its future in its loop.
RoundsEnd == []<>(pc = "delay")

(***************************************************************************)
(* No future waits for ever, if rounds end and unless a wake-up of it was  *)
(* dropped: the listener of an event consumes its signal, and a sleeper    *)
(* resumes.  A slot that was never spawned, or whose future has ended,     *)
(* listens to nothing.  The one wake-up the code may drop is one that      *)
(* comes while the future is out of its slot (mark_ready).                 *)
(***************************************************************************)
FuturesResume ==
    RoundsEnd =>
      /\ \A e \in Listeners :
           signaled[e] ~> ~signaled[e] \/ missed[e] \/ future[e] = "none"
      /\ \A i \in Sleepers : awaiting[i] ~> ~awaiting[i] \/ missed[i]

=============================================================================
