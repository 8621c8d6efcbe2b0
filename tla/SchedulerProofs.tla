-------------------------- MODULE SchedulerProofs --------------------------
(***************************************************************************)
(* Proofs about RiscvKernel, for every set of tasks, assignment of         *)
(* priorities and tick counter.                                            *)
(***************************************************************************)
EXTENDS RiscvKernel, DistinctSequences, FiniteSetTheorems, TLAPS

-----------------------------------------------------------------------------
(* The ready queue.                                                        *)

\* ReadyQueue::push never refuses a task that is not Ready yet: there are no
\* more tasks than the queue has room for, and this one is not in it.
LEMMA PushAllowed ==
    ASSUME NEW STATE st, ReadyInQueue(st, ready), NEW t \in Task, st[t] # "Ready"
    PROVE  CanPush(t)
<1>1. Queued \subseteq Task \ {t}
  BY DEF Queued, ReadyInQueue
<1>2. IsFiniteSet(Task) /\ Cardinality(Task) \in Nat
  BY SchedulerAssumption, FS_CardinalityType
<1>3. IsFiniteSet(Task \ {t}) /\ Cardinality(Task \ {t}) = Cardinality(Task) - 1
  BY <1>2, FS_RemoveElement
<1>4. Cardinality(Queued) \in Nat /\ Cardinality(Queued) <= Cardinality(Task \ {t})
  BY <1>1, <1>3, FS_Subset, FS_CardinalityType
<1>5. Cardinality(Queued) < MaxTasks
  BY <1>2, <1>3, <1>4, SchedulerAssumption
<1> QED
  BY <1>1, <1>5 DEF CanPush

\* ReadyQueue::push.
LEMMA PushKeepsQueue ==
    ASSUME NEW STATE st, st \in [Task -> States], ready \in [Levels -> Seq(Task)],
           ReadyInQueue(st, ready), NEW t \in Task, st[t] # "Ready"
    PROVE  /\ Push(t) \in [Levels -> Seq(Task)]
           /\ ReadyInQueue([st EXCEPT ![t] = "Ready"], Push(t))
<1> DEFINE q == ready[Priority[t]]
<1>1. Priority[t] \in Levels
  BY SchedulerAssumption DEF Levels
<1>2. q \in Seq(Task) /\ IsInjective(q) /\ t \notin Range(q)
  BY <1>1 DEF ReadyInQueue
<1>3. /\ Append(q, t) \in Seq(Task)
      /\ Range(Append(q, t)) = Range(q) \cup {t}
      /\ IsInjective(Append(q, t))
  BY <1>2, AppendDistinct
<1>4. Push(t) \in [Levels -> Seq(Task)]
  BY <1>1, <1>3 DEF Push
<1>5. ASSUME NEW p \in Levels
      PROVE  /\ IsInjective(Push(t)[p])
             /\ Range(Push(t)[p])
                  = {u \in Task : [st EXCEPT ![t] = "Ready"][u] = "Ready" /\ Priority[u] = p}
  <2>1. CASE p = Priority[t]
    BY <1>1, <1>3, <2>1 DEF Push, ReadyInQueue, States
  <2>2. CASE p # Priority[t]
    BY <1>1, <2>2 DEF Push, ReadyInQueue, States
  <2> QED
    BY <2>1, <2>2
<1> QED
  BY <1>4, <1>5 DEF ReadyInQueue

\* The level of a Ready task is not empty.
LEMMA ReadyLevel ==
    ASSUME NEW st, NEW rq, ReadyInQueue(st, rq), NEW t \in Task, st[t] = "Ready"
    PROVE  Priority[t] \in Levels /\ rq[Priority[t]] # <<>>
<1>1. Priority[t] \in Levels
  BY SchedulerAssumption DEF Levels
<1>2. t \in Range(rq[Priority[t]])
  BY <1>1 DEF ReadyInQueue
<1> QED
  BY <1>1, <1>2 DEF Range

\* ReadyQueue::pop_highest; the task taken becomes Running.
LEMMA PopKeepsQueue ==
    ASSUME NEW st, st \in [Task -> States], NEW rq \in [Levels -> Seq(Task)],
           ReadyInQueue(st, rq), NEW p \in Levels, rq[p] # <<>>
    PROVE  /\ Head(rq[p]) \in Task
           /\ st[Head(rq[p])] = "Ready" /\ Priority[Head(rq[p])] = p
           /\ [rq EXCEPT ![p] = Tail(@)] \in [Levels -> Seq(Task)]
           /\ ReadyInQueue([st EXCEPT ![Head(rq[p])] = "Running"], [rq EXCEPT ![p] = Tail(@)])
<1> DEFINE h == Head(rq[p])
           st2 == [st EXCEPT ![h] = "Running"]
           rq2 == [rq EXCEPT ![p] = Tail(@)]
<1>1. rq[p] \in Seq(Task) /\ IsInjective(rq[p])
  BY DEF ReadyInQueue
<1>2. /\ Tail(rq[p]) \in Seq(Task)
      /\ h \in Range(rq[p])
      /\ Range(Tail(rq[p])) = Range(rq[p]) \ {h}
      /\ IsInjective(Tail(rq[p]))
  BY <1>1, TailDistinct
<1>3. h \in Task /\ st[h] = "Ready" /\ Priority[h] = p
  BY <1>2 DEF ReadyInQueue
<1>4. rq2 \in [Levels -> Seq(Task)]
  BY <1>2
<1> HIDE DEF h
<1>5. ASSUME NEW q \in Levels
      PROVE  /\ IsInjective(rq2[q])
             /\ Range(rq2[q]) = {u \in Task : st2[u] = "Ready" /\ Priority[u] = q}
  <2>1. CASE q = p
    BY <1>2, <1>3, <2>1 DEF ReadyInQueue, States
  <2>2. CASE q # p
    BY <1>3, <2>2 DEF ReadyInQueue, States
  <2> QED
    BY <2>1, <2>2
<1> QED
  BY <1>3, <1>4, <1>5 DEF ReadyInQueue, h

-----------------------------------------------------------------------------
(* Scheduling.                                                             *)

\* What schedule_cpu_locked is called with: tasks in states st.
SchedulePre(st) ==
    /\ st \in [Task -> States]
    /\ ready \in [Levels -> Seq(Task)]
    /\ current \in Task \cup {NoTask}
    /\ ReadyInQueue(st, ready)
    /\ \A t \in Task : st[t] = "Running" => t = current
    /\ st[Idle] \in {"Ready", "Running"}

\* The task it selects is Running, no other is, and no Ready task exceeds it; the queue still holds the
\* Ready tasks; a task that was neither Ready nor Running is as it was.
LEMMA ScheduleSelects ==
    ASSUME NEW STATE st, SchedulePre(st), ScheduleCpuLocked(st)
    PROVE  /\ state' \in [Task -> States]
           /\ ready' \in [Levels -> Seq(Task)]
           /\ preempt_pending' = FALSE
           /\ next' \in Task
           /\ ReadyInQueue(state', ready')
           /\ \A t \in Task : state'[t] = "Running" <=> t = next'
           /\ \A t \in Task : st[t] \in {"Ready", "Running"} <=> state'[t] \in {"Ready", "Running"}
           /\ \A t \in Task : st[t] \notin {"Ready", "Running"} => state'[t] = st[t]
           /\ \A t \in Task : state'[t] = "Ready" => Priority[t] <= Priority[next']
<1> USE DEF SchedulePre
<1> DEFINE running == current # NoTask /\ st[current] = "Running"
           keep    == running /\ \A q \in Levels : ready[q] # <<>> => q < Priority[current]
           refused == running /\ ~CanPush(current)
           nothing == ~running /\ \A q \in Levels : ready[q] = <<>>
           st2     == IF running THEN [st EXCEPT ![current] = "Ready"] ELSE st
           rq      == IF running THEN Push(current) ELSE ready
<1>1. /\ preempt_pending' = FALSE
      /\ IF keep \/ refused \/ nothing
         THEN next' = current /\ state' = st /\ ready' = ready
         ELSE \E p \in Levels :
                /\ IsHighest(rq, p)
                /\ next'  = Head(rq[p])
                /\ ready' = [rq EXCEPT ![p] = Tail(@)]
                /\ state' = [st2 EXCEPT ![Head(rq[p])] = "Running"]
  BY DEF ScheduleCpuLocked
<1>2. running => current \in Task
  OBVIOUS
<1>3. ~refused
  BY <1>2, PushAllowed
<1>4. ~nothing
  <2>1. SUFFICES ASSUME ~running PROVE \E q \in Levels : ready[q] # <<>>
    OBVIOUS
  <2>2. Idle \in Task /\ Priority[Idle] \in Levels /\ NoTask \notin Task
    BY SchedulerAssumption DEF Levels
  <2>3. st[Idle] = "Ready"
    BY <2>1, <2>2
  <2>4. Idle \in Range(ready[Priority[Idle]])
    BY <2>2, <2>3 DEF ReadyInQueue
  <2>5. ready[Priority[Idle]] # <<>>
    BY <2>4 DEF Range
  <2> QED
    BY <2>2, <2>5
<1>5. CASE keep
  <2>1. next' = current /\ state' = st /\ ready' = ready
    BY <1>1, <1>5
  <2>2. ASSUME NEW t \in Task, state'[t] = "Ready" PROVE Priority[t] <= Priority[next']
    <3>1. Priority[t] \in Levels /\ ready[Priority[t]] # <<>>
      BY <2>1, <2>2, ReadyLevel
    <3> QED
      BY <1>2, <1>5, <2>1, <3>1, SchedulerAssumption DEF Levels
  <2> QED
    BY <1>1, <1>2, <1>5, <2>1, <2>2
<1>6. CASE ~keep
  <2>1. PICK p \in Levels :
           /\ IsHighest(rq, p)
           /\ next'  = Head(rq[p])
           /\ ready' = [rq EXCEPT ![p] = Tail(@)]
           /\ state' = [st2 EXCEPT ![Head(rq[p])] = "Running"]
    BY <1>1, <1>3, <1>4, <1>6
  <2>2. /\ st2 \in [Task -> States] /\ rq \in [Levels -> Seq(Task)]
        /\ ReadyInQueue(st2, rq)
        /\ \A t \in Task : st2[t] # "Running"
        /\ \A t \in Task : st[t] \in {"Ready", "Running"} <=> st2[t] \in {"Ready", "Running"}
        /\ \A t \in Task : st[t] \notin {"Ready", "Running"} => st2[t] = st[t]
    <3>1. CASE running
      <4>1. st[current] = "Running" /\ current \in Task
        BY <1>2, <3>1
      <4>2. /\ Push(current) \in [Levels -> Seq(Task)]
            /\ ReadyInQueue([st EXCEPT ![current] = "Ready"], Push(current))
        BY <4>1, PushKeepsQueue
      <4> QED
        BY <3>1, <4>1, <4>2 DEF States
    <3>2. CASE ~running
      BY <3>2, SchedulerAssumption
    <3> QED
      BY <3>1, <3>2
  <2> HIDE DEF running, keep, refused, nothing, st2, rq
  <2>3. rq[p] # <<>>
    BY <2>1 DEF IsHighest
  <2>4. /\ Head(rq[p]) \in Task
        /\ st2[Head(rq[p])] = "Ready" /\ Priority[Head(rq[p])] = p
        /\ ready' \in [Levels -> Seq(Task)]
        /\ ReadyInQueue(state', ready')
    BY <2>1, <2>2, <2>3, PopKeepsQueue
  <2>5. ASSUME NEW t \in Task, state'[t] = "Ready" PROVE Priority[t] <= Priority[next']
    <3>1. st2[t] = "Ready"
      BY <2>1, <2>2, <2>4, <2>5
    <3>2. Priority[t] \in Levels /\ rq[Priority[t]] # <<>>
      BY <2>2, <3>1, ReadyLevel
    <3> QED
      BY <2>1, <2>4, <3>2 DEF IsHighest, Levels
  <2> QED
    BY <1>1, <2>1, <2>2, <2>4, <2>5 DEF States
<1> QED
  BY <1>5, <1>6

-----------------------------------------------------------------------------
(* The inductive invariant.                                                *)

LEMMA InitInv == Init => KernelInv
<1> SUFFICES ASSUME Init PROVE KernelInv
  OBVIOUS
<1> USE SchedulerAssumption
<1>1. TypeOK
  <2>1. ASSUME NEW p \in Levels PROVE ready[p] \in Seq(Task)
    BY DEF Init
  <2>2. ready \in [Levels -> Seq(Task)]
    BY <2>1 DEF Init
  <2>3. wakeup_tick \in [Task -> 0..(TickMod - 1)] /\ ticks \in 0..(TickMod - 1)
    BY DEF Init
  <2>4. state \in [Task -> States] /\ pc \in [Task -> {"run", "check", "yield"}]
    BY DEF Init, States
  <2>5. /\ sleep_queue = <<>> /\ preempt_pending = FALSE
        /\ left = [t \in Task |-> 0]
    BY DEF Init
  <2>6. sleep_queue \in Seq(Task)
    BY <2>5
  <2>7. left \in [Task -> Int]
    BY <2>5
  <2>8. preempt_pending \in BOOLEAN
    BY <2>5
  <2>9. /\ current \in Task \cup {NoTask} /\ next \in Task \cup {NoTask}
        /\ mode \in {"boot", "task", "tick", "irq", "panic"}
        /\ prev \in Nat /\ curr \in Nat \ {0} /\ prev < curr
    BY DEF Init
  <2> QED
    BY <2>2, <2>3, <2>4, <2>6, <2>7, <2>8, <2>9 DEF TypeOK
<1>2. ASSUME NEW p \in Levels
      PROVE  /\ IsInjective(ready[p])
             /\ Range(ready[p]) = {t \in Task : state[t] = "Ready" /\ Priority[t] = p}
  <2>1. CASE p = 0
    <3>1. ready[p] = <<Idle>>
      BY <2>1 DEF Init
    <3>2. {t \in Task : state[t] = "Ready" /\ Priority[t] = p} = {Idle}
      BY <2>1 DEF Init
    <3> QED
      BY <3>1, <3>2 DEF IsInjective, Range
  <2>2. CASE p = 1
    <3>1. ready[p] = <<Root>>
      BY <2>2 DEF Init
    <3>2. {t \in Task : state[t] = "Ready" /\ Priority[t] = p} = {Root}
      BY <2>2 DEF Init
    <3> QED
      BY <3>1, <3>2 DEF IsInjective, Range
  <2>3. CASE p # 0 /\ p # 1
    <3>1. ready[p] = <<>>
      BY <2>3 DEF Init
    <3>2. {t \in Task : state[t] = "Ready" /\ Priority[t] = p} = {}
      BY <2>3 DEF Init
    <3> QED
      BY <3>1, <3>2 DEF IsInjective, Range
  <2> QED
    BY <2>1, <2>2, <2>3
<1>3. SleepingInList(state, sleep_queue)
  BY DEF Init, SleepingInList, IsInjective, Range
<1>4. OnePlace
  BY <1>2, <1>3 DEF Init, OnePlace, ReadyInQueue
<1> QED
  BY <1>1, <1>4 DEF Init, KernelInv

\* MakeReady, from a state in which the task is in no queue.
LEMMA MakeReadyKeeps ==
    ASSUME KernelInv, NEW t \in Task, state[t] \notin {"Ready", "Running"}, MakeReady(t)
    PROVE  /\ state' = [state EXCEPT ![t] = "Ready"]
           /\ state' \in [Task -> States]
           /\ ready' \in [Levels -> Seq(Task)]
           /\ preempt_pending' \in BOOLEAN
           /\ ReadyInQueue(state', ready')
<1>1. state \in [Task -> States] /\ ready \in [Levels -> Seq(Task)] /\ ReadyInQueue(state, ready)
  BY DEF KernelInv, TypeOK, OnePlace
<1>2. state' = [state EXCEPT ![t] = "Ready"] /\ ready' = Push(t)
  BY DEF MakeReady
<1>3. Push(t) \in [Levels -> Seq(Task)] /\ ReadyInQueue([state EXCEPT ![t] = "Ready"], Push(t))
  BY <1>1, PushKeepsQueue
<1>4. preempt_pending' \in BOOLEAN
  BY DEF MakeReady, CheckPreemptNeeded
<1>5. state' \in [Task -> States]
  BY <1>1, <1>2 DEF States
<1> QED
  BY <1>2, <1>3, <1>4, <1>5

\* Waking a blocked task, from a task or from an interrupt handler, or
\* creating one: everything but pc.
LEMMA WakeKeeps ==
    ASSUME KernelInv, NEW t \in Task, state[t] \in {"Free", "Blocked"},
           IF CanPush(t) THEN MakeReady(t) ELSE UNCHANGED <<state, ready, preempt_pending>>,
           UNCHANGED <<sleep_queue, wakeup_tick, current, next, ticks, mode, prev, curr, left>>,
           pc' \in [Task -> {"run", "check", "yield"}], pc'[Idle] = "run",
           current # NoTask /\ pc'[current] # "yield" => pc[current] # "yield"
    PROVE  KernelInv'
<1>1. CanPush(t)
  BY PushAllowed DEF KernelInv, OnePlace
<1>2. MakeReady(t) /\ state[t] \notin {"Ready", "Running"}
  BY <1>1
<1>3. /\ state' = [state EXCEPT ![t] = "Ready"]
      /\ state' \in [Task -> States]
      /\ ready' \in [Levels -> Seq(Task)]
      /\ preempt_pending' \in BOOLEAN
      /\ ReadyInQueue(state', ready')
  BY <1>2, MakeReadyKeeps
<1>4. TypeOK'
  BY <1>3 DEF KernelInv, TypeOK
<1>5. state \in [Task -> States] /\ Idle \in Task /\ NoTask \notin Task
  BY SchedulerAssumption DEF KernelInv, TypeOK
<1>6. SleepingInList(state', sleep_queue')
  BY <1>2, <1>3, <1>5 DEF KernelInv, OnePlace, SleepingInList
<1>7. \A u \in Task : state'[u] = "Running" => u = current'
  BY <1>3, <1>5 DEF KernelInv, OnePlace
<1>8. OnePlace'
  BY <1>3, <1>6, <1>7 DEF OnePlace
<1>9. state'[Idle] \in {"Ready", "Running"}
  BY <1>3, <1>5 DEF KernelInv
<1>10. mode' # "boot" => current' \in Task /\ (pc'[current'] # "yield" => state'[current'] = "Running")
  BY <1>2, <1>3, <1>5 DEF KernelInv
<1> QED
  BY <1>4, <1>8, <1>9, <1>10 DEF KernelInv

\* The end of a trap that reschedules, started in task states st.
LEMMA RescheduleKeeps ==
    ASSUME KernelInv, NEW STATE st, SchedulePre(st), ScheduleCpuLocked(st), TrapExit,
           {t \in Task : st[t] = "Sleeping"} = {t \in Task : state[t] = "Sleeping"},
           UNCHANGED <<sleep_queue, wakeup_tick, ticks, prev, curr, left>>,
           pc' \in [Task -> {"run", "check", "yield"}], pc'[Idle] = "run"
    PROVE  KernelInv'
<1>1. /\ state' \in [Task -> States]
      /\ ready' \in [Levels -> Seq(Task)]
      /\ preempt_pending' = FALSE
      /\ next' \in Task
      /\ ReadyInQueue(state', ready')
      /\ \A t \in Task : state'[t] = "Running" <=> t = next'
      /\ \A t \in Task : st[t] \in {"Ready", "Running"} <=> state'[t] \in {"Ready", "Running"}
      /\ \A t \in Task : st[t] \notin {"Ready", "Running"} => state'[t] = st[t]
  BY ScheduleSelects
<1>2. current' = next' /\ mode' = "task"
  BY DEF TrapExit
<1>3. TypeOK'
  BY <1>1, <1>2 DEF KernelInv, TypeOK
<1>4. {t \in Task : state'[t] = "Sleeping"} = {t \in Task : st[t] = "Sleeping"}
  BY <1>1
<1>5. SleepingInList(state', sleep_queue')
  BY <1>4 DEF KernelInv, OnePlace, SleepingInList
<1>6. OnePlace'
  BY <1>1, <1>2, <1>5 DEF OnePlace
<1>7. state'[Idle] \in {"Ready", "Running"}
  BY <1>1, SchedulerAssumption DEF SchedulePre
<1> QED
  BY <1>1, <1>2, <1>3, <1>6, <1>7 DEF KernelInv

\* schedule() called in the state the kernel is in.
LEMMA SchedulePreHolds == KernelInv => SchedulePre(state)
BY DEF KernelInv, TypeOK, OnePlace, SchedulePre

\* delay() and the blocking calls: the current task leaves the CPU's hands.
LEMMA LeaveKeeps ==
    ASSUME KernelInv, NEW t \in Task, Runs(t), NEW s \in {"Blocked", "Sleeping"},
           state' = [state EXCEPT ![t] = s], pc' = [pc EXCEPT ![t] = "yield"],
           sleep_queue' \in Seq(Task),
           IF s = "Sleeping" THEN sleep_queue' = <<t>> \o sleep_queue
                             ELSE sleep_queue' = sleep_queue,
           wakeup_tick' \in [Task -> 0..(TickMod - 1)], left' \in [Task -> Int],
           UNCHANGED <<ready, preempt_pending, current, next, ticks, mode, prev, curr>>
    PROVE  KernelInv'
<1>1. /\ state \in [Task -> States] /\ pc \in [Task -> {"run", "check", "yield"}]
      /\ state[t] = "Running" /\ current = t /\ t # Idle /\ mode = "task"
      /\ Idle \in Task
  BY SchedulerAssumption DEF KernelInv, TypeOK, Runs
<1>2. TypeOK'
  BY <1>1 DEF KernelInv, TypeOK, States
<1>3. ReadyInQueue(state', ready')
  BY <1>1 DEF KernelInv, OnePlace, ReadyInQueue
<1>4. SleepingInList(state', sleep_queue')
  <2>1. CASE s = "Blocked"
    BY <1>1, <2>1 DEF KernelInv, OnePlace, SleepingInList
  <2>2. CASE s = "Sleeping"
    <3>1. /\ sleep_queue \in Seq(Task) /\ IsInjective(sleep_queue)
          /\ Range(sleep_queue) = {u \in Task : state[u] = "Sleeping"}
      BY DEF KernelInv, TypeOK, OnePlace, SleepingInList
    <3>2. t \notin Range(sleep_queue)
      BY <1>1, <3>1
    <3>3. /\ Range(<<t>> \o sleep_queue) = Range(sleep_queue) \cup {t}
          /\ IsInjective(<<t>> \o sleep_queue)
      BY <3>1, <3>2, ConsDistinct
    <3>4. {u \in Task : state'[u] = "Sleeping"} = {u \in Task : state[u] = "Sleeping"} \cup {t}
      BY <1>1, <2>2
    <3> QED
      BY <2>2, <3>1, <3>3, <3>4 DEF SleepingInList
  <2> QED
    BY <2>1, <2>2
<1>5. OnePlace'
  BY <1>1, <1>3, <1>4 DEF KernelInv, OnePlace
<1> QED
  BY <1>1, <1>2, <1>5 DEF KernelInv

\* The end of the sleep list's due task: one turn of the loop of tick_update.
LEMMA TimerScanKeeps == KernelInv /\ TimerScan => KernelInv'
<1> SUFFICES ASSUME KernelInv, TimerScan PROVE KernelInv'
  OBVIOUS
<1> DEFINE t == sleep_queue[curr]
<1>1. /\ mode = "tick" /\ prev = curr - 1 /\ curr \in Nat \ {0} /\ prev \in Nat
      /\ curr <= Len(sleep_queue) /\ sleep_queue \in Seq(Task) /\ Len(sleep_queue) \in Nat
  BY LenProperties DEF TimerScan, ScanSleeper, KernelInv, TypeOK
<1>2. curr \in 1..Len(sleep_queue) /\ t \in Task
  BY <1>1, ElementOfSeq
<1>3. state \in [Task -> States] /\ state[t] = "Sleeping" /\ IsInjective(sleep_queue)
  <2>1. t \in Range(sleep_queue)
    BY <1>1, <1>2, LenProperties DEF Range
  <2> QED
    BY <2>1 DEF KernelInv, TypeOK, OnePlace, SleepingInList
<1> HIDE DEF t
<1>4. CASE ~Due(t)
  <2>1. PassSleeper
    BY <1>4 DEF TimerScan, ScanSleeper, t
  <2>2. prev' = curr /\ curr' = curr + 1
    BY <2>1 DEF PassSleeper
  <2>3. UNCHANGED <<state, ready, preempt_pending, sleep_queue, wakeup_tick,
                    current, next, ticks, mode, pc, left>>
    BY <2>1 DEF TimerScan, PassSleeper
  <2>4. prev' \in Nat /\ curr' \in Nat \ {0} /\ prev' < curr' /\ prev' = curr' - 1
        /\ curr' <= Len(sleep_queue') + 1
    BY <1>1, <2>2, <2>3
  <2>5. TypeOK'
    BY <2>3, <2>4 DEF KernelInv, TypeOK
  <2> QED
    BY <2>3, <2>4, <2>5 DEF KernelInv, OnePlace
<1>5. CASE Due(t)
  <2>1. CanPush(t)
    BY <1>2, <1>3, PushAllowed DEF KernelInv, OnePlace
  <2>2. WakeSleeper(t)
    BY <1>5 DEF TimerScan, ScanSleeper, t
  <2>3. /\ MakeReady(t)
        /\ sleep_queue' = Unlinked
        /\ wakeup_tick' = [wakeup_tick EXCEPT ![t] = 0]
        /\ curr' = prev + 1
        /\ prev' = prev
    BY <2>1, <2>2 DEF WakeSleeper
  <2>4. /\ state' = [state EXCEPT ![t] = "Ready"]
        /\ state' \in [Task -> States]
        /\ ready' \in [Levels -> Seq(Task)]
        /\ preempt_pending' \in BOOLEAN
        /\ ReadyInQueue(state', ready')
    BY <1>2, <1>3, <2>3, MakeReadyKeeps
  <2>5. /\ sleep_queue' \in Seq(Task)
        /\ Len(sleep_queue') = Len(sleep_queue) - 1
        /\ Range(sleep_queue') = Range(sleep_queue) \ {t}
        /\ IsInjective(sleep_queue')
    BY <1>1, <1>2, <1>3, <2>3, RemoveDistinct DEF Unlinked, t
  <2>6. UNCHANGED <<current, next, ticks, mode, pc, left>>
    BY DEF TimerScan
  <2>7. prev' \in Nat /\ curr' \in Nat \ {0} /\ prev' < curr' /\ prev' = curr' - 1
        /\ curr' <= Len(sleep_queue') + 1
    BY <1>1, <2>3, <2>5
  <2>8. wakeup_tick' \in [Task -> 0..(TickMod - 1)]
    BY <2>3, <1>2, SchedulerAssumption DEF KernelInv, TypeOK
  <2>9. TypeOK'
    BY <2>4, <2>5, <2>6, <2>7, <2>8 DEF KernelInv, TypeOK
  <2>10. SleepingInList(state', sleep_queue')
    BY <1>3, <2>4, <2>5 DEF KernelInv, OnePlace, SleepingInList
  <2>11. OnePlace'
    BY <1>2, <1>3, <2>4, <2>6, <2>10 DEF KernelInv, OnePlace
  <2>12. state'[Idle] \in {"Ready", "Running"} /\ current' \in Task
         /\ (pc'[current'] # "yield" => state'[current'] = "Running")
    BY <1>1, <1>2, <1>3, <2>4, <2>6, SchedulerAssumption DEF KernelInv
  <2> QED
    BY <1>1, <2>6, <2>7, <2>9, <2>11, <2>12 DEF KernelInv
<1> QED
  BY <1>4, <1>5

\* No step of the kernel leaves KernelInv.
LEMMA NextInv == KernelInv /\ [Next]_vars => KernelInv'
<1> SUFFICES ASSUME KernelInv, [Next]_vars PROVE KernelInv'
  OBVIOUS
<1>1. /\ SchedulePre(state) /\ Idle \in Task /\ NoTask \notin Task
      /\ state \in [Task -> States] /\ pc \in [Task -> {"run", "check", "yield"}]
      /\ pc[Idle] = "run"
  BY SchedulePreHolds, SchedulerAssumption DEF KernelInv, TypeOK
<1>2. CASE Start
  BY <1>1, <1>2, RescheduleKeeps DEF Start, Schedule
<1>3. ASSUME NEW t \in Task, NEW n \in Task, CreateTask(t, n) PROVE KernelInv'
  <2>1. pc' \in [Task -> {"run", "check", "yield"}] /\ pc'[Idle] = "run"
        /\ (current # NoTask /\ pc'[current] # "yield" => pc[current] # "yield")
    BY <1>1, <1>3 DEF CreateTask, Runs
  <2> QED
    BY <1>3, <2>1, WakeKeeps DEF CreateTask, CreateTaskOnCpu
<1>4. ASSUME NEW t \in Task, PoolExhausted(t) PROVE KernelInv'
  <2>1. current \in Task /\ mode = "task" /\ mode' = "panic"
    BY <1>4 DEF PoolExhausted, Runs
  <2>2. UNCHANGED <<state, ready, sleep_queue, wakeup_tick, preempt_pending, current,
                    next, ticks, pc, prev, curr, left>>
    BY <1>4 DEF PoolExhausted
  <2>3. TypeOK' /\ OnePlace'
    BY <2>1, <2>2 DEF KernelInv, TypeOK, OnePlace
  <2> QED
    BY <2>1, <2>2, <2>3 DEF KernelInv
<1>5. ASSUME NEW t \in Task, NEW d \in Delays, Delay(t, d) PROVE KernelInv'
  <2>1. /\ Runs(t) /\ current = t /\ t \in Task
        /\ state' = [state EXCEPT ![t] = "Sleeping"]
        /\ wakeup_tick' = [wakeup_tick EXCEPT ![t] = (ticks + d) % TickMod]
        /\ sleep_queue' = <<t>> \o sleep_queue
        /\ left' = [left EXCEPT ![t] = IF d = 0 THEN 1 ELSE d]
        /\ pc' = [pc EXCEPT ![t] = "yield"]
        /\ UNCHANGED <<ready, preempt_pending, current, next, ticks, mode, prev, curr>>
    BY <1>5 DEF Delay, DelayCurrentTask, Runs
  <2>2. d \in Nat /\ TickMod \in Nat /\ TickMod > 0 /\ ticks \in Nat
    BY <1>5, SchedulerAssumption DEF KernelInv, TypeOK
  <2>3. (ticks + d) % TickMod \in 0..(TickMod - 1)
    BY <2>2
  <2>4. wakeup_tick' \in [Task -> 0..(TickMod - 1)]
    BY <2>1, <2>3 DEF KernelInv, TypeOK
  <2>5. left' \in [Task -> Int]
    BY <2>1, <2>2 DEF KernelInv, TypeOK
  <2>6. sleep_queue' \in Seq(Task)
    BY <2>1, ConcatProperties DEF KernelInv, TypeOK
  <2> QED
    BY <2>1, <2>4, <2>5, <2>6, LeaveKeeps
<1>6. ASSUME NEW t \in Task, Block(t) PROVE KernelInv'
  <2>1. /\ Runs(t)
        /\ state' = [state EXCEPT ![t] = "Blocked"]
        /\ pc' = [pc EXCEPT ![t] = "yield"]
        /\ UNCHANGED <<ready, sleep_queue, wakeup_tick, preempt_pending, current, next,
                       ticks, mode, prev, curr, left>>
    BY <1>6 DEF Block, BlockCurrentTask, Runs
  <2>2. /\ sleep_queue' \in Seq(Task) /\ left' \in [Task -> Int]
        /\ wakeup_tick' \in [Task -> 0..(TickMod - 1)]
    BY <2>1 DEF KernelInv, TypeOK
  <2> QED
    BY <2>1, <2>2, LeaveKeeps
<1>7. ASSUME NEW t \in Task, NEW w \in Task, NEW locked \in BOOLEAN, Wake(t, w, locked)
      PROVE  KernelInv'
  <2>1. pc' \in [Task -> {"run", "check", "yield"}] /\ pc'[Idle] = "run"
        /\ (current # NoTask /\ pc'[current] # "yield" => pc[current] # "yield")
    BY <1>1, <1>7 DEF Wake, Runs
  <2> QED
    BY <1>7, <2>1, WakeKeeps DEF Wake, WakeBlockedTask
<1>8. ASSUME NEW t \in Task, YieldIfPreemptPending(t) PROVE KernelInv'
  <2>1. /\ mode = "task" /\ current = t /\ pc[t] = "check"
        /\ pc' = [pc EXCEPT ![t] = IF preempt_pending /\ HasHigherReady THEN "yield" ELSE "run"]
        /\ UNCHANGED <<state, ready, sleep_queue, wakeup_tick, preempt_pending, current,
                       next, ticks, mode, prev, curr, left>>
    BY <1>8 DEF YieldIfPreemptPending
  <2>2. pc' \in [Task -> {"run", "check", "yield"}] /\ pc'[Idle] = "run"
    BY <1>1, <2>1
  <2>3. TypeOK' /\ OnePlace'
    BY <2>1, <2>2 DEF KernelInv, TypeOK, OnePlace
  <2> QED
    BY <2>1, <2>2, <2>3 DEF KernelInv
<1>9. ASSUME NEW t \in Task, YieldTrap(t) PROVE KernelInv'
  <2>1. pc' \in [Task -> {"run", "check", "yield"}] /\ pc'[Idle] = "run"
    BY <1>1, <1>9 DEF YieldTrap
  <2> QED
    BY <1>1, <1>9, <2>1, RescheduleKeeps DEF YieldTrap, Schedule
<1>10. ASSUME NEW t \in Task, ExitTrap(t) PROVE KernelInv'
  <2> DEFINE st == [state EXCEPT ![t] = "Terminated"]
  <2>1. state[t] = "Running" /\ t # Idle
    BY <1>10 DEF ExitTrap, Runs, KernelInv
  <2>2. SchedulePre(st)
    BY <1>1, <2>1 DEF SchedulePre, ReadyInQueue, States
  <2>3. {u \in Task : st[u] = "Sleeping"} = {u \in Task : state[u] = "Sleeping"}
    BY <1>1, <2>1
  <2>4. ScheduleCpuLocked(st)
    BY <1>10 DEF ExitTrap
  <2>5. /\ TrapExit /\ UNCHANGED <<sleep_queue, wakeup_tick, ticks, prev, curr, left>>
        /\ pc' \in [Task -> {"run", "check", "yield"}] /\ pc'[Idle] = "run"
    BY <1>1, <1>10 DEF ExitTrap
  <2> HIDE DEF st
  <2> QED
    BY <2>2, <2>3, <2>4, <2>5, RescheduleKeeps
<1>11. CASE TimerTrap
  <2>1. /\ mode = "task" /\ mode' = "tick" /\ prev' = 0 /\ curr' = 1
        /\ ticks' = (ticks + 1) % TickMod
        /\ left' = [t \in Task |-> IF state[t] = "Sleeping" /\ left[t] > 0
                               THEN left[t] - 1 ELSE left[t]]
        /\ UNCHANGED <<state, ready, sleep_queue, wakeup_tick, preempt_pending, current,
                       next, pc>>
    BY <1>11 DEF TimerTrap, Tick
  <2>2. ticks' \in 0..(TickMod - 1)
    <3>1. TickMod \in Nat /\ TickMod > 0 /\ ticks \in Nat
      BY SchedulerAssumption DEF KernelInv, TypeOK
    <3> QED
      BY <2>1, <3>1
  <2>3. left' \in [Task -> Int]
    BY <2>1 DEF KernelInv, TypeOK
  <2>4. Len(sleep_queue) \in Nat
    BY LenProperties DEF KernelInv, TypeOK
  <2>5. TypeOK' /\ OnePlace'
    BY <2>1, <2>2, <2>3 DEF KernelInv, TypeOK, OnePlace
  <2> QED
    BY <2>1, <2>4, <2>5 DEF KernelInv
<1>12. CASE TimerScan
  BY <1>12, TimerScanKeeps
<1>13. CASE TimerExit
  BY <1>1, <1>13, RescheduleKeeps DEF TimerExit, Schedule
<1>14. CASE ExternalTrap
  <2>1. TypeOK' /\ OnePlace'
    BY <1>14 DEF ExternalTrap, KernelInv, TypeOK, OnePlace
  <2> QED
    BY <1>14, <2>1 DEF ExternalTrap, KernelInv
<1>15. ASSUME NEW w \in Task, HandlerWake(w) PROVE KernelInv'
  BY <1>1, <1>15, WakeKeeps DEF HandlerWake, WakeBlockedTask
<1>16. CASE ExternalExit
  <2>1. CASE preempt_pending /\ HasHigherReady
    BY <1>1, <1>16, <2>1, RescheduleKeeps DEF ExternalExit, ScheduleIfPreemptPending, Schedule
  <2>2. CASE ~(preempt_pending /\ HasHigherReady)
    <3>1. /\ mode = "irq" /\ preempt_pending' = FALSE /\ next' = current
          /\ current' = next' /\ mode' = "task"
          /\ UNCHANGED <<state, ready, sleep_queue, wakeup_tick, ticks, pc, prev, curr, left>>
      BY <1>16, <2>2 DEF ExternalExit, ScheduleIfPreemptPending, TrapExit
    <3>2. TypeOK' /\ OnePlace'
      BY <3>1 DEF KernelInv, TypeOK, OnePlace
    <3> QED
      BY <3>1, <3>2 DEF KernelInv
  <2> QED
    BY <2>1, <2>2
<1>17. CASE UNCHANGED vars
  BY <1>17 DEF vars, KernelInv, TypeOK, OnePlace
<1>18. CASE Halted
  BY <1>17, <1>18 DEF Halted
<1> QED
  BY <1>2, <1>3, <1>4, <1>5, <1>6, <1>7, <1>8, <1>9, <1>10, <1>11, <1>12, <1>13, <1>14,
     <1>15, <1>16, <1>17, <1>18 DEF Next, TaskStep

-----------------------------------------------------------------------------
(* Theorems.                                                               *)

(***************************************************************************)
(* The kernel keeps its inductive invariant.                               *)
(***************************************************************************)
THEOREM KernelInvariant == Spec => []KernelInv
BY InitInv, NextInv, PTL DEF Spec

(***************************************************************************)
(* Type correctness.                                                       *)
(***************************************************************************)
THEOREM TypeCorrect == Spec => []TypeOK
<1>1. KernelInv => TypeOK
  BY DEF KernelInv
<1> QED
  BY <1>1, KernelInvariant, PTL

(***************************************************************************)
(* No interleaving of scheduler calls and interrupts loses a task, queues  *)
(* it twice, or leaves two tasks Running.                                  *)
(***************************************************************************)
THEOREM TasksInOnePlace == Spec => []OnePlace
<1>1. KernelInv => OnePlace
  BY DEF KernelInv
<1> QED
  BY <1>1, KernelInvariant, PTL

(***************************************************************************)
(* A task that sleeps or blocks does not continue before it is scheduled   *)
(* again.                                                                  *)
(***************************************************************************)
THEOREM OnlyRunningTasksRun == Spec => []RunsOnlyRunning
<1>1. KernelInv => RunsOnlyRunning
  BY DEF KernelInv, RunsOnlyRunning
<1> QED
  BY <1>1, KernelInvariant, PTL

(***************************************************************************)
(* Every timer interrupt ends with a task running that no ready task       *)
(* exceeds in priority.                                                    *)
(***************************************************************************)
THEOREM TickSelectsHighest == Spec => TickRunsHighest
<1> DEFINE P == mode = "tick" /\ mode' = "task" =>
                  /\ state'[current'] = "Running"
                  /\ \A t \in Task : state'[t] = "Ready" => Priority[t] <= Priority[current']
<1>1. KernelInv /\ [Next]_vars => [P]_vars
  <2>1. SUFFICES ASSUME KernelInv, Next, mode = "tick", mode' = "task"
                 PROVE  /\ state'[current'] = "Running"
                        /\ \A t \in Task : state'[t] = "Ready" => Priority[t] <= Priority[current']
    OBVIOUS
  <2>2. ASSUME NEW t \in Task, TaskStep(t) PROVE FALSE
    BY <2>1, <2>2 DEF TaskStep, CreateTask, PoolExhausted, Delay, Block, Wake,
                      YieldIfPreemptPending, YieldTrap, ExitTrap, Runs
  <2>3. TimerExit
    BY <2>1, <2>2 DEF Next, Start, TimerTrap, TimerScan, ExternalTrap, HandlerWake,
                      ExternalExit, Halted, vars
  <2>4. SchedulePre(state) /\ ScheduleCpuLocked(state) /\ current' = next'
    BY <2>1, <2>3, SchedulePreHolds DEF TimerExit, Schedule, TrapExit
  <2>5. /\ next' \in Task
        /\ \A t \in Task : state'[t] = "Running" <=> t = next'
        /\ \A t \in Task : state'[t] = "Ready" => Priority[t] <= Priority[next']
    BY <2>4, ScheduleSelects
  <2> QED
    BY <2>4, <2>5
<1> QED
  BY <1>1, KernelInvariant, PTL DEF Spec, TickRunsHighest

=============================================================================
