------------------------------ MODULE IrqMutex ------------------------------
(***************************************************************************)
(* The interrupt-disabling Mutex of kernel/src/sync.rs with disable_irq    *)
(* and enable_irq of kernel/src/arch.rs, instruction by instruction, on    *)
(* one CPU: tasks and interrupt handlers share the nesting count, the      *)
(* interrupt flag and the spin locks.  On RISC-V a trap clears the flag    *)
(* and counts as a critical section; on Cortex-M a handler runs with the   *)
(* flag as it was, and a more urgent one may interrupt it.  When the last  *)
(* handler returns the scheduler may go on with another task.              *)
(***************************************************************************)
EXTENDS Naturals, Sequences, FiniteSets

CONSTANTS
    IrqTasks, Locks,
    Handlers,       \* a sequence: the handler at each depth of nesting
    Boot, Nobody    \* the boot code as a context; no context, no lock

ASSUME IrqAssumption ==
    /\ Handlers \in Seq({Handlers[i] : i \in 1..Len(Handlers)})
    /\ \A i, j \in 1..Len(Handlers) : Handlers[i] = Handlers[j] => i = j
    /\ \A i \in 1..Len(Handlers) : Handlers[i] \notin IrqTasks
    /\ {Boot, Nobody} \cap (IrqTasks \cup {Handlers[i] : i \in 1..Len(Handlers)}) = {}

VARIABLES
    arch,       \* "riscv" or "arm"
    ie,         \* the global interrupt flag
    nest,       \* crit_nest of the CPU
    owner,      \* lock -> the context that holds it, or Nobody
    ctx,        \* context -> where it is
    stack       \* the contexts on the CPU: a task (none while booting), then handlers

irqvars == <<arch, ie, nest, owner, ctx, stack>>

Contexts == IrqTasks \cup {Handlers[i] : i \in 1..Len(Handlers)} \cup {Boot}
Me == stack[Len(stack)]
Fresh == [pc |-> "run", nest |-> 0, lock |-> Nobody, try |-> FALSE, held |-> <<>>]
Goto(c) == ctx' = [ctx EXCEPT ![Me] = c]
My == ctx[Me]
has_current_task == stack[1] # Boot

\* disable_irq: reads the count, clears the flag, stores the count.  Only try_lock
\* is called for a lock the context may hold itself (a message while logging).
DisableRead(l, try) ==
    /\ My.pc = "run"
    /\ try \/ \A i \in 1..Len(My.held) : My.held[i] # l
    /\ Goto([My EXCEPT !.pc = "disable", !.nest = nest, !.lock = l, !.try = try])
    /\ UNCHANGED <<arch, ie, nest, owner, stack>>
DisableClear ==
    /\ My.pc = "disable"
    /\ ie' = (ie /\ My.nest # 0)
    /\ Goto([My EXCEPT !.pc = "count"])
    /\ UNCHANGED <<arch, nest, owner, stack>>
DisableCount ==
    /\ My.pc = "count"
    /\ nest' = My.nest + 1
    /\ Goto([My EXCEPT !.pc = "acquire"])
    /\ UNCHANGED <<arch, ie, owner, stack>>

\* lock spins until the lock is free; try_lock gives up
AcquireForgets ==
    /\ My.pc = "acquire"
    /\ \/ /\ owner[My.lock] = Nobody
          /\ owner' = [owner EXCEPT ![My.lock] = Me]
          /\ Goto([My EXCEPT !.pc = "run", !.held = Append(@, My.lock), !.lock = Nobody])
       \/ /\ owner[My.lock] # Nobody /\ My.try
          /\ Goto([My EXCEPT !.pc = "run", !.lock = Nobody]) /\ UNCHANGED owner
    /\ UNCHANGED <<arch, ie, nest, stack>>
Acquire ==
    /\ My.pc = "acquire"
    /\ \/ /\ owner[My.lock] = Nobody
          /\ owner' = [owner EXCEPT ![My.lock] = Me]
          /\ Goto([My EXCEPT !.pc = "run", !.held = Append(@, My.lock), !.lock = Nobody])
       \/ /\ owner[My.lock] # Nobody /\ My.try
          /\ Goto([My EXCEPT !.pc = "exit", !.lock = Nobody]) /\ UNCHANGED owner
    /\ UNCHANGED <<arch, ie, nest, stack>>

\* drop of the guard: the spin lock first, then enable_irq
LastHeld == My.held[Len(My.held)]
Without == SubSeq(My.held, 1, Len(My.held) - 1)
ReleaseLate ==
    /\ \/ /\ My.pc = "run" /\ My.held # <<>> /\ My.lock = Nobody
          /\ Goto([My EXCEPT !.pc = "exit", !.lock = LastHeld]) /\ UNCHANGED owner
       \/ /\ My.pc = "run" /\ My.lock # Nobody
          /\ owner' = [owner EXCEPT ![My.lock] = Nobody]
          /\ Goto([My EXCEPT !.lock = Nobody, !.held = Without])
    /\ UNCHANGED <<arch, ie, nest, stack>>
Release ==
    /\ My.pc = "run" /\ My.held # <<>>
    /\ owner' = [owner EXCEPT ![LastHeld] = Nobody]
    /\ Goto([My EXCEPT !.pc = "exit", !.held = Without])
    /\ UNCHANGED <<arch, ie, nest, stack>>

\* enable_irq: counts down, and sets the flag when the count is zero
EnableCount ==
    /\ My.pc = "exit"
    /\ nest' = IF nest = 0 THEN 0 ELSE nest - 1
    /\ Goto([My EXCEPT !.pc = "enable", !.nest = nest'])
    /\ UNCHANGED <<arch, ie, owner, stack>>
EnableSet ==
    /\ My.pc = "enable"
    /\ ie' = (ie \/ (My.nest = 0 /\ has_current_task))
    /\ Goto([My EXCEPT !.pc = "run", !.nest = 0])
    /\ UNCHANGED <<arch, nest, owner, stack>>

\* An interrupt; RISC-V enters a critical section for the whole trap.
Interrupt ==
    /\ ie /\ Len(stack) <= Len(Handlers)
    /\ stack' = Append(stack, Handlers[Len(stack)])
    /\ ctx' = [ctx EXCEPT ![Handlers[Len(stack)]] = Fresh]
    /\ IF arch = "riscv" THEN ie' = FALSE /\ nest' = nest + 1 ELSE UNCHANGED <<ie, nest>>
    /\ UNCHANGED <<arch, owner>>

\* The handler returns, to what it interrupted or, if that is a task, any task.
TrapReturn(t) ==
    /\ Len(stack) > 1 /\ My.pc = "run" /\ My.held = <<>>
    /\ stack' = IF Len(stack) > 2 THEN SubSeq(stack, 1, Len(stack) - 1) ELSE <<t>>
    /\ ctx' = [ctx EXCEPT ![Me] = Fresh]
    /\ IF arch = "riscv" THEN ie' = TRUE /\ nest' = nest - 1 ELSE UNCHANGED <<ie, nest>>
    /\ UNCHANGED <<arch, owner>>

\* The end of boot: the first task starts with interrupts on.
StartFirst(t) ==
    /\ stack = <<Boot>> /\ My.pc = "run" /\ My.held = <<>>
    /\ stack' = <<t>> /\ ie' = TRUE
    /\ UNCHANGED <<arch, nest, owner, ctx>>

IrqInit ==
    /\ arch \in {"riscv", "arm"}
    /\ ie = FALSE /\ nest = 0
    /\ owner = [l \in Locks |-> Nobody]
    /\ ctx = [c \in Contexts |-> Fresh]
    /\ stack = <<Boot>>

IrqNext ==
    \/ \E l \in Locks, try \in BOOLEAN : DisableRead(l, try)
    \/ DisableClear \/ DisableCount \/ Acquire \/ Release \/ EnableCount \/ EnableSet
    \/ Interrupt
    \/ \E t \in IrqTasks : TrapReturn(t) \/ StartFirst(t)

IrqSpec == IrqInit /\ [][IrqNext]_irqvars

-----------------------------------------------------------------------------
(* Nobody ever spins: what runs finds the lock it wants free, so that a    *)
(* handler cannot wait for the code it interrupted, nor a task for one     *)
(* that was preempted in its critical section.                             *)
NoSpinForEver == My.pc = "acquire" /\ ~My.try => owner[My.lock] = Nobody

(* While any lock is held interrupts are off, so that the sections the     *)
(* other modules take as one step are.                                     *)
LockedMeansMasked == (\E l \in Locks : owner[l] # Nobody) => ~ie

(* When a task holds nothing and is not about to, interrupts are on and    *)
(* the count is zero, whatever nested sections and traps came before: no   *)
(* sequence of locks, failed try_locks and interrupts leaves them off.     *)
MaskedOnlyInside ==
    Len(stack) = 1 /\ has_current_task /\ My.pc = "run" /\ My.held = <<>> => ie /\ nest = 0

(* Interrupts stay off from reset until the first task runs, though the    *)
(* boot code locks and unlocks.                                            *)
QuietBoot == ~has_current_task => ~ie
=============================================================================
