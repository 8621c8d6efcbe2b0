--------------------------- MODULE IrqMutexProofs ---------------------------
(* The interrupt-disabling mutex, for every set of tasks and locks and     *)
(* every depth of nested interrupts.                                       *)
EXTENDS IrqMutex, TLAPS

Rec == [pc : {"run", "disable", "count", "acquire", "exit", "enable"}, nest : Nat,
        lock : Locks \cup {Nobody}, try : BOOLEAN, held : Seq(Locks)]

\* What the CPU runs: a task under handlers, each at its own depth.  Boot is never
\* interrupted, and a RISC-V trap is not interrupted either.
Shape ==
    /\ arch \in {"riscv", "arm"} /\ ie \in BOOLEAN /\ nest \in Nat
    /\ owner \in [Locks -> Contexts \cup {Nobody}]
    /\ ctx \in [Contexts -> Rec]
    /\ stack \in Seq(Contexts) /\ Len(stack) \in 1..(Len(Handlers) + 1)
    /\ stack[1] \in IrqTasks \cup {Boot}
    /\ \A i \in 2..Len(stack) : stack[i] = Handlers[i - 1]
    /\ stack[1] = Boot => Len(stack) = 1 /\ ~ie
    /\ arch = "riscv" /\ Len(stack) > 1 => Len(stack) = 2 /\ ~ie

\* A context that is not running was interrupted with the flag set, so that it holds
\* nothing and has at most read a count of zero.
Parked(r) ==
    /\ r.held = <<>>
    /\ r.pc = "run" \/ (r.pc = "disable" /\ r.nest = 0 /\ r.lock \in Locks)
Away == \A c \in Contexts : c # Me => Parked(ctx[c])

\* The critical sections of a trap, of the guards held, and of a lock call under way.
Base == IF arch = "riscv" THEN Len(stack) - 1 ELSE 0
Between == IF My.pc \in {"acquire", "exit"} THEN 1 ELSE 0

\* What holds of the running context when the others are parked.
Mine ==
    /\ \A l \in Locks : owner[l] # Nobody => \E k \in 1..Len(My.held) : My.held[k] = l
    /\ nest = Base + Len(My.held) + Between
    /\ My.pc \in {"disable", "count", "enable"} => My.nest = nest
    /\ My.pc \in {"disable", "count", "acquire"} =>
           /\ My.lock \in Locks
           /\ My.try \/ \A k \in 1..Len(My.held) : My.held[k] # My.lock
    /\ ie => My.held = <<>> /\ My.pc \in {"run", "disable"}
    /\ has_current_task /\ My.pc \in {"run", "disable"} /\ nest = 0 => ie

IrqInv == Shape /\ Away /\ Mine

-----------------------------------------------------------------------------
LEMMA FreshRec == Fresh \in Rec /\ Parked(Fresh)
BY DEF Fresh, Rec, Parked

LEMMA MeFacts ==
    ASSUME Shape
    PROVE  /\ Me \in Contexts /\ My \in Rec /\ Len(stack) \in Nat \ {0}
           /\ Len(My.held) \in Nat /\ My.held \in Seq(Locks)
           /\ My.pc \in {"run", "disable", "count", "acquire", "exit", "enable"}
           /\ My.nest \in Nat
<1>1. Me \in Contexts /\ Len(stack) \in Nat \ {0}
  BY DEF Shape, Me
<1>2. My \in Rec
  BY <1>1 DEF Shape, My
<1> QED
  BY <1>1, <1>2 DEF Rec

LEMMA BaseFacts ==
    ASSUME Shape
    PROVE  /\ Base \in Nat /\ (ie => Base = 0)
           /\ arch = "riscv" /\ Len(stack) > 1 => Base # 0 /\ Len(stack) = 2 /\ ~ie
<1>1. Len(stack) \in Nat \ {0}
  BY MeFacts
<1>2. arch = "riscv" /\ Len(stack) > 1 => Len(stack) = 2 /\ ~ie
  BY Zenon DEF Shape
<1>3. CASE arch = "riscv"
  <2>1. Base = Len(stack) - 1
    BY <1>3 DEF Base
  <2>2. Base \in Nat /\ (~(Len(stack) > 1) => Base = 0) /\ (Len(stack) > 1 => Base # 0)
    BY <1>1, <2>1
  <2> QED
    BY <1>2, <1>3, <2>2, Zenon
<1>4. CASE arch # "riscv"
  <2>1. Base = 0
    BY <1>4 DEF Base
  <2> QED
    BY <1>4, <2>1
<1> QED
  BY <1>3, <1>4

LEMMA IrqInitInv == IrqInit => IrqInv
<1> SUFFICES ASSUME IrqInit PROVE IrqInv
  OBVIOUS
<1>1. Boot \in Contexts
  BY DEF Contexts
<1>2. stack = <<Boot>> /\ Len(stack) = 1 /\ Me = Boot /\ stack[1] = Boot
  BY DEF IrqInit, Me
<1>3. My = Fresh
  BY <1>1, <1>2 DEF IrqInit, My
<1>4. stack \in Seq(Contexts)
  BY <1>1, <1>2
<1>5. Shape
  <2>1. Len(Handlers) \in Nat
    BY IrqAssumption
  <2>2. ctx \in [Contexts -> Rec]
    BY FreshRec DEF IrqInit
  <2>3. owner \in [Locks -> Contexts \cup {Nobody}]
    BY DEF IrqInit
  <2>4. Len(stack) \in 1..(Len(Handlers) + 1) /\ \A i \in 2..Len(stack) : stack[i] = Handlers[i - 1]
    BY <1>2, <2>1
  <2>5. arch \in {"riscv", "arm"} /\ ie \in BOOLEAN /\ nest \in Nat /\ ~ie
    BY DEF IrqInit
  <2>6. stack[1] \in IrqTasks \cup {Boot} /\ ~(Len(stack) > 1)
    BY <1>2
  <2> QED
    BY <1>2, <1>4, <2>2, <2>3, <2>4, <2>5, <2>6 DEF Shape
<1>6. Away
  BY FreshRec DEF Away, IrqInit
<1>7. Mine
  <2>1. My.held = <<>> /\ My.pc = "run" /\ Len(My.held) = 0
    BY <1>3 DEF Fresh
  <2>2. Base = 0
    BY <1>2 DEF Base
  <2> QED
    BY <1>2, <2>1, <2>2 DEF Mine, Between, IrqInit, has_current_task
<1> QED
  BY <1>5, <1>6, <1>7 DEF IrqInv

\* A step of the running context that stays on the CPU changes its own record only.
LEMMA OwnStep ==
    ASSUME Shape, Away, NEW r \in Rec, ctx' = [ctx EXCEPT ![Me] = r], UNCHANGED stack
    PROVE  /\ My' = r /\ Away' /\ ctx' \in [Contexts -> Rec] /\ Me' = Me
<1>1. Me' = Me /\ Me \in Contexts
  BY MeFacts DEF Me
<1>2. ctx \in [Contexts -> Rec]
  BY DEF Shape
<1>3. My' = r
  BY <1>1, <1>2 DEF My
<1>4. ASSUME NEW c \in Contexts, c # Me PROVE Parked(ctx'[c])
  BY <1>2, <1>4 DEF Away
<1> QED
  BY <1>1, <1>2, <1>3, <1>4 DEF Away

\* ... and keeps Shape, unless it sets the flag in boot or in a trap.
LEMMA OwnShape ==
    ASSUME Shape, Away, NEW r \in Rec, ctx' = [ctx EXCEPT ![Me] = r], UNCHANGED <<arch, stack>>,
           ie' \in BOOLEAN, nest' \in Nat, owner' \in [Locks -> Contexts \cup {Nobody}],
           ie' => ie \/ (stack[1] # Boot /\ Base = 0)
    PROVE  Shape' /\ Base' = Base
<1>1. ctx' \in [Contexts -> Rec]
  BY OwnStep
<1>2. Len(stack) \in Nat \ {0}
  BY MeFacts
<1>3. stack[1] = Boot => ~ie'
  BY DEF Shape
<1>4. arch = "riscv" /\ Len(stack) > 1 => Len(stack) = 2 /\ ~ie'
  BY BaseFacts, Zenon
<1>5. Base' = Base
  BY DEF Base
<1>6. arch' = arch /\ stack' = stack
  OBVIOUS
<1>7. /\ stack' \in Seq(Contexts) /\ Len(stack') \in 1..(Len(Handlers) + 1)
      /\ stack'[1] \in IrqTasks \cup {Boot} /\ arch' \in {"riscv", "arm"}
      /\ \A i \in 2..Len(stack') : stack'[i] = Handlers[i - 1]
      /\ stack'[1] = Boot => Len(stack') = 1
  BY <1>6 DEF Shape
<1>8. stack'[1] = Boot => ~ie'
  BY <1>3, <1>6
<1>9. arch' = "riscv" /\ Len(stack') > 1 => Len(stack') = 2 /\ ~ie'
  BY <1>4, <1>6
<1> QED
  BY <1>1, <1>5, <1>7, <1>8, <1>9 DEF Shape

LEMMA DisableReadKeeps ==
    ASSUME IrqInv, NEW l \in Locks, NEW try \in BOOLEAN, DisableRead(l, try)
    PROVE  IrqInv'
<1> DEFINE r == [My EXCEPT !.pc = "disable", !.nest = nest, !.lock = l, !.try = try]
<1>1. Shape /\ Away /\ Mine
  BY DEF IrqInv
<1>2. /\ My \in Rec /\ Len(My.held) \in Nat /\ nest \in Nat /\ My.held \in Seq(Locks)
  BY <1>1, MeFacts DEF Shape
<1>3. /\ r \in Rec /\ r.pc = "disable" /\ r.nest = nest /\ r.lock = l /\ r.try = try
      /\ r.held = My.held
  BY <1>2 DEF Rec
<1>4. /\ ctx' = [ctx EXCEPT ![Me] = r]
      /\ arch' = arch /\ ie' = ie /\ nest' = nest /\ owner' = owner /\ stack' = stack
      /\ My.pc = "run" /\ (try \/ \A k \in 1..Len(My.held) : My.held[k] # l)
  BY DEF DisableRead, Goto
<1> HIDE DEF r
<1>5. Shape' /\ Base' = Base
  BY <1>1, <1>3, <1>4, OwnShape DEF Shape
<1>6. My' = r /\ Away'
  BY <1>1, <1>3, <1>4, OwnStep
<1>7. Mine'
  <2>1. Between = 0 /\ Between' = 0
    BY <1>3, <1>4, <1>6 DEF Between
  <2>2. nest' = Base' + Len(My'.held) + Between'
    BY <1>1, <1>3, <1>4, <1>5, <1>6, <2>1 DEF Mine
  <2>3. has_current_task' = has_current_task
    BY <1>4 DEF has_current_task
  <2> QED
    BY <1>1, <1>3, <1>4, <1>6, <2>2, <2>3 DEF Mine
<1> QED
  BY <1>5, <1>6, <1>7 DEF IrqInv

LEMMA DisableClearKeeps ==
    ASSUME IrqInv, DisableClear
    PROVE  IrqInv'
<1> DEFINE r == [My EXCEPT !.pc = "count"]
<1>1. Shape /\ Away /\ Mine
  BY DEF IrqInv
<1>2. /\ My \in Rec /\ Len(My.held) \in Nat /\ nest \in Nat /\ ie \in BOOLEAN
      /\ Len(stack) \in Nat \ {0}
  BY <1>1, MeFacts DEF Shape
<1>3. /\ r \in Rec /\ r.pc = "count" /\ r.nest = My.nest /\ r.lock = My.lock /\ r.try = My.try
      /\ r.held = My.held
  BY <1>2 DEF Rec
<1>4. /\ ctx' = [ctx EXCEPT ![Me] = r]
      /\ arch' = arch /\ nest' = nest /\ owner' = owner /\ stack' = stack
      /\ My.pc = "disable" /\ ie' = (ie /\ My.nest # 0)
  BY DEF DisableClear, Goto
<1> HIDE DEF r
\* interrupts on: the count read was zero, and the flag is cleared
<1>5. ie' = FALSE
  <2>1. SUFFICES ASSUME ie PROVE My.nest = 0
    BY <1>2, <1>4
  <2>2. My.held = <<>> /\ My.nest = nest /\ Between = 0
    BY <1>1, <1>4, <2>1 DEF Mine, Between
  <2>3. Base = 0
    BY <1>1, <2>1, BaseFacts, Zenon
  <2> QED
    BY <1>1, <2>2, <2>3 DEF Mine
<1>6. Shape' /\ Base' = Base
  BY <1>1, <1>3, <1>4, <1>5, OwnShape DEF Shape
<1>7. My' = r /\ Away'
  BY <1>1, <1>3, <1>4, OwnStep
<1>8. Mine'
  <2>1. Between = 0 /\ Between' = 0
    BY <1>3, <1>4, <1>7 DEF Between
  <2>2. nest' = Base' + Len(My'.held) + Between'
    BY <1>1, <1>3, <1>4, <1>6, <1>7, <2>1 DEF Mine
  <2> QED
    BY <1>1, <1>3, <1>4, <1>5, <1>7, <2>2 DEF Mine
<1> QED
  BY <1>6, <1>7, <1>8 DEF IrqInv

LEMMA DisableCountKeeps ==
    ASSUME IrqInv, DisableCount
    PROVE  IrqInv'
<1> DEFINE r == [My EXCEPT !.pc = "acquire"]
<1>1. Shape /\ Away /\ Mine
  BY DEF IrqInv
<1>2. /\ My \in Rec /\ Len(My.held) \in Nat /\ nest \in Nat /\ Base \in Nat
  BY <1>1, MeFacts, BaseFacts DEF Shape
<1>3. /\ r \in Rec /\ r.pc = "acquire" /\ r.lock = My.lock /\ r.try = My.try
      /\ r.held = My.held
  BY <1>2 DEF Rec
<1>4. /\ ctx' = [ctx EXCEPT ![Me] = r]
      /\ arch' = arch /\ ie' = ie /\ owner' = owner /\ stack' = stack
      /\ My.pc = "count" /\ nest' = My.nest + 1
  BY DEF DisableCount, Goto
<1> HIDE DEF r
<1>5. nest' = nest + 1 /\ nest' \in Nat
  BY <1>1, <1>2, <1>4 DEF Mine
<1>6. Shape' /\ Base' = Base
  <2>1. ie' \in BOOLEAN /\ owner' \in [Locks -> Contexts \cup {Nobody}]
    BY <1>1, <1>4 DEF Shape
  <2> QED
    BY <1>1, <1>3, <1>4, <1>5, <2>1, OwnShape
<1>7. My' = r /\ Away'
  BY <1>1, <1>3, <1>4, OwnStep
<1>8. Mine'
  <2>1. Between = 0 /\ Between' = 1
    BY <1>3, <1>4, <1>7 DEF Between
  <2>2. ie' = FALSE
    BY <1>1, <1>4 DEF Mine, Shape
  <2>3. nest' = Base' + Len(My'.held) + Between'
    <3>1. nest = Base + Len(My.held)
      BY <1>1, <1>2, <2>1 DEF Mine
    <3> QED
      BY <1>2, <1>3, <1>5, <1>6, <1>7, <2>1, <3>1
  <2> QED
    BY <1>1, <1>3, <1>4, <1>7, <2>2, <2>3 DEF Mine
<1> QED
  BY <1>6, <1>7, <1>8 DEF IrqInv

\* The lock goes to the guards held, or try_lock goes on to enable_irq.
LEMMA AcquireKeeps ==
    ASSUME IrqInv, Acquire
    PROVE  IrqInv'
<1>1. Shape /\ Away /\ Mine
  BY DEF IrqInv
<1>2. /\ My \in Rec /\ Len(My.held) \in Nat /\ nest \in Nat /\ My.held \in Seq(Locks)
      /\ Me \in Contexts /\ Base \in Nat /\ owner \in [Locks -> Contexts \cup {Nobody}]
  BY <1>1, MeFacts, BaseFacts DEF Shape
<1>3. /\ arch' = arch /\ ie' = ie /\ nest' = nest /\ stack' = stack /\ My.pc = "acquire"
  BY DEF Acquire
<1>4. ie = FALSE /\ My.lock \in Locks /\ Between = 1
  BY <1>1, <1>3 DEF Mine, Between, Shape
<1>5. nest = Base + Len(My.held) + 1
  BY <1>1, <1>4 DEF Mine
<1>6. CASE /\ owner' = [owner EXCEPT ![My.lock] = Me]
           /\ Goto([My EXCEPT !.pc = "run", !.held = Append(@, My.lock), !.lock = Nobody])
  <2> DEFINE r == [My EXCEPT !.pc = "run", !.held = Append(@, My.lock), !.lock = Nobody]
  <2>1. r.pc = "run" /\ r.held = Append(My.held, My.lock)
    BY <1>2 DEF Rec
  <2>2. Append(My.held, My.lock) \in Seq(Locks)
    BY <1>2, <1>4
  <2>3. r \in Rec
    BY <1>2, <2>2 DEF Rec
  <2>4. ctx' = [ctx EXCEPT ![Me] = r]
    BY <1>6 DEF Goto
  <2> HIDE DEF r
  <2>5. /\ Len(r.held) = Len(My.held) + 1 /\ r.held # <<>>
        /\ r.held[Len(My.held) + 1] = My.lock
        /\ \A k \in 1..Len(My.held) : r.held[k] = My.held[k]
    BY <1>2, <1>4, <2>1
  <2>6. Shape' /\ Base' = Base
    <3>1. owner' \in [Locks -> Contexts \cup {Nobody}]
      BY <1>2, <1>6
    <3> QED
      BY <1>1, <1>2, <1>3, <2>3, <2>4, <3>1, OwnShape DEF Shape
  <2>7. My' = r /\ Away'
    BY <1>1, <1>3, <2>3, <2>4, OwnStep
  <2>8. ASSUME NEW l \in Locks, owner'[l] # Nobody
        PROVE  \E k \in 1..Len(r.held) : r.held[k] = l
    <3>1. CASE l = My.lock
      BY <1>2, <2>5, <3>1
    <3>2. CASE l # My.lock
      <4>1. owner[l] # Nobody
        BY <1>2, <1>6, <2>8, <3>2
      <4>2. PICK k \in 1..Len(My.held) : My.held[k] = l
        BY <1>1, <4>1 DEF Mine
      <4> QED
        BY <1>2, <2>5, <4>2
    <3> QED
      BY <3>1, <3>2
  <2>9. Between' = 0
    BY <2>1, <2>7 DEF Between
  <2> QED
    <3>1. nest' = Base' + Len(My'.held) + Between' /\ nest' # 0
      <4>1. Base \in Nat /\ Len(My.held) \in Nat
        BY <1>2, Zenon
      <4>2. Base' = Base /\ Between' = 0
        BY <2>6, <2>9, Zenon
      <4>3. Len(My'.held) = Len(My.held) + 1
        BY <2>5, <2>7, Zenon
      <4>4. nest' = Base + Len(My.held) + 1
        BY <1>3, <1>5, Zenon
      <4> QED
        BY ONLY <4>1, <4>2, <4>3, <4>4
    <3>2. Mine'
      BY <1>3, <1>4, <2>1, <2>7, <2>8, <3>1 DEF Mine
    <3> QED
      BY <2>6, <2>7, <3>2 DEF IrqInv
<1>7. CASE /\ owner' = owner
           /\ Goto([My EXCEPT !.pc = "exit", !.lock = Nobody])
  <2> DEFINE r == [My EXCEPT !.pc = "exit", !.lock = Nobody]
  <2>1. r.pc = "exit" /\ r.held = My.held /\ r \in Rec
    BY <1>2 DEF Rec
  <2>2. ctx' = [ctx EXCEPT ![Me] = r]
    BY <1>7 DEF Goto
  <2> HIDE DEF r
  <2>3. Shape' /\ Base' = Base
    BY <1>1, <1>2, <1>3, <1>7, <2>1, <2>2, OwnShape DEF Shape
  <2>4. My' = r /\ Away'
    BY <1>1, <1>3, <2>1, <2>2, OwnStep
  <2>5. Between' = 1
    BY <2>1, <2>4 DEF Between
  <2>6. Mine'
    BY <1>1, <1>3, <1>4, <1>7, <2>1, <2>3, <2>4, <2>5 DEF Mine
  <2> QED
    BY <2>3, <2>4, <2>6 DEF IrqInv
<1> QED
  BY <1>6, <1>7 DEF Acquire

\* The spin lock is free before the flag can be set.
LEMMA ReleaseKeeps ==
    ASSUME IrqInv, Release
    PROVE  IrqInv'
<1> DEFINE r == [My EXCEPT !.pc = "exit", !.held = Without]
<1>1. Shape /\ Away /\ Mine
  BY DEF IrqInv
<1>2. /\ My \in Rec /\ Len(My.held) \in Nat /\ nest \in Nat /\ My.held \in Seq(Locks)
      /\ Base \in Nat /\ owner \in [Locks -> Contexts \cup {Nobody}]
  BY <1>1, MeFacts, BaseFacts DEF Shape
<1>3. /\ arch' = arch /\ ie' = ie /\ nest' = nest /\ stack' = stack
      /\ My.pc = "run" /\ My.held # <<>>
      /\ ctx' = [ctx EXCEPT ![Me] = r]
      /\ owner' = [owner EXCEPT ![LastHeld] = Nobody]
  BY DEF Release, Goto
<1>4. /\ Len(My.held) > 0 /\ Without \in Seq(Locks) /\ Len(Without) = Len(My.held) - 1
      /\ \A k \in 1..(Len(My.held) - 1) : Without[k] = My.held[k]
      /\ LastHeld \in Locks
  BY <1>2, <1>3 DEF Without, LastHeld
<1>5. r \in Rec /\ r.pc = "exit" /\ r.held = Without
  BY <1>2, <1>4 DEF Rec
<1> HIDE DEF r
<1>6. Shape' /\ Base' = Base
  <2>1. owner' \in [Locks -> Contexts \cup {Nobody}] /\ ie' \in BOOLEAN
    BY <1>1, <1>2, <1>3 DEF Shape
  <2> QED
    BY <1>1, <1>2, <1>3, <1>5, <2>1, OwnShape
<1>7. My' = r /\ Away'
  BY <1>1, <1>3, <1>5, OwnStep
<1>8. ASSUME NEW l \in Locks, owner'[l] # Nobody
      PROVE  \E k \in 1..Len(Without) : Without[k] = l
  <2>1. l # LastHeld /\ owner[l] # Nobody
    BY <1>2, <1>3, <1>4, <1>8
  <2>2. PICK k \in 1..Len(My.held) : My.held[k] = l
    BY <1>1, <2>1 DEF Mine
  <2>3. k # Len(My.held)
    BY <2>1, <2>2 DEF LastHeld
  <2>4. k \in 1..(Len(My.held) - 1)
    <3>1. Len(My.held) \in Nat
      BY <1>2, Zenon
    <3> QED
      BY ONLY <2>2, <2>3, <3>1
  <2>5. Without[k] = l
    BY <1>4, <2>2, <2>4, Zenon
  <2>6. k \in 1..Len(Without)
    BY <1>4, <2>4, Zenon
  <2> QED
    BY <2>5, <2>6, Zenon
<1>9. Mine'
  <2>1. Between = 0 /\ Between' = 1 /\ ie = FALSE
    BY <1>1, <1>3, <1>5, <1>7 DEF Between, Mine, Shape
  <2>2. nest' = Base' + Len(My'.held) + Between'
    <3>1. nest = Base + Len(My.held)
      BY <1>1, <1>2, <2>1 DEF Mine
    <3>2. Len(My'.held) = Len(My.held) - 1
      BY <1>4, <1>5, <1>7
    <3> QED
      BY <1>2, <1>3, <1>6, <2>1, <3>1, <3>2
  <2> QED
    BY <1>3, <1>5, <1>7, <1>8, <2>1, <2>2 DEF Mine
<1> QED
  BY <1>6, <1>7, <1>9 DEF IrqInv

LEMMA EnableCountKeeps ==
    ASSUME IrqInv, EnableCount
    PROVE  IrqInv'
<1> DEFINE r == [My EXCEPT !.pc = "enable", !.nest = nest']
<1>1. Shape /\ Away /\ Mine
  BY DEF IrqInv
<1>2. /\ My \in Rec /\ Len(My.held) \in Nat /\ nest \in Nat /\ Base \in Nat
  BY <1>1, MeFacts, BaseFacts DEF Shape
<1>3. /\ arch' = arch /\ ie' = ie /\ owner' = owner /\ stack' = stack
      /\ My.pc = "exit" /\ ctx' = [ctx EXCEPT ![Me] = r]
      /\ nest' = IF nest = 0 THEN 0 ELSE nest - 1
  BY DEF EnableCount, Goto
<1>4. Between = 1 /\ nest = Base + Len(My.held) + 1 /\ ie = FALSE
  <2>1. Between = 1
    BY <1>3 DEF Between
  <2> QED
    BY <1>1, <1>3, <2>1 DEF Mine, Shape
<1>5. nest' = Base + Len(My.held) /\ nest' \in Nat
  BY <1>2, <1>3, <1>4
<1>6. r \in Rec /\ r.pc = "enable" /\ r.held = My.held /\ r.nest = nest'
  BY <1>2, <1>5 DEF Rec
<1> HIDE DEF r
<1>7. Shape' /\ Base' = Base
  <2>1. owner' \in [Locks -> Contexts \cup {Nobody}] /\ ie' \in BOOLEAN
    BY <1>1, <1>3 DEF Shape
  <2> QED
    BY <1>1, <1>3, <1>5, <1>6, <2>1, OwnShape
<1>8. My' = r /\ Away'
  BY <1>1, <1>3, <1>6, OwnStep
<1>9. Mine'
  <2>1. Between' = 0
    BY <1>6, <1>8 DEF Between
  <2>2. nest' = Base' + Len(My'.held) + Between'
    BY <1>2, <1>5, <1>6, <1>7, <1>8, <2>1
  <2> QED
    BY <1>1, <1>3, <1>4, <1>6, <1>8, <2>2 DEF Mine
<1> QED
  BY <1>7, <1>8, <1>9 DEF IrqInv

\* The flag is set when the count is zero, and then nothing is held.
LEMMA EnableSetKeeps ==
    ASSUME IrqInv, EnableSet
    PROVE  IrqInv'
<1> DEFINE r == [My EXCEPT !.pc = "run", !.nest = 0]
<1>1. Shape /\ Away /\ Mine
  BY DEF IrqInv
<1>2. /\ My \in Rec /\ Len(My.held) \in Nat /\ nest \in Nat /\ Base \in Nat
      /\ ie \in BOOLEAN /\ My.held \in Seq(Locks)
  BY <1>1, MeFacts, BaseFacts DEF Shape
<1>3. /\ arch' = arch /\ nest' = nest /\ owner' = owner /\ stack' = stack
      /\ My.pc = "enable" /\ ctx' = [ctx EXCEPT ![Me] = r]
      /\ ie' = (ie \/ (My.nest = 0 /\ has_current_task))
  BY DEF EnableSet, Goto
<1>4. ie = FALSE /\ My.nest = nest
  BY <1>1, <1>3 DEF Mine, Shape
<1>5. ie' = (nest = 0 /\ has_current_task)
  BY <1>3, <1>4
<1>6. nest = Base + Len(My.held)
  <2>1. Between = 0
    BY <1>3 DEF Between
  <2> QED
    BY <1>1, <1>2, <2>1 DEF Mine
<1>7. nest = 0 => Base = 0 /\ My.held = <<>>
  BY <1>2, <1>6
<1>8. r \in Rec /\ r.pc = "run" /\ r.held = My.held
  BY <1>2 DEF Rec
<1> HIDE DEF r
<1>9. Shape' /\ Base' = Base
  <2>1. owner' \in [Locks -> Contexts \cup {Nobody}] /\ ie' \in BOOLEAN
    BY <1>1, <1>3, <1>5 DEF Shape
  <2>2. ie' => stack[1] # Boot /\ Base = 0
    BY <1>5, <1>7 DEF has_current_task
  <2> QED
    BY <1>1, <1>2, <1>3, <1>8, <2>1, <2>2, OwnShape
<1>10. My' = r /\ Away'
  BY <1>1, <1>3, <1>8, OwnStep
<1>11. Mine'
  <2>1. Between' = 0
    BY <1>8, <1>10 DEF Between
  <2>2. nest' = Base' + Len(My'.held) + Between'
    BY <1>2, <1>3, <1>6, <1>8, <1>9, <1>10, <2>1
  <2>3. ie' => My'.held = <<>> /\ My'.pc \in {"run", "disable"}
    BY <1>5, <1>7, <1>8, <1>10
  <2>4. has_current_task' /\ nest' = 0 => ie'
    BY <1>3, <1>5 DEF has_current_task
  <2> QED
    BY <1>1, <1>3, <1>8, <1>10, <2>2, <2>3, <2>4 DEF Mine
<1> QED
  BY <1>9, <1>10, <1>11 DEF IrqInv

\* A context whose predecessor on the CPU held nothing takes over.
LEMMA PlusZero == \A n \in Nat : n = n + 0 + 0
OBVIOUS

LEMMA TakeOver ==
    ASSUME Parked(My'), \A l \in Locks : owner'[l] = Nobody, nest' = Base', nest' \in Nat,
           nest' # 0 => My'.pc = "run", nest' = 0 => ie'
    PROVE  Mine'
<1>1. /\ My'.held = <<>> /\ My'.pc \in {"run", "disable"}
      /\ My'.pc = "disable" => My'.nest = 0 /\ My'.lock \in Locks
  BY DEF Parked
<1>2. Len(My'.held) = 0 /\ \A k \in 1..Len(My'.held) : FALSE
  BY <1>1
<1>3. Between' = 0
  BY <1>1 DEF Between
<1>4. nest' = Base' + Len(My'.held) + Between'
  <2>1. nest' = nest' + 0 + 0
    BY PlusZero, Zenon
  <2> QED
    BY <1>2, <1>3, <2>1
<1>5. My'.pc = "disable" => My'.nest = nest'
  BY <1>1
<1> QED
  BY <1>1, <1>2, <1>4, <1>5, Zenon DEF Mine

\* With the flag set nothing is held anywhere.
LEMMA OpenFacts ==
    ASSUME Shape, Mine, ie
    PROVE  /\ nest = 0 /\ Base = 0 /\ Parked(My) /\ \A l \in Locks : owner[l] = Nobody
           /\ stack[1] # Boot
<1>1. My.held = <<>> /\ My.pc \in {"run", "disable"} /\ Len(My.held) = 0 /\ Between = 0
  BY DEF Mine, Between
<1>2. Base = 0
  BY BaseFacts, Zenon
<1>3. nest = 0
  BY <1>1, <1>2 DEF Mine
<1>4. Parked(My)
  BY <1>1, <1>3 DEF Mine, Parked
<1>5. ASSUME NEW l \in Locks PROVE owner[l] = Nobody
  BY <1>1 DEF Mine
<1> QED
  BY <1>2, <1>3, <1>4, <1>5 DEF Shape

LEMMA InterruptKeeps ==
    ASSUME IrqInv, Interrupt
    PROVE  IrqInv'
<1> DEFINE h == Handlers[Len(stack)]
<1>1. Shape /\ Away /\ Mine
  BY DEF IrqInv
<1>2. ie = TRUE /\ Len(stack) <= Len(Handlers)
  BY <1>1 DEF Interrupt, Shape
<1>3. /\ nest = 0 /\ Base = 0 /\ Parked(My) /\ (\A l \in Locks : owner[l] = Nobody)
      /\ stack[1] # Boot
  BY <1>1, <1>2, OpenFacts
<1>4. /\ Len(stack) \in Nat \ {0} /\ stack \in Seq(Contexts) /\ Len(Handlers) \in Nat
      /\ ctx \in [Contexts -> Rec]
  BY <1>1, MeFacts, IrqAssumption DEF Shape
<1>5. h \in Contexts
  BY <1>2, <1>4 DEF Contexts
<1>6. /\ stack' = Append(stack, h) /\ ctx' = [ctx EXCEPT ![h] = Fresh]
      /\ arch' = arch /\ owner' = owner
      /\ IF arch = "riscv" THEN ie' = FALSE /\ nest' = nest + 1 ELSE ie' = ie /\ nest' = nest
  BY DEF Interrupt
<1>7. /\ stack' \in Seq(Contexts) /\ Len(stack') = Len(stack) + 1 /\ stack'[Len(stack) + 1] = h
      /\ \A i \in 1..Len(stack) : stack'[i] = stack[i]
  BY <1>4, <1>5, <1>6
<1>8. Me' = h /\ My' = Fresh
  <2>1. Me' = h
    BY <1>7 DEF Me
  <2> QED
    BY <1>4, <1>5, <1>6, <2>1 DEF My
<1>9. Away'
  <2>1. ASSUME NEW c \in Contexts, c # h PROVE Parked(ctx'[c])
    <3>1. ctx'[c] = ctx[c]
      BY <1>4, <1>6, <2>1
    <3>2. CASE c = Me
      BY <1>3, <3>1, <3>2 DEF My
    <3>3. CASE c # Me
      BY <1>1, <3>1, <3>3 DEF Away
    <3> QED
      BY <3>2, <3>3
  <2> QED
    BY <1>8, <2>1 DEF Away
<1>10. Base' = nest' /\ nest' \in Nat /\ (arch = "riscv" => Len(stack) = 1)
  <2>1. CASE arch = "riscv"
    <3>1. Len(stack) - 1 = 0 /\ Base' = Len(stack') - 1 /\ nest' = nest + 1
      BY <1>3, <1>6, <2>1 DEF Base
    <3> QED
      BY <1>3, <1>4, <1>7, <3>1
  <2>2. CASE arch # "riscv"
    BY <1>3, <1>6, <2>2 DEF Base
  <2> QED
    BY <2>1, <2>2
<1>11. My'.pc = "run" /\ (nest' = 0 => ie') /\ ie' \in BOOLEAN
  <2>1. CASE arch = "riscv"
    <3>1. ie' = FALSE /\ nest' = nest + 1
      BY <1>6, <2>1, Zenon
    <3>2. nest' # 0
      BY <1>3, <3>1
    <3>3. My'.pc = "run"
      BY <1>8 DEF Fresh
    <3> QED
      BY <3>1, <3>2, <3>3, Zenon
  <2>2. CASE arch # "riscv"
    <3>1. ie' = TRUE
      BY <1>2, <1>6, <2>2, Zenon
    <3> QED
      BY <1>8, <3>1 DEF Fresh
  <2> QED
    BY <2>1, <2>2
<1>12. Mine'
  <2>1. \A l \in Locks : owner'[l] = Nobody
    BY <1>3, <1>6
  <2>2. Parked(My')
    BY <1>8, FreshRec
  <2> QED
    BY <1>10, <1>11, <2>1, <2>2, TakeOver
<1>13. Shape'
  <2>1. /\ ctx' \in [Contexts -> Rec] /\ owner' \in [Locks -> Contexts \cup {Nobody}]
        /\ ie' \in BOOLEAN /\ arch' \in {"riscv", "arm"}
    BY <1>1, <1>4, <1>6, <1>11, FreshRec DEF Shape
  <2>2. stack'[1] = stack[1] /\ stack'[1] # Boot /\ stack'[1] \in IrqTasks \cup {Boot}
    BY <1>1, <1>3, <1>4, <1>7 DEF Shape
  <2>3. Len(stack') \in 1..(Len(Handlers) + 1)
    BY <1>2, <1>4, <1>7
  <2>4. ASSUME NEW i \in 2..Len(stack') PROVE stack'[i] = Handlers[i - 1]
    <3>1. CASE i = Len(stack) + 1
      BY <1>4, <1>7, <3>1
    <3>2. CASE i # Len(stack) + 1
      BY <1>1, <1>4, <1>7, <3>2 DEF Shape
    <3> QED
      BY <3>1, <3>2
  <2>5. ASSUME arch' = "riscv" PROVE Len(stack') = 2 /\ ~ie'
    <3>1. arch = "riscv" /\ ie' = FALSE
      BY <1>6, <2>5, Zenon
    <3>2. Len(stack) = 1
      BY <1>10, <3>1
    <3>3. Len(stack') = 2
      BY <1>7, <3>2
    <3> QED
      BY <3>1, <3>3, Zenon
  <2> QED
    BY <1>7, <1>10, <2>1, <2>2, <2>3, <2>4, <2>5 DEF Shape
<1> QED
  BY <1>9, <1>12, <1>13 DEF IrqInv

\* The handler that returns holds nothing, and what goes on had been parked.
LEMMA TrapReturnKeeps ==
    ASSUME IrqInv, NEW t \in IrqTasks, TrapReturn(t)
    PROVE  IrqInv'
<1> DEFINE n == IF Len(stack) > 2 THEN stack[Len(stack) - 1] ELSE t
<1>1. Shape /\ Away /\ Mine
  BY DEF IrqInv
<1>2. Len(stack) > 1 /\ My.pc = "run" /\ My.held = <<>>
  BY DEF TrapReturn
<1>3. /\ Len(stack) \in Nat \ {0} /\ stack \in Seq(Contexts) /\ Len(Handlers) \in Nat
      /\ ctx \in [Contexts -> Rec] /\ Len(stack) <= Len(Handlers) + 1 /\ Me \in Contexts
  BY <1>1, MeFacts, IrqAssumption DEF Shape
<1>4. stack[1] # Boot /\ stack[1] \in IrqTasks
  BY <1>1, <1>2 DEF Shape
<1>5. Me = Handlers[Len(stack) - 1]
  BY <1>1, <1>2, <1>3 DEF Shape, Me
<1>6. n \in Contexts /\ n # Me
  <2>1. CASE Len(stack) > 2
    <3>1. n = Handlers[Len(stack) - 2] /\ Len(stack) - 2 \in 1..Len(Handlers)
      <4>1. Len(stack) - 1 \in 2..Len(stack) /\ n = stack[Len(stack) - 1]
        BY <1>3, <2>1
      <4>2. stack[Len(stack) - 1] = Handlers[Len(stack) - 1 - 1]
        BY <1>1, <4>1 DEF Shape
      <4> QED
        BY <1>3, <2>1, <4>1, <4>2
    <3>2. Len(stack) - 1 \in 1..Len(Handlers) /\ Len(stack) - 2 # Len(stack) - 1
      BY <1>3, <2>1
    <3> QED
      BY <1>5, <3>1, <3>2, IrqAssumption DEF Contexts
  <2>2. CASE ~(Len(stack) > 2)
    <3>1. n = t /\ Len(stack) - 1 \in 1..Len(Handlers)
      BY <1>2, <1>3, <2>2
    <3> QED
      BY <1>5, <3>1, IrqAssumption DEF Contexts
  <2> QED
    BY <2>1, <2>2
<1>7. /\ stack' = IF Len(stack) > 2 THEN SubSeq(stack, 1, Len(stack) - 1) ELSE <<t>>
      /\ ctx' = [ctx EXCEPT ![Me] = Fresh] /\ arch' = arch /\ owner' = owner
      /\ IF arch = "riscv" THEN ie' = TRUE /\ nest' = nest - 1 ELSE ie' = ie /\ nest' = nest
  BY DEF TrapReturn
<1>8. /\ stack' \in Seq(Contexts) /\ Len(stack') = Len(stack) - 1
      /\ \A i \in 2..Len(stack') : stack'[i] = stack[i]
      /\ stack'[1] \in IrqTasks /\ stack'[Len(stack')] = n
  <2>1. CASE Len(stack) > 2
    <3>1. stack' = SubSeq(stack, 1, Len(stack) - 1)
      BY <1>7, <2>1
    <3>2. /\ stack' \in Seq(Contexts) /\ Len(stack') = Len(stack) - 1
          /\ \A i \in 1..(Len(stack) - 1) : stack'[i] = stack[i]
      BY <1>3, <2>1, <3>1
    <3>3. stack'[1] = stack[1] /\ stack'[Len(stack')] = stack[Len(stack) - 1]
      <4>1. 1 \in 1..(Len(stack) - 1) /\ Len(stack) - 1 \in 1..(Len(stack) - 1)
        BY <1>3, <2>1
      <4> QED
        BY <3>2, <4>1, Zenon
    <3> QED
      BY <1>3, <1>4, <2>1, <3>2, <3>3
  <2>2. CASE ~(Len(stack) > 2)
    <3>1. Len(stack) = 2
      <4>1. \A k \in Nat : k > 1 /\ ~(k > 2) => k = 2
        OBVIOUS
      <4>2. Len(stack) \in Nat
        BY <1>3
      <4> QED
        BY <1>2, <2>2, <4>1, <4>2, Zenon
    <3>2. stack' = <<t>> /\ n = t
      BY <1>7, <2>2, Zenon
    <3>3. t \in Contexts
      BY DEF Contexts
    <3> QED
      BY <3>1, <3>2, <3>3
  <2> QED
    BY <2>1, <2>2
<1> HIDE DEF n
<1>9. Me' = n /\ My' = ctx[n] /\ Parked(My')
  <2>1. Me' = n
    BY <1>8 DEF Me
  <2>2. My' = ctx[n]
    BY <1>3, <1>6, <1>7, <2>1 DEF My
  <2> QED
    BY <1>1, <1>6, <2>1, <2>2 DEF Away
<1>10. Away'
  <2>1. ASSUME NEW c \in Contexts, c # n PROVE Parked(ctx'[c])
    <3>1. CASE c = Me
      BY <1>3, <1>7, <3>1, FreshRec
    <3>2. CASE c # Me
      BY <1>1, <1>3, <1>7, <3>2 DEF Away
    <3> QED
      BY <3>1, <3>2
  <2> QED
    BY <1>9, <2>1 DEF Away
\* in both architectures the return leaves the count at zero and the flag set
<1>11. nest = Base
  <2>1. Between = 0 /\ Len(My.held) = 0 /\ Base \in Nat
    BY <1>1, <1>2, BaseFacts DEF Between
  <2> QED
    BY <1>1, <2>1 DEF Mine
<1>12. nest' = 0 /\ Base' = 0 /\ ie' = TRUE /\ (arch = "riscv" => Len(stack) = 2)
  <2>1. CASE arch = "riscv"
    <3>1. Len(stack) = 2
      BY <1>1, <1>2, <2>1, BaseFacts, Zenon
    <3>2. ie' = TRUE /\ nest' = nest - 1
      BY <1>7, <2>1, Zenon
    <3>3. Base = Len(stack) - 1 /\ Base' = Len(stack') - 1
      BY <1>7, <2>1 DEF Base
    <3> QED
      BY <1>8, <1>11, <3>1, <3>2, <3>3
  <2>2. CASE arch # "riscv"
    <3>1. Base = 0 /\ Base' = 0
      BY <1>7, <2>2 DEF Base
    <3>2. has_current_task /\ nest = 0
      BY <1>4, <1>11, <3>1 DEF has_current_task
    <3>3. ie = TRUE
      BY <1>1, <1>2, <3>2 DEF Mine, Shape
    <3> QED
      BY <1>7, <2>2, <3>1, <3>2, <3>3, Zenon
  <2> QED
    BY <2>1, <2>2
<1>13. Mine'
  <2>1. \A l \in Locks : owner'[l] = Nobody
    <3>1. \A k \in 1..Len(My.held) : FALSE
      BY <1>2
    <3> QED
      BY <1>1, <1>7, <3>1 DEF Mine
  <2>2. nest' \in Nat /\ nest' = Base'
    BY <1>12
  <2>3. (nest' # 0 => My'.pc = "run") /\ (nest' = 0 => ie')
    BY <1>12, Zenon
  <2> QED
    BY <1>9, <2>1, <2>2, <2>3, TakeOver
<1>14. Shape'
  <2>1. /\ ctx' \in [Contexts -> Rec] /\ owner' \in [Locks -> Contexts \cup {Nobody}]
        /\ arch' \in {"riscv", "arm"}
    BY <1>1, <1>3, <1>7, FreshRec DEF Shape
  <2>2. ie' \in BOOLEAN /\ nest' \in Nat
    BY <1>12
  <2>3. Len(stack') \in 1..(Len(Handlers) + 1)
    BY <1>2, <1>3, <1>8
  <2>4. ASSUME NEW i \in 2..Len(stack') PROVE stack'[i] = Handlers[i - 1]
    <3>1. i \in 2..Len(stack)
      BY <1>3, <1>8
    <3> QED
      BY <1>1, <1>8, <3>1 DEF Shape
  <2>5. stack'[1] # Boot
    BY <1>8, IrqAssumption
  <2>6. ASSUME arch' = "riscv" PROVE ~(Len(stack') > 1)
    <3>1. Len(stack) = 2
      BY <1>7, <1>12, <2>6, Zenon
    <3> QED
      BY <1>8, <3>1
  <2> QED
    BY <1>8, <2>1, <2>2, <2>3, <2>4, <2>5, <2>6 DEF Shape
<1> QED
  BY <1>10, <1>13, <1>14 DEF IrqInv

LEMMA StartFirstKeeps ==
    ASSUME IrqInv, NEW t \in IrqTasks, StartFirst(t)
    PROVE  IrqInv'
<1>1. Shape /\ Away /\ Mine
  BY DEF IrqInv
<1>2. /\ stack = <<Boot>> /\ My.pc = "run" /\ My.held = <<>> /\ stack' = <<t>> /\ ie' = TRUE
      /\ arch' = arch /\ nest' = nest /\ owner' = owner /\ ctx' = ctx
  BY DEF StartFirst
<1>3. Me = Boot /\ Me' = t /\ t # Boot /\ t \in Contexts /\ Len(stack) = 1 /\ Len(stack') = 1
  BY <1>2, IrqAssumption DEF Me, Contexts
<1>4. Parked(My) /\ Parked(My') /\ Away'
  <2>1. Parked(My)
    BY <1>2 DEF Parked
  <2>2. \A c \in Contexts : Parked(ctx[c])
    BY <1>1, <2>1 DEF Away, My
  <2>3. My' = ctx[t]
    BY <1>2, <1>3 DEF My
  <2> QED
    BY <1>2, <1>3, <2>1, <2>2, <2>3 DEF Away
<1>5. Base = 0 /\ Base' = 0
  BY <1>2, <1>3 DEF Base
<1>6. nest' = 0
  <2>1. Between = 0 /\ Len(My.held) = 0
    BY <1>2 DEF Between
  <2> QED
    BY <1>1, <1>2, <1>5, <2>1 DEF Mine
<1>7. Mine'
  <2>1. \A l \in Locks : owner'[l] = Nobody
    <3>1. \A k \in 1..Len(My.held) : FALSE
      BY <1>2
    <3> QED
      BY <1>1, <1>2, <3>1 DEF Mine
  <2>2. nest' \in Nat /\ nest' = Base'
    BY <1>5, <1>6
  <2>3. (nest' # 0 => My'.pc = "run") /\ (nest' = 0 => ie')
    BY <1>2, <1>6, Zenon
  <2> QED
    BY <1>4, <2>1, <2>2, <2>3, TakeOver
<1>8. Shape'
  <2>1. /\ ctx' \in [Contexts -> Rec] /\ owner' \in [Locks -> Contexts \cup {Nobody}]
        /\ arch' \in {"riscv", "arm"} /\ nest' \in Nat
    BY <1>1, <1>2 DEF Shape
  <2>2. ie' \in BOOLEAN
    BY <1>2
  <2>3. stack' \in Seq(Contexts) /\ stack'[1] = t
    BY <1>2, <1>3
  <2>4. Len(stack') \in 1..(Len(Handlers) + 1) /\ \A i \in 2..Len(stack') : stack'[i] = Handlers[i - 1]
    BY <1>3, IrqAssumption
  <2>5. ~(Len(stack') > 1)
    BY <1>3
  <2> QED
    BY <1>3, <2>1, <2>2, <2>3, <2>4, <2>5 DEF Shape
<1> QED
  BY <1>4, <1>7, <1>8 DEF IrqInv

-----------------------------------------------------------------------------
LEMMA IrqNextKeeps == IrqInv /\ [IrqNext]_irqvars => IrqInv'
<1> SUFFICES ASSUME IrqInv, [IrqNext]_irqvars PROVE IrqInv'
  OBVIOUS
<1>1. CASE UNCHANGED irqvars
  BY <1>1 DEF irqvars, IrqInv, Shape, Away, Mine, Base, Between, My, Me, has_current_task
<1>2. CASE IrqNext
  <2>1. ASSUME NEW l \in Locks, NEW try \in BOOLEAN, DisableRead(l, try) PROVE IrqInv'
    BY <2>1, DisableReadKeeps
  <2>2. ASSUME NEW t \in IrqTasks, TrapReturn(t) \/ StartFirst(t) PROVE IrqInv'
    BY <2>2, TrapReturnKeeps, StartFirstKeeps
  <2> QED
    BY <1>2, <2>1, <2>2, DisableClearKeeps, DisableCountKeeps, AcquireKeeps, ReleaseKeeps,
       EnableCountKeeps, EnableSetKeeps, InterruptKeeps DEF IrqNext
<1> QED
  BY <1>1, <1>2

LEMMA IrqInvAlways == IrqSpec => []IrqInv
<1> QED
  BY IrqInitInv, IrqNextKeeps, PTL DEF IrqSpec

(* A lock call never waits on one CPU, because what runs never finds its   *)
(* lock with the code it interrupted or with a preempted task: lock() of   *)
(* sync.rs with disable_irq of arch.rs, for any tasks, locks and depth.    *)
THEOREM LocksNeverWait == IrqSpec => []NoSpinForEver
<1>1. IrqInv => NoSpinForEver
  <2> SUFFICES ASSUME IrqInv, My.pc = "acquire", ~My.try PROVE owner[My.lock] = Nobody
    BY DEF NoSpinForEver
  <2>1. My.lock \in Locks /\ \A k \in 1..Len(My.held) : My.held[k] # My.lock
    BY DEF IrqInv, Mine
  <2> QED
    BY <2>1 DEF IrqInv, Mine
<1> QED
  BY <1>1, IrqInvAlways, PTL

(* While any lock is held interrupts are off, which is why the sections of *)
(* the kernel under a Mutex are one step on one CPU.                       *)
THEOREM SectionsAreMasked == IrqSpec => []LockedMeansMasked
<1>1. IrqInv => LockedMeansMasked
  <2> SUFFICES ASSUME IrqInv, NEW l \in Locks, owner[l] # Nobody, ie PROVE FALSE
    BY DEF LockedMeansMasked
  <2> QED
    BY OpenFacts DEF IrqInv
<1> QED
  BY <1>1, IrqInvAlways, PTL

(* A task outside every section runs with interrupts on and the nesting    *)
(* count at zero, whatever locks, failed try_locks and traps came before:  *)
(* enable_irq of arch.rs undoes every disable_irq.                         *)
THEOREM MaskIsUndone == IrqSpec => []MaskedOnlyInside
<1>1. IrqInv => MaskedOnlyInside
  <2> SUFFICES ASSUME IrqInv, Len(stack) = 1, has_current_task, My.pc = "run", My.held = <<>>
               PROVE  ie /\ nest = 0
    BY DEF MaskedOnlyInside
  <2>1. Base = 0 /\ Between = 0 /\ Len(My.held) = 0
    BY DEF Base, Between
  <2>2. nest = 0
    BY <2>1 DEF IrqInv, Mine
  <2> QED
    BY <2>2 DEF IrqInv, Mine
<1> QED
  BY <1>1, IrqInvAlways, PTL

(* Interrupts stay off until the first task runs: enable_irq looks for a   *)
(* current task before it sets the flag.                                   *)
THEOREM BootIsQuiet == IrqSpec => []QuietBoot
<1>1. IrqInv => QuietBoot
  BY DEF IrqInv, Shape, QuietBoot, has_current_task
<1> QED
  BY <1>1, IrqInvAlways, PTL
=============================================================================
