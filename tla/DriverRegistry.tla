--------------------------- MODULE DriverRegistry ---------------------------
(***************************************************************************)
(* The driver manager (kernel/src/driver/manager.rs) and the external      *)
(* interrupt table in front of it (kernel/src/irq/mod.rs).  Every table    *)
(* has an interrupt-disabling lock of its own, so a registration is a row  *)
(* of sections and other tasks and interrupts come between them.  An       *)
(* interrupt handler runs to its end and is one step.                      *)
(*                                                                         *)
(* A driver is a record: name, base and irq of its resource, the classes   *)
(* it implements, whether its handle_irq answers to its line, and the      *)
(* object it is (obj).                                                     *)
(***************************************************************************)
EXTENDS Integers, Sequences, FiniteSets

CONSTANTS
    DriverSet,      \* the driver objects of the instance
    Cap,            \* MAX_DRIVERS
    MaxIrq,         \* MAX_EXTERNAL_IRQS
    IrqCount,       \* external_irq_count of the platform
    Agents,         \* tasks that register and unregister
    Nil

ASSUME RegistryAssumption ==
    /\ Cap \in Nat \ {0} /\ MaxIrq \in Nat \ {0} /\ IrqCount \in Nat
    /\ Nil \notin DriverSet

VARIABLES
    reg,            \* the tables and counters of the manager
    irq_state,      \* IRQ_STATE: the lines with a handler of their own
    irq_out,        \* what the last interrupt came to
    rpc, rdrv, todo, \* each agent's place, driver and classes still to do
    overlap         \* history: a registration and an unregistration overlapped;
                    \* bound: no call starts after that

rgvars == <<reg, irq_state, irq_out, rpc, rdrv, todo, overlap>>

Classes == {"block", "char", "terminal", "gpio", "framebuffer", "net", "rng"}
ClassOrder == <<"block", "char", "terminal", "gpio", "framebuffer", "net", "rng">>
Slots == 1..Cap
Empty == [i \in Slots |-> Nil]

EmptyRegistry ==
    [drivers |-> Empty,
     bucket  |-> [k \in Classes |-> Empty],
     irq     |-> [i \in 0..(MaxIrq - 1) |-> Nil],
     n       |-> 0,
     classes |-> [k \in Classes |-> 0]]

In(table) == {table[i] : i \in Slots} \ {Nil}
FirstFree(table) == {i \in Slots : table[i] = Nil /\ \A j \in 1..(i - 1) : table[j] # Nil}
FirstWith(table, P(_)) ==
    {i \in Slots : table[i] # Nil /\ P(table[i])
                   /\ \A j \in 1..(i - 1) : table[j] = Nil \/ ~P(table[j])}

\* DriverIdentity: the name and the resource, not the object
identity(d) == <<d.name, d.base, d.irq>>

\* bucket_has_space, and push_bucket_slot, which has no answer for a full one
bucket_has_space(r, k) == FirstFree(r.bucket[k]) # {}
push_bucket_slot(table, d) ==
    [i \in Slots |-> IF i \in FirstFree(table) THEN d ELSE table[i]]
remove_bucket_slot(table, d) ==
    [i \in Slots |-> IF i \in FirstWith(table, LAMBDA e : e = d) THEN Nil ELSE table[i]]

\* bump_registered_class_counts, with the counter of all drivers
bump_counts(r, d, by) ==
    [r EXCEPT !.n = @ + by,
              !.classes = [k \in Classes |-> IF k \in d.class THEN @[k] + by ELSE @[k]]]

\* The locked part of register_driver: its answer and the table it leaves.
ClaimSlot(r, d) ==
    IF \E e \in In(r.drivers) : identity(e) = identity(d) THEN "InvalidConfig"
    ELSE IF FirstFree(r.drivers) = {} THEN "RegistryFull"
    ELSE IF \E k \in d.class : ~bucket_has_space(r, k) THEN "RegistryFull"
    ELSE "ok"
PutDriver(r, d) == [r EXCEPT !.drivers = push_bucket_slot(@, d)]

\* register_irq_fast_path: the first driver of a line keeps it
HasLine(d) == d.irq # 0 /\ d.irq < MaxIrq
register_irq_fast_path(r, d) ==
    IF HasLine(d) /\ r.irq[d.irq] = Nil THEN [r EXCEPT !.irq[d.irq] = d] ELSE r

KeepFastPath(r, d) == r
unregister_irq_fast_path(r, d) ==
    IF HasLine(d) /\ r.irq[d.irq] = d THEN [r EXCEPT !.irq[d.irq] = Nil] ELSE r

\* for_each_*_device and for_each_driver: the drivers of a table, in slot order
ForEach(table) == SelectSeq([i \in Slots |-> table[i]], LAMBDA d : d # Nil)

\* register_driver without anything in between, as at boot
RegisterWhole(r, d) ==
    LET pushed == [PutDriver(r, d) EXCEPT !.bucket =
                     [k \in Classes |-> IF k \in d.class THEN push_bucket_slot(@[k], d) ELSE @[k]]]
    IN  register_irq_fast_path(bump_counts(pushed, d, 1), d)

-----------------------------------------------------------------------------
\* dispatch_irq: the driver of the fast path, then every registered driver.
Answers(d, i) == d.answers /\ d.irq = i
dispatch_irq(r, i) ==
    IF r.irq[i] # Nil /\ Answers(r.irq[i], i) THEN r.irq[i]
    ELSE LET hit == FirstWith(r.drivers, LAMBDA d : Answers(d, i))
         IN  IF hit = {} THEN Nil ELSE r.drivers[CHOOSE x \in hit : TRUE]

\* irq::handle_irq: out of range, a handler of its own, or the drivers.
handle_irq(i) ==
    /\ irq_out' = IF i >= IrqCount THEN "out of range"
                  ELSE IF i \in irq_state \/ dispatch_irq(reg, i) # Nil THEN "handled"
                  ELSE "unhandled"
    /\ UNCHANGED <<reg, irq_state, rpc, rdrv, todo, overlap>>

\* add_irq_handler and remove_irq_handler refuse lines out of range.
add_irq_handler(i) ==
    /\ irq_state' = IF i < IrqCount THEN irq_state \cup {i} ELSE irq_state
    /\ UNCHANGED <<reg, irq_out, rpc, rdrv, todo, overlap>>
remove_irq_handler(i) ==
    /\ irq_state' = IF i < IrqCount THEN irq_state \ {i} ELSE irq_state
    /\ UNCHANGED <<reg, irq_out, rpc, rdrv, todo, overlap>>

-----------------------------------------------------------------------------
Others(a, places) == \E b \in Agents \ {a} : rpc[b] \in places
Registering == {"push", "count", "fast"}
Unregistering == {"unfast", "remove", "uncount"}

\* register_driver, up to the end of the section of DRIVERS
register_driver(a, d) ==
    /\ rpc[a] = "idle" /\ ~overlap
    /\ IF ClaimSlot(reg, d) = "ok"
         THEN /\ reg' = PutDriver(reg, d)
              /\ rpc' = [rpc EXCEPT ![a] = "push"]
              /\ rdrv' = [rdrv EXCEPT ![a] = d]
              /\ todo' = [todo EXCEPT ![a] = SelectSeq(ClassOrder, LAMBDA k : k \in d.class)]
              /\ overlap' = (overlap \/ Others(a, Unregistering))
         ELSE UNCHANGED <<reg, rpc, rdrv, todo, overlap>>
    /\ UNCHANGED <<irq_state, irq_out>>

\* its sections after that: one bucket at a time, the counters, the fast path
PushBuckets(a) ==
    /\ rpc[a] = "push"
    /\ IF todo[a] = <<>>
         THEN rpc' = [rpc EXCEPT ![a] = "count"] /\ UNCHANGED <<reg, todo>>
         ELSE /\ reg' = [reg EXCEPT !.bucket[Head(todo[a])] = push_bucket_slot(@, rdrv[a])]
              /\ todo' = [todo EXCEPT ![a] = Tail(@)] /\ UNCHANGED rpc
    /\ UNCHANGED <<irq_state, irq_out, rdrv, overlap>>
CountIn(a) ==
    /\ rpc[a] = "count"
    /\ reg' = bump_counts(reg, rdrv[a], 1) /\ rpc' = [rpc EXCEPT ![a] = "fast"]
    /\ UNCHANGED <<irq_state, irq_out, rdrv, todo, overlap>>
FastIn(a) ==
    /\ rpc[a] = "fast"
    /\ reg' = register_irq_fast_path(reg, rdrv[a])
    /\ rpc' = [rpc EXCEPT ![a] = "idle"] /\ rdrv' = [rdrv EXCEPT ![a] = Nil]
    /\ UNCHANGED <<irq_state, irq_out, todo, overlap>>

\* unregister_driver(name) and unregister_driver_by_identity(identity): the
\* first driver that matches leaves DRIVERS at once, the other tables after it
TakeOut(a, matching) ==
    /\ rpc[a] = "idle" /\ ~overlap
    /\ \E i \in FirstWith(reg.drivers, LAMBDA d : d \in matching) :
         LET d == reg.drivers[i] IN
         /\ reg' = [reg EXCEPT !.drivers[i] = Nil]
         /\ rdrv' = [rdrv EXCEPT ![a] = d]
         /\ todo' = [todo EXCEPT ![a] = SelectSeq(ClassOrder, LAMBDA k : k \in d.class)]
    /\ rpc' = [rpc EXCEPT ![a] = "unfast"]
    /\ overlap' = (overlap \/ Others(a, Registering))
    /\ UNCHANGED <<irq_state, irq_out>>
unregister_driver(a, name) == TakeOut(a, {d \in In(reg.drivers) : d.name = name})
unregister_driver_by_identity(a, id) == TakeOut(a, {d \in In(reg.drivers) : identity(d) = id})

FastOut(a) ==
    /\ rpc[a] = "unfast"
    /\ reg' = unregister_irq_fast_path(reg, rdrv[a]) /\ rpc' = [rpc EXCEPT ![a] = "remove"]
    /\ UNCHANGED <<irq_state, irq_out, rdrv, todo, overlap>>
RemoveBuckets(a) ==
    /\ rpc[a] = "remove"
    /\ IF todo[a] = <<>>
         THEN rpc' = [rpc EXCEPT ![a] = "uncount"] /\ UNCHANGED <<reg, todo>>
         ELSE /\ reg' = [reg EXCEPT !.bucket[Head(todo[a])] = remove_bucket_slot(@, rdrv[a])]
              /\ todo' = [todo EXCEPT ![a] = Tail(@)] /\ UNCHANGED rpc
    /\ UNCHANGED <<irq_state, irq_out, rdrv, overlap>>
CountOut(a) ==
    /\ rpc[a] = "uncount"
    /\ reg' = bump_counts(reg, rdrv[a], -1)
    /\ rpc' = [rpc EXCEPT ![a] = "idle"] /\ rdrv' = [rdrv EXCEPT ![a] = Nil]
    /\ UNCHANGED <<irq_state, irq_out, todo, overlap>>

RgInit ==
    /\ reg = EmptyRegistry
    /\ irq_state = {} /\ irq_out = "none"
    /\ rpc = [a \in Agents |-> "idle"] /\ rdrv = [a \in Agents |-> Nil]
    /\ todo = [a \in Agents |-> <<>>] /\ overlap = FALSE

RgNext ==
    \/ \E a \in Agents :
         \/ \E d \in DriverSet :
              \/ register_driver(a, d)
              \/ unregister_driver(a, d.name)
              \/ unregister_driver_by_identity(a, identity(d))
         \/ PushBuckets(a) \/ CountIn(a) \/ FastIn(a)
         \/ FastOut(a) \/ RemoveBuckets(a) \/ CountOut(a)
    \/ \E i \in 0..MaxIrq : handle_irq(i) \/ add_irq_handler(i) \/ remove_irq_handler(i)

RgSpec == RgInit /\ [][RgNext]_rgvars

-----------------------------------------------------------------------------
(* Once nobody is inside, the class tables hold each registered driver of  *)
(* the class exactly once and nothing else, the counters are their sizes,  *)
(* and the interrupt fast path names registered drivers only.  It is so    *)
(* although the buckets are filled after the lock of DRIVERS is dropped,   *)
(* unless a registration and an unregistration overlap.                    *)
TablesAgree ==
    (\A a \in Agents : rpc[a] = "idle") /\ ~overlap =>
        LET all == In(reg.drivers) IN
        /\ reg.n = Cardinality(all)
        /\ \A k \in Classes :
             LET members == {d \in all : k \in d.class} IN
             /\ In(reg.bucket[k]) = members
             /\ Len(ForEach(reg.bucket[k])) = Cardinality(members)
             /\ reg.classes[k] = Cardinality(members)
        /\ \A i \in 0..(MaxIrq - 1) : reg.irq[i] = Nil \/ reg.irq[i] \in all

=============================================================================
