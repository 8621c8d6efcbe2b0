----------------------------- MODULE BootProbe ------------------------------
(***************************************************************************)
(* Drivers at boot: register_factory, auto_probe_fdt over the nodes that   *)
(* walk_nodes delivers, and auto_drivers_init over the platform's own      *)
(* list.  Interrupts are off and one CPU runs, so every call is one step.  *)
(* Factories take driver objects from pools whose slots are never given    *)
(* back (driver/pool.rs).                                                  *)
(***************************************************************************)
EXTENDS DriverRegistry, DeviceTree, SequencesExt

CONSTANTS
    Factories,      \* the factories the platform registers, in order
    MaxFactories,   \* MAX_FACTORIES
    NodeChoices,    \* nodes as walk_nodes delivers them, with their device
    MaxProbes,      \* bound: nodes of the device tree
    PlatformDrivers \* P::drivers(): each with the outcome of its init

VARIABLES
    stage,          \* "factories", "probe", "done"
    factories,      \* FACTORIES
    pool,           \* the next counter of each factory's pool
    probed,         \* history: the nodes seen, with what came of them
    stats,          \* PROBE_MATCHES, PROBE_SUCCESSES, PROBE_FAILURES, count
    breg,           \* the registry
    inited          \* the drivers whose auto_init succeeded, in order

bpvars == <<stage, factories, pool, probed, stats, breg, inited>>

-----------------------------------------------------------------------------
\* register_factory: the same object twice is refused, and a full table is.
register_factory(f) ==
    /\ stage = "factories"
    /\ factories' = IF (\E i \in 1..Len(factories) : factories[i] = f)
                       \/ Len(factories) = MaxFactories
                    THEN factories ELSE Append(factories, f)
    /\ UNCHANGED <<stage, pool, probed, stats, breg, inited>>

\* StaticDriverPool::alloc: fetch_add, then the bound
PoolLastUnused(n, cap) == n + 1 < cap
PoolHas(n, cap) == n < cap

\* Factory probes: the UART's takes a slot and always answers; a virtio one
\* first looks at the device's id, and its slot is gone when init_hw fails.
WantsDevice(f, node) == ~f.checks_id \/ node.device = f.name
UartProbe(f, node, slot) == PoolHas(slot, f.cap)
VirtioProbe(f, node, slot) == WantsDevice(f, node) /\ PoolHas(slot, f.cap) /\ node.healthy
Probe(f, node, st) ==
    LET slot == st.pool[f.name]
        got == IF f.checks_id THEN VirtioProbe(f, node, slot) ELSE UartProbe(f, node, slot)
        d == [name |-> f.name, base |-> node.base, irq |-> interrupt_or_zero(node),
              class |-> f.class, answers |-> TRUE, obj |-> <<f.name, slot>>] IN
    [driver |-> IF got THEN d ELSE Nil,
     pool |-> IF WantsDevice(f, node) THEN [st.pool EXCEPT ![f.name] = @ + 1] ELSE st.pool]

\* One matching compatible string of one factory; nothing once probed.
TryFactory(st, fc) ==
    LET f == fc[1]  c == fc[2]
        p == Probe(f, st.node, st)
        ok == p.driver # Nil /\ ClaimSlot(st.reg, p.driver) = "ok" IN
    IF st.probed \/ ~compatible_matches(st.node, c) THEN st
    ELSE [st EXCEPT !.pool = p.pool, !.matches = @ + 1,
                    !.probed = ok, !.successes = @ + (IF ok THEN 1 ELSE 0),
                    !.failures = @ + (IF ok THEN 0 ELSE 1),
                    !.reg = IF ok THEN RegisterWhole(@, p.driver) ELSE @,
                    !.inited = IF ok THEN Append(@, p.driver) ELSE @]

\* Every factory with each of its compatible strings, in order
Tries == FlattenSeq([i \in 1..Len(factories) |->
            [j \in 1..Len(factories[i].compatible) |-> <<factories[i], factories[i].compatible[j]>>]])

\* auto_probe_fdt's callback.  The init of the drivers factories make cannot
\* fail: their hardware is set up by the probe, or without an answer.
ProbeNode(n) ==
    /\ stage \in {"factories", "probe"} /\ Len(probed) < MaxProbes
    /\ stage' = "probe"
    /\ LET node == [n EXCEPT !.base = Len(probed) + 1]
           skip == ~is_available(node) \/ first_reg(node) = NoneV
           st == [node |-> node, pool |-> pool, probed |-> FALSE, reg |-> breg, inited |-> inited,
                  matches |-> stats.matches, successes |-> stats.successes,
                  failures |-> stats.failures]
           end == IF skip THEN st ELSE FoldLeft(TryFactory, st, Tries) IN
       /\ pool' = end.pool /\ breg' = end.reg /\ inited' = end.inited
       /\ stats' = [matches |-> end.matches, successes |-> end.successes,
                    failures |-> end.failures]
       /\ probed' = Append(probed, [node |-> node, skip |-> skip, ok |-> end.probed,
                                    full |-> FirstFree(breg.drivers) = {},
                                    pool |-> pool])
    /\ UNCHANGED factories

\* auto_drivers_init: a driver is registered before its init, and stays
\* registered when that fails.
InitOf(st, p) ==
    IF ClaimSlot(st.reg, p.driver) # "ok" THEN st
    ELSE [reg |-> RegisterWhole(st.reg, p.driver),
          inited |-> IF p.init_ok THEN Append(st.inited, p.driver) ELSE st.inited]
auto_drivers_init ==
    /\ stage \in {"factories", "probe"} /\ stage' = "done"
    /\ LET end == FoldLeft(InitOf, [reg |-> breg, inited |-> inited], PlatformDrivers) IN
       breg' = end.reg /\ inited' = end.inited
    /\ UNCHANGED <<factories, pool, probed, stats>>

-----------------------------------------------------------------------------
BpInit ==
    /\ stage = "factories" /\ factories = <<>>
    /\ pool = [f \in {Factories[i].name : i \in 1..Len(Factories)} |-> 0]
    /\ probed = <<>> /\ stats = [matches |-> 0, successes |-> 0, failures |-> 0]
    /\ breg = EmptyRegistry /\ inited = <<>>

BpNext ==
    \/ Len(factories) < Len(Factories) /\ register_factory(Factories[Len(factories) + 1])
    \/ Len(factories) = Len(Factories)
       /\ ((\E n \in NodeChoices : ProbeNode(n)) \/ auto_drivers_init)

BpSpec == BpInit /\ [][BpNext]_bpvars

-----------------------------------------------------------------------------
(* A device that is enabled, decodes and works gets its driver, except for *)
(* a full registry or a factory whose pool slots were all handed out       *)
(* before, be it to devices whose set-up then failed.                      *)
HealthyDevicesServed ==
    \A i \in 1..Len(probed) :
        LET p == probed[i] IN
        (\E k \in 1..Len(factories) :
            LET f == factories[k] IN
            /\ ~p.skip /\ p.node.healthy /\ WantsDevice(f, p.node)
            /\ \E j \in 1..Len(f.compatible) : compatible_matches(p.node, f.compatible[j])
            /\ p.pool[f.name] < f.cap)
        => p.ok \/ p.full

=============================================================================
