------------------------------- MODULE Process -------------------------------
(* The root task, which registers and starts the init services               *)
(* (kernel/src/process/root.rs, init.rs), and the ELF loader (elf.rs), which *)
(* copies the segments of an image one after the other.  Both are            *)
(* sequential.  Images are executables whose sums of offsets and sizes do    *)
(* not overflow; a header is abstracted to the fields the loader uses.       *)
EXTENDS Integers, Sequences, FiniteSets, FiniteSetsExt

CONSTANTS
    ServiceCap,   \* INIT_SERVICE_CAP
    ElfImages,    \* images: what is wrong with the header, bytes, headers that can be
                  \* read, and the program headers
    Addresses     \* physical addresses, 0..n

ASSUME ServiceCapAssumption == ServiceCap \in Nat \ {0}

VARIABLES
    features,   \* async_rt, builtin_shell, OPENION_ASYNC_RT
    services,   \* InitManager
    stats,      \* InitStats, and the services run
    rootpc,
    elf,        \* the image
    phys,       \* memory
    loading     \* load_elf: next header, load_base, load_end, result

procVars == <<features, services, stats, rootpc, elf, phys, loading>>

NoStats == [registered |-> 0, started |-> 0, skipped |-> 0, failed |-> 0, run |-> <<>>]

\* a byte that was in memory before
OldByte == -1

ProcInit ==
    /\ features \in [async_rt : BOOLEAN, builtin_shell : BOOLEAN, on : BOOLEAN]
    /\ services = <<>> /\ stats = NoStats /\ rootpc = "register_async"
    /\ elf \in ElfImages
    /\ phys = [a \in Addresses |-> OldByte]
    /\ loading = [next |-> 1, base |-> Cardinality(Addresses), end |-> 0, result |-> "none"]

-----------------------------------------------------------------------------
(* Init services.                                                            *)

\* register_init_service only logs a refusal
register(name) ==
    IF Len(services) < ServiceCap THEN Append(services, name) ELSE services

RegisterAsync ==
    /\ rootpc = "register_async"
    /\ services' = IF features.async_rt THEN register("async") ELSE services
    /\ rootpc' = "register_shell"
    /\ UNCHANGED <<features, stats, elf, phys, loading>>

RegisterShell ==
    /\ rootpc = "register_shell"
    /\ services' = IF features.builtin_shell THEN register("shell") ELSE services
    /\ rootpc' = IF features.async_rt \/ features.builtin_shell THEN "run" ELSE "loop"
    /\ stats' = [NoStats EXCEPT !.registered = Len(services')]
    /\ UNCHANGED <<features, elf, phys, loading>>

\* start_async_runtime is disabled by configuration; both fail when there is no TCB
start(name) ==
    IF name = "async" /\ ~features.on THEN {"disabled"} ELSE {"ok", "failed"}

RunServiceStops ==
    /\ rootpc = "run" /\ Len(stats.run) < Len(services)
    /\ LET name == services[Len(stats.run) + 1] IN
       \E outcome \in start(name) :
         /\ stats' = [stats EXCEPT !.run = Append(@, <<name, outcome>>),
                                   !.started = @ + (IF outcome = "ok" THEN 1 ELSE 0),
                                   !.skipped = @ + (IF outcome = "disabled" THEN 1 ELSE 0),
                                   !.failed = @ + (IF outcome = "failed" THEN 1 ELSE 0)]
         /\ rootpc' = IF outcome = "failed" THEN "loop" ELSE rootpc
    /\ UNCHANGED <<features, services, elf, phys, loading>>

RunService ==
    /\ rootpc = "run" /\ Len(stats.run) < Len(services)
    /\ LET name == services[Len(stats.run) + 1] IN
       \E outcome \in start(name) :
         stats' = [stats EXCEPT !.run = Append(@, <<name, outcome>>),
                                !.started = @ + (IF outcome = "ok" THEN 1 ELSE 0),
                                !.skipped = @ + (IF outcome = "disabled" THEN 1 ELSE 0),
                                !.failed = @ + (IF outcome = "failed" THEN 1 ELSE 0)]
    /\ UNCHANGED <<features, services, rootpc, elf, phys, loading>>

\* without the shell, nothing started means there is no init process
root_task ==
    /\ rootpc = "run" /\ Len(stats.run) = Len(services)
    /\ rootpc' = IF ~features.builtin_shell /\ stats.started = 0 THEN "panic" ELSE "loop"
    /\ UNCHANGED <<features, services, stats, elf, phys, loading>>

-----------------------------------------------------------------------------
(* The ELF loader.                                                           *)

validate_elf == elf.header \notin {"small", "magic", "class", "endian"}

Fail == loading' = [loading EXCEPT !.result = "error"] /\ UNCHANGED phys

\* a later segment overwrites an earlier one, and memory beyond the file part is zero
CopiedNoBss(m, ph) ==
    [a \in Addresses |-> IF a - ph.addr \in 0..(ph.filesz - 1) THEN elf.data[ph.off + a - ph.addr + 1]
                         ELSE m[a]]

Copied(m, ph) ==
    [a \in Addresses |-> IF a - ph.addr \in 0..(ph.filesz - 1) THEN elf.data[ph.off + a - ph.addr + 1]
                         ELSE IF a - ph.addr \in ph.filesz..(ph.memsz - 1) THEN 0 ELSE m[a]]

Bounds(l, ph) ==
    [l EXCEPT !.base = IF ph.addr < @ THEN ph.addr ELSE @,
              !.end = IF ph.addr + ph.memsz > @ THEN ph.addr + ph.memsz ELSE @]

Advance(l) == [l EXCEPT !.next = @ + 1]

load_elfHeader ==
    /\ loading.result = "none"
    /\ IF ~validate_elf \/ elf.header = "type" THEN Fail
       ELSE loading' = [loading EXCEPT !.result = "segments"] /\ UNCHANGED phys
    /\ UNCHANGED <<features, services, stats, rootpc, elf>>

load_elfSegment ==
    /\ loading.result = "segments" /\ loading.next <= Len(elf.phdrs)
    /\ LET ph == elf.phdrs[loading.next] IN
       IF loading.next > elf.readable THEN Fail
       ELSE IF ph.type # "LOAD"
       THEN loading' = Advance(loading) /\ UNCHANGED phys
       ELSE IF ph.off + ph.filesz > Len(elf.data) THEN Fail
       ELSE /\ phys' = Copied(phys, ph)
            /\ loading' = Advance(Bounds(loading, ph))
    /\ UNCHANGED <<features, services, stats, rootpc, elf>>

load_elfEnd ==
    /\ loading.result = "segments" /\ loading.next > Len(elf.phdrs)
    /\ IF loading.base >= loading.end THEN Fail
       ELSE loading' = [loading EXCEPT !.result = "ok"] /\ UNCHANGED phys
    /\ UNCHANGED <<features, services, stats, rootpc, elf>>

ProcNext ==
    \/ RegisterAsync \/ RegisterShell \/ RunService \/ root_task
    \/ load_elfHeader \/ load_elfSegment \/ load_elfEnd

ProcSpec == ProcInit /\ [][ProcNext]_procVars

-----------------------------------------------------------------------------
(* Properties.                                                               *)

\* When the root task goes to sleep, every service that was registered was
\* started once, in order, whatever became of the ones before it, and the
\* figures it prints add up; it panics only when nothing at all was started.
ServicesAccounted ==
    /\ rootpc = "loop" =>
        /\ [i \in DOMAIN stats.run |-> stats.run[i][1]] = services
        /\ stats.registered = stats.started + stats.skipped + stats.failed
    /\ rootpc = "panic" => \A i \in DOMAIN stats.run : stats.run[i][2] # "ok"

Loads(n) == {i \in 1..n : elf.phdrs[i].type = "LOAD"}

Covering(n, a) == {i \in Loads(n) : LET ph == elf.phdrs[i] IN
                     a - ph.addr \in 0..(Max({ph.filesz, ph.memsz}) - 1)}

\* The byte at an address after the first n headers: the last segment that
\* covers the address decides, with a byte of the file or zero.
ByteAfter(n, a) ==
    IF Covering(n, a) = {} THEN OldByte
    ELSE LET ph == elf.phdrs[Max(Covering(n, a))] IN
         IF a - ph.addr < ph.filesz THEN elf.data[ph.off + a - ph.addr + 1] ELSE 0

\* After load_elf, and after an error too, memory holds the segments of the
\* headers before the one it stopped at and is unchanged elsewhere.
MemoryIsSegments == \A a \in Addresses : phys[a] = ByteAfter(loading.next - 1, a)

=============================================================================
