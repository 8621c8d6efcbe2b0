----------------------------- MODULE Hypervisor ------------------------------
(* The hypervisor: its state and the table of virtual machines               *)
(* (kernel/src/hv.rs, driven by the vm command of the shell), and the exits  *)
(* of a guest (arch/src/riscv/hypervisor: entry.S, entry.rs, sbi.rs).         *)
(*                                                                           *)
(* Only the shell task uses the table, and an exit is handled with the guest *)
(* stopped, so every operation is one step.  `vm run` is not wired to        *)
(* guest_run; the exits are modelled for a guest that a caller of guest_run  *)
(* enters.  Register contents are not modelled, except a0, a1 of a call.     *)
EXTENDS Integers, Sequences, FiniteSets, SequencesExt

CONSTANTS
    VmCap,      \* MAX_VMS
    VmNames,    \* names a user types, valid ones
    BadNames,   \* names that are empty or longer than VM_NAME_MAX
    Images,     \* guest images: the sequence of their words
    MemWords,   \* words of a guest memory (GUEST_MEM_SIZE)
    PcMod,      \* guest program counters wrap at usize
    IdMod       \* next_id wraps at 2^32

ASSUME VmCapAssumption == VmCap \in Nat \ {0}

VARIABLES
    hv,       \* STATE, ENABLED, VM_COUNT, VCPU_COUNT, LAST_EXIT, LAST_CAUSE
    slots,    \* VM_TABLE's slots
    next_id,
    gmem,     \* GUEST_MEMORY
    loaded,   \* history: the image last loaded for a name
    vcpu,     \* the context in memory and the registers of the hart that runs it
    answered  \* history: the instruction whose call was answered, when the guest resumes

hvVars == <<hv, slots, next_id, gmem, loaded, vcpu, answered>>

NoVm == [state |-> "Empty", name |-> "", id |-> 0, vcpus |-> 0, host_base |-> 0]

init(compiled, h_extension) ==
    [state |-> IF ~compiled THEN "Disabled" ELSE IF h_extension THEN "Ready" ELSE "Unsupported",
     compiled |-> compiled, enabled |-> compiled /\ h_extension, vm_count |-> 0, vcpu_count |-> 0,
     last_exit |-> "None", last_cause |-> <<"none", 0>>]

\* VCpuContext::new, set_entry and load_csrs: the guest's program counter is
\* the context's vsepc, and the vsepc register has the same value
NewVcpu(entry) ==
    [mode |-> "host", pc |-> entry, vsepc |-> entry, csr |-> entry,
     a0 |-> 0, a1 |-> 0, hvip |-> {}, reason |-> 0]

HvInit ==
    /\ \E c, h \in BOOLEAN : (h => c) /\ hv = init(c, h)
    /\ slots = [i \in 1..VmCap |-> NoVm]
    /\ next_id = 1
    /\ gmem = [i \in 1..VmCap |-> <<>>]
    /\ loaded = [n \in VmNames |-> <<>>]
    /\ vcpu = NewVcpu(0)
    /\ answered = -1

-----------------------------------------------------------------------------
(* The table.                                                                *)

Named(n) == {i \in 1..VmCap : slots[i].state # "Empty" /\ slots[i].name = n}

Unused == {i \in 1..VmCap : slots[i].state = "Empty"}

\* create_vm's first test: Unsupported passes only when compiled in
MayCreate == hv.state = "Ready" \/ (hv.state = "Unsupported" /\ hv.compiled)

create_vm(n) ==
    /\ MayCreate /\ n \notin BadNames /\ Named(n) = {} /\ Unused # {}
    /\ slots' = [slots EXCEPT ![Min(Unused)] =
                    [state |-> "Created", name |-> n, id |-> next_id, vcpus |-> 1, host_base |-> 0]]
    /\ next_id' = IF (next_id + 1) % IdMod = 0 THEN 1 ELSE (next_id + 1) % IdMod
    /\ hv' = [hv EXCEPT !.vm_count = @ + 1, !.vcpu_count = @ + 1]
    /\ UNCHANGED <<gmem, loaded, vcpu, answered>>

load_guest_memoryUncleared(i, image) ==
    [gmem EXCEPT ![i] = image \o SubSeq(@, Len(image) + 1, Len(@))]

\* the memory of the slot is cleared before the image is copied in
load_guest_memory(i, image) == [gmem EXCEPT ![i] = image]

load_image(n, image) ==
    /\ Len(image) <= MemWords
    /\ \E i \in Named(n) :
        /\ i = Min(Named(n)) /\ slots[i].state # "Running"
        /\ slots' = [slots EXCEPT ![i].state = "Ready", ![i].host_base = i]
        /\ gmem' = load_guest_memory(i, image)
        /\ loaded' = [loaded EXCEPT ![n] = image]
    /\ UNCHANGED <<hv, next_id, vcpu, answered>>

\* (EXITS is only counted)
record_exit(h, kind, cause) ==
    [h EXCEPT !.last_exit = kind, !.last_cause = cause]

set_faulted(h, cause) == record_exit([h EXCEPT !.state = "Faulted"], "Fatal", cause)

mark_vm_faulted(n, cause) ==
    /\ \E i \in Named(n) : i = Min(Named(n)) /\ slots' = [slots EXCEPT ![i].state = "Faulted"]
    /\ hv' = set_faulted(hv, cause)
    /\ UNCHANGED <<next_id, gmem, loaded, vcpu, answered>>

\* find_vm, list_vms, stats and vm run only read; the shell is the task that runs guests
cmd_vm == vcpu.mode = "host" /\ \E n \in VmNames \cup BadNames :
             create_vm(n) \/ (n \in VmNames /\ \E image \in Images : load_image(n, image))

-----------------------------------------------------------------------------
(* A guest and its exits.                                                    *)

\* by a caller that loaded a guest and has the H extension
guest_run ==
    /\ vcpu.mode = "host" /\ hv.enabled
    /\ \E i \in 1..VmCap : slots[i].state = "Ready"
    /\ vcpu' = [vcpu EXCEPT !.mode = "guest", !.pc = vcpu.vsepc, !.reason = 0]
    /\ UNCHANGED <<hv, slots, next_id, gmem, loaded, answered>>

\* the guest takes its pending interrupts and executes an instruction that does not trap
GuestStep ==
    /\ vcpu.mode = "guest"
    /\ vcpu' = [vcpu EXCEPT !.pc = (@ + 4) % PcMod, !.hvip = {}, !.a0 = 0, !.a1 = 0]
    /\ answered' = -1
    /\ UNCHANGED <<hv, slots, next_id, gmem, loaded>>

SBI_SUCCESS == 0

SBI_ERR_NOT_SUPPORTED == -1

\* extensions by what handle_ecall does with them; a character may be waiting or not
Calls == {"TIME", "PUTCHAR", "GETCHAR", "FENCE", "IPI", "HSM_START", "HSM_OTHER", "SRST", "OTHER"}

Answers(call) ==
    IF call = "GETCHAR" THEN {<<SBI_SUCCESS, 65>>, <<SBI_ERR_NOT_SUPPORTED, 0>>}
    ELSE IF call \in {"HSM_OTHER", "OTHER"} THEN {<<SBI_ERR_NOT_SUPPORTED, 0>>}
    ELSE {<<SBI_SUCCESS, 0>>}

handle_ecall(ctx, answer) == [ctx EXCEPT !.a0 = answer[1], !.a1 = answer[2]]

exit_kind(cause) ==
    IF cause[1] = "interrupt" THEN "Interrupt"
    ELSE IF cause[2] = 8 THEN "Ecall"
    ELSE IF cause[2] = 2 THEN "IllegalInstruction"
    ELSE IF cause[2] \in {12, 13, 15} THEN "PageFault" ELSE "Unsupported"

\* software and timer interrupts are forwarded; 9 leaves; others are ignored
handle_interrupt(ctx, irq) ==
    [ctx EXCEPT !.hvip = @ \cup (IF irq = 1 THEN {"VSSIP"} ELSE IF irq = 5 THEN {"VSTIP"} ELSE {}),
                !.reason = IF irq = 9 THEN irq ELSE 0]

\* the reason of an exception is its number, which for number 0 means resume
handle_exception(ctx, number, answer) ==
    IF number = 8
    THEN [handle_ecall(ctx, answer) EXCEPT !.vsepc = (@ + 4) % PcMod, !.reason = 0]
    ELSE [ctx EXCEPT !.reason = number]

\* hypervisor_trap_vector saves the vsepc register; the interrupted
\* instruction's address is in sepc
Saved(ctx) == [ctx EXCEPT !.vsepc = ctx.csr]

\* a resumed guest goes on at the context's vsepc
Resumed(ctx) ==
    IF ctx.reason = 0 THEN [ctx EXCEPT !.pc = ctx.vsepc] ELSE [ctx EXCEPT !.mode = "host"]

\* 8 is a call from user mode of the guest, 10 one from its supervisor
Causes == {<<"interrupt", n>> : n \in {1, 5, 9, 13}} \cup {<<"exception", n>> : n \in {0, 2, 8, 10, 12}}

handle_vm_exit ==
    /\ vcpu.mode = "guest"
    /\ \E cause \in Causes, call \in Calls : \E answer \in Answers(call) :
        /\ (cause # <<"exception", 8>> => call = "OTHER")
        /\ vcpu' = Resumed(IF cause[1] = "interrupt" THEN handle_interrupt(Saved(vcpu), cause[2])
                           ELSE handle_exception(Saved(vcpu), cause[2], answer))
        /\ hv' = record_exit(hv, exit_kind(cause), cause)
        /\ answered' = IF cause = <<"exception", 8>> THEN vcpu.pc ELSE -1
    /\ UNCHANGED <<slots, next_id, gmem, loaded>>

Fault == vcpu.mode = "host" /\ \E n \in VmNames : mark_vm_faulted(n, <<"exception", 5>>)

HvNext == cmd_vm \/ Fault \/ guest_run \/ GuestStep \/ handle_vm_exit

HvSpec == HvInit /\ [][HvNext]_hvVars

-----------------------------------------------------------------------------
(* Properties.                                                               *)

\* The memory of a machine that is ready holds the image last loaded under its
\* name and nothing of an earlier image, and no two machines share a memory.
MemoryIsImage ==
    \A i \in 1..VmCap : slots[i].state = "Ready" =>
        slots[i].host_base = i /\ gmem[i] = loaded[slots[i].name]

\* "Advance guest PC past the ecall instruction": a guest whose call was answered
\* goes on with the instruction after the call.
AdvancesPastEcall ==
    answered # -1 => vcpu.pc = (answered + 4) % PcMod

=============================================================================
