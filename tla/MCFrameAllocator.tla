-------------------------- MODULE MCFrameAllocator -------------------------
(***************************************************************************)
(* Memory: the frame allocator with three words of three bits and every    *)
(* region that fits, the slab pool, the page tables with two entries per   *)
(* table and three frames for them, the identity map of boots that find    *)
(* different memory, sections and frames, the mutex the shared parts are   *)
(* under, the memory of a guest, and the loader with the services the root *)
(* process starts.  The parts do not share state: a behaviour is one of    *)
(* them.                                                                   *)
(***************************************************************************)
EXTENDS FrameAllocator, IdentityMap, SlabPool, IrqMutex, MCHypervisor, Process

VARIABLE part

memvars == <<vars, ptvars, imvars, slabvars, irqvars, hvVars, procVars>>

\* Four pages of memory; text and read-only data share a page or not.
BootPlans ==
    {[mode |-> mode, memory |-> regions, platform |-> <<0, size>>, devices |-> <<<<8, 1>>>>,
      dtb |-> at, text |-> <<0, t>>, rodata |-> <<t, r>>, guards |-> gs, frames |-> n] :
        mode \in {"sv39", "sv32"}, size \in {7, 8}, at \in {0, 7}, t \in 1..4, r \in {4, 5},
        regions \in {<<>>, <<<<0, 8>>>>, <<<<4, 3>>, <<0, 6>>>>, <<<<0, 0>>>>},
        gs \in {{}, {5}}, n \in {0, 2, 4, 6}}
HandlerNames == <<"irq", "urgent">>

\* ELF images of up to two program headers: overlapping segments, a zero-filled
\* part, more in the file than in memory, one that is not to be loaded, one beyond
\* the file
Ph(ty, off, addr, fs, ms) == [type |-> ty, off |-> off, addr |-> addr, filesz |-> fs, memsz |-> ms]
Phdrs == {Ph("LOAD", 0, 1, 2, 1), Ph("LOAD", 1, 0, 1, 3), Ph("NOTE", 0, 0, 2, 2),
          Ph("LOAD", 2, 3, 2, 2), Ph("LOAD", 0, 2, 0, 0)}
TheElfs ==
    [header : {"ok"}, data : {<<7, 8, 9>>}, readable : {1, 2},
     phdrs : {<<>>} \cup {<<x>> : x \in Phdrs} \cup {<<x, y>> : x \in Phdrs, y \in Phdrs}]
    \cup [header : {"small", "magic", "class", "endian", "type"}, data : {<<7, 8, 9>>},
          readable : {1}, phdrs : {<<>>}]
TheAddresses == 0..5

MemInit ==
    /\ part \in {"frames", "tables", "identity", "slab", "mutex", "guest", "process"}
    /\ ProcInit /\ \/ part = "process"
                   \/ elf = (CHOOSE e \in ElfImages : TRUE) /\ \A k \in DOMAIN features : features[k]
    /\ HvInit /\ (part # "guest" => hv.state = "Disabled")
    /\ Init /\ SlabInit
    /\ PtInit /\ (part # "tables" => fmt = "sv39")
    /\ plan \in (IF part = "identity" THEN Plans ELSE {CHOOSE p \in Plans : TRUE}) /\ imap = NoPte
    /\ IrqInit /\ (part # "mutex" => arch = "riscv")

MemNext ==
    /\ UNCHANGED part
    /\ \/ part = "frames" /\ Next /\ UNCHANGED <<ptvars, imvars, slabvars, irqvars, hvVars, procVars>>
       \/ part = "tables" /\ PtNext /\ UNCHANGED <<vars, imvars, slabvars, irqvars, hvVars, procVars>>
       \/ part = "identity" /\ BootMap /\ UNCHANGED <<vars, ptvars, slabvars, irqvars, hvVars, procVars>>
       \/ part = "slab" /\ SlabNext /\ UNCHANGED <<vars, ptvars, imvars, irqvars, hvVars, procVars>>
       \/ part = "mutex" /\ IrqNext /\ UNCHANGED <<vars, ptvars, imvars, slabvars, hvVars, procVars>>
       \/ part = "guest" /\ HvNext /\ UNCHANGED <<vars, ptvars, imvars, slabvars, irqvars, procVars>>
       \/ part = "process" /\ ProcNext /\ UNCHANGED <<vars, ptvars, imvars, slabvars, irqvars, hvVars>>

MemSpec == MemInit /\ [][MemNext]_<<memvars, part>>
=============================================================================
