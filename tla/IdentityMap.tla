---------------------------- MODULE IdentityMap -----------------------------
(***************************************************************************)
(* The kernel's identity map, platform/riscv-generic/src/mmu.rs: memory    *)
(* from the device tree or the platform, with superpages where the         *)
(* permissions are uniform and without the stack guards, then the device   *)
(* tree and the devices.  Addresses count half pages, so that sections and *)
(* regions need not start on a page.  Boot runs alone: one call, one step. *)
(***************************************************************************)
EXTENDS PageTables

CONSTANT Plans      \* what the boot finds: see plan
VARIABLES plan, imap

imvars == <<plan, imap>>

\* A plan: mode, the memory regions of the device tree, the platform's memory,
\* the devices' regions, dtb (0 is none), text, rodata, stack guards, and
\* frames, those the allocator has.  A region is <<base, size>>.
Half == 2                           \* PAGE_SIZE
DtbSize == 2                        \* DTB_FALLBACK_MAP_SIZE
align_down(a) == a \div Half
align_up(a) == (a + Half - 1) \div Half

\* kernel_memory_perms of a page, and what map_memory_region asks for
Within(pg, range) == pg >= align_down(range[1]) /\ pg < align_up(range[2])
kernel_memory_perms(pg, pl) ==
    IF Within(pg, pl.text) THEN {"R", "X"}
    ELSE IF Within(pg, pl.rodata) THEN {"R"} ELSE {"R", "W"}

is_stack_guard_page(pg, pl) == \E g \in pl.guards : pg = align_down(g)
memory_perms(pg, pl) ==
    IF is_stack_guard_page(pg, pl) THEN NoPte ELSE kernel_memory_perms(pg, pl)

\* uniform_region_perms: the permissions of a superpage, if it has one set
UniformOfFirst(pg, perms) == perms[pg]
uniform_region_perms(pg, perms) ==
    IF \A i \in 0..(PtEntries - 1) : perms[pg + i] = perms[pg] THEN perms[pg] ELSE NoPte

\* One turn of the loop of map_identity_region_with at page pg: a superpage if
\* it can be had, else the page; a page that is mapped already counts.
SuperpageSize(f) == IF f = "sv39" THEN PtEntries ELSE 0      \* max_superpage_size
AfterPage(st, one) ==
    [st EXCEPT !.mem = one.mem, !.free = one.free,
               !.any = @ \/ one.res \in {"ok", "AlreadyMapped"},
               !.stop = one.res \notin {"ok", "AlreadyMapped"}]
MapOnePage(st, pg, perms) ==
    IF perms = NoPte THEN st
    ELSE AfterPage(st, RiscvPageTable_map_page(st.f, st.mem, st.free, pg, pg, perms))
AfterSuper(st, pg, perms, big) ==
    IF big.res = "ok"
    THEN [st EXCEPT !.mem = big.mem, !.free = big.free, !.any = TRUE, !.next = pg + PtEntries]
    ELSE MapOnePage(st, pg, perms)
MapTurn(st, pg, end, size, perms) ==
    IF st.stop \/ pg < st.next THEN st
    ELSE IF size # 0 /\ pg % size = 0 /\ pg + size <= end /\ uniform_region_perms(pg, perms) # NoPte
           THEN AfterSuper(st, pg, perms[pg],
                           map_superpage(st.f, st.mem, st.free, pg, pg, perms[pg]))
    ELSE MapOnePage(st, pg, perms[pg])

PagesOf(region) == align_down(region[1])..(align_up(region[1] + region[2]) - 1)
map_identity_region_with(st, region, size, perms) ==
    IF region[2] = 0 THEN [st EXCEPT !.any = FALSE]
    ELSE FoldLeft(LAMBDA s, pg : MapTurn(s, pg, align_up(region[1] + region[2]), size, perms),
                  [st EXCEPT !.any = FALSE, !.next = 0, !.failed = st.failed \/ st.stop,
                             !.stop = FALSE],
                  [i \in 1..Cardinality(PagesOf(region)) |-> align_down(region[1]) + i - 1])

map_memory_region(st, region, pl) ==
    map_identity_region_with(st, region, SuperpageSize(st.f),
                             [pg \in PagesOf(region) |-> memory_perms(pg, pl)])
map_identity_region(st, region) ==
    map_identity_region_with(st, region, 0, [pg \in PagesOf(region) |-> {"R", "W"}])

\* init_identity_map_impl: memory nodes, else the platform's memory, then the
\* device tree and the devices.  Frame 0 becomes the root.
MemoryNode(st, region, pl) ==
    LET t == map_memory_region(st, region, pl) IN [t EXCEPT !.memory = st.memory \/ t.any]
MapNodes(st, pl) ==
    IF pl.dtb = 0 THEN st ELSE FoldLeft(LAMBDA s, r : MemoryNode(s, r, pl), st, pl.memory)
MapFallback(st, pl) == IF st.memory THEN st ELSE map_memory_region(st, pl.platform, pl)
MapDevices(st, pl) ==
    IF pl.dtb = 0 THEN st
    ELSE FoldLeft(map_identity_region, st,
                  <<<<align_down(pl.dtb) * Half, DtbSize>>>> \o pl.devices)
NoMap(pl) ==
    [f |-> pl.mode, mem |-> [t \in PtFrames |-> ZeroTable], free |-> 1..(pl.frames - 1),
     any |-> FALSE, stop |-> FALSE, next |-> 0, failed |-> FALSE, memory |-> FALSE,
     enabled |-> FALSE]
init_identity_map(pl) ==
    IF pl.frames = 0 THEN NoMap(pl)
    ELSE [MapDevices(MapFallback(MapNodes(NoMap(pl), pl), pl), pl) EXCEPT !.enabled = TRUE]

ImInit == plan \in Plans /\ imap = NoPte
BootMap == imap = NoPte /\ imap' = init_identity_map(plan) /\ UNCHANGED plan

-----------------------------------------------------------------------------
Memory(pl) ==
    LET found == pl.dtb # 0 /\ \E i \in 1..Len(pl.memory) : pl.memory[i][2] > 0
        regions == IF found THEN pl.memory ELSE <<pl.platform>> IN
    UNION {align_down(regions[i][1])..(align_up(regions[i][1] + regions[i][2]) - 1)
            : i \in 1..Len(regions)}
Guards(pg, pl) == \E g \in pl.guards : g \in (pg * Half)..(pg * Half + Half - 1)
At(pg) == RiscvPageTable_translate(imap.f, imap.mem, pg)

(* Unless the frames for tables ran out, all memory is mapped to itself    *)
(* with the permissions of its section, by superpages or by pages, but for *)
(* the page under each stack, which is not mapped so that an overflow      *)
(* faults.                                                                 *)
MemoryIdentical ==
    imap # NoPte /\ imap.enabled /\ ~imap.failed /\ ~imap.stop =>
        \A pg \in Memory(plan) :
            At(pg) = IF Guards(pg, plan) THEN NoPte ELSE Pte(pg, kernel_memory_perms(pg, plan))
=============================================================================
