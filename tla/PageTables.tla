----------------------------- MODULE PageTables -----------------------------
(***************************************************************************)
(* The page tables of arch/src/riscv: Sv39 (three levels, with superpages  *)
(* one level up), Sv32 (two levels) and the G-stage tables of the          *)
(* hypervisor (three levels).  Addresses are page numbers, and a table has *)
(* PtEntries entries where the hardware has 512 or 1024.                   *)
(*                                                                         *)
(* A valid entry is a page number with permissions; it points to a table   *)
(* when it has none of them.  aspace is what callers were told: the        *)
(* mappings a caller made and did not undo.                                *)
(***************************************************************************)
EXTENDS Integers, Sequences, SequencesExt, FiniteSets, FiniteSetsExt

CONSTANTS
    PtEntries,      \* PT_ENTRIES
    PtFrames,       \* frames for tables, the root is 0
    PtSpare,        \* how many more the allocator has
    VPages, PPages, \* virtual and physical pages of the instance
    NoPte

ASSUME PtAssumption == PtEntries \in Nat \ {0, 1} /\ 0..PtSpare \subseteq PtFrames /\ PtFrames \subseteq Nat

VARIABLES
    fmt,            \* "sv39", "sv32" or "gstage"
    tables,         \* the entries of every frame
    tfree,          \* the frames not handed out
    aspace,         \* history: page -> mapping, at the size it was made with
    answer          \* the last call: its answer, and what was mapped before

ptvars == <<fmt, tables, tfree, aspace, answer>>

Levels(f) == IF f = "sv32" THEN 2 ELSE 3
Entries == 0..(PtEntries - 1)
Span(level) == PtEntries ^ level             \* pages under one entry
ZeroTable == [i \in Entries |-> NoPte]

\* vpn: the top index of the G-stage has two more bits than a table has room for
vpn(f, v, level) ==
    (v \div Span(level)) % (IF f = "gstage" /\ level = 2 THEN 4 * PtEntries ELSE PtEntries)

Pte(ppn, perms) == [ppn |-> ppn, perms |-> perms]
is_leaf(e) == e.perms # {}

\* the levels above the one where the leaf goes, from the root down
Above(f, level) == [i \in 1..(Levels(f) - 1 - level) |-> Levels(f) - i]

-----------------------------------------------------------------------------
\* One level of the walk of map_page and map_superpage: a missing table is
\* allocated, cleared and linked; it stays when the walk fails further down.
NewTable(st, idx, f) ==
    [st EXCEPT !.mem = [@ EXCEPT ![st.table] = [@ EXCEPT ![idx] = Pte(f, {})], ![f] = ZeroTable],
               !.free = @ \ {f}, !.table = f]
MapStep(st, level) ==
    LET idx == vpn(st.f, st.v, level)
        e == st.mem[st.table][idx] IN
    IF st.res # "ok" THEN st
    ELSE IF idx \notin Entries THEN [st EXCEPT !.res = "panic"]
    ELSE IF e = NoPte
           THEN IF st.free = {} THEN [st EXCEPT !.res = "OutOfMemory"]
                                ELSE NewTable(st, idx, Min(st.free))
    ELSE IF is_leaf(e) THEN [st EXCEPT !.res = "AlreadyMapped"]
    ELSE [st EXCEPT !.table = e.ppn]

Leaf(st, idx, e) ==
    IF st.res # "ok" THEN st
    ELSE IF st.mem[st.table][idx] # NoPte THEN [st EXCEPT !.res = "AlreadyMapped"]
    ELSE [st EXCEPT !.mem[st.table][idx] = e]
MapAt(f, mem, free, v, p, perms, level) ==
    Leaf(FoldLeft(MapStep, [f |-> f, v |-> v, mem |-> mem, free |-> free, table |-> 0,
                            res |-> "ok"], Above(f, level)),
         vpn(f, v, level), Pte(p, perms))

\* Sv39PageTable, Sv32PageTable and GStagePageTable have this walk each; the two
\* kernel formats have it twice, as a method and for the trait RiscvPageTable.
sv39_map_page(mem, free, v, p, perms) == MapAt("sv39", mem, free, v, p, perms, 0)
sv32_map_page(mem, free, v, p, perms) == MapAt("sv32", mem, free, v, p, perms, 0)
gstage_map_page(mem, free, v, p, perms) == MapAt("gstage", mem, free, v, p, perms, 0)
map_page(f, mem, free, v, p, perms) ==
    CASE f = "sv39" -> sv39_map_page(mem, free, v, p, perms)
      [] f = "sv32" -> sv32_map_page(mem, free, v, p, perms)
      [] f = "gstage" -> gstage_map_page(mem, free, v, p, perms)

Sv39Trait_map_page(mem, free, v, p, perms) == MapAt("sv39", mem, free, v, p, perms, 0)
Sv32Trait_map_page(mem, free, v, p, perms) == MapAt("sv32", mem, free, v, p, perms, 0)
RiscvPageTable_map_page(f, mem, free, v, p, perms) ==
    IF f = "sv39" THEN Sv39Trait_map_page(mem, free, v, p, perms)
                  ELSE Sv32Trait_map_page(mem, free, v, p, perms)

\* map_region: page after page until one fails; the pages before it stay
map_region(mem, free, v, p, perms, n) ==
    FoldLeft(LAMBDA st, i : IF st.res # "ok" THEN st
                            ELSE gstage_map_page(st.mem, st.free, v + i, p + i, perms),
             [f |-> "gstage", v |-> v, mem |-> mem, free |-> free, table |-> 0, res |-> "ok"],
             [i \in 1..n |-> i - 1])

\* map_superpage of Sv39; the other formats have the trait's, which refuses
RefuseSuperpage(f, mem, free, v, why) ==
    [f |-> f, v |-> v, mem |-> mem, free |-> free, table |-> 0, res |-> why]
map_superpage(f, mem, free, v, p, perms) ==
    IF f # "sv39" THEN RefuseSuperpage(f, mem, free, v, "InvalidRegion")
    ELSE IF v % PtEntries # 0 \/ p % PtEntries # 0
           THEN RefuseSuperpage(f, mem, free, v, "InvalidAlignment")
    ELSE MapAt(f, mem, free, v, p, perms, 1)

\* The walk of translate and of Sv39's unmap_page: where it ends, and at which entry.
FindStep(st, level) ==
    LET e == st.mem[st.table][vpn(st.f, st.v, level)] IN
    IF st.res # "ok" THEN st
    ELSE IF e = NoPte THEN [st EXCEPT !.res = "NotMapped"]
    ELSE IF is_leaf(e) THEN [st EXCEPT !.res = "leaf", !.at = level]
    ELSE [st EXCEPT !.table = e.ppn]
Found(st, v) ==
    IF st.res = "ok" /\ st.mem[st.table][vpn(st.f, v, st.at)] = NoPte
    THEN [st EXCEPT !.res = "NotMapped"] ELSE st
Find(f, mem, v) ==
    Found(FoldLeft(FindStep, [f |-> f, v |-> v, mem |-> mem, table |-> 0, res |-> "ok",
                              at |-> 0], Above(f, 0)), v)

\* Sv32's unmap_page has no test for a leaf above the last level: it would take
\* its page for a table.  No call puts one there, as Sv32 has no superpages.
FollowStep(st, level) ==
    LET e == st.mem[st.table][vpn(st.f, st.v, level)] IN
    IF st.res # "ok" THEN st
    ELSE IF e = NoPte THEN [st EXCEPT !.res = "NotMapped"]
    ELSE [st EXCEPT !.table = e.ppn]
Follow(f, mem, v) ==
    Found(FoldLeft(FollowStep, [f |-> f, v |-> v, mem |-> mem, table |-> 0, res |-> "ok",
                                at |-> 0], Above(f, 0)), v)

\* unmap_page
Clear(st) ==
    CASE st.res = "leaf" -> [mem |-> st.mem, res |-> "InvalidRegion"]
      [] st.res = "NotMapped" -> [mem |-> st.mem, res |-> "NotMapped"]
      [] st.res = "ok" -> [mem |-> [st.mem EXCEPT ![st.table][vpn(st.f, st.v, 0)] = NoPte],
                           res |-> "ok"]
UnmapAt(f, mem, v) == Clear(Find(f, mem, v))
sv39_unmap_page(mem, v) == UnmapAt("sv39", mem, v)
sv32_unmap_page(mem, v) == Clear(Follow("sv32", mem, v))
Sv39Trait_unmap_page(mem, v) == UnmapAt("sv39", mem, v)
Sv32Trait_unmap_page(mem, v) == Clear(Follow("sv32", mem, v))
unmap_page(f, mem, v) ==
    IF f = "sv39" THEN sv39_unmap_page(mem, v) ELSE sv32_unmap_page(mem, v)
RiscvPageTable_unmap_page(f, mem, v) ==
    IF f = "sv39" THEN Sv39Trait_unmap_page(mem, v) ELSE Sv32Trait_unmap_page(mem, v)

\* translate; only Sv39 follows a leaf above the last level (translate_leaf)
TranslateFlat(e, v, level) == Pte(e.ppn, e.perms)
translate_leaf(e, v, level) == Pte(e.ppn + (v % Span(level)), e.perms)
TranslateFound(st) ==
    IF st.res = "NotMapped" \/ (st.res = "leaf" /\ st.f # "sv39") THEN NoPte
    ELSE translate_leaf(st.mem[st.table][vpn(st.f, st.v, st.at)], st.v, st.at)
TranslateAt(f, mem, v) == TranslateFound(Find(f, mem, v))
sv39_translate(mem, v) == TranslateAt("sv39", mem, v)
sv32_translate(mem, v) == TranslateAt("sv32", mem, v)
gstage_translate(mem, v) == TranslateAt("gstage", mem, v)
Sv39Trait_translate(mem, v) == TranslateAt("sv39", mem, v)
Sv32Trait_translate(mem, v) == TranslateAt("sv32", mem, v)
translate(f, mem, v) ==
    CASE f = "sv39" -> sv39_translate(mem, v)
      [] f = "sv32" -> sv32_translate(mem, v)
      [] f = "gstage" -> gstage_translate(mem, v)
RiscvPageTable_translate(f, mem, v) ==
    IF f = "sv39" THEN Sv39Trait_translate(mem, v) ELSE Sv32Trait_translate(mem, v)

-----------------------------------------------------------------------------
\* Pages of the space: the bits above the top index are not looked at.
SpaceOf(f) == Span(Levels(f)) * (IF f = "gstage" THEN 4 ELSE 1)
Same(f, v) == v % SpaceOf(f)
Covers(f, v) == {m \in aspace : Same(f, v) \in m.v..(m.v + m.n - 1)}
Perms == [p \in PPages |-> IF p = 0 THEN {"R", "X"} ELSE {"R", "W"}]

Mapped(st, v, p, n) ==
    /\ tables' = st.mem /\ tfree' = st.free
    /\ aspace' = IF st.res = "ok" THEN aspace \cup {[v |-> Same(fmt, v), p |-> p, q |-> p, n |-> n]}
                                  ELSE aspace
    /\ answer' = [op |-> "map", res |-> st.res, n |-> n,
                  before |-> UNION {Covers(fmt, v + i) : i \in 0..(n - 1)}]
    /\ UNCHANGED fmt

CallMap(v, p) == answer.res # "panic" /\ Mapped(map_page(fmt, tables, tfree, v, p, Perms[p]), v, p, 1)
CallSuper(v, p) ==
    answer.res # "panic" /\ Mapped(map_superpage(fmt, tables, tfree, v, p, Perms[p]), v, p, PtEntries)
MappedRegion(st, v, p, n) ==
    /\ tables' = st.mem /\ tfree' = st.free
    /\ aspace' = aspace \cup {[v |-> v + i, p |-> p + i, q |-> p, n |-> 1] :
                                i \in 0..((IF st.res = "ok" THEN n ELSE st.v - v) - 1)}
    /\ answer' = [op |-> "region", res |-> st.res, n |-> n, before |-> {}]
    /\ UNCHANGED fmt
CallRegion(v, p, n) ==
    /\ fmt = "gstage" /\ answer.res # "panic"
    /\ MappedRegion(map_region(tables, tfree, v, p, Perms[p], n), v, p, n)
CallUnmap(v) ==
    /\ fmt # "gstage"
    /\ \E u \in {unmap_page(fmt, tables, v), RiscvPageTable_unmap_page(fmt, tables, v)} :
       /\ tables' = u.mem
       /\ aspace' = IF u.res = "ok" THEN aspace \ Covers(fmt, v) ELSE aspace
       /\ answer' = [op |-> "unmap", res |-> u.res, n |-> 1, before |-> Covers(fmt, v)]
    /\ UNCHANGED <<fmt, tfree>>

PtInit ==
    /\ fmt \in {"sv39", "sv32", "gstage"}
    /\ tables = [f \in PtFrames |-> ZeroTable] /\ tfree = 1..PtSpare
    /\ aspace = {} /\ answer = [op |-> "none", res |-> "ok", n |-> 0, before |-> {}]

PtNext == \E v \in VPages :
    \/ CallUnmap(v)
    \/ \E p \in PPages : CallMap(v, p) \/ CallSuper(v, p) \/ CallRegion(v, p, 2)

-----------------------------------------------------------------------------
\* map_page refuses exactly the pages that are mapped, unmap_page exactly those
\* that are not or that belong to a superpage, and map_superpage succeeds only
\* over unmapped pages
AnswersTell ==
    /\ answer.op = "unmap" =>
         /\ answer.res = "NotMapped" <=> answer.before = {}
         /\ answer.res = "InvalidRegion" <=> \E m \in answer.before : m.n > 1
    /\ answer.op = "map" /\ answer.n = 1 =>
         /\ answer.before # {} => answer.res = "AlreadyMapped"
         /\ answer.before = {} => answer.res \in {"ok", "OutOfMemory", "panic"}
    /\ answer.op = "map" /\ answer.res = "ok" => answer.before = {}

(* What translate answers, and what the hardware permits, is what the      *)
(* callers of map_page, map_superpage and unmap_page were told, for every  *)
(* page, and they are told what was mapped before: a failed call changes   *)
(* no translation, also when it ran out of frames half-way.                *)
TranslatesAsTold ==
    /\ AnswersTell
    /\ answer.res # "panic" =>
        \A v \in {x \in VPages : vpn(fmt, x, Levels(fmt) - 1) \in Entries} :
            LET told == Covers(fmt, v) IN
            translate(fmt, tables, v) =
                IF told = {} THEN NoPte
                ELSE LET m == CHOOSE x \in told : TRUE IN Pte(m.p + Same(fmt, v) - m.v, Perms[m.q])
=============================================================================
