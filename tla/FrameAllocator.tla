--------------------------- MODULE FrameAllocator --------------------------
(***************************************************************************)
(* The bitmap allocator of physical page frames, kernel/src/mm/frame.rs,   *)
(* and its initialisation by mm::init.  FRAME_ALLOCATOR's lock makes every *)
(* call one step.                                                          *)
(*                                                                         *)
(* A word of the bitmap is the set of its free bits, and a frame is named  *)
(* by its word and bit.  alloc() starts from a hint and looks at the low   *)
(* bits of the word the hint points into only once, so that it finds every *)
(* free frame only as long as none is below the hint.                      *)
(***************************************************************************)
EXTENDS Integers, FiniteSets

CONSTANTS
    Words,      \* BITMAP_WORDS
    Bits,       \* WORD_BITS
    None

ASSUME FrameAssumption ==
    /\ Words \in Nat \ {0} /\ Bits \in Nat \ {0}
    /\ None \notin (0..(Words - 1)) \X (0..(Bits - 1))

VARIABLES
    initialized,            \* mm::INITIALIZED
    bitmap,
    total_pages, free_pages,
    next_word, next_bit,    \* the hint
    out                     \* the answer of the last alloc()

vars == <<initialized, bitmap, total_pages, free_pages, next_word, next_bit, out>>

WordIdx == 0..(Words - 1)
BitIdx  == 0..(Bits - 1)
Frame   == WordIdx \X BitIdx

PageIdx(w, b) == w * Bits + b

FreeFrames == {f \in Frame : f[2] \in bitmap[f[1]]}

\* (w, b) is a lower frame than (v, c)
Below(w, b, v, c) == w < v \/ (w = v /\ b < c)

-----------------------------------------------------------------------------
\* FrameAllocator::new
Init ==
    /\ initialized = FALSE
    /\ bitmap = [w \in WordIdx |-> {}]
    /\ total_pages = 0 /\ free_pages = 0
    /\ next_word = 0 /\ next_bit = 0
    /\ out = None

\* mm::init and FrameAllocator::init, for a region of n pages
MmInit(n) ==
    /\ ~initialized
    /\ initialized' = TRUE
    /\ bitmap' = [w \in WordIdx |-> {b \in BitIdx : PageIdx(w, b) < n}]
    /\ total_pages' = n /\ free_pages' = n
    /\ next_word' = 0 /\ next_bit' = 0
    /\ out' = out

-----------------------------------------------------------------------------
(* alloc(): the word and the bits it looks at in turn scan of its loop.    *)

WordAt(scan) == (next_word + scan) % Words

\* faulty variant: the low bits of every word are masked out
MaskedEvery(scan) == {b \in bitmap[WordAt(scan)] : b >= next_bit}

Masked(scan) == {b \in bitmap[WordAt(scan)] : scan = 0 => b >= next_bit}

Lowest(S, b) == b \in S /\ \A c \in S : b <= c

Usable(scan, b) == Lowest(Masked(scan), b) /\ PageIdx(WordAt(scan), b) < total_pages

\* faulty variant: the hint always moves to the next word
TakeNextWord(w, b) ==
    /\ bitmap' = [bitmap EXCEPT ![w] = @ \ {b}]
    /\ free_pages' = free_pages - 1
    /\ next_word' = (w + 1) % Words
    /\ next_bit' = 0
    /\ out' = <<w, b>>

Take(w, b) ==
    /\ bitmap' = [bitmap EXCEPT ![w] = @ \ {b}]
    /\ free_pages' = free_pages - 1
    /\ next_word' = IF b + 1 >= Bits THEN (w + 1) % Words ELSE w
    /\ next_bit' = IF b + 1 >= Bits THEN 0 ELSE b + 1
    /\ out' = <<w, b>>

Alloc ==
    /\ IF \E scan \in WordIdx, b \in BitIdx : Usable(scan, b)
       THEN \E scan \in WordIdx, b \in BitIdx :
              /\ Usable(scan, b)
              /\ \A s \in 0..(scan - 1), c \in BitIdx : ~Usable(s, c)
              /\ Take(WordAt(scan), b)
       ELSE out' = None /\ UNCHANGED <<bitmap, free_pages, next_word, next_bit>>
    /\ UNCHANGED <<initialized, total_pages>>

-----------------------------------------------------------------------------
\* free() of any frame, free already or not, inside the region or not
Free(w, b) ==
    /\ IF PageIdx(w, b) < total_pages /\ b \notin bitmap[w]
       THEN /\ bitmap' = [bitmap EXCEPT ![w] = @ \cup {b}]
            /\ free_pages' = free_pages + 1
            /\ IF Below(w, b, next_word, next_bit)
               THEN next_word' = w /\ next_bit' = b
               ELSE UNCHANGED <<next_word, next_bit>>
       ELSE UNCHANGED <<bitmap, free_pages, next_word, next_bit>>
    /\ UNCHANGED <<initialized, total_pages, out>>

Next ==
    \/ \E n \in 0..(Words * Bits) : MmInit(n)
    \/ Alloc
    \/ \E w \in WordIdx, b \in BitIdx : Free(w, b)

Spec == Init /\ [][Next]_vars

-----------------------------------------------------------------------------
\* The types of the variables: the hint is always inside the bitmap, so that
\* the min() calls of alloc() and free() change nothing.
TypeOK ==
    /\ initialized \in BOOLEAN
    /\ bitmap \in [WordIdx -> SUBSET BitIdx]
    /\ total_pages \in 0..(Words * Bits) /\ free_pages \in Int
    /\ next_word \in WordIdx /\ next_bit \in BitIdx
    /\ out \in Frame \cup {None}

(***************************************************************************)
(* No free frame is below the hint; every free frame is inside the region. *)
(***************************************************************************)
HintIsLowerBound ==
    \A w \in WordIdx : \A b \in bitmap[w] :
        PageIdx(w, b) < total_pages /\ ~Below(w, b, next_word, next_bit)

\* The inductive invariant: besides, there are no frames before mm::init.
FrameInv ==
    /\ TypeOK
    /\ HintIsLowerBound
    /\ ~initialized => total_pages = 0 /\ \A w \in WordIdx : bitmap[w] = {}

(***************************************************************************)
(* alloc() answers with the lowest free frame, whatever was allocated and  *)
(* freed before.                                                           *)
(***************************************************************************)
AllocLowest ==
    [][\A w \in WordIdx, b \in BitIdx :
         bitmap'[w] = bitmap[w] \ {b} /\ b \in bitmap[w] =>
           \A v \in WordIdx : \A c \in bitmap[v] : ~Below(v, c, w, b)]_vars

\* The promise to the callers: alloc() fails only when no frame is free.
Pool == INSTANCE FramePool WITH free <- FreeFrames

ImplementsPool == Pool!Spec

=============================================================================
