------------------------ MODULE FrameAllocatorProofs -----------------------
(***************************************************************************)
(* Proofs about FrameAllocator, for every size of the bitmap.              *)
(***************************************************************************)
EXTENDS FrameAllocator, WellFoundedInduction, TLAPS

-----------------------------------------------------------------------------
(* Numbers.                                                                *)

\* trailing_zeros() of a non-zero word.
LEMMA LeastNatural ==
    ASSUME NEW S, S \subseteq Nat, S # {}
    PROVE  \E b \in S : \A c \in S : b <= c
<1> DEFINE R == OpToRel(<, Nat)
<1>1. IsWellFoundedOn(R, Nat)
  BY NatLessThanWellFounded
<1>2. \A x, y \in Nat : x < y => <<x, y>> \in R
  BY DEF OpToRel
<1> HIDE DEF R
<1>3. PICK b \in S : \A c \in S : ~(<<c, b>> \in R)
  BY <1>1, WFMin
<1>4. \A c \in S : ~(c < b)
  BY <1>2, <1>3
<1> QED
  BY <1>3, <1>4

\* An index below the number of words is its own remainder.
LEMMA ModSmall == \A x \in WordIdx : x % Words = x
BY FrameAssumption DEF WordIdx

LEMMA ModInRange == \A x \in Nat : x % Words \in WordIdx
BY FrameAssumption DEF WordIdx

-----------------------------------------------------------------------------
(* The scan of alloc().                                                    *)

\* A free frame is met by the scan, in the turn for its word.
LEMMA ScanMeets ==
    ASSUME TypeOK, HintIsLowerBound, NEW v \in WordIdx, NEW c \in bitmap[v]
    PROVE  /\ v - next_word \in WordIdx
           /\ WordAt(v - next_word) = v
           /\ c \in Masked(v - next_word)
           /\ \E b \in BitIdx : Usable(v - next_word, b)
<1> DEFINE s == v - next_word
<1>1. v \in Int /\ next_word \in WordIdx /\ bitmap[v] \subseteq BitIdx
  BY DEF TypeOK, WordIdx
<1>2. ~Below(v, c, next_word, next_bit)
  BY DEF HintIsLowerBound
<1>3. c \in Int /\ next_bit \in Int
  BY <1>1 DEF TypeOK, BitIdx
<1>4. s \in WordIdx /\ next_word + s = v
  BY <1>1, <1>2, FrameAssumption DEF Below, WordIdx
<1>5. WordAt(s) = v
  BY <1>4, ModSmall DEF WordAt
<1>6. s = 0 => c >= next_bit
  BY <1>1, <1>2, <1>3 DEF Below, WordIdx
<1>7. c \in Masked(s)
  BY <1>5, <1>6 DEF Masked
<1>8. Masked(s) \subseteq bitmap[v] /\ Masked(s) \subseteq Nat
  BY <1>1, <1>5 DEF Masked, BitIdx
<1>9. PICK b \in Masked(s) : \A d \in Masked(s) : b <= d
  BY <1>7, <1>8, LeastNatural
<1>10. b \in bitmap[v] /\ b \in BitIdx /\ PageIdx(v, b) < total_pages
  BY <1>1, <1>8, <1>9 DEF HintIsLowerBound
<1>11. Usable(s, b)
  BY <1>5, <1>9, <1>10 DEF Usable, Lowest
<1> QED
  BY <1>4, <1>5, <1>7, <1>10, <1>11

\* The frame of the first turn that finds one is the lowest free frame.
LEMMA ScanFindsLowest ==
    ASSUME TypeOK, HintIsLowerBound, NEW scan \in WordIdx, NEW b \in BitIdx, Usable(scan, b),
           \A s \in 0..(scan - 1), c \in BitIdx : ~Usable(s, c)
    PROVE  /\ WordAt(scan) \in WordIdx
           /\ b \in bitmap[WordAt(scan)]
           /\ \A v \in WordIdx : \A c \in bitmap[v] : ~Below(v, c, WordAt(scan), b)
<1> DEFINE w == WordAt(scan)
<1>1. next_word \in WordIdx /\ scan \in Nat /\ next_word \in Nat
  BY DEF TypeOK, WordIdx
<1>2. w \in WordIdx
  BY <1>1, ModInRange DEF WordAt
<1>3. b \in bitmap[w]
  BY DEF Usable, Lowest, Masked
<1>4. ASSUME NEW v \in WordIdx, NEW c \in bitmap[v] PROVE ~Below(v, c, w, b)
  <2> DEFINE s == v - next_word
  <2>1. /\ s \in WordIdx /\ WordAt(s) = v
        /\ c \in Masked(s)
        /\ \E d \in BitIdx : Usable(s, d)
    BY ScanMeets
  <2>2. scan <= s
    <3>1. s \notin 0..(scan - 1)
      BY <2>1
    <3> QED
      BY <2>1, <3>1, <1>1 DEF WordIdx
  <2>3. CASE scan = s
    <3>1. v = w /\ b <= c
      BY <2>1, <2>3 DEF Usable, Lowest
    <3>2. c \in Int /\ b \in Int /\ v \in Int
      BY DEF TypeOK, BitIdx, WordIdx
    <3> HIDE DEF w
    <3> QED
      BY <3>1, <3>2 DEF Below
  <2>4. CASE scan < s
    <3>1. next_word + scan \in WordIdx /\ next_word + scan < v
      BY <1>1, <2>1, <2>4, FrameAssumption DEF WordIdx
    <3>2. w = next_word + scan
      BY <3>1, ModSmall DEF WordAt
    <3>3. w < v /\ w \in Int /\ v \in Int
      BY <1>1, <3>1, <3>2 DEF WordIdx
    <3> HIDE DEF w
    <3> QED
      BY <3>3 DEF Below
  <2> QED
    BY <1>1, <2>1, <2>2, <2>3, <2>4 DEF WordIdx
<1> QED
  BY <1>2, <1>3, <1>4

\* The two ways alloc() ends.
LEMMA AllocOutcome ==
    ASSUME TypeOK, HintIsLowerBound, Alloc
    PROVE  \/ \E w \in WordIdx, b \in BitIdx :
                /\ b \in bitmap[w]
                /\ \A v \in WordIdx : \A c \in bitmap[v] : ~Below(v, c, w, b)
                /\ Take(w, b)
           \/ /\ \A w \in WordIdx : bitmap[w] = {}
              /\ out' = None /\ UNCHANGED <<bitmap, free_pages, next_word, next_bit>>
<1>1. CASE \E scan \in WordIdx, b \in BitIdx : Usable(scan, b)
  <2>1. PICK scan \in WordIdx, b \in BitIdx :
           /\ Usable(scan, b)
           /\ \A s \in 0..(scan - 1), c \in BitIdx : ~Usable(s, c)
           /\ Take(WordAt(scan), b)
    BY <1>1 DEF Alloc
  <2>2. /\ WordAt(scan) \in WordIdx
        /\ b \in bitmap[WordAt(scan)]
        /\ \A v \in WordIdx : \A c \in bitmap[v] : ~Below(v, c, WordAt(scan), b)
    BY <2>1, ScanFindsLowest
  <2> QED
    BY <2>1, <2>2
<1>2. CASE ~\E scan \in WordIdx, b \in BitIdx : Usable(scan, b)
  <2>1. out' = None /\ UNCHANGED <<bitmap, free_pages, next_word, next_bit>>
    BY <1>2 DEF Alloc
  <2>2. ASSUME NEW v \in WordIdx, NEW c \in bitmap[v] PROVE FALSE
    BY <1>2, ScanMeets
  <2>3. \A w \in WordIdx : bitmap[w] = {}
    BY <2>2
  <2> QED
    BY <2>1, <2>3
<1> QED
  BY <1>1, <1>2

-----------------------------------------------------------------------------
(* The invariant.                                                          *)

LEMMA InitInv == Init => FrameInv
<1> SUFFICES ASSUME Init PROVE FrameInv
  OBVIOUS
<1>1. 0 \in WordIdx /\ 0 \in BitIdx
  BY FrameAssumption DEF WordIdx, BitIdx
<1>2. Words * Bits \in Nat
  BY FrameAssumption
<1>3. bitmap \in [WordIdx -> SUBSET BitIdx]
  BY DEF Init
<1>4. total_pages \in 0..(Words * Bits)
  BY <1>2 DEF Init
<1>5. TypeOK
  <2>1. initialized \in BOOLEAN
    BY DEF Init
  <2>2. /\ free_pages \in Int /\ next_word \in WordIdx /\ next_bit \in BitIdx
        /\ out \in Frame \cup {None}
    BY <1>1 DEF Init
  <2> QED
    BY <1>3, <1>4, <2>1, <2>2 DEF TypeOK
<1>6. HintIsLowerBound
  BY DEF Init, HintIsLowerBound
<1>7. total_pages = 0 /\ \A w \in WordIdx : bitmap[w] = {}
  BY DEF Init
<1> QED
  BY <1>5, <1>6, <1>7 DEF FrameInv

LEMMA HintStep == TypeOK /\ HintIsLowerBound /\ [Next]_vars => TypeOK' /\ HintIsLowerBound'
<1> SUFFICES ASSUME TypeOK, HintIsLowerBound, [Next]_vars PROVE TypeOK' /\ HintIsLowerBound'
  OBVIOUS
<1>1. /\ bitmap \in [WordIdx -> SUBSET BitIdx] /\ next_word \in Int /\ next_bit \in Int
      /\ WordIdx \subseteq Int /\ BitIdx \subseteq Int
  BY DEF TypeOK, WordIdx, BitIdx
<1>2. ASSUME NEW n \in 0..(Words * Bits), MmInit(n) PROVE TypeOK' /\ HintIsLowerBound'
  <2>1. 0 \in WordIdx /\ 0 \in BitIdx
    BY FrameAssumption DEF WordIdx, BitIdx
  <2>2. /\ bitmap' = [w \in WordIdx |-> {b \in BitIdx : PageIdx(w, b) < n}]
        /\ initialized' = TRUE /\ total_pages' = n /\ free_pages' = n
        /\ next_word' = 0 /\ next_bit' = 0 /\ out' = out
    BY <1>2 DEF MmInit
  <2>3. bitmap' \in [WordIdx -> SUBSET BitIdx]
    BY <2>2
  <2>4. TypeOK'
    BY <2>1, <2>2, <2>3 DEF TypeOK
  <2>5. HintIsLowerBound'
    BY <2>2 DEF HintIsLowerBound, Below, WordIdx, BitIdx
  <2> QED
    BY <2>4, <2>5
<1>3. CASE Alloc
  <2>1. UNCHANGED <<initialized, total_pages>>
    BY <1>3 DEF Alloc
  <2>2. ASSUME NEW w \in WordIdx, NEW b \in BitIdx, b \in bitmap[w],
               \A v \in WordIdx : \A c \in bitmap[v] : ~Below(v, c, w, b),
               Take(w, b)
        PROVE  TypeOK' /\ HintIsLowerBound'
    <3>1. /\ bitmap' = [bitmap EXCEPT ![w] = @ \ {b}]
          /\ free_pages' = free_pages - 1
          /\ next_word' = IF b + 1 >= Bits THEN (w + 1) % Words ELSE w
          /\ next_bit' = IF b + 1 >= Bits THEN 0 ELSE b + 1
          /\ out' = <<w, b>>
      BY <2>2 DEF Take
    <3>2. w + 1 \in Nat /\ (w + 1) % Words \in WordIdx
      BY ModInRange DEF WordIdx
    <3>3. next_word' \in WordIdx
      BY <3>1, <3>2
    <3>4. next_bit' \in BitIdx
      BY <3>1, FrameAssumption DEF BitIdx
    <3>5. bitmap' \in [WordIdx -> SUBSET BitIdx] /\ out' \in Frame
      BY <1>1, <3>1 DEF Frame
    <3>6. TypeOK'
      BY <2>1, <3>1, <3>3, <3>4, <3>5 DEF TypeOK
    <3>7. ASSUME NEW v \in WordIdx, NEW c \in bitmap'[v]
          PROVE  c \in bitmap[v] /\ (v # w \/ c # b) /\ c \in BitIdx
      BY <1>1, <3>1
    <3>8. ASSUME NEW v \in WordIdx, NEW c \in bitmap'[v]
          PROVE  ~Below(v, c, next_word', next_bit')
      <4>1. c \in bitmap[v] /\ (v # w \/ c # b) /\ c \in BitIdx /\ ~Below(v, c, w, b)
        BY <2>2, <3>7
      <4>2. v > w \/ (v = w /\ c > b)
        BY <4>1 DEF Below, WordIdx, BitIdx
      <4>3. CASE b + 1 < Bits
        <5>1. next_word' = w /\ next_bit' = b + 1
          BY <3>1, <4>3, FrameAssumption DEF BitIdx
        <5> QED
          BY <4>1, <4>2, <5>1 DEF Below, WordIdx, BitIdx
      <4>4. CASE b + 1 >= Bits
        <5>1. v > w
          BY <4>1, <4>2, <4>4, FrameAssumption DEF BitIdx
        <5>2. w + 1 \in WordIdx
          BY <5>1, FrameAssumption DEF WordIdx
        <5>3. next_word' = w + 1 /\ next_bit' = 0
          BY <3>1, <4>4, <5>2, ModSmall
        <5> QED
          BY <4>1, <5>1, <5>3 DEF Below, WordIdx, BitIdx
      <4> QED
        BY <4>3, <4>4, FrameAssumption DEF BitIdx
    <3>9. HintIsLowerBound'
      BY <2>1, <3>7, <3>8 DEF HintIsLowerBound
    <3> QED
      BY <3>6, <3>9
  <2>3. ASSUME out' = None, UNCHANGED <<bitmap, free_pages, next_word, next_bit>>
        PROVE  TypeOK' /\ HintIsLowerBound'
    BY <2>1, <2>3 DEF TypeOK, HintIsLowerBound
  <2> QED
    BY <1>3, <2>2, <2>3, AllocOutcome
<1>4. ASSUME NEW w \in WordIdx, NEW b \in BitIdx, Free(w, b) PROVE TypeOK' /\ HintIsLowerBound'
  <2>1. UNCHANGED <<initialized, total_pages, out>>
    BY <1>4 DEF Free
  <2>2. CASE PageIdx(w, b) < total_pages /\ b \notin bitmap[w]
    <3>1. /\ bitmap' = [bitmap EXCEPT ![w] = @ \cup {b}]
          /\ free_pages' = free_pages + 1
          /\ IF Below(w, b, next_word, next_bit)
             THEN next_word' = w /\ next_bit' = b
             ELSE UNCHANGED <<next_word, next_bit>>
      BY <1>4, <2>2 DEF Free
    <3>2. next_word' \in WordIdx /\ next_bit' \in BitIdx
      BY <3>1 DEF TypeOK
    <3>3. bitmap' \in [WordIdx -> SUBSET BitIdx]
      BY <1>1, <3>1
    <3>4. TypeOK'
      BY <2>1, <3>1, <3>2, <3>3 DEF TypeOK
    <3>5. ASSUME NEW v \in WordIdx, NEW c \in bitmap'[v]
          PROVE  PageIdx(v, c) < total_pages' /\ ~Below(v, c, next_word', next_bit')
      <4>1. c \in BitIdx /\ (c \in bitmap[v] \/ (v = w /\ c = b))
        BY <1>1, <3>1, <3>3
      <4>2. CASE v = w /\ c = b
        BY <1>1, <2>1, <2>2, <3>1, <4>2 DEF Below
      <4>3. CASE c \in bitmap[v]
        <5>1. PageIdx(v, c) < total_pages /\ ~Below(v, c, next_word, next_bit)
          BY <4>3 DEF HintIsLowerBound
        <5> QED
          BY <1>1, <2>1, <3>1, <4>1, <5>1 DEF Below
      <4> QED
        BY <4>1, <4>2, <4>3
    <3>6. HintIsLowerBound'
      BY <3>5 DEF HintIsLowerBound
    <3> QED
      BY <3>4, <3>6
  <2>3. CASE ~(PageIdx(w, b) < total_pages /\ b \notin bitmap[w])
    BY <1>4, <2>1, <2>3 DEF Free, TypeOK, HintIsLowerBound
  <2> QED
    BY <2>2, <2>3
<1>5. CASE UNCHANGED vars
  BY <1>5 DEF vars, TypeOK, HintIsLowerBound
<1> QED
  BY <1>2, <1>3, <1>4, <1>5 DEF Next

LEMMA NextInv == FrameInv /\ [Next]_vars => FrameInv'
<1> SUFFICES ASSUME FrameInv, [Next]_vars PROVE FrameInv'
  OBVIOUS
<1>1. TypeOK' /\ HintIsLowerBound'
  BY HintStep DEF FrameInv
<1>2. ASSUME ~initialized' PROVE total_pages' = 0 /\ \A w \in WordIdx : bitmap'[w] = {}
  <2>1. bitmap \in [WordIdx -> SUBSET BitIdx] /\ TypeOK /\ HintIsLowerBound
    BY DEF FrameInv, TypeOK
  <2>2. ASSUME NEW n \in 0..(Words * Bits), MmInit(n) PROVE FALSE
    BY <1>2, <2>2 DEF MmInit
  <2>3. CASE Alloc
    <3>1. ~initialized /\ total_pages' = total_pages
      BY <1>2, <2>3 DEF Alloc
    <3>2. total_pages = 0 /\ \A w \in WordIdx : bitmap[w] = {}
      BY <3>1 DEF FrameInv
    <3>3. bitmap' = bitmap
      BY <2>1, <2>3, <3>2, AllocOutcome
    <3> QED
      BY <3>1, <3>2, <3>3
  <2>4. ASSUME NEW w \in WordIdx, NEW b \in BitIdx, Free(w, b)
        PROVE  total_pages' = 0 /\ \A v \in WordIdx : bitmap'[v] = {}
    <3>1. ~initialized /\ total_pages' = total_pages
      BY <1>2, <2>4 DEF Free
    <3>2. total_pages = 0 /\ \A v \in WordIdx : bitmap[v] = {}
      BY <3>1 DEF FrameInv
    <3>3. w * Bits \in Nat /\ b \in Nat
      BY FrameAssumption DEF WordIdx, BitIdx
    <3>4. ~(PageIdx(w, b) < total_pages)
      BY <3>2, <3>3 DEF PageIdx
    <3>5. bitmap' = bitmap
      BY <2>4, <3>4 DEF Free
    <3> QED
      BY <3>1, <3>2, <3>5
  <2>5. CASE UNCHANGED vars
    BY <1>2, <2>5 DEF vars, FrameInv
  <2> QED
    BY <2>2, <2>3, <2>4, <2>5 DEF Next
<1> QED
  BY <1>1, <1>2 DEF FrameInv

-----------------------------------------------------------------------------
(* Theorems.                                                               *)

(***************************************************************************)
(* The hint stays inside the bitmap and below every free frame.            *)
(***************************************************************************)
THEOREM HintInvariant == Spec => []HintIsLowerBound
<1>1. FrameInv => HintIsLowerBound
  BY DEF FrameInv
<1> QED
  BY <1>1, InitInv, NextInv, PTL DEF Spec

(***************************************************************************)
(* alloc() hands out frames from the bottom of the region.                 *)
(***************************************************************************)
THEOREM AllocatesLowest == Spec => AllocLowest
<1> DEFINE P == \A w \in WordIdx, b \in BitIdx :
                  bitmap'[w] = bitmap[w] \ {b} /\ b \in bitmap[w] =>
                    \A v \in WordIdx : \A c \in bitmap[v] : ~Below(v, c, w, b)
<1>1. FrameInv /\ [Next]_vars => [P]_vars
  <2>1. SUFFICES ASSUME FrameInv, Next,
                        NEW w \in WordIdx, NEW b \in BitIdx,
                        bitmap'[w] = bitmap[w] \ {b}, b \in bitmap[w]
                 PROVE  \A v \in WordIdx : \A c \in bitmap[v] : ~Below(v, c, w, b)
    OBVIOUS
  <2>2. bitmap \in [WordIdx -> SUBSET BitIdx] /\ TypeOK /\ HintIsLowerBound
    BY <2>1 DEF FrameInv, TypeOK
  <2>3. ASSUME NEW n \in 0..(Words * Bits), MmInit(n)
        PROVE  FALSE
    <3>1. ~initialized
      BY <2>3 DEF MmInit
    <3> QED
      BY <2>1, <3>1 DEF FrameInv
  <2>4. ASSUME NEW x \in WordIdx, NEW y \in BitIdx, Free(x, y) PROVE FALSE
    <3>1. bitmap[w] \subseteq bitmap'[w]
      BY <2>2, <2>4 DEF Free
    <3> QED
      BY <2>1, <3>1
  <2>5. CASE Alloc
    <3>1. PICK x \in WordIdx, y \in BitIdx :
             /\ y \in bitmap[x]
             /\ \A v \in WordIdx : \A c \in bitmap[v] : ~Below(v, c, x, y)
             /\ Take(x, y)
      BY <2>1, <2>2, <2>5, AllocOutcome
    <3>2. x = w /\ y = b
      BY <2>1, <2>2, <3>1 DEF Take
    <3> QED
      BY <3>1, <3>2
  <2> QED
    BY <2>1, <2>3, <2>4, <2>5 DEF Next
<1> QED
  BY <1>1, InitInv, NextInv, PTL DEF Spec, AllocLowest

(***************************************************************************)
(* The bitmap with its hint keeps the promise of FramePool: a frame handed *)
(* out was free, and alloc() answers None only when no frame is free.      *)
(***************************************************************************)
THEOREM BitmapImplementsPool == Spec => ImplementsPool
<1>1. Init => Pool!Init
  BY DEF Init, Pool!Init, FreeFrames, Frame
<1>2. FrameInv /\ [Next]_vars => [Pool!Next]_<<FreeFrames, out>>
  <2>1. SUFFICES ASSUME FrameInv, [Next]_vars
                 PROVE  Pool!Next \/ UNCHANGED <<FreeFrames, out>>
    OBVIOUS
  <2>2. bitmap \in [WordIdx -> SUBSET BitIdx] /\ TypeOK /\ HintIsLowerBound
    BY <2>1 DEF FrameInv, TypeOK
  <2>3. ASSUME NEW n \in 0..(Words * Bits), MmInit(n) PROVE Pool!Next
    <3>1. FreeFrames = {}
      BY <2>1, <2>3 DEF MmInit, FrameInv, FreeFrames, Frame
    <3>2. FreeFrames' \in SUBSET Frame
      BY DEF FreeFrames
    <3>3. out' = out
      BY <2>3 DEF MmInit
    <3> QED
      BY <3>1, <3>2, <3>3 DEF Pool!Next, Pool!Add
  <2>4. CASE Alloc
    <3>1. ASSUME NEW w \in WordIdx, NEW b \in BitIdx, b \in bitmap[w], Take(w, b)
          PROVE  Pool!Alloc
      <4>1. bitmap' = [bitmap EXCEPT ![w] = @ \ {b}] /\ out' = <<w, b>>
        BY <3>1 DEF Take
      <4>2. <<w, b>> \in FreeFrames
        BY <3>1 DEF FreeFrames, Frame
      <4>3. FreeFrames' = FreeFrames \ {<<w, b>>}
        BY <2>2, <4>1 DEF FreeFrames, Frame
      <4> QED
        BY <4>1, <4>2, <4>3 DEF Pool!Alloc
    <3>2. ASSUME \A w \in WordIdx : bitmap[w] = {}, out' = None, bitmap' = bitmap
          PROVE  Pool!Alloc
      <4>1. FreeFrames = {} /\ FreeFrames' = FreeFrames
        BY <3>2 DEF FreeFrames, Frame
      <4> QED
        BY <3>2, <4>1 DEF Pool!Alloc
    <3> QED
      BY <2>2, <2>4, <3>1, <3>2, AllocOutcome DEF Pool!Next
  <2>5. ASSUME NEW w \in WordIdx, NEW b \in BitIdx, Free(w, b)
        PROVE  Pool!Next \/ UNCHANGED <<FreeFrames, out>>
    <3>1. out' = out
      BY <2>5 DEF Free
    <3>2. CASE PageIdx(w, b) < total_pages /\ b \notin bitmap[w]
      <4>1. bitmap' = [bitmap EXCEPT ![w] = @ \cup {b}]
        BY <2>5, <3>2 DEF Free
      <4>2. <<w, b>> \in Frame
        BY DEF Frame
      <4>3. FreeFrames' = FreeFrames \cup {<<w, b>>}
        BY <2>2, <4>1 DEF FreeFrames, Frame
      <4> QED
        BY <3>1, <4>2, <4>3 DEF Pool!Next, Pool!Free
    <3>3. CASE ~(PageIdx(w, b) < total_pages /\ b \notin bitmap[w])
      BY <2>5, <3>1, <3>3 DEF Free, FreeFrames
    <3> QED
      BY <3>2, <3>3
  <2>6. CASE UNCHANGED vars
    BY <2>6 DEF vars, FreeFrames
  <2> QED
    BY <2>1, <2>3, <2>4, <2>5, <2>6 DEF Next
<1> QED
  BY <1>1, <1>2, InitInv, NextInv, PTL DEF Spec, ImplementsPool, Pool!Spec

=============================================================================
