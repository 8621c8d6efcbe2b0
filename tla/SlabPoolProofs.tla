--------------------------- MODULE SlabPoolProofs ---------------------------
(* The free list of the slab pool, for every number of slots.               *)
EXTENDS SlabPool, TLAPS

\* FreeListExact with the types of what it does not mention.
SlabInv ==
    /\ FreeListExact
    /\ next_free \in [Slots -> 0..SlabN]
    /\ handed \subseteq Slots

LEMMA TailFacts ==
    ASSUME NEW S, NEW s \in Seq(S), s # <<>>
    PROVE  /\ Tail(s) \in Seq(S) /\ Len(s) \in Nat \ {0} /\ Len(Tail(s)) = Len(s) - 1
           /\ \A i \in 1..Len(Tail(s)) : Tail(s)[i] = s[i + 1]
OBVIOUS

LEMMA PushFacts ==
    ASSUME NEW S, NEW s \in Seq(S), NEW x \in S
    PROVE  /\ <<x>> \o s \in Seq(S) /\ Len(<<x>> \o s) = Len(s) + 1 /\ Len(s) \in Nat
           /\ (<<x>> \o s)[1] = x
           /\ \A i \in 1..Len(s) : (<<x>> \o s)[i + 1] = s[i]
           /\ <<x>> \o s # <<>>
OBVIOUS

LEMMA SlabInitInv == SlabInit => SlabInv
<1> SUFFICES ASSUME SlabInit PROVE SlabInv
  OBVIOUS
<1> USE SlabAssumption
<1>1. order \in Seq(Slots) /\ Len(order) = SlabN /\ \A i \in 1..SlabN : order[i] = i - 1
  BY DEF SlabInit, Slots
<1>2. {order[i] : i \in 1..Len(order)} = Slots
  <2>1. ASSUME NEW x \in Slots PROVE x + 1 \in 1..Len(order) /\ order[x + 1] = x
    BY <1>1 DEF Slots
  <2> QED
    BY <1>1, <2>1 DEF Slots
<1>3. free_head = IF order = <<>> THEN SlabN ELSE order[1]
  BY <1>1 DEF SlabInit
<1>4. \A i \in 1..Len(order) : next_free[order[i]] = IF i = Len(order) THEN SlabN ELSE order[i + 1]
  BY <1>1 DEF SlabInit, Slots
<1>5. next_free \in [Slots -> 0..SlabN] /\ handed \subseteq Slots
  BY DEF SlabInit, Slots
<1>6. \A i, j \in 1..Len(order) : i # j => order[i] # order[j]
  BY <1>1
<1> QED
  BY <1>1, <1>2, <1>3, <1>4, <1>5, <1>6 DEF SlabInit, SlabInv, FreeListExact

\* alloc takes the slot the list begins with.
LEMMA AllocKeeps ==
    ASSUME SlabInv, SlabAlloc PROVE SlabInv'
<1> USE SlabAssumption
<1>1. CASE free_head = SlabN /\ UNCHANGED slabvars
  BY <1>1 DEF SlabInv, FreeListExact, slabvars
<1>2. CASE /\ free_head # SlabN
           /\ free_head' = next_free[free_head]
           /\ free_count' = free_count - 1
           /\ handed' = handed \cup {free_head}
           /\ order' = Tail(order)
           /\ UNCHANGED next_free
  <2>1. order \in Seq(Slots) /\ order # <<>> /\ free_head = order[1]
    BY <1>2 DEF SlabInv, FreeListExact
  <2>2. /\ order' \in Seq(Slots) /\ Len(order) \in Nat \ {0} /\ Len(order') = Len(order) - 1
        /\ \A i \in 1..Len(order') : order'[i] = order[i + 1]
    BY <1>2, <2>1, TailFacts
  <2>3. \A i \in 1..Len(order) : order[i] \in Slots
    BY <2>1
  <2>4. \A i, j \in 1..Len(order) : i # j => order[i] # order[j]
    BY DEF SlabInv, FreeListExact
  <2>5. {order'[i] : i \in 1..Len(order')} = Slots \ handed'
    <3>1. {order[i] : i \in 1..Len(order)} = Slots \ handed
      BY DEF SlabInv, FreeListExact
    <3>2. ASSUME NEW i \in 1..Len(order') PROVE order'[i] \in Slots \ handed'
      <4>1. i + 1 \in 1..Len(order) /\ 1 \in 1..Len(order) /\ i + 1 # 1
        BY <2>2
      <4> QED
        BY <1>2, <2>1, <2>2, <2>3, <2>4, <3>1, <4>1
    <3>3. ASSUME NEW x \in Slots \ handed' PROVE \E i \in 1..Len(order') : order'[i] = x
      <4>1. PICK k \in 1..Len(order) : order[k] = x
        BY <1>2, <3>1
      <4>2. k # 1
        BY <1>2, <2>1, <4>1
      <4>3. k - 1 \in 1..Len(order') /\ (k - 1) + 1 = k
        BY <2>2, <4>2
      <4> QED
        BY <2>2, <4>1, <4>3
    <3> QED
      BY <3>2, <3>3
  <2>6. \A i, j \in 1..Len(order') : i # j => order'[i] # order'[j]
    BY <2>2, <2>4
  <2>7. free_head' = IF order' = <<>> THEN SlabN ELSE order'[1]
    <3>1. next_free[order[1]] = IF 1 = Len(order) THEN SlabN ELSE order[2]
      <4>1. 1 \in 1..Len(order) /\ 1 + 1 = 2
        BY ONLY <2>2
      <4>2. \A i \in 1..Len(order) :
              next_free[order[i]] = IF i = Len(order) THEN SlabN ELSE order[i + 1]
        BY Zenon DEF SlabInv, FreeListExact
      <4> QED
        BY ONLY <4>1, <4>2
    <3>2. CASE Len(order) = 1
      BY <1>2, <2>1, <2>2, <3>1, <3>2
    <3>3. CASE Len(order) # 1
      <4>1. order' # <<>> /\ order'[1] = order[2]
        BY <2>2, <3>3
      <4> QED
        BY <1>2, <2>1, <3>1, <3>3, <4>1
    <3> QED
      BY <3>2, <3>3
  <2>8. ASSUME NEW i \in 1..Len(order')
        PROVE next_free'[order'[i]] = IF i = Len(order') THEN SlabN ELSE order'[i + 1]
    <3>1. i + 1 \in 1..Len(order)
      BY <2>2
    <3>2. next_free[order[i + 1]] = IF i + 1 = Len(order) THEN SlabN ELSE order[(i + 1) + 1]
      BY <3>1 DEF SlabInv, FreeListExact
    <3>3. i # Len(order') => i + 1 \in 1..Len(order')
      BY <2>2
    <3>4. i # Len(order') => order'[i + 1] = order[(i + 1) + 1]
      BY <2>2, <3>3
    <3>5. (i + 1 = Len(order)) <=> (i = Len(order'))
      BY <2>2
    <3>6. next_free'[order'[i]] = next_free[order[i + 1]]
      BY <1>2, <2>2
    <3> QED
      BY <3>2, <3>4, <3>5, <3>6
  <2>9. handed' \subseteq Slots /\ next_free' \in [Slots -> 0..SlabN]
    BY <1>2, <2>1, <2>2, <2>3 DEF SlabInv
  <2>10. free_count' = Len(order')
    BY <1>2, <2>2 DEF SlabInv, FreeListExact
  <2> QED
    BY <2>2, <2>5, <2>6, <2>7, <2>8, <2>9, <2>10 DEF SlabInv, FreeListExact
<1> QED
  BY <1>1, <1>2 DEF SlabAlloc

\* free pushes a slot its caller holds, which is therefore in no place of the list.
LEMMA FreeKeeps ==
    ASSUME SlabInv, NEW idx \in Slots, SlabFree(idx) PROVE SlabInv'
<1> USE SlabAssumption
<1>1. /\ order' \in Seq(Slots) /\ Len(order) \in Nat /\ Len(order') = Len(order) + 1
      /\ order'[1] = idx /\ order' # <<>>
      /\ \A i \in 1..Len(order) : order'[i + 1] = order[i]
  BY PushFacts DEF SlabInv, FreeListExact, SlabFree
<1>2. \A i \in 1..Len(order) : order[i] \in Slots \ handed
  BY DEF SlabInv, FreeListExact
<1>3. \A i \in 1..Len(order) : order[i] # idx
  BY <1>2 DEF SlabFree
<1>4. \A i \in 1..Len(order') : i # 1 => i - 1 \in 1..Len(order) /\ order'[i] = order[i - 1]
  <2> TAKE i \in 1..Len(order')
  <2> HAVE i # 1
  <2>1. i - 1 \in 1..Len(order) /\ (i - 1) + 1 = i
    BY <1>1
  <2> QED
    BY <1>1, <2>1
<1>5. {order'[i] : i \in 1..Len(order')} = Slots \ handed'
  <2>1. {order[i] : i \in 1..Len(order)} = Slots \ handed
    BY DEF SlabInv, FreeListExact
  <2>2. ASSUME NEW i \in 1..Len(order') PROVE order'[i] \in Slots \ handed'
    BY <1>1, <1>2, <1>4 DEF SlabFree
  <2>3. ASSUME NEW x \in Slots \ handed' PROVE \E i \in 1..Len(order') : order'[i] = x
    <3>1. CASE x = idx
      BY <1>1, <3>1
    <3>2. CASE x # idx
      <4>1. PICK k \in 1..Len(order) : order[k] = x
        BY <2>1, <3>2 DEF SlabFree
      <4>2. k + 1 \in 1..Len(order')
        BY <1>1
      <4> QED
        BY <1>1, <4>1, <4>2
    <3> QED
      BY <3>1, <3>2
  <2> QED
    BY <2>2, <2>3
<1>6. \A i, j \in 1..Len(order') : i # j => order'[i] # order'[j]
  <2> TAKE i, j \in 1..Len(order')
  <2> HAVE i # j
  <2>1. \A a, b \in 1..Len(order) : a # b => order[a] # order[b]
    BY DEF SlabInv, FreeListExact
  <2>2. CASE i = 1 \/ j = 1
    BY <1>1, <1>3, <1>4, <2>2
  <2>3. CASE i # 1 /\ j # 1
    <3>1. i - 1 # j - 1
      BY <1>1
    <3> QED
      BY <1>4, <2>1, <2>3, <3>1
  <2> QED
    BY <2>2, <2>3
<1>7. ASSUME NEW i \in 1..Len(order')
      PROVE next_free'[order'[i]] = IF i = Len(order') THEN SlabN ELSE order'[i + 1]
  <2>0. next_free' = [next_free EXCEPT ![idx] = free_head] /\ next_free \in [Slots -> 0..SlabN]
    BY DEF SlabFree, Link, SlabInv
  <2>1. CASE i = 1
    <3>1. next_free'[order'[i]] = free_head
      BY <1>1, <2>0, <2>1
    <3>2. free_head = IF order = <<>> THEN SlabN ELSE order[1]
      BY DEF SlabInv, FreeListExact
    <3>3. order \in Seq(Slots)
      BY DEF SlabInv, FreeListExact
    <3>4. CASE Len(order) = 0
      BY <1>1, <2>1, <3>1, <3>2, <3>3, <3>4
    <3>5. CASE Len(order) # 0
      <4>1. 1 \in 1..Len(order) /\ order # <<>>
        BY <1>1, <3>5
      <4>2. order'[1 + 1] = order[1]
        BY <1>1, <4>1
      <4> QED
        BY <1>1, <2>1, <3>1, <3>2, <3>5, <4>1, <4>2
    <3> QED
      BY <3>4, <3>5
  <2>2. CASE i # 1
    <3>1. i - 1 \in 1..Len(order) /\ order'[i] = order[i - 1] /\ order[i - 1] \in Slots
      BY <1>2, <1>4, <2>2
    <3>2. next_free'[order'[i]] = next_free[order[i - 1]]
      BY <1>3, <2>0, <3>1
    <3>3. next_free[order[i - 1]] = IF i - 1 = Len(order) THEN SlabN ELSE order[(i - 1) + 1]
      BY <3>1 DEF SlabInv, FreeListExact
    <3>4. i # Len(order') => i \in 1..Len(order) /\ (i - 1) + 1 = i
      BY <1>1, <2>2
    <3>5. i # Len(order') => order'[i + 1] = order[i]
      BY <1>1, <3>4
    <3>6. (i - 1 = Len(order)) <=> (i = Len(order'))
      BY <1>1
    <3> QED
      BY <3>2, <3>3, <3>4, <3>5, <3>6
  <2> QED
    BY <2>1, <2>2
<1>8. free_head \in 0..SlabN
  <2>1. order \in Seq(Slots) /\ (order # <<>> => order[1] \in Slots)
    BY DEF SlabInv, FreeListExact
  <2> QED
    BY <2>1 DEF SlabInv, FreeListExact, Slots
<1>9. handed' \subseteq Slots /\ next_free' \in [Slots -> 0..SlabN]
  BY <1>8 DEF SlabInv, SlabFree, Link
<1>10. free_count' = Len(order')
  BY <1>1 DEF SlabInv, FreeListExact, SlabFree
<1>11. free_head' = IF order' = <<>> THEN SlabN ELSE order'[1]
  BY <1>1 DEF SlabFree
<1> QED
  BY <1>1, <1>5, <1>6, <1>7, <1>9, <1>10, <1>11 DEF SlabInv, FreeListExact

\* For every number of slots, in every sequence of allocations and releases:
\* alloc (slab.rs) never hands out a slot in use, and fails only when none is free.
THEOREM SlabExact == SlabSpec => []FreeListExact
<1>1. SlabInit => SlabInv
  BY SlabInitInv
<1>2. SlabInv /\ [SlabNext]_slabvars => SlabInv'
  <2> SUFFICES ASSUME SlabInv, [SlabNext]_slabvars PROVE SlabInv'
    OBVIOUS
  <2>1. CASE SlabAlloc
    BY <2>1, AllocKeeps
  <2>2. CASE \E idx \in Slots : SlabFree(idx)
    BY <2>2, FreeKeeps
  <2>3. CASE UNCHANGED slabvars
    BY <2>3 DEF SlabInv, FreeListExact, slabvars
  <2> QED
    BY <2>1, <2>2, <2>3 DEF SlabNext
<1>3. SlabInv => FreeListExact
  BY DEF SlabInv
<1> QED
  BY <1>1, <1>2, <1>3, PTL DEF SlabSpec

=============================================================================
