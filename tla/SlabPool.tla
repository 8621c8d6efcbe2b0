------------------------------ MODULE SlabPool ------------------------------
(***************************************************************************)
(* Slab<T, N> of kernel/src/mm/slab.rs, the pool task control blocks come  *)
(* from: an array of slots and a free list threaded through next_free.     *)
(* Each operation holds the pool's lock throughout, so it is one step.     *)
(***************************************************************************)
EXTENDS Naturals, Sequences, FiniteSets

CONSTANT SlabN
ASSUME SlabAssumption == SlabN \in Nat \ {0}

VARIABLES
    next_free, free_head, free_count,   \* SlabInner; free_head = SlabN is None
    handed,                             \* history: the slots the callers hold
    order                               \* history: the free slots, next one first

slabvars == <<next_free, free_head, free_count, handed, order>>

Slots == 0..(SlabN - 1)

SlabInit ==
    /\ next_free = [i \in Slots |-> i + 1]
    /\ free_head = 0 /\ free_count = SlabN
    /\ handed = {}
    /\ order = [i \in 1..SlabN |-> i - 1]

SlabAlloc ==
    \/ /\ free_head # SlabN
       /\ free_head' = next_free[free_head]
       /\ free_count' = free_count - 1
       /\ handed' = handed \cup {free_head}
       /\ order' = Tail(order)
       /\ UNCHANGED next_free
    \/ free_head = SlabN /\ UNCHANGED slabvars

\* free; its callers give back what alloc gave them, once
LinkNowhere(idx) == SlabN
Link(idx) == free_head
SlabFree(idx) ==
    /\ idx \in handed
    /\ next_free' = [next_free EXCEPT ![idx] = Link(idx)]
    /\ free_head' = idx
    /\ free_count' = free_count + 1
    /\ handed' = handed \ {idx}
    /\ order' = <<idx>> \o order

SlabNext == SlabAlloc \/ \E idx \in Slots : SlabFree(idx)

SlabSpec == SlabInit /\ [][SlabNext]_slabvars

-----------------------------------------------------------------------------
(* The links from free_head on are a stack of exactly the slots that no    *)
(* caller holds, each once, and free_count is its height: alloc never      *)
(* hands out a slot in use and never fails while one is free.              *)
FreeListExact ==
    /\ order \in Seq(Slots) /\ free_count = Len(order)
    /\ {order[i] : i \in 1..Len(order)} = Slots \ handed
    /\ \A i, j \in 1..Len(order) : i # j => order[i] # order[j]
    /\ free_head = IF order = <<>> THEN SlabN ELSE order[1]
    /\ \A i \in 1..Len(order) :
         next_free[order[i]] = IF i = Len(order) THEN SlabN ELSE order[i + 1]
=============================================================================
