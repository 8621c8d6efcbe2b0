------------------------- MODULE DistinctSequences -------------------------
(***************************************************************************)
(* Sequences without repetition, which is what the kernel's queues of      *)
(* tasks are: how the operations on the queues change the set of their     *)
(* elements, and that they keep the elements distinct.                     *)
(***************************************************************************)
EXTENDS Integers, Sequences, Functions, SequenceTheorems, TLAPS

\* Appending an element (Queue::push_back).
LEMMA AppendDistinct ==
    ASSUME NEW T, NEW s \in Seq(T), NEW x \in T
    PROVE  /\ Append(s, x) \in Seq(T)
           /\ Range(Append(s, x)) = Range(s) \cup {x}
           /\ IsInjective(s) /\ x \notin Range(s) => IsInjective(Append(s, x))
BY AppendProperties DEF Range, IsInjective

\* Taking the first element (Queue::pop_front).
LEMMA TailDistinct ==
    ASSUME NEW T, NEW s \in Seq(T), s # <<>>, IsInjective(s)
    PROVE  /\ Tail(s) \in Seq(T)
           /\ Head(s) \in Range(s)
           /\ Range(Tail(s)) = Range(s) \ {Head(s)}
           /\ IsInjective(Tail(s))
<1>1. /\ Tail(s) \in Seq(T) /\ Len(s) \in Nat /\ Len(s) > 0
      /\ Head(s) = s[1] /\ Len(Tail(s)) = Len(s) - 1
      /\ \A i \in 1..Len(Tail(s)) : Tail(s)[i] = s[i + 1]
  BY HeadTailProperties, EmptySeq
<1>2. DOMAIN s = 1..Len(s) /\ DOMAIN Tail(s) = 1..(Len(s) - 1)
  BY <1>1, LenProperties
<1>3. \A i \in 2..Len(s) : i - 1 \in 1..(Len(s) - 1) /\ s[i] = Tail(s)[i - 1]
  BY <1>1
<1>4. Range(Tail(s)) \subseteq Range(s) \ {Head(s)}
  BY <1>1, <1>2 DEF Range, IsInjective
<1>5. Range(s) \ {Head(s)} \subseteq Range(Tail(s))
  <2>1. SUFFICES ASSUME NEW i \in 1..Len(s), s[i] # Head(s)
                 PROVE  s[i] \in Range(Tail(s))
    BY <1>2 DEF Range
  <2>2. i \in 2..Len(s)
    BY <2>1, <1>1
  <2> QED
    BY <2>2, <1>2, <1>3 DEF Range
<1>6. IsInjective(Tail(s))
  BY <1>1, <1>2 DEF IsInjective
<1>7. Head(s) \in Range(s)
  BY <1>1, <1>2 DEF Range
<1> QED
  BY <1>1, <1>4, <1>5, <1>6, <1>7

\* Inserting at the head of the sleep list (delay).
LEMMA ConsDistinct ==
    ASSUME NEW T, NEW s \in Seq(T), NEW x \in T, IsInjective(s), x \notin Range(s)
    PROVE  /\ <<x>> \o s \in Seq(T)
           /\ Range(<<x>> \o s) = Range(s) \cup {x}
           /\ IsInjective(<<x>> \o s)
<1> DEFINE c == <<x>> \o s
<1>1. /\ c \in Seq(T) /\ Len(s) \in Nat /\ DOMAIN s = 1..Len(s)
      /\ DOMAIN c = 1..(Len(s) + 1) /\ c[1] = x
      /\ \A i \in 2..(Len(s) + 1) : c[i] = s[i - 1]
  BY ConcatProperties, LenProperties
<1>2. \A i \in 1..Len(s) : i + 1 \in 2..(Len(s) + 1) /\ c[i + 1] = s[i]
  BY <1>1
<1>3. \A i \in 2..(Len(s) + 1) : i - 1 \in DOMAIN s
  BY <1>1
<1> HIDE DEF c
<1>4. Range(c) \subseteq Range(s) \cup {x}
  BY <1>1, <1>3 DEF Range
<1>5. Range(s) \cup {x} \subseteq Range(c)
  <2>1. SUFFICES ASSUME NEW i \in 1..Len(s)
                 PROVE  s[i] \in Range(c) /\ x \in Range(c)
    BY <1>1 DEF Range
  <2>2. i + 1 \in 1..(Len(s) + 1) /\ c[i + 1] = s[i] /\ 1 \in 1..(Len(s) + 1)
    BY <1>1, <1>2
  <2> QED
    BY <1>1, <2>2 DEF Range
<1>6. IsInjective(c)
  <2>1. \A i \in 2..(Len(s) + 1) : c[i] # x
    BY <1>1, <1>3 DEF Range
  <2>2. \A i, j \in 2..(Len(s) + 1) : c[i] = c[j] => i = j
    <3>1. SUFFICES ASSUME NEW i \in 2..(Len(s) + 1), NEW j \in 2..(Len(s) + 1), c[i] = c[j]
                   PROVE  i = j
      OBVIOUS
    <3>2. i - 1 \in DOMAIN s /\ j - 1 \in DOMAIN s /\ s[i - 1] = s[j - 1]
      BY <1>1, <1>3, <3>1
    <3>3. i - 1 = j - 1
      BY <3>2 DEF IsInjective
    <3> QED
      BY <1>1, <3>3
  <2> QED
    BY <1>1, <2>1, <2>2 DEF IsInjective
<1> QED
  BY <1>1, <1>4, <1>5, <1>6 DEF c

\* r is the function s on 1..n with the entry at i left out.
SkipsIndex(r, s, n, i) ==
    /\ DOMAIN s = 1..n /\ DOMAIN r = 1..(n - 1)
    /\ \A j \in 1..(n - 1) : r[j] = IF j < i THEN s[j] ELSE s[j + 1]

\* It has the values of s but the one at i, each once.
LEMMA SkipIndex ==
    ASSUME NEW n \in Nat, NEW i \in 1..n, NEW s, NEW r, SkipsIndex(r, s, n, i), IsInjective(s)
    PROVE  IsInjective(r) /\ Range(r) = Range(s) \ {s[i]}
<1> USE DEF SkipsIndex
<1>1. ASSUME NEW j \in 1..(n - 1)
      PROVE  \E m \in 1..n : m # i /\ r[j] = s[m] /\ m = (IF j < i THEN j ELSE j + 1)
  BY <1>1
<1>2. ASSUME NEW m \in 1..n, m # i
      PROVE  \E j \in 1..(n - 1) : r[j] = s[m]
  <2>1. CASE m < i
    BY <1>2, <2>1
  <2>2. CASE m > i
    <3>1. m - 1 \in 1..(n - 1) /\ ~(m - 1 < i) /\ (m - 1) + 1 = m
      BY <1>2, <2>2
    <3> QED
      BY <3>1
  <2> QED
    BY <1>2, <2>1, <2>2
<1>3. Range(r) \subseteq Range(s) \ {s[i]}
  <2>1. SUFFICES ASSUME NEW j \in 1..(n - 1)
                 PROVE  r[j] \in Range(s) /\ r[j] # s[i]
    BY DEF Range
  <2>2. PICK m \in 1..n : m # i /\ r[j] = s[m]
    BY <1>1
  <2> QED
    BY <2>2 DEF Range, IsInjective
<1>4. Range(s) \ {s[i]} \subseteq Range(r)
  <2>1. SUFFICES ASSUME NEW m \in 1..n, s[m] # s[i]
                 PROVE  \E j \in 1..(n - 1) : r[j] = s[m]
    BY DEF Range
  <2> QED
    BY <1>2, <2>1
<1>5. IsInjective(r)
  <2>1. SUFFICES ASSUME NEW j \in 1..(n - 1), NEW k \in 1..(n - 1), r[j] = r[k]
                 PROVE  j = k
    BY DEF IsInjective
  <2>2. PICK m \in 1..n : r[j] = s[m] /\ m = (IF j < i THEN j ELSE j + 1)
    BY <1>1
  <2>3. PICK l \in 1..n : r[k] = s[l] /\ l = (IF k < i THEN k ELSE k + 1)
    BY <1>1
  <2>4. m = l
    BY <2>1, <2>2, <2>3 DEF IsInjective
  <2> QED
    BY <2>2, <2>3, <2>4
<1> QED
  BY <1>3, <1>4, <1>5

\* Unlinking the element at position i (tick_update).
LEMMA RemoveDistinct ==
    ASSUME NEW T, NEW s \in Seq(T), NEW i \in 1..Len(s), IsInjective(s)
    PROVE  LET r == SubSeq(s, 1, i - 1) \o SubSeq(s, i + 1, Len(s))
           IN  /\ r \in Seq(T)
               /\ Len(r) = Len(s) - 1
               /\ Range(r) = Range(s) \ {s[i]}
               /\ IsInjective(r)
<1> DEFINE n == Len(s)
           u == SubSeq(s, 1, i - 1)
           v == SubSeq(s, i + 1, n)
           r == u \o v
<1>1. n \in Nat /\ DOMAIN s = 1..n /\ i \in 1..n /\ \A j \in 1..n : s[j] \in T
  BY LenProperties, ElementOfSeq
<1>2. u \in Seq(T) /\ Len(u) = i - 1 /\ \A j \in 1..(i - 1) : u[j] = s[j]
  <2>1. 1 \in Int /\ i - 1 \in Int /\ \A j \in 1..(i - 1) : s[j] \in T
    BY <1>1
  <2>2. /\ u \in Seq(T)
        /\ Len(u) = IF 1 <= i - 1 THEN (i - 1) - 1 + 1 ELSE 0
        /\ \A j \in 1..((i - 1) - 1 + 1) : u[j] = s[1 + j - 1]
    BY <2>1, SubSeqProperties
  <2> QED
    BY <1>1, <2>2
<1>3. v \in Seq(T) /\ Len(v) = n - i /\ \A j \in 1..(n - i) : v[j] = s[i + j]
  <2>1. i + 1 \in Int /\ n \in Int /\ \A j \in (i + 1)..n : s[j] \in T
    BY <1>1
  <2>2. /\ v \in Seq(T)
        /\ Len(v) = IF i + 1 <= n THEN n - (i + 1) + 1 ELSE 0
        /\ \A j \in 1..(n - (i + 1) + 1) : v[j] = s[(i + 1) + j - 1]
    BY <2>1, SubSeqProperties
  <2>3. ASSUME NEW j \in 1..(n - i)
        PROVE  v[j] = s[i + j]
    <3>1. j \in 1..(n - (i + 1) + 1) /\ (i + 1) + j - 1 = i + j
      BY <1>1
    <3> QED
      BY <2>2, <3>1
  <2>4. Len(v) = n - i
    <3> HIDE DEF n, u, v, r
    <3> QED
      BY <1>1, <2>2
  <2> QED
    BY <2>2, <2>3, <2>4
<1> HIDE DEF n, u, v
<1>4. /\ r \in Seq(T)
      /\ Len(r) = Len(u) + Len(v)
      /\ \A j \in 1..(Len(u) + Len(v)) : r[j] = IF j <= Len(u) THEN u[j] ELSE v[j - Len(u)]
  BY <1>2, <1>3, ConcatProperties
<1> HIDE DEF r
<1>5. Len(r) = n - 1 /\ DOMAIN r = 1..(n - 1)
  BY <1>1, <1>2, <1>3, <1>4, LenProperties
<1>6. ASSUME NEW j \in 1..(n - 1)
      PROVE  r[j] = IF j < i THEN s[j] ELSE s[j + 1]
  <2>1. r[j] = IF j <= i - 1 THEN u[j] ELSE v[j - (i - 1)]
    BY <1>1, <1>2, <1>3, <1>4, <1>6
  <2>2. CASE j < i
    BY <1>1, <1>2, <1>6, <2>1, <2>2
  <2>3. CASE j >= i
    <3>1. j - (i - 1) \in 1..(n - i) /\ i + (j - (i - 1)) = j + 1
      BY <1>1, <1>6, <2>3
    <3> QED
      BY <1>1, <1>3, <1>6, <2>1, <2>3, <3>1
  <2> QED
    BY <1>1, <1>6, <2>2, <2>3
<1>7. IsInjective(r) /\ Range(r) = Range(s) \ {s[i]}
  <2>1. SkipsIndex(r, s, n, i)
    BY <1>1, <1>5, <1>6 DEF SkipsIndex
  <2> QED
    BY <1>1, <2>1, SkipIndex
<1> QED
  BY <1>4, <1>5, <1>7 DEF n, u, v, r

=============================================================================
