----------------------------- MODULE FramePool -----------------------------
(***************************************************************************)
(* What the frame allocator promises its callers: a frame is handed out    *)
(* only while it is free, one is handed out whenever one is free, and a    *)
(* frame given back becomes free again.                                    *)
(***************************************************************************)
CONSTANTS Frame, None

VARIABLES free, out     \* the free frames; the answer of the last alloc()

Init == free = {} /\ out = None

\* the pool receives its frames, once
Add(S) == free = {} /\ free' = S /\ out' = out

Alloc ==
    \/ \E f \in free : free' = free \ {f} /\ out' = f
    \/ free = {} /\ out' = None /\ free' = free

Free(f) == free' = free \cup {f} /\ out' = out

Next == (\E S \in SUBSET Frame : Add(S)) \/ Alloc \/ (\E f \in Frame : Free(f))

Spec == Init /\ [][Next]_<<free, out>>

=============================================================================
