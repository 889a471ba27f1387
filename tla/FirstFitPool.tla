---------------------------- MODULE FirstFitPool ----------------------------
(***************************************************************************)
(* What an allocator of this kernel promises its callers, without bitmaps, *)
(* index pages or search hints: a pool of frames (pages, or objects of one *)
(* size), some of them in use.  A caller is given a free frame with no     *)
(* free frame before it, a frame that is given back is free again, and the *)
(* kernel stops when a frame is asked of an exhausted pool or when         *)
(* something that is not in use is given back.                             *)
(***************************************************************************)
CONSTANTS
    Frames,         \* the frames the pool can hand out
    Locations,      \* what a caller may pass to Free: any frame, in the pool or not
    Before(_, _)    \* the order in which frames are handed out

VARIABLES
    inUse,          \* the frames owned by callers
    halted,         \* the kernel has stopped
    refused         \* what was given back when it stopped for that

vars == <<inUse, halted, refused>>

Init ==
    /\ inUse = {}
    /\ halted = FALSE
    /\ refused = {}

Alloc(f) ==
    /\ ~halted
    /\ f \in Frames \ inUse
    /\ \A g \in Frames : Before(g, f) => g \in inUse
    /\ inUse' = inUse \union {f}
    /\ UNCHANGED <<halted, refused>>

Exhausted ==
    /\ ~halted
    /\ Frames \subseteq inUse
    /\ halted' = TRUE
    /\ UNCHANGED <<inUse, refused>>

Free(f) ==
    /\ ~halted
    /\ f \in inUse
    /\ inUse' = inUse \ {f}
    /\ UNCHANGED <<halted, refused>>

BadFree(f) ==
    /\ ~halted
    /\ f \notin inUse
    /\ halted' = TRUE
    /\ refused' = {f}
    /\ UNCHANGED inUse

Next ==
    \/ \E f \in Frames : Alloc(f)
    \/ Exhausted
    \/ \E f \in Locations : Free(f) \/ BadFree(f)

Spec == Init /\ [][Next]_vars
=============================================================================
