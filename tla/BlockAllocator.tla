--------------------------- MODULE BlockAllocator ---------------------------
(***************************************************************************)
(* What a physical block allocator promises to its callers: a request for  *)
(* n blocks is answered with n consecutive free blocks, which then belong  *)
(* to the caller until the caller gives them back.  Nothing is said about  *)
(* bitmaps, search order or the memory map; module PMM is the code.        *)
(*                                                                         *)
(* Once `lost`, the allocator has given away the memory it keeps its books *)
(* in, and promises nothing.                                               *)
(***************************************************************************)
EXTENDS Integers

CONSTANT Requests     \* the block counts that callers ask for

VARIABLES
  free,   \* the blocks nobody owns
  held,   \* the runs [start, blocks] that callers own
  lost    \* whether the books have been given away

RunFrom(start, blocks) == start .. (start + blocks - 1)

Run(a) == RunFrom(a.start, a.blocks)

Init ==
  /\ free \subseteq Nat
  /\ held = {} /\ lost = FALSE

Allocate(n) ==
  \E start \in free :
    /\ RunFrom(start, n) \subseteq free
    /\ free' = free \ RunFrom(start, n)
    /\ held' = held \cup {[start |-> start, blocks |-> n]}
    /\ UNCHANGED lost

Release(a) ==
  /\ free' = free \cup Run(a)
  /\ held' = held \ {a}
  /\ UNCHANGED lost

LoseBooks == lost' = TRUE

Next ==
  \/ \E n \in Requests : Allocate(n)
  \/ \E a \in held : Release(a)
  \/ LoseBooks

Spec == Init /\ [][Next]_<<free, held, lost>>
=============================================================================
