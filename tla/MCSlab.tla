------------------------------- MODULE MCSlab -------------------------------
(***************************************************************************)
(* Pages of 12 words with objects of 2, so that 5 objects follow the count *)
(* and ALIGN, at half a page, strays from the fourth on: three objects can *)
(* be held as the 16 of the real page can.                                 *)
(***************************************************************************)
EXTENDS Slab

\* Bound: a state in which a count has strayed, or pmalloc has refused, is
\* checked but not continued.
NotContinued == Sound
=============================================================================
