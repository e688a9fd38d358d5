------------------------------- MODULE MCVMM -------------------------------
(* Two-entry tables: index 0 is the user half, index 1 the kernel half. *)
EXTENDS VMM

At(l4, l3, l2, l1) ==
  [level \in 1 .. 4 |->
     CASE level = 4 -> l4 [] level = 3 -> l3 [] level = 2 -> l2 [] level = 1 -> l1]

\* Two pages of one table, a page of another table below the same level-2
\* table, and one that shares only the top level.
FourPages == {At(0, 0, 0, 0), At(0, 0, 0, 1), At(0, 0, 1, 0), At(0, 1, 0, 0)}

\* Memory that is clear, and memory full of entries that look present.
DirtyOrClear == {[x \in Index |-> Absent], [x \in Index |-> 1]}

CONSTANTS MaxSpaces, MaxData

\* Bound: states beyond these, and states in which an allocation has failed,
\* are checked but not continued (nothing is promised of the latter).
Bounded ==
  /\ ~exhausted
  /\ Cardinality(spaces) <= MaxSpaces
  /\ Cardinality(data) <= MaxData
=============================================================================
