------------------------------ MODULE MCLoader ------------------------------
(***************************************************************************)
(* Blocks of three bytes and a frame of two.  Pages 0 to 4 and the stack   *)
(* at page 9.                                                              *)
(***************************************************************************)
EXTENDS Loader, TLC

Seg(vaddr, filesz, memsz) ==
  [load |-> TRUE, vaddr |-> vaddr, filesz |-> filesz, memsz |-> memsz]

NotLoaded == [load |-> FALSE, vaddr |-> 0, filesz |-> 1, memsz |-> 1]

\* A program with text and data, one with a header that is not loaded, an
\* empty segment and a bss, one with two segments in one page and one that
\* begins inside a page, one that is too long, and two that are refused.
SomeImages ==
  "plain" :> [fails |-> {}, segments |-> <<Seg(0, 3, 3), Seg(6, 1, 2), NotLoaded>>] @@
  "bss" :> [fails |-> {}, segments |-> <<NotLoaded, Seg(3, 0, 0), Seg(9, 0, 3)>>] @@
  "odd" :> [fails |-> {}, segments |-> <<Seg(0, 2, 2), Seg(2, 1, 1), Seg(4, 2, 2)>>] @@
  "long" :> [fails |-> {}, segments |-> <<Seg(0, 4, 5)>>] @@
  "script" :> [fails |-> {2, 3, 5}, segments |-> <<>>] @@
  "short" :> [fails |-> {1}, segments |-> <<>>]

FileNames == DOMAIN SomeImages
=============================================================================
