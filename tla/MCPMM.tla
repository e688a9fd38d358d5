------------------------------- MODULE MCPMM -------------------------------
(***************************************************************************)
(* Small memory maps for TLC.  A block has 2 bytes, so that the bitmap of  *)
(* 40 blocks (5 bytes) fills several of them and there are regions too     *)
(* short to hold it, as there are with blocks of 4096 bytes.               *)
(***************************************************************************)
EXTENDS PMM, FiniteSets

Entry(block, blocks, usable) ==
  [base |-> block * BlockBytes, length |-> blocks * BlockBytes,
   usable |-> usable]

\* Low memory in short regions; the bitmap in blocks 8 to 10.
Plain == << Entry(0, 1, FALSE), Entry(1, 1, TRUE), Entry(2, 1, FALSE),
            Entry(3, 1, TRUE), Entry(4, 4, FALSE), Entry(8, 20, TRUE),
            Entry(28, 4, FALSE), Entry(32, 8, TRUE) >>

\* A region that ends before its bit position recurs: blocks 7 and 8.
Misaligned == << Entry(0, 1, FALSE), Entry(1, 1, TRUE), Entry(2, 5, FALSE),
                 Entry(7, 2, TRUE), Entry(9, 9, FALSE), Entry(18, 22, TRUE) >>

\* Bits 7 and 8 are both clear after pmm_init, and so are 15 and 16,
\* and the last two bits of the bitmap.
Adjacent == << Entry(0, 1, FALSE), Entry(1, 1, TRUE), Entry(2, 5, FALSE),
               Entry(7, 1, TRUE), Entry(8, 1, TRUE), Entry(9, 6, FALSE),
               Entry(15, 1, TRUE), Entry(16, 8, TRUE), Entry(24, 14, FALSE),
               Entry(38, 1, TRUE), Entry(39, 1, TRUE) >>

AllMaps == {Plain, Misaligned, Adjacent}

\* Bound: states with more runs than this are checked but not continued.
CONSTANT MaxHeld

FewHeld == Cardinality(held) <= MaxHeld

\* Memory behind the last entry: nothing, or a larger end of memory.
PastEnds == {0, 48 * BlockBytes}
=============================================================================
