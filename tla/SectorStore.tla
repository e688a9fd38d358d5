----------------------------- MODULE SectorStore -----------------------------
(***************************************************************************)
(* What a disk promises to its users: sectors with numbers, each of which  *)
(* holds what was last written to it, on a disk of a given size, until the *)
(* disk is made anew or removed.  A write ends on the disk.  Only an       *)
(* access that ends behind the last sector is refused; that changes        *)
(* nothing and stops the system.  Nothing is said of where the sectors     *)
(* lie; modules RamDisk and FAT32 are the code.                            *)
(*                                                                         *)
(* Once `lost`, the sectors are somebody else's too, or a number has       *)
(* wrapped round, and nothing is promised.                                 *)
(***************************************************************************)
EXTENDS Integers, Sequences

CONSTANTS
  Sizes,    \* the sizes of disk that are asked for
  Writes    \* the writes [start, data] that users make

VARIABLES
  size,     \* the number of sectors, 0 without a disk
  content,  \* what each sector holds
  formats,  \* how many times a disk was made or removed
  stopped,  \* an access was refused: nothing goes on
  refused,  \* the access [start, count] that was refused
  lost      \* whether the disk is not its users' alone any more

Init ==
  /\ size = 0 /\ DOMAIN content = {} /\ formats = 0
  /\ stopped = FALSE /\ refused = [start |-> 0, count |-> 0]
  /\ lost = FALSE

\* A new disk of n sectors, with any content; with 0, none.
Format(n) ==
  /\ ~stopped
  /\ formats' = formats + 1
  /\ size' = n /\ DOMAIN content' = 0 .. (n - 1)
  /\ UNCHANGED <<stopped, refused, lost>>

\* The data are on the disk, and every other sector is as it was.
Write(start, data) ==
  /\ ~stopped /\ start + Len(data) <= size
  /\ content' = [s \in DOMAIN content |->
                   IF s \in start .. (start + Len(data) - 1)
                   THEN data[s - start + 1] ELSE content[s]]
  /\ UNCHANGED <<size, formats, stopped, refused, lost>>

\* An access ends behind the last sector: the one that `refused` shows.
Refuse ==
  /\ ~stopped /\ stopped' = TRUE
  /\ refused'.start + refused'.count > size
  /\ UNCHANGED <<size, content, formats, lost>>

Lose == lost' = TRUE

\* A read that is not refused changes nothing.
Next ==
  \/ \E n \in Sizes \cup {0} : Format(n)
  \/ \E w \in Writes : Write(w.start, w.data)
  \/ Refuse
  \/ Lose

Spec == Init /\ [][Next]_<<size, content, formats, stopped, refused, lost>>
=============================================================================
