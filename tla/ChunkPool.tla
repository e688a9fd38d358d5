------------------------------ MODULE ChunkPool ------------------------------
(***************************************************************************)
(* What an allocator of memory promises to its callers, whatever the size  *)
(* of what they ask for: the chunks of memory that are lent at one time do *)
(* not overlap, and what is in a chunk changes when its holder writes to   *)
(* it and at no other time.  How chunks are found, counted or linked is    *)
(* not said; module Slab is the code.                                      *)
(*                                                                         *)
(* Once `lost`, the allocator has mistaken a word of a chunk for its own,  *)
(* or has lent memory that it does not have, and promises nothing.         *)
(***************************************************************************)
EXTENDS Integers

CONSTANTS
  Starts,    \* the words at which a chunk may begin
  Lengths,   \* the words that a chunk may have
  Data       \* what holders write

VARIABLES
  content,   \* for each chunk that is lent, by its first word: its words
  lost       \* whether the allocator has lost track

\* The words of memory that the chunk at a has.
Chunk(a) == {a + k : k \in DOMAIN content[a]}

Init == DOMAIN content = {} /\ lost = FALSE

\* A chunk of n words, with any content, apart from all others.
Lend(a, n) ==
  /\ DOMAIN content' = DOMAIN content \cup {a}
  /\ DOMAIN content'[a] = 0 .. (n - 1)
  /\ \A b \in DOMAIN content : (a .. (a + n - 1)) \cap Chunk(b) = {}
  /\ \A b \in DOMAIN content : content'[b] = content[b]
  /\ UNCHANGED lost

Return(a) ==
  /\ content' = [b \in DOMAIN content \ {a} |-> content[b]]
  /\ UNCHANGED lost

Write(a, k, d) ==
  /\ content' = [content EXCEPT ![a][k] = d]
  /\ UNCHANGED lost

Lose == lost' = TRUE

Next ==
  \/ Lose
  \/ \E a \in DOMAIN content :
       \/ Return(a)
       \/ \E k \in DOMAIN content[a], d \in Data : Write(a, k, d)
  \/ \E a \in Starts \ DOMAIN content, n \in Lengths : Lend(a, n)

Spec == Init /\ [][Next]_<<content, lost>>
=============================================================================
