---------------------------- MODULE AddressSpaces ----------------------------
(***************************************************************************)
(* What the virtual memory manager promises to the loader: a fresh address *)
(* space maps none of the user pages, and a mapping that is asked for      *)
(* changes the page that was named, in the space that was named, to the    *)
(* frame that was named, and no other page of any space.  Nothing is said  *)
(* about tables; module VMM is the code.                                   *)
(*                                                                         *)
(* Once `exhausted`, an allocation has failed and nothing is promised.     *)
(***************************************************************************)
CONSTANTS
  UserPages,    \* the virtual pages a process may map
  Frames,       \* the frames it may map them to
  Absent        \* what an unmapped page translates to

VARIABLES
  trans,        \* address space -> (user page -> frame, or Absent)
  asked,        \* the mapping [space, page, frame] asked for, if any
  exhausted     \* whether an allocation has failed

Init ==
  /\ trans = <<>> /\ asked = {}
  /\ exhausted = FALSE

Create(s) ==
  /\ asked = {} /\ s \notin DOMAIN trans
  /\ DOMAIN trans' = DOMAIN trans \cup {s}
  /\ \A t \in DOMAIN trans : trans'[t] = trans[t]
  /\ trans'[s] = [v \in UserPages |-> Absent]
  /\ UNCHANGED <<asked, exhausted>>

Ask(s, v, f) ==
  /\ asked = {}
  /\ asked' = {[space |-> s, page |-> v, frame |-> f]}
  /\ UNCHANGED <<trans, exhausted>>

\* The mapping that was asked for.
Map ==
  /\ \E r \in asked : trans' = [trans EXCEPT ![r.space][r.page] = r.frame]
  /\ asked' = {}
  /\ UNCHANGED exhausted

Next ==
  \/ \E s \in DOMAIN trans' \ DOMAIN trans : Create(s)
  \/ \E s \in DOMAIN trans, v \in UserPages, f \in Frames : Ask(s, v, f)
  \/ Map
  \/ exhausted' = TRUE

Spec == Init /\ [][Next]_<<trans, asked, exhausted>>
=============================================================================
