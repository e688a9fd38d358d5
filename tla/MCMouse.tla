------------------------------ MODULE MCMouse ------------------------------
(***************************************************************************)
(* A screen of 2 by 2 with a warm-up of one tick; keyboard interrupt on    *)
(* and off, mouse clock off.  The packets: right and up by one with the    *)
(* left button, as far to the left as one byte says and down by one, and   *)
(* an overflow.                                                            *)
(***************************************************************************)
EXTENDS Mouse

SomeConfigs == {101, 100}
SomePackets == {<<9, 1, 1>>, <<56, 128, 255>>, <<72, 1, 1>>}
=============================================================================
