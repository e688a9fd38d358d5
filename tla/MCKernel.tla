------------------------------ MODULE MCKernel ------------------------------
(* The kernel's interrupts on the lines that matter: the timer, the        *)
(* keyboard, a mouse, and a device (14, a disk) that has no handler.       *)
EXTENDS Kernel
=============================================================================
