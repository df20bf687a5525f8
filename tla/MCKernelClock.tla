--------------------------- MODULE MCKernelClock ---------------------------
(* Instances of KernelClock for TLC. *)
EXTENDS KernelClock
=============================================================================
