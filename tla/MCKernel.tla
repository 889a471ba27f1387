------------------------------ MODULE MCKernel ------------------------------
(* Two processes beside the idle one, or one of them alone. *)
EXTENDS Kernel

CONSTANTS p1, p2

TwoProcesses == {p1, p2}
=============================================================================
