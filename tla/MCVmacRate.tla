----------------------------- MODULE MCVmacRate ------------------------------
(* The instance of VmacRate: three neighbouring rates to start from.       *)
EXTENDS VmacRate

MCFirst == <<0, 1, 2>>
==============================================================================
