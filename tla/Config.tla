------------------------------- MODULE Config -------------------------------
(* The constants of include/mcke/core/config.hpp that the kernels share.   *)
EXTENDS Integers

CONSTANT kWarpSize   (* lanes of a warp (32)                                *)

ASSUME ConfigAssumption == kWarpSize \in Nat \ {0}
=============================================================================
