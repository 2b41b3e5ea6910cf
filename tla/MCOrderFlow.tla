---- MODULE MCOrderFlow ----
(***************************************************************************)
(* Instances of OrderFlow for TLC.                                         *)
(***************************************************************************)
EXTENDS OrderFlow, TLC

\* Orders are alike, and no property names one: safety runs may permute them.
OrderSymmetry == Permutations(Orders)
=============================================================================
