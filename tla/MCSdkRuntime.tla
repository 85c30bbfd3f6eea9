----------------------------- MODULE MCSdkRuntime -----------------------------
(***************************************************************************)
(* Model-checking instances of SdkRuntime.                                 *)
(***************************************************************************)
EXTENDS SdkRuntime, TLC

Symmetry == Permutations(Hash) \cup Permutations(Flow)
=============================================================================
