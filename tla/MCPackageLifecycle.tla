-------------------------- MODULE MCPackageLifecycle --------------------------
(***************************************************************************)
(* Model-checking instances of PackageLifecycle.                           *)
(***************************************************************************)
EXTENDS PackageLifecycle, TLC

HashSymmetry == Permutations(Hash)
=============================================================================
