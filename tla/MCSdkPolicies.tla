---------------------------- MODULE MCSdkPolicies ----------------------------
(***************************************************************************)
(* SdkRuntime twice, over the same variables: with several update flows at *)
(* once, and with one at a time, every install mode and more reloads on    *)
(* their way.                                                              *)
(***************************************************************************)
EXTENDS SdkRuntime, TLC

CONSTANTS
    AllModes,    \* the install modes of the second
    MoreReloads  \* its reload requests on their way at once

VARIABLE kind    \* which of the two the behavior is of

\* SdkRuntime, with its theorems for MCSdkPolicies_proofs.
OneByOne == INSTANCE SdkRuntime_proofs
    WITH Modes <- AllModes, MaxReloads <- MoreReloads

ASSUME OneByOne!RuntimeAssumption

BothInit ==
    \/ kind = "flows" /\ Init
    \/ kind = "modes" /\ OneByOne!Init

\* Bound: the modes of the first do not look at the app's state, and it stays in front.
InForeground == background' = FALSE

\* Bound: the second has one update flow at a time.
OneFlow == Cardinality({f \in Flow : flow'[f].pc # "idle"}) <= 1

BothNext ==
    /\ UNCHANGED kind
    /\ \/ kind = "flows" /\ Next /\ InForeground
       \/ kind = "modes" /\ OneByOne!Next /\ OneFlow

BothSpec == BothInit /\ [][BothNext]_<<vars, kind>>

\* The types of SdkRuntime's variables.
BothTypeOK == IF kind = "flows" THEN TypeOK ELSE OneByOne!TypeOK

Symmetry == Permutations(Hash) \cup Permutations(Flow)
=============================================================================
