------------------------- MODULE MCSdkPolicies_proofs -------------------------
(***************************************************************************)
(* A behavior of MCSdkPolicies is one of SdkRuntime with one of two sets   *)
(* of bounds: what was proved of it holds with both.                       *)
(***************************************************************************)
EXTENDS MCSdkPolicies, SdkRuntime_proofs

BothInv ==
    /\ kind \in {"flows", "modes"}
    /\ kind = "flows" => TInv
    /\ kind = "modes" => OneByOne!TInv

\* The variables of the runtime have their types with either set of flows and
\* install modes (state.ts, CodemagicPatchModule.kt).
THEOREM BothTypesCorrect ==
    ASSUME RuntimeAssumption, OneByOne!RuntimeAssumption
    PROVE  BothSpec => []BothTypeOK
<1>1. BothInit => BothInv
  BY TInvInit, OneByOne!TInvInit DEF BothInit, BothInv
<1>2. BothInv /\ [BothNext]_<<vars, kind>> => BothInv'
  <2> SUFFICES ASSUME BothInv, [BothNext]_<<vars, kind>>
               PROVE  BothInv'
    OBVIOUS
  <2>1. kind' = kind
    BY DEF BothNext
  <2>2. kind = "flows" => [Next]_vars
    BY DEF BothNext
  <2>3. kind = "modes" => [OneByOne!Next]_(OneByOne!vars)
    BY DEF BothNext, vars, native, copy, wish,
           OneByOne!vars, OneByOne!native, OneByOne!copy, OneByOne!wish
  <2> QED
    BY <2>1, <2>2, <2>3, TInvStep, OneByOne!TInvStep DEF BothInv
<1>3. BothInv => BothTypeOK
  BY DEF BothInv, BothTypeOK, TInv, OneByOne!TInv
<1> QED
  BY <1>1, <1>2, <1>3, PTL DEF BothSpec
================================================================================
