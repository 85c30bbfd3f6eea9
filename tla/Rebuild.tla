------------------------------- MODULE Rebuild -------------------------------
(***************************************************************************)
(* What every decoder of the client promises its caller. Data is rebuilt   *)
(* front to back and never wrong: what has been written is a prefix of the *)
(* target, "ok" is only answered when all of it is there, and some answer  *)
(* is always given.                                                        *)
(***************************************************************************)
EXTENDS Naturals, Sequences

VARIABLES
    target,     \* the data to rebuild
    out,        \* what has been written
    result      \* "running", "ok" or "failed"

vars == <<target, out, result>>

Init == out = <<>> /\ result = "running"

Extends == \E n \in Len(out) .. Len(target) : out' = SubSeq(target, 1, n)

Write == result = "running" /\ Extends /\ UNCHANGED <<target, result>>
Succeed == result = "running" /\ Extends /\ out' = target /\ result' = "ok" /\ UNCHANGED target

\* What a failure leaves is a prefix, or nothing when the output is removed.
Fail ==
    /\ result = "running"
    /\ Extends \/ out' = <<>>
    /\ result' = "failed"
    /\ UNCHANGED target

Next == Write \/ Succeed \/ Fail

Answers == <>(result # "running")

Spec == Init /\ [][Next]_vars /\ Answers
=============================================================================
