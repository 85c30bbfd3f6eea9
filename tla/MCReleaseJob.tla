----------------------------- MODULE MCReleaseJob -----------------------------
(***************************************************************************)
(* Model-checking instances of ReleaseJob.                                 *)
(***************************************************************************)
EXTENDS ReleaseJob, TLC

Symmetry == Permutations(Worker) \cup Permutations(Version) \cup Permutations(Fingerprint)

\* Two releases have been created and published, undisturbed: a rollback has a
\* target, and a patch or a new release is the third job.  A reachable state of
\* Spec, from which the third job is checked at a cost that Init would not allow.
Publication(v) ==
    [status |-> "published", partial |-> FALSE, version |-> v, fp |-> None,
     done |-> TRUE, sourced |-> FALSE]

AfterTwo(v) ==
    /\ releases = [r \in Release |-> IF r <= 2 THEN Publication(v) ELSE NoRelease]
    /\ targets = [r \in Release |-> IF r <= 2 THEN {v} ELSE {}]
    /\ inferred = [u \in Version |-> None]
    /\ jobs = [j \in Job |-> IF j <= 2 THEN Succeeded(Claimed(QueuedFor(j, FALSE))) ELSE NoJob]
    /\ bundled = {1, 2}
    /\ manifest = [u \in Version |-> IF u = v THEN 2 ELSE None]
    /\ staged = {}
    /\ delivered = {}
    /\ worker = [w \in Worker |-> NoRun]

ThirdJobFairSpec == (\E v \in Version : AfterTwo(v)) /\ [][Next]_vars /\ Fairness
=============================================================================
