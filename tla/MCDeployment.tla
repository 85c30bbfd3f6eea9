----------------------------- MODULE MCDeployment -----------------------------
(***************************************************************************)
(* The two things a deployment's devices do with its server, one per       *)
(* behavior: follow its manifests (DesiredState) and report what became of *)
(* them (Metrics).                                                         *)
(***************************************************************************)
EXTENDS DesiredState, TLC

CONSTANTS
    Emissions, Requests, Folders, RawDays, ClientDays, QueueCap, MaxDay, MaxFaults, MaxClears

VARIABLES
    kind,
    today, emitted, queue, awaiting, req, raw, counts, foldedBefore, fold, clear, faults,
    clears, kept, stored

reports ==
    <<today, emitted, queue, awaiting, req, raw, counts, foldedBefore, fold, clear, faults,
      clears, kept, stored>>

\* Metrics, with its theorems for DesiredState_proofs.
Reports == INSTANCE Metrics_proofs

ASSUME ManifestAssumption
ASSUME Reports!Assumptions

Ev(id, name, day) == [id |-> id, name |-> name, day |-> day]

\* A failure, the retry that worked on the next day, by a clock that may be ahead, and
\* a sign of life.
AllEmissions == <<Ev(1, "Failed", 1), Ev(2, "Applied", 2), Ev(3, "Active", 1)>>

BothInit == kind \in {"manifests", "metrics"} /\ Init /\ Reports!Init

BothNext ==
    /\ UNCHANGED kind
    /\ \/ kind = "manifests" /\ Next /\ UNCHANGED reports
       \/ kind = "metrics" /\ Reports!Next /\ UNCHANGED vars

BothSpec == BothInit /\ [][BothNext]_<<kind, vars, reports>>

\* The types of the variables of both.
BothTypeOK == IF kind = "manifests" THEN TypeOK ELSE Reports!TypeOK

\* The dashboard shows every stored event once, however often its batch is sent and
\* whenever its day is folded (listDeploymentTimeseries, metricFoldRepository.ts).
CountsAreExact == Reports!CountsAreExact

\* A failure that came before the device applied the package is not shown beside it
\* (persistWithFailureSupersession).
FailureSuperseded == Reports!FailureSuperseded

\* A fold never waits in a circle with the administrator's request or another fold
\* (waitForMetricFold).
FoldNeverDeadlocks == Reports!FoldNeverDeadlocks

\* No row is left behind the watermark, where no fold looks again
\* (isExpiredMetricEvent).
NothingLeftBehind == Reports!NothingLeftBehind

Symmetry ==
    Permutations(Requests) \cup Permutations(Folders)
        \cup Permutations(Hash) \cup Permutations(Version)
=============================================================================
