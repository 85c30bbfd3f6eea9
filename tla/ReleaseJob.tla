------------------------------ MODULE ReleaseJob ------------------------------
(***************************************************************************)
(* Publishing a release on the server: the release API, the release_job    *)
(* table, the workers that reconcile a deployment's manifests with it, and *)
(* the sweep that recovers jobs (server/src/repositories, server/src/      *)
(* worker, server/src/runtime), for one deployment.                        *)
(*                                                                         *)
(* Every repository call is one database transaction, hence one action; a  *)
(* worker's run is cut at each of them and at each storage write.  Jobs    *)
(* are delivered in the memory of the server process, which may stop at    *)
(* any time.  Releases and jobs are numbered in their order of creation.   *)
(* A manifest is the release it offers; the package hashes it is keyed by, *)
(* patches, deployment metadata and the CDN's cache are left out.          *)
(***************************************************************************)
EXTENDS Integers

CONSTANTS
    Version,      \* binary versions of the app
    Fingerprint,  \* native fingerprints of uploaded releases
    Worker,       \* bound: runs of reconcileRelease at once
    None,         \* no release, no fingerprint
    Rollouts,     \* bound: rollouts asked for, partial (TRUE) or whole (FALSE)
    MaxAttempts,  \* max_total_attempts of a job
    MaxReleases,  \* bound: releases of the deployment
    MaxJobs       \* bound: jobs of the deployment

ASSUME PublishAssumption ==
    /\ MaxAttempts \in Nat \ {0}
    /\ MaxReleases \in Nat
    /\ MaxJobs \in Nat
    /\ Rollouts \subseteq BOOLEAN
    /\ None \notin Nat \cup Fingerprint

VARIABLES
    releases,   \* release rows
    targets,    \* binary versions of a release's latest active release_targets
    inferred,   \* binary_version_fingerprint
    jobs,       \* release_job rows, with their pending release_targets
    bundled,    \* releases with bundle rows in release_artifact
    manifest,   \* storage: the release a binary version's manifest offers
    staged,     \* storage: releases whose upload is still staged
    delivered,  \* memory: jobs enqueued and not yet picked up
    worker      \* memory: the runs of reconcileRelease

database == <<releases, targets, inferred, jobs, bundled>>
storage  == <<manifest, staged>>
memory   == <<delivered, worker>>
vars     == <<database, storage, memory>>

Release == 1 .. MaxReleases
Job     == 1 .. MaxJobs

ReleaseRow ==
    [status  : {"absent", "uploaded", "processing", "published", "disabled", "failed"},
     partial : BOOLEAN,                     \* rollout_percentage < 100
     version : Version \cup {None},         \* target_binary_version
     fp      : Fingerprint \cup {None},
     done    : BOOLEAN,                     \* processing_finished_at is set
     sourced : BOOLEAN]                     \* source_bundle_release_id is set

JobRow ==
    [status   : {"absent", "queued", "running", "succeeded", "failed", "dead_letter"},
     release  : Release \cup {None},
     enables  : BOOLEAN,                    \* trigger_type is release_enabled
     attempts : Nat,
     gen      : Nat,                        \* claim_generation
     lease    : {"none", "live", "expired"},
     pending  : SUBSET Version]             \* its pending release_targets

Step == {"idle", "claimed", "loaded", "targeted", "writing", "put", "publish", "final"}

Run ==
    [pc     : Step,
     job    : Job \cup {None},
     gen    : Nat,
     bound  : SUBSET Version,               \* resolveReconcileTargets
     plan   : [Version -> Release \cup {None}],
     todo   : SUBSET Version,               \* manifests to write
     source : BOOLEAN]                      \* bundleSource is the staged upload

NoRelease == [status |-> "absent", partial |-> FALSE, version |-> None, fp |-> None,
              done |-> FALSE, sourced |-> FALSE]

NoJob == [status |-> "absent", release |-> None, enables |-> FALSE, attempts |-> 0,
          gen |-> 0, lease |-> "none", pending |-> {}]

NoRun == [pc |-> "idle", job |-> None, gen |-> 0, bound |-> {},
          plan |-> [v \in Version |-> None], todo |-> {}, source |-> FALSE]

Init ==
    /\ releases = [r \in Release |-> NoRelease]
    /\ targets = [r \in Release |-> {}]
    /\ inferred = [v \in Version |-> None]
    /\ jobs = [j \in Job |-> NoJob]
    /\ bundled = {}
    /\ manifest = [v \in Version |-> None]
    /\ staged = {}
    /\ delivered = {}
    /\ worker = [w \in Worker |-> NoRun]

-----------------------------------------------------------------------------
(* the updates of the rows                                                  *)

JobBecomes(j, row)     == jobs' = [jobs EXCEPT ![j] = row]
ReleaseBecomes(r, row) == releases' = [releases EXCEPT ![r] = row]
RunBecomes(w, run)     == worker' = [worker EXCEPT ![w] = run]

QueuedFor(r, enables) ==
    [NoJob EXCEPT !.status = "queued", !.release = r, !.enables = enables]

\* faulty variant: a claim keeps the generation
ClaimedAgain(row) == [row EXCEPT !.status = "running", !.lease = "live", !.attempts = @ + 1]

Claimed(row) ==
    [row EXCEPT !.status = "running", !.lease = "live", !.attempts = @ + 1, !.gen = @ + 1]

Renewed(row)            == [row EXCEPT !.lease = "live"]
Targeted(row, versions) == [row EXCEPT !.pending = versions]
Requeued(row)           == [row EXCEPT !.status = "queued", !.lease = "none"]
Succeeded(row)          == [row EXCEPT !.status = "succeeded", !.lease = "none", !.pending = {}]
Failed(row)             == [row EXCEPT !.status = "failed", !.lease = "none"]
DeadLettered(row)       == [row EXCEPT !.status = "dead_letter"]

NewRelease(disabled, partial, v, f, sourced) ==
    [status |-> IF disabled THEN "disabled" ELSE "uploaded", partial |-> partial,
     version |-> v, fp |-> f, done |-> FALSE, sourced |-> sourced]

Patched(row, request, v, partial) ==
    [row EXCEPT !.version = v, !.partial = partial,
                !.status = IF request = "disabled" THEN "disabled" ELSE @]

Started(row) == [row EXCEPT !.status = "processing"]
GivenUp(row) == [row EXCEPT !.status = "failed", !.done = TRUE]

RunOf(j, gen) == [NoRun EXCEPT !.pc = "claimed", !.job = j, !.gen = gen]

\* A release that is disabled stays so unless the job is to enable it.
Finished(row, enables) ==
    [row EXCEPT !.status = IF \/ @ \in {"uploaded", "processing"}
                              \/ @ = "disabled" /\ enables
                           THEN "published" ELSE @,
                !.done = TRUE]

-----------------------------------------------------------------------------
(* the release API                                                          *)

Status(r) == releases[r].status

Active(j) == jobs[j].status \in {"queued", "running"}

PartialRolloutExists ==
    \E r \in Release : Status(r) = "published" /\ releases[r].partial

\* The INSERT of a queued job, refused while the deployment has an active one
\* (findActiveDeploymentJob and idx_release_job_deployment_active), and the
\* enqueue that follows the commit.
InsertJob(r, enables) ==
    /\ \A j \in Job : ~Active(j)
    /\ \E j \in Job :
         /\ jobs[j].status = "absent"
         /\ \A i \in 1 .. (j - 1) : jobs[i].status # "absent"
         /\ JobBecomes(j, QueuedFor(r, enables))
         /\ delivered' = delivered \cup {j}

\* The INSERT of a release; every route to it refuses while one is rolled out
\* partially.
InsertRelease(r, row) ==
    /\ Status(r) = "absent"
    /\ \A s \in 1 .. (r - 1) : Status(s) # "absent"
    /\ ~PartialRolloutExists
    /\ InsertJob(r, FALSE)
    /\ ReleaseBecomes(r, row)

CreateRelease(r) ==
    /\ \E disabled \in BOOLEAN, partial \in Rollouts, v \in Version,
          f \in Fingerprint \cup {None} :
         InsertRelease(r, NewRelease(disabled, partial, v, f, FALSE))
    /\ staged' = staged \cup {r}
    /\ UNCHANGED <<targets, inferred, bundled, manifest, worker>>

\* promoteRelease of a release of another deployment
PromoteRelease(r) ==
    /\ \E disabled \in BOOLEAN, partial \in Rollouts, v \in Version,
          f \in Fingerprint \cup {None} :
         InsertRelease(r, NewRelease(disabled, partial, v, f, TRUE))
    /\ UNCHANGED <<targets, inferred, bundled, storage, worker>>

\* rollbackDeployment to t, which is published and not the newest such release
RollbackDeployment(r, t) ==
    /\ Status(t) = "published"
    /\ \E current \in Release : current > t /\ Status(current) = "published"
    /\ t \in bundled
    /\ InsertRelease(r, NewRelease(FALSE, FALSE, releases[t].version, releases[t].fp, TRUE))
    /\ UNCHANGED <<targets, inferred, bundled, storage, worker>>

\* faulty variant: a patch does not wait for the active job
PatchReleaseAnytime(r) ==
    /\ Status(r) \in {"published", "disabled"}
    /\ \E request \in {"published", "disabled"}, v \in Version, partial \in BOOLEAN :
         /\ partial => releases[r].partial
         /\ \E j \in Job :
              /\ jobs[j].status = "absent"
              /\ \A i \in 1 .. (j - 1) : jobs[i].status # "absent"
              /\ JobBecomes(j, QueuedFor(r, FALSE))
              /\ delivered' = delivered \cup {j}
         /\ ReleaseBecomes(r, Patched(releases[r], request, v, partial))
    /\ UNCHANGED <<targets, inferred, bundled, storage, worker>>

\* patchRelease: retarget, raise the rollout, disable at once or enable through
\* the job.  A request for the present status, or for none, changes no status.
PatchRelease(r) ==
    /\ Status(r) \in {"published", "disabled"}
    /\ \E request \in {"published", "disabled"}, v \in Version, partial \in BOOLEAN :
         /\ partial => releases[r].partial
         /\ InsertJob(r, request = "published" /\ Status(r) = "disabled")
         /\ ReleaseBecomes(r, Patched(releases[r], request, v, partial))
    /\ UNCHANGED <<targets, inferred, bundled, storage, worker>>

-----------------------------------------------------------------------------
(* claiming a job                                                           *)

Processing(r) == Status(r) \in {"uploaded", "processing"}

StartsProcessing(r) ==
    IF Status(r) = "uploaded"
    THEN ReleaseBecomes(r, Started(releases[r])) ELSE UNCHANGED releases

\* A release that was never published fails; any other keeps its status.
FailsProcessing(r) ==
    IF Processing(r) THEN ReleaseBecomes(r, GivenUp(releases[r])) ELSE UNCHANGED releases

\* isJobClaimable
Claimable(j) ==
    \/ jobs[j].status = "queued"
    \/ jobs[j].status = "running" /\ jobs[j].lease = "expired"

\* A run picks a delivered job up.
PicksUp(w, j) ==
    /\ worker[w].pc = "idle"
    /\ j \in delivered
    /\ delivered' = delivered \ {j}

ClaimRefused(w, j) ==
    /\ PicksUp(w, j)
    /\ ~Claimable(j)
    /\ UNCHANGED <<database, storage, worker>>

\* faulty variant: a job out of attempts leaves its release processing
DeadLetterJobOnly(w, j) ==
    /\ PicksUp(w, j)
    /\ Claimable(j) /\ jobs[j].attempts >= MaxAttempts
    /\ JobBecomes(j, DeadLettered(jobs[j]))
    /\ UNCHANGED <<releases, targets, inferred, bundled, storage, worker>>

\* faulty variant: the release is given the job's status
DeadLetterReleaseToo(w, j) ==
    /\ PicksUp(w, j)
    /\ Claimable(j) /\ jobs[j].attempts >= MaxAttempts
    /\ JobBecomes(j, DeadLettered(jobs[j]))
    /\ releases' = [releases EXCEPT ![jobs[j].release].status = "dead_letter"]
    /\ UNCHANGED <<targets, inferred, bundled, storage, worker>>

DeadLetter(w, j) ==
    /\ PicksUp(w, j)
    /\ Claimable(j) /\ jobs[j].attempts >= MaxAttempts
    /\ JobBecomes(j, DeadLettered(jobs[j]))
    /\ FailsProcessing(jobs[j].release)
    /\ UNCHANGED <<targets, inferred, bundled, storage, worker>>

\* faulty variants: one attempt too many; a claim that keeps the generation
ClaimOnceMore(w, j) ==
    /\ PicksUp(w, j)
    /\ Claimable(j) /\ jobs[j].attempts <= MaxAttempts
    /\ JobBecomes(j, Claimed(jobs[j]))
    /\ StartsProcessing(jobs[j].release)
    /\ RunBecomes(w, RunOf(j, jobs[j].gen + 1))
    /\ UNCHANGED <<targets, inferred, bundled, storage>>

ClaimSameGeneration(w, j) ==
    /\ PicksUp(w, j)
    /\ Claimable(j) /\ jobs[j].attempts < MaxAttempts
    /\ JobBecomes(j, ClaimedAgain(jobs[j]))
    /\ StartsProcessing(jobs[j].release)
    /\ RunBecomes(w, RunOf(j, jobs[j].gen))
    /\ UNCHANGED <<targets, inferred, bundled, storage>>

Claim(w, j) ==
    /\ PicksUp(w, j)
    /\ Claimable(j) /\ jobs[j].attempts < MaxAttempts
    /\ JobBecomes(j, Claimed(jobs[j]))
    /\ StartsProcessing(jobs[j].release)
    /\ RunBecomes(w, RunOf(j, jobs[j].gen + 1))
    /\ UNCHANGED <<targets, inferred, bundled, storage>>

-----------------------------------------------------------------------------
(* the desired state                                                        *)

\* resolveReconcileTargets: the explicit version and those of its fingerprint
Resolved(r) ==
    {releases[r].version}
        \cup {v \in Version : inferred[v] # None /\ inferred[v] = releases[r].fp}

\* shouldServeCurrentRelease
ServesCurrent(j) ==
    LET r == jobs[j].release IN
      \/ jobs[j].enables /\ Status(r) = "disabled"
      \/ Status(r) \in {"uploaded", "processing", "published"}

\* buildEffectivePublishedReleases
Effective(j) ==
    {s \in Release : IF s = jobs[j].release THEN ServesCurrent(j) ELSE Status(s) = "published"}

\* The versions a release is served to: from its active targets, or as resolved
\* now for the job's own.
ServedTo(s, j) == IF s = jobs[j].release THEN Resolved(s) ELSE targets[s]

Newest(S) == IF S = {} THEN None ELSE CHOOSE r \in S : \A s \in S : s <= r

\* faulty variant: versions the release leaves are forgotten
ManifestVersionsOfTargets(j) ==
    UNION {ServedTo(s, j) : s \in Effective(j)}

ManifestVersions(j) ==
    (UNION {ServedTo(s, j) : s \in Effective(j)}) \cup targets[jobs[j].release]

DesiredManifest(j) ==
    [v \in Version |-> Newest({s \in Effective(j) : v \in ServedTo(s, j)})]

\* deriveBundleSource is the staged upload
StagedSource(r) ==
    /\ ~releases[r].sourced
    /\ \/ Processing(r)
       \/ Status(r) = "disabled" /\ ~releases[r].done

-----------------------------------------------------------------------------
(* a worker's run                                                           *)

\* lockOwnedRunningJob, and the WHERE of a heartbeat
Owns(w) ==
    LET j == worker[w].job IN
      j # None /\ jobs[j].status = "running" /\ jobs[j].gen = worker[w].gen

Goes(w, pc) == RunBecomes(w, [worker[w] EXCEPT !.pc = pc])
Ends(w)     == RunBecomes(w, NoRun)

Renews(j) == JobBecomes(j, Renewed(jobs[j]))

\* LostClaimError: the run ends without a trace.
LosesClaim(w) == ~Owns(w) /\ Ends(w)

LoadContext(w) ==
    LET j == worker[w].job IN
      /\ worker[w].pc = "claimed"
      /\ RunBecomes(w, [worker[w] EXCEPT !.pc = "loaded",
                                         !.bound = Resolved(jobs[j].release),
                                         !.plan = DesiredManifest(j),
                                         !.todo = ManifestVersions(j),
                                         !.source = StagedSource(jobs[j].release)])
      /\ UNCHANGED <<database, storage, delivered>>

\* persistPendingReleaseTargets, with the inferred fingerprint
PersistTargets(w) ==
    LET j == worker[w].job
        r == jobs[j].release
        v == releases[r].version
    IN
      /\ worker[w].pc = "loaded"
      /\ \/ /\ Owns(w)
            /\ JobBecomes(j, Targeted(jobs[j], IF worker[w].bound = targets[r] THEN {}
                                               ELSE worker[w].bound))
            /\ inferred' = [inferred EXCEPT ![v] = IF @ = None THEN releases[r].fp ELSE @]
            /\ Goes(w, "targeted")
         \/ LosesClaim(w) /\ UNCHANGED <<jobs, inferred>>
      /\ UNCHANGED <<releases, targets, bundled, storage, delivered>>

\* inspectActualState and diffPlan, with their heartbeats
Inspect(w) ==
    LET run == worker[w] IN
      /\ run.pc = "targeted"
      /\ \/ /\ Owns(w)
            /\ Renews(run.job)
            /\ RunBecomes(w, [run EXCEPT
                 !.pc = "writing", !.todo = {v \in @ : manifest[v] # run.plan[v]}])
         \/ LosesClaim(w) /\ UNCHANGED jobs
      /\ UNCHANGED <<releases, targets, inferred, bundled, storage, delivered>>

\* the heartbeat before each manifest and after the last
Heartbeat(w) ==
    /\ worker[w].pc = "writing"
    /\ \/ /\ Owns(w)
          /\ Renews(worker[w].job)
          /\ Goes(w, IF worker[w].todo = {} THEN "publish" ELSE "put")
       \/ LosesClaim(w) /\ UNCHANGED jobs
    /\ UNCHANGED <<releases, targets, inferred, bundled, storage, delivered>>

\* storage.put of one manifest: storage knows nothing of claims
PutManifest(w) ==
    /\ worker[w].pc = "put"
    /\ \E v \in worker[w].todo :
         /\ manifest' = [manifest EXCEPT ![v] = worker[w].plan[v]]
         /\ RunBecomes(w, [worker[w] EXCEPT !.pc = "writing", !.todo = @ \ {v}])
    /\ UNCHANGED <<database, staged, delivered>>

\* faulty variant: the bundle rows are left to the next run
PersistNoArtifacts(w) ==
    /\ worker[w].pc = "publish"
    /\ Owns(w) /\ Renews(worker[w].job) /\ Goes(w, "final")
    /\ UNCHANGED <<releases, targets, inferred, bundled, storage, delivered>>

\* persistPublishedArtifacts, which no claim guards, and a heartbeat
PersistArtifacts(w) ==
    LET j == worker[w].job IN
      /\ worker[w].pc = "publish"
      /\ bundled' = bundled \cup {jobs[j].release}
      /\ \/ Owns(w) /\ Renews(j) /\ Goes(w, "final")
         \/ LosesClaim(w) /\ UNCHANGED jobs
      /\ UNCHANGED <<releases, targets, inferred, storage, delivered>>

\* bestEffortCleanupStagedBundle
Cleanup(w) ==
    staged' = IF worker[w].source THEN staged \ {jobs[worker[w].job].release} ELSE staged

\* A run that fails on a job that is not running is enqueued again.
RedeliverUnlessTaken(w) ==
    delivered' = IF jobs[worker[w].job].status = "running" THEN delivered
                 ELSE delivered \cup {worker[w].job}

\* finalizeReleaseSuccess and the cleanup after it
Finalize(w) ==
    LET j == worker[w].job
        r == jobs[j].release
    IN
      /\ worker[w].pc = "final"
      /\ Owns(w)
      /\ JobBecomes(j, Succeeded(jobs[j]))
      /\ targets' = [targets EXCEPT ![r] = IF jobs[j].pending = {} THEN @
                                           ELSE jobs[j].pending]
      /\ ReleaseBecomes(r, Finished(releases[r], jobs[j].enables))
      /\ Cleanup(w)
      /\ Ends(w)
      /\ UNCHANGED <<inferred, bundled, manifest, delivered>>

FinalizeRefused(w) ==
    /\ worker[w].pc = "final"
    /\ LosesClaim(w)
    /\ RedeliverUnlessTaken(w)
    /\ UNCHANGED <<database, storage>>

\* faulty variant: a requeue that does not lock the job it owns
RequeueUnowned(w) ==
    LET j == worker[w].job IN
      /\ worker[w].pc # "idle"
      /\ JobBecomes(j, Requeued(jobs[j]))
      /\ delivered' = delivered \cup {j}
      /\ Ends(w)
      /\ UNCHANGED <<releases, targets, inferred, bundled, storage>>

\* a retryable error: requeueRetryableJob, and the delayed enqueue
Requeue(w) ==
    LET j == worker[w].job IN
      /\ worker[w].pc # "idle"
      /\ \/ /\ Owns(w)
            /\ JobBecomes(j, Requeued(jobs[j]))
            /\ delivered' = delivered \cup {j}
         \/ ~Owns(w) /\ RedeliverUnlessTaken(w) /\ UNCHANGED jobs
      /\ Ends(w)
      /\ UNCHANGED <<releases, targets, inferred, bundled, storage>>

\* any other error: finalizeReleaseFailure.  Only a job that another run holds
\* keeps this run from deleting the staged upload.
Fail(w) ==
    LET j == worker[w].job IN
      /\ worker[w].pc \notin {"idle", "claimed"}
      /\ \/ /\ Owns(w)
            /\ JobBecomes(j, Failed(jobs[j]))
            /\ FailsProcessing(jobs[j].release)
            /\ Cleanup(w)
         \/ /\ ~Owns(w)
            /\ IF jobs[j].status = "running" THEN UNCHANGED staged ELSE Cleanup(w)
            /\ UNCHANGED <<jobs, releases>>
      /\ Ends(w)
      /\ UNCHANGED <<targets, inferred, bundled, manifest, delivered>>

-----------------------------------------------------------------------------
(* time, the sweep and crashes                                              *)

\* A lease runs out.  Assumption: a storage write is shorter than the lease that
\* is renewed just before it.  Without it, a write of the run that lost its claim
\* may land last and ServedIsCurrent fails.
LeaseExpires(j) ==
    /\ jobs[j].status = "running" /\ jobs[j].lease = "live"
    /\ \A w \in Worker : worker[w].pc = "put" => worker[w].job # j
    /\ JobBecomes(j, [jobs[j] EXCEPT !.lease = "expired"])
    /\ UNCHANGED <<releases, targets, inferred, bundled, storage, memory>>

Expired(j) == jobs[j].status = "running" /\ jobs[j].lease = "expired"

\* selectRecoverableProcessingReleases whose latest job is queued.  Releases are
\* inserted with their job and a running job has a lease, so the sweep's other
\* branches find nothing.
Stuck(j) ==
    /\ jobs[j].status = "queued"
    /\ Status(jobs[j].release) = "processing"
    /\ \A i \in Job : ~(jobs[i].status = "running" /\ jobs[i].lease = "live")

\* startupSweep, run at startup and every minute
Sweep ==
    LET recovered == {j \in Job : Expired(j) \/ Stuck(j)} IN
      /\ recovered # {}
      /\ jobs' = [j \in Job |-> IF Expired(j)
                                THEN Requeued(jobs[j])
                                ELSE jobs[j]]
      /\ delivered' = delivered \cup recovered
      /\ UNCHANGED <<releases, targets, inferred, bundled, storage, worker>>

\* The server process stops; a new one starts with nothing in memory.
Crash ==
    /\ delivered' = {}
    /\ worker' = [w \in Worker |-> NoRun]
    /\ UNCHANGED <<database, storage>>

-----------------------------------------------------------------------------
Work(w) ==
    \/ LoadContext(w)
    \/ PersistTargets(w)
    \/ Inspect(w)
    \/ Heartbeat(w)
    \/ PutManifest(w)
    \/ PersistArtifacts(w)
    \/ Finalize(w)
    \/ FinalizeRefused(w)

PickUp(w, j) == ClaimRefused(w, j) \/ DeadLetter(w, j) \/ Claim(w, j)

Next ==
    \/ \E r \in Release :
         \/ CreateRelease(r)
         \/ PromoteRelease(r)
         \/ PatchRelease(r)
         \/ \E t \in Release : RollbackDeployment(r, t)
    \/ \E w \in Worker :
         \/ Work(w)
         \/ Requeue(w)
         \/ Fail(w)
         \/ \E j \in Job : PickUp(w, j)
    \/ \E j \in Job : LeaseExpires(j)
    \/ Sweep
    \/ Crash

Spec == Init /\ [][Next]_vars

\* What the runtime's scheduling promises: a run goes on until it ends, leases
\* run out, the sweep's timer fires, and a job that keeps being delivered is
\* picked up before the process stops again.
Fairness ==
    /\ \A w \in Worker : WF_vars(Work(w))
    /\ \A j \in Job : WF_vars(LeaseExpires(j)) /\ SF_vars(\E w \in Worker : PickUp(w, j))
    /\ WF_vars(Sweep)

FairSpec == Spec /\ Fairness

-----------------------------------------------------------------------------
(* properties                                                               *)

TypeOK ==
    /\ releases \in [Release -> ReleaseRow]
    /\ targets \in [Release -> SUBSET Version]
    /\ inferred \in [Version -> Fingerprint \cup {None}]
    /\ jobs \in [Job -> JobRow]
    /\ bundled \subseteq Release
    /\ manifest \in [Version -> Release \cup {None}]
    /\ staged \subseteq Release
    /\ delivered \subseteq Job
    /\ worker \in [Worker -> Run]

\* Requeues, sweeps and inserts of several runs never give the deployment two
\* active jobs: what the partial index promises without raising an error.
OneActiveJob == \A i, j \in Job : Active(i) /\ Active(j) => i = j

\* A release that is being processed has a job that will end it: whatever
\* fails, no release is left processing with nobody to publish or fail it.
NoStrandedRelease ==
    \A r \in Release : Processing(r) => \E j \in Job : Active(j) /\ jobs[j].release = r

\* A job gets exactly its attempts, however its claims end, before it is given up.
AttemptBudget ==
    \A j \in Job : /\ jobs[j].attempts <= MaxAttempts
                   /\ jobs[j].status = "dead_letter" => jobs[j].attempts = MaxAttempts

\* Claims are exclusive: after expiries, sweeps and takeovers at most one run can
\* still heartbeat, persist or finalize.
ExclusiveClaim == \A w, x \in Worker : Owns(w) /\ Owns(x) => w = x

\* The context a run loaded is still the database when it acts on it, many
\* awaits later, as long as it holds the claim.
OwnerSeesThePresent ==
    \A w \in Worker :
        Owns(w) /\ worker[w].pc # "claimed" =>
            /\ worker[w].plan = DesiredManifest(worker[w].job)
            /\ worker[w].bound = Resolved(jobs[worker[w].job].release)

ServedRelease(v) == Newest({r \in Release : Status(r) = "published" /\ v \in targets[r]})

LatestJobSucceeded ==
    \A j \in Job : (/\ jobs[j].status # "absent"
                    /\ \A i \in Job : i > j => jobs[i].status = "absent")
                   => jobs[j].status = "succeeded"

\* When the latest job has succeeded, the manifest of every binary version with a
\* published release offers the newest of them; and when no job ever failed, a
\* version whose releases were disabled or retargeted offers none.
ServedIsCurrent ==
    /\ LatestJobSucceeded =>
         \A v \in Version : ServedRelease(v) # None => manifest[v] = ServedRelease(v)
    /\ (\A j \in Job : jobs[j].status \in {"absent", "succeeded"}) =>
         \A v \in Version : manifest[v] = ServedRelease(v)

\* A published release has the artifact rows promote and rollback look for.
PublishedIsReusable == \A r \in Release : Status(r) = "published" => r \in bundled

\* A release leaves `processing', by publication or by failure, though runs
\* stall, jobs are taken over and the process stops.
ProcessingEnds ==
    \A r \in Release : Status(r) = "processing" ~> Status(r) # "processing"

\* What JobQueueAdapter demands: every enqueued job is delivered at least once.
QueuedJobsRun ==
    \A j \in Job : jobs[j].status = "queued" ~> jobs[j].status # "queued"

\* What StagedBundleRetention promises: the upload is deleted only after its
\* release has reached a terminal state.
StagedUntilTerminal ==
    \A r \in Release : Processing(r) /\ ~releases[r].sourced => r \in staged

\* What the documentation of rollouts promises: one partial rollout at a time.
OnePartialRollout ==
    \A r, s \in Release :
        /\ Status(r) = "published" /\ releases[r].partial
        /\ Status(s) = "published" /\ releases[s].partial
        => r = s
=============================================================================
