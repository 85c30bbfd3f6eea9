--------------------------- MODULE ReleaseJob_proofs ---------------------------
(***************************************************************************)
(* Theorems about ReleaseJob for any number of releases, jobs, runs,       *)
(* versions and attempts.                                                  *)
(***************************************************************************)
EXTENDS ReleaseJob, TLAPS, WellFoundedInduction

LEMMA NewestExists ==
    ASSUME NEW S \in SUBSET Release
    PROVE  /\ Newest(S) \in Release \cup {None}
           /\ S # {} => Newest(S) \in S
<1>1. CASE S = {}
  BY <1>1 DEF Newest
<1>2. CASE S # {}
  <2> DEFINE distance == {MaxReleases - s : s \in S}
  <2>1. distance \subseteq Nat /\ distance # {}
    <3>1. \A s \in S : s \in Nat /\ s <= MaxReleases
      BY PublishAssumption DEF Release
    <3>2. distance # {}
      BY <1>2
    <3> QED
      BY <3>1, <3>2, PublishAssumption
  <2>2. \E x \in distance : \A y \in distance : ~ (<<y, x>> \in OpToRel(<, Nat))
    BY <2>1, NatLessThanWellFounded, WFMin
  <2>3. PICK x \in distance : \A y \in distance : ~ (y < x)
    BY <2>1, <2>2 DEF OpToRel
  <2>4. PICK r \in S : x = MaxReleases - r
    OBVIOUS
  <2>5. \A s \in S : s <= r
    <3>1. MaxReleases \in Nat /\ S \subseteq Nat
      BY PublishAssumption DEF Release
    <3>2. \A s \in S : ~ (MaxReleases - s < MaxReleases - r)
      BY <2>3, <2>4
    <3> QED
      BY <3>1, <3>2, <2>4
  <2> QED
    BY <2>5, <1>2 DEF Newest
<1> QED
  BY <1>1, <1>2

-----------------------------------------------------------------------------
(* typing                                                                   *)

\* The rows a job, a run or a delivery refers to exist, a release that exists has
\* a target version, and a run's claim is not newer than its job's.
JobsInv ==
    \A j \in Job : jobs[j].status # "absent" =>
        /\ jobs[j].release \in Release
        /\ Status(jobs[j].release) # "absent"

VersionsInv == \A r \in Release : Status(r) # "absent" => releases[r].version \in Version

RunsInv ==
    \A w \in Worker :
        IF worker[w].pc = "idle" THEN worker[w].job = None
        ELSE /\ worker[w].job \in Job
             /\ jobs[worker[w].job].status # "absent"
             /\ worker[w].gen <= jobs[worker[w].job].gen

RefsInv ==
    /\ JobsInv
    /\ VersionsInv
    /\ RunsInv
    /\ \A j \in delivered : jobs[j].status # "absent"

TInv == TypeOK /\ RefsInv

LEMMA RowTypes ==
    /\ NoRelease \in ReleaseRow /\ NoRelease.status = "absent"
    /\ NoJob \in JobRow /\ NoJob.status = "absent"
    /\ NoRun \in Run /\ NoRun.pc = "idle" /\ NoRun.job = None
BY DEF NoRelease, ReleaseRow, NoJob, JobRow, NoRun, Run, Step

LEMMA NoneIsNoRow == None \notin Release /\ None \notin Job
BY PublishAssumption DEF Release, Job

\* An updated row is of the same release, exists as before, and its generation has
\* not gone back.
Follows(x, row) ==
    /\ row \in JobRow
    /\ row.release = x.release
    /\ row.status = "absent" <=> x.status = "absent"
    /\ x.gen <= row.gen

LEMMA JobRowFields ==
    ASSUME NEW x \in JobRow
    PROVE  /\ x.attempts \in Nat /\ x.gen \in Nat
           /\ x.pending \in SUBSET Version
           /\ x.release \in Release \cup {None}
           /\ x.enables \in BOOLEAN
BY DEF JobRow

LEMMA QueuedForRow ==
    ASSUME NEW r \in Release, NEW b \in BOOLEAN
    PROVE  /\ QueuedFor(r, b) \in JobRow
           /\ QueuedFor(r, b).status = "queued"
           /\ QueuedFor(r, b).release = r
           /\ QueuedFor(r, b).attempts = 0
BY DEF QueuedFor, NoJob, JobRow

LEMMA RequeuedRow ==
    ASSUME NEW x \in JobRow, x.status # "absent"
    PROVE  /\ Follows(x, Requeued(x))
           /\ Requeued(x).status = "queued"
           /\ Requeued(x).gen = x.gen
           /\ Requeued(x).attempts = x.attempts
           /\ Requeued(x).enables = x.enables
<1>1. Requeued(x) \in JobRow
  BY DEF Requeued, JobRow
<1>2. /\ Requeued(x).status = "queued" /\ Requeued(x).attempts = x.attempts
      /\ Requeued(x).release = x.release /\ Requeued(x).gen = x.gen
      /\ Requeued(x).enables = x.enables
  BY DEF Requeued, JobRow
<1> QED
  BY <1>1, <1>2, JobRowFields DEF Follows

LEMMA RenewedRow ==
    ASSUME NEW x \in JobRow, x.status # "absent"
    PROVE  /\ Follows(x, Renewed(x))
           /\ Renewed(x).status = x.status
           /\ Renewed(x).gen = x.gen
           /\ Renewed(x).attempts = x.attempts
           /\ Renewed(x).enables = x.enables
           /\ Renewed(x).pending = x.pending
           /\ Renewed(x).lease = "live"
BY JobRowFields DEF Follows, JobRow, Renewed

LEMMA TargetedRow ==
    ASSUME NEW x \in JobRow, x.status # "absent", NEW p \in SUBSET Version
    PROVE  /\ Follows(x, Targeted(x, p))
           /\ Targeted(x, p).status = x.status
           /\ Targeted(x, p).gen = x.gen
           /\ Targeted(x, p).attempts = x.attempts
           /\ Targeted(x, p).enables = x.enables
           /\ Targeted(x, p).pending = p
BY JobRowFields DEF Follows, JobRow, Targeted

LEMMA SucceededRow ==
    ASSUME NEW x \in JobRow, x.status # "absent"
    PROVE  /\ Follows(x, Succeeded(x))
           /\ Succeeded(x).status = "succeeded"
           /\ Succeeded(x).attempts = x.attempts
<1>1. Succeeded(x) \in JobRow
  BY DEF Succeeded, JobRow
<1>2. /\ Succeeded(x).status = "succeeded" /\ Succeeded(x).attempts = x.attempts
      /\ Succeeded(x).release = x.release /\ Succeeded(x).gen = x.gen
  BY DEF Succeeded, JobRow
<1> QED
  BY <1>1, <1>2, JobRowFields DEF Follows

LEMMA FailedRow ==
    ASSUME NEW x \in JobRow, x.status # "absent"
    PROVE  /\ Follows(x, Failed(x))
           /\ Failed(x).status = "failed"
           /\ Failed(x).attempts = x.attempts
<1>1. Failed(x) \in JobRow
  BY DEF Failed, JobRow
<1>2. /\ Failed(x).status = "failed" /\ Failed(x).attempts = x.attempts
      /\ Failed(x).release = x.release /\ Failed(x).gen = x.gen
  BY DEF Failed, JobRow
<1> QED
  BY <1>1, <1>2, JobRowFields DEF Follows

LEMMA DeadLetteredRow ==
    ASSUME NEW x \in JobRow, x.status # "absent"
    PROVE  /\ Follows(x, DeadLettered(x))
           /\ DeadLettered(x).status = "dead_letter"
           /\ DeadLettered(x).attempts = x.attempts
BY JobRowFields DEF Follows, JobRow, DeadLettered

LEMMA ClaimedRow ==
    ASSUME NEW x \in JobRow, x.status # "absent"
    PROVE  /\ Follows(x, Claimed(x))
           /\ Claimed(x).status = "running"
           /\ Claimed(x).gen = x.gen + 1
           /\ Claimed(x).attempts = x.attempts + 1
           /\ Claimed(x).enables = x.enables
<1>1. x.attempts + 1 \in Nat /\ x.gen + 1 \in Nat /\ x.gen <= x.gen + 1
  BY JobRowFields
<1>2. Claimed(x) \in JobRow
  BY <1>1 DEF Claimed, JobRow
<1>3. /\ Claimed(x).status = "running" /\ Claimed(x).gen = x.gen + 1
      /\ Claimed(x).attempts = x.attempts + 1 /\ Claimed(x).release = x.release
      /\ Claimed(x).enables = x.enables
  BY DEF Claimed, JobRow
<1> QED
  BY <1>1, <1>2, <1>3 DEF Follows

LEMMA ExpiredRow ==
    ASSUME NEW x \in JobRow
    PROVE  /\ Follows(x, [x EXCEPT !.lease = "expired"])
           /\ [x EXCEPT !.lease = "expired"].status = x.status
           /\ [x EXCEPT !.lease = "expired"].gen = x.gen
           /\ [x EXCEPT !.lease = "expired"].attempts = x.attempts
           /\ [x EXCEPT !.lease = "expired"].enables = x.enables
           /\ [x EXCEPT !.lease = "expired"].pending = x.pending
BY JobRowFields DEF Follows, JobRow

\* the updates of a run
LEMMA RunFields ==
    ASSUME NEW x \in Run
    PROVE  /\ x.pc \in Step /\ x.job \in Job \cup {None} /\ x.gen \in Nat
           /\ x.bound \in SUBSET Version
           /\ x.plan \in [Version -> Release \cup {None}]
           /\ x.todo \in SUBSET Version
           /\ x.source \in BOOLEAN
BY DEF Run

LEMMA RunAtStep ==
    ASSUME NEW x \in Run, NEW pc \in Step
    PROVE  /\ [x EXCEPT !.pc = pc] \in Run
           /\ [x EXCEPT !.pc = pc].pc = pc
           /\ [x EXCEPT !.pc = pc].job = x.job
           /\ [x EXCEPT !.pc = pc].gen = x.gen
           /\ [x EXCEPT !.pc = pc].plan = x.plan
           /\ [x EXCEPT !.pc = pc].bound = x.bound
BY DEF Run

LEMMA RunWithWork ==
    ASSUME NEW x \in Run, NEW todo \in SUBSET Version
    PROVE  LET y == [x EXCEPT !.pc = "writing", !.todo = todo] IN
           /\ y \in Run /\ y.pc = "writing" /\ y.job = x.job /\ y.gen = x.gen
           /\ y.plan = x.plan /\ y.bound = x.bound
BY DEF Run, Step

LEMMA RunOfJob ==
    ASSUME NEW j \in Job, NEW n \in Nat
    PROVE  /\ RunOf(j, n) \in Run
           /\ RunOf(j, n).pc = "claimed"
           /\ RunOf(j, n).job = j
           /\ RunOf(j, n).gen = n
BY DEF RunOf, NoRun, Run, Step

\* the updates of a release's row
LEMMA ReleaseRowFields ==
    ASSUME NEW x \in ReleaseRow
    PROVE  /\ x.version \in Version \cup {None}
           /\ x.fp \in Fingerprint \cup {None}
           /\ x.partial \in BOOLEAN /\ x.done \in BOOLEAN /\ x.sourced \in BOOLEAN
BY DEF ReleaseRow

LEMMA StartedRow ==
    ASSUME NEW x \in ReleaseRow
    PROVE  /\ Started(x) \in ReleaseRow
           /\ Started(x).status = "processing"
           /\ Started(x).version = x.version
           /\ Started(x).fp = x.fp
BY DEF ReleaseRow, Started

LEMMA GivenUpRow ==
    ASSUME NEW x \in ReleaseRow
    PROVE  /\ GivenUp(x) \in ReleaseRow
           /\ GivenUp(x).status = "failed"
           /\ GivenUp(x).version = x.version
BY DEF ReleaseRow, GivenUp

LEMMA FinishedRow ==
    ASSUME NEW x \in ReleaseRow, NEW b \in BOOLEAN
    PROVE  /\ Finished(x, b) \in ReleaseRow
           /\ Finished(x, b).status \in {"published", x.status}
           /\ Finished(x, b).status \notin {"uploaded", "processing"}
           /\ Finished(x, b).version = x.version
BY DEF ReleaseRow, Finished

LEMMA PatchedRow ==
    ASSUME NEW x \in ReleaseRow, NEW request \in {"published", "disabled"},
           NEW v \in Version, NEW partial \in BOOLEAN
    PROVE  /\ Patched(x, request, v, partial) \in ReleaseRow
           /\ Patched(x, request, v, partial).version = v
           /\ Patched(x, request, v, partial).status \in {x.status, "disabled"}
BY DEF ReleaseRow, Patched

LEMMA NewReleaseRow ==
    ASSUME NEW disabled \in BOOLEAN, NEW partial \in BOOLEAN, NEW v \in Version,
           NEW f \in Fingerprint \cup {None}, NEW sourced \in BOOLEAN
    PROVE  /\ NewRelease(disabled, partial, v, f, sourced) \in ReleaseRow
           /\ NewRelease(disabled, partial, v, f, sourced).version = v
           /\ NewRelease(disabled, partial, v, f, sourced).status \in {"disabled", "uploaded"}
BY DEF NewRelease, ReleaseRow

LEMMA StagedSourceType ==
    \A r : StagedSource(r) \in BOOLEAN
BY DEF StagedSource

\* What a run plans is well typed.
LEMMA PlanTypes ==
    ASSUME TInv, NEW j \in Job, jobs[j].status # "absent"
    PROVE  /\ Resolved(jobs[j].release) \subseteq Version
           /\ DesiredManifest(j) \in [Version -> Release \cup {None}]
           /\ ManifestVersions(j) \subseteq Version
           /\ StagedSource(jobs[j].release) \in BOOLEAN
<1> DEFINE r == jobs[j].release
<1>1. r \in Release /\ releases[r].version \in Version
  BY DEF TInv, RefsInv, JobsInv, VersionsInv
<1>2. Effective(j) \subseteq Release
  BY DEF Effective
<1>3. DesiredManifest(j) \in [Version -> Release \cup {None}]
  <2>1. \A v \in Version : {s \in Effective(j) : v \in ServedTo(s, j)} \in SUBSET Release
    BY <1>2
  <2> QED
    BY <2>1, NewestExists DEF DesiredManifest
<1>4. Resolved(r) \subseteq Version
  BY <1>1 DEF Resolved
<1>5. ManifestVersions(j) \subseteq Version
  <2>1. \A s \in Release : targets[s] \in SUBSET Version
    BY DEF TInv, TypeOK
  <2>2. \A s \in Effective(j) : ServedTo(s, j) \in SUBSET Version
    BY <1>2, <1>4, <2>1 DEF ServedTo
  <2>3. UNION {ServedTo(s, j) : s \in Effective(j)} \subseteq Version
    BY <2>2
  <2> QED
    BY <1>1, <2>1, <2>3 DEF ManifestVersions
<1>6. StagedSource(r) \in BOOLEAN
  BY StagedSourceType
<1> QED
  BY <1>3, <1>4, <1>5, <1>6

LEMMA TInvInit == Init => TInv
BY RowTypes, NoneIsNoRow DEF Init, TInv, TypeOK, RefsInv, JobsInv, VersionsInv, RunsInv, Status

-----------------------------------------------------------------------------
(* What a step of a run, the sweep or a crash keeps: no row appears or         *)
(* disappears, no job changes its release, no release its version, and a       *)
(* generation only grows.                                                      *)

JobsKept ==
    /\ jobs' \in [Job -> JobRow]
    /\ \A j \in Job :
         /\ jobs'[j].release = jobs[j].release
         /\ jobs'[j].status = "absent" <=> jobs[j].status = "absent"
         /\ jobs[j].gen <= jobs'[j].gen

ReleasesKept ==
    /\ releases' \in [Release -> ReleaseRow]
    /\ \A r \in Release :
         /\ releases'[r].version = releases[r].version
         /\ releases'[r].status = "absent" <=> releases[r].status = "absent"

RunMoves(w) ==
    /\ worker' \in [Worker -> Run]
    /\ \A x \in Worker \ {w} : worker'[x] = worker[x]
    /\ IF worker'[w].pc = "idle" THEN worker'[w].job = None
       ELSE /\ worker'[w].job \in Job
            /\ jobs[worker'[w].job].status # "absent"
            /\ worker'[w].gen <= jobs'[worker'[w].job].gen

LEMMA JobUnchanged ==
    ASSUME TInv, UNCHANGED jobs
    PROVE  JobsKept
<1>1. jobs \in [Job -> JobRow] /\ \A j \in Job : jobs[j].gen \in Nat
  BY JobRowFields DEF TInv, TypeOK
<1> QED
  BY <1>1 DEF JobsKept

LEMMA JobUpdate ==
    ASSUME TInv, NEW j \in Job, NEW row, Follows(jobs[j], row), JobBecomes(j, row)
    PROVE  /\ JobsKept
           /\ jobs'[j] = row
           /\ \A i \in Job \ {j} : jobs'[i] = jobs[i]
<1>1. jobs \in [Job -> JobRow] /\ \A i \in Job : jobs[i].gen \in Nat
  BY JobRowFields DEF TInv, TypeOK
<1>2. jobs' \in [Job -> JobRow]
  BY <1>1 DEF JobBecomes, Follows
<1>3. jobs'[j] = row /\ \A i \in Job \ {j} : jobs'[i] = jobs[i]
  BY <1>1 DEF JobBecomes
<1> QED
  BY <1>1, <1>2, <1>3 DEF JobsKept, Follows

LEMMA ReleaseUnchanged ==
    ASSUME TInv, UNCHANGED releases
    PROVE  ReleasesKept
BY DEF TInv, TypeOK, ReleasesKept

LEMMA ReleaseUpdate ==
    ASSUME TInv, NEW r \in Release, NEW row \in ReleaseRow, ReleaseBecomes(r, row)
    PROVE  /\ releases' \in [Release -> ReleaseRow]
           /\ releases'[r] = row
           /\ \A s \in Release \ {r} : releases'[s] = releases[s]
           /\ /\ row.version = releases[r].version
              /\ row.status # "absent" /\ releases[r].status # "absent"
              => ReleasesKept
<1>1. releases \in [Release -> ReleaseRow]
  BY DEF TInv, TypeOK
<1>2. /\ releases' \in [Release -> ReleaseRow]
      /\ releases'[r] = row
      /\ \A s \in Release \ {r} : releases'[s] = releases[s]
  BY <1>1 DEF ReleaseBecomes
<1> QED
  BY <1>1, <1>2 DEF ReleasesKept

LEMMA StartsProcessingKeeps ==
    ASSUME TInv, NEW r \in Release, StartsProcessing(r)
    PROVE  /\ ReleasesKept
           /\ \A s \in Release : releases'[s].status =
                IF s = r /\ Status(s) = "uploaded" THEN "processing" ELSE Status(s)
<1>1. releases[r] \in ReleaseRow
  BY DEF TInv, TypeOK
<1>2. CASE Status(r) = "uploaded"
  <2>1. ReleaseBecomes(r, Started(releases[r]))
    BY <1>2 DEF StartsProcessing
  <2> QED
    BY <1>1, <1>2, <2>1, StartedRow, ReleaseUpdate DEF Status
<1>3. CASE Status(r) # "uploaded"
  BY <1>3, ReleaseUnchanged DEF StartsProcessing, Status
<1> QED
  BY <1>2, <1>3

LEMMA FailsProcessingKeeps ==
    ASSUME TInv, NEW r \in Release, FailsProcessing(r)
    PROVE  /\ ReleasesKept
           /\ \A s \in Release : releases'[s].status =
                IF s = r /\ Processing(s) THEN "failed" ELSE Status(s)
<1>1. releases[r] \in ReleaseRow
  BY DEF TInv, TypeOK
<1>2. CASE Processing(r)
  <2>1. ReleaseBecomes(r, GivenUp(releases[r]))
    BY <1>2 DEF FailsProcessing
  <2> QED
    BY <1>1, <1>2, <2>1, GivenUpRow, ReleaseUpdate DEF Status, Processing
<1>3. CASE ~Processing(r)
  BY <1>3, ReleaseUnchanged DEF FailsProcessing, Status
<1> QED
  BY <1>2, <1>3

LEMMA FinishedKeeps ==
    ASSUME TInv, NEW r \in Release, Status(r) # "absent", NEW b \in BOOLEAN,
           ReleaseBecomes(r, Finished(releases[r], b))
    PROVE  /\ ReleasesKept
           /\ \A s \in Release \ {r} : releases'[s] = releases[s]
           /\ releases'[r].status \notin {"uploaded", "processing"}
           /\ releases'[r].status \in {"published", Status(r)}
<1>1. releases[r] \in ReleaseRow
  BY DEF TInv, TypeOK
<1> DEFINE row == Finished(releases[r], b)
<1>2. /\ row \in ReleaseRow /\ row.version = releases[r].version
      /\ row.status \in {"published", Status(r)}
      /\ row.status \notin {"uploaded", "processing"}
  BY <1>1, FinishedRow DEF Status
<1>3. /\ releases'[r] = row /\ ReleasesKept
      /\ \A s \in Release \ {r} : releases'[s] = releases[s]
  BY <1>2, ReleaseUpdate DEF Status
<1> QED
  BY <1>2, <1>3

\* the run of an active worker
LEMMA RunRefs ==
    ASSUME TInv, NEW w \in Worker, worker[w].pc # "idle"
    PROVE  /\ worker[w] \in Run
           /\ worker[w].job \in Job
           /\ jobs[worker[w].job] \in JobRow
           /\ jobs[worker[w].job].status # "absent"
           /\ jobs[worker[w].job].release \in Release
           /\ Status(jobs[worker[w].job].release) # "absent"
BY DEF TInv, TypeOK, RefsInv, RunsInv, JobsInv

LEMMA RunUpdate ==
    ASSUME TInv, JobsKept, NEW w \in Worker, worker[w].pc # "idle",
           NEW run \in Run, RunBecomes(w, run),
           \/ run = NoRun
           \/ run.pc # "idle" /\ run.job = worker[w].job /\ run.gen = worker[w].gen
    PROVE  RunMoves(w) /\ worker'[w] = run
<1> DEFINE j == worker[w].job
<1>1. worker \in [Worker -> Run]
  BY DEF TInv, TypeOK
<1>2. worker'[w] = run /\ \A x \in Worker \ {w} : worker'[x] = worker[x]
  BY <1>1 DEF RunBecomes
<1>3. worker' \in [Worker -> Run]
  BY <1>1 DEF RunBecomes
<1>4. CASE run = NoRun
  BY <1>2, <1>3, <1>4, RowTypes DEF RunMoves
<1>5. CASE run.pc # "idle" /\ run.job = j /\ run.gen = worker[w].gen
  <2>1. j \in Job /\ jobs[j].status # "absent" /\ worker[w].gen <= jobs[j].gen
    BY DEF TInv, RefsInv, RunsInv
  <2>2. worker[w].gen \in Nat /\ jobs[j].gen \in Nat /\ jobs'[j].gen \in Nat
    BY <1>1, <2>1, RunFields, JobRowFields DEF TInv, TypeOK, JobsKept
  <2>3. jobs[j].gen <= jobs'[j].gen
    BY <2>1 DEF JobsKept
  <2> QED
    BY <1>2, <1>3, <1>5, <2>1, <2>2, <2>3 DEF RunMoves
<1> QED
  BY <1>4, <1>5

LEMMA EndsMoves ==
    ASSUME TInv, JobsKept, NEW w \in Worker, worker[w].pc # "idle", Ends(w)
    PROVE  RunMoves(w) /\ worker'[w] = NoRun
<1>1. NoRun \in Run /\ RunBecomes(w, NoRun)
  BY RowTypes DEF Ends
<1> QED
  BY <1>1, RunUpdate

LEMMA GoesMoves ==
    ASSUME TInv, JobsKept, NEW w \in Worker, worker[w].pc # "idle",
           NEW pc \in Step \ {"idle"}, Goes(w, pc)
    PROVE  /\ RunMoves(w)
           /\ worker'[w] = [worker[w] EXCEPT !.pc = pc]
<1> DEFINE run == [worker[w] EXCEPT !.pc = pc]
<1>1. /\ run \in Run /\ run.pc # "idle"
      /\ run.job = worker[w].job /\ run.gen = worker[w].gen
  BY RunAtStep DEF TInv, TypeOK
<1>2. RunBecomes(w, run)
  BY DEF Goes
<1> HIDE DEF run
<1>3. RunMoves(w) /\ worker'[w] = run
  BY <1>1, <1>2, RunUpdate
<1> QED
  BY <1>3 DEF run

LEMMA RefsKept ==
    ASSUME TInv, JobsKept, ReleasesKept, NEW w \in Worker, RunMoves(w),
           delivered' \subseteq {j \in Job : jobs[j].status # "absent"}
    PROVE  RefsInv'
<1> USE DEF TInv, RefsInv
<1>1. JobsInv'
  BY DEF JobsKept, ReleasesKept, JobsInv, Status
<1>2. VersionsInv'
  BY DEF ReleasesKept, VersionsInv, Status
<1>3. RunsInv'
  <2> SUFFICES ASSUME NEW x \in Worker
               PROVE  IF worker'[x].pc = "idle" THEN worker'[x].job = None
                      ELSE /\ worker'[x].job \in Job
                           /\ jobs'[worker'[x].job].status # "absent"
                           /\ worker'[x].gen <= jobs'[worker'[x].job].gen
    BY DEF RunsInv
  <2>1. CASE x = w
    BY <2>1 DEF RunMoves, JobsKept
  <2>2. CASE x # w
    <3>1. worker'[x] = worker[x]
      BY <2>2 DEF RunMoves
    <3>2. CASE worker[x].pc = "idle"
      BY <3>1, <3>2 DEF RunsInv
    <3>3. CASE worker[x].pc # "idle"
      <4> DEFINE j == worker[x].job
      <4>1. /\ j \in Job /\ jobs[j].status # "absent"
            /\ worker[x].gen <= jobs[j].gen
        BY <3>3 DEF RunsInv
      <4>2. worker[x].gen \in Nat /\ jobs[j].gen \in Nat /\ jobs'[j].gen \in Nat
        BY <4>1, RunFields, JobRowFields DEF TypeOK, JobsKept
      <4>3. jobs'[j].status # "absent" /\ jobs[j].gen <= jobs'[j].gen
        BY <4>1 DEF JobsKept
      <4> QED
        BY <3>1, <3>3, <4>1, <4>2, <4>3
    <3> QED
      BY <3>2, <3>3
  <2> QED
    BY <2>1, <2>2
<1>4. \A j \in delivered' : jobs'[j].status # "absent"
  BY DEF JobsKept
<1> QED
  BY <1>1, <1>2, <1>3, <1>4

LEMMA InsertJobEffect ==
    ASSUME TInv, NEW r \in Release, NEW b \in BOOLEAN, InsertJob(r, b)
    PROVE  /\ jobs' \in [Job -> JobRow]
           /\ \A i \in Job : ~Active(i)
           /\ \E j \in Job :
                /\ jobs[j].status = "absent"
                /\ jobs'[j] = QueuedFor(r, b)
                /\ \A i \in Job \ {j} : jobs'[i] = jobs[i]
                /\ delivered' = delivered \cup {j}
<1>1. jobs \in [Job -> JobRow]
  BY DEF TInv, TypeOK
<1>2. PICK j \in Job :
        /\ jobs[j].status = "absent"
        /\ JobBecomes(j, QueuedFor(r, b))
        /\ delivered' = delivered \cup {j}
  BY DEF InsertJob
<1>3. QueuedFor(r, b) \in JobRow
  BY QueuedForRow
<1>4. /\ jobs' \in [Job -> JobRow] /\ jobs'[j] = QueuedFor(r, b)
      /\ \A i \in Job \ {j} : jobs'[i] = jobs[i]
  BY <1>1, <1>2, <1>3 DEF JobBecomes
<1> QED
  BY <1>2, <1>4 DEF InsertJob

\* A request that inserts a job for r leaves the references in order.
LEMMA RefsAfterInsert ==
    ASSUME TInv, NEW r \in Release, NEW b \in BOOLEAN, InsertJob(r, b),
           NEW row \in ReleaseRow, ReleaseBecomes(r, row),
           row.status # "absent", row.version \in Version,
           UNCHANGED <<targets, inferred, bundled, manifest, worker>>,
           staged' \subseteq Release
    PROVE  TInv'
<1> USE DEF TInv, TypeOK, RefsInv
<1>1. PICK j \in Job :
        /\ jobs[j].status = "absent"
        /\ jobs'[j] = QueuedFor(r, b)
        /\ \A i \in Job \ {j} : jobs'[i] = jobs[i]
        /\ delivered' = delivered \cup {j}
  BY InsertJobEffect
<1>2. jobs' \in [Job -> JobRow]
  BY InsertJobEffect
<1>3. /\ releases' \in [Release -> ReleaseRow]
      /\ releases'[r] = row
      /\ \A s \in Release \ {r} : releases'[s] = releases[s]
  BY ReleaseUpdate
<1>4. jobs'[j].status = "queued" /\ jobs'[j].release = r
  BY <1>1, QueuedForRow
<1>5. JobsInv'
  BY <1>1, <1>3, <1>4 DEF JobsInv, Status
<1>6. VersionsInv'
  BY <1>3 DEF VersionsInv, Status
<1>7. RunsInv'
  BY <1>1 DEF RunsInv
<1>8. \A i \in delivered' : jobs'[i].status # "absent"
  BY <1>1, <1>4
<1> QED
  BY <1>1, <1>2, <1>3, <1>5, <1>6, <1>7, <1>8

\* The claim of a run that is not idle is of a job that exists.
LEMMA RedeliveredExist ==
    ASSUME TInv, NEW w \in Worker, worker[w].pc # "idle",
           \/ UNCHANGED delivered
           \/ delivered' = delivered \cup {worker[w].job}
           \/ RedeliverUnlessTaken(w)
    PROVE  delivered' \subseteq {j \in Job : jobs[j].status # "absent"}
BY RunRefs DEF TInv, TypeOK, RefsInv, RedeliverUnlessTaken

\* What a step of the run of w may leave behind for TInv.
LEMMA RunStepType ==
    ASSUME TInv, NEW w \in Worker, JobsKept, ReleasesKept, RunMoves(w),
           delivered' \subseteq {j \in Job : jobs[j].status # "absent"},
           targets' \in [Release -> SUBSET Version],
           inferred' \in [Version -> Fingerprint \cup {None}],
           bundled' \subseteq Release,
           manifest' \in [Version -> Release \cup {None}],
           staged' \subseteq Release
    PROVE  TInv'
<1>1. RefsInv'
  BY RefsKept
<1> QED
  BY <1>1 DEF TInv, TypeOK, JobsKept, ReleasesKept, RunMoves

LEMMA TInvApi ==
    ASSUME TInv, NEW r \in Release,
           \/ CreateRelease(r)
           \/ PromoteRelease(r)
           \/ \E t \in Release : RollbackDeployment(r, t)
           \/ PatchRelease(r)
    PROVE  TInv'
<1> USE DEF database, storage
<1>1. CASE CreateRelease(r)
  <2>1. PICK disabled \in BOOLEAN, partial \in Rollouts, v \in Version,
            f \in Fingerprint \cup {None} :
          InsertRelease(r, NewRelease(disabled, partial, v, f, FALSE))
    BY <1>1 DEF CreateRelease
  <2> DEFINE row == NewRelease(disabled, partial, v, f, FALSE)
  <2>2. row \in ReleaseRow /\ row.version \in Version /\ row.status # "absent"
    <3>1. /\ disabled \in BOOLEAN /\ partial \in BOOLEAN /\ v \in Version
          /\ f \in Fingerprint \cup {None} /\ FALSE \in BOOLEAN
      BY <2>1, PublishAssumption
    <3>2. row \in ReleaseRow /\ row.version = v /\ row.status \in {"disabled", "uploaded"}
      BY <3>1 DEF NewRelease, ReleaseRow
    <3> QED
      BY <3>2
  <2>3. InsertJob(r, FALSE) /\ ReleaseBecomes(r, row)
    BY <2>1 DEF InsertRelease
  <2>4. UNCHANGED <<targets, inferred, bundled, manifest, worker>> /\ staged' \subseteq Release
    BY <1>1 DEF CreateRelease, TInv, TypeOK
  <2> HIDE DEF row
  <2> QED
    BY <2>2, <2>3, <2>4, RefsAfterInsert
<1>2. CASE PromoteRelease(r)
  <2>1. PICK disabled \in BOOLEAN, partial \in Rollouts, v \in Version,
            f \in Fingerprint \cup {None} :
          InsertRelease(r, NewRelease(disabled, partial, v, f, TRUE))
    BY <1>2 DEF PromoteRelease
  <2> DEFINE row == NewRelease(disabled, partial, v, f, TRUE)
  <2>2. row \in ReleaseRow /\ row.version \in Version /\ row.status # "absent"
    <3>1. /\ disabled \in BOOLEAN /\ partial \in BOOLEAN /\ v \in Version
          /\ f \in Fingerprint \cup {None} /\ TRUE \in BOOLEAN
      BY <2>1, PublishAssumption
    <3>2. row \in ReleaseRow /\ row.version = v /\ row.status \in {"disabled", "uploaded"}
      BY <3>1 DEF NewRelease, ReleaseRow
    <3> QED
      BY <3>2
  <2>3. InsertJob(r, FALSE) /\ ReleaseBecomes(r, row)
    BY <2>1 DEF InsertRelease
  <2>4. UNCHANGED <<targets, inferred, bundled, manifest, worker>> /\ staged' \subseteq Release
    BY <1>2 DEF PromoteRelease, TInv, TypeOK
  <2> HIDE DEF row
  <2> QED
    BY <2>2, <2>3, <2>4, RefsAfterInsert
<1>3. ASSUME NEW t \in Release, RollbackDeployment(r, t)
      PROVE  TInv'
  <2> DEFINE row == NewRelease(FALSE, FALSE, releases[t].version, releases[t].fp, TRUE)
  <2>1. releases[t].version \in Version /\ releases[t].fp \in Fingerprint \cup {None}
    BY <1>3, ReleaseRowFields DEF RollbackDeployment, TInv, TypeOK, RefsInv, VersionsInv
  <2>2. row \in ReleaseRow /\ row.version \in Version /\ row.status # "absent"
    BY <2>1, NewReleaseRow
  <2>3. InsertJob(r, FALSE) /\ ReleaseBecomes(r, row)
    BY <1>3 DEF RollbackDeployment, InsertRelease
  <2>4. UNCHANGED <<targets, inferred, bundled, manifest, worker>> /\ staged' \subseteq Release
    BY <1>3 DEF RollbackDeployment, TInv, TypeOK
  <2> HIDE DEF row
  <2> QED
    BY <2>2, <2>3, <2>4, RefsAfterInsert
<1>4. CASE PatchRelease(r)
  <2>1. PICK request \in {"published", "disabled"}, v \in Version, partial \in BOOLEAN :
          /\ InsertJob(r, request = "published" /\ Status(r) = "disabled")
          /\ ReleaseBecomes(r, Patched(releases[r], request, v, partial))
    BY <1>4 DEF PatchRelease
  <2> DEFINE row == Patched(releases[r], request, v, partial)
             b == request = "published" /\ Status(r) = "disabled"
  <2>2. releases[r] \in ReleaseRow /\ releases[r].status # "absent"
    BY <1>4 DEF PatchRelease, Status, TInv, TypeOK
  <2>3. row \in ReleaseRow /\ row.version \in Version /\ row.status # "absent"
    BY <2>2, PatchedRow
  <2>4. b \in BOOLEAN /\ InsertJob(r, b) /\ ReleaseBecomes(r, row)
    BY <2>1
  <2>5. UNCHANGED <<targets, inferred, bundled, manifest, worker>> /\ staged' \subseteq Release
    BY <1>4 DEF PatchRelease, TInv, TypeOK
  <2> HIDE DEF row, b
  <2> QED
    BY <2>3, <2>4, <2>5, RefsAfterInsert
<1> QED
  BY <1>1, <1>2, <1>3, <1>4

\* a step that moves no run
LEMMA RefsOfOthers ==
    ASSUME TInv, JobsKept, ReleasesKept, UNCHANGED worker,
           delivered' \subseteq {j \in Job : jobs[j].status # "absent"} \/ UNCHANGED delivered
    PROVE  RefsInv'
<1> USE DEF TInv, RefsInv
<1>1. JobsInv'
  BY DEF JobsKept, ReleasesKept, JobsInv, Status
<1>2. VersionsInv'
  BY DEF ReleasesKept, VersionsInv, Status
<1>3. RunsInv'
  <2> SUFFICES ASSUME NEW x \in Worker, worker[x].pc # "idle"
               PROVE  /\ jobs'[worker[x].job].status # "absent"
                      /\ worker[x].gen <= jobs'[worker[x].job].gen
    BY DEF RunsInv
  <2> DEFINE j == worker[x].job
  <2>1. j \in Job /\ jobs[j].status # "absent" /\ worker[x].gen <= jobs[j].gen
    BY DEF RunsInv
  <2>2. worker[x].gen \in Nat /\ jobs[j].gen \in Nat /\ jobs'[j].gen \in Nat
    BY <2>1, RunFields, JobRowFields DEF TypeOK, JobsKept
  <2>3. jobs'[j].status # "absent" /\ jobs[j].gen <= jobs'[j].gen
    BY <2>1 DEF JobsKept
  <2> QED
    BY <2>1, <2>2, <2>3
<1>4. \A j \in delivered' : jobs'[j].status # "absent"
  BY DEF JobsKept, TypeOK
<1> QED
  BY <1>1, <1>2, <1>3, <1>4

LEMMA SweepKeeps ==
    ASSUME TInv, Sweep
    PROVE  /\ JobsKept
           /\ \A j \in Job : /\ jobs'[j].attempts = jobs[j].attempts
                             /\ jobs'[j].gen = jobs[j].gen
                             /\ jobs'[j].enables = jobs[j].enables
                             /\ \/ jobs'[j] = jobs[j]
                                \/ /\ jobs[j].status = "running" /\ jobs[j].lease = "expired"
                                   /\ jobs'[j].status = "queued"
<1>1. jobs \in [Job -> JobRow]
  BY DEF TInv, TypeOK
<1>2. jobs' = [j \in Job |-> IF Expired(j) THEN Requeued(jobs[j]) ELSE jobs[j]]
  BY DEF Sweep
<1>3. \A j \in Job : Expired(j) =>
        /\ Follows(jobs[j], Requeued(jobs[j]))
        /\ Requeued(jobs[j]).status = "queued"
        /\ Requeued(jobs[j]).gen = jobs[j].gen
        /\ Requeued(jobs[j]).attempts = jobs[j].attempts
        /\ Requeued(jobs[j]).enables = jobs[j].enables
  BY <1>1, RequeuedRow DEF Expired
<1>4. \A j \in Job : jobs[j].gen \in Nat
  BY <1>1, JobRowFields
<1>5. jobs' \in [Job -> JobRow]
  BY <1>1, <1>2, <1>3 DEF Follows
<1> QED
  BY <1>2, <1>3, <1>4, <1>5 DEF JobsKept, Follows, Expired

\* what a claim gives the run that makes it
LEMMA ClaimEffect ==
    ASSUME TInv, NEW w \in Worker, NEW j \in Job, Claim(w, j)
    PROVE  /\ jobs[j].status \in {"queued", "running"} /\ jobs[j].attempts < MaxAttempts
           /\ JobsKept
           /\ jobs'[j] = Claimed(jobs[j])
           /\ \A i \in Job \ {j} : jobs'[i] = jobs[i]
           /\ ReleasesKept
           /\ worker'[w] = RunOf(j, jobs[j].gen + 1)
           /\ RunMoves(w)
<1>1. /\ jobs[j] \in JobRow /\ jobs[j].gen \in Nat /\ worker \in [Worker -> Run]
  BY JobRowFields DEF TInv, TypeOK
<1>2. /\ jobs[j].status \in {"queued", "running"} /\ jobs[j].attempts < MaxAttempts
      /\ JobBecomes(j, Claimed(jobs[j]))
      /\ StartsProcessing(jobs[j].release)
      /\ RunBecomes(w, RunOf(j, jobs[j].gen + 1))
  BY DEF Claim, Claimable
<1>3. /\ JobsKept /\ jobs'[j] = Claimed(jobs[j])
      /\ \A i \in Job \ {j} : jobs'[i] = jobs[i]
  BY <1>1, <1>2, ClaimedRow, JobUpdate
<1>4. jobs[j].release \in Release
  BY <1>2 DEF TInv, RefsInv, JobsInv
<1>5. ReleasesKept
  BY <1>2, <1>4, StartsProcessingKeeps
<1>6. /\ RunOf(j, jobs[j].gen + 1) \in Run
      /\ RunOf(j, jobs[j].gen + 1).pc = "claimed"
      /\ RunOf(j, jobs[j].gen + 1).job = j
      /\ RunOf(j, jobs[j].gen + 1).gen = jobs[j].gen + 1
  BY <1>1, RunOfJob
<1>7. /\ worker'[w] = RunOf(j, jobs[j].gen + 1)
      /\ worker' \in [Worker -> Run]
      /\ \A x \in Worker \ {w} : worker'[x] = worker[x]
  BY <1>1, <1>2, <1>6 DEF RunBecomes
<1>8. jobs'[j].gen = jobs[j].gen + 1
  BY <1>1, <1>2, <1>3, ClaimedRow
<1>9. RunMoves(w)
  BY <1>1, <1>2, <1>6, <1>7, <1>8 DEF RunMoves
<1> QED
  BY <1>2, <1>3, <1>5, <1>7, <1>9

LEMMA DeadLetterEffect ==
    ASSUME TInv, NEW w \in Worker, NEW j \in Job, DeadLetter(w, j)
    PROVE  /\ jobs[j].status \in {"queued", "running"} /\ jobs[j].attempts >= MaxAttempts
           /\ JobsKept
           /\ jobs'[j] = DeadLettered(jobs[j])
           /\ \A i \in Job \ {j} : jobs'[i] = jobs[i]
           /\ ReleasesKept
<1>1. jobs[j] \in JobRow
  BY DEF TInv, TypeOK
<1>2. /\ jobs[j].status \in {"queued", "running"} /\ jobs[j].attempts >= MaxAttempts
      /\ JobBecomes(j, DeadLettered(jobs[j]))
      /\ FailsProcessing(jobs[j].release)
  BY DEF DeadLetter, Claimable
<1>3. /\ JobsKept /\ jobs'[j] = DeadLettered(jobs[j])
      /\ \A i \in Job \ {j} : jobs'[i] = jobs[i]
  BY <1>1, <1>2, DeadLetteredRow, JobUpdate
<1>4. jobs[j].release \in Release
  BY <1>2 DEF TInv, RefsInv, JobsInv
<1> QED
  BY <1>2, <1>3, <1>4, FailsProcessingKeeps

LEMMA TInvPickUp ==
    ASSUME TInv, NEW w \in Worker, NEW j \in Job, PickUp(w, j)
    PROVE  TInv'
<1> USE DEF database, storage, PicksUp
<1>1. delivered' \subseteq {i \in Job : jobs[i].status # "absent"}
  BY DEF PickUp, ClaimRefused, DeadLetter, Claim, TInv, TypeOK, RefsInv
<1>2. CASE ClaimRefused(w, j)
  <2>1. UNCHANGED <<database, storage, worker>>
    BY <1>2 DEF ClaimRefused
  <2>2. JobsKept /\ ReleasesKept
    BY <2>1, JobUnchanged, ReleaseUnchanged
  <2>3. RefsInv'
    BY <1>1, <2>1, <2>2, RefsOfOthers
  <2> QED
    BY <1>1, <2>1, <2>3 DEF TInv, TypeOK
<1>3. CASE DeadLetter(w, j)
  <2>1. UNCHANGED <<targets, inferred, bundled, storage, worker>>
    BY <1>3 DEF DeadLetter
  <2>2. JobsKept /\ ReleasesKept
    BY <1>3, DeadLetterEffect
  <2>3. RefsInv'
    BY <1>1, <2>1, <2>2, RefsOfOthers
  <2> QED
    BY <1>1, <2>1, <2>2, <2>3 DEF TInv, TypeOK, JobsKept, ReleasesKept
<1>4. CASE Claim(w, j)
  <2>1. UNCHANGED <<targets, inferred, bundled, storage>>
    BY <1>4 DEF Claim
  <2>2. JobsKept /\ ReleasesKept /\ RunMoves(w)
    BY <1>4, ClaimEffect
  <2>3. /\ targets' \in [Release -> SUBSET Version]
        /\ inferred' \in [Version -> Fingerprint \cup {None}]
        /\ bundled' \subseteq Release /\ staged' \subseteq Release
        /\ manifest' \in [Version -> Release \cup {None}]
    BY <2>1 DEF TInv, TypeOK
  <2> QED
    BY <1>1, <2>2, <2>3, RunStepType
<1> QED
  BY <1>2, <1>3, <1>4 DEF PickUp

LEMMA TInvNext == TInv /\ [Next]_vars => TInv'
<1> SUFFICES ASSUME TInv, [Next]_vars
             PROVE  TInv'
  OBVIOUS
<1> USE NoneIsNoRow DEF database, storage
<1>t. /\ releases \in [Release -> ReleaseRow] /\ targets \in [Release -> SUBSET Version]
      /\ inferred \in [Version -> Fingerprint \cup {None}]
      /\ bundled \subseteq Release /\ staged \subseteq Release /\ delivered \subseteq Job
      /\ manifest \in [Version -> Release \cup {None}]
  BY DEF TInv, TypeOK
<1>r. ASSUME NEW w \in Worker, worker[w].pc # "idle"
      PROVE  /\ worker[w] \in Run
             /\ worker[w].job \in Job
             /\ jobs[worker[w].job] \in JobRow
             /\ jobs[worker[w].job].status # "absent"
             /\ jobs[worker[w].job].release \in Release
             /\ Status(jobs[worker[w].job].release) # "absent"
  BY <1>r, RunRefs
<1>1. ASSUME NEW r \in Release,
             \/ CreateRelease(r)
             \/ PromoteRelease(r)
             \/ \E t \in Release : RollbackDeployment(r, t)
             \/ PatchRelease(r)
      PROVE  TInv'
  BY <1>1, TInvApi
<1>2. ASSUME NEW w \in Worker, LoadContext(w)
      PROVE  TInv'
  <2> DEFINE j == worker[w].job
             run == [worker[w] EXCEPT !.pc = "loaded",
                                      !.bound = Resolved(jobs[j].release),
                                      !.plan = DesiredManifest(j),
                                      !.todo = ManifestVersions(j),
                                      !.source = StagedSource(jobs[j].release)]
  <2>1. worker[w].pc # "idle" /\ RunBecomes(w, run)
    BY <1>2 DEF LoadContext
  <2>2. run \in Run /\ run.pc # "idle" /\ run.job = j /\ run.gen = worker[w].gen
    <3>0. worker[w] \in Run /\ j \in Job /\ jobs[j].status # "absent"
      BY <1>r, <2>1
    <3>1. /\ Resolved(jobs[j].release) \in SUBSET Version
          /\ ManifestVersions(j) \in SUBSET Version
          /\ DesiredManifest(j) \in [Version -> Release \cup {None}]
      BY <3>0, PlanTypes
    <3>2. StagedSource(jobs[j].release) \in BOOLEAN
      BY StagedSourceType
    <3> DEFINE bound == Resolved(jobs[j].release)
               plan == DesiredManifest(j)
               todo == ManifestVersions(j)
               source == StagedSource(jobs[j].release)
               loaded == [worker[w] EXCEPT !.pc = "loaded", !.bound = bound, !.plan = plan,
                                           !.todo = todo, !.source = source]
    <3> HIDE DEF bound, plan, todo, source
    <3>3. /\ bound \in SUBSET Version /\ todo \in SUBSET Version /\ source \in BOOLEAN
          /\ plan \in [Version -> Release \cup {None}]
      BY <3>1, <3>2 DEF bound, plan, todo, source
    <3>4. /\ loaded \in Run /\ loaded.pc # "idle" /\ loaded.job = j
          /\ loaded.gen = worker[w].gen
      BY <3>0, <3>3 DEF Run, Step
    <3> QED
      BY <3>4 DEF bound, plan, todo, source
  <2>3. UNCHANGED <<database, storage, delivered>>
    BY <1>2 DEF LoadContext
  <2>4. JobsKept /\ ReleasesKept
    BY <2>3, JobUnchanged, ReleaseUnchanged
  <2> HIDE DEF run
  <2>5. RunMoves(w)
    BY <2>1, <2>2, <2>4, RunUpdate
  <2> QED
    BY <1>t, <2>1, <2>3, <2>4, <2>5, RedeliveredExist, RunStepType
<1>3. ASSUME NEW w \in Worker, PersistTargets(w)
      PROVE  TInv'
  <2> DEFINE j == worker[w].job
             p == IF worker[w].bound = targets[jobs[j].release] THEN {} ELSE worker[w].bound
  <2>1. worker[w].pc # "idle" /\ UNCHANGED <<releases, targets, bundled, storage, delivered>>
    BY <1>3 DEF PersistTargets
  <2>2. p \in SUBSET Version
    BY <1>r, <2>1, RunFields
  <2>3. ReleasesKept
    BY <2>1, ReleaseUnchanged
  <2>4. inferred' \in [Version -> Fingerprint \cup {None}]
    BY <1>3, <1>t, <1>r, <2>1, ReleaseRowFields DEF PersistTargets
  <2>5. CASE JobBecomes(j, Targeted(jobs[j], p)) /\ Goes(w, "targeted")
    <3>1. JobsKept
      BY <1>r, <2>1, <2>2, <2>5, TargetedRow, JobUpdate
    <3>2. RunMoves(w)
      BY <2>1, <2>5, <3>1, GoesMoves DEF Step
    <3> QED
      BY <1>t, <2>1, <2>3, <2>4, <3>1, <3>2, RedeliveredExist, RunStepType
  <2>6. CASE LosesClaim(w) /\ UNCHANGED jobs
    <3>1. JobsKept
      BY <2>6, JobUnchanged
    <3>2. RunMoves(w)
      BY <2>1, <2>6, <3>1, EndsMoves DEF LosesClaim
    <3> QED
      BY <1>t, <2>1, <2>3, <2>4, <3>1, <3>2, RedeliveredExist, RunStepType
  <2> QED
    BY <1>3, <2>5, <2>6 DEF PersistTargets
<1>4. ASSUME NEW w \in Worker, Inspect(w)
      PROVE  TInv'
  <2> DEFINE run == [worker[w] EXCEPT
               !.pc = "writing", !.todo = {v \in @ : manifest[v] # worker[w].plan[v]}]
  <2>1. worker[w].pc # "idle" /\ UNCHANGED <<releases, targets, inferred, bundled, storage, delivered>>
    BY <1>4 DEF Inspect
  <2>2. ReleasesKept
    BY <2>1, ReleaseUnchanged
  <2>3. CASE Renews(worker[w].job) /\ RunBecomes(w, run)
    <3>1. JobsKept
      BY <1>r, <2>1, <2>3, RenewedRow, JobUpdate DEF Renews
    <3>2. {v \in worker[w].todo : manifest[v] # worker[w].plan[v]} \in SUBSET Version
      BY <1>r, <2>1, RunFields
    <3>3. run \in Run /\ run.pc # "idle" /\ run.job = worker[w].job /\ run.gen = worker[w].gen
      BY <1>r, <2>1, <3>2, RunWithWork
    <3> HIDE DEF run
    <3>4. RunMoves(w)
      BY <2>1, <2>3, <3>1, <3>3, RunUpdate
    <3> QED
      BY <1>t, <2>1, <2>2, <3>1, <3>4, RedeliveredExist, RunStepType
  <2>4. CASE LosesClaim(w) /\ UNCHANGED jobs
    <3>1. JobsKept
      BY <2>4, JobUnchanged
    <3>2. RunMoves(w)
      BY <2>1, <2>4, <3>1, EndsMoves DEF LosesClaim
    <3> QED
      BY <1>t, <2>1, <2>2, <3>1, <3>2, RedeliveredExist, RunStepType
  <2> QED
    BY <1>4, <2>3, <2>4 DEF Inspect
<1>5. ASSUME NEW w \in Worker, Heartbeat(w)
      PROVE  TInv'
  <2> DEFINE pc == IF worker[w].todo = {} THEN "publish" ELSE "put"
  <2>1. worker[w].pc # "idle" /\ UNCHANGED <<releases, targets, inferred, bundled, storage, delivered>>
    BY <1>5 DEF Heartbeat
  <2>2. ReleasesKept
    BY <2>1, ReleaseUnchanged
  <2>3. CASE Renews(worker[w].job) /\ Goes(w, pc)
    <3>1. JobsKept
      BY <1>r, <2>1, <2>3, RenewedRow, JobUpdate DEF Renews
    <3>2. pc \in Step \ {"idle"}
      BY DEF Step
    <3> HIDE DEF pc
    <3>3. RunMoves(w)
      BY <2>1, <2>3, <3>1, <3>2, GoesMoves
    <3> QED
      BY <1>t, <2>1, <2>2, <3>1, <3>3, RedeliveredExist, RunStepType
  <2>4. CASE LosesClaim(w) /\ UNCHANGED jobs
    <3>1. JobsKept
      BY <2>4, JobUnchanged
    <3>2. RunMoves(w)
      BY <2>1, <2>4, <3>1, EndsMoves DEF LosesClaim
    <3> QED
      BY <1>t, <2>1, <2>2, <3>1, <3>2, RedeliveredExist, RunStepType
  <2> QED
    BY <1>5, <2>3, <2>4 DEF Heartbeat
<1>6. ASSUME NEW w \in Worker, PutManifest(w)
      PROVE  TInv'
  <2>1. PICK v \in worker[w].todo :
          /\ manifest' = [manifest EXCEPT ![v] = worker[w].plan[v]]
          /\ RunBecomes(w, [worker[w] EXCEPT !.pc = "writing", !.todo = @ \ {v}])
    BY <1>6 DEF PutManifest
  <2>2. worker[w].pc # "idle" /\ UNCHANGED <<database, staged, delivered>>
    BY <1>6 DEF PutManifest
  <2>3. JobsKept /\ ReleasesKept
    BY <2>2, JobUnchanged, ReleaseUnchanged
  <2> DEFINE run == [worker[w] EXCEPT !.pc = "writing", !.todo = @ \ {v}]
  <2>4. worker[w].todo \ {v} \in SUBSET Version /\ worker[w].plan[v] \in Release \cup {None}
    BY <1>r, <2>2, RunFields
  <2>5. run \in Run /\ run.pc # "idle" /\ run.job = worker[w].job /\ run.gen = worker[w].gen
    BY <1>r, <2>2, <2>4, RunWithWork
  <2>6. manifest' \in [Version -> Release \cup {None}]
    BY <1>t, <2>1, <2>4
  <2>7. RunBecomes(w, run)
    BY <2>1
  <2> HIDE DEF run
  <2>8. RunMoves(w)
    BY <2>2, <2>3, <2>5, <2>7, RunUpdate
  <2> QED
    BY <1>t, <2>2, <2>3, <2>6, <2>8, RedeliveredExist, RunStepType
<1>7. ASSUME NEW w \in Worker, PersistArtifacts(w)
      PROVE  TInv'
  <2>1. /\ worker[w].pc # "idle" /\ bundled' \subseteq Release
        /\ UNCHANGED <<releases, targets, inferred, storage, delivered>>
    BY <1>7, <1>t, <1>r DEF PersistArtifacts
  <2>2. ReleasesKept
    BY <2>1, ReleaseUnchanged
  <2>3. CASE Renews(worker[w].job) /\ Goes(w, "final")
    <3>1. JobsKept
      BY <1>r, <2>1, <2>3, RenewedRow, JobUpdate DEF Renews
    <3>2. RunMoves(w)
      BY <2>1, <2>3, <3>1, GoesMoves DEF Step
    <3> QED
      BY <1>t, <2>1, <2>2, <3>1, <3>2, RedeliveredExist, RunStepType
  <2>4. CASE LosesClaim(w) /\ UNCHANGED jobs
    <3>1. JobsKept
      BY <2>4, JobUnchanged
    <3>2. RunMoves(w)
      BY <2>1, <2>4, <3>1, EndsMoves DEF LosesClaim
    <3> QED
      BY <1>t, <2>1, <2>2, <3>1, <3>2, RedeliveredExist, RunStepType
  <2> QED
    BY <1>7, <2>3, <2>4 DEF PersistArtifacts
<1>8. ASSUME NEW w \in Worker, Finalize(w)
      PROVE  TInv'
  <2> DEFINE j == worker[w].job
             r == jobs[j].release
  <2>1. /\ worker[w].pc # "idle"
        /\ JobBecomes(j, Succeeded(jobs[j]))
        /\ ReleaseBecomes(r, Finished(releases[r], jobs[j].enables))
        /\ Ends(w)
        /\ UNCHANGED <<inferred, bundled, manifest, delivered>>
    BY <1>8 DEF Finalize
  <2>2. JobsKept
    BY <1>r, <2>1, SucceededRow, JobUpdate
  <2>3. ReleasesKept
    BY <1>r, <2>1, JobRowFields, FinishedKeeps
  <2>4. RunMoves(w)
    BY <2>1, <2>2, EndsMoves
  <2>5. targets' \in [Release -> SUBSET Version]
    <3>1. jobs[j].pending \in SUBSET Version
      BY <1>r, <2>1, JobRowFields
    <3>2. targets' = [targets EXCEPT ![r] = IF jobs[j].pending = {} THEN @ ELSE jobs[j].pending]
      BY <1>8 DEF Finalize
    <3> QED
      BY <1>t, <3>1, <3>2
  <2>6. staged' \subseteq Release
    BY <1>8, <1>t DEF Finalize, Cleanup
  <2> QED
    BY <1>t, <2>1, <2>2, <2>3, <2>4, <2>5, <2>6, RedeliveredExist, RunStepType
<1>9. ASSUME NEW w \in Worker, FinalizeRefused(w)
      PROVE  TInv'
  <2>1. /\ worker[w].pc # "idle" /\ Ends(w) /\ RedeliverUnlessTaken(w)
        /\ UNCHANGED <<database, storage>>
    BY <1>9 DEF FinalizeRefused, LosesClaim
  <2>2. JobsKept /\ ReleasesKept
    BY <2>1, JobUnchanged, ReleaseUnchanged
  <2>3. RunMoves(w)
    BY <2>1, <2>2, EndsMoves
  <2> QED
    BY <1>t, <2>1, <2>2, <2>3, RedeliveredExist, RunStepType
<1>10. ASSUME NEW w \in Worker, Requeue(w)
      PROVE  TInv'
  <2>1. /\ worker[w].pc # "idle" /\ Ends(w)
        /\ UNCHANGED <<releases, targets, inferred, bundled, storage>>
    BY <1>10 DEF Requeue
  <2>2. ReleasesKept
    BY <2>1, ReleaseUnchanged
  <2>3. JobsKept
    <3>1. CASE JobBecomes(worker[w].job, Requeued(jobs[worker[w].job]))
      BY <1>r, <2>1, <3>1, RequeuedRow, JobUpdate
    <3>2. CASE UNCHANGED jobs
      BY <3>2, JobUnchanged
    <3> QED
      BY <1>10, <3>1, <3>2 DEF Requeue
  <2>4. RunMoves(w)
    BY <2>1, <2>3, EndsMoves
  <2>5. delivered' = delivered \cup {worker[w].job} \/ RedeliverUnlessTaken(w)
    BY <1>10 DEF Requeue
  <2> QED
    BY <1>t, <2>1, <2>2, <2>3, <2>4, <2>5, RedeliveredExist, RunStepType
<1>11. ASSUME NEW w \in Worker, Fail(w)
      PROVE  TInv'
  <2>1. /\ worker[w].pc # "idle" /\ Ends(w)
        /\ UNCHANGED <<targets, inferred, bundled, manifest, delivered>>
    BY <1>11 DEF Fail
  <2>2. staged' \subseteq Release
    BY <1>11, <1>t DEF Fail, Cleanup
  <2>3. CASE JobBecomes(worker[w].job, Failed(jobs[worker[w].job])) /\
             FailsProcessing(jobs[worker[w].job].release)
    <3>1. JobsKept
      BY <1>r, <2>1, <2>3, FailedRow, JobUpdate
    <3>2. ReleasesKept
      BY <1>r, <2>1, <2>3, FailsProcessingKeeps
    <3>3. RunMoves(w)
      BY <2>1, <3>1, EndsMoves
    <3> QED
      BY <1>t, <2>1, <2>2, <3>1, <3>2, <3>3, RedeliveredExist, RunStepType
  <2>4. CASE UNCHANGED <<jobs, releases>>
    <3>1. JobsKept /\ ReleasesKept
      BY <2>4, JobUnchanged, ReleaseUnchanged
    <3>2. RunMoves(w)
      BY <2>1, <3>1, EndsMoves
    <3> QED
      BY <1>t, <2>1, <2>2, <3>1, <3>2, RedeliveredExist, RunStepType
  <2> QED
    BY <1>11, <2>3, <2>4 DEF Fail
<1>12. ASSUME NEW w \in Worker, NEW j \in Job, PickUp(w, j)
      PROVE  TInv'
  BY <1>12, TInvPickUp
<1>13. ASSUME NEW j \in Job, LeaseExpires(j)
      PROVE  TInv'
  <2> DEFINE row == [jobs[j] EXCEPT !.lease = "expired"]
  <2>1. /\ jobs[j].status # "absent" /\ JobBecomes(j, row)
        /\ UNCHANGED <<releases, targets, inferred, bundled, storage, memory>>
    BY <1>13 DEF LeaseExpires
  <2>2. Follows(jobs[j], row)
    BY ExpiredRow DEF TInv, TypeOK
  <2> HIDE DEF row
  <2>3. JobsKept /\ ReleasesKept
    BY <2>1, <2>2, JobUpdate, ReleaseUnchanged
  <2>4. RefsInv'
    BY <2>1, <2>3, RefsOfOthers DEF memory
  <2> QED
    BY <1>t, <2>1, <2>3, <2>4 DEF TInv, TypeOK, JobsKept, memory
<1>14. ASSUME Sweep
      PROVE  TInv'
  <2>1. /\ delivered' \subseteq {j \in Job : jobs[j].status # "absent"}
        /\ UNCHANGED <<releases, targets, inferred, bundled, storage, worker>>
    BY <1>14 DEF Sweep, Expired, Stuck, TInv, TypeOK, RefsInv
  <2>2. JobsKept
    BY <1>14, SweepKeeps
  <2>3. ReleasesKept
    BY <2>1, ReleaseUnchanged
  <2>4. RefsInv'
    BY <2>1, <2>2, <2>3, RefsOfOthers
  <2> QED
    BY <1>t, <2>1, <2>2, <2>4 DEF TInv, TypeOK, JobsKept
<1>15. ASSUME Crash
      PROVE  TInv'
  <2>1. worker' \in [Worker -> Run] /\ delivered' = {} /\ UNCHANGED <<database, storage>>
    BY <1>15, RowTypes DEF Crash
  <2>2. RunsInv'
    BY <1>15, RowTypes DEF Crash, RunsInv
  <2> QED
    BY <2>1, <2>2 DEF TInv, TypeOK, RefsInv, JobsInv, VersionsInv, Status
<1>16. CASE UNCHANGED vars
  BY <1>16 DEF vars, memory, TInv, TypeOK, RefsInv, JobsInv, VersionsInv, RunsInv, Status
<1> QED
  BY <1>1, <1>2, <1>3, <1>4, <1>5, <1>6, <1>7, <1>8, <1>9, <1>10, <1>11, <1>12, <1>13, <1>14, <1>15, <1>16 DEF Next, Work

\* Typing: of every row, run, manifest and delivery, whatever is requested, fails,
\* expires or crashes (release_job, release and the state of reconcileRelease).
THEOREM TypeCorrect == Spec => []TypeOK
<1>1. TInv => TypeOK
  BY DEF TInv
<1> QED
  BY <1>1, TInvInit, TInvNext, PTL DEF Spec

-----------------------------------------------------------------------------
(* what a step does to the jobs, in fewer kinds than there are actions      *)

\* A request of the API inserts a job.  The release it is for is new or was
\* published or disabled; none is published or taken up by the request itself.
Requested ==
    \E r \in Release, b \in BOOLEAN, row \in ReleaseRow :
        /\ InsertJob(r, b)
        /\ ReleaseBecomes(r, row)
        /\ Status(r) \notin {"uploaded", "processing"}
        /\ row.status # "processing"
        /\ row.status = "published" => Status(r) = "published"
        /\ UNCHANGED <<targets, inferred, bundled, manifest, worker>>

SameClaim(row, old) ==
    /\ row.status = old.status
    /\ row.release = old.release
    /\ row.enables = old.enables
    /\ row.attempts = old.attempts
    /\ row.gen = old.gen

\* Leases, pending targets, runs, manifests and artifact rows may change, no
\* more.
Quiet ==
    /\ jobs' \in [Job -> JobRow]
    /\ \A j \in Job : SameClaim(jobs'[j], jobs[j])
    /\ UNCHANGED <<releases, targets>>
    /\ bundled \subseteq bundled'

\* The owner of a job gives it back or fails it.
GivesBack(w) ==
    /\ Owns(w)
    /\ JobBecomes(worker[w].job, Requeued(jobs[worker[w].job]))
    /\ Ends(w)
    /\ UNCHANGED <<releases, targets, inferred, bundled, storage>>

FailsJob(w) ==
    /\ Owns(w)
    /\ JobBecomes(worker[w].job, Failed(jobs[worker[w].job]))
    /\ FailsProcessing(jobs[worker[w].job].release)
    /\ Ends(w)
    /\ UNCHANGED <<targets, inferred, bundled, manifest, delivered>>

LEMMA QuietIfSame ==
    ASSUME TInv, UNCHANGED <<jobs, releases, targets>>, bundled \subseteq bundled'
    PROVE  Quiet
BY DEF TInv, TypeOK, Quiet, SameClaim

LEMMA QuietIfRow ==
    ASSUME TInv, NEW j \in Job, NEW row \in JobRow, JobBecomes(j, row),
           SameClaim(row, jobs[j]), UNCHANGED <<releases, targets>>, bundled \subseteq bundled'
    PROVE  Quiet
<1>1. jobs \in [Job -> JobRow]
  BY DEF TInv, TypeOK
<1>2. jobs' \in [Job -> JobRow] /\ jobs'[j] = row /\ \A i \in Job \ {j} : jobs'[i] = jobs[i]
  BY <1>1 DEF JobBecomes
<1> QED
  BY <1>2 DEF Quiet, SameClaim

LEMMA QuietIfRenewed ==
    ASSUME TInv, NEW j \in Job, jobs[j].status # "absent", Renews(j),
           UNCHANGED <<releases, targets>>, bundled \subseteq bundled'
    PROVE  Quiet
<1>1. jobs[j] \in JobRow
  BY DEF TInv, TypeOK
<1>2. Renewed(jobs[j]) \in JobRow /\ SameClaim(Renewed(jobs[j]), jobs[j])
  BY <1>1, RenewedRow DEF Follows, SameClaim
<1> QED
  BY <1>2, QuietIfRow DEF Renews

LEMMA RequestSteps ==
    ASSUME TInv, NEW r \in Release,
           \/ CreateRelease(r)
           \/ PromoteRelease(r)
           \/ \E t \in Release : RollbackDeployment(r, t)
           \/ PatchRelease(r)
    PROVE  Requested
<1> USE DEF storage
<1>1. ASSUME NEW disabled \in BOOLEAN, NEW partial \in BOOLEAN, NEW v \in Version,
             NEW f \in Fingerprint \cup {None}, NEW sourced \in BOOLEAN,
             InsertRelease(r, NewRelease(disabled, partial, v, f, sourced)),
             UNCHANGED <<targets, inferred, bundled, manifest, worker>>
      PROVE  Requested
  <2> DEFINE row == NewRelease(disabled, partial, v, f, sourced)
  <2>1. row \in ReleaseRow /\ row.status \in {"disabled", "uploaded"}
    BY NewReleaseRow
  <2>2. /\ InsertJob(r, FALSE) /\ ReleaseBecomes(r, row)
        /\ Status(r) = "absent"
    BY <1>1 DEF InsertRelease
  <2> HIDE DEF row
  <2> QED
    BY <1>1, <2>1, <2>2 DEF Requested
<1>2. CASE CreateRelease(r)
  BY <1>1, <1>2, PublishAssumption DEF CreateRelease
<1>3. CASE PromoteRelease(r)
  BY <1>1, <1>3, PublishAssumption DEF PromoteRelease
<1>4. ASSUME NEW t \in Release, RollbackDeployment(r, t)
      PROVE  Requested
  <2>1. releases[t].version \in Version /\ releases[t].fp \in Fingerprint \cup {None}
    BY <1>4, ReleaseRowFields DEF RollbackDeployment, TInv, TypeOK, RefsInv, VersionsInv
  <2> QED
    BY <1>1, <1>4, <2>1 DEF RollbackDeployment
<1>5. CASE PatchRelease(r)
  <2>1. PICK request \in {"published", "disabled"}, v \in Version, partial \in BOOLEAN :
          /\ InsertJob(r, request = "published" /\ Status(r) = "disabled")
          /\ ReleaseBecomes(r, Patched(releases[r], request, v, partial))
    BY <1>5 DEF PatchRelease
  <2> DEFINE row == Patched(releases[r], request, v, partial)
             b == request = "published" /\ Status(r) = "disabled"
  <2>2. releases[r] \in ReleaseRow /\ Status(r) \in {"published", "disabled"}
    BY <1>5 DEF PatchRelease, TInv, TypeOK
  <2>3. row \in ReleaseRow /\ row.status \in {Status(r), "disabled"}
    BY <2>2, PatchedRow DEF Status
  <2>4. b \in BOOLEAN /\ InsertJob(r, b) /\ ReleaseBecomes(r, row)
    BY <2>1
  <2>5. UNCHANGED <<targets, inferred, bundled, manifest, worker>>
    BY <1>5 DEF PatchRelease
  <2> HIDE DEF row, b
  <2> QED
    BY <2>2, <2>3, <2>4, <2>5 DEF Requested
<1> QED
  BY <1>2, <1>3, <1>4, <1>5

LEMMA QuietRunSteps ==
    ASSUME TInv, NEW w \in Worker,
           \/ LoadContext(w) \/ PersistTargets(w) \/ Inspect(w) \/ Heartbeat(w)
           \/ PutManifest(w) \/ PersistArtifacts(w) \/ FinalizeRefused(w)
    PROVE  Quiet
<1> USE DEF database, storage
<1> DEFINE j == worker[w].job
<1>1. /\ worker[w] \in Run /\ j \in Job /\ jobs[j] \in JobRow /\ jobs[j].status # "absent"
  <2>1. worker[w].pc # "idle"
    BY DEF LoadContext, PersistTargets, Inspect, Heartbeat, PutManifest,
           PersistArtifacts, FinalizeRefused
  <2> QED
    BY <2>1, RunRefs
<1>2. UNCHANGED <<releases, targets>> /\ bundled \subseteq bundled'
  BY DEF LoadContext, PersistTargets, Inspect, Heartbeat, PutManifest,
         PersistArtifacts, FinalizeRefused
<1>3. CASE UNCHANGED jobs
  BY <1>2, <1>3, QuietIfSame
<1>4. CASE Renews(j)
  BY <1>1, <1>2, <1>4, QuietIfRenewed
<1>5. CASE PersistTargets(w)
  <2> DEFINE p == IF worker[w].bound = targets[jobs[j].release] THEN {} ELSE worker[w].bound
  <2>1. CASE JobBecomes(j, Targeted(jobs[j], p))
    <3>1. p \in SUBSET Version
      BY <1>1, RunFields
    <3>2. Targeted(jobs[j], p) \in JobRow /\ SameClaim(Targeted(jobs[j], p), jobs[j])
      BY <1>1, <3>1, TargetedRow DEF Follows, SameClaim
    <3> QED
      BY <1>1, <1>2, <2>1, <3>2, QuietIfRow
  <2> QED
    BY <1>3, <1>5, <2>1 DEF PersistTargets
<1> QED
  BY <1>3, <1>4, <1>5 DEF LoadContext, Inspect, Heartbeat, PutManifest,
                          PersistArtifacts, FinalizeRefused

\* Every step is of one of these kinds.
LEMMA StepKinds ==
    ASSUME TInv, [Next]_vars
    PROVE  \/ Requested
           \/ Quiet
           \/ \E w \in Worker, j \in Job : Claim(w, j)
           \/ \E w \in Worker, j \in Job : DeadLetter(w, j)
           \/ \E w \in Worker : Finalize(w) \/ GivesBack(w) \/ FailsJob(w)
           \/ Sweep
<1> USE DEF database, storage, memory
<1>1. ASSUME NEW w \in Worker, Requeue(w)
      PROVE  Quiet \/ GivesBack(w)
  BY <1>1, QuietIfSame DEF Requeue, GivesBack
<1>2. ASSUME NEW w \in Worker, Fail(w)
      PROVE  Quiet \/ FailsJob(w)
  BY <1>2, QuietIfSame DEF Fail, FailsJob
<1>3. ASSUME NEW w \in Worker, NEW j \in Job, ClaimRefused(w, j)
      PROVE  Quiet
  BY <1>3, QuietIfSame DEF ClaimRefused
<1>4. ASSUME NEW j \in Job, LeaseExpires(j)
      PROVE  Quiet
  <2> DEFINE row == [jobs[j] EXCEPT !.lease = "expired"]
  <2>1. row \in JobRow /\ SameClaim(row, jobs[j])
    <3>1. jobs[j] \in JobRow
      BY DEF TInv, TypeOK
    <3> QED
      BY <3>1 DEF SameClaim, JobRow
  <2>2. JobBecomes(j, row) /\ UNCHANGED <<releases, targets, bundled>>
    BY <1>4 DEF LeaseExpires
  <2> HIDE DEF row
  <2> QED
    BY <2>1, <2>2, QuietIfRow
<1>5. CASE Crash
  BY <1>5, QuietIfSame DEF Crash
<1>6. CASE UNCHANGED vars
  BY <1>6, QuietIfSame DEF vars
<1> QED
  BY <1>1, <1>2, <1>3, <1>4, <1>5, <1>6, RequestSteps, QuietRunSteps DEF Next, Work, PickUp

-----------------------------------------------------------------------------
(* one active job                                                           *)

LEMMA OneActiveJobNext ==
    ASSUME TInv, OneActiveJob, [Next]_vars
    PROVE  OneActiveJob'
<1>j. jobs \in [Job -> JobRow]
  BY DEF TInv, TypeOK
\* a step that makes no job active keeps one active job
<1>a. ASSUME \A j \in Job : jobs'[j].status \in {"queued", "running"} =>
                            jobs[j].status \in {"queued", "running"}
      PROVE  OneActiveJob'
  BY <1>a DEF OneActiveJob, Active
<1>1. CASE Requested
  <2>1. PICK r \in Release, b \in BOOLEAN : InsertJob(r, b)
    BY <1>1 DEF Requested
  <2> QED
    BY <2>1, InsertJobEffect DEF OneActiveJob, Active
<1>2. CASE Quiet
  BY <1>a, <1>2 DEF Quiet, SameClaim
<1>3. ASSUME NEW w \in Worker, NEW j \in Job, Claim(w, j)
      PROVE  OneActiveJob'
  BY <1>a, <1>3, ClaimEffect
<1>4. ASSUME NEW w \in Worker, NEW j \in Job, DeadLetter(w, j)
      PROVE  OneActiveJob'
  BY <1>a, <1>4, DeadLetterEffect
<1>5. ASSUME NEW w \in Worker, Finalize(w)
      PROVE  OneActiveJob'
  BY <1>a, <1>j, <1>5 DEF Finalize, Owns, JobBecomes
<1>6. ASSUME NEW w \in Worker, GivesBack(w)
      PROVE  OneActiveJob'
  BY <1>a, <1>j, <1>6 DEF GivesBack, Owns, JobBecomes
<1>7. ASSUME NEW w \in Worker, FailsJob(w)
      PROVE  OneActiveJob'
  BY <1>a, <1>j, <1>7 DEF FailsJob, Owns, JobBecomes
<1>8. CASE Sweep
  BY <1>a, <1>8, SweepKeeps
<1> QED
  BY <1>1, <1>2, <1>3, <1>4, <1>5, <1>6, <1>7, <1>8, StepKinds

-----------------------------------------------------------------------------
(* attempts                                                                 *)

LEMMA AttemptBudgetNext ==
    ASSUME TInv, AttemptBudget, [Next]_vars
    PROVE  AttemptBudget'
<1>j. /\ jobs \in [Job -> JobRow]
      /\ \A j \in Job : jobs[j].attempts \in Nat
      /\ MaxAttempts \in Nat
  BY JobRowFields, PublishAssumption DEF TInv, TypeOK
\* a step that counts no attempt and gives no job up
<1>a. ASSUME \A j \in Job : /\ jobs'[j].attempts = jobs[j].attempts
                            /\ jobs'[j].status = "dead_letter" => jobs[j].status = "dead_letter"
      PROVE  AttemptBudget'
  BY <1>a DEF AttemptBudget
<1>b. ASSUME NEW w \in Worker, Owns(w)
      PROVE  /\ worker[w].job \in Job
             /\ jobs[worker[w].job] \in JobRow
             /\ jobs[worker[w].job].status # "absent"
  BY <1>b, <1>j DEF Owns, TInv, TypeOK, Run
<1>1. CASE Requested
  <2>1. PICK r \in Release, b \in BOOLEAN : InsertJob(r, b)
    BY <1>1 DEF Requested
  <2>2. PICK j \in Job :
          /\ jobs'[j] = QueuedFor(r, b)
          /\ \A i \in Job \ {j} : jobs'[i] = jobs[i]
    BY <2>1, InsertJobEffect
  <2>3. jobs'[j].attempts = 0 /\ jobs'[j].status = "queued"
    BY <2>2, QueuedForRow
  <2> QED
    BY <1>j, <2>2, <2>3 DEF AttemptBudget
<1>2. CASE Quiet
  BY <1>a, <1>2 DEF Quiet, SameClaim
<1>3. ASSUME NEW w \in Worker, NEW j \in Job, Claim(w, j)
      PROVE  AttemptBudget'
  <2>1. jobs'[j].attempts = jobs[j].attempts + 1 /\ jobs'[j].status = "running"
    BY <1>j, <1>3, ClaimEffect, ClaimedRow
  <2> QED
    BY <1>j, <1>3, <2>1, ClaimEffect DEF AttemptBudget
<1>4. ASSUME NEW w \in Worker, NEW j \in Job, DeadLetter(w, j)
      PROVE  AttemptBudget'
  <2>1. jobs'[j].attempts = jobs[j].attempts
    BY <1>j, <1>4, DeadLetterEffect, DeadLetteredRow
  <2> QED
    BY <1>j, <1>4, <2>1, DeadLetterEffect DEF AttemptBudget
<1>5. ASSUME NEW w \in Worker, Finalize(w)
      PROVE  AttemptBudget'
  <2>1. Owns(w) /\ JobBecomes(worker[w].job, Succeeded(jobs[worker[w].job]))
    BY <1>5 DEF Finalize
  <2> QED
    BY <1>a, <1>b, <1>j, <2>1, SucceededRow DEF JobBecomes
<1>6. ASSUME NEW w \in Worker, GivesBack(w)
      PROVE  AttemptBudget'
  BY <1>a, <1>b, <1>j, <1>6, RequeuedRow DEF GivesBack, JobBecomes
<1>7. ASSUME NEW w \in Worker, FailsJob(w)
      PROVE  AttemptBudget'
  BY <1>a, <1>b, <1>j, <1>7, FailedRow DEF FailsJob, JobBecomes
<1>8. CASE Sweep
  BY <1>a, <1>8, SweepKeeps
<1> QED
  BY <1>1, <1>2, <1>3, <1>4, <1>5, <1>6, <1>7, <1>8, StepKinds

-----------------------------------------------------------------------------
(* no stranded release                                                      *)

LEMMA NoStrandedNext ==
    ASSUME TInv, OneActiveJob, NoStrandedRelease, [Next]_vars
    PROVE  NoStrandedRelease'
<1> DEFINE unfinished == {"uploaded", "processing"}
           active     == {"queued", "running"}
<1>j. /\ jobs \in [Job -> JobRow]
      /\ \A r \in Release : releases[r].status \in unfinished =>
           \E j \in Job : jobs[j].status \in active /\ jobs[j].release = r
      /\ \A i, j \in Job : jobs[i].status \in active /\ jobs[j].status \in active => i = j
  BY DEF TInv, TypeOK, NoStrandedRelease, OneActiveJob, Processing, Active, Status
<1>g. ASSUME \A r \in Release : releases'[r].status \in unfinished =>
               \E j \in Job : jobs'[j].status \in active /\ jobs'[j].release = r
      PROVE  NoStrandedRelease'
  BY <1>g DEF NoStrandedRelease, Processing, Active, Status
\* when the active job ends and its release with it, nothing is left processing
<1>a. ASSUME NEW j \in Job, jobs[j].status \in active,
             releases'[jobs[j].release].status \notin unfinished,
             \A r \in Release \ {jobs[j].release} :
               releases'[r].status \in unfinished => releases[r].status \in unfinished
      PROVE  NoStrandedRelease'
  <2>1. \A r \in Release : releases'[r].status \notin unfinished
    BY <1>a, <1>j
  <2> QED
    BY <2>1, <1>g
\* a step that starts no processing and keeps the active job
<1>k. ASSUME \A r \in Release :
               releases'[r].status \in unfinished => releases[r].status \in unfinished,
             \A j \in Job : /\ jobs[j].status \in active => jobs'[j].status \in active
                            /\ jobs'[j].release = jobs[j].release
      PROVE  NoStrandedRelease'
  BY <1>j, <1>k, <1>g
<1>b. ASSUME NEW w \in Worker, Owns(w)
      PROVE  /\ worker[w].job \in Job
             /\ jobs[worker[w].job].status = "running"
             /\ jobs[worker[w].job] \in JobRow
             /\ jobs[worker[w].job].release \in Release
             /\ Status(jobs[worker[w].job].release) # "absent"
  BY <1>b, <1>j DEF Owns, TInv, TypeOK, Run, RefsInv, JobsInv
<1>f. ASSUME NEW j \in Job, jobs[j].status \in active, FailsProcessing(jobs[j].release)
      PROVE  NoStrandedRelease'
  <2>1. jobs[j].release \in Release
    BY <1>f DEF TInv, RefsInv, JobsInv
  <2>2. \A s \in Release : releases'[s].status =
          IF s = jobs[j].release /\ Processing(s) THEN "failed" ELSE Status(s)
    BY <1>f, <2>1, FailsProcessingKeeps
  <2>3. /\ releases'[jobs[j].release].status \notin unfinished
        /\ \A s \in Release \ {jobs[j].release} : releases'[s].status = releases[s].status
    BY <2>1, <2>2 DEF Processing, Status
  <2> QED
    BY <1>a, <1>f, <2>3
<1> HIDE DEF unfinished, active
<1>1. CASE Requested
  <2>1. PICK r \in Release, b \in BOOLEAN, row \in ReleaseRow :
          InsertJob(r, b) /\ ReleaseBecomes(r, row)
    BY <1>1 DEF Requested
  <2>2. PICK j \in Job :
          /\ jobs'[j] = QueuedFor(r, b)
          /\ \A i \in Job \ {j} : jobs'[i] = jobs[i]
    BY <2>1, InsertJobEffect
  <2>3. jobs'[j].status \in active /\ jobs'[j].release = r
    BY <2>2, QueuedForRow DEF active
  <2>4. \A s \in Release \ {r} : releases'[s] = releases[s]
    BY <2>1, ReleaseUpdate
  <2>5. \A i \in Job : jobs[i].status \notin active
    BY <2>1, InsertJobEffect DEF Active, active
  <2>6. \A s \in Release \ {r} : releases'[s].status \notin unfinished
    BY <1>j, <2>4, <2>5
  <2> QED
    BY <1>g, <2>3, <2>6
<1>2. CASE Quiet
  BY <1>2, <1>k DEF Quiet, SameClaim
<1>3. ASSUME NEW w \in Worker, NEW j \in Job, Claim(w, j)
      PROVE  NoStrandedRelease'
  <2>1. /\ JobsKept
        /\ jobs'[j].status \in active
        /\ \A i \in Job \ {j} : jobs'[i] = jobs[i]
    BY <1>j, <1>3, ClaimEffect, ClaimedRow DEF active
  <2>2. jobs[j].release \in Release /\ StartsProcessing(jobs[j].release)
    BY <1>3, ClaimEffect DEF Claim, TInv, RefsInv, JobsInv
  <2>3. \A r \in Release :
          releases'[r].status \in unfinished => releases[r].status \in unfinished
    BY <2>2, StartsProcessingKeeps DEF Status, unfinished
  <2> QED
    BY <1>k, <2>1, <2>3 DEF JobsKept
<1>4. ASSUME NEW w \in Worker, NEW j \in Job, DeadLetter(w, j)
      PROVE  NoStrandedRelease'
  <2>1. jobs[j].status \in active
    BY <1>4, DeadLetterEffect DEF active
  <2>2. FailsProcessing(jobs[j].release)
    BY <1>4 DEF DeadLetter
  <2> QED
    BY <1>f, <2>1, <2>2
<1>5. ASSUME NEW w \in Worker, Finalize(w)
      PROVE  NoStrandedRelease'
  <2> DEFINE j == worker[w].job
             r == jobs[j].release
  <2>1. Owns(w) /\ ReleaseBecomes(r, Finished(releases[r], jobs[j].enables))
    BY <1>5 DEF Finalize
  <2>2. /\ j \in Job /\ jobs[j].status \in active /\ jobs[j].enables \in BOOLEAN
        /\ r \in Release /\ Status(r) # "absent"
    BY <1>b, <2>1, JobRowFields DEF active
  <2>3. /\ \A s \in Release \ {r} : releases'[s] = releases[s]
        /\ releases'[r].status \notin unfinished
    BY <2>1, <2>2, FinishedKeeps DEF unfinished
  <2> QED
    BY <1>a, <2>2, <2>3
<1>6. ASSUME NEW w \in Worker, GivesBack(w)
      PROVE  NoStrandedRelease'
  <2> DEFINE j == worker[w].job
  <2>1. Owns(w) /\ JobBecomes(j, Requeued(jobs[j])) /\ UNCHANGED releases
    BY <1>6 DEF GivesBack
  <2>2. /\ jobs'[j].status \in active /\ jobs'[j].release = jobs[j].release
        /\ \A i \in Job \ {j} : jobs'[i] = jobs[i]
    BY <1>b, <1>j, <2>1, RequeuedRow DEF JobBecomes, Follows, active
  <2> QED
    BY <1>k, <2>1, <2>2
<1>7. ASSUME NEW w \in Worker, FailsJob(w)
      PROVE  NoStrandedRelease'
  <2>1. Owns(w) /\ FailsProcessing(jobs[worker[w].job].release)
    BY <1>7 DEF FailsJob
  <2>2. worker[w].job \in Job /\ jobs[worker[w].job].status \in active
    BY <1>b, <2>1 DEF active
  <2> QED
    BY <1>f, <2>1, <2>2
<1>8. CASE Sweep
  <2>1. UNCHANGED releases
    BY <1>8 DEF Sweep
  <2>2. \A j \in Job : /\ jobs[j].status \in active => jobs'[j].status \in active
                       /\ jobs'[j].release = jobs[j].release
    BY <1>8, SweepKeeps DEF JobsKept, active
  <2> QED
    BY <1>k, <2>1, <2>2
<1> QED
  BY <1>1, <1>2, <1>3, <1>4, <1>5, <1>6, <1>7, <1>8, StepKinds

-----------------------------------------------------------------------------
(* the runs                                                                 *)

\* A run that is not started by this step ends, or goes on with its claim.  It
\* reaches its last step by writing the rows of its release's artifacts, and it
\* has the plan and the bound versions it had unless it has just loaded them.
Stays(x) ==
    \/ worker'[x].pc = "idle" /\ worker'[x].job = None
    \/ /\ worker[x].pc # "idle"
       /\ worker'[x].job = worker[x].job
       /\ worker'[x].gen = worker[x].gen
       /\ worker'[x].pc = "final" =>
            worker[x].pc = "final" \/ jobs[worker[x].job].release \in bundled'
       /\ \/ /\ worker'[x].plan = worker[x].plan
             /\ worker'[x].bound = worker[x].bound
             /\ worker[x].pc = "claimed" => worker'[x].pc = "claimed"
          \/ /\ worker'[x].plan = DesiredManifest(worker[x].job)
             /\ worker'[x].bound = Resolved(jobs[worker[x].job].release)
             /\ UNCHANGED database

LEMMA RunBecomesRow ==
    ASSUME TInv, NEW w \in Worker, NEW run, RunBecomes(w, run), NEW x \in Worker
    PROVE  worker'[x] = IF x = w THEN run ELSE worker[x]
BY DEF RunBecomes, TInv, TypeOK

LEMMA StaysIfSame ==
    ASSUME TInv, NEW x \in Worker, worker'[x] = worker[x]
    PROVE  Stays(x)
BY DEF Stays, TInv, RefsInv, RunsInv

LEMMA StaysIfEnds ==
    ASSUME TInv, NEW w \in Worker, Ends(w), NEW x \in Worker
    PROVE  Stays(x)
<1>1. CASE x = w
  BY <1>1, RunBecomesRow, RowTypes DEF Ends, Stays
<1>2. CASE x # w
  BY <1>2, RunBecomesRow, StaysIfSame DEF Ends
<1> QED
  BY <1>1, <1>2

LEMMA StaysIfGoes ==
    ASSUME TInv, NEW w \in Worker, worker[w].pc \notin {"idle", "claimed"},
           NEW pc \in Step, Goes(w, pc),
           pc = "final" => jobs[worker[w].job].release \in bundled',
           NEW x \in Worker
    PROVE  Stays(x)
<1>1. CASE x = w
  <2>1. worker'[w] = [worker[w] EXCEPT !.pc = pc]
    BY RunBecomesRow DEF Goes
  <2> QED
    BY <1>1, <2>1, RunAtStep DEF Stays, TInv, TypeOK
<1>2. CASE x # w
  BY <1>2, RunBecomesRow, StaysIfSame DEF Goes
<1> QED
  BY <1>1, <1>2

\* with the manifests that are left to write
LEMMA StaysIfWrites ==
    ASSUME TInv, NEW w \in Worker, worker[w].pc \notin {"idle", "claimed"},
           NEW todo \in SUBSET Version,
           RunBecomes(w, [worker[w] EXCEPT !.pc = "writing", !.todo = todo]),
           NEW x \in Worker
    PROVE  Stays(x)
<1>1. CASE x = w
  <2>1. worker'[w] = [worker[w] EXCEPT !.pc = "writing", !.todo = todo]
    BY RunBecomesRow
  <2>2. /\ worker'[w].pc = "writing" /\ worker'[w].job = worker[w].job
        /\ worker'[w].gen = worker[w].gen
        /\ worker'[w].plan = worker[w].plan /\ worker'[w].bound = worker[w].bound
    <3>1. worker[w] \in Run
      BY DEF TInv, TypeOK
    <3> QED
      BY <2>1, <3>1 DEF Run, Step
  <2> QED
    BY <1>1, <2>2 DEF Stays
<1>2. CASE x # w
  BY <1>2, RunBecomesRow, StaysIfSame
<1> QED
  BY <1>1, <1>2

LEMMA RunsStay ==
    ASSUME TInv, [Next]_vars, NEW x \in Worker
    PROVE  Stays(x) \/ \E j \in Job : Claim(x, j)
<1> USE DEF database, storage
<1>r. ASSUME NEW w \in Worker
      PROVE  worker[w] \in Run
  BY DEF TInv, TypeOK
<1>1. ASSUME UNCHANGED worker
      PROVE  Stays(x)
  BY <1>1, StaysIfSame
<1>2. ASSUME NEW w \in Worker, LoadContext(w)
      PROVE  Stays(x)
  <2> DEFINE j == worker[w].job
             bound == Resolved(jobs[j].release)
             plan == DesiredManifest(j)
             todo == ManifestVersions(j)
             source == StagedSource(jobs[j].release)
             loaded == [worker[w] EXCEPT !.pc = "loaded", !.bound = bound, !.plan = plan,
                                         !.todo = todo, !.source = source]
  <2>1. /\ worker[w].pc = "claimed" /\ UNCHANGED database
        /\ RunBecomes(w, loaded)
    BY <1>2 DEF LoadContext
  <2>2. loaded.pc = "loaded" /\ loaded.job = j /\ loaded.gen = worker[w].gen
        /\ loaded.plan = plan /\ loaded.bound = bound
    <3> HIDE DEF bound, plan, todo, source
    <3> QED
      BY <1>r DEF Run
  <2> HIDE DEF loaded
  <2>3. CASE x = w
    <3>1. worker'[x] = loaded
      BY <2>1, <2>3, RunBecomesRow
    <3> QED
      BY <2>1, <2>2, <2>3, <3>1 DEF Stays
  <2>4. CASE x # w
    BY <2>1, <2>4, RunBecomesRow, StaysIfSame
  <2> QED
    BY <2>3, <2>4
<1>3. ASSUME NEW w \in Worker, PersistTargets(w)
      PROVE  Stays(x)
  <2>1. Goes(w, "targeted") \/ Ends(w)
    BY <1>3 DEF PersistTargets, LosesClaim
  <2> QED
    BY <1>3, <2>1, StaysIfEnds, StaysIfGoes DEF PersistTargets, Step
<1>4. ASSUME NEW w \in Worker, Inspect(w)
      PROVE  Stays(x)
  <2> DEFINE todo == {v \in worker[w].todo : manifest[v] # worker[w].plan[v]}
  <2>1. todo \in SUBSET Version
    BY <1>r, RunFields
  <2>2. \/ Ends(w)
        \/ RunBecomes(w, [worker[w] EXCEPT !.pc = "writing", !.todo = todo])
    BY <1>4, <1>r DEF Inspect, LosesClaim, Run
  <2> HIDE DEF todo
  <2> QED
    BY <1>4, <2>1, <2>2, StaysIfEnds, StaysIfWrites DEF Inspect
<1>5. ASSUME NEW w \in Worker, Heartbeat(w)
      PROVE  Stays(x)
  <2>1. Goes(w, "publish") \/ Goes(w, "put") \/ Ends(w)
    BY <1>5 DEF Heartbeat, LosesClaim
  <2> QED
    BY <1>5, <2>1, StaysIfEnds, StaysIfGoes DEF Heartbeat, Step
<1>6. ASSUME NEW w \in Worker, PutManifest(w)
      PROVE  Stays(x)
  <2>1. PICK v \in worker[w].todo :
          RunBecomes(w, [worker[w] EXCEPT !.pc = "writing", !.todo = @ \ {v}])
    BY <1>6 DEF PutManifest
  <2>2. worker[w].todo \ {v} \in SUBSET Version
    BY <1>r, RunFields
  <2>3. RunBecomes(w, [worker[w] EXCEPT !.pc = "writing", !.todo = worker[w].todo \ {v}])
    BY <1>r, <2>1 DEF Run
  <2> QED
    BY <1>6, <2>2, <2>3, StaysIfWrites DEF PutManifest
<1>7. ASSUME NEW w \in Worker, PersistArtifacts(w)
      PROVE  Stays(x)
  <2>1. /\ Goes(w, "final") \/ Ends(w)
        /\ jobs[worker[w].job].release \in bundled'
    BY <1>7 DEF PersistArtifacts, LosesClaim
  <2> QED
    BY <1>7, <2>1, StaysIfEnds, StaysIfGoes DEF PersistArtifacts, Step
<1>8. ASSUME NEW w \in Worker,
             Finalize(w) \/ FinalizeRefused(w) \/ Requeue(w) \/ Fail(w)
      PROVE  Stays(x)
  <2>1. Ends(w)
    BY <1>8 DEF Finalize, FinalizeRefused, Requeue, Fail, LosesClaim
  <2> QED
    BY <2>1, StaysIfEnds
<1>9. ASSUME NEW w \in Worker, NEW j \in Job, PickUp(w, j)
      PROVE  Stays(x) \/ Claim(x, j)
  <2>1. CASE ClaimRefused(w, j) \/ DeadLetter(w, j)
    BY <1>1, <2>1 DEF ClaimRefused, DeadLetter
  <2>2. CASE Claim(w, j)
    <3>1. CASE x = w
      BY <2>2, <3>1
    <3>2. CASE x # w
      BY <2>2, <3>2, RunBecomesRow, StaysIfSame DEF Claim
    <3> QED
      BY <3>1, <3>2
  <2> QED
    BY <1>9, <2>1, <2>2 DEF PickUp
<1>10. ASSUME NEW r \in Release,
              \/ CreateRelease(r)
              \/ PromoteRelease(r)
              \/ \E t \in Release : RollbackDeployment(r, t)
              \/ PatchRelease(r)
       PROVE  Stays(x)
  BY <1>1, <1>10, RequestSteps DEF Requested
<1>11. CASE Crash
  BY <1>11, RowTypes DEF Crash, Stays
<1>12. CASE Sweep \/ (\E j \in Job : LeaseExpires(j)) \/ UNCHANGED vars
  BY <1>1, <1>12 DEF Sweep, LeaseExpires, vars, memory
<1> QED
  BY <1>2, <1>3, <1>4, <1>5, <1>6, <1>7, <1>8, <1>9, <1>10, <1>11, <1>12 DEF Next, Work

-----------------------------------------------------------------------------
(* exclusive claims                                                         *)

\* A claim is of one run, also when its job has long been claimed again.
ClaimsInv ==
    \A w, x \in Worker :
        /\ worker[w].pc # "idle" /\ worker[x].pc # "idle"
        /\ worker[w].job = worker[x].job /\ worker[w].gen = worker[x].gen
        => w = x

LEMMA ClaimsInvNext ==
    ASSUME TInv, ClaimsInv, [Next]_vars
    PROVE  ClaimsInv'
<1> SUFFICES ASSUME NEW w \in Worker, NEW x \in Worker, w # x,
                    worker'[w].pc # "idle", worker'[x].pc # "idle",
                    worker'[w].job = worker'[x].job, worker'[w].gen = worker'[x].gen
             PROVE  FALSE
  BY DEF ClaimsInv
<1>1. CASE Stays(w) /\ Stays(x)
  BY <1>1 DEF Stays, ClaimsInv
\* the generation of a new claim is above that of every run of the job
<1>2. ASSUME NEW y \in Worker, NEW z \in Worker, y # z, NEW j \in Job, Claim(y, j),
             worker'[z].pc # "idle", worker'[y].job = worker'[z].job,
             worker'[y].gen = worker'[z].gen
      PROVE  FALSE
  <2>1. /\ worker'[y] = RunOf(j, jobs[j].gen + 1)
        /\ worker'[z] = worker[z]
        /\ jobs[j].gen \in Nat
    BY <1>2, ClaimEffect, JobRowFields DEF RunMoves, TInv, TypeOK
  <2>2. worker'[y].job = j /\ worker'[y].gen = jobs[j].gen + 1
    BY <2>1, RunOfJob
  <2>3. worker[z].job = j /\ worker[z].gen <= jobs[j].gen /\ worker[z].gen \in Nat
    BY <1>2, <2>1, <2>2, RunFields DEF TInv, TypeOK, RefsInv, RunsInv
  <2> QED
    BY <1>2, <2>1, <2>2, <2>3
<1> QED
  BY <1>1, <1>2, RunsStay

LEMMA ExclusiveIfClaims ==
    ASSUME TInv, OneActiveJob, ClaimsInv
    PROVE  ExclusiveClaim
<1> SUFFICES ASSUME NEW w \in Worker, NEW x \in Worker, Owns(w), Owns(x)
             PROVE  w = x
  BY DEF ExclusiveClaim
<1>1. ASSUME NEW y \in Worker, Owns(y)
      PROVE  /\ worker[y].pc # "idle" /\ worker[y].job \in Job
             /\ Active(worker[y].job) /\ worker[y].gen = jobs[worker[y].job].gen
  BY <1>1 DEF Owns, Active, TInv, TypeOK, Run, RefsInv, RunsInv
<1> QED
  BY <1>1 DEF OneActiveJob, ClaimsInv

-----------------------------------------------------------------------------
(* the artifacts of a published release                                     *)

\* A run about to finalize has written its release's artifact rows.
FinalInv ==
    \A w \in Worker : worker[w].pc = "final" => jobs[worker[w].job].release \in bundled

LEMMA BundledGrows ==
    ASSUME TInv, [Next]_vars
    PROVE  bundled \subseteq bundled'
<1>1. ASSUME NEW w \in Worker, NEW j \in Job, Claim(w, j) \/ DeadLetter(w, j)
      PROVE  bundled \subseteq bundled'
  BY <1>1 DEF Claim, DeadLetter
<1>2. ASSUME NEW w \in Worker, Finalize(w) \/ GivesBack(w) \/ FailsJob(w)
      PROVE  bundled \subseteq bundled'
  BY <1>2 DEF Finalize, GivesBack, FailsJob
<1> QED
  BY <1>1, <1>2, StepKinds DEF Requested, Quiet, Sweep

\* a job is for one release from its insertion on
LEMMA ReleaseOfJob ==
    ASSUME TInv, [Next]_vars, NEW j \in Job, jobs[j].status # "absent"
    PROVE  jobs'[j].release = jobs[j].release
<1>j. jobs \in [Job -> JobRow]
  BY DEF TInv, TypeOK
<1>1. ASSUME NEW w \in Worker, Owns(w)
      PROVE  worker[w].job \in Job /\ jobs[worker[w].job].status # "absent"
  BY <1>1 DEF Owns, TInv, TypeOK, Run
<1>2. CASE Requested
  <2>1. PICK r \in Release, b \in BOOLEAN : InsertJob(r, b)
    BY <1>2 DEF Requested
  <2> QED
    BY <2>1, InsertJobEffect
<1>3. ASSUME NEW w \in Worker, NEW i \in Job, Claim(w, i) \/ DeadLetter(w, i)
      PROVE  JobsKept
  BY <1>3, ClaimEffect, DeadLetterEffect
<1>4. ASSUME NEW w \in Worker, Finalize(w)
      PROVE  JobsKept
  BY <1>1, <1>4, <1>j, SucceededRow, JobUpdate DEF Finalize
<1>5. ASSUME NEW w \in Worker, GivesBack(w)
      PROVE  JobsKept
  BY <1>1, <1>5, <1>j, RequeuedRow, JobUpdate DEF GivesBack
<1>6. ASSUME NEW w \in Worker, FailsJob(w)
      PROVE  JobsKept
  BY <1>1, <1>6, <1>j, FailedRow, JobUpdate DEF FailsJob
<1>7. CASE Quiet
  BY <1>7 DEF Quiet, SameClaim
<1>8. CASE Sweep
  BY <1>8, SweepKeeps DEF JobsKept
<1> QED
  BY <1>2, <1>3, <1>4, <1>5, <1>6, <1>7, <1>8, StepKinds DEF JobsKept

LEMMA FinalInvNext ==
    ASSUME TInv, FinalInv, [Next]_vars
    PROVE  FinalInv'
<1> SUFFICES ASSUME NEW w \in Worker, worker'[w].pc = "final"
             PROVE  jobs'[worker'[w].job].release \in bundled'
  BY DEF FinalInv
<1>1. CASE Stays(w)
  <2>1. worker[w].job \in Job /\ jobs[worker[w].job].status # "absent"
    BY <1>1, RunRefs DEF Stays
  <2>2. jobs'[worker[w].job].release = jobs[worker[w].job].release
    BY <2>1, ReleaseOfJob
  <2> QED
    BY <1>1, <2>2, BundledGrows DEF Stays, FinalInv
<1>2. ASSUME NEW j \in Job, Claim(w, j)
      PROVE  FALSE
  <2>1. worker'[w] = RunOf(j, jobs[j].gen + 1) /\ jobs[j].gen + 1 \in Nat
    BY <1>2, ClaimEffect, JobRowFields DEF TInv, TypeOK
  <2> QED
    BY <2>1, RunOfJob
<1> QED
  BY <1>1, <1>2, RunsStay

LEMMA PublishedIsReusableNext ==
    ASSUME TInv, FinalInv, PublishedIsReusable, [Next]_vars
    PROVE  PublishedIsReusable'
<1>p. \A r \in Release : releases[r].status = "published" => r \in bundled
  BY DEF PublishedIsReusable, Status
<1>k. ASSUME \A r \in Release : releases'[r].status = "published" =>
               releases[r].status = "published" \/ r \in bundled
      PROVE  PublishedIsReusable'
  BY <1>k, <1>p, BundledGrows DEF PublishedIsReusable, Status
<1>b. ASSUME NEW w \in Worker, Owns(w)
      PROVE  /\ worker[w].job \in Job
             /\ jobs[worker[w].job] \in JobRow
             /\ jobs[worker[w].job].release \in Release
             /\ Status(jobs[worker[w].job].release) # "absent"
  BY <1>b DEF Owns, TInv, TypeOK, Run, RefsInv, JobsInv
<1>1. CASE Requested
  <2>1. PICK r \in Release, row \in ReleaseRow :
          /\ ReleaseBecomes(r, row)
          /\ row.status = "published" => Status(r) = "published"
    BY <1>1 DEF Requested
  <2> QED
    BY <1>k, <2>1, ReleaseUpdate DEF Status
<1>2. CASE Quiet
  BY <1>2, <1>k DEF Quiet
<1>3. ASSUME NEW w \in Worker, NEW j \in Job, Claim(w, j)
      PROVE  PublishedIsReusable'
  <2>1. jobs[j].release \in Release /\ StartsProcessing(jobs[j].release)
    BY <1>3, ClaimEffect DEF Claim, TInv, RefsInv, JobsInv
  <2> QED
    BY <1>k, <2>1, StartsProcessingKeeps DEF Status
<1>4. ASSUME NEW j \in Job, jobs[j].release \in Release, FailsProcessing(jobs[j].release)
      PROVE  PublishedIsReusable'
  BY <1>4, <1>k, FailsProcessingKeeps DEF Status
<1>5. ASSUME NEW w \in Worker, NEW j \in Job, DeadLetter(w, j)
      PROVE  PublishedIsReusable'
  BY <1>4, <1>5, DeadLetterEffect DEF DeadLetter, TInv, RefsInv, JobsInv
<1>6. ASSUME NEW w \in Worker, Finalize(w)
      PROVE  PublishedIsReusable'
  <2> DEFINE j == worker[w].job
             r == jobs[j].release
  <2>1. Owns(w) /\ ReleaseBecomes(r, Finished(releases[r], jobs[j].enables)) /\ r \in bundled
    BY <1>6 DEF Finalize, FinalInv
  <2>2. jobs[j].enables \in BOOLEAN /\ r \in Release /\ Status(r) # "absent"
    BY <1>b, <2>1, JobRowFields
  <2>3. \A s \in Release \ {r} : releases'[s] = releases[s]
    BY <2>1, <2>2, FinishedKeeps
  <2> QED
    BY <1>k, <2>1, <2>3
<1>7. ASSUME NEW w \in Worker, GivesBack(w)
      PROVE  PublishedIsReusable'
  BY <1>7, <1>k DEF GivesBack
<1>8. ASSUME NEW w \in Worker, FailsJob(w)
      PROVE  PublishedIsReusable'
  BY <1>4, <1>8, <1>b DEF FailsJob
<1>9. CASE Sweep
  BY <1>9, <1>k DEF Sweep
<1> QED
  BY <1>1, <1>2, <1>3, <1>5, <1>6, <1>7, <1>8, <1>9, StepKinds

-----------------------------------------------------------------------------
(* inferred fingerprints                                                    *)

\* PersistTargets gives the release of its run no version it did not resolve to.
LEMMA InferredResolves ==
    ASSUME NEW r, NEW v, v = releases[r].version,
           inferred \in [Version -> Fingerprint \cup {None}],
           inferred' = [inferred EXCEPT ![v] = IF @ = None THEN releases[r].fp ELSE @],
           UNCHANGED releases
    PROVE  Resolved(r)' = Resolved(r)
BY DEF Resolved

\* Only the owner of a job infers a fingerprint, for the version of its release.
LEMMA InferredChanges ==
    ASSUME TInv, [Next]_vars
    PROVE  \/ UNCHANGED inferred
           \/ \E w \in Worker :
                LET r == jobs[worker[w].job].release
                    v == releases[r].version
                IN  /\ Owns(w)
                    /\ inferred' = [inferred EXCEPT ![v] = IF @ = None THEN releases[r].fp ELSE @]
<1> USE DEF database
<1>1. ASSUME NEW r \in Release,
             \/ CreateRelease(r)
             \/ PromoteRelease(r)
             \/ \E t \in Release : RollbackDeployment(r, t)
             \/ PatchRelease(r)
      PROVE  UNCHANGED inferred
  BY <1>1, RequestSteps DEF Requested
<1>2. ASSUME NEW w \in Worker,
             \/ LoadContext(w) \/ Inspect(w) \/ Heartbeat(w) \/ PutManifest(w)
             \/ PersistArtifacts(w) \/ Finalize(w) \/ FinalizeRefused(w)
             \/ Requeue(w) \/ Fail(w)
             \/ \E j \in Job : PickUp(w, j)
      PROVE  UNCHANGED inferred
  BY <1>2 DEF LoadContext, Inspect, Heartbeat, PutManifest, PersistArtifacts, Finalize,
              FinalizeRefused, Requeue, Fail, PickUp, ClaimRefused, DeadLetter, Claim
<1>3. CASE Sweep \/ Crash \/ (\E j \in Job : LeaseExpires(j)) \/ UNCHANGED vars
  BY <1>3 DEF Sweep, Crash, LeaseExpires, vars
<1>4. ASSUME NEW w \in Worker, PersistTargets(w), ~UNCHANGED inferred
      PROVE  LET r == jobs[worker[w].job].release
                 v == releases[r].version
             IN  /\ Owns(w)
                 /\ inferred' = [inferred EXCEPT ![v] = IF @ = None THEN releases[r].fp ELSE @]
  BY <1>4 DEF PersistTargets
<1> QED
  BY <1>1, <1>2, <1>3, <1>4 DEF Next, Work

-----------------------------------------------------------------------------
(* the jobs in their order                                                  *)

\* Jobs are inserted in order, when no other is active.
Ordered ==
    \A i, j \in Job :
        i < j /\ jobs[j].status # "absent" => jobs[i].status # "absent" /\ ~Active(i)

LEMMA StatusSteps ==
    ASSUME TInv, [Next]_vars
    PROVE  \/ Requested
           \/ \A j \in Job :
                /\ jobs'[j].status = "absent" <=> jobs[j].status = "absent"
                /\ Active(j)' => Active(j)
<1>j. jobs \in [Job -> JobRow]
  BY DEF TInv, TypeOK
<1>b. ASSUME NEW w \in Worker, Owns(w)
      PROVE  /\ worker[w].job \in Job
             /\ jobs[worker[w].job] \in JobRow
             /\ jobs[worker[w].job].status = "running"
  BY <1>b DEF Owns, TInv, TypeOK, Run
<1>1. CASE Quiet
  BY <1>1 DEF Quiet, SameClaim, Active
<1>2. ASSUME NEW w \in Worker, NEW j \in Job, Claim(w, j) \/ DeadLetter(w, j)
      PROVE  /\ jobs[j].status \in {"queued", "running"} /\ JobsKept
             /\ \A i \in Job \ {j} : jobs'[i] = jobs[i]
  BY <1>2, ClaimEffect, DeadLetterEffect
<1>3. ASSUME NEW w \in Worker, Finalize(w) \/ GivesBack(w) \/ FailsJob(w)
      PROVE  LET j == worker[w].job IN
             /\ jobs[j].status = "running" /\ jobs'[j].status # "absent"
             /\ \A i \in Job \ {j} : jobs'[i] = jobs[i]
  <2> DEFINE j == worker[w].job
  <2>1. Owns(w) /\ \/ JobBecomes(j, Succeeded(jobs[j]))
                   \/ JobBecomes(j, Requeued(jobs[j]))
                   \/ JobBecomes(j, Failed(jobs[j]))
    BY <1>3 DEF Finalize, GivesBack, FailsJob
  <2> QED
    BY <1>b, <1>j, <2>1, SucceededRow, RequeuedRow, FailedRow DEF JobBecomes
<1>4. CASE Sweep
  BY <1>4, SweepKeeps DEF JobsKept, Active
<1> QED
  BY <1>1, <1>2, <1>3, <1>4, StepKinds DEF JobsKept, Active

LEMMA OrderedNext ==
    ASSUME TInv, Ordered, [Next]_vars
    PROVE  Ordered'
<1> SUFFICES ASSUME NEW i \in Job, NEW j \in Job, i < j, jobs'[j].status # "absent"
             PROVE  jobs'[i].status # "absent" /\ ~Active(i)'
  BY DEF Ordered
<1>1. CASE Requested
  <2>1. PICK r \in Release, b \in BOOLEAN : InsertJob(r, b)
    BY <1>1 DEF Requested
  <2>2. PICK k \in Job :
          /\ jobs[k].status = "absent"
          /\ \A n \in 1 .. (k - 1) : jobs[n].status # "absent"
          /\ JobBecomes(k, QueuedFor(r, b))
    BY <2>1 DEF InsertJob
  <2>3. \A n \in Job \ {k} : jobs'[n] = jobs[n]
    BY <2>2 DEF JobBecomes, TInv, TypeOK
  <2>4. i \in Nat /\ j \in Nat /\ i >= 1 /\ i # j
    BY DEF Job
  <2>5. jobs[i].status # "absent" /\ i # k
    <3>1. CASE j = k
      <4>1. i \in 1 .. (k - 1)
        BY <2>4, <3>1
      <4> QED
        BY <2>2, <2>4, <3>1, <4>1
    <3>2. CASE j # k
      BY <2>2, <2>3, <3>2 DEF Ordered
    <3> QED
      BY <3>1, <3>2
  <2>6. ~Active(i)
    BY <2>1 DEF InsertJob
  <2> QED
    BY <2>3, <2>5, <2>6 DEF Active
<1>2. CASE \A n \in Job : /\ jobs'[n].status = "absent" <=> jobs[n].status = "absent"
                          /\ Active(n)' => Active(n)
  BY <1>2 DEF Ordered
<1> QED
  BY <1>1, <1>2, StatusSteps

\* With an active job, that is the latest.
LEMMA ActiveIsLatest ==
    ASSUME Ordered, NEW j \in Job, Active(j)
    PROVE  \A i \in Job : i > j => jobs[i].status = "absent"
BY DEF Ordered, Job

-----------------------------------------------------------------------------
(* what is served and what is to be served                                  *)

\* A step that neither inserts a job nor ends one may start the processing of a
\* release.  What the releases are served to stays, as does what the job that is
\* active resolves.
Continues ==
    /\ UNCHANGED targets
    /\ \A r \in Release :
         /\ releases'[r].version = releases[r].version
         /\ releases'[r].fp = releases[r].fp
         /\ \/ releases'[r].status = releases[r].status
            \/ releases[r].status = "uploaded" /\ releases'[r].status = "processing"
    /\ \A j \in Job :
         /\ jobs'[j].release = jobs[j].release
         /\ jobs'[j].enables = jobs[j].enables
         /\ jobs'[j].status = jobs[j].status \/ (Active(j) /\ Active(j)')
         /\ Active(j) => Resolved(jobs[j].release)' = Resolved(jobs[j].release)

LEMMA OwnedJob ==
    ASSUME TInv, NEW w \in Worker, Owns(w)
    PROVE  /\ worker[w].pc # "idle" /\ worker[w] \in Run
           /\ worker[w].job \in Job
           /\ jobs[worker[w].job] \in JobRow
           /\ jobs[worker[w].job].status = "running"
           /\ Active(worker[w].job)
           /\ jobs[worker[w].job].release \in Release
           /\ Status(jobs[worker[w].job].release) # "absent"
BY DEF Owns, Active, TInv, TypeOK, Run, RefsInv, RunsInv, JobsInv

LEMMA StepServes ==
    ASSUME TInv, OneActiveJob, [Next]_vars
    PROVE  \/ Requested
           \/ Continues
           \/ \E w \in Worker : Finalize(w) \/ FailsJob(w)
           \/ \E w \in Worker, j \in Job : DeadLetter(w, j)
<1>j. /\ jobs \in [Job -> JobRow] /\ releases \in [Release -> ReleaseRow]
      /\ inferred \in [Version -> Fingerprint \cup {None}]
  BY DEF TInv, TypeOK
<1>r. \A j \in Job : Active(j) => jobs[j].release \in Release
  BY DEF Active, TInv, RefsInv, JobsInv
<1>1. CASE Quiet
  <2>1. UNCHANGED <<releases, targets>> /\ \A j \in Job : SameClaim(jobs'[j], jobs[j])
    BY <1>1 DEF Quiet
  <2>2. ASSUME NEW j \in Job, Active(j)
        PROVE  Resolved(jobs[j].release)' = Resolved(jobs[j].release)
    <3>r. PICK r : r = jobs[j].release
      OBVIOUS
    <3>s. jobs'[j].release = r
      BY <2>1, <3>r DEF SameClaim
    <3>1. CASE UNCHANGED inferred
      BY <2>1, <3>r, <3>s, <3>1 DEF Resolved
    <3>2. ASSUME NEW x \in Worker, Owns(x),
                 LET v == releases[jobs[worker[x].job].release].version IN
                 inferred' = [inferred EXCEPT ![v] =
                   IF @ = None THEN releases[jobs[worker[x].job].release].fp ELSE @]
          PROVE  Resolved(r)' = Resolved(r)
      <4>1. worker[x].job = j
        BY <2>2, <3>2, OwnedJob DEF OneActiveJob
      <4> QED
        BY <1>j, <2>1, <3>2, <3>r, <4>1, InferredResolves
    <3>3. Resolved(jobs[j].release)' = Resolved(r)'
      BY <3>s DEF Resolved
    <3> QED
      BY <3>1, <3>2, <3>3, <3>r, InferredChanges DEF Resolved
  <2> QED
    BY <2>1, <2>2 DEF Continues, SameClaim
\* the release a claim starts, and the others
<1>2. ASSUME NEW w \in Worker, NEW j \in Job, Claim(w, j)
      PROVE  Continues
  <2> DEFINE r == jobs[j].release
  <2>1. /\ UNCHANGED <<targets, inferred>> /\ StartsProcessing(r)
        /\ Active(j) /\ r \in Release
    BY <1>2, <1>r DEF Claim, Claimable, Active
  <2>2. \A s \in Release :
          /\ releases'[s].version = releases[s].version
          /\ releases'[s].fp = releases[s].fp
          /\ \/ releases'[s].status = releases[s].status
             \/ releases[s].status = "uploaded" /\ releases'[s].status = "processing"
    <3>1. CASE Status(r) = "uploaded"
      <4>1. ReleaseBecomes(r, Started(releases[r])) /\ releases[r] \in ReleaseRow
        BY <1>j, <2>1, <3>1 DEF StartsProcessing
      <4>2. /\ releases'[r] = Started(releases[r])
            /\ \A s \in Release \ {r} : releases'[s] = releases[s]
        BY <2>1, <4>1, StartedRow, ReleaseUpdate
      <4> QED
        BY <3>1, <4>1, <4>2, StartedRow DEF Status
    <3>2. CASE Status(r) # "uploaded"
      BY <2>1, <3>2 DEF StartsProcessing
    <3> QED
      BY <3>1, <3>2
  <2>3. /\ jobs'[j] = Claimed(jobs[j]) /\ JobsKept
        /\ \A i \in Job \ {j} : jobs'[i] = jobs[i]
    BY <1>2, ClaimEffect
  <2>4. /\ jobs[j].status # "absent" /\ jobs'[j].status = "running"
        /\ jobs'[j].enables = jobs[j].enables
    BY <1>j, <2>1, <2>3, ClaimedRow DEF Active
  <2>5. \A i \in Job : Active(i) => Resolved(jobs[i].release)' = Resolved(jobs[i].release)
    <3> SUFFICES ASSUME NEW i \in Job, Active(i)
                 PROVE  Resolved(jobs[i].release)' = Resolved(jobs[i].release)
      OBVIOUS
    <3>1. jobs'[i].release = jobs[i].release /\ jobs[i].release \in Release
      BY <1>r, <2>3 DEF JobsKept
    <3> QED
      BY <2>1, <2>2, <3>1 DEF Resolved
  <2> QED
    BY <2>1, <2>2, <2>3, <2>4, <2>5 DEF Continues, JobsKept, Active
<1>3. ASSUME UNCHANGED <<releases, targets, inferred>>, JobsKept,
             \A j \in Job : /\ jobs'[j].enables = jobs[j].enables
                            /\ jobs'[j].status = jobs[j].status \/ (Active(j) /\ Active(j)')
      PROVE  Continues
  <2>1. \A i \in Job : Resolved(jobs[i].release)' = Resolved(jobs[i].release)
    BY <1>3 DEF Resolved, JobsKept
  <2> QED
    BY <1>3, <2>1 DEF Continues, JobsKept
<1>4. ASSUME NEW w \in Worker, GivesBack(w)
      PROVE  Continues
  <2> DEFINE j == worker[w].job
  <2>1. /\ Owns(w) /\ JobBecomes(j, Requeued(jobs[j]))
        /\ UNCHANGED <<releases, targets, inferred>>
    BY <1>4 DEF GivesBack
  <2>2. j \in Job /\ jobs[j] \in JobRow /\ jobs[j].status # "absent" /\ Active(j)
    BY <2>1, OwnedJob
  <2>3. JobsKept /\ jobs'[j] = Requeued(jobs[j]) /\ \A i \in Job \ {j} : jobs'[i] = jobs[i]
    BY <2>1, <2>2, RequeuedRow, JobUpdate
  <2>4. jobs'[j].status = "queued" /\ jobs'[j].enables = jobs[j].enables
    BY <2>2, <2>3, RequeuedRow
  <2> QED
    BY <1>3, <2>1, <2>2, <2>3, <2>4 DEF Active
<1>5. CASE Sweep
  BY <1>3, <1>5, SweepKeeps DEF Sweep, Active
<1> QED
  BY <1>1, <1>2, <1>4, <1>5, StepKinds

\* A step that continues changes neither what is served nor what the active job
\* is to serve.
LEMMA SameServed ==
    ASSUME Continues, NEW v
    PROVE  ServedRelease(v)' = ServedRelease(v)
<1> DEFINE served  == {r \in Release : Status(r) = "published" /\ v \in targets[r]}
           served1 == {r \in Release : Status(r)' = "published" /\ v \in targets'[r]}
<1>1. served1 = served
  BY DEF Continues, Status
<1>2. ServedRelease(v)' = Newest(served1) /\ ServedRelease(v) = Newest(served)
  BY DEF ServedRelease, Newest, Status
<1> QED
  BY <1>1, <1>2

LEMMA SameVersions ==
    ASSUME Continues, NEW j \in Job, Active(j), jobs[j].release \in Release
    PROVE  /\ ManifestVersions(j)' = ManifestVersions(j)
           /\ DesiredManifest(j)' = DesiredManifest(j)
<1> DEFINE r == jobs[j].release
<1>1. /\ jobs'[j].release = r /\ jobs'[j].enables = jobs[j].enables
      /\ UNCHANGED targets
      /\ Resolved(jobs[j].release)' = Resolved(r)
  BY DEF Continues
<1>2. Effective(j)' = Effective(j)
  <2>1. ServesCurrent(j)' = ServesCurrent(j)
    BY <1>1 DEF ServesCurrent, Continues, Status
  <2>2. \A s \in Release : (Status(s) = "published")' = (Status(s) = "published")
    BY DEF Continues, Status
  <2> QED
    BY <1>1, <2>1, <2>2 DEF Effective
<1>3. \A s : ServedTo(s, j)' = ServedTo(s, j)
  <2> SUFFICES ASSUME NEW s
               PROVE  ServedTo(s, j)' = ServedTo(s, j)
    OBVIOUS
  <2>1. CASE s = r
    <3>1. ServedTo(s, j) = Resolved(r)
      BY <2>1 DEF ServedTo
    <3>2. ServedTo(s, j)' = Resolved(jobs[j].release)'
      BY <1>1, <2>1 DEF ServedTo, Resolved
    <3> QED
      BY <1>1, <3>1, <3>2
  <2>2. CASE s # r
    BY <1>1, <2>2 DEF ServedTo
  <2> QED
    BY <2>1, <2>2
<1> DEFINE served  == UNION {ServedTo(s, j) : s \in Effective(j)}
           served1 == UNION {ServedTo(s, j)' : s \in Effective(j)'}
<1>4. served1 = served
  BY <1>2, <1>3
<1>5. ManifestVersions(j)' = served1 \cup targets'[jobs'[j].release]
  BY DEF ManifestVersions
<1>6. ManifestVersions(j) = served \cup targets[r]
  BY DEF ManifestVersions
<1> DEFINE to(v)  == {s \in Effective(j) : v \in ServedTo(s, j)}
           to1(v) == {s \in Effective(j)' : v \in ServedTo(s, j)'}
<1>7. \A v : to1(v) = to(v)
  BY <1>2, <1>3
<1>8. DesiredManifest(j)' = DesiredManifest(j)
  <2>1. DesiredManifest(j) = [v \in Version |-> Newest(to(v))]
    BY DEF DesiredManifest
  <2>2. DesiredManifest(j)' = [v \in Version |-> Newest(to1(v))]
    BY DEF DesiredManifest, Newest
  <2> HIDE DEF to, to1
  <2> QED
    BY <1>7, <2>1, <2>2
<1> QED
  BY <1>1, <1>4, <1>5, <1>6, <1>8

-----------------------------------------------------------------------------
(* the owner and the others                                                 *)

\* A run in a storage write holds its job, with a lease that does not run out.
WritersOwn ==
    \A w \in Worker :
        worker[w].pc = "put" => Owns(w) /\ jobs[worker[w].job].lease = "live"

\* the run of w as w and as the others see it
OwnStep(w) == Work(w) \/ Requeue(w) \/ Fail(w)

LEMMA OwnSteps ==
    ASSUME TInv, NEW x \in Worker, OwnStep(x)
    PROVE  /\ worker[x].pc # "idle"
           /\ \A w \in Worker \ {x} : worker'[w] = worker[w]
           /\ UNCHANGED manifest \/ worker[x].pc = "put"
           /\ UNCHANGED jobs \/ Owns(x)
<1> USE DEF OwnStep, Work, database, storage
<1>1. \E run : RunBecomes(x, run)
  BY DEF LoadContext, PersistTargets, Inspect, Heartbeat, PutManifest, PersistArtifacts,
         Finalize, FinalizeRefused, Requeue, Fail, LosesClaim, Goes, Ends
<1>2. \A w \in Worker \ {x} : worker'[w] = worker[w]
  BY <1>1, RunBecomesRow
<1>3. worker[x].pc # "idle"
  BY DEF LoadContext, PersistTargets, Inspect, Heartbeat, PutManifest, PersistArtifacts,
         Finalize, FinalizeRefused, Requeue, Fail
<1>4. UNCHANGED manifest \/ worker[x].pc = "put"
  BY DEF LoadContext, PersistTargets, Inspect, Heartbeat, PutManifest, PersistArtifacts,
         Finalize, FinalizeRefused, Requeue, Fail
<1>5. UNCHANGED jobs \/ Owns(x)
  BY DEF LoadContext, PersistTargets, Inspect, Heartbeat, PutManifest, PersistArtifacts,
         Finalize, FinalizeRefused, Requeue, Fail
<1> QED
  BY <1>2, <1>3, <1>4, <1>5

\* Only a run in a storage write, and its owner, changes a manifest.
LEMMA ManifestSteps ==
    ASSUME TInv, WritersOwn, [Next]_vars
    PROVE  UNCHANGED manifest \/ \E x \in Worker : PutManifest(x) /\ Owns(x)
<1> USE DEF storage
<1>1. ASSUME NEW r \in Release,
             \/ CreateRelease(r)
             \/ PromoteRelease(r)
             \/ \E t \in Release : RollbackDeployment(r, t)
             \/ PatchRelease(r)
      PROVE  UNCHANGED manifest
  BY <1>1, RequestSteps DEF Requested
<1>2. ASSUME NEW w \in Worker, Work(w) \/ Requeue(w) \/ Fail(w), ~PutManifest(w)
      PROVE  UNCHANGED manifest
  BY <1>2 DEF Work, LoadContext, PersistTargets, Inspect, Heartbeat, PersistArtifacts,
              Finalize, FinalizeRefused, Requeue, Fail
<1>3. ASSUME NEW w \in Worker, NEW j \in Job, PickUp(w, j)
      PROVE  UNCHANGED manifest
  BY <1>3 DEF PickUp, ClaimRefused, DeadLetter, Claim
<1>4. CASE Sweep \/ Crash \/ (\E j \in Job : LeaseExpires(j)) \/ UNCHANGED vars
  BY <1>4 DEF Sweep, Crash, LeaseExpires, vars
<1>5. ASSUME NEW w \in Worker, PutManifest(w)
      PROVE  Owns(w)
  BY <1>5 DEF PutManifest, WritersOwn
<1> QED
  BY <1>1, <1>2, <1>3, <1>4, <1>5 DEF Next

\* What another run, a request, the sweep or the clock may do to the run that
\* owns the active job: nothing but take its job when the lease has run out.
LEMMA StepsOfOthers ==
    ASSUME TInv, OneActiveJob, ClaimsInv, WritersOwn, [Next]_vars,
           NEW w \in Worker, Owns(w)
    PROVE  LET j == worker[w].job IN
           \/ OwnStep(w)
           \/ Crash
           \/ /\ worker'[w] = worker[w]
              /\ UNCHANGED manifest
              /\ \/ jobs'[j] = jobs[j]
                 \/ LeaseExpires(j)
                 \/ jobs[j].lease = "expired" /\ ~Owns(w)'
<1> DEFINE j == worker[w].job
<1> USE DEF database, storage, memory
<1>j. /\ j \in Job /\ jobs[j] \in JobRow /\ jobs[j].status = "running" /\ Active(j)
      /\ worker[w].pc # "idle" /\ jobs \in [Job -> JobRow]
  BY OwnedJob DEF TInv, TypeOK
<1>1. ASSUME NEW r \in Release,
             \/ CreateRelease(r)
             \/ PromoteRelease(r)
             \/ \E t \in Release : RollbackDeployment(r, t)
             \/ PatchRelease(r)
      PROVE  FALSE
  <2>1. PICK s \in Release, b \in BOOLEAN : InsertJob(s, b)
    BY <1>1, RequestSteps DEF Requested
  <2> QED
    BY <1>j, <2>1 DEF InsertJob
<1>2. ASSUME NEW x \in Worker, OwnStep(x), x # w
      PROVE  /\ worker'[w] = worker[w]
             /\ UNCHANGED manifest
             /\ jobs'[j] = jobs[j]
  <2>1. ~Owns(x)
    BY <1>2, ExclusiveIfClaims DEF ExclusiveClaim
  <2> QED
    BY <1>2, <2>1, OwnSteps DEF WritersOwn
\* a job that is claimed or given up is this one, its lease having run out
<1>3. ASSUME NEW x \in Worker, NEW i \in Job, PickUp(x, i)
      PROVE  /\ worker'[w] = worker[w]
             /\ UNCHANGED manifest
             /\ jobs'[j] = jobs[j] \/ (jobs[j].lease = "expired" /\ ~Owns(w)')
  <2>1. x # w \/ UNCHANGED worker
    BY <1>j, <1>3 DEF PickUp, ClaimRefused, DeadLetter, Claim, PicksUp
  <2>2. worker'[w] = worker[w] /\ UNCHANGED manifest
    <3>1. UNCHANGED worker \/ \E run : RunBecomes(x, run)
      BY <1>3 DEF PickUp, ClaimRefused, DeadLetter, Claim
    <3>2. x # w => worker'[w] = worker[w]
      BY <3>1, RunBecomesRow
    <3> QED
      BY <1>3, <2>1, <3>2 DEF PickUp, ClaimRefused, DeadLetter, Claim
  <2>3. CASE ClaimRefused(x, i)
    BY <2>2, <2>3 DEF ClaimRefused
  <2>4. CASE Claim(x, i)
    <3>1. i = j /\ jobs[j].lease = "expired"
      BY <1>j, <2>4 DEF Claim, Claimable, Active, OneActiveJob
    <3>2. jobs'[j].gen = jobs[j].gen + 1 /\ jobs[j].gen \in Nat
      BY <1>j, <2>4, <3>1, ClaimEffect, ClaimedRow, JobRowFields
    <3>3. worker[w].gen = jobs[j].gen
      BY DEF Owns
    <3>4. ~Owns(w)'
      BY <2>2, <3>2, <3>3 DEF Owns
    <3> QED
      BY <2>2, <3>1, <3>4
  <2>5. CASE DeadLetter(x, i)
    <3>1. i = j /\ jobs[j].lease = "expired"
      BY <1>j, <2>5 DEF DeadLetter, Claimable, Active, OneActiveJob
    <3>2. jobs'[j].status = "dead_letter"
      BY <1>j, <2>5, <3>1, DeadLetterEffect, DeadLetteredRow
    <3>4. ~Owns(w)'
      BY <2>2, <3>2 DEF Owns
    <3> QED
      BY <2>2, <3>1, <3>4
  <2> QED
    BY <1>3, <2>3, <2>4, <2>5 DEF PickUp
<1>4. ASSUME NEW i \in Job, LeaseExpires(i)
      PROVE  /\ worker'[w] = worker[w]
             /\ UNCHANGED manifest
             /\ jobs'[j] = jobs[j] \/ LeaseExpires(j)
  <2>1. i = j
    BY <1>j, <1>4 DEF LeaseExpires, Active, OneActiveJob
  <2> QED
    BY <1>4, <2>1 DEF LeaseExpires
<1>5. CASE Sweep
  <2>1. UNCHANGED <<worker, manifest>>
    BY <1>5 DEF Sweep
  <2>2. CASE jobs'[j] = jobs[j]
    BY <2>1, <2>2
  <2>3. CASE jobs[j].lease = "expired" /\ jobs'[j].status = "queued"
    BY <2>1, <2>3 DEF Owns
  <2> QED
    BY <1>j, <1>5, <2>1, <2>2, <2>3, SweepKeeps
<1>6. CASE UNCHANGED vars
  BY <1>6 DEF vars
<1> QED
  BY <1>1, <1>2, <1>3, <1>4, <1>5, <1>6 DEF Next, OwnStep

\* The owner of a job had it before the step, unless it has just claimed it.
LEMMA OwnerStays ==
    ASSUME TInv, OneActiveJob, [Next]_vars,
           NEW w \in Worker, Owns(w)', worker'[w].pc # "claimed"
    PROVE  Owns(w) /\ Stays(w) /\ worker'[w].job = worker[w].job /\ Continues
<1> DEFINE i == worker[w].job
<1>j. jobs \in [Job -> JobRow]
  BY DEF TInv, TypeOK
<1>s. Stays(w)
  <2>1. ASSUME NEW j \in Job, Claim(w, j)
        PROVE  FALSE
    <3>1. worker'[w] = RunOf(j, jobs[j].gen + 1) /\ jobs[j].gen + 1 \in Nat
      BY <2>1, <1>j, ClaimEffect, JobRowFields
    <3> QED
      BY <3>1, RunOfJob
  <2> QED
    BY <2>1, RunsStay
<1>w. /\ worker[w].pc # "idle" /\ i \in Job
      /\ worker'[w].job = i /\ worker'[w].gen = worker[w].gen
      /\ worker[w].gen \in Nat /\ worker[w].gen <= jobs[i].gen
      /\ jobs'[i].status = "running" /\ jobs'[i].gen = worker[w].gen
      /\ jobs[i].gen \in Nat
  <2>1. worker[w].pc # "idle" /\ worker'[w].job = i /\ worker'[w].gen = worker[w].gen
    BY <1>s DEF Stays, Owns
  <2>2. i \in Job /\ worker[w].gen <= jobs[i].gen /\ worker[w].gen \in Nat
    BY <2>1, RunFields DEF TInv, TypeOK, RefsInv, RunsInv
  <2> QED
    BY <1>j, <2>1, <2>2, JobRowFields DEF Owns
\* a step that ends the active job's claim, or makes a new one, leaves no other
<1>o. ASSUME NEW j \in Job, jobs[j].status \in {"queued", "running"},
             \A k \in Job \ {j} : jobs'[k] = jobs[k],
             jobs'[j].status # "running" \/ jobs'[j].gen = jobs[j].gen + 1
      PROVE  FALSE
  <2>1. CASE i = j
    BY <1>o, <1>w, <2>1
  <2>2. CASE i # j
    BY <1>o, <1>w, <2>2 DEF OneActiveJob, Active
  <2> QED
    BY <2>1, <2>2
<1>1. ~Requested
  <2> SUFFICES ASSUME Requested
               PROVE  FALSE
    OBVIOUS
  <2>1. PICK s \in Release, b \in BOOLEAN : InsertJob(s, b)
    BY DEF Requested
  <2>2. \A k \in Job : jobs'[k].status # "running"
    BY <2>1, InsertJobEffect, QueuedForRow DEF Active
  <2> QED
    BY <1>w, <2>2
<1>2. ASSUME NEW x \in Worker, NEW j \in Job, Claim(x, j)
      PROVE  FALSE
  <2>1. jobs'[j].gen = jobs[j].gen + 1
    BY <1>2, <1>j, ClaimEffect, ClaimedRow
  <2> QED
    BY <1>2, <1>o, <2>1, ClaimEffect
<1>3. ASSUME NEW x \in Worker, NEW j \in Job, DeadLetter(x, j)
      PROVE  FALSE
  <2>1. jobs'[j].status # "running"
    BY <1>3, <1>j, DeadLetterEffect, DeadLetteredRow
  <2> QED
    BY <1>3, <1>o, <2>1, DeadLetterEffect
<1>4. ASSUME NEW x \in Worker, Finalize(x) \/ GivesBack(x) \/ FailsJob(x)
      PROVE  FALSE
  <2> DEFINE j == worker[x].job
  <2>1. Owns(x) /\ \/ JobBecomes(j, Succeeded(jobs[j]))
                   \/ JobBecomes(j, Requeued(jobs[j]))
                   \/ JobBecomes(j, Failed(jobs[j]))
    BY <1>4 DEF Finalize, GivesBack, FailsJob
  <2>2. /\ jobs'[j].status # "running"
        /\ \A k \in Job \ {j} : jobs'[k] = jobs[k]
    BY <1>j, <2>1, OwnedJob, SucceededRow, RequeuedRow, FailedRow DEF JobBecomes
  <2> QED
    BY <1>o, <2>1, <2>2, OwnedJob
<1>5. Continues
  BY <1>1, <1>3, <1>4, StepServes
<1>6. jobs[i].status = "running" /\ jobs[i].gen = worker[w].gen
  <2>1. CASE Quiet
    BY <1>w, <2>1 DEF Quiet, SameClaim
  <2>2. CASE Sweep
    BY <1>w, <2>2, SweepKeeps
  <2> QED
    BY <1>1, <1>2, <1>3, <1>4, <2>1, <2>2, StepKinds
<1>7. Owns(w)
  BY <1>w, <1>6, NoneIsNoRow DEF Owns
<1> QED
  BY <1>s, <1>w, <1>5, <1>7

LEMMA OwnerSeesThePresentNext ==
    ASSUME TInv, OneActiveJob, OwnerSeesThePresent, [Next]_vars
    PROVE  OwnerSeesThePresent'
<1> SUFFICES ASSUME NEW w \in Worker, Owns(w)', worker'[w].pc # "claimed"
             PROVE  /\ worker'[w].plan = DesiredManifest(worker[w].job)'
                    /\ worker'[w].bound = Resolved(jobs[worker[w].job].release)'
  BY DEF OwnerSeesThePresent
<1>j. PICK j : j = worker[w].job
  OBVIOUS
<1>r. PICK r : r = jobs[j].release
  OBVIOUS
<1>1. Owns(w) /\ Stays(w) /\ worker'[w].job = j /\ Continues
  BY <1>j, OwnerStays
<1>2. j \in Job /\ Active(j) /\ r \in Release
  BY <1>1, <1>j, <1>r, OwnedJob
<1>3. jobs'[j].release = r /\ Resolved(r)' = Resolved(r)
  <2>1. jobs'[j].release = r
    BY <1>1, <1>2, <1>r DEF Continues
  <2>2. Resolved(jobs[j].release)' = Resolved(jobs[j].release)
    BY <1>1, <1>2 DEF Continues
  <2> QED
    BY <2>1, <2>2, <1>r DEF Resolved
<1>4. DesiredManifest(j)' = DesiredManifest(j)
  BY <1>1, <1>2, <1>r, SameVersions
<1>5. DesiredManifest(worker[w].job)' = DesiredManifest(j)'
  BY <1>1 DEF DesiredManifest
<1>6. Resolved(jobs[worker[w].job].release)' = Resolved(r)'
  BY <1>1, <1>3 DEF Resolved
<1>7. CASE /\ worker'[w].plan = worker[w].plan
           /\ worker'[w].bound = worker[w].bound
           /\ worker[w].pc # "claimed"
  <2>1. worker[w].plan = DesiredManifest(j) /\ worker[w].bound = Resolved(r)
    BY <1>1, <1>7, <1>j, <1>r DEF OwnerSeesThePresent
  <2> QED
    BY <1>3, <1>4, <1>5, <1>6, <1>7, <2>1
<1>8. CASE worker'[w].plan = DesiredManifest(j) /\ worker'[w].bound = Resolved(r)
  BY <1>3, <1>4, <1>5, <1>6, <1>8
<1> QED
  BY <1>1, <1>2, <1>7, <1>8, <1>j, <1>r, NoneIsNoRow DEF Stays

-----------------------------------------------------------------------------
(* the manifests                                                            *)

PendingFor(w) ==
    LET bound == worker[w].bound IN
      IF bound = targets[jobs[worker[w].job].release] THEN {} ELSE bound

\* A run that holds its job has still to write what it has loaded; what it has
\* written, or found so, is as planned; and it has written all before it publishes.
OwnersWrite ==
    \A w \in Worker :
        LET run == worker[w]
            versions == ManifestVersions(run.job)
        IN  Owns(w) =>
              /\ run.pc \in {"loaded", "targeted"} => run.todo = versions
              /\ run.pc \in {"writing", "put", "publish", "final"} =>
                   /\ run.todo \subseteq versions
                   /\ \A v \in versions \ run.todo : manifest[v] = run.plan[v]
              /\ run.pc \in {"publish", "final"} => run.todo = {}
              /\ run.pc \in {"targeted", "writing", "put", "publish", "final"} =>
                   jobs[run.job].pending = PendingFor(w)

\* what a step does to the manifests, to the run and to its job
SamePlan(w) ==
    /\ worker'[w].job = worker[w].job
    /\ worker'[w].plan = worker[w].plan
    /\ worker'[w].bound = worker[w].bound

Advances(w, from, to) ==
    /\ worker[w].pc = from
    /\ worker'[w].pc = to
    /\ Owns(w)
    /\ SamePlan(w)
    /\ UNCHANGED manifest

Loads(w) ==
    /\ worker[w].pc = "claimed"
    /\ worker'[w].pc = "loaded"
    /\ worker'[w].job = worker[w].job
    /\ worker'[w].todo = ManifestVersions(worker[w].job)

Targets(w) ==
    /\ Advances(w, "loaded", "targeted")
    /\ worker'[w].todo = worker[w].todo
    /\ JobBecomes(worker[w].job, Targeted(jobs[worker[w].job], PendingFor(w)))

Inspects(w) ==
    /\ Advances(w, "targeted", "writing")
    /\ worker'[w].todo = {v \in worker[w].todo : manifest[v] # worker[w].plan[v]}
    /\ Renews(worker[w].job)

Writes(w) ==
    /\ worker[w].pc = "put"
    /\ worker'[w].pc = "writing"
    /\ SamePlan(w)
    /\ \E v \in worker[w].todo :
         /\ manifest' = [manifest EXCEPT ![v] = worker[w].plan[v]]
         /\ worker'[w].todo = worker[w].todo \ {v}
    /\ UNCHANGED jobs

Beats(w) ==
    /\ \/ Advances(w, "writing", "publish") /\ worker[w].todo = {}
       \/ Advances(w, "writing", "put")
       \/ Advances(w, "publish", "final")
    /\ worker'[w].todo = worker[w].todo
    /\ Renews(worker[w].job)

LEMMA RunGoes ==
    ASSUME TInv, NEW w \in Worker, NEW pc \in Step, Goes(w, pc)
    PROVE  /\ worker'[w].pc = pc
           /\ worker'[w].todo = worker[w].todo
           /\ SamePlan(w)
<1>1. worker[w] \in Run /\ worker'[w] = [worker[w] EXCEPT !.pc = pc]
  BY RunBecomesRow DEF Goes, TInv, TypeOK
<1> QED
  BY <1>1 DEF Run, SamePlan

LEMMA RunWrites ==
    ASSUME TInv, NEW w \in Worker, NEW todo \in SUBSET Version,
           RunBecomes(w, [worker[w] EXCEPT !.pc = "writing", !.todo = todo])
    PROVE  /\ worker'[w].pc = "writing"
           /\ worker'[w].todo = todo
           /\ SamePlan(w)
<1>1. worker[w] \in Run /\ worker'[w] = [worker[w] EXCEPT !.pc = "writing", !.todo = todo]
  BY RunBecomesRow DEF TInv, TypeOK
<1> QED
  BY <1>1 DEF Run, SamePlan

LEMMA OwnStepKinds ==
    ASSUME TInv, NEW w \in Worker, OwnStep(w), worker'[w].pc # "idle"
    PROVE  Loads(w) \/ Targets(w) \/ Inspects(w) \/ Writes(w) \/ Beats(w)
<1> USE DEF database, storage
<1> DEFINE j == worker[w].job
<1>r. worker[w] \in Run /\ worker \in [Worker -> Run]
  BY DEF TInv, TypeOK
<1>e. ~Ends(w)
  BY RunBecomesRow, RowTypes DEF Ends
<1>1. CASE LoadContext(w)
  <2> DEFINE bound == Resolved(jobs[j].release)
             plan == DesiredManifest(j)
             todo == ManifestVersions(j)
             source == StagedSource(jobs[j].release)
             loaded == [worker[w] EXCEPT !.pc = "loaded", !.bound = bound, !.plan = plan,
                                         !.todo = todo, !.source = source]
  <2>1. worker[w].pc = "claimed" /\ RunBecomes(w, loaded)
    BY <1>1 DEF LoadContext
  <2>2. loaded.pc = "loaded" /\ loaded.job = j /\ loaded.todo = todo
    <3> HIDE DEF bound, plan, todo, source
    <3> QED
      BY <1>r DEF Run
  <2> HIDE DEF loaded
  <2>3. worker'[w] = loaded
    BY <2>1, RunBecomesRow
  <2> QED
    BY <2>1, <2>2, <2>3 DEF Loads
<1>2. CASE PersistTargets(w)
  <2>1. /\ worker[w].pc = "loaded" /\ Owns(w) /\ Goes(w, "targeted")
        /\ JobBecomes(j, Targeted(jobs[j], PendingFor(w)))
        /\ UNCHANGED manifest
    BY <1>2, <1>e DEF PersistTargets, LosesClaim, PendingFor
  <2> QED
    BY <2>1, RunGoes DEF Targets, Advances, Step
<1>3. CASE Inspect(w)
  <2> DEFINE todo == {v \in worker[w].todo : manifest[v] # worker[w].plan[v]}
  <2>1. todo \in SUBSET Version
    BY <1>r, RunFields
  <2>2. /\ worker[w].pc = "targeted" /\ Owns(w) /\ Renews(j)
        /\ RunBecomes(w, [worker[w] EXCEPT !.pc = "writing", !.todo = todo])
        /\ UNCHANGED manifest
    BY <1>3, <1>e, <1>r DEF Inspect, LosesClaim, Run
  <2>3. worker'[w].pc = "writing" /\ worker'[w].todo = todo /\ SamePlan(w)
    <3> HIDE DEF todo
    <3> QED
      BY <2>1, <2>2, RunWrites
  <2> QED
    BY <2>2, <2>3 DEF Inspects, Advances
<1>4. CASE Heartbeat(w)
  <2>1. /\ worker[w].pc = "writing" /\ Owns(w) /\ Renews(j)
        /\ \/ Goes(w, "publish") /\ worker[w].todo = {}
           \/ Goes(w, "put")
        /\ UNCHANGED manifest
    BY <1>4, <1>e DEF Heartbeat, LosesClaim
  <2> QED
    BY <2>1, RunGoes DEF Beats, Advances, Step
<1>5. CASE PutManifest(w)
  <2>1. PICK v \in worker[w].todo :
          /\ manifest' = [manifest EXCEPT ![v] = worker[w].plan[v]]
          /\ RunBecomes(w, [worker[w] EXCEPT !.pc = "writing", !.todo = @ \ {v}])
    BY <1>5 DEF PutManifest
  <2>2. worker[w].todo \ {v} \in SUBSET Version
    BY <1>r, RunFields
  <2>3. RunBecomes(w, [worker[w] EXCEPT !.pc = "writing", !.todo = worker[w].todo \ {v}])
    BY <1>r, <2>1 DEF Run
  <2>4. worker[w].pc = "put" /\ UNCHANGED jobs
    BY <1>5 DEF PutManifest
  <2> QED
    BY <2>1, <2>2, <2>3, <2>4, RunWrites DEF Writes
<1>6. CASE PersistArtifacts(w)
  <2>1. /\ worker[w].pc = "publish" /\ Owns(w) /\ Renews(j) /\ Goes(w, "final")
        /\ UNCHANGED manifest
    BY <1>6, <1>e DEF PersistArtifacts, LosesClaim
  <2> QED
    BY <2>1, RunGoes DEF Beats, Advances, Step
<1>7. CASE Finalize(w) \/ FinalizeRefused(w) \/ Requeue(w) \/ Fail(w)
  BY <1>7, <1>e DEF Finalize, FinalizeRefused, Requeue, Fail, LosesClaim
<1> QED
  BY <1>1, <1>2, <1>3, <1>4, <1>5, <1>6, <1>7 DEF OwnStep, Work

LEMMA RenewsJob ==
    ASSUME TInv, NEW j \in Job, jobs[j].status # "absent", Renews(j)
    PROVE  /\ jobs'[j].status = jobs[j].status
           /\ jobs'[j].gen = jobs[j].gen
           /\ jobs'[j].lease = "live"
           /\ jobs'[j].pending = jobs[j].pending
           /\ jobs'[j].release = jobs[j].release
<1>1. jobs[j] \in JobRow
  BY DEF TInv, TypeOK
<1>2. jobs'[j] = Renewed(jobs[j])
  BY <1>1, RenewedRow, JobUpdate DEF Renews
<1> QED
  BY <1>1, <1>2, RenewedRow DEF Follows

LEMMA RunSteps ==
    ASSUME TInv, [Next]_vars, NEW w \in Worker
    PROVE  \/ OwnStep(w)
           \/ worker'[w].pc = "idle"
           \/ \E j \in Job : Claim(w, j)
           \/ worker'[w] = worker[w]
<1> USE DEF memory
<1>1. ASSUME NEW r \in Release,
             \/ CreateRelease(r)
             \/ PromoteRelease(r)
             \/ \E t \in Release : RollbackDeployment(r, t)
             \/ PatchRelease(r)
      PROVE  UNCHANGED worker
  BY <1>1, RequestSteps DEF Requested
<1>2. ASSUME NEW x \in Worker, NEW j \in Job, PickUp(x, j)
      PROVE  worker'[w] = worker[w] \/ Claim(w, j)
  BY <1>2, RunBecomesRow DEF PickUp, ClaimRefused, DeadLetter, Claim
<1>3. CASE Crash
  BY <1>3, RowTypes DEF Crash
<1>4. CASE Sweep \/ (\E j \in Job : LeaseExpires(j)) \/ UNCHANGED vars
  BY <1>4 DEF Sweep, LeaseExpires, vars
<1> QED
  BY <1>1, <1>2, <1>3, <1>4, OwnSteps DEF Next, OwnStep

LEMMA WritersOwnNext ==
    ASSUME TInv, OneActiveJob, ClaimsInv, WritersOwn, [Next]_vars
    PROVE  WritersOwn'
<1> SUFFICES ASSUME NEW w \in Worker, worker'[w].pc = "put"
             PROVE  Owns(w)' /\ jobs'[worker'[w].job].lease = "live"
  BY DEF WritersOwn
<1> DEFINE j == worker[w].job
<1>1. CASE OwnStep(w)
  <2>1. /\ Owns(w) /\ Renews(j)
        /\ worker'[w].job = j
    BY <1>1, OwnStepKinds
       DEF Loads, Targets, Inspects, Writes, Beats, Advances, SamePlan
  <2>2. worker'[w].gen = worker[w].gen
    <3>1. worker[w].pc # "idle" /\ j \in Job
      BY <2>1, OwnedJob
    <3>2. ASSUME NEW i \in Job, Claim(w, i)
          PROVE  FALSE
      BY <3>1, <3>2 DEF Claim, PicksUp
    <3> QED
      BY <2>1, <3>1, <3>2, RunsStay, NoneIsNoRow DEF Stays
  <2>3. j \in Job /\ jobs[j].status = "running"
    BY <2>1, OwnedJob
  <2> QED
    BY <2>1, <2>2, <2>3, RenewsJob DEF Owns
<1>2. ASSUME NEW i \in Job, Claim(w, i)
      PROVE  FALSE
  <2>1. worker'[w] = RunOf(i, jobs[i].gen + 1) /\ jobs[i].gen + 1 \in Nat
    BY <1>2, ClaimEffect, JobRowFields DEF TInv, TypeOK
  <2> QED
    BY <2>1, RunOfJob
<1>3. CASE worker'[w] = worker[w] /\ ~OwnStep(w)
  <2>1. Owns(w) /\ jobs[j].lease = "live" /\ worker[w].pc = "put"
    BY <1>3 DEF WritersOwn
  <2>2. ~LeaseExpires(j)
    BY <2>1 DEF LeaseExpires
  <2>3. ~Crash
    BY RowTypes DEF Crash
  <2>4. jobs'[j] = jobs[j]
    BY <1>3, <2>1, <2>2, <2>3, StepsOfOthers
  <2> QED
    BY <1>3, <2>1, <2>4 DEF Owns
<1> QED
  BY <1>1, <1>2, <1>3, RunSteps

LEMMA OwnersWriteNext ==
    ASSUME TInv, OneActiveJob, ClaimsInv, WritersOwn, OwnersWrite, [Next]_vars
    PROVE  OwnersWrite'
<1> SUFFICES ASSUME NEW w \in Worker, Owns(w)'
             PROVE  LET run == worker[w]
                        versions == ManifestVersions(run.job)
                    IN  (/\ run.pc \in {"loaded", "targeted"} => run.todo = versions
                         /\ run.pc \in {"writing", "put", "publish", "final"} =>
                              /\ run.todo \subseteq versions
                              /\ \A v \in versions \ run.todo : manifest[v] = run.plan[v]
                         /\ run.pc \in {"publish", "final"} => run.todo = {}
                         /\ run.pc \in {"targeted", "writing", "put", "publish", "final"} =>
                              jobs[run.job].pending = PendingFor(w))'
  BY DEF OwnersWrite
<1>c. CASE worker'[w].pc = "claimed"
  BY <1>c
<1>o. CASE worker'[w].pc # "claimed"
  <2>j. PICK j : j = worker[w].job
    OBVIOUS
  <2>v. PICK versions : versions = ManifestVersions(j)
    OBVIOUS
  <2>1. Owns(w) /\ Stays(w) /\ worker'[w].job = j /\ Continues
    BY <1>o, <2>j, OwnerStays
  <2>2. /\ j \in Job /\ jobs[j] \in JobRow /\ jobs[j].status = "running" /\ Active(j)
        /\ jobs[j].release \in Release /\ worker[w] \in Run
    BY <2>1, <2>j, OwnedJob
  <2>3. ManifestVersions(worker[w].job)' = versions
    <3>1. ManifestVersions(worker[w].job)' = ManifestVersions(j)'
      BY <2>1 DEF ManifestVersions
    <3> QED
      BY <2>1, <2>2, <2>v, <3>1, SameVersions
  <2>4. jobs'[j].release = jobs[j].release /\ UNCHANGED targets
    BY <2>1, <2>2 DEF Continues
  <2>5. worker'[w].bound = worker[w].bound => PendingFor(w)' = PendingFor(w)
    BY <2>1, <2>4, <2>j DEF PendingFor
  <2> DEFINE Goal(run, m, pending, due) ==
               /\ run.pc \in {"loaded", "targeted"} => run.todo = versions
               /\ run.pc \in {"writing", "put", "publish", "final"} =>
                    /\ run.todo \subseteq versions
                    /\ \A v \in versions \ run.todo : m[v] = run.plan[v]
               /\ run.pc \in {"publish", "final"} => run.todo = {}
               /\ run.pc \in {"targeted", "writing", "put", "publish", "final"} =>
                    pending = due
  <2>6. Goal(worker[w], manifest, jobs[j].pending, PendingFor(w))
    BY <2>1, <2>j, <2>v DEF OwnersWrite
  <2>7. SUFFICES Goal(worker'[w], manifest', jobs'[j].pending, PendingFor(w)')
    BY <2>1, <2>3
  <2>8. worker'[w].pc # "idle"
    BY <2>1, <2>2, NoneIsNoRow, TInvNext DEF TInv, RefsInv, RunsInv
  <2>9. CASE Loads(w)
    BY <2>9, <2>j, <2>v DEF Loads
  <2>10. CASE Targets(w)
    <3>1. PendingFor(w) \in SUBSET Version
      BY <2>2, RunFields DEF PendingFor
    <3>2. jobs'[j].pending = PendingFor(w)
      BY <2>2, <2>10, <2>j, <3>1, TargetedRow, JobUpdate DEF Targets
    <3> QED
      BY <2>5, <2>6, <2>10, <3>2 DEF Targets, Advances, SamePlan
  <2>11. CASE Inspects(w)
    <3>1. jobs'[j].pending = jobs[j].pending
      BY <2>2, <2>11, <2>j, RenewsJob DEF Inspects
    <3> QED
      BY <2>5, <2>6, <2>11, <3>1 DEF Inspects, Advances, SamePlan
  <2>12. CASE Writes(w)
    <3>1. /\ worker[w].pc = "put" /\ worker'[w].pc = "writing" /\ SamePlan(w)
          /\ jobs'[j].pending = jobs[j].pending
      BY <2>12 DEF Writes
    <3>2. PICK v \in worker[w].todo :
            /\ manifest' = [manifest EXCEPT ![v] = worker[w].plan[v]]
            /\ worker'[w].todo = worker[w].todo \ {v}
      BY <2>12 DEF Writes
    <3>3. v \in Version /\ manifest \in [Version -> Release \cup {None}]
      BY <2>2, RunFields DEF TInv, TypeOK
    <3>4. manifest'[v] = worker[w].plan[v] /\ \A u \in Version \ {v} : manifest'[u] = manifest[u]
      BY <3>2, <3>3
    <3>5. versions \subseteq Version
      BY <2>2, <2>v, PlanTypes
    <3> QED
      BY <2>5, <2>6, <3>1, <3>2, <3>4, <3>5 DEF SamePlan
  <2>13. CASE Beats(w)
    <3>1. jobs'[j].pending = jobs[j].pending
      BY <2>2, <2>13, <2>j, RenewsJob DEF Beats
    <3>2. PendingFor(w)' = PendingFor(w)
      BY <2>5, <2>13 DEF Beats, Advances, SamePlan
    <3> QED
      BY <2>6, <2>13, <3>1, <3>2 DEF Beats, Advances, SamePlan
  <2>14. CASE ~OwnStep(w)
    <3>1. ~Crash
      BY <2>8, RowTypes DEF Crash
    <3>2. worker'[w] = worker[w] /\ UNCHANGED manifest
      BY <2>1, <2>14, <3>1, StepsOfOthers
    <3>3. jobs'[j].pending = jobs[j].pending
      <4>1. CASE jobs'[j] = jobs[j]
        BY <4>1
      <4>2. CASE LeaseExpires(j)
        <5>1. JobBecomes(j, [jobs[j] EXCEPT !.lease = "expired"])
          BY <4>2 DEF LeaseExpires
        <5> QED
          BY <2>2, <5>1 DEF JobBecomes, JobRow, TInv, TypeOK
      <4> QED
        BY <2>1, <2>14, <2>j, <3>1, <4>1, <4>2, StepsOfOthers
    <3> QED
      BY <2>5, <2>6, <3>2, <3>3
  <2> QED
    BY <2>8, <2>9, <2>10, <2>11, <2>12, <2>13, <2>14, OwnStepKinds
<1> QED
  BY <1>c, <1>o

\* What the release that finalizeReleaseSuccess publishes, and every other, is
\* served to from now on is what the run has planned and written.
LEMMA FinalizePublishes ==
    ASSUME TInv, OwnersWrite, OwnerSeesThePresent, NEW w \in Worker, Finalize(w)
    PROVE  LET j == worker[w].job IN
           /\ Owns(w)
           /\ UNCHANGED manifest
           /\ jobs'[j].status = "succeeded"
           /\ \A i \in Job \ {j} : jobs'[i] = jobs[i]
           /\ \A v \in ManifestVersions(j) : manifest[v] = ServedRelease(v)'
           /\ \A v \in Version \ ManifestVersions(j) :
                ServedRelease(v) = None /\ ServedRelease(v)' = None
<1>j. PICK j : j = worker[w].job
  OBVIOUS
<1>r. PICK r : r = jobs[j].release
  OBVIOUS
<1>1. /\ worker[w].pc = "final" /\ Owns(w) /\ UNCHANGED <<inferred, manifest>>
      /\ JobBecomes(j, Succeeded(jobs[j]))
      /\ targets' = [targets EXCEPT ![r] = IF jobs[j].pending = {} THEN @
                                           ELSE jobs[j].pending]
      /\ ReleaseBecomes(r, Finished(releases[r], jobs[j].enables))
  BY <1>j, <1>r DEF Finalize
<1>2. /\ j \in Job /\ jobs[j] \in JobRow /\ jobs[j].status = "running"
      /\ r \in Release /\ Status(r) # "absent" /\ releases[r] \in ReleaseRow
      /\ releases[r].version \in Version
  BY <1>1, <1>j, <1>r, OwnedJob DEF TInv, TypeOK, RefsInv, VersionsInv
<1>3. jobs'[j].status = "succeeded" /\ \A i \in Job \ {j} : jobs'[i] = jobs[i]
  BY <1>1, <1>2, SucceededRow, JobUpdate
<1>4. /\ worker[w].todo = {}
      /\ \A v \in ManifestVersions(j) : manifest[v] = DesiredManifest(j)[v]
      /\ jobs[j].pending = IF Resolved(r) = targets[r] THEN {} ELSE Resolved(r)
  <2>1. worker[w].plan = DesiredManifest(j) /\ worker[w].bound = Resolved(r)
    BY <1>1, <1>j, <1>r DEF OwnerSeesThePresent
  <2> QED
    BY <1>1, <1>j, <1>r, <2>1 DEF OwnersWrite, PendingFor
<1>5. targets'[r] = Resolved(r) /\ \A s \in Release \ {r} : targets'[s] = targets[s]
  <2>1. targets \in [Release -> SUBSET Version]
    BY DEF TInv, TypeOK
  <2>2. Resolved(r) # {}
    BY DEF Resolved
  <2> QED
    BY <1>1, <1>2, <1>4, <2>1, <2>2
<1>6. \A s \in Release : s \in Effective(j) <=> releases'[s].status = "published"
  <2>1. \A s \in Release \ {r} : releases'[s] = releases[s]
    BY <1>1, <1>2, FinishedKeeps, JobRowFields
  <2>2. releases'[r].status = "published" <=> ServesCurrent(j)
    <3>1. releases'[r] = Finished(releases[r], jobs[j].enables)
      BY <1>1, <1>2 DEF ReleaseBecomes, TInv, TypeOK
    <3>2. Finished(releases[r], jobs[j].enables).status =
            IF \/ releases[r].status \in {"uploaded", "processing"}
               \/ releases[r].status = "disabled" /\ jobs[j].enables
            THEN "published" ELSE releases[r].status
      BY <1>2 DEF Finished, ReleaseRow
    <3> QED
      BY <1>r, <3>1, <3>2 DEF ServesCurrent, Status
  <2> QED
    BY <1>2, <1>r, <2>1, <2>2 DEF Effective, Status
<1> DEFINE to(v) == {s \in Effective(j) : v \in ServedTo(s, j)}
           served1(v) == {s \in Release : releases'[s].status = "published" /\ v \in targets'[s]}
           served(v) == {s \in Release : releases[s].status = "published" /\ v \in targets[s]}
<1>7. \A v : served1(v) = to(v)
  BY <1>r, <1>5, <1>6 DEF ServedTo, Effective
<1>8. \A v : ServedRelease(v)' = Newest(served1(v))
  BY DEF ServedRelease, Newest, Status
<1>9. \A v : ServedRelease(v) = Newest(served(v))
  BY DEF ServedRelease, Status
<1>10. \A v \in Version : DesiredManifest(j)[v] = Newest(to(v))
  BY DEF DesiredManifest
<1>11. \A v \in Version \ ManifestVersions(j) : to(v) = {} /\ served(v) = {}
  <2> SUFFICES ASSUME NEW v \in Version, v \notin ManifestVersions(j)
               PROVE  to(v) = {} /\ served(v) = {}
    OBVIOUS
  <2>1. to(v) = {} /\ v \notin targets[r]
    BY <1>r DEF ManifestVersions
  <2>2. ASSUME NEW s \in served(v)
        PROVE  FALSE
    <3>1. s # r /\ s \in Release /\ Status(s) = "published" /\ v \in targets[s]
      BY <2>1 DEF Status
    <3>2. s \in Effective(j) /\ v \in ServedTo(s, j)
      BY <1>r, <3>1 DEF Effective, ServedTo
    <3> QED
      BY <2>1, <3>2
  <2> QED
    BY <2>1, <2>2
<1>12. ManifestVersions(j) \subseteq Version
  BY <1>2, PlanTypes
<1> HIDE DEF to, served, served1
<1>13. \A v \in ManifestVersions(j) : manifest[v] = ServedRelease(v)'
  BY <1>4, <1>7, <1>8, <1>10, <1>12
<1>14. \A v \in Version \ ManifestVersions(j) :
         ServedRelease(v) = None /\ ServedRelease(v)' = None
  BY <1>7, <1>8, <1>9, <1>11 DEF Newest
<1> QED
  BY <1>1, <1>3, <1>13, <1>14, <1>j

\* Some job has failed or been given up.
Disturbed == \E j \in Job : jobs[j].status \in {"failed", "dead_letter"}

\* As long as no job has failed, the versions an active job has no part in are as
\* the job before it left them.
OthersAreCurrent ==
    ~Disturbed =>
        \A v \in Version :
            \/ \E j \in Job : Active(j) /\ v \in ManifestVersions(j)
            \/ manifest[v] = ServedRelease(v)

\* The first promise of ServedIsCurrent.
LatestIsServed ==
    LatestJobSucceeded =>
        \A v \in Version : ServedRelease(v) # None => manifest[v] = ServedRelease(v)

\* a job that fails, or is given up, was the active one
LEMMA FailingStep ==
    ASSUME TInv,
           \/ \E w \in Worker : FailsJob(w)
           \/ \E w \in Worker, j \in Job : DeadLetter(w, j)
    PROVE  \E j \in Job :
             /\ Active(j) /\ jobs'[j].status \in {"failed", "dead_letter"}
             /\ \A i \in Job \ {j} : jobs'[i] = jobs[i]
<1>1. ASSUME NEW w \in Worker, FailsJob(w)
      PROVE  LET j == worker[w].job IN
             /\ j \in Job /\ Active(j) /\ jobs'[j].status = "failed"
             /\ \A i \in Job \ {j} : jobs'[i] = jobs[i]
  <2> DEFINE j == worker[w].job
  <2>1. Owns(w) /\ JobBecomes(j, Failed(jobs[j]))
    BY <1>1 DEF FailsJob
  <2>2. j \in Job /\ jobs[j] \in JobRow /\ jobs[j].status # "absent" /\ Active(j)
    BY <2>1, OwnedJob
  <2> QED
    BY <2>1, <2>2, FailedRow, JobUpdate
<1>2. ASSUME NEW w \in Worker, NEW j \in Job, DeadLetter(w, j)
      PROVE  /\ Active(j) /\ jobs'[j].status = "dead_letter"
             /\ \A i \in Job \ {j} : jobs'[i] = jobs[i]
  <2>1. jobs[j] \in JobRow
    BY DEF TInv, TypeOK
  <2> QED
    BY <1>2, <2>1, DeadLetterEffect, DeadLetteredRow DEF Active
<1> QED
  BY <1>1, <1>2

LEMMA LatestIsServedNext ==
    ASSUME TInv, OneActiveJob, Ordered, WritersOwn, OwnersWrite, OwnerSeesThePresent,
           LatestIsServed, [Next]_vars
    PROVE  LatestIsServed'
<1> SUFFICES ASSUME LatestJobSucceeded', NEW v \in Version
             PROVE  ServedRelease(v)' # None => manifest'[v] = ServedRelease(v)'
  BY DEF LatestIsServed, ServedRelease, Newest, Status
<1>l. ASSUME NEW j \in Job, jobs'[j].status # "absent", jobs'[j].status # "succeeded",
             \A i \in Job : i > j => jobs'[i].status = "absent"
      PROVE  FALSE
  BY <1>l DEF LatestJobSucceeded
\* the job a request inserts is the latest, and queued
<1>1. CASE Requested
  <2>1. PICK r \in Release, b \in BOOLEAN : InsertJob(r, b)
    BY <1>1 DEF Requested
  <2>2. PICK k \in Job :
          /\ jobs[k].status = "absent"
          /\ jobs'[k] = QueuedFor(r, b)
          /\ \A i \in Job \ {k} : jobs'[i] = jobs[i]
    BY <2>1, InsertJobEffect
  <2>3. jobs'[k].status = "queued"
    BY <2>2, QueuedForRow
  <2>4. \A i \in Job : i > k => jobs'[i].status = "absent"
    BY <2>2 DEF Ordered, Job
  <2> QED
    BY <1>l, <2>3, <2>4
<1>2. ASSUME NEW w \in Worker, Finalize(w)
      PROVE  ServedRelease(v)' # None => manifest'[v] = ServedRelease(v)'
  BY <1>2, FinalizePublishes
<1>3. CASE \/ \E w \in Worker : FailsJob(w)
           \/ \E w \in Worker, j \in Job : DeadLetter(w, j)
  <2>1. PICK j \in Job : /\ Active(j) /\ jobs'[j].status \in {"failed", "dead_letter"}
                         /\ \A i \in Job \ {j} : jobs'[i] = jobs[i]
    BY <1>3, FailingStep
  <2>2. \A i \in Job : i > j => jobs'[i].status = "absent"
    BY <2>1, ActiveIsLatest DEF Job
  <2> QED
    BY <1>l, <2>1, <2>2
\* otherwise no job is active, and the manifests are as they were
<1>4. CASE Continues
  <2>1. \A j \in Job : ~Active(j)
    <3> SUFFICES ASSUME NEW j \in Job, Active(j)
                 PROVE  FALSE
      OBVIOUS
    <3>1. jobs'[j].status \in {"queued", "running"}
      BY <1>4 DEF Continues, Active
    <3>2. \A i \in Job : i > j => jobs[i].status = "absent"
      BY ActiveIsLatest
    <3>3. \A i \in Job : i > j => jobs'[i].status = "absent"
      BY <1>4, <3>2 DEF Continues, Active
    <3> QED
      BY <1>l, <3>1, <3>3
  <2>2. \A j \in Job : jobs'[j].status = jobs[j].status
    BY <1>4, <2>1 DEF Continues
  <2>3. LatestJobSucceeded
    BY <2>2 DEF LatestJobSucceeded
  <2>4. UNCHANGED manifest
    BY <2>1, ManifestSteps, OwnedJob
  <2> QED
    BY <1>4, <2>3, <2>4, SameServed DEF LatestIsServed
<1> QED
  BY <1>1, <1>2, <1>3, <1>4, StepServes

LEMMA OthersAreCurrentNext ==
    ASSUME TInv, OneActiveJob, ClaimsInv, WritersOwn, OwnersWrite, OwnerSeesThePresent,
           OthersAreCurrent, [Next]_vars
    PROVE  OthersAreCurrent'
<1> SUFFICES ASSUME ~Disturbed', NEW v \in Version
             PROVE  \/ \E j \in Job : Active(j)' /\ v \in ManifestVersions(j)'
                    \/ manifest'[v] = ServedRelease(v)'
  BY DEF OthersAreCurrent, ServedRelease, Newest, Status
<1>r. \A j \in Job : Active(j) => jobs[j].release \in Release
  BY DEF Active, TInv, RefsInv, JobsInv
<1>u. ASSUME \A j \in Job : jobs[j].status = jobs'[j].status \/ Active(j)
      PROVE  \/ \E j \in Job : Active(j) /\ v \in ManifestVersions(j)
             \/ manifest[v] = ServedRelease(v)
  BY <1>u DEF OthersAreCurrent, Disturbed, Active
\* the inserted job has a part in every version its release is served to
<1>1. CASE Requested
  <2>1. PICK r \in Release, b \in BOOLEAN, row \in ReleaseRow :
          /\ InsertJob(r, b)
          /\ ReleaseBecomes(r, row)
          /\ UNCHANGED <<targets, manifest>>
    BY <1>1 DEF Requested
  <2>2. PICK k \in Job :
          /\ jobs[k].status = "absent"
          /\ jobs'[k] = QueuedFor(r, b)
          /\ \A i \in Job \ {k} : jobs'[i] = jobs[i]
    BY <2>1, InsertJobEffect
  <2>3. jobs'[k].status = "queued" /\ jobs'[k].release = r
    BY <2>2, QueuedForRow
  <2>4. manifest[v] = ServedRelease(v)
    BY <2>1, <2>2, <2>3 DEF OthersAreCurrent, Disturbed, InsertJob
  <2>5. CASE v \in targets[r]
    <3>1. v \in ManifestVersions(k)'
      BY <2>1, <2>3, <2>5 DEF ManifestVersions
    <3> QED
      BY <2>3, <3>1 DEF Active
  <2>6. CASE v \notin targets[r]
    <3> DEFINE served  == {s \in Release : releases[s].status = "published" /\ v \in targets[s]}
               served1 == {s \in Release : releases'[s].status = "published" /\ v \in targets'[s]}
    <3>1. \A s \in Release \ {r} : releases'[s] = releases[s]
      BY <2>1, ReleaseUpdate
    <3>2. served1 = served
      BY <2>1, <2>6, <3>1
    <3>3. ServedRelease(v) = Newest(served) /\ ServedRelease(v)' = Newest(served1)
      BY DEF ServedRelease, Newest, Status
    <3> QED
      BY <2>1, <2>4, <3>2, <3>3
  <2> QED
    BY <2>5, <2>6
<1>2. ASSUME NEW w \in Worker, Finalize(w)
      PROVE  manifest'[v] = ServedRelease(v)'
  <2> DEFINE j == worker[w].job
  <2>1. /\ j \in Job /\ Active(j) /\ UNCHANGED manifest
        /\ \A i \in Job \ {j} : jobs'[i] = jobs[i]
    BY <1>2, FinalizePublishes, OwnedJob
  <2>2. CASE v \in ManifestVersions(j)
    BY <1>2, <2>1, <2>2, FinalizePublishes
  <2>3. CASE v \notin ManifestVersions(j)
    <3>1. manifest[v] = ServedRelease(v)
      BY <1>u, <2>1, <2>3 DEF OneActiveJob
    <3> QED
      BY <1>2, <2>1, <2>3, <3>1, FinalizePublishes
  <2> QED
    BY <2>2, <2>3
<1>3. CASE \/ \E w \in Worker : FailsJob(w)
           \/ \E w \in Worker, j \in Job : DeadLetter(w, j)
  BY <1>3, FailingStep DEF Disturbed
<1>4. CASE Continues
  <2>1. \/ \E j \in Job : Active(j) /\ v \in ManifestVersions(j)
        \/ manifest[v] = ServedRelease(v)
    BY <1>4, <1>u DEF Continues
  <2>2. ASSUME NEW j \in Job, Active(j), v \in ManifestVersions(j)
        PROVE  Active(j)' /\ v \in ManifestVersions(j)'
    <3>1. Active(j)'
      BY <1>4, <2>2 DEF Continues, Active
    <3> QED
      BY <1>4, <1>r, <2>2, <3>1, SameVersions
  \* an owner writes only its job's manifests
  <2>3. CASE manifest[v] = ServedRelease(v)
    <3>1. CASE manifest'[v] = manifest[v]
      BY <1>4, <2>3, <3>1, SameServed
    <3>2. ASSUME NEW x \in Worker, PutManifest(x), Owns(x), manifest'[v] # manifest[v]
          PROVE  /\ worker[x].job \in Job /\ Active(worker[x].job)
                 /\ v \in ManifestVersions(worker[x].job)
      <4>1. worker[x].todo \subseteq ManifestVersions(worker[x].job)
        BY <3>2 DEF OwnersWrite, PutManifest
      <4>2. v \in worker[x].todo
        BY <3>2 DEF PutManifest, TInv, TypeOK
      <4> QED
        BY <3>2, <4>1, <4>2, OwnedJob
    <3> QED
      BY <2>2, <3>1, <3>2, ManifestSteps
  <2> QED
    BY <2>1, <2>2, <2>3
<1> QED
  BY <1>1, <1>2, <1>3, <1>4, StepServes

-----------------------------------------------------------------------------
(* the invariant and what follows from it                                   *)

ManifestsInv ==
    /\ Ordered
    /\ WritersOwn
    /\ OwnersWrite
    /\ LatestIsServed
    /\ OthersAreCurrent

Inv ==
    /\ TInv
    /\ OneActiveJob
    /\ NoStrandedRelease
    /\ AttemptBudget
    /\ ClaimsInv
    /\ FinalInv
    /\ PublishedIsReusable
    /\ OwnerSeesThePresent
    /\ ManifestsInv

LEMMA InvInit == Init => Inv
<1> SUFFICES ASSUME Init
             PROVE  Inv
  OBVIOUS
<1>1. TInv
  BY TInvInit
<1>2. /\ \A j \in Job : jobs[j].status = "absent" /\ jobs[j].attempts = 0
      /\ \A r \in Release : releases[r].status = "absent"
      /\ \A w \in Worker : worker[w].pc = "idle" /\ worker[w].job = None
  BY RowTypes DEF Init, NoJob, NoRelease, NoRun
<1>3. OneActiveJob
  BY <1>2 DEF OneActiveJob, Active
<1>4. NoStrandedRelease
  BY <1>2 DEF NoStrandedRelease, Processing, Status
<1>5. AttemptBudget
  BY <1>2, PublishAssumption DEF AttemptBudget
<1>6. ClaimsInv /\ FinalInv
  BY <1>2 DEF ClaimsInv, FinalInv
<1>7. PublishedIsReusable
  BY <1>2 DEF PublishedIsReusable, Status
<1>8. OwnerSeesThePresent
  BY <1>2 DEF OwnerSeesThePresent, Owns
<1>9. Ordered /\ WritersOwn /\ OwnersWrite
  BY <1>2 DEF Ordered, WritersOwn, OwnersWrite, Owns
<1>10. \A v \in Version : manifest[v] = None /\ ServedRelease(v) = None
  <2>1. \A v \in Version : {r \in Release : Status(r) = "published" /\ v \in targets[r]} = {}
    BY <1>2 DEF Status
  <2>2. \A v \in Version : ServedRelease(v) = None
    BY <2>1 DEF ServedRelease, Newest
  <2>3. \A v \in Version : manifest[v] = None
    BY DEF Init
  <2> QED
    BY <2>2, <2>3
<1>11. LatestIsServed /\ OthersAreCurrent
  BY <1>10 DEF LatestIsServed, OthersAreCurrent
<1> QED
  BY <1>1, <1>3, <1>4, <1>5, <1>6, <1>7, <1>8, <1>9, <1>11 DEF Inv, ManifestsInv

LEMMA InvNext == Inv /\ [Next]_vars => Inv'
<1> SUFFICES ASSUME Inv, [Next]_vars
             PROVE  Inv'
  OBVIOUS
<1>1. TInv' /\ OneActiveJob' /\ AttemptBudget'
  BY TInvNext, OneActiveJobNext, AttemptBudgetNext DEF Inv
<1>2. NoStrandedRelease'
  BY NoStrandedNext DEF Inv
<1>3. ClaimsInv' /\ FinalInv'
  BY ClaimsInvNext, FinalInvNext DEF Inv
<1>4. PublishedIsReusable'
  BY PublishedIsReusableNext DEF Inv
<1>5. OwnerSeesThePresent'
  BY OwnerSeesThePresentNext DEF Inv
<1>6. Ordered' /\ WritersOwn' /\ OwnersWrite'
  BY OrderedNext, WritersOwnNext, OwnersWriteNext DEF Inv, ManifestsInv
<1>7. LatestIsServed' /\ OthersAreCurrent'
  BY LatestIsServedNext, OthersAreCurrentNext DEF Inv, ManifestsInv
<1> QED
  BY <1>1, <1>2, <1>3, <1>4, <1>5, <1>6, <1>7 DEF Inv, ManifestsInv

LEMMA InvHolds == Spec => []Inv
BY InvInit, InvNext, PTL DEF Spec

\* Inserts, requeues and sweeps never give the deployment two active jobs
\* (findActiveDeploymentJob before every INSERT of a release_job).
THEOREM OneActiveJobHolds == Spec => []OneActiveJob
<1>1. Inv => OneActiveJob
  BY DEF Inv
<1> QED
  BY <1>1, InvHolds, PTL

\* A release that is uploaded or processing always has a queued or running job
\* that will publish or fail it (claimReleaseJob, finalizeReleaseFailure).
THEOREM NoStrandedReleaseHolds == Spec => []NoStrandedRelease
<1>1. Inv => NoStrandedRelease
  BY DEF Inv
<1> QED
  BY <1>1, InvHolds, PTL

\* A job is claimed max_total_attempts times at most, and given up as a dead
\* letter only after all of them (claimReleaseJob).
THEOREM AttemptBudgetHolds == Spec => []AttemptBudget
<1>1. Inv => AttemptBudget
  BY DEF Inv
<1> QED
  BY <1>1, InvHolds, PTL

\* At most one run holds a running job's claim (claim_generation).
THEOREM ExclusiveClaimHolds == Spec => []ExclusiveClaim
<1>1. Inv => ExclusiveClaim
  BY ExclusiveIfClaims DEF Inv
<1> QED
  BY <1>1, InvHolds, PTL

\* A published release has its artifact rows, although persistPublishedArtifacts
\* is guarded by no claim and runs die between it and finalizeReleaseSuccess.
THEOREM PublishedIsReusableHolds == Spec => []PublishedIsReusable
<1>1. Inv => PublishedIsReusable
  BY DEF Inv
<1> QED
  BY <1>1, InvHolds, PTL

\* What loadReconcileContext read is what it would read now, for the run that
\* holds the claim: nothing it depends on is changed but by that run.
THEOREM OwnerSeesThePresentHolds == Spec => []OwnerSeesThePresent
<1>1. Inv => OwnerSeesThePresent
  BY DEF Inv
<1> QED
  BY <1>1, InvHolds, PTL

\* When the latest job has succeeded, every manifest offers the newest published
\* release of its version; and none is left where no release is served, as long
\* as no job has failed (storage.put of the reconciler, which no claim guards).
THEOREM ServedIsCurrentHolds == Spec => []ServedIsCurrent
<1>1. Inv => ServedIsCurrent
  <2> SUFFICES ASSUME Inv
               PROVE  ServedIsCurrent
    OBVIOUS
  <2>1. LatestJobSucceeded =>
          \A v \in Version : ServedRelease(v) # None => manifest[v] = ServedRelease(v)
    BY DEF Inv, ManifestsInv, LatestIsServed
  <2>2. (\A j \in Job : jobs[j].status \in {"absent", "succeeded"}) =>
          \A v \in Version : manifest[v] = ServedRelease(v)
    BY DEF Inv, ManifestsInv, OthersAreCurrent, Disturbed, Active
  <2> QED
    BY <2>1, <2>2 DEF ServedIsCurrent
<1> QED
  BY <1>1, InvHolds, PTL

================================================================================
