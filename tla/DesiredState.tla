----------------------------- MODULE DesiredState -----------------------------
(***************************************************************************)
(* The manifests of a deployment as devices see them (server/src/worker,   *)
(* client/src): the server writes one manifest for every package a binary  *)
(* version is known to run and a fallback for all others; a device fetches *)
(* the one of its package, or the fallback when there is none, and follows *)
(* it.                                                                     *)
(*                                                                         *)
(* ReleaseJob shows that the run holding a job acts on the present         *)
(* database, so one run at a time is modelled, and what it loaded is read  *)
(* where it is used.  A run is cut at every storage write; it may start    *)
(* over or be given up between any two.  Devices do not influence each     *)
(* other or the server: one of them, any, is modelled.                     *)
(***************************************************************************)
EXTENDS Integers

CONSTANTS
    Version,      \* binary versions of the app
    Hash,         \* package hashes
    Fingerprint,  \* native fingerprints of releases
    None,         \* no release, package, fingerprint: the embedded bundle
    Rollouts,     \* bound: rollouts asked for, partial (TRUE) or whole (FALSE)
    MaxReleases,  \* bound: releases of the deployment
    MaxJobs       \* bound: jobs of the deployment

ManifestAssumption ==
    /\ MaxReleases \in Nat
    /\ MaxJobs \in Nat
    /\ Rollouts \subseteq BOOLEAN
    /\ None \notin Nat \cup Hash \cup Fingerprint

VARIABLES
    releases,   \* release rows
    targets,    \* binary versions of a release's latest active release_targets
    inferred,   \* binary_version_fingerprint
    job,        \* the deployment's latest job, and how many came before it
    bundles,    \* storage: public bundles, by version and package
    manifests,  \* storage: manifests, by version and running package
    device,     \* one device: the package it runs, and its binary version if that is one
    history     \* what the deployment has seen: a job given up, a release retargeted

vars == <<releases, targets, inferred, job, bundles, manifests, device, history>>

Release == 1 .. MaxReleases
Package == Hash \cup {None}

ReleaseRow ==
    [status  : {"absent", "uploaded", "processing", "published", "disabled", "failed"},
     hash    : Package,                     \* target_package_hash
     partial : BOOLEAN,                     \* rollout_percentage < 100
     version : Version \cup {None},         \* target_binary_version
     fp      : Fingerprint \cup {None}]

JobRow ==
    [number  : 0 .. MaxJobs,
     release : Release \cup {None},
     enables : BOOLEAN,                     \* trigger_type is release_enabled
     step    : {"queued", "claimed", "bundles", "manifests", "succeeded", "given_up"},
     bound   : SUBSET Version]              \* its pending release_targets

\* A manifest: the release it offers, or the embedded bundle, whether that is
\* rolled out partially, and the release of previous_package_info.
Manifest == [target : Release \cup {None}, partial : BOOLEAN, previous : Release \cup {None}]
NotFound == [target |-> None, partial |-> TRUE, previous |-> None]

NoRelease == [status |-> "absent", hash |-> None, partial |-> FALSE, version |-> None,
              fp |-> None]

Init ==
    /\ releases = [r \in Release |-> NoRelease]
    /\ targets = [r \in Release |-> {}]
    /\ inferred = [v \in Version |-> None]
    /\ job = [number |-> 0, release |-> None, enables |-> FALSE, step |-> "succeeded",
              bound |-> {}]
    /\ bundles = {}
    /\ manifests = [v \in Version |-> [p \in Package |-> NotFound]]
    /\ device = [version |-> None, package |-> None]
    /\ history = {}

-----------------------------------------------------------------------------
(* requests                                                                 *)

AtRest == job.step \in {"succeeded", "given_up"}

\* A job is inserted only when the deployment has no active one.
InsertJob(r, enables) ==
    /\ AtRest
    /\ job.number < MaxJobs
    /\ job' = [number |-> job.number + 1, release |-> r, enables |-> enables,
               step |-> "queued", bound |-> {}]

Published(r) == releases[r].status = "published"

\* createRelease, promoteRelease and rollbackDeployment: any package, also one of
\* an earlier release, refused while a release is rolled out partially
CreateRelease(r) ==
    /\ releases[r].status = "absent"
    /\ \A s \in 1 .. (r - 1) : releases[s].status # "absent"
    /\ ~\E s \in Release : Published(s) /\ releases[s].partial
    /\ InsertJob(r, FALSE)
    /\ \E status \in {"uploaded", "disabled"}, h \in Hash, partial \in Rollouts,
          v \in Version, f \in Fingerprint \cup {None} :
         releases' = [releases EXCEPT ![r] =
             [status |-> status, hash |-> h, partial |-> partial, version |-> v, fp |-> f]]
    /\ UNCHANGED <<targets, inferred, bundles, manifests, device, history>>

\* patchRelease: disable at once, enable through the job, retarget, or raise the
\* rollout
PatchRelease(r) ==
    /\ releases[r].status \in {"published", "disabled"}
    /\ \E status \in {"published", "disabled"}, v \in Version, partial \in BOOLEAN :
         /\ partial => releases[r].partial
         /\ InsertJob(r, status = "published" /\ ~Published(r))
         /\ releases' = [releases EXCEPT ![r].version = v, ![r].partial = partial,
                             ![r].status = IF status = "disabled" THEN "disabled" ELSE @]
         /\ history' = IF v = releases[r].version THEN history ELSE history \cup {"retargeted"}
    /\ UNCHANGED <<targets, inferred, bundles, manifests, device>>

-----------------------------------------------------------------------------
(* computeDesiredState for the job                                          *)

\* resolveReconcileTargets: the explicit version and those of its fingerprint
Resolved(r) ==
    {releases[r].version}
        \cup {v \in Version : inferred[v] # None /\ inferred[v] = releases[r].fp}

\* buildEffectivePublishedReleases, with shouldServeCurrentRelease
Effective ==
    {s \in Release :
        IF s # job.release THEN Published(s)
        ELSE \/ releases[s].status \in {"uploaded", "processing", "published"}
             \/ job.enables /\ releases[s].status = "disabled"}

ServedTo(s) == IF s = job.release THEN Resolved(s) ELSE targets[s]

\* getEffectiveChainReleases
Chain(v) == {s \in Effective : v \in ServedTo(s)}

ManifestVersions == {v \in Version : Chain(v) # {}} \cup targets[job.release]

\* faulty variant: a disabled release's devices are forgotten
KnownHashesOfPublished(v) ==
    {releases[s].hash : s \in {s \in Release : Published(s) /\ v \in targets[s]}}
        \cup (IF v \in Resolved(job.release) THEN {releases[job.release].hash} ELSE {})

\* The packages of published and disabled releases that have v as a target
Historical(v) ==
    {releases[s].hash : s \in {s \in Release : /\ releases[s].status \in {"published", "disabled"}
                                               /\ v \in targets[s]}}

\* buildKnownHashSet
KnownHashes(v) ==
    Historical(v)
        \cup (IF v \in Resolved(job.release) THEN {releases[job.release].hash} ELSE {})

Newest(S) == IF S = {} THEN None ELSE CHOOSE r \in S : \A s \in S : s <= r

\* buildManifestContent: the newest of the chain, and its predecessor
ManifestOf(chain) ==
    LET latest == Newest(chain) IN
      IF latest = None THEN [target |-> None, partial |-> FALSE, previous |-> None]
      ELSE [target |-> latest, partial |-> releases[latest].partial,
            previous |-> Newest(chain \ {latest})]

\* diffPlan's stale manifests: those that are not as desired, the fallback included
Stale ==
    {key \in ManifestVersions \X Package :
        /\ key[2] \in KnownHashes(key[1]) \cup {None}
        /\ manifests[key[1]][key[2]] # ManifestOf(Chain(key[1]))}

-----------------------------------------------------------------------------
(* the job's run                                                            *)

Goes(step) == job' = [job EXCEPT !.step = step]

Claim ==
    LET r == job.release IN
      /\ job.step = "queued"
      /\ Goes("claimed")
      /\ releases' = [releases EXCEPT ![r].status = IF @ = "uploaded" THEN "processing" ELSE @]
      /\ UNCHANGED <<targets, inferred, bundles, manifests, device, history>>

\* persistPendingReleaseTargets, with the inferred fingerprint
PersistTargets ==
    LET r == job.release
        v == releases[r].version
    IN
      /\ job.step = "claimed"
      /\ job' = [job EXCEPT !.step = "bundles", !.bound = Resolved(r)]
      /\ inferred' = [inferred EXCEPT ![v] = IF @ = None THEN releases[r].fp ELSE @]
      /\ UNCHANGED <<releases, targets, bundles, manifests, device, history>>

DesiredBundles == Resolved(job.release) \X {releases[job.release].hash}

\* faulty variant: the bundle goes to the version of the request only
EnsureOneBundle ==
    /\ job.step = "bundles"
    /\ Goes("manifests")
    /\ bundles' = bundles \cup {<<releases[job.release].version, releases[job.release].hash>>}
    /\ UNCHANGED <<releases, targets, inferred, manifests, device, history>>

\* ensureBundle: the copies run at once, so any of them may be all there is when
\* the run stops
EnsureBundle ==
    /\ job.step = "bundles"
    /\ \E copied \in SUBSET DesiredBundles :
         /\ bundles' = bundles \cup copied
         /\ Goes(IF DesiredBundles \subseteq bundles' THEN "manifests" ELSE "queued")
    /\ UNCHANGED <<releases, targets, inferred, manifests, device, history>>

\* storage.put of one manifest, in the order of their keys: the packages of a
\* version before its fallback
PutManifest ==
    /\ job.step = "manifests"
    /\ \E key \in Stale :
         /\ key[2] = None => \A other \in Stale : other[1] = key[1] => other = key
         /\ manifests' = [manifests EXCEPT ![key[1]][key[2]] = ManifestOf(Chain(key[1]))]
    /\ UNCHANGED <<releases, targets, inferred, job, bundles, device, history>>

\* finalizeReleaseSuccess
Finalize ==
    LET r == job.release IN
      /\ job.step = "manifests"
      /\ Stale = {}
      /\ job' = [job EXCEPT !.step = "succeeded", !.bound = {}]
      /\ targets' = [targets EXCEPT ![r] = job.bound]
      /\ releases' = [releases EXCEPT ![r].status =
             IF @ \in {"uploaded", "processing"} \/ (@ = "disabled" /\ job.enables)
             THEN "published" ELSE @]
      /\ UNCHANGED <<inferred, bundles, manifests, device, history>>

Running == job.step \in {"claimed", "bundles", "manifests"}

\* a retryable error, a lost claim, a server that stops: the job runs again
StartOver ==
    /\ Running
    /\ Goes("queued")
    /\ UNCHANGED <<releases, targets, inferred, bundles, manifests, device, history>>

\* finalizeReleaseFailure, or a dead letter once the attempts are used up: what
\* the run has written stays
GiveUp ==
    LET r == job.release IN
      /\ Running
      /\ job' = [job EXCEPT !.step = "given_up", !.bound = {}]
      /\ releases' = [releases EXCEPT ![r].status =
             IF @ \in {"uploaded", "processing"} THEN "failed" ELSE @]
      /\ history' = history \cup {"given_up"}
      /\ UNCHANGED <<targets, inferred, bundles, manifests, device>>

-----------------------------------------------------------------------------
(* a device checks for an update                                            *)

\* fetchManifest: the running package's, or the version's when there is none
Fetched(v, p) == IF manifests[v][p] = NotFound THEN manifests[v][None] ELSE manifests[v][p]

PackageOf(r) == IF r = None THEN None ELSE releases[r].hash

\* evaluateManifest and selectTarget, on a device that is eligible for the
\* rollout or not: the package it runs after following the manifest
Followed(manifest, p, eligible) ==
    IF manifest = NotFound THEN p
    ELSE IF manifest.target = None THEN None
    ELSE IF PackageOf(manifest.target) = p \/ eligible \/ ~manifest.partial
    THEN PackageOf(manifest.target)
    ELSE IF manifest.previous = None THEN p ELSE PackageOf(manifest.previous)

\* A device that runs the embedded bundle may be of any version.
DeviceVersions == IF device.package = None THEN Version ELSE {device.version}

\* The rollout's hash may decide either way for another device.
Check(v) ==
    /\ v \in DeviceVersions
    /\ \E eligible \in BOOLEAN :
         LET next == Followed(Fetched(v, device.package), device.package, eligible) IN
           /\ next \notin {None, device.package}
           /\ <<v, next>> \in bundles
           /\ device' = [version |-> v, package |-> next]
    /\ UNCHANGED <<releases, targets, inferred, job, bundles, manifests, history>>

-----------------------------------------------------------------------------
Next ==
    \/ \E r \in Release : CreateRelease(r) \/ PatchRelease(r)
    \/ Claim
    \/ PersistTargets
    \/ EnsureBundle
    \/ PutManifest
    \/ Finalize
    \/ StartOver
    \/ GiveUp
    \/ \E v \in Version : Check(v)

Spec == Init /\ [][Next]_vars

-----------------------------------------------------------------------------
(* properties                                                               *)

TypeOK ==
    /\ releases \in [Release -> ReleaseRow]
    /\ targets \in [Release -> SUBSET Version]
    /\ inferred \in [Version -> Fingerprint \cup {None}]
    /\ job \in JobRow
    /\ bundles \subseteq Version \X Hash
    /\ manifests \in [Version -> [Package -> Manifest]]
    /\ device \in [version : Version \cup {None}, package : Package]
    /\ history \subseteq {"given_up", "retargeted"}

\* What a device is offered, as the release it runs or as the fallback of a
\* partial rollout, can be downloaded for its binary version: also while a job is
\* writing, and after one was given up half way.
OfferedCanBeDownloaded ==
    \A v \in Version, p \in Package :
        \A r \in {manifests[v][p].target, manifests[v][p].previous} \ {None} :
            <<v, releases[r].hash>> \in bundles

\* The manifest a version should have, from the releases alone.
ServedChain(v) == {r \in Release : Published(r) /\ v \in targets[r]}

\* Once the latest job has succeeded, a device that checks moves as the published
\* releases of its version say, or stays: whatever package the server knows of it
\* runs; and whatever package it runs at all, when no job was ever given up and no
\* release retargeted.
DevicesFollowTheReleases ==
    job.step = "succeeded" =>
        \A v \in Version, p \in Package, eligible \in BOOLEAN :
            /\ \/ p \in Historical(v) \cup {None} /\ ServedChain(v) # {}
               \/ history = {} /\ device = [version |-> v, package |-> p]
            => Followed(Fetched(v, p), p, eligible)
                 = Followed(ManifestOf(ServedChain(v)), p, eligible)

\* What the documentation of disabling promises: a device that checks is not
\* offered a disabled release, one that runs it included; here as long as every
\* job succeeds.
DisabledIsNotOffered ==
    job.step = "succeeded" /\ "given_up" \notin history =>
        \A v \in DeviceVersions :
            LET target == Fetched(v, device.package).target IN
              target # None => releases[target].status # "disabled"
=============================================================================
