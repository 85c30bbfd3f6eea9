-------------------------- MODULE DesiredState_proofs --------------------------
(***************************************************************************)
(* Theorems about DesiredState for any number of releases, jobs, versions  *)
(* and packages: its type, that devices can download what they are offered *)
(* and that they follow the releases.  A behavior of MCDeployment is one   *)
(* of DesiredState or one of Metrics while the other rests, so that what   *)
(* is proved of each holds there too (the last section).                   *)
(***************************************************************************)
EXTENDS MCDeployment, TLAPS, WellFoundedInduction

-----------------------------------------------------------------------------
(* the newest release of a set                                              *)

LEMMA NewestExists ==
    ASSUME ManifestAssumption, NEW S \in SUBSET Release
    PROVE  /\ Newest(S) \in Release \cup {None}
           /\ Newest(S) # None => Newest(S) \in S
           /\ S # {} => Newest(S) \in S
<1>1. CASE S = {}
  BY <1>1 DEF Newest
<1>2. CASE S # {}
  <2> DEFINE below == {MaxReleases - s : s \in S}
  <2>1. MaxReleases \in Nat /\ \A s \in S : s \in Nat /\ s <= MaxReleases
    BY DEF Release, ManifestAssumption
  <2>2. below \subseteq Nat /\ below # {}
    BY <1>2, <2>1
  <2>3. PICK least \in below : \A other \in below : ~ (<<other, least>> \in OpToRel(<, Nat))
    BY <2>2, NatLessThanWellFounded, WFMin
  <2>4. PICK r \in S : least = MaxReleases - r
    BY <2>3
  <2>5. \A s \in S : ~ (MaxReleases - s < MaxReleases - r)
    BY <2>2, <2>3, <2>4 DEF OpToRel
  <2>6. \A s \in S : s <= r
    BY <2>1, <2>5
  <2> QED
    BY <1>2, <2>6 DEF Newest
<1> QED
  BY <1>1, <1>2

-----------------------------------------------------------------------------
(* the type                                                                 *)

\* A release has a package and a version, and a job that is not at rest has a
\* release, one that has not failed.
Existing ==
    /\ \A r \in Release : releases[r].status # "absent" =>
         releases[r].hash \in Hash /\ releases[r].version \in Version
    /\ ~AtRest => /\ job.release \in Release
                  /\ releases[job.release].status \notin {"absent", "failed"}

TInv == TypeOK /\ Existing

LEMMA TInvInit == ManifestAssumption /\ Init => TInv
<1> SUFFICES ASSUME ManifestAssumption, Init PROVE TInv
  OBVIOUS
<1>1. /\ MaxJobs \in Nat
      /\ releases \in [Release -> ReleaseRow]
  BY DEF ManifestAssumption, Init, ReleaseRow, NoRelease, Package
<1>2. job \in JobRow
  BY <1>1 DEF Init, JobRow
<1>3. manifests \in [Version -> [Package -> Manifest]]
  BY DEF Init, Manifest, NotFound
<1>4. device \in [version : Version \cup {None}, package : Package]
  BY DEF Init, Package
<1>5. TypeOK
  BY <1>1, <1>2, <1>3, <1>4 DEF Init, TypeOK
<1>6. Existing
  BY DEF Init, Existing, NoRelease, AtRest
<1> QED
  BY <1>5, <1>6 DEF TInv

\* What the job's run writes: a release of the chain, or none.
LEMMA ChainReleases ==
    ASSUME ManifestAssumption, TInv, NEW v
    PROVE  /\ Chain(v) \in SUBSET Release
           /\ ManifestOf(Chain(v)) \in Manifest
           /\ \A r \in {ManifestOf(Chain(v)).target, ManifestOf(Chain(v)).previous} \ {None} :
                r \in Chain(v)
<1> DEFINE chain == Chain(v)
<1>1. chain \in SUBSET Release
  BY DEF Chain, Effective
<1>2. /\ Newest(chain) \in Release \cup {None}
      /\ Newest(chain) # None => Newest(chain) \in chain
  BY <1>1, NewestExists
<1>3. chain \ {Newest(chain)} \in SUBSET Release
  BY <1>1
<1>4. /\ Newest(chain \ {Newest(chain)}) \in Release \cup {None}
      /\ Newest(chain \ {Newest(chain)}) # None => Newest(chain \ {Newest(chain)}) \in chain
  BY <1>3, NewestExists
<1>5. \A r \in Release : releases[r].partial \in BOOLEAN
  BY DEF TInv, TypeOK, ReleaseRow
<1> HIDE DEF chain
<1>6. /\ ManifestOf(chain) \in Manifest
      /\ ManifestOf(chain).target \in {None, Newest(chain)}
      /\ ManifestOf(chain).previous \in {None, Newest(chain \ {Newest(chain)})}
  BY <1>2, <1>4, <1>5 DEF ManifestOf, Manifest
<1> QED
  BY <1>1, <1>2, <1>4, <1>6 DEF chain

LEMMA TInvNext == ManifestAssumption /\ TInv /\ [Next]_vars => TInv'
<1> SUFFICES ASSUME ManifestAssumption, TInv, [Next]_vars PROVE TInv'
  OBVIOUS
<1> USE DEF TInv
<1>t. /\ releases \in [Release -> ReleaseRow]
      /\ job \in JobRow
      /\ manifests \in [Version -> [Package -> Manifest]]
  BY DEF TypeOK
<1>n. MaxJobs \in Nat /\ \A n \in 0 .. MaxJobs : n < MaxJobs => n + 1 \in 0 .. MaxJobs
  BY DEF ManifestAssumption
<1>1. ASSUME NEW r \in Release, CreateRelease(r) PROVE TInv'
  <2>1. PICK status \in {"uploaded", "disabled"}, h \in Hash, partial \in Rollouts,
             v \in Version, f \in Fingerprint \cup {None} :
          releases' = [releases EXCEPT ![r] =
             [status |-> status, hash |-> h, partial |-> partial, version |-> v, fp |-> f]]
    BY <1>1 DEF CreateRelease
  <2>2. [status |-> status, hash |-> h, partial |-> partial, version |-> v, fp |-> f] \in ReleaseRow
    BY DEF ReleaseRow, Package, ManifestAssumption
  <2>3. releases' \in [Release -> ReleaseRow]
    BY <1>t, <2>1, <2>2
  <2>4. /\ job' = [number |-> job.number + 1, release |-> r, enables |-> FALSE,
                   step |-> "queued", bound |-> {}]
        /\ job.number < MaxJobs
    BY <1>1 DEF CreateRelease, InsertJob
  <2>5. job' \in JobRow
    BY <1>t, <1>n, <2>4 DEF JobRow
  <2>6. TypeOK'
    BY <1>1, <2>3, <2>5 DEF CreateRelease, TypeOK
  <2>7. Existing'
    BY <1>t, <2>1, <2>4 DEF Existing, AtRest
  <2> QED
    BY <2>6, <2>7
<1>2. ASSUME NEW r \in Release, PatchRelease(r) PROVE TInv'
  <2>1. PICK status \in {"published", "disabled"}, v \in Version, partial \in BOOLEAN :
          /\ InsertJob(r, status = "published" /\ ~Published(r))
          /\ releases' = [releases EXCEPT ![r].version = v, ![r].partial = partial,
                             ![r].status = IF status = "disabled" THEN "disabled" ELSE @]
          /\ history' = IF v = releases[r].version THEN history ELSE history \cup {"retargeted"}
    BY <1>2 DEF PatchRelease
  <2>2. releases' \in [Release -> ReleaseRow]
    <3> DEFINE row == [releases[r] EXCEPT !.version = v, !.partial = partial,
                           !.status = IF status = "disabled" THEN "disabled" ELSE @]
    <3>1. row \in ReleaseRow
      BY <1>t DEF ReleaseRow
    <3>2. releases' = [releases EXCEPT ![r] = row]
      BY <1>t, <2>1
    <3> QED
      BY <1>t, <3>1, <3>2
  <2>3. /\ job' = [number |-> job.number + 1, release |-> r,
                   enables |-> (status = "published" /\ ~Published(r)),
                   step |-> "queued", bound |-> {}]
        /\ job.number < MaxJobs
    BY <2>1 DEF InsertJob
  <2>4. job' \in JobRow
    BY <1>t, <1>n, <2>3 DEF JobRow
  <2>5. TypeOK'
    BY <1>2, <2>1, <2>2, <2>4 DEF PatchRelease, TypeOK
  <2>6. Existing'
    BY <1>t, <1>2, <2>1, <2>3 DEF Existing, AtRest, PatchRelease
  <2> QED
    BY <2>5, <2>6
<1>3. CASE Claim
  <2>1. job.release \in Release
    BY <1>3 DEF Claim, Existing, AtRest
  <2>2. releases' \in [Release -> ReleaseRow]
    BY <1>t, <1>3, <2>1 DEF Claim, ReleaseRow
  <2>3. job' \in JobRow
    BY <1>t, <1>3 DEF Claim, Goes, JobRow
  <2>4. TypeOK'
    BY <1>3, <2>2, <2>3 DEF Claim, TypeOK
  <2>5. Existing'
    BY <1>t, <1>3, <2>1 DEF Claim, Goes, Existing, AtRest, JobRow
  <2> QED
    BY <2>4, <2>5
<1>4. CASE PersistTargets
  <2>1. /\ job.release \in Release
        /\ releases[job.release].version \in Version
        /\ releases[job.release].fp \in Fingerprint \cup {None}
    BY <1>t, <1>4 DEF PersistTargets, Existing, AtRest, ReleaseRow
  <2>2. Resolved(job.release) \in SUBSET Version
    BY <2>1 DEF Resolved
  <2>3. job' \in JobRow
    BY <1>t, <1>4, <2>2 DEF PersistTargets, JobRow
  <2>4. inferred' \in [Version -> Fingerprint \cup {None}]
    BY <1>4, <2>1 DEF PersistTargets, TypeOK
  <2>5. TypeOK'
    BY <1>4, <2>3, <2>4 DEF PersistTargets, TypeOK
  <2>6. Existing'
    BY <1>t, <1>4 DEF PersistTargets, Existing, AtRest, JobRow
  <2> QED
    BY <2>5, <2>6
<1>5. CASE EnsureBundle
  <2>1. PICK copied \in SUBSET DesiredBundles :
          /\ bundles' = bundles \cup copied
          /\ Goes(IF DesiredBundles \subseteq bundles' THEN "manifests" ELSE "queued")
    BY <1>5 DEF EnsureBundle
  <2>2. /\ job.release \in Release
        /\ releases[job.release].version \in Version
        /\ releases[job.release].hash \in Hash
    BY <1>5 DEF EnsureBundle, Existing, AtRest
  <2>3. DesiredBundles \subseteq Version \X Hash
    BY <2>2 DEF DesiredBundles, Resolved
  <2>4. job' \in JobRow
    BY <1>t, <2>1 DEF Goes, JobRow
  <2>5. TypeOK'
    BY <1>5, <2>1, <2>3, <2>4 DEF EnsureBundle, TypeOK
  <2>6. Existing'
    BY <1>t, <1>5, <2>1 DEF EnsureBundle, Goes, Existing, AtRest, JobRow
  <2> QED
    BY <2>5, <2>6
<1>6. CASE PutManifest
  <2>1. PICK key \in Stale :
          manifests' = [manifests EXCEPT ![key[1]][key[2]] = ManifestOf(Chain(key[1]))]
    BY <1>6 DEF PutManifest
  <2>2. ManifestOf(Chain(key[1])) \in Manifest
    BY ChainReleases
  <2>3. manifests' \in [Version -> [Package -> Manifest]]
    BY <1>t, <2>1, <2>2
  <2>4. TypeOK'
    BY <1>6, <2>3 DEF PutManifest, TypeOK
  <2>5. Existing'
    BY <1>6 DEF PutManifest, Existing, AtRest
  <2> QED
    BY <2>4, <2>5
<1>7. CASE Finalize
  <2>1. job.release \in Release
    BY <1>7 DEF Finalize, Existing, AtRest
  <2>2. releases' \in [Release -> ReleaseRow]
    BY <1>t, <1>7, <2>1 DEF Finalize, ReleaseRow
  <2>3. job' \in JobRow /\ job.bound \in SUBSET Version
    BY <1>t, <1>7 DEF Finalize, JobRow
  <2>4. targets' \in [Release -> SUBSET Version]
    BY <1>7, <2>3 DEF Finalize, TypeOK
  <2>5. TypeOK'
    BY <1>7, <2>2, <2>3, <2>4 DEF Finalize, TypeOK
  <2>6. Existing'
    BY <1>t, <1>7, <2>1 DEF Finalize, Existing, AtRest, JobRow
  <2> QED
    BY <2>5, <2>6
<1>8. CASE StartOver
  <2>1. job' \in JobRow
    BY <1>t, <1>8 DEF StartOver, Goes, JobRow
  <2>2. TypeOK'
    BY <1>8, <2>1 DEF StartOver, TypeOK
  <2>3. Existing'
    BY <1>t, <1>8 DEF StartOver, Goes, Running, Existing, AtRest, JobRow
  <2> QED
    BY <2>2, <2>3
<1>9. CASE GiveUp
  <2>1. job.release \in Release
    BY <1>9 DEF GiveUp, Running, Existing, AtRest
  <2>2. releases' \in [Release -> ReleaseRow]
    BY <1>t, <1>9, <2>1 DEF GiveUp, ReleaseRow
  <2>3. job' \in JobRow
    BY <1>t, <1>9 DEF GiveUp, JobRow
  <2>4. TypeOK'
    BY <1>9, <2>2, <2>3 DEF GiveUp, TypeOK
  <2>5. Existing'
    BY <1>t, <1>9, <2>1 DEF GiveUp, Existing, AtRest, JobRow
  <2> QED
    BY <2>4, <2>5
<1>10. ASSUME NEW v \in Version, Check(v) PROVE TInv'
  <2>1. PICK next :
          /\ next \notin {None, device.package}
          /\ <<v, next>> \in bundles
          /\ device' = [version |-> v, package |-> next]
    BY <1>10 DEF Check
  <2>2. next \in Package
    BY <2>1 DEF TypeOK, Package
  <2>3. TypeOK'
    BY <1>10, <2>1, <2>2 DEF Check, TypeOK
  <2>4. Existing'
    BY <1>10 DEF Check, Existing, AtRest
  <2> QED
    BY <2>3, <2>4
<1>11. CASE UNCHANGED vars
  BY <1>11 DEF vars, TypeOK, Existing, AtRest
<1> QED
  BY <1>1, <1>2, <1>3, <1>4, <1>5, <1>6, <1>7, <1>8, <1>9, <1>10, <1>11 DEF Next

\* The rows of releases and jobs, the manifests and the device keep their type.
THEOREM TypeCorrect ==
    ASSUME ManifestAssumption
    PROVE  Spec => []TypeOK
<1>1. Init => TInv
  BY TInvInit
<1>2. TInv /\ [Next]_vars => TInv'
  BY TInvNext
<1>3. TInv => TypeOK
  BY DEF TInv
<1> QED
  BY <1>1, <1>2, <1>3, PTL DEF Spec

-----------------------------------------------------------------------------
(* what devices are offered can be downloaded                               *)

Downloadable(v, r) == releases[r].status # "absent" /\ <<v, releases[r].hash>> \in bundles

\* A run that writes manifests has put the bundle of its release wherever the
\* release is to be served; so has every run that has finalized a release; hence
\* what a chain may offer is there.
DInv ==
    /\ job.step \in {"bundles", "manifests"} => job.bound = Resolved(job.release)
    /\ job.step = "manifests" => DesiredBundles \subseteq bundles
    /\ \A r \in Release : \A v \in targets[r] : Downloadable(v, r)
    /\ \A v \in Version, p \in Package :
         \A r \in {manifests[v][p].target, manifests[v][p].previous} \ {None} : Downloadable(v, r)

LEMMA DInvInit == Init => DInv
BY DEF Init, DInv, NotFound

\* Neither the row of a release nor a bundle goes away, and a release keeps its package.
LEMMA StaysDownloadable ==
    ASSUME TInv, [Next]_vars, NEW v, NEW r \in Release, Downloadable(v, r)
    PROVE  Downloadable(v, r)'
<1> USE DEF Downloadable
<1>t. releases \in [Release -> ReleaseRow]
  BY DEF TInv, TypeOK
<1>1. ASSUME NEW s \in Release, CreateRelease(s) PROVE Downloadable(v, r)'
  BY <1>1, <1>t DEF CreateRelease
<1>2. ASSUME NEW s \in Release, PatchRelease(s) PROVE Downloadable(v, r)'
  <2>1. PICK status \in {"published", "disabled"}, u \in Version, partial \in BOOLEAN :
          releases' = [releases EXCEPT ![s].version = u, ![s].partial = partial,
                             ![s].status = IF status = "disabled" THEN "disabled" ELSE @]
    BY <1>2 DEF PatchRelease
  <2>2. releases'[r].hash = releases[r].hash /\ releases'[r].status # "absent"
    BY <1>t, <2>1 DEF ReleaseRow
  <2> QED
    BY <1>2, <2>2 DEF PatchRelease
<1>3. CASE Claim
  BY <1>3, <1>t DEF Claim, ReleaseRow
<1>4. CASE PersistTargets
  BY <1>4 DEF PersistTargets
<1>5. CASE EnsureBundle
  BY <1>5 DEF EnsureBundle
<1>6. CASE PutManifest
  BY <1>6 DEF PutManifest
<1>7. CASE Finalize
  BY <1>7, <1>t DEF Finalize, ReleaseRow
<1>8. CASE StartOver
  BY <1>8 DEF StartOver
<1>9. CASE GiveUp
  BY <1>9, <1>t DEF GiveUp, ReleaseRow
<1>10. ASSUME NEW u \in Version, Check(u) PROVE Downloadable(v, r)'
  BY <1>10 DEF Check
<1>11. CASE UNCHANGED vars
  BY <1>11 DEF vars
<1> QED
  BY <1>1, <1>2, <1>3, <1>4, <1>5, <1>6, <1>7, <1>8, <1>9, <1>10, <1>11 DEF Next

\* A chain holds releases of other jobs, whose targets they are, and the job's own.
LEMMA ChainDownloadable ==
    ASSUME TInv, DInv, job.step = "manifests", NEW v, NEW r \in Chain(v)
    PROVE  r \in Release /\ Downloadable(v, r)
<1>1. r \in Release /\ r \in Effective /\ v \in ServedTo(r)
  BY DEF Chain, Effective
<1>2. CASE r # job.release
  BY <1>1, <1>2 DEF ServedTo, DInv
<1>3. CASE r = job.release
  <2>1. <<v, releases[r].hash>> \in DesiredBundles
    BY <1>1, <1>3 DEF ServedTo, DesiredBundles
  <2>2. releases[r].status # "absent"
    BY <1>1, <1>3 DEF Effective
  <2> QED
    BY <1>1, <2>1, <2>2 DEF DInv, Downloadable
<1> QED
  BY <1>2, <1>3

LEMMA DInvNext == ManifestAssumption /\ TInv /\ DInv /\ [Next]_vars => DInv'
<1> SUFFICES ASSUME ManifestAssumption, TInv, DInv, [Next]_vars PROVE DInv'
  OBVIOUS
<1>t. /\ releases \in [Release -> ReleaseRow]
      /\ targets \in [Release -> SUBSET Version]
      /\ manifests \in [Version -> [Package -> Manifest]]
      /\ job \in JobRow
  BY DEF TInv, TypeOK
<1>k. \A v, r : r \in Release /\ Downloadable(v, r) => Downloadable(v, r)'
  BY StaysDownloadable
<1>m. \A v \in Version, p \in Package :
        {manifests[v][p].target, manifests[v][p].previous} \ {None} \subseteq Release
  BY <1>t DEF Manifest
\* A step that writes neither targets nor manifests leaves the rest to the job's part.
<1>u. ASSUME UNCHANGED <<targets, manifests>>,
             job'.step \in {"bundles", "manifests"} => job'.bound = Resolved(job.release)',
             job'.step = "manifests" => DesiredBundles' \subseteq bundles'
      PROVE  DInv'
  <2>1. \A r \in Release : \A v \in targets'[r] : Downloadable(v, r)'
    BY <1>u, <1>k DEF DInv
  <2>2. \A v \in Version, p \in Package :
          \A r \in {manifests'[v][p].target, manifests'[v][p].previous} \ {None} : Downloadable(v, r)'
    BY <1>u, <1>k, <1>m DEF DInv
  <2> QED
    BY <1>u, <2>1, <2>2 DEF DInv
<1>1. ASSUME NEW r \in Release, CreateRelease(r) PROVE DInv'
  <2>1. job'.step = "queued" /\ UNCHANGED <<targets, manifests>>
    BY <1>1 DEF CreateRelease, InsertJob
  <2> QED
    BY <2>1, <1>u
<1>2. ASSUME NEW r \in Release, PatchRelease(r) PROVE DInv'
  <2>1. job'.step = "queued" /\ UNCHANGED <<targets, manifests>>
    BY <1>2 DEF PatchRelease, InsertJob
  <2> QED
    BY <2>1, <1>u
<1>3. CASE Claim
  <2>1. job'.step = "claimed" /\ UNCHANGED <<targets, manifests>>
    BY <1>t, <1>3 DEF Claim, Goes, JobRow
  <2> QED
    BY <2>1, <1>u
<1>4. CASE PersistTargets
  <2>1. /\ job'.step = "bundles" /\ job'.release = job.release
        /\ job'.bound = Resolved(job.release)
        /\ UNCHANGED <<releases, targets, manifests>>
    BY <1>t, <1>4 DEF PersistTargets, JobRow
  <2>2. inferred \in [Version -> Fingerprint \cup {None}]
    BY DEF TInv, TypeOK
  <2>3. /\ job.release \in Release
        /\ releases[job.release].fp \in Fingerprint \cup {None}
    BY <1>t, <1>4 DEF PersistTargets, TInv, Existing, AtRest, ReleaseRow
  <2>4. \A v \in Version : v # releases[job.release].version => inferred'[v] = inferred[v]
    BY <1>4, <2>2 DEF PersistTargets
  <2>5. Resolved(job.release)' = Resolved(job.release)
    BY <2>1, <2>4 DEF Resolved
  <2> QED
    BY <2>1, <2>5, <1>u
<1>5. CASE EnsureBundle
  <2>1. /\ job'.release = job.release /\ job'.bound = job.bound
        /\ job'.step = "manifests" => DesiredBundles \subseteq bundles'
        /\ job.step = "bundles"
        /\ UNCHANGED <<releases, inferred, targets, manifests>>
    BY <1>t, <1>5 DEF EnsureBundle, Goes, JobRow
  <2>2. Resolved(job.release)' = Resolved(job.release) /\ DesiredBundles' = DesiredBundles
    BY <2>1 DEF Resolved, DesiredBundles
  <2>3. job.bound = Resolved(job.release)
    BY <2>1 DEF DInv
  <2> QED
    BY <2>1, <2>2, <2>3, <1>u
<1>6. CASE PutManifest
  <2>1. /\ job.step = "manifests"
        /\ UNCHANGED <<releases, targets, inferred, job, bundles>>
    BY <1>6 DEF PutManifest
  <2>2. PICK key \in Stale :
          manifests' = [manifests EXCEPT ![key[1]][key[2]] = ManifestOf(Chain(key[1]))]
    BY <1>6 DEF PutManifest
  <2>3. \A v \in Version, p \in Package :
          manifests'[v][p] = manifests[v][p] \/ manifests'[v][p] = ManifestOf(Chain(v))
    BY <1>t, <2>2
  <2>4. \A v : \A r \in {ManifestOf(Chain(v)).target, ManifestOf(Chain(v)).previous} \ {None} :
          Downloadable(v, r)
    BY <2>1, ChainReleases, ChainDownloadable
  <2>5. \A v \in Version, p \in Package :
          \A r \in {manifests'[v][p].target, manifests'[v][p].previous} \ {None} : Downloadable(v, r)
    BY <2>3, <2>4 DEF DInv
  <2> QED
    BY <2>1, <2>5 DEF DInv, Downloadable, Resolved, DesiredBundles
<1>7. CASE Finalize
  <2>1. /\ job.step = "manifests" /\ job'.step = "succeeded"
        /\ targets' = [targets EXCEPT ![job.release] = job.bound]
        /\ UNCHANGED <<bundles, manifests>>
    BY <1>t, <1>7 DEF Finalize, JobRow
  <2>2. \A v \in job.bound : Downloadable(v, job.release)
    <3>1. job.bound = Resolved(job.release) /\ DesiredBundles \subseteq bundles
      BY <2>1 DEF DInv
    <3>2. releases[job.release].status # "absent"
      BY <2>1 DEF TInv, Existing, AtRest
    <3> QED
      BY <3>1, <3>2 DEF DesiredBundles, Downloadable
  <2>3. \A r \in Release : \A v \in targets'[r] : Downloadable(v, r)
    BY <1>t, <2>1, <2>2 DEF DInv
  <2>4. \A v \in Version, p \in Package :
          \A r \in {manifests'[v][p].target, manifests'[v][p].previous} \ {None} : Downloadable(v, r)'
    BY <2>1, <1>k, <1>m DEF DInv
  <2> QED
    BY <2>1, <2>3, <2>4, <1>k DEF DInv
<1>8. CASE StartOver
  <2>1. job'.step = "queued" /\ UNCHANGED <<targets, manifests>>
    BY <1>t, <1>8 DEF StartOver, Goes, JobRow
  <2> QED
    BY <2>1, <1>u
<1>9. CASE GiveUp
  <2>1. job'.step = "given_up" /\ UNCHANGED <<targets, manifests>>
    BY <1>t, <1>9 DEF GiveUp, JobRow
  <2> QED
    BY <2>1, <1>u
<1>10. ASSUME NEW v \in Version, Check(v) PROVE DInv'
  BY <1>10 DEF Check, DInv, Downloadable, Resolved, DesiredBundles
<1>11. CASE UNCHANGED vars
  BY <1>11 DEF vars, DInv, Downloadable, Resolved, DesiredBundles
<1> QED
  BY <1>1, <1>2, <1>3, <1>4, <1>5, <1>6, <1>7, <1>8, <1>9, <1>10, <1>11 DEF Next

\* What a manifest offers a device can be downloaded for its binary version, at
\* every moment of any job (ensureBundle, ensureManifests, buildManifestContent).
THEOREM OfferedAlwaysDownloadable ==
    ASSUME ManifestAssumption
    PROVE  Spec => []OfferedCanBeDownloaded
<1>1. Init => TInv /\ DInv
  BY TInvInit, DInvInit
<1>2. TInv /\ DInv /\ [Next]_vars => TInv' /\ DInv'
  BY TInvNext, DInvNext
<1>3. TInv /\ DInv => OfferedCanBeDownloaded
  BY DEF DInv, Downloadable, OfferedCanBeDownloaded
<1> QED
  BY <1>1, <1>2, <1>3, PTL DEF Spec

-----------------------------------------------------------------------------
(* devices follow the releases                                              *)

Served(v) == ManifestOf(ServedChain(v))

Written(v) == \E p \in Package : manifests[v][p] # NotFound

\* All manifests of a version say the same, and the fallback is one of them.
Settled(v) ==
    /\ \A p \in Package : manifests[v][p] \in {NotFound, Served(v)}
    /\ Written(v) => manifests[v][None] # NotFound

Active == ~AtRest

\* A package that has a manifest of its own, for some release that is bound to the
\* version, or is about to be.
Known(v) == Historical(v) \cup
    (IF Active /\ v \in Resolved(job.release) THEN {releases[job.release].hash} ELSE {})

\* As long as no job is given up and no release retargeted, a release keeps the
\* versions it has, and so do their manifests the packages; a job leaves alone the
\* versions it has no part in, and those are settled.
Regular ==
    /\ \A r \in Release : targets[r] \subseteq Resolved(r)
    /\ \A v \in Version, p \in Package :
         manifests[v][p] # NotFound => p \in Known(v) \cup {None}
    /\ \A v \in Version : Active => v \in ManifestVersions \/ Settled(v)
    /\ \A v \in Version : AtRest => Settled(v)

\* A device that runs a package has followed a manifest of its version.
Equipped == device.package # None => device.version \in Version /\ Written(device.version)

FInv ==
    /\ job.step = "succeeded" =>
         \A v \in Version : ServedChain(v) # {} =>
           \A p \in Historical(v) \cup {None} : manifests[v][p] = Served(v)
    /\ history = {} => Regular
    /\ Equipped

LEMMA ManifestsSaySomething ==
    ASSUME ManifestAssumption, TInv, NEW S \in SUBSET Release
    PROVE  /\ ManifestOf(S) # NotFound
           /\ S # {} => ManifestOf(S).target # None
           /\ S = {} => ManifestOf(S).target = None
<1>1. \A r \in Release : r # None
  BY DEF Release, ManifestAssumption
<1>2. CASE S = {}
  BY <1>2 DEF ManifestOf, NotFound, Newest
<1>3. CASE S # {}
  <2>1. Newest(S) # None
    BY <1>1, <1>3, NewestExists
  <2>2. ManifestOf(S).target = Newest(S)
    BY <2>1 DEF ManifestOf
  <2> QED
    BY <1>3, <2>1, <2>2 DEF NotFound
<1> QED
  BY <1>2, <1>3

\* What a chain offers depends on its own releases.
LEMMA ServedKept ==
    ASSUME ManifestAssumption, NEW v, ServedChain(v)' = ServedChain(v),
           \A r \in ServedChain(v) : releases'[r].partial = releases[r].partial
    PROVE  Served(v)' = Served(v)
<1> DEFINE S == ServedChain(v)
<1>1. S \in SUBSET Release
  BY DEF ServedChain
<1>2. Newest(S) # None => Newest(S) \in S
  BY <1>1, NewestExists
<1>3. ManifestOf(ServedChain(v))' = IF Newest(S) = None
        THEN [target |-> None, partial |-> FALSE, previous |-> None]
        ELSE [target |-> Newest(S), partial |-> releases'[Newest(S)].partial,
              previous |-> Newest(S \ {Newest(S)})]
  BY DEF ManifestOf
<1> QED
  BY <1>2, <1>3 DEF ManifestOf, Served

\* The job goes on, or again.
Continues == Claim \/ PersistTargets \/ EnsureBundle \/ PutManifest \/ StartOver

LEMMA ContinueFacts ==
    ASSUME ManifestAssumption, TInv, Continues
    PROVE  /\ Active /\ Active' /\ UNCHANGED <<targets, history, device>>
           /\ job'.release = job.release /\ job'.enables = job.enables
           /\ job.release \in Release
           /\ \A r \in Release :
                /\ releases'[r].hash = releases[r].hash /\ releases'[r].partial = releases[r].partial
                /\ releases'[r].version = releases[r].version /\ releases'[r].fp = releases[r].fp
                /\ \/ releases'[r].status = releases[r].status
                   \/ releases[r].status = "uploaded" /\ releases'[r].status = "processing"
           /\ \A r \in Release : Resolved(r) \subseteq Resolved(r)'
           /\ Resolved(job.release)' = Resolved(job.release)
           /\ ~PutManifest => UNCHANGED manifests
<1>t. releases \in [Release -> ReleaseRow] /\ job \in JobRow /\ inferred \in [Version -> Fingerprint \cup {None}]
  BY DEF TInv, TypeOK
<1>1. Active /\ job.release \in Release
  BY DEF Continues, Claim, PersistTargets, EnsureBundle, PutManifest, StartOver, Running, Active,
         AtRest, TInv, Existing
<1>2. CASE Claim
  <2>1. /\ UNCHANGED <<targets, inferred, manifests, history, device>>
        /\ job' = [job EXCEPT !.step = "claimed"]
        /\ releases' = [releases EXCEPT ![job.release].status =
                           IF @ = "uploaded" THEN "processing" ELSE @]
    BY <1>2 DEF Claim, Goes
  <2>2. \A r \in Release :
          /\ releases'[r].hash = releases[r].hash /\ releases'[r].partial = releases[r].partial
          /\ releases'[r].version = releases[r].version /\ releases'[r].fp = releases[r].fp
          /\ \/ releases'[r].status = releases[r].status
             \/ releases[r].status = "uploaded" /\ releases'[r].status = "processing"
    BY <1>t, <2>1 DEF ReleaseRow
  <2>3. job'.release = job.release /\ job'.enables = job.enables /\ job'.step = "claimed"
    BY <1>t, <2>1 DEF JobRow
  <2>4. \A r \in Release : Resolved(r)' = Resolved(r)
    BY <2>1, <2>2 DEF Resolved
  <2> QED
    BY <1>1, <2>1, <2>2, <2>3, <2>4 DEF Active, AtRest
<1>3. CASE PersistTargets
  <2> DEFINE v == releases[job.release].version
  <2>1. /\ UNCHANGED <<releases, targets, manifests, history, device>>
        /\ job'.release = job.release /\ job'.enables = job.enables /\ job'.step = "bundles"
        /\ inferred' = [inferred EXCEPT ![v] = IF @ = None THEN releases[job.release].fp ELSE @]
    BY <1>t, <1>3 DEF PersistTargets, JobRow
  <2>2. \A u \in Version : inferred[u] # None \/ u # v => inferred'[u] = inferred[u]
    BY <1>t, <2>1
  <2>3. \A r \in Release : Resolved(r) \subseteq Resolved(r)'
    BY <2>1, <2>2 DEF Resolved
  <2>4. Resolved(job.release)' = Resolved(job.release)
    BY <2>1, <2>2 DEF Resolved
  <2> QED
    BY <1>1, <2>1, <2>3, <2>4 DEF Active, AtRest
<1>4. CASE EnsureBundle \/ PutManifest \/ StartOver
  <2>1. /\ UNCHANGED <<releases, targets, inferred, history, device>>
        /\ job'.release = job.release /\ job'.enables = job.enables /\ ~AtRest'
        /\ ~PutManifest => UNCHANGED manifests
    <3>1. CASE EnsureBundle
      BY <1>t, <3>1 DEF EnsureBundle, Goes, JobRow, AtRest
    <3>2. CASE PutManifest
      BY <3>2 DEF PutManifest, AtRest
    <3>3. CASE StartOver
      BY <1>t, <3>3 DEF StartOver, Goes, JobRow, AtRest
    <3> QED
      BY <1>4, <3>1, <3>2, <3>3
  <2>2. \A r : Resolved(r)' = Resolved(r)
    BY <2>1 DEF Resolved
  <2> QED
    BY <1>1, <2>1, <2>2 DEF Active
<1> QED
  BY <1>2, <1>3, <1>4 DEF Continues

\* What a job may do to a version, and what the version's manifests should say, is
\* settled when it is inserted.
LEMMA ContinueKeeps ==
    ASSUME ManifestAssumption, TInv, Continues
    PROVE  /\ ManifestVersions' = ManifestVersions
           /\ \A v : /\ Known(v)' = Known(v) /\ Chain(v)' = Chain(v)
                     /\ ServedChain(v)' = ServedChain(v) /\ Served(v)' = Served(v)
<1>1. /\ \A r \in Release : Published(r)' = Published(r)
      /\ Effective' = Effective
  BY ContinueFacts DEF Published, Effective
<1>2. \A v : Chain(v)' = Chain(v) /\ ServedChain(v)' = ServedChain(v)
  BY <1>1, ContinueFacts DEF Chain, ServedTo, ServedChain, Effective
<1>3. \A v : Historical(v)' = Historical(v)
  BY ContinueFacts DEF Historical
<1>4. \A v : Known(v)' = Known(v)
  BY <1>3, ContinueFacts DEF Known
<1>5. \A v : Served(v)' = Served(v)
  BY <1>2, ContinueFacts, ServedKept DEF ServedChain
<1>6. ManifestVersions' = ManifestVersions
  BY <1>2, ContinueFacts DEF ManifestVersions
<1> QED
  BY <1>2, <1>4, <1>5, <1>6

\* A new job: only its release changes, which is not one that a version it is not
\* bound to is served.
Inserts(r) ==
    /\ AtRest /\ Active' /\ job'.step = "queued" /\ job'.release = r
    /\ UNCHANGED <<targets, inferred, manifests, device>>
    /\ \A s \in Release \ {r} : releases'[s] = releases[s]
    /\ \/ releases[r].status = "absent" /\ UNCHANGED history
       \/ /\ releases[r].status \in {"published", "disabled"}
          /\ releases'[r].status \in {"published", "disabled"}
          /\ releases'[r].hash = releases[r].hash /\ releases'[r].fp = releases[r].fp
          /\ \/ releases'[r].version = releases[r].version /\ UNCHANGED history
             \/ history' # {}

LEMMA InsertFacts ==
    ASSUME ManifestAssumption, TInv, NEW r \in Release, CreateRelease(r) \/ PatchRelease(r)
    PROVE  Inserts(r)
<1>t. releases \in [Release -> ReleaseRow] /\ job \in JobRow
  BY DEF TInv, TypeOK
<1>1. CASE CreateRelease(r)
  BY <1>t, <1>1 DEF CreateRelease, InsertJob, Inserts, Active, AtRest
<1>2. CASE PatchRelease(r)
  <2>1. PICK status \in {"published", "disabled"}, v \in Version, partial \in BOOLEAN :
          /\ InsertJob(r, status = "published" /\ ~Published(r))
          /\ releases' = [releases EXCEPT ![r].version = v, ![r].partial = partial,
                             ![r].status = IF status = "disabled" THEN "disabled" ELSE @]
          /\ history' = IF v = releases[r].version THEN history ELSE history \cup {"retargeted"}
    BY <1>2 DEF PatchRelease
  <2>2. AtRest /\ Active' /\ job'.step = "queued" /\ job'.release = r
    BY <2>1 DEF InsertJob, Active, AtRest
  <2>3. /\ releases[r].status \in {"published", "disabled"}
        /\ UNCHANGED <<targets, inferred, manifests, device>>
    BY <1>2 DEF PatchRelease
  <2>4. /\ releases'[r].status \in {"published", "disabled"}
        /\ releases'[r].hash = releases[r].hash /\ releases'[r].fp = releases[r].fp
        /\ releases'[r].version = v
    BY <1>t, <2>1, <2>3 DEF ReleaseRow
  <2>5. \A s \in Release \ {r} : releases'[s] = releases[s]
    BY <1>t, <2>1
  <2> QED
    BY <2>1, <2>2, <2>3, <2>4, <2>5 DEF Inserts
<1> QED
  BY <1>1, <1>2

LEMMA InsertKeeps ==
    ASSUME ManifestAssumption, TInv, DInv, Regular, NEW r \in Release, Inserts(r), history' = {},
           history = {}
    PROVE  Regular'
<1>1. releases[r].status = "absent" => targets[r] = {}
  BY DEF DInv, Downloadable
<1>2. \A s \in Release : targets'[s] \subseteq Resolved(s)'
  <2>1. \A s \in Release \ {r} : Resolved(s)' = Resolved(s)
    BY DEF Inserts, Resolved
  <2>2. releases[r].status # "absent" => Resolved(r)' = Resolved(r)
    BY DEF Inserts, Resolved
  <2> QED
    BY <1>1, <2>1, <2>2 DEF Regular, Inserts
<1>3. ASSUME NEW v \in Version, NEW p \in Package, manifests'[v][p] # NotFound
      PROVE  p \in Known(v)' \cup {None}
  <2>1. p \in Historical(v) \cup {None}
    BY <1>3 DEF Regular, Inserts, Known, Active
  <2>2. Historical(v) \subseteq Historical(v)'
    BY DEF Inserts, Historical
  <2> QED
    BY <2>1, <2>2 DEF Known
<1>4. ASSUME NEW v \in Version, v \notin ManifestVersions' PROVE Settled(v)'
  <2>1. v \notin targets[r]
    BY <1>4 DEF ManifestVersions, Inserts
  <2>2. ServedChain(v)' = ServedChain(v) /\ r \notin ServedChain(v)
    BY <2>1 DEF ServedChain, Published, Inserts
  <2>3. Served(v)' = Served(v)
    BY <2>2, ServedKept DEF ServedChain, Inserts
  <2>4. Settled(v)
    BY DEF Regular, Inserts
  <2> QED
    BY <2>3, <2>4 DEF Settled, Written, Inserts
<1> QED
  BY <1>2, <1>3, <1>4 DEF Regular, Inserts, Active

LEMMA ContinueKeepsRegular ==
    ASSUME ManifestAssumption, TInv, Regular, Continues
    PROVE  Regular'
<1>1. Active /\ Active' /\ UNCHANGED targets
  BY ContinueFacts
<1>2. \A r \in Release : targets'[r] \subseteq Resolved(r)'
  BY <1>1, ContinueFacts DEF Regular
<1>3. CASE ~PutManifest
  <2>1. UNCHANGED manifests
    BY <1>3, ContinueFacts
  <2> QED
    BY <1>1, <1>2, <2>1, ContinueKeeps DEF Regular, Settled, Written, Active
<1>4. CASE PutManifest
  <2>1. PICK key \in Stale :
          manifests' = [manifests EXCEPT ![key[1]][key[2]] = ManifestOf(Chain(key[1]))]
    BY <1>4 DEF PutManifest
  <2>2. /\ key[1] \in ManifestVersions /\ key[2] \in Package
        /\ key[2] \in KnownHashes(key[1]) \cup {None}
    BY <2>1 DEF Stale
  <2>3. KnownHashes(key[1]) = Known(key[1])
    BY <1>1 DEF KnownHashes, Known
  <2>4. manifests \in [Version -> [Package -> Manifest]]
    BY DEF TInv, TypeOK
  <2>5. \A v \in Version, p \in Package :
          v # key[1] \/ p # key[2] => manifests'[v][p] = manifests[v][p]
    BY <2>1, <2>4
  <2>6. ASSUME NEW v \in Version, NEW p \in Package, manifests'[v][p] # NotFound
        PROVE  p \in Known(v)' \cup {None}
    <3>1. Known(v)' = Known(v)
      BY ContinueKeeps
    <3> QED
      BY <2>2, <2>3, <2>5, <2>6, <3>1 DEF Regular
  <2>7. ASSUME NEW v \in Version, v \notin ManifestVersions' PROVE Settled(v)'
    <3>1. v \notin ManifestVersions /\ Served(v)' = Served(v)
      BY <2>7, ContinueKeeps
    <3>2. Settled(v) /\ v # key[1]
      BY <1>1, <2>2, <3>1 DEF Regular
    <3>3. \A p \in Package : manifests'[v][p] = manifests[v][p]
      BY <2>5, <3>2
    <3>4. None \in Package
      BY DEF Package
    <3> QED
      BY <3>1, <3>2, <3>3, <3>4 DEF Settled, Written
  <2> QED
    BY <1>1, <1>2, <2>6, <2>7 DEF Regular, Active
<1> QED
  BY <1>3, <1>4

\* What the job put into effect is what is published when it has succeeded.
LEMMA FinalizeFacts ==
    ASSUME ManifestAssumption, TInv, DInv, Finalize
    PROVE  /\ Active /\ AtRest' /\ job.release \in Release
           /\ UNCHANGED <<inferred, manifests, device, history>>
           /\ targets' = [targets EXCEPT ![job.release] = Resolved(job.release)]
           /\ \A r \in Release :
                /\ releases'[r].hash = releases[r].hash /\ releases'[r].partial = releases[r].partial
                /\ releases'[r].version = releases[r].version /\ releases'[r].fp = releases[r].fp
           /\ \A r \in Release \ {job.release} : releases'[r] = releases[r]
           /\ releases'[job.release].status \in {"published", "disabled"}
           /\ \A v : ServedChain(v)' = Chain(v) /\ Served(v)' = ManifestOf(Chain(v))
           /\ \A v : Historical(v)' \subseteq KnownHashes(v)
           /\ \A v \in ManifestVersions, p \in Package :
                v \in Version /\ p \in KnownHashes(v) \cup {None} =>
                  manifests'[v][p] = Served(v)'
<1>t. releases \in [Release -> ReleaseRow] /\ job \in JobRow
      /\ targets \in [Release -> SUBSET Version]
  BY DEF TInv, TypeOK
<1>1. /\ job.step = "manifests" /\ Active /\ job.release \in Release
  BY DEF Finalize, Active, AtRest, TInv, Existing
<1>2. AtRest' /\ job'.release = job.release /\ UNCHANGED <<inferred, manifests, device, history>>
  BY <1>t DEF Finalize, AtRest, JobRow
<1>3. targets' = [targets EXCEPT ![job.release] = Resolved(job.release)]
  BY <1>1 DEF Finalize, DInv
<1>4. /\ \A r \in Release :
           /\ releases'[r].hash = releases[r].hash /\ releases'[r].partial = releases[r].partial
           /\ releases'[r].version = releases[r].version /\ releases'[r].fp = releases[r].fp
      /\ \A r \in Release \ {job.release} : releases'[r] = releases[r]
      /\ releases'[job.release].status =
           LET status == releases[job.release].status IN
             IF status \in {"uploaded", "processing"} \/ (status = "disabled" /\ job.enables)
             THEN "published" ELSE status
  BY <1>t, <1>1 DEF Finalize, ReleaseRow
<1>5. \A r \in Release : Published(r)' <=> r \in Effective
  BY <1>4 DEF Published, Effective
<1>6. \A v : ServedChain(v)' = Chain(v)
  BY <1>t, <1>1, <1>3, <1>5 DEF ServedChain, Chain, ServedTo, Effective
<1>7. ASSUME NEW v PROVE Served(v)' = ManifestOf(Chain(v))
  <2>1. Chain(v) \in SUBSET Release
    BY DEF Chain, Effective
  <2>2. Newest(Chain(v)) # None => Newest(Chain(v)) \in Release
    BY <2>1, NewestExists
  <2> DEFINE S == Chain(v)
  <2>3. ManifestOf(ServedChain(v))' = IF Newest(S) = None
          THEN [target |-> None, partial |-> FALSE, previous |-> None]
          ELSE [target |-> Newest(S), partial |-> releases'[Newest(S)].partial,
                previous |-> Newest(S \ {Newest(S)})]
    BY <1>6 DEF ManifestOf
  <2> QED
    BY <1>4, <2>2, <2>3 DEF ManifestOf, Served
<1>8. ASSUME NEW v PROVE Historical(v)' \subseteq KnownHashes(v)
  BY <1>t, <1>1, <1>3, <1>4 DEF Historical, KnownHashes
<1>9. ASSUME NEW v \in ManifestVersions, NEW p \in Package, v \in Version,
             p \in KnownHashes(v) \cup {None}
      PROVE  manifests'[v][p] = Served(v)'
  <2>1. <<v, p>> \notin Stale
    BY DEF Finalize
  <2> QED
    BY <1>2, <1>7, <1>9, <2>1 DEF Stale
<1>10. releases'[job.release].status \in {"published", "disabled"}
  <2>1. releases[job.release].status \in {"uploaded", "processing", "published", "disabled"}
    BY <1>t, <1>1 DEF Active, TInv, Existing, ReleaseRow
  <2> QED
    BY <1>4, <2>1
<1> QED
  BY <1>1, <1>2, <1>3, <1>4, <1>6, <1>7, <1>8, <1>9, <1>10

\* A version the job has no part in has no effective release, now or before.
LEMMA OthersAreNotServed ==
    ASSUME TInv, Active, NEW v \in Version, v \notin ManifestVersions
    PROVE  ServedChain(v) = {} /\ Chain(v) = {}
BY DEF ManifestVersions, ServedChain, Chain, Effective, ServedTo

LEMMA FinalizeKeepsRegular ==
    ASSUME ManifestAssumption, TInv, DInv, Regular, Finalize
    PROVE  Regular'
<1> DEFINE r == job.release
<1>t. targets \in [Release -> SUBSET Version]
  BY DEF TInv, TypeOK
<1>1. /\ Active /\ AtRest' /\ ~Active' /\ r \in Release
      /\ UNCHANGED <<inferred, manifests>>
      /\ targets' = [targets EXCEPT ![r] = Resolved(r)]
  BY FinalizeFacts DEF Active
<1>2. \A s \in Release : targets[s] \subseteq targets'[s] /\ Resolved(s)' = Resolved(s)
  BY <1>t, <1>1, FinalizeFacts DEF Regular, Resolved
<1>3. \A s \in Release : targets'[s] \subseteq Resolved(s)'
  BY <1>t, <1>1, <1>2 DEF Regular
<1>4. ASSUME NEW v \in Version PROVE Known(v) \subseteq Known(v)'
  <2>1. Historical(v) \subseteq Historical(v)'
    BY <1>2, FinalizeFacts DEF Historical
  <2>2. ASSUME v \in Resolved(r) PROVE releases[r].hash \in Historical(v)'
    <3>1. v \in targets'[r]
      BY <1>t, <1>1, <2>2
    <3>2. releases'[r].status \in {"published", "disabled"}
      BY FinalizeFacts
    <3> QED
      BY <1>1, <3>1, <3>2, FinalizeFacts DEF Historical
  <2> QED
    BY <1>1, <2>1, <2>2 DEF Known
<1>5. ASSUME NEW v \in Version PROVE Settled(v)'
  <2>1. CASE v \in ManifestVersions
    <3>1. \A p \in Package : manifests[v][p] # NotFound => p \in KnownHashes(v) \cup {None}
      BY <1>1 DEF Regular, Known, KnownHashes
    <3>2. \A p \in Package : p \in KnownHashes(v) \cup {None} => manifests'[v][p] = Served(v)'
      BY <2>1, FinalizeFacts
    <3>3. Served(v)' # NotFound
      <4>1. Chain(v) \in SUBSET Release
        BY DEF Chain, Effective
      <4> QED
        BY <4>1, FinalizeFacts, ManifestsSaySomething
    <3>4. None \in Package
      BY DEF Package
    <3> QED
      BY <1>1, <3>1, <3>2, <3>3, <3>4 DEF Settled, Written
  <2>2. CASE v \notin ManifestVersions
    <3>1. ServedChain(v) = {} /\ Chain(v) = {}
      BY <1>1, <2>2, OthersAreNotServed
    <3>2. Served(v)' = Served(v)
      BY <3>1, FinalizeFacts DEF Served
    <3>3. Settled(v)
      BY <1>1, <2>2 DEF Regular
    <3> QED
      BY <1>1, <3>2, <3>3 DEF Settled, Written
  <2> QED
    BY <2>1, <2>2
<1>6. \A v \in Version, p \in Package : manifests'[v][p] # NotFound => p \in Known(v)' \cup {None}
  BY <1>1, <1>4 DEF Regular
<1> QED
  BY <1>1, <1>3, <1>5, <1>6 DEF Regular

LEMMA RegularNext ==
    ASSUME ManifestAssumption, TInv, DInv, history = {} => Regular, [Next]_vars, history' = {}
    PROVE  Regular'
<1>1. ASSUME NEW r \in Release, CreateRelease(r) \/ PatchRelease(r) PROVE Regular'
  <2>1. Inserts(r)
    BY <1>1, InsertFacts
  <2> QED
    BY <2>1, InsertKeeps DEF Inserts
<1>2. CASE Continues
  BY <1>2, ContinueFacts, ContinueKeepsRegular
<1>3. CASE Finalize
  BY <1>3, FinalizeFacts, FinalizeKeepsRegular
<1>4. CASE GiveUp
  BY <1>4 DEF GiveUp
<1>5. CASE (\E v \in Version : Check(v)) \/ UNCHANGED vars
  <2>1. UNCHANGED <<releases, targets, inferred, job, manifests, history>>
    BY <1>5 DEF Check, vars
  <2>2. Regular
    BY <2>1
  <2>3. /\ \A r : Resolved(r)' = Resolved(r)
        /\ \A v : Historical(v)' = Historical(v) /\ Chain(v)' = Chain(v)
                  /\ ServedChain(v)' = ServedChain(v)
        /\ (Active' <=> Active) /\ (AtRest' <=> AtRest)
    BY <2>1 DEF Resolved, Historical, Chain, Effective, ServedTo, ServedChain, Published, Active,
                AtRest
  <2>4. \A v : Known(v)' = Known(v) /\ Served(v)' = Served(v)
    BY <2>1, <2>3 DEF Known, Served, ManifestOf
  <2>5. ManifestVersions' = ManifestVersions
    BY <2>1, <2>3 DEF ManifestVersions
  <2> QED
    BY <2>1, <2>2, <2>3, <2>4, <2>5 DEF Regular, Settled, Written
<1> QED
  BY <1>1, <1>2, <1>3, <1>4, <1>5 DEF Next, Continues

\* Nobody takes a manifest away, and a device moves to what one offers.
LEMMA WrittenNext ==
    ASSUME ManifestAssumption, TInv, Equipped, [Next]_vars PROVE Equipped'
<1>1. ASSUME NEW v \in Version, Written(v) PROVE Written(v)'
  <2>1. CASE PutManifest
    <3>1. PICK key \in Stale :
            manifests' = [manifests EXCEPT ![key[1]][key[2]] = ManifestOf(Chain(key[1]))]
      BY <2>1 DEF PutManifest
    <3>2. ManifestOf(Chain(key[1])) # NotFound
      <4>1. Chain(key[1]) \in SUBSET Release
        BY DEF Chain, Effective
      <4> QED
        BY <4>1, ManifestsSaySomething
    <3>3. manifests \in [Version -> [Package -> Manifest]]
      BY DEF TInv, TypeOK
    <3> QED
      BY <1>1, <3>1, <3>2, <3>3 DEF Written
  <2>2. CASE ~PutManifest
    <3>1. UNCHANGED manifests
      BY <2>2 DEF Next, CreateRelease, PatchRelease, Claim, PersistTargets, EnsureBundle, Finalize,
                  StartOver, GiveUp, Check, vars
    <3> QED
      BY <1>1, <3>1 DEF Written
  <2> QED
    BY <2>1, <2>2
<1>2. ASSUME NEW v \in Version, Check(v) PROVE Equipped'
  <2>1. PICK eligible \in BOOLEAN :
          LET next == Followed(Fetched(v, device.package), device.package, eligible) IN
            /\ next \notin {None, device.package}
            /\ device' = [version |-> v, package |-> next]
    BY <1>2 DEF Check
  <2>2. Fetched(v, device.package) # NotFound
    BY <2>1 DEF Followed
  <2>3. device.package \in Package /\ None \in Package
    BY DEF TInv, TypeOK, Package
  <2>4. Written(v)
    BY <2>2, <2>3 DEF Written, Fetched
  <2>5. device'.version = v
    BY <2>1
  <2> QED
    BY <1>1, <2>4, <2>5 DEF Written, Equipped
<1>3. CASE ~\E v \in Version : Check(v)
  <2>1. UNCHANGED device
    BY <1>3 DEF Next, CreateRelease, PatchRelease, Claim, PersistTargets, EnsureBundle, PutManifest,
                Finalize, StartOver, GiveUp, vars
  <2> QED
    BY <1>1, <2>1 DEF Written, Equipped
<1> QED
  BY <1>2, <1>3

LEMMA FInvInit == ManifestAssumption /\ Init => FInv
<1> SUFFICES ASSUME ManifestAssumption, Init PROVE FInv
  OBVIOUS
<1>1. \A v : ServedChain(v) = {}
  BY DEF Init, ServedChain, Published, NoRelease
<1>2. \A v \in Version, p \in Package : manifests[v][p] = NotFound
  BY DEF Init
<1>3. Regular
  BY <1>2 DEF Init, Regular, Settled, Written, Active, AtRest
<1> QED
  BY <1>1, <1>3 DEF Init, FInv, Equipped

LEMMA FInvNext == ManifestAssumption /\ TInv /\ DInv /\ FInv /\ [Next]_vars => FInv'
<1> SUFFICES ASSUME ManifestAssumption, TInv, DInv, FInv, [Next]_vars PROVE FInv'
  OBVIOUS
<1>1. history' = {} => Regular'
  BY RegularNext DEF FInv
<1>2. Equipped'
  BY WrittenNext DEF FInv
<1>3. ASSUME job'.step = "succeeded", NEW v \in Version, ServedChain(v)' # {},
             NEW p \in Historical(v)' \cup {None}
      PROVE  manifests'[v][p] = Served(v)'
  <2>1. CASE Finalize
    <3>1. Chain(v) # {} /\ p \in KnownHashes(v) \cup {None}
      BY <1>3, <2>1, FinalizeFacts
    <3>2. v \in ManifestVersions
      BY <3>1 DEF ManifestVersions
    <3>3. p \in Package
      <4>1. releases' \in [Release -> ReleaseRow]
        BY TInvNext DEF TInv, TypeOK
      <4> QED
        BY <4>1 DEF Historical, ReleaseRow, Package
    <3> QED
      BY <2>1, <3>1, <3>2, <3>3, FinalizeFacts
  <2>2. CASE ~Finalize
    <3>1. UNCHANGED <<releases, targets, job, manifests>>
      <4>1. job \in JobRow
        BY DEF TInv, TypeOK
      <4>2. ASSUME NEW r \in Release, CreateRelease(r) \/ PatchRelease(r) PROVE FALSE
        BY <1>3, <4>2, InsertFacts DEF Inserts
      <4>3. CASE Claim \/ PersistTargets \/ EnsureBundle \/ PutManifest \/ StartOver
        BY <1>3, <4>3, ContinueFacts DEF Continues, Active, AtRest
      <4>4. ~GiveUp
        BY <1>3, <4>1 DEF GiveUp, JobRow
      <4> QED
        BY <2>2, <4>2, <4>3, <4>4 DEF Next, Check, vars
    <3>2. /\ ServedChain(v)' = ServedChain(v) /\ Historical(v)' = Historical(v)
          /\ Served(v)' = Served(v)
      BY <3>1 DEF ServedChain, Published, Historical, Served, ManifestOf
    <3> QED
      BY <1>3, <3>1, <3>2 DEF FInv
  <2> QED
    BY <2>1, <2>2
<1> QED
  BY <1>1, <1>2, <1>3 DEF FInv

LEMMA FInvImplies == ASSUME ManifestAssumption, TInv, FInv PROVE DevicesFollowTheReleases
<1> SUFFICES ASSUME job.step = "succeeded",
                    NEW v \in Version, NEW p \in Package, NEW eligible \in BOOLEAN,
                    \/ p \in Historical(v) \cup {None} /\ ServedChain(v) # {}
                    \/ history = {} /\ device = [version |-> v, package |-> p]
             PROVE  Followed(Fetched(v, p), p, eligible) = Followed(Served(v), p, eligible)
  BY DEF DevicesFollowTheReleases, Served
<1>1. ServedChain(v) \in SUBSET Release /\ None \in Package
  BY DEF ServedChain, Package
<1>2. /\ Served(v) # NotFound
      /\ ServedChain(v) = {} => Served(v).target = None
  BY <1>1, ManifestsSaySomething DEF Served
<1>3. CASE p \in Historical(v) \cup {None} /\ ServedChain(v) # {}
  <2>1. manifests[v][p] = Served(v)
    BY <1>3 DEF FInv
  <2> QED
    BY <1>2, <2>1 DEF Fetched
<1>4. CASE history = {} /\ device = [version |-> v, package |-> p]
  <2>1. Settled(v)
    BY <1>4 DEF FInv, Regular, AtRest
  <2>2. CASE Written(v)
    <3>1. Fetched(v, p) = Served(v)
      BY <1>1, <2>1, <2>2 DEF Settled, Fetched
    <3> QED
      BY <3>1
  <2>3. CASE ~Written(v)
    <3>1. p = None
      BY <1>4, <2>3 DEF FInv, Equipped
    <3>2. Fetched(v, p) = NotFound
      BY <1>1, <2>3 DEF Written, Fetched
    <3>3. ServedChain(v) = {}
      BY <1>1, <1>2, <2>3, <3>1 DEF FInv, Written
    <3> QED
      BY <1>2, <3>1, <3>2, <3>3 DEF Followed
  <2> QED
    BY <2>2, <2>3
<1> QED
  BY <1>3, <1>4

\* Once its latest job has succeeded, what a device is served says what the published
\* releases of its version say, for every package the server knows of the version;
\* and for any device at all, when no job was given up and no release retargeted
\* (diffPlan, buildKnownHashSet, finalizeReleaseSuccess, fetchManifest).
THEOREM DevicesAlwaysFollow ==
    ASSUME ManifestAssumption
    PROVE  Spec => []DevicesFollowTheReleases
<1>1. Init => TInv /\ DInv /\ FInv
  BY TInvInit, DInvInit, FInvInit
<1>2. TInv /\ DInv /\ FInv /\ [Next]_vars => TInv' /\ DInv' /\ FInv'
  BY TInvNext, DInvNext, FInvNext
<1>3. TInv /\ FInv => DevicesFollowTheReleases
  BY FInvImplies
<1> QED
  BY <1>1, <1>2, <1>3, PTL DEF Spec

-----------------------------------------------------------------------------
(* the composition with Metrics                                             *)

Assumptions == ManifestAssumption /\ Reports!Assumptions

LEMMA ReportsStart == BothInit => Reports!Init
BY DEF BothInit

LEMMA ReportsStep == [BothNext]_<<kind, vars, reports>> => [Reports!Next]_(Reports!vars)
BY DEF BothNext, reports, Reports!vars, Reports!device, Reports!history, Reports!bounds

LEMMA ManifestsStep == [BothNext]_<<kind, vars, reports>> => [Next]_vars
BY DEF BothNext

LEMMA ReportsInv == ASSUME Assumptions PROVE BothSpec => []Reports!IInv
<1>1. BothInit => Reports!IInv
  BY ReportsStart, Reports!IInvInit DEF Assumptions
<1>2. Reports!IInv /\ [BothNext]_<<kind, vars, reports>> => Reports!IInv'
  BY ReportsStep, Reports!IInvStep DEF Assumptions
<1> QED
  BY <1>1, <1>2, PTL DEF BothSpec

\* Rows and daily counts added up show each stored event once, whatever is sent
\* again, fails or is aborted between (listDeploymentTimeseries,
\* foldExpiredMetricDays).
THEOREM CountsStayExact == ASSUME Assumptions PROVE BothSpec => []CountsAreExact
<1>1. Reports!IInv => CountsAreExact
  BY Reports!ExactCounts DEF Reports!IInv, CountsAreExact, Assumptions
<1> QED
  BY <1>1, ReportsInv, PTL

\* No failure is stored beside an application of a later or the same day, in any
\* order of arrival (persistWithFailureSupersession).
THEOREM FailuresAreSuperseded == ASSUME Assumptions PROVE BothSpec => []FailureSuperseded
<1>1. Reports!IInv => FailureSuperseded
  BY DEF Reports!IInv, FailureSuperseded
<1> QED
  BY <1>1, ReportsInv, PTL

\* PostgreSQL never has a fold to abort (waitForMetricFold).
THEOREM FoldsNeverDeadlock == ASSUME Assumptions PROVE BothSpec => []FoldNeverDeadlocks
<1>1. Reports!IInv => FoldNeverDeadlocks
  BY Reports!NoFoldInACircle DEF Reports!IInv, Reports!MInv, FoldNeverDeadlocks, Assumptions
<1> QED
  BY <1>1, ReportsInv, PTL

\* No row is left behind the watermark (isExpiredMetricEvent, foldExpiredMetricDays).
THEOREM NothingStaysBehind == ASSUME Assumptions PROVE BothSpec => []NothingLeftBehind
<1>1. Reports!IInv => NothingLeftBehind
  BY DEF Reports!IInv, Reports!MInv, NothingLeftBehind
<1> QED
  BY <1>1, ReportsInv, PTL

\* The variables of both modules have their types.
THEOREM BothTypesCorrect == ASSUME Assumptions PROVE BothSpec => []BothTypeOK
<1>1. BothInit => TInv
  BY TInvInit DEF BothInit, Assumptions
<1>2. TInv /\ [BothNext]_<<kind, vars, reports>> => TInv'
  BY ManifestsStep, TInvNext DEF Assumptions
<1>3. TInv /\ Reports!IInv => BothTypeOK
  BY DEF BothTypeOK, TInv, Reports!IInv, Reports!MInv, Reports!TInv
<1> QED
  BY <1>1, <1>2, <1>3, ReportsInv, PTL DEF BothSpec
================================================================================
