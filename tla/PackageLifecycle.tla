--------------------------- MODULE PackageLifecycle ---------------------------
(***************************************************************************)
(* The on-device package lifecycle of the React Native SDK on Android:     *)
(* state.json, the package directories, the choice of the bundle to boot,  *)
(* the launch-attempt budget and the crash rollback                        *)
(* (client/android/src/main/java/io/codemagic/patch).                      *)
(*                                                                         *)
(* All this work runs on one `io' thread in the order it was submitted     *)
(* (variable queue).  A task that writes once is one action; a task that   *)
(* writes several files holds the thread (variable io) and the process may *)
(* die between two writes.  The environment is JavaScript, which submits   *)
(* installs, confirmations and reverts, the host app, which asks for the   *)
(* bundle to boot or reload, and the OS, which starts, shows and kills the *)
(* process.                                                                *)
(***************************************************************************)
EXTENDS Integers, Sequences

CONSTANTS
    Hash,               \* package hashes
    Version,            \* binary (store) versions of the host app
    None,               \* the absent pointer
    MaxLaunchAttempts,  \* CodemagicPatchMaxLaunchAttempts
    CanDefer,           \* the context leads to an Application, so a charge can wait
    MaxUncounted,       \* bound: launches that die before their deferred charge
    MaxQueue            \* bound: io tasks, and activity callbacks, waiting at once

ASSUME ConstantsAssumption ==
    /\ None \notin Hash \cup Version
    /\ MaxLaunchAttempts \in Nat \ {0}
    /\ CanDefer \in BOOLEAN
    /\ MaxUncounted \in Nat
    /\ MaxQueue \in Nat

VARIABLES
    state,      \* state/state.json
    contents,   \* packages/<hash>/contents promoted into place
    meta,       \* binary_version in packages/<hash>/update.json
    events,     \* hashes with a crash_rollback Failed event on disk
    binary,     \* the binary version the device has installed
    alive,      \* the app process exists
    visible,    \* the process is foreground or visible
    selection,  \* CodemagicPatch.launchSelection
    deferred,   \* CodemagicPatch.deferredChargeHash
    callbacks,  \* charges registered for the next activity, in order
    queue,      \* tasks submitted to the io thread
    io,         \* the multi-write task the io thread is in
    launches,   \* history: user-facing launches of the staged package
    uncounted,  \* history: those whose process died before the charge landed
    seen,       \* history: this process's boot of it is among the launches
    early       \* history: charges written for a boot the user had not seen

disk    == <<state, contents, meta, events>>
process == <<alive, visible, selection, deferred, callbacks, queue, io>>
history == <<launches, uncounted, seen, early>>
vars    == <<disk, binary, process, history>>

Pointer == Hash \cup {None}

DiskState ==
    [current : Pointer, previous : Pointer, pending : Pointer,
     failed : Pointer, started : Pointer, count : Nat]

Selection == [kind : {"none", "pending", "current", "embedded"}, hash : Pointer]
IoStep    == [op : {"idle", "promoted", "recorded", "reporting"},
              hash : Pointer, current : Pointer]
Task      == [kind : {"select", "confirm", "revert"}, hash : {None}] \cup
             [kind : {"install", "charge"}, hash : Hash]

TypeOK ==
    /\ state \in DiskState
    /\ contents \subseteq Hash
    /\ meta \in [Hash -> Version \cup {None}]
    /\ events \subseteq Hash
    /\ binary \in Version
    /\ alive \in BOOLEAN
    /\ visible \in BOOLEAN
    /\ selection \in Selection
    /\ deferred \in Pointer
    /\ callbacks \in Seq(Hash)
    /\ queue \in Seq(Task)
    /\ io \in IoStep
    /\ launches \in Nat
    /\ uncounted \in Nat
    /\ seen \in BOOLEAN
    /\ early \in Int

-----------------------------------------------------------------------------
(* state.json and what is written to it                                     *)

EmptyState == [current |-> None, previous |-> None, pending |-> None,
               failed |-> None, started |-> None, count |-> 0]

Pointers(s) == {s.pending, s.current, s.previous} \ {None}

ClearPendingLaunchTracking(s) == [s EXCEPT !.started = None, !.count = 0]

ChargePendingLaunch(s, h) ==
    [s EXCEPT !.started = h, !.count = IF s.started = h THEN s.count + 1 ELSE 1]

\* faulty variant: a staged package inherits the tracking of the one before it
StagedKeepTracking(s, h, cur) ==
    [s EXCEPT !.previous = IF cur \notin {None, h} THEN cur ELSE s.previous,
              !.pending = h]

\* mutateState at the end of PackageInstaller.install; cur was read at its start
Staged(s, h, cur) ==
    ClearPendingLaunchTracking(
        [s EXCEPT !.previous = IF cur \notin {None, h} THEN cur ELSE s.previous,
                  !.pending = h])

\* faulty variant: a confirmation gives one attempt back instead of clearing
ConfirmedRefund(s) ==
    IF s.pending = None THEN s
    ELSE [s EXCEPT !.current = s.pending, !.pending = None, !.started = None,
                   !.count = s.count - 1]

ConfirmedState(s) ==
    IF s.pending = None THEN s
    ELSE ClearPendingLaunchTracking([s EXCEPT !.current = s.pending, !.pending = None])

EmbeddedState(s) ==
    ClearPendingLaunchTracking(
        [s EXCEPT !.current = None, !.previous = None, !.pending = None])

\* faulty variant: a rollback gives the package a new budget
RolledBackToRetry(s) == ClearPendingLaunchTracking(s)

RolledBack(s) ==
    ClearPendingLaunchTracking([s EXCEPT !.failed = s.pending, !.pending = None])

MetadataMatchesBinary(h) == meta[h] = binary

BudgetSpent(s) ==
    /\ s.started # None
    /\ s.started = s.pending
    /\ s.count >= MaxLaunchAttempts

ForeignState(s) == \E h \in Pointers(s) : ~MetadataMatchesBinary(h)

\* faulty variants: one attempt too many; metadata of another binary accepted
PreparedOneMore(s) ==
    IF ForeignState(s) THEN EmptyState
    ELSE IF s.started = None THEN s
    ELSE IF s.started # s.pending THEN ClearPendingLaunchTracking(s)
    ELSE IF s.count <= MaxLaunchAttempts THEN s
    ELSE RolledBack(s)

PreparedAnyBinary(s) ==
    IF s.started = None THEN s
    ELSE IF s.started # s.pending THEN ClearPendingLaunchTracking(s)
    ELSE IF s.count < MaxLaunchAttempts THEN s
    ELSE RolledBack(s)

\* the state prepareBootState leaves behind
Prepared(s) ==
    IF ForeignState(s) THEN EmptyState
    ELSE IF s.started = None THEN s
    ELSE IF s.started # s.pending THEN ClearPendingLaunchTracking(s)
    ELSE IF s.count < MaxLaunchAttempts THEN s
    ELSE RolledBack(s)

IsBootEligible(h) == h \in contents /\ MetadataMatchesBinary(h)

\* faulty variant: the failed record is not consulted
PendingBootsEvenFailed == state.pending # None /\ IsBootEligible(state.pending)

PendingBoots == /\ state.pending # None
                /\ state.pending # state.failed
                /\ IsBootEligible(state.pending)

CurrentBoots == /\ state.current # None
                /\ IsBootEligible(state.current)

-----------------------------------------------------------------------------
(* the process and its io thread                                            *)

SelectedAs(k, h) == [kind |-> k, hash |-> h]
NoSelection      == SelectedAs("none", None)
Idle             == [op |-> "idle", hash |-> None, current |-> None]
Ask(k, h)        == [kind |-> k, hash |-> h]

\* currentLaunchPackageHash, filtered as nativeBootPackageHash does
RunningHash == IF selection.hash # None /\ IsBootEligible(selection.hash)
               THEN selection.hash ELSE None

\* the io thread is about to run a task of kind k
AtHead(k) == alive /\ io = Idle /\ queue # <<>> /\ Head(queue).kind = k

Submit(t) == /\ alive
             /\ Len(queue) < MaxQueue
             /\ queue' = Append(queue, t)

NothingLaunched == launches' = 0 /\ uncounted' = 0 /\ early' = 0

Init ==
    /\ state = EmptyState
    /\ contents = {}
    /\ meta = [h \in Hash |-> None]
    /\ events = {}
    /\ binary \in Version
    /\ alive = FALSE
    /\ visible = FALSE
    /\ selection = NoSelection
    /\ deferred = None
    /\ callbacks = <<>>
    /\ queue = <<>>
    /\ io = Idle
    /\ launches = 0
    /\ uncounted = 0
    /\ seen = FALSE
    /\ early = 0

\* The user opens the app, or the OS starts the process in the background.
StartProcess ==
    /\ ~alive
    /\ alive' = TRUE
    /\ visible' \in BOOLEAN
    /\ UNCHANGED <<disk, binary, selection, deferred, callbacks, queue, io, history>>

\* The user has been shown the pending package and its charge is not on disk.
ChargeOutstanding ==
    /\ seen
    /\ state.pending # None
    /\ deferred = state.pending
    /\ selection = SelectedAs("pending", state.pending)

\* A crash, or the OS reclaims the process, at any point of any task.
KillProcess ==
    /\ alive
    /\ ChargeOutstanding => uncounted < MaxUncounted
    /\ alive' = FALSE
    /\ visible' = FALSE
    /\ selection' = NoSelection
    /\ deferred' = None
    /\ callbacks' = <<>>
    /\ queue' = <<>>
    /\ io' = Idle
    /\ uncounted' = IF ChargeOutstanding THEN uncounted + 1 ELSE uncounted
    /\ seen' = FALSE
    /\ UNCHANGED <<disk, binary, launches, early>>

\* A store update or downgrade replaces the binary and keeps the files.
ReplaceBinary ==
    /\ ~alive
    /\ binary' \in Version \ {binary}
    /\ UNCHANGED <<disk, process, history>>

\* An activity appears: every registered callback submits its charge to the
\* io thread.  The main thread waits a second at most, so the package may run,
\* and crash, before the charge is written.
ActivityAppears ==
    /\ alive /\ ~visible
    /\ visible' = TRUE
    /\ callbacks' = <<>>
    /\ queue' = queue \o [i \in DOMAIN callbacks |-> Ask("charge", callbacks[i])]
    /\ seen' = TRUE
    /\ IF ~seen /\ selection = SelectedAs("pending", state.pending)
       THEN /\ launches' = launches + 1
            /\ early' = IF deferred = state.pending THEN early ELSE early - 1
       ELSE UNCHANGED <<launches, early>>
    /\ UNCHANGED <<disk, binary, alive, selection, deferred, io, uncounted>>

GoToBackground ==
    /\ alive /\ visible
    /\ visible' = FALSE
    /\ UNCHANGED <<disk, binary, alive, selection, deferred, callbacks, queue, io, history>>

-----------------------------------------------------------------------------
(* tasks submitted                                                          *)

\* getJSBundleFile: at process start, and at every reload of the bundle
HostAsksForBundle ==
    /\ Submit(Ask("select", None))
    /\ UNCHANGED <<disk, binary, alive, visible, selection, deferred, callbacks, io, history>>

\* JavaScript runs once a bundle is selected.  checkForUpdate offers neither
\* the running nor the pending package; notifyAppReady confirms when it runs the
\* pending package; an embedded revert is offered to a running package only.
JsAsks ==
    /\ selection # NoSelection
    /\ \/ \E h \in Hash \ {RunningHash, state.pending} :
            /\ Ask("install", h) \notin {queue[i] : i \in DOMAIN queue}
            /\ Submit(Ask("install", h))
       \/ selection = SelectedAs("pending", state.pending) /\ Submit(Ask("confirm", None))
       \/ RunningHash # None /\ Submit(Ask("revert", None))
    /\ UNCHANGED <<disk, binary, alive, visible, selection, deferred, callbacks, io, history>>

-----------------------------------------------------------------------------
(* boot: a "select" task                                                    *)

\* Decides, before the process has selected a bundle, whether the pending
\* package is out of attempts.
PrepareBootState ==
    /\ AtHead("select")
    /\ selection = NoSelection
    /\ Prepared(state) # state
    /\ state' = Prepared(state)
    /\ io' = IF BudgetSpent(state) /\ ~ForeignState(state)
             THEN [op |-> "reporting", hash |-> state.pending, current |-> None]
             ELSE Idle
    /\ NothingLaunched
    /\ UNCHANGED <<contents, meta, events, binary, alive, visible, selection,
                   deferred, callbacks, queue, seen>>

\* onCrashRollback: the Failed event follows the state write; dying in between
\* loses it.
WriteCrashRollbackEvent ==
    /\ alive /\ io.op = "reporting"
    /\ events' = events \cup {io.hash}
    /\ io' = Idle
    /\ UNCHANGED <<state, contents, meta, binary, alive, visible, selection,
                   deferred, callbacks, queue, history>>

\* prepareBootState has nothing to do, or was skipped: a bundle can be selected
BootReady ==
    /\ AtHead("select")
    /\ selection # NoSelection \/ Prepared(state) = state

\* faulty variant: every request for the bundle is charged
ReselectPendingCharged ==
    /\ BootReady
    /\ PendingBoots
    /\ selection = SelectedAs("pending", state.pending)
    /\ state' = ChargePendingLaunch(state, state.pending)
    /\ queue' = Tail(queue)
    /\ UNCHANGED <<contents, meta, events, binary, alive, visible, selection,
                   deferred, callbacks, io, history>>

\* The process already runs the pending package: nothing is charged.
ReselectPending ==
    /\ BootReady
    /\ PendingBoots
    /\ selection = SelectedAs("pending", state.pending)
    /\ queue' = Tail(queue)
    /\ UNCHANGED <<disk, binary, alive, visible, selection, deferred, callbacks, io, history>>

\* chargeUserFacingLaunch, when the process switches to the pending package in
\* front of the user or cannot defer
BootPendingCharged ==
    /\ BootReady
    /\ PendingBoots
    /\ selection # SelectedAs("pending", state.pending)
    /\ visible \/ ~CanDefer
    /\ selection' = SelectedAs("pending", state.pending)
    /\ state' = ChargePendingLaunch(state, state.pending)
    /\ deferred' = IF visible THEN None ELSE deferred
    /\ queue' = Tail(queue)
    /\ launches' = launches + 1
    /\ seen' = TRUE
    /\ UNCHANGED <<contents, meta, events, binary, alive, visible, callbacks, io,
                   uncounted, early>>

\* faulty variant: a background boot is charged when it happens
BootPendingBackgroundCharged ==
    /\ BootReady
    /\ PendingBoots
    /\ selection # SelectedAs("pending", state.pending)
    /\ ~visible /\ CanDefer
    /\ selection' = SelectedAs("pending", state.pending)
    /\ state' = ChargePendingLaunch(state, state.pending)
    /\ queue' = Tail(queue)
    /\ seen' = FALSE
    /\ UNCHANGED <<contents, meta, events, binary, alive, visible, deferred,
                   callbacks, io, launches, uncounted, early>>

\* the same switch in a background process: the charge waits for an activity
BootPendingDeferred ==
    /\ BootReady
    /\ PendingBoots
    /\ selection # SelectedAs("pending", state.pending)
    /\ ~visible /\ CanDefer
    /\ Len(callbacks) < MaxQueue
    /\ selection' = SelectedAs("pending", state.pending)
    /\ deferred' = state.pending
    /\ callbacks' = Append(callbacks, state.pending)
    /\ queue' = Tail(queue)
    /\ seen' = FALSE
    /\ UNCHANGED <<disk, binary, alive, visible, io, launches, uncounted, early>>

BootCurrent ==
    /\ BootReady
    /\ ~PendingBoots
    /\ CurrentBoots
    /\ selection' = SelectedAs("current", state.current)
    /\ queue' = Tail(queue)
    /\ UNCHANGED <<disk, binary, alive, visible, deferred, callbacks, io, history>>

BootEmbedded ==
    /\ BootReady
    /\ ~PendingBoots
    /\ ~CurrentBoots
    /\ selection' = SelectedAs("embedded", None)
    /\ queue' = Tail(queue)
    /\ UNCHANGED <<disk, binary, alive, visible, deferred, callbacks, io, history>>

-----------------------------------------------------------------------------
(* the other tasks                                                          *)

\* faulty variant of the staleness test: the selection is not consulted
ChargeIgnoresSelection(h) == deferred = h /\ state.pending = h

\* A deferred charge is stale unless the slot, the selection and the pending
\* pointer all still name its package.
DeferredChargeApplies(h) ==
    /\ deferred = h
    /\ selection = SelectedAs("pending", h)
    /\ state.pending = h

ChargeDeferredLaunch ==
    /\ AtHead("charge")
    /\ LET h == Head(queue).hash IN
         /\ deferred' = IF deferred = h THEN None ELSE deferred
         /\ IF DeferredChargeApplies(h)
            THEN /\ state' = ChargePendingLaunch(state, h)
                 /\ early' = IF seen THEN early ELSE early + 1
            ELSE UNCHANGED <<state, early>>
    /\ queue' = Tail(queue)
    /\ UNCHANGED <<contents, meta, events, binary, alive, visible, selection,
                   callbacks, io, launches, uncounted, seen>>

\* faulty variant: the pointer is staged before the files are complete
InstallPromoteStaged ==
    /\ AtHead("install")
    /\ LET h == Head(queue).hash IN
         /\ contents' = contents \cup {h}
         /\ state' = Staged(state, h, state.current)
         /\ io' = [op |-> "promoted", hash |-> h, current |-> state.current]
    /\ NothingLaunched
    /\ UNCHANGED <<meta, events, binary, alive, visible, selection,
                   deferred, callbacks, queue, seen>>

\* PackageInstaller.install: promote the verified contents, write update.json,
\* then stage the pointer.
InstallPromote ==
    /\ AtHead("install")
    /\ LET h == Head(queue).hash IN
         /\ contents' = contents \cup {h}
         /\ io' = [op |-> "promoted", hash |-> h, current |-> state.current]
    /\ UNCHANGED <<state, meta, events, binary, alive, visible, selection,
                   deferred, callbacks, queue, history>>

InstallRecord ==
    /\ alive /\ io.op = "promoted"
    /\ meta' = [meta EXCEPT ![io.hash] = binary]
    /\ io' = [io EXCEPT !.op = "recorded"]
    /\ UNCHANGED <<state, contents, events, binary, alive, visible, selection,
                   deferred, callbacks, queue, history>>

InstallStage ==
    /\ alive /\ io.op = "recorded"
    /\ state' = Staged(state, io.hash, io.current)
    /\ io' = Idle
    /\ queue' = Tail(queue)
    /\ NothingLaunched
    /\ UNCHANGED <<contents, meta, events, binary, alive, visible, selection,
                   deferred, callbacks, seen>>

\* An install that fails to verify rejects its promise and writes no pointer.
InstallRejected ==
    /\ AtHead("install")
    /\ queue' = Tail(queue)
    /\ UNCHANGED <<disk, binary, alive, visible, selection, deferred, callbacks, io, history>>

ConfirmPending ==
    /\ AtHead("confirm")
    /\ state' = ConfirmedState(state)
    /\ queue' = Tail(queue)
    /\ NothingLaunched
    /\ UNCHANGED <<contents, meta, events, binary, alive, visible, selection,
                   deferred, callbacks, io, seen>>

StageEmbeddedRevert ==
    /\ AtHead("revert")
    /\ state' = EmbeddedState(state)
    /\ queue' = Tail(queue)
    /\ NothingLaunched
    /\ UNCHANGED <<contents, meta, events, binary, alive, visible, selection,
                   deferred, callbacks, io, seen>>

-----------------------------------------------------------------------------
Next ==
    \/ StartProcess
    \/ KillProcess
    \/ ReplaceBinary
    \/ ActivityAppears
    \/ GoToBackground
    \/ HostAsksForBundle
    \/ JsAsks
    \/ PrepareBootState
    \/ WriteCrashRollbackEvent
    \/ ReselectPending
    \/ BootPendingCharged
    \/ BootPendingDeferred
    \/ BootCurrent
    \/ BootEmbedded
    \/ ChargeDeferredLaunch
    \/ InstallPromote
    \/ InstallRecord
    \/ InstallStage
    \/ InstallRejected
    \/ ConfirmPending
    \/ StageEmbeddedRevert

Spec == Init /\ [][Next]_vars

-----------------------------------------------------------------------------
(* properties                                                               *)

\* The launch-attempt marker never outlives the package it counts for: it is
\* absent, with a zero count, or it names the pending package with at least one
\* charged launch.  prepareBootState's repairs of a stale marker are then only
\* for files an older SDK left.
TrackingNamesPending ==
    /\ state.started \in {None, state.pending}
    /\ state.started = None <=> state.count = 0

\* The count on disk is the number of launches the user saw since the package
\* was staged, less those whose process died before the deferred charge was
\* written and the one whose charge is still queued: no launch is charged twice
\* however often the bundle is selected, none is charged to a package that did
\* not boot, and none is forgotten.
ChargesMatchLaunches ==
    state.pending # None =>
        state.count + uncounted + (IF ChargeOutstanding THEN 1 ELSE 0) = launches + early

\* No package is charged beyond the budget: the process that would start the
\* launch after the last one rolls the package back first.
BudgetBounded == state.count <= MaxLaunchAttempts

\* Every pointer of state.json names a package whose contents and update.json
\* are both on disk, wherever an install was interrupted.
PointersResolve ==
    \A h \in Pointers(state) : h \in contents /\ meta[h] # None

\* Once a process has selected a bundle, no pointer names a package of another
\* binary version, whatever store update or downgrade preceded it.
PointersMatchBinary ==
    selection # NoSelection => \A h \in Pointers(state) : MetadataMatchesBinary(h)

\* The package that was rolled back is not booted as pending again, even when it
\* is downloaded and installed anew.
RunningNotFailed ==
    selection.kind = "pending" => selection.hash # state.failed

\* A rollback condemns the pending package, and only after the user has been
\* shown MaxLaunchAttempts launches of it since it was staged: background boots
\* do not count, save those charged early.  One is when an activity appeared
\* before a queued revert, install and reload of the same package.
NoEarlyRollback ==
    [][state'.failed \notin {None, state.failed} =>
         /\ state'.failed = state.pending
         /\ launches + early >= MaxLaunchAttempts]_vars

\* A crash loop ends: launches of a pending package in front of the user go on
\* forever only if packages are confirmed, reverted or installed forever, or the
\* device keeps changing its binary.
CrashLoopEnds ==
    []<><<BootPendingCharged>>_vars =>
        []<><<InstallStage \/ ConfirmPending \/ StageEmbeddedRevert \/ ReplaceBinary>>_vars

\* What the SDK reference says of a rollback: the device returns to the previous
\* bundle.  The failed package is not what runs next.
RollbackLeavesThePackage ==
    selection # NoSelection /\ state.failed # None => selection.hash # state.failed
=============================================================================
