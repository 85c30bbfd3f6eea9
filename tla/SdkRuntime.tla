------------------------------ MODULE SdkRuntime ------------------------------
(***************************************************************************)
(* The JavaScript runtime of the React Native SDK and the native io thread *)
(* it talks to (client/src, client/android/.../CodemagicPatchModule.kt).   *)
(*                                                                         *)
(* JavaScript keeps a copy of the pending pointer of the disk and acts on  *)
(* it, but every change of the disk is a native call that runs             *)
(* later on the io thread (queue, first in first out) and whose result     *)
(* comes back later still (replies).  Several asynchronous flows run at    *)
(* once: update flows (check, download, install), one notifyAppReady run,  *)
(* and the reloads asked for by lifecycle events and by the host app.      *)
(* One action is what JavaScript does between two awaits, or one native    *)
(* task.  Boot selection is that of PackageLifecycle, with files in place. *)
(***************************************************************************)
EXTENDS Naturals, Sequences, FiniteSets

CONSTANTS
    Hash,       \* package hashes
    None,       \* the absent package
    Embedded,   \* the target of a revert to the embedded bundle
    Flow,       \* update flows running at once: sync() and the host's own
    Modes,      \* bound: the install modes the app asks for
    MaxReloads  \* bound: reload requests on their way at once

InstallMode == {"IMMEDIATE", "ON_NEXT_RESTART", "ON_NEXT_RESUME", "ON_NEXT_SUSPEND"}

ASSUME RuntimeAssumption ==
    /\ None \notin Hash /\ Embedded \notin Hash \cup {None}
    /\ Modes \subseteq InstallMode
    /\ MaxReloads \in Nat

VARIABLES
    disk,       \* state.json: current, pending, failed
    run,        \* the package native selected for this process
    queue,      \* native calls waiting for the io thread
    asked,      \* reload requests waiting for the UI thread
    replies,    \* results on their way back to JavaScript
    reloading,  \* native has reselected; the JavaScript runtime is about to go
    hydrated,   \* state.hydrated
    running,    \* state.runningPackage
    pending,    \* state.pendingPackage
    revert,     \* state.pendingEmbeddedRevert
    mode,       \* state.pendingInstallMode; null acts as ON_NEXT_RESTART
    waits,      \* that mode waits for pendingMinimumBackgroundDuration > 0
    blocked,    \* state.blockedActivation
    suppressed, \* state.restartSuppressed
    background, \* state.lastAppState is background or inactive
    timer,      \* state.suspendActivationTimer is set
    ready,      \* the package notifyAppReady is confirming
    offered,    \* state.lastUpdateCheckResult: a package, or the flow told to revert
    flow        \* where each update flow is, and its target

native == <<disk, run, queue, asked, replies, reloading>>
copy   == <<hydrated, running, pending>>
wish   == <<revert, mode, waits, blocked, suppressed, background, timer>>
vars   == <<native, copy, wish, ready, offered, flow>>

Pointer     == Hash \cup {None}
Call        == [op : {"install", "confirm", "revert", "reload"}, hash : Pointer,
                flow : Flow \cup {None}]
Reply       == [op : {"install", "confirm", "revert", "rejected"}, hash : Pointer,
                flow : Flow \cup {None}]
Step        == {"idle", "verifying", "offered", "downloading", "downloaded", "calling", "installed"}

TypeOK ==
    /\ disk \in [current : Pointer, pending : Pointer, failed : Pointer]
    /\ run \in Pointer
    /\ queue \in Seq(Call)
    /\ replies \in Seq(Reply)
    /\ running \in Pointer /\ pending \in Pointer
    /\ ready \in Pointer
    /\ asked \in 0 .. MaxReloads
    /\ mode \in InstallMode
    /\ offered \in Hash \cup Flow \cup {None}
    /\ flow \in [Flow -> [pc : Step, target : Hash \cup {Embedded, None}]]
    /\ {reloading, hydrated, revert, waits, blocked, suppressed, background, timer}
         \subseteq BOOLEAN

-----------------------------------------------------------------------------
(* the native side                                                          *)

AskNative(op, h, f) == [op |-> op, hash |-> h, flow |-> f]

PendingBoots == disk.pending # None /\ disk.pending # disk.failed

\* selectJSBundleFile
Selected(d) == IF d.pending # None /\ d.pending # d.failed THEN d.pending ELSE d.current

Calls(op, h, f) == queue' = Append(queue, AskNative(op, h, f))

Executes(op) == queue # <<>> /\ Head(queue).op = op

Answers(op) == /\ queue' = Tail(queue)
               /\ replies' = Append(replies, [Head(queue) EXCEPT !.op = op])

\* faulty variant: the pending pointer is not replaced while one is set
NativeInstallKeeps ==
    /\ Executes("install")
    /\ disk' = [disk EXCEPT !.pending = IF @ = None THEN Head(queue).hash ELSE @]
    /\ Answers("install")
    /\ UNCHANGED <<run, asked, reloading, copy, wish, ready, offered, flow>>

NativeInstall ==
    /\ Executes("install")
    /\ disk' = [disk EXCEPT !.pending = Head(queue).hash]
    /\ Answers("install")
    /\ UNCHANGED <<run, asked, reloading, copy, wish, ready, offered, flow>>

\* confirmPending promotes whatever is pending when it runs
NativeConfirm ==
    /\ Executes("confirm")
    /\ disk' = IF disk.pending = None THEN disk
               ELSE [disk EXCEPT !.current = disk.pending, !.pending = None]
    /\ Answers("confirm")
    /\ UNCHANGED <<run, asked, reloading, copy, wish, ready, offered, flow>>

NativeRevert ==
    /\ Executes("revert")
    /\ disk' = [disk EXCEPT !.current = None, !.pending = None]
    /\ Answers("revert")
    /\ UNCHANGED <<run, asked, reloading, copy, wish, ready, offered, flow>>

\* verification, storage or patch application fails and the promise is rejected
NativeCallFails ==
    /\ \E op \in {"install", "confirm", "revert"} : Executes(op)
    /\ Answers("rejected")
    /\ UNCHANGED <<disk, run, asked, reloading, copy, wish, ready, offered, flow>>

\* reloadBundle first goes to the UI thread, which asks the io thread for the
\* bundle: calls made after it may be queued before it.
UiReloads ==
    /\ asked > 0
    /\ asked' = asked - 1
    /\ Calls("reload", None, None)
    /\ UNCHANGED <<disk, run, replies, reloading, copy, wish, ready, offered, flow>>

\* The bundle is selected again, then the runtime is torn down.
NativeReload ==
    /\ Executes("reload")
    /\ ~reloading
    /\ run' = Selected(disk)
    /\ reloading' = TRUE
    /\ queue' = Tail(queue)
    /\ UNCHANGED <<disk, asked, replies, copy, wish, ready, offered, flow>>

-----------------------------------------------------------------------------
(* a new JavaScript runtime                                                 *)

IdleFlows == [f \in Flow |-> [pc |-> "idle", target |-> None]]

FreshRuntime ==
    /\ hydrated' = FALSE
    /\ running' = None /\ pending' = None
    /\ revert' = FALSE /\ mode' = "ON_NEXT_RESTART" /\ waits' = FALSE
    /\ blocked' = FALSE /\ suppressed' = FALSE /\ timer' = FALSE
    /\ ready' = None /\ offered' = None
    /\ flow' = IdleFlows

Init ==
    /\ disk = [current |-> None, pending |-> None, failed |-> None]
    /\ run = None
    /\ queue = <<>> /\ asked = 0 /\ replies = <<>>
    /\ reloading = FALSE /\ hydrated = FALSE
    /\ running = None /\ pending = None
    /\ revert = FALSE /\ mode = "ON_NEXT_RESTART" /\ waits = FALSE
    /\ blocked = FALSE /\ suppressed = FALSE /\ background = FALSE /\ timer = FALSE
    /\ ready = None /\ offered = None
    /\ flow = IdleFlows

\* The runtime is torn down and a new one loads the selected bundle.  Native
\* calls of the old one still run; their answers reach nobody.
ReplaceRuntime ==
    /\ reloading
    /\ reloading' = FALSE
    /\ replies' = <<>>
    /\ FreshRuntime
    /\ UNCHANGED <<disk, run, queue, asked, background>>

\* The process ends and starts again.  A pending package that was running may be
\* out of launch attempts: PackageLifecycle says when.
RestartProcess ==
    \E d \in {disk} \cup
             (IF run = disk.pending /\ PendingBoots
              THEN {[disk EXCEPT !.failed = disk.pending, !.pending = None]} ELSE {}) :
        /\ disk' = d
        /\ run' = Selected(d)
        /\ queue' = <<>> /\ asked' = 0 /\ replies' = <<>>
        /\ reloading' = FALSE
        /\ background' = FALSE
        /\ FreshRuntime

\* ensureHydrated: getBootState is one io task behind those of the old runtime;
\* no flow of this one runs before it is answered.
Hydrate ==
    /\ ~hydrated /\ ~reloading /\ queue = <<>>
    /\ hydrated' = TRUE
    /\ pending' = IF PendingBoots THEN disk.pending ELSE None
    /\ running' = IF run \in {pending', disk.current} THEN run ELSE None
    /\ replies' = <<>>
    /\ UNCHANGED <<disk, run, queue, asked, reloading, wish, ready, offered, flow>>

-----------------------------------------------------------------------------
(* activation                                                               *)

HasPendingActivation == pending # None \/ revert

ReloadsQueued == Cardinality({i \in DOMAIN queue : queue[i].op = "reload"})

AskReload == asked + ReloadsQueued < MaxReloads /\ asked' = asked + 1

\* activatePendingPackageOrReload, or nothing when suppressed
Activate == AskReload /\ blocked' = FALSE

Suppress == blocked' = TRUE /\ UNCHANGED asked

\* canActivateForLifecycle; waited: the app was in the background long enough
CanActivate(m, waited) == HasPendingActivation /\ mode = m /\ (waits => waited)

\* faulty variant: lifecycle events do not look at restartSuppressed
ActivateSuppressedToo(m, waited) ==
    IF CanActivate(m, waited) THEN Activate ELSE UNCHANGED <<asked, blocked>>

ActivateForLifecycle(m, waited) ==
    IF CanActivate(m, waited)
    THEN IF suppressed THEN Suppress ELSE Activate
    ELSE UNCHANGED <<asked, blocked>>

\* scheduleSuspendActivationIfDue
ScheduleSuspend ==
    LET due == HasPendingActivation /\ mode = "ON_NEXT_SUSPEND" IN
      /\ timer' = (due /\ waits)
      /\ IF due /\ ~waits THEN ActivateForLifecycle("ON_NEXT_SUSPEND", TRUE)
         ELSE UNCHANGED <<asked, blocked>>

EnterBackground ==
    /\ ~background
    /\ background' = TRUE
    /\ ScheduleSuspend
    /\ UNCHANGED <<disk, run, queue, replies, reloading, copy, revert, mode, waits, suppressed,
                   ready, offered, flow>>

EnterForeground ==
    /\ background
    /\ background' = FALSE
    /\ timer' = FALSE
    /\ \E waited \in BOOLEAN :
         ActivateForLifecycle(IF timer THEN "ON_NEXT_SUSPEND" ELSE "ON_NEXT_RESUME", waited)
    /\ UNCHANGED <<disk, run, queue, replies, reloading, copy, revert, mode, waits, suppressed,
                   ready, offered, flow>>

SuspendTimerFires ==
    /\ timer
    /\ timer' = FALSE
    /\ ActivateForLifecycle("ON_NEXT_SUSPEND", TRUE)
    /\ UNCHANGED <<disk, run, queue, replies, reloading, copy, revert, mode, waits, suppressed,
                   background, ready, offered, flow>>

DisallowRestart ==
    /\ ~suppressed
    /\ suppressed' = TRUE
    /\ UNCHANGED <<native, copy, revert, mode, waits, blocked, background, timer,
                   ready, offered, flow>>

\* faulty variant: the blocked activation is left for the next lifecycle event
AllowRestartForgets ==
    /\ suppressed
    /\ suppressed' = FALSE
    /\ UNCHANGED <<native, copy, revert, mode, waits, blocked, background, timer,
                   ready, offered, flow>>

AllowRestart ==
    /\ suppressed
    /\ suppressed' = FALSE
    /\ IF HasPendingActivation /\ blocked THEN Activate ELSE UNCHANGED <<asked, blocked>>
    /\ UNCHANGED <<disk, run, queue, replies, reloading, copy, revert, mode, waits, background,
                   timer, ready, offered, flow>>

RestartApp ==
    /\ hydrated
    /\ IF HasPendingActivation
       THEN IF suppressed THEN Suppress ELSE Activate
       ELSE AskReload /\ UNCHANGED blocked
    /\ UNCHANGED <<disk, run, queue, replies, reloading, copy, revert, mode, waits, suppressed,
                   background, timer, ready, offered, flow>>

-----------------------------------------------------------------------------
(* notifyAppReady                                                           *)

\* isPendingRun is decided on JavaScript's copy; the promotion happens later.
NotifyAppReady ==
    /\ hydrated /\ ready = None
    /\ running # None /\ pending = running
    /\ ready' = running
    /\ Calls("confirm", None, None)
    /\ UNCHANGED <<disk, run, asked, replies, reloading, copy, wish, offered, flow>>

\* What was asked for before the runtime was replaced is heard by nobody.
Hears(op) == hydrated /\ replies # <<>> /\ Head(replies).op = op

ConfirmAnswered ==
    /\ Hears("confirm")
    /\ replies' = Tail(replies)
    /\ pending' = None
    /\ mode' = "ON_NEXT_RESTART" /\ waits' = FALSE /\ timer' = FALSE /\ blocked' = FALSE
    /\ ready' = None
    /\ UNCHANGED <<disk, run, queue, asked, reloading, hydrated, running, revert,
                   suppressed, background, offered, flow>>

-----------------------------------------------------------------------------
(* update flows                                                             *)

At(f, pc)    == flow[f].pc = pc
Go(f, pc, t) == flow' = [flow EXCEPT ![f] = [pc |-> pc, target |-> t]]

\* InstallOptions; a duration matters to two of the modes
ChoosesMode ==
    /\ mode' \in Modes
    /\ waits' \in IF mode' \in {"ON_NEXT_RESUME", "ON_NEXT_SUSPEND"} THEN BOOLEAN ELSE {FALSE}

\* checkForUpdate: a manifest arrives and evaluateManifest runs, for a package
\* as far as the verification of its signature.
Check(f) ==
    /\ hydrated /\ At(f, "idle")
    /\ \/ offered' = None /\ UNCHANGED flow
       \/ running # None /\ offered' = f /\ Go(f, "offered", Embedded)
       \/ \E h \in Hash \ {running, pending} : Go(f, "verifying", h) /\ UNCHANGED offered
    /\ UNCHANGED <<native, copy, wish, ready>>

Verified(f) ==
    /\ At(f, "verifying")
    /\ offered' = flow[f].target
    /\ Go(f, "offered", flow[f].target)
    /\ UNCHANGED <<native, copy, wish, ready>>

\* downloadUpdate, when no other flow checked since and none is downloading
Download(f) ==
    /\ At(f, "offered") /\ flow[f].target # Embedded
    /\ \A g \in Flow : ~At(g, "downloading")
    /\ offered = flow[f].target
    /\ Go(f, "downloading", flow[f].target)
    /\ UNCHANGED <<native, copy, wish, ready, offered>>

Downloaded(f) ==
    /\ At(f, "downloading")
    /\ Go(f, "downloaded", flow[f].target)
    /\ UNCHANGED <<native, copy, wish, ready, offered>>

\* The flow gives up: a signature or a download failed, the offer is stale,
\* another download runs, or the package failed before.
Abandon(f) ==
    /\ \E pc \in {"verifying", "offered", "downloading", "downloaded"} : At(f, pc)
    /\ Go(f, "idle", None)
    /\ UNCHANGED <<native, copy, wish, ready, offered>>

\* installUpdate, up to its native call
Install(f) ==
    /\ \/ /\ At(f, "downloaded")
          /\ Calls("install", flow[f].target, f)
       \/ /\ At(f, "offered") /\ flow[f].target = Embedded /\ offered = f
          /\ Calls("revert", None, f)
    /\ Go(f, "calling", flow[f].target)
    /\ UNCHANGED <<disk, run, asked, replies, reloading, copy, wish, ready, offered>>

\* The metric event is awaited before activateInstalledUpdate.
InstallAnswered ==
    /\ Hears("install")
    /\ replies' = Tail(replies)
    /\ pending' = Head(replies).hash
    /\ revert' = FALSE
    /\ ChoosesMode
    /\ timer' = FALSE /\ blocked' = FALSE
    /\ Go(Head(replies).flow, "installed", Head(replies).hash)
    /\ UNCHANGED <<disk, run, queue, asked, reloading, hydrated, running,
                   suppressed, background, ready, offered>>

\* A rejected patch is replaced by the full bundle; any other flow ends.
CallRejected ==
    /\ Hears("rejected")
    /\ replies' = Tail(replies)
    /\ LET f == Head(replies).flow
           h == Head(replies).hash
       IN  IF f = None THEN ready' = None /\ UNCHANGED flow
           ELSE /\ UNCHANGED ready
                /\ Go(f, "idle", None) \/ (h # None /\ Go(f, "downloaded", h))
    /\ UNCHANGED <<disk, run, queue, asked, reloading, copy, wish, offered>>

\* activateInstalledUpdate reads the mode of whatever was installed last
ActivateInstalled(f) ==
    /\ At(f, "installed")
    /\ IF mode = "ON_NEXT_SUSPEND" /\ background
       THEN ScheduleSuspend
       ELSE /\ UNCHANGED timer
            /\ IF mode = "IMMEDIATE"
               THEN IF suppressed THEN Suppress
                    ELSE IF HasPendingActivation THEN Activate
                    ELSE UNCHANGED <<asked, blocked>>
               ELSE UNCHANGED <<asked, blocked>>
    /\ Go(f, "idle", None)
    /\ UNCHANGED <<disk, run, queue, replies, reloading, copy, revert, mode, waits,
                   suppressed, background, ready, offered>>

\* faulty variant: the revert is taken for a pending package
RevertAnsweredAsPackage ==
    /\ Hears("revert")
    /\ replies' = Tail(replies)
    /\ pending' = Embedded
    /\ revert' = TRUE /\ mode' = "ON_NEXT_RESTART" /\ waits' = FALSE
    /\ timer' = FALSE /\ blocked' = FALSE
    /\ Go(Head(replies).flow, "idle", None)
    /\ UNCHANGED <<disk, run, queue, asked, reloading, hydrated, running, suppressed,
                   background, ready, offered>>

\* The rest of a revert, activateInstalledUpdate included: nothing is awaited.
RevertAnswered ==
    /\ Hears("revert")
    /\ replies' = Tail(replies)
    /\ pending' = None
    /\ revert' = TRUE
    /\ ChoosesMode
    /\ LET onSuspend == mode' = "ON_NEXT_SUSPEND" /\ background
           now       == mode' = "IMMEDIATE" \/ (onSuspend /\ ~waits')
       IN  /\ timer' = (onSuspend /\ waits')
           /\ IF now /\ ~suppressed THEN Activate
              ELSE blocked' = now /\ UNCHANGED asked
    /\ Go(Head(replies).flow, "idle", None)
    /\ UNCHANGED <<disk, run, queue, reloading, hydrated, running, suppressed,
                   background, ready, offered>>

-----------------------------------------------------------------------------
Next ==
    \/ NativeInstall
    \/ NativeConfirm
    \/ NativeRevert
    \/ NativeCallFails
    \/ UiReloads
    \/ NativeReload
    \/ ReplaceRuntime
    \/ RestartProcess
    \/ Hydrate
    \/ EnterBackground
    \/ EnterForeground
    \/ SuspendTimerFires
    \/ DisallowRestart
    \/ AllowRestart
    \/ RestartApp
    \/ NotifyAppReady
    \/ ConfirmAnswered
    \/ InstallAnswered
    \/ CallRejected
    \/ RevertAnswered
    \/ \E f \in Flow :
         \/ Check(f)
         \/ Verified(f)
         \/ Download(f)
         \/ Downloaded(f)
         \/ Abandon(f)
         \/ Install(f)
         \/ ActivateInstalled(f)

Spec == Init /\ [][Next]_vars

-----------------------------------------------------------------------------
(* properties                                                               *)

Quiet == hydrated /\ queue = <<>> /\ replies = <<>>

\* When no call is on its way, the pending package JavaScript knows of is the
\* one on disk, whatever order installs, confirmations and reverts of several
\* flows ran in; one on disk it does not know of is the failed one.
PendingMirrorsDisk ==
    Quiet => \/ pending = disk.pending
             \/ pending = None /\ disk.pending = disk.failed

\* An immediate install that has not been activated, and is not about to be, is
\* held back by disallowRestart and remembered for allowRestart.
ImmediateActivates ==
    /\ hydrated /\ ~reloading
    /\ HasPendingActivation /\ mode = "IMMEDIATE"
    /\ \A f \in DOMAIN flow : ~At(f, "installed")
    /\ asked + ReloadsQueued = 0
    => suppressed /\ blocked

\* disallowRestart holds at each of the six places that may activate an update:
\* while it is in force none of them asks for a reload.
SuppressedNeverActivates ==
    [][asked' > asked => ~suppressed' \/ ~HasPendingActivation]_vars

\* What notifyAppReady promises: it confirms the bundle that is running.
ConfirmsWhatRuns ==
    [][disk'.current \notin {disk.current, None} => disk'.current = run]_vars
=============================================================================
