-------------------------- MODULE SdkRuntime_proofs --------------------------
(***************************************************************************)
(* Theorems about SdkRuntime for any number of packages, update flows and  *)
(* reloads: its type, that JavaScript's copy of the pending pointer is     *)
(* that of the disk once it is answered, and that an immediate install is  *)
(* activated or remembered.                                                *)
(***************************************************************************)
EXTENDS SdkRuntime, TLAPS, FiniteSetTheorems

-----------------------------------------------------------------------------
(* the inductive invariant                                                  *)

\* A flow that has got as far as a package has one; until the runtime is
\* hydrated there is nothing to activate and no flow.
Targets ==
    \A f \in Flow :
      /\ flow[f].pc \in {"verifying", "downloading", "downloaded"} => flow[f].target \in Hash
      /\ flow[f].pc = "offered" => flow[f].target # None

Waiting ==
    ~hydrated => /\ pending = None /\ ~revert /\ mode = "ON_NEXT_RESTART"
                 /\ flow = IdleFlows

TInv == TypeOK /\ Targets /\ Waiting

\* The last answer that did anything tells what is pending on disk; when there
\* is none, JavaScript knows what is.
Outcome(r) == IF r.op = "install" THEN r.hash ELSE None

Rejected(i) == replies[i].op = "rejected"

KnowsDisk == pending = disk.pending \/ (pending = None /\ disk.pending = disk.failed)

PInv ==
    hydrated =>
      /\ (\A i \in DOMAIN replies : Rejected(i)) => KnowsDisk
      /\ \A i \in DOMAIN replies :
           ~Rejected(i) /\ (\A j \in DOMAIN replies : j > i => Rejected(j))
             => disk.pending = Outcome(replies[i])

\* A flow has at most one call on its way, and awaits it.
AwaitsCall(c)  == c.flow # None => flow[c.flow].pc = "calling"
SameFlow(c, d) == c.flow = d.flow /\ c.flow # None

CInv ==
    hydrated =>
      /\ \A i \in DOMAIN queue : AwaitsCall(queue[i])
      /\ \A i \in DOMAIN replies : AwaitsCall(replies[i])
      /\ \A i, j \in DOMAIN queue : SameFlow(queue[i], queue[j]) => i = j
      /\ \A i, j \in DOMAIN replies : SameFlow(replies[i], replies[j]) => i = j
      /\ \A i \in DOMAIN queue, j \in DOMAIN replies : ~SameFlow(queue[i], replies[j])

-----------------------------------------------------------------------------
(* the type                                                                 *)

LEMMA TInvInit == RuntimeAssumption /\ Init => TInv
<1> SUFFICES ASSUME RuntimeAssumption, Init PROVE TInv
  OBVIOUS
<1>1. flow \in [Flow -> [pc : Step, target : Hash \cup {Embedded, None}]]
  BY DEF Init, IdleFlows, Step
<1>2. queue \in Seq(Call) /\ replies \in Seq(Reply)
  BY DEF Init
<1>3. {reloading, hydrated, revert, waits, blocked, suppressed, background, timer}
        \subseteq BOOLEAN
  BY DEF Init
<1>4. asked \in 0 .. MaxReloads
  BY DEF RuntimeAssumption, Init
<1>5. mode \in InstallMode
  BY DEF Init, InstallMode
<1>6. TypeOK
  BY <1>1, <1>2, <1>3, <1>4, <1>5 DEF Init, TypeOK, Pointer
<1>7. Targets /\ Waiting
  BY DEF Init, Targets, Waiting, IdleFlows
<1> QED
  BY <1>6, <1>7 DEF TInv

LEMMA FreshType ==
    ASSUME RuntimeAssumption, FreshRuntime
    PROVE  /\ running' \in Pointer /\ pending' \in Pointer /\ ready' \in Pointer
           /\ mode' \in InstallMode /\ offered' \in Hash \cup Flow \cup {None}
           /\ flow' \in [Flow -> [pc : Step, target : Hash \cup {Embedded, None}]]
           /\ {hydrated', revert', waits', blocked', suppressed', timer'} \subseteq BOOLEAN
           /\ Targets' /\ Waiting'
<1>1. flow' = IdleFlows /\ IdleFlows' = IdleFlows
  BY DEF FreshRuntime, IdleFlows
<1>2. /\ flow' \in [Flow -> [pc : Step, target : Hash \cup {Embedded, None}]]
      /\ Targets'
  BY <1>1 DEF IdleFlows, Step, Targets
<1>3. Waiting' /\ mode' \in InstallMode
  BY <1>1 DEF FreshRuntime, InstallMode, Waiting
<1>4. {hydrated', revert', waits', blocked', suppressed', timer'} \subseteq BOOLEAN
  BY DEF FreshRuntime
<1> QED
  BY <1>2, <1>3, <1>4 DEF FreshRuntime, Pointer

LEMMA CallType ==
    ASSUME TypeOK, NEW op \in {"install", "confirm", "revert", "reload"}, NEW h \in Pointer,
           NEW f \in Flow \cup {None}, Calls(op, h, f)
    PROVE  queue' \in Seq(Call)
<1>1. AskNative(op, h, f) \in Call
  BY DEF AskNative, Call
<1> QED
  BY <1>1 DEF Calls, TypeOK

LEMMA AnswerType ==
    ASSUME TypeOK, NEW op \in {"install", "confirm", "revert", "rejected"}, queue # <<>>,
           Answers(op)
    PROVE  queue' \in Seq(Call) /\ replies' \in Seq(Reply)
<1>1. Head(queue) \in Call
  BY DEF TypeOK
<1>2. [Head(queue) EXCEPT !.op = op] \in Reply
  BY <1>1 DEF Call, Reply
<1> QED
  BY <1>2 DEF Answers, TypeOK

LEMMA HeadType ==
    ASSUME TypeOK, NEW op, Hears(op)
    PROVE  Head(replies) \in Reply /\ Tail(replies) \in Seq(Reply)
BY DEF TypeOK, Hears

\* What a reload request waits for.
LEMMA ReloadsType ==
    ASSUME TypeOK
    PROVE  /\ ReloadsQueued \in Nat
           /\ ReloadsQueued = 0 <=> \A i \in DOMAIN queue : queue[i].op # "reload"
<1> DEFINE R == {i \in DOMAIN queue : queue[i].op = "reload"}
<1>1. DOMAIN queue = 1 .. Len(queue) /\ Len(queue) \in Nat
  BY DEF TypeOK
<1>2. IsFiniteSet(1 .. Len(queue))
  BY <1>1, FS_Interval
<1>3. IsFiniteSet(R)
  BY <1>1, <1>2, FS_Subset
<1>4. Cardinality(R) \in Nat /\ (Cardinality(R) = 0 <=> R = {})
  BY <1>3, FS_CardinalityType, FS_EmptySet
<1> QED
  BY <1>4 DEF ReloadsQueued

LEMMA AskType ==
    ASSUME RuntimeAssumption, TypeOK, AskReload
    PROVE  asked' \in 0 .. MaxReloads /\ asked' = asked + 1
BY ReloadsType DEF AskReload, TypeOK, RuntimeAssumption

LEMMA ActivateType ==
    ASSUME RuntimeAssumption, TypeOK, NEW m, NEW w, ActivateForLifecycle(m, w)
    PROVE  asked' \in 0 .. MaxReloads /\ blocked' \in BOOLEAN
BY AskType DEF ActivateForLifecycle, Activate, Suppress, TypeOK

LEMMA ScheduleType ==
    ASSUME RuntimeAssumption, TypeOK, ScheduleSuspend
    PROVE  asked' \in 0 .. MaxReloads /\ blocked' \in BOOLEAN /\ timer' \in BOOLEAN
<1>1. asked' \in 0 .. MaxReloads /\ blocked' \in BOOLEAN
  <2>1. CASE ActivateForLifecycle("ON_NEXT_SUSPEND", TRUE)
    BY <2>1, ActivateType
  <2>2. CASE UNCHANGED <<asked, blocked>>
    BY <2>2 DEF TypeOK
  <2> QED
    BY <2>1, <2>2 DEF ScheduleSuspend
<1>2. timer' \in BOOLEAN
  BY DEF ScheduleSuspend
<1> QED
  BY <1>1, <1>2

\* A step of a flow that leaves it with a proper target.
LEMMA GoKeeps ==
    ASSUME TInv, NEW f, NEW pc \in Step, NEW t \in Hash \cup {Embedded, None}, Go(f, pc, t),
           hydrated, hydrated' = hydrated,
           pc \in {"verifying", "downloading", "downloaded"} => t \in Hash,
           pc = "offered" => t # None
    PROVE  /\ flow' \in [Flow -> [pc : Step, target : Hash \cup {Embedded, None}]]
           /\ Targets' /\ Waiting'
<1>1. flow \in [Flow -> [pc : Step, target : Hash \cup {Embedded, None}]]
  BY DEF TInv, TypeOK
<1>2. flow' = [flow EXCEPT ![f] = [pc |-> pc, target |-> t]]
  BY DEF Go
<1>3. flow' \in [Flow -> [pc : Step, target : Hash \cup {Embedded, None}]]
  BY <1>1, <1>2
<1>4. Targets'
  BY <1>1, <1>2 DEF TInv, Targets
<1>5. Waiting'
  BY DEF Waiting
<1> QED
  BY <1>3, <1>4, <1>5

\* Nothing is to be activated, and no flow is anywhere, before hydration.
LEMMA HydratedWhenAtWork ==
    ASSUME TInv
    PROVE  /\ HasPendingActivation => hydrated
           /\ \A f \in Flow : flow[f].pc # "idle" => hydrated
BY DEF TInv, Waiting, HasPendingActivation, IdleFlows

LEMMA TInvStep == RuntimeAssumption /\ TInv /\ [Next]_vars => TInv'
<1> SUFFICES ASSUME RuntimeAssumption, TInv, [Next]_vars PROVE TInv'
  OBVIOUS
<1> USE DEF TInv, Pointer
<1>0. CASE UNCHANGED vars
  BY <1>0 DEF vars, native, copy, wish, TypeOK, Targets, Waiting, IdleFlows
<1>1. CASE NativeInstall \/ NativeConfirm \/ NativeRevert \/ NativeCallFails
  <2>1. queue # <<>> /\ Head(queue) \in Call
    BY <1>1 DEF NativeInstall, NativeConfirm, NativeRevert, NativeCallFails, Executes, TypeOK
  <2>2. queue' \in Seq(Call) /\ replies' \in Seq(Reply)
    BY <1>1, <2>1, AnswerType DEF NativeInstall, NativeConfirm, NativeRevert, NativeCallFails
  <2>3. disk' \in [current : Pointer, pending : Pointer, failed : Pointer]
    BY <1>1, <2>1 DEF NativeInstall, NativeConfirm, NativeRevert, NativeCallFails, TypeOK, Call
  <2> QED
    BY <1>1, <2>2, <2>3 DEF NativeInstall, NativeConfirm, NativeRevert, NativeCallFails, copy,
                            wish, TypeOK, Targets, Waiting, IdleFlows
<1>2. CASE UiReloads
  <2>1. queue' \in Seq(Call)
    BY <1>2, CallType DEF UiReloads
  <2>2. asked' \in 0 .. MaxReloads
    BY <1>2 DEF UiReloads, TypeOK, RuntimeAssumption
  <2> QED
    BY <1>2, <2>1, <2>2 DEF UiReloads, copy, wish, TypeOK, Targets, Waiting, IdleFlows
<1>3. CASE NativeReload
  <2>1. queue' \in Seq(Call) /\ run' \in Pointer
    BY <1>3 DEF NativeReload, Executes, Selected, TypeOK
  <2> QED
    BY <1>3, <2>1 DEF NativeReload, copy, wish, TypeOK, Targets, Waiting, IdleFlows
<1>4. CASE ReplaceRuntime
  <2>1. replies' \in Seq(Reply) /\ reloading' = FALSE
    BY <1>4 DEF ReplaceRuntime
  <2> QED
    BY <1>4, <2>1, FreshType DEF ReplaceRuntime, TypeOK
<1>5. CASE RestartProcess
  <2>1. disk' \in [current : Pointer, pending : Pointer, failed : Pointer]
    BY <1>5 DEF RestartProcess, TypeOK
  <2>2. run' \in Pointer
    BY <1>5, <2>1 DEF RestartProcess, Selected
  <2>3. queue' \in Seq(Call) /\ replies' \in Seq(Reply) /\ asked' \in 0 .. MaxReloads
    BY <1>5 DEF RestartProcess, RuntimeAssumption
  <2>4. reloading' = FALSE /\ background' = FALSE /\ FreshRuntime
    BY <1>5 DEF RestartProcess
  <2> QED
    BY <2>1, <2>2, <2>3, <2>4, FreshType DEF TypeOK
<1>6. CASE Hydrate
  BY <1>6 DEF Hydrate, wish, TypeOK, Targets, Waiting
<1>7. CASE EnterBackground \/ EnterForeground \/ SuspendTimerFires
  <2>1. asked' \in 0 .. MaxReloads /\ blocked' \in BOOLEAN
    BY <1>7, ActivateType, ScheduleType DEF EnterBackground, EnterForeground, SuspendTimerFires
  <2>2. timer' \in BOOLEAN /\ background' \in BOOLEAN
    BY <1>7, ScheduleType DEF EnterBackground, EnterForeground, SuspendTimerFires, TypeOK
  <2>3. UNCHANGED <<disk, run, queue, replies, reloading, copy, revert, mode, waits, suppressed,
                    ready, offered, flow>>
    BY <1>7 DEF EnterBackground, EnterForeground, SuspendTimerFires
  <2> QED
    BY <2>1, <2>2, <2>3 DEF copy, TypeOK, Targets, Waiting, IdleFlows
<1>8. CASE DisallowRestart \/ AllowRestart \/ RestartApp
  <2>1. asked' \in 0 .. MaxReloads /\ blocked' \in BOOLEAN /\ suppressed' \in BOOLEAN
    BY <1>8, AskType DEF DisallowRestart, AllowRestart, RestartApp, Activate, Suppress, native,
                         TypeOK
  <2> QED
    BY <1>8, <2>1 DEF DisallowRestart, AllowRestart, RestartApp, native, copy, TypeOK, Targets,
                      Waiting, IdleFlows
<1>9. CASE NotifyAppReady
  <2>1. queue' \in Seq(Call)
    BY <1>9, CallType DEF NotifyAppReady
  <2> QED
    BY <1>9, <2>1 DEF NotifyAppReady, copy, wish, TypeOK, Targets, Waiting, IdleFlows
<1>10. CASE ConfirmAnswered
  <2>1. replies' \in Seq(Reply) /\ hydrated
    BY <1>10, HeadType DEF ConfirmAnswered, Hears
  <2> QED
    BY <1>10, <2>1 DEF ConfirmAnswered, TypeOK, InstallMode, Targets, Waiting
<1>11. CASE InstallAnswered
  <2>1. /\ replies' \in Seq(Reply) /\ pending' \in Pointer /\ hydrated /\ hydrated' = hydrated
    BY <1>11, HeadType DEF InstallAnswered, Hears, Reply
  <2>2. /\ flow' \in [Flow -> [pc : Step, target : Hash \cup {Embedded, None}]]
        /\ Targets' /\ Waiting'
    BY <1>11, <2>1, GoKeeps DEF InstallAnswered, Step
  <2>3. mode' \in InstallMode /\ waits' \in BOOLEAN
    BY <1>11 DEF InstallAnswered, ChoosesMode, RuntimeAssumption
  <2> QED
    BY <1>11, <2>1, <2>2, <2>3 DEF InstallAnswered, TypeOK
<1>12. CASE CallRejected
  <2> DEFINE f == Head(replies).flow
             h == Head(replies).hash
  <2>1. replies' \in Seq(Reply) /\ h \in Pointer /\ hydrated /\ hydrated' = hydrated
    BY <1>12, HeadType DEF CallRejected, Hears, Reply, copy
  <2>2. \/ UNCHANGED flow
        \/ Go(f, "idle", None)
        \/ h # None /\ Go(f, "downloaded", h)
    BY <1>12 DEF CallRejected
  <2>3. /\ flow' \in [Flow -> [pc : Step, target : Hash \cup {Embedded, None}]]
        /\ Targets' /\ Waiting'
    <3>1. CASE UNCHANGED flow
      BY <2>1, <3>1 DEF TypeOK, Targets, Waiting
    <3>2. CASE Go(f, "idle", None)
      BY <2>1, <3>2, GoKeeps DEF Step
    <3>3. CASE h # None /\ Go(f, "downloaded", h)
      BY <2>1, <3>3, GoKeeps DEF Step
    <3> QED
      BY <2>2, <3>1, <3>2, <3>3
  <2>4. ready' \in Pointer
    BY <1>12 DEF CallRejected, TypeOK
  <2> QED
    BY <1>12, <2>1, <2>3, <2>4 DEF CallRejected, copy, wish, TypeOK
<1>13. CASE RevertAnswered
  <2>1. /\ replies' \in Seq(Reply) /\ hydrated /\ hydrated' = hydrated /\ pending' = None
    BY <1>13, HeadType DEF RevertAnswered, Hears
  <2>2. /\ flow' \in [Flow -> [pc : Step, target : Hash \cup {Embedded, None}]]
        /\ Targets' /\ Waiting'
    BY <1>13, <2>1, GoKeeps DEF RevertAnswered, Step
  <2>3. /\ mode' \in InstallMode /\ waits' \in BOOLEAN
        /\ timer' \in BOOLEAN /\ revert' = TRUE
    BY <1>13 DEF RevertAnswered, ChoosesMode, RuntimeAssumption
  <2>4. blocked' \in BOOLEAN /\ asked' \in 0 .. MaxReloads
    BY <1>13, AskType DEF RevertAnswered, Activate, TypeOK
  <2> QED
    BY <1>13, <2>1, <2>2, <2>3, <2>4 DEF RevertAnswered, TypeOK
<1>14. ASSUME NEW f \in Flow,
              \/ Check(f) \/ Verified(f) \/ Download(f) \/ Downloaded(f)
              \/ Abandon(f) \/ Install(f) \/ ActivateInstalled(f)
       PROVE  TInv'
  <2>1. hydrated /\ hydrated' = hydrated
    BY <1>14, HydratedWhenAtWork DEF Check, Verified, Download, Downloaded, Abandon, Install,
                                     ActivateInstalled, At, copy
  <2>2. flow[f] \in [pc : Step, target : Hash \cup {Embedded, None}]
    BY DEF TypeOK
  <2>3. /\ flow' \in [Flow -> [pc : Step, target : Hash \cup {Embedded, None}]]
        /\ Targets' /\ Waiting'
    <3>1. CASE Check(f)
      <4>1. CASE UNCHANGED flow
        BY <2>1, <4>1 DEF TypeOK, Targets, Waiting
      <4>2. CASE Go(f, "offered", Embedded)
        BY <2>1, <4>2, GoKeeps DEF Step, RuntimeAssumption
      <4>3. CASE \E h \in Hash \ {running, pending} : Go(f, "verifying", h)
        BY <2>1, <4>3, GoKeeps DEF Step
      <4> QED
        BY <3>1, <4>1, <4>2, <4>3 DEF Check
    <3>2. CASE Verified(f)
      BY <2>1, <2>2, <3>2, GoKeeps DEF Verified, At, Step, Targets, RuntimeAssumption
    <3>3. CASE Download(f)
      BY <2>1, <2>2, <3>3, GoKeeps DEF Download, At, Step, Targets
    <3>4. CASE Downloaded(f)
      BY <2>1, <2>2, <3>4, GoKeeps DEF Downloaded, At, Step, Targets
    <3>5. CASE Abandon(f) \/ ActivateInstalled(f)
      BY <2>1, <2>2, <3>5, GoKeeps DEF Abandon, ActivateInstalled, Step
    <3>6. CASE Install(f)
      BY <2>1, <2>2, <3>6, GoKeeps DEF Install, Step
    <3> QED
      BY <1>14, <3>1, <3>2, <3>3, <3>4, <3>5, <3>6
  <2>4. offered' \in Hash \cup Flow \cup {None}
    BY <1>14 DEF Check, Verified, Download, Downloaded, Abandon, Install, ActivateInstalled, At,
                 TypeOK, Targets
  <2>5. queue' \in Seq(Call)
    <3>1. CASE Install(f)
      <4>1. CASE At(f, "downloaded") /\ Calls("install", flow[f].target, f)
        BY <4>1, CallType DEF At, Targets
      <4>2. CASE Calls("revert", None, f)
        BY <4>2, CallType
      <4> QED
        BY <3>1, <4>1, <4>2 DEF Install
    <3>2. CASE UNCHANGED queue
      BY <3>2 DEF TypeOK
    <3> QED
      BY <1>14, <3>1, <3>2 DEF Check, Verified, Download, Downloaded, Abandon, ActivateInstalled,
                               native
  <2>6. asked' \in 0 .. MaxReloads /\ blocked' \in BOOLEAN /\ timer' \in BOOLEAN
    <3>1. CASE ActivateInstalled(f)
      BY <3>1, ScheduleType, AskType DEF ActivateInstalled, Activate, Suppress, TypeOK
    <3>2. CASE UNCHANGED <<asked, blocked, timer>>
      BY <3>2 DEF TypeOK
    <3> QED
      BY <1>14, <3>1, <3>2 DEF Check, Verified, Download, Downloaded, Abandon, Install, native,
                               wish
  <2>7. UNCHANGED <<disk, run, replies, reloading, copy, revert, mode, waits, suppressed,
                    background, ready>>
    BY <1>14 DEF Check, Verified, Download, Downloaded, Abandon, Install, ActivateInstalled,
                 native, copy, wish
  <2> QED
    BY <2>3, <2>4, <2>5, <2>6, <2>7 DEF TypeOK, copy
<1> QED
  BY <1>0, <1>1, <1>2, <1>3, <1>4, <1>5, <1>6, <1>7, <1>8, <1>9, <1>10, <1>11, <1>12, <1>13,
     <1>14 DEF Next

\* The type of every variable, for any number of flows and packages.
THEOREM TypeCorrect ==
    ASSUME RuntimeAssumption
    PROVE  Spec => []TypeOK
<1>1. Init => TInv
  BY TInvInit
<1>2. TInv /\ [Next]_vars => TInv'
  BY TInvStep
<1>3. TInv => TypeOK
  BY DEF TInv
<1> QED
  BY <1>1, <1>2, <1>3, PTL DEF Spec

-----------------------------------------------------------------------------
(* the queues                                                               *)

\* An answer moves the first call to the end of the replies.
LEMMA AnswerShape ==
    ASSUME TypeOK, NEW op \in {"install", "confirm", "revert", "rejected"}, queue # <<>>,
           Answers(op)
    PROVE  /\ Len(replies) \in Nat /\ DOMAIN replies = 1 .. Len(replies)
           /\ DOMAIN replies' = 1 .. (Len(replies) + 1)
           /\ \A i \in 1 .. Len(replies) : replies'[i] = replies[i]
           /\ replies'[Len(replies) + 1].op = op
           /\ replies'[Len(replies) + 1].hash = queue[1].hash
           /\ replies'[Len(replies) + 1].flow = queue[1].flow
           /\ Len(queue) \in Nat /\ DOMAIN queue = 1 .. Len(queue) /\ 1 \in DOMAIN queue
           /\ DOMAIN queue' = 1 .. (Len(queue) - 1)
           /\ \A i \in DOMAIN queue' : queue'[i] = queue[i + 1]
           /\ Head(queue) = queue[1]
<1>1. /\ Len(queue) \in Nat /\ DOMAIN queue = 1 .. Len(queue) /\ 1 \in DOMAIN queue
      /\ Head(queue) = queue[1] /\ queue[1] \in Call
  BY DEF TypeOK
<1>2. /\ DOMAIN queue' = 1 .. (Len(queue) - 1)
      /\ \A i \in DOMAIN queue' : queue'[i] = queue[i + 1]
  BY DEF TypeOK, Answers
<1> DEFINE e == [Head(queue) EXCEPT !.op = op]
<1>3. e \in Reply /\ e.op = op /\ e.hash = queue[1].hash /\ e.flow = queue[1].flow
  BY <1>1 DEF Call, Reply
<1>4. replies \in Seq(Reply) /\ replies' = Append(replies, e)
  BY DEF TypeOK, Answers
<1> HIDE DEF e
<1>5. /\ Len(replies) \in Nat /\ DOMAIN replies = 1 .. Len(replies)
      /\ DOMAIN replies' = 1 .. (Len(replies) + 1)
      /\ \A i \in 1 .. Len(replies) : replies'[i] = replies[i]
      /\ replies'[Len(replies) + 1] = e
  BY <1>3, <1>4
<1> QED
  BY <1>1, <1>2, <1>3, <1>5

LEMMA HearShape ==
    ASSUME TypeOK, NEW op, Hears(op), replies' = Tail(replies)
    PROVE  /\ Len(replies) \in Nat /\ DOMAIN replies = 1 .. Len(replies) /\ 1 \in DOMAIN replies
           /\ DOMAIN replies' = 1 .. (Len(replies) - 1)
           /\ \A i \in DOMAIN replies' : replies'[i] = replies[i + 1]
           /\ Head(replies) = replies[1] /\ replies[1].op = op
BY DEF TypeOK, Hears

-----------------------------------------------------------------------------
(* JavaScript's copy of the pending pointer                                 *)

LEMMA PInvInit == Init => PInv
BY DEF Init, PInv

\* Native answers a call.
LEMMA PInvAnswer ==
    ASSUME TypeOK, PInv, NEW op \in {"install", "confirm", "revert", "rejected"}, queue # <<>>,
           Answers(op), UNCHANGED <<hydrated, pending>>, disk'.failed = disk.failed,
           disk'.pending = CASE op = "install" -> queue[1].hash
                             [] op = "rejected" -> disk.pending
                             [] OTHER -> None
    PROVE  PInv'
<1> SUFFICES ASSUME hydrated PROVE PInv'
  BY DEF PInv
<1> DEFINE n == Len(replies)
           last == n + 1
<1>1. /\ n \in Nat /\ DOMAIN replies = 1 .. n /\ DOMAIN replies' = 1 .. last
      /\ \A i \in 1 .. n : replies'[i] = replies[i]
      /\ replies'[last].op = op /\ replies'[last].hash = queue[1].hash
  BY AnswerShape
<1>2. CASE op = "rejected"
  <2>1. disk'.pending = disk.pending
    BY <1>2
  <2>2. \A i \in 1 .. n : Rejected(i)' <=> Rejected(i)
    BY <1>1 DEF Rejected
  <2>3. replies'[last].op = "rejected"
    BY <1>1, <1>2
  <2>4. (\A i \in DOMAIN replies' : Rejected(i)') => KnowsDisk'
    BY <1>1, <2>1, <2>2 DEF PInv, KnowsDisk
  <2>5. ASSUME NEW i \in DOMAIN replies', ~Rejected(i)',
               \A j \in DOMAIN replies' : j > i => Rejected(j)'
        PROVE  disk'.pending = Outcome(replies'[i])
    <3>1. i \in 1 .. n
      BY <1>1, <2>3, <2>5 DEF Rejected
    <3>2. disk.pending = Outcome(replies[i])
      BY <1>1, <2>2, <2>5, <3>1 DEF PInv
    <3> QED
      BY <1>1, <2>1, <3>1, <3>2
  <2> QED
    BY <2>4, <2>5 DEF PInv
<1>3. CASE op # "rejected"
  <2>1. replies'[last].op # "rejected" /\ last \in DOMAIN replies'
    BY <1>1, <1>3
  <2>2. disk'.pending = Outcome(replies'[last])
    BY <1>1, <1>3 DEF Outcome
  <2>3. \A i \in DOMAIN replies' : (\A j \in DOMAIN replies' : j > i => Rejected(j)') => i = last
    BY <1>1, <2>1 DEF Rejected
  <2> QED
    BY <2>1, <2>2, <2>3 DEF PInv, Rejected
<1> QED
  BY <1>2, <1>3

\* JavaScript hears of the outcome of a call.
LEMMA PInvHear ==
    ASSUME TypeOK, PInv, NEW op, Hears(op), replies' = Tail(replies),
           UNCHANGED <<hydrated, disk>>,
           pending' = IF op = "rejected" THEN pending ELSE Outcome(replies[1])
    PROVE  PInv'
<1> DEFINE n == Len(replies)
<1>1. /\ n \in Nat /\ DOMAIN replies = 1 .. n /\ 1 \in DOMAIN replies
      /\ DOMAIN replies' = 1 .. (n - 1)
      /\ \A i \in DOMAIN replies' : replies'[i] = replies[i + 1]
      /\ replies[1].op = op
  BY HearShape
<1>2. hydrated
  BY DEF Hears
<1>3. \A i \in DOMAIN replies' : i + 1 \in DOMAIN replies /\ (Rejected(i)' <=> Rejected(i + 1))
  BY <1>1 DEF Rejected
<1>4. \A j \in DOMAIN replies : j > 1 => j - 1 \in DOMAIN replies' /\ j = (j - 1) + 1
  BY <1>1
<1>5. (\A i \in DOMAIN replies' : Rejected(i)') => \A j \in DOMAIN replies : j > 1 => Rejected(j)
  BY <1>3, <1>4
<1>6. ASSUME \A i \in DOMAIN replies' : Rejected(i)'
      PROVE  KnowsDisk'
  <2>1. CASE op = "rejected"
    <3>1. \A j \in DOMAIN replies : Rejected(j)
      BY <1>1, <1>5, <1>6, <2>1 DEF Rejected
    <3> QED
      BY <1>2, <2>1, <3>1 DEF PInv, KnowsDisk
  <2>2. CASE op # "rejected"
    <3>1. disk.pending = Outcome(replies[1])
      BY <1>1, <1>2, <1>5, <1>6, <2>2 DEF PInv, Rejected
    <3> QED
      BY <2>2, <3>1 DEF KnowsDisk
  <2> QED
    BY <2>1, <2>2
<1>7. ASSUME NEW i \in DOMAIN replies', ~Rejected(i)',
             \A j \in DOMAIN replies' : j > i => Rejected(j)'
      PROVE  disk'.pending = Outcome(replies'[i])
  <2>1. i \in Nat /\ i + 1 \in DOMAIN replies /\ ~Rejected(i + 1)
    BY <1>1, <1>3, <1>7
  <2>2. ASSUME NEW j \in DOMAIN replies, j > i + 1
        PROVE  Rejected(j)
    <3>1. j - 1 \in DOMAIN replies' /\ j - 1 > i /\ (j - 1) + 1 = j
      BY <1>1, <2>1, <2>2
    <3> QED
      BY <1>3, <1>7, <3>1
  <2>3. disk.pending = Outcome(replies[i + 1])
    BY <1>2, <2>1, <2>2 DEF PInv
  <2> QED
    BY <1>1, <2>3
<1> QED
  BY <1>6, <1>7 DEF PInv

LEMMA PInvStep == TInv /\ PInv /\ [Next]_vars => PInv'
<1> SUFFICES ASSUME TInv, PInv, [Next]_vars PROVE PInv'
  OBVIOUS
<1>0. TypeOK
  BY DEF TInv
<1>1. CASE UNCHANGED <<disk, replies, hydrated, pending>>
  BY <1>1 DEF PInv, Rejected, KnowsDisk, Outcome
<1>2. CASE NativeInstall \/ NativeConfirm \/ NativeRevert \/ NativeCallFails
  <2>1. queue # <<>> /\ Head(queue) = queue[1] /\ UNCHANGED <<hydrated, pending>>
    BY <1>0, <1>2 DEF NativeInstall, NativeConfirm, NativeRevert, NativeCallFails, Executes, copy,
                      TypeOK
  <2>2. disk \in [current : Pointer, pending : Pointer, failed : Pointer]
    BY <1>0 DEF TypeOK
  <2>3. CASE NativeInstall
    BY <1>0, <2>1, <2>2, <2>3, PInvAnswer DEF NativeInstall
  <2>4. CASE NativeConfirm
    BY <1>0, <2>1, <2>2, <2>4, PInvAnswer DEF NativeConfirm
  <2>5. CASE NativeRevert
    BY <1>0, <2>1, <2>2, <2>5, PInvAnswer DEF NativeRevert
  <2>6. CASE NativeCallFails
    BY <1>0, <2>1, <2>2, <2>6, PInvAnswer DEF NativeCallFails
  <2> QED
    BY <1>2, <2>3, <2>4, <2>5, <2>6
<1>3. CASE ReplaceRuntime \/ RestartProcess
  BY <1>3 DEF ReplaceRuntime, RestartProcess, FreshRuntime, PInv
<1>4. CASE Hydrate
  BY <1>4 DEF Hydrate, PInv, KnowsDisk, PendingBoots
<1>5. CASE ConfirmAnswered \/ RevertAnswered
  <2>1. /\ Hears("confirm") \/ Hears("revert")
        /\ replies' = Tail(replies) /\ UNCHANGED <<hydrated, disk>> /\ pending' = None
    BY <1>5 DEF ConfirmAnswered, RevertAnswered
  <2>2. Head(replies) = replies[1]
    BY <1>0, <2>1 DEF Hears, TypeOK
  <2>3. Outcome(replies[1]) = None
    BY <2>1, <2>2 DEF Outcome, Hears
  <2> QED
    BY <1>0, <2>1, <2>3, PInvHear
<1>6. CASE InstallAnswered
  <2>1. Outcome(replies[1]) = Head(replies).hash
    BY <1>0, <1>6 DEF InstallAnswered, Hears, Outcome, TypeOK
  <2> QED
    BY <1>0, <1>6, <2>1, PInvHear DEF InstallAnswered
<1>7. CASE CallRejected
  BY <1>0, <1>7, PInvHear DEF CallRejected, copy
<1>8. CASE UiReloads \/ NativeReload \/ EnterBackground \/ EnterForeground \/ SuspendTimerFires
           \/ DisallowRestart \/ AllowRestart \/ RestartApp \/ NotifyAppReady
           \/ \E f \in Flow : \/ Check(f) \/ Verified(f) \/ Download(f) \/ Downloaded(f)
                              \/ Abandon(f) \/ Install(f) \/ ActivateInstalled(f)
  <2>1. UNCHANGED <<disk, replies, hydrated, pending>>
    BY <1>8 DEF UiReloads, NativeReload, EnterBackground, EnterForeground, SuspendTimerFires,
                DisallowRestart, AllowRestart, RestartApp, NotifyAppReady, Check, Verified,
                Download, Downloaded, Abandon, Install, ActivateInstalled, native, copy
  <2> QED
    BY <1>1, <2>1
<1> QED
  BY <1>1, <1>2, <1>3, <1>4, <1>5, <1>6, <1>7, <1>8 DEF Next, vars, native, copy

\* Whatever order the installs, confirmations and reverts of any number of
\* flows are made, fail and are answered in, JavaScript's pending package is
\* that of the disk when no call is on its way (runtime.ts setState after each
\* native call, CodemagicPatchModule.kt on its io thread).
THEOREM PendingIsMirrored ==
    ASSUME RuntimeAssumption
    PROVE  Spec => []PendingMirrorsDisk
<1>1. Init => TInv /\ PInv
  BY TInvInit, PInvInit
<1>2. TInv /\ PInv /\ [Next]_vars => TInv' /\ PInv'
  BY TInvStep, PInvStep
<1>3. PInv => PendingMirrorsDisk
  BY DEF PInv, PendingMirrorsDisk, Quiet, KnowsDisk
<1> QED
  BY <1>1, <1>2, <1>3, PTL DEF Spec

-----------------------------------------------------------------------------
(* one call of a flow at a time                                             *)

LEMMA CInvInit == Init => CInv
BY DEF Init, CInv

LEMMA QueueTypes ==
    ASSUME TypeOK
    PROVE  /\ \A i \in DOMAIN queue : queue[i] \in Call /\ queue[i].flow \in Flow \cup {None}
           /\ \A i \in DOMAIN replies : replies[i] \in Reply /\ replies[i].flow \in Flow \cup {None}
           /\ Len(queue) \in Nat /\ DOMAIN queue = 1 .. Len(queue)
           /\ Len(replies) \in Nat /\ DOMAIN replies = 1 .. Len(replies)
<1>1. queue \in Seq(Call) /\ replies \in Seq(Reply)
  BY DEF TypeOK
<1>2. \A i \in DOMAIN queue : queue[i] \in Call
  BY <1>1
<1>3. \A i \in DOMAIN replies : replies[i] \in Reply
  BY <1>1
<1> QED
  BY <1>1, <1>2, <1>3 DEF Call, Reply

\* A flow that awaits nothing makes a step of its own.
LEMMA CInvFlow ==
    ASSUME TypeOK, CInv, NEW f, flow[f].pc # "calling",
           \A g \in Flow \ {f} : flow'[g] = flow[g],
           UNCHANGED <<queue, replies, hydrated>>
    PROVE  CInv'
BY QueueTypes DEF CInv, AwaitsCall, SameFlow

\* A call joins the queue: of no flow, or of one that awaits nothing until then.
LEMMA CInvCall ==
    ASSUME TypeOK, CInv, NEW op \in {"install", "confirm", "revert", "reload"},
           NEW h \in Pointer, NEW f \in Flow \cup {None}, Calls(op, h, f),
           UNCHANGED <<replies, hydrated>>,
           f # None => flow[f].pc # "calling" /\ flow'[f].pc = "calling",
           \A g \in Flow \ {f} : flow'[g] = flow[g]
    PROVE  CInv'
<1> SUFFICES ASSUME hydrated PROVE CInv'
  BY DEF CInv
<1> DEFINE n == Len(queue)
<1>1. /\ n \in Nat /\ DOMAIN queue = 1 .. n /\ DOMAIN queue' = 1 .. (n + 1)
      /\ \A i \in 1 .. n : queue'[i] = queue[i]
      /\ queue'[n + 1].flow = f
  <2>1. AskNative(op, h, f) \in Call /\ AskNative(op, h, f).flow = f
    BY DEF AskNative, Call
  <2> QED
    BY <2>1 DEF Calls, TypeOK
<1>2. /\ \A i \in DOMAIN queue : queue[i].flow \in (Flow \ {f}) \cup {None}
      /\ \A i \in DOMAIN replies : replies[i].flow \in (Flow \ {f}) \cup {None}
  BY QueueTypes DEF CInv, AwaitsCall
<1>3. /\ \A i \in DOMAIN queue' : AwaitsCall(queue[i])'
      /\ \A i \in DOMAIN replies' : AwaitsCall(replies[i])'
  BY <1>1, <1>2 DEF CInv, AwaitsCall
<1>4. /\ \A i, j \in DOMAIN queue' : SameFlow(queue'[i], queue'[j]) => i = j
      /\ \A i, j \in DOMAIN replies' : SameFlow(replies'[i], replies'[j]) => i = j
      /\ \A i \in DOMAIN queue', j \in DOMAIN replies' : ~SameFlow(queue'[i], replies'[j])
  BY <1>1, <1>2 DEF CInv, SameFlow
<1> QED
  BY <1>3, <1>4 DEF CInv, AwaitsCall, SameFlow

\* A call becomes an answer.
LEMMA CInvAnswer ==
    ASSUME TypeOK, CInv, NEW op \in {"install", "confirm", "revert", "rejected"}, queue # <<>>,
           Answers(op), UNCHANGED <<hydrated, flow>>
    PROVE  CInv'
<1> SUFFICES ASSUME hydrated PROVE CInv'
  BY DEF CInv
<1> DEFINE n == Len(replies)
<1>1. /\ n \in Nat /\ DOMAIN replies = 1 .. n /\ DOMAIN replies' = 1 .. (n + 1)
      /\ \A i \in 1 .. n : replies'[i] = replies[i]
      /\ replies'[n + 1].flow = queue[1].flow
      /\ 1 \in DOMAIN queue
      /\ \A i \in DOMAIN queue' : /\ queue'[i] = queue[i + 1] /\ i \in Nat
                                  /\ i + 1 \in DOMAIN queue /\ i + 1 # 1
  BY AnswerShape
<1>2. /\ \A i \in DOMAIN queue' : AwaitsCall(queue[i])'
      /\ \A i \in DOMAIN replies' : AwaitsCall(replies[i])'
  BY <1>1 DEF CInv, AwaitsCall
<1>3. \A i, j \in DOMAIN queue' : SameFlow(queue'[i], queue'[j]) => i = j
  BY <1>1 DEF CInv
<1>4. \A i, j \in DOMAIN replies' : SameFlow(replies'[i], replies'[j]) => i = j
  BY <1>1 DEF CInv, SameFlow
<1>5. \A i \in DOMAIN queue', j \in DOMAIN replies' : ~SameFlow(queue'[i], replies'[j])
  BY <1>1 DEF CInv, SameFlow
<1> QED
  BY <1>2, <1>3, <1>4, <1>5 DEF CInv, AwaitsCall, SameFlow

\* An answer is heard by the flow that awaits it.
LEMMA CInvHear ==
    ASSUME TypeOK, CInv, NEW op, Hears(op), replies' = Tail(replies), UNCHANGED <<hydrated, queue>>,
           \A g \in Flow \ {replies[1].flow} : flow'[g] = flow[g]
    PROVE  CInv'
<1>1. /\ 1 \in DOMAIN replies
      /\ \A i \in DOMAIN replies' : /\ replies'[i] = replies[i + 1] /\ i \in Nat
                                    /\ i + 1 \in DOMAIN replies /\ i + 1 # 1
  BY HearShape
<1>2. hydrated
  BY DEF Hears
<1>3. /\ \A i \in DOMAIN queue : queue[i].flow \in (Flow \ {replies[1].flow}) \cup {None}
      /\ \A i \in DOMAIN replies' : replies'[i].flow \in (Flow \ {replies[1].flow}) \cup {None}
  BY <1>1, <1>2, QueueTypes DEF CInv, SameFlow
<1>4. /\ \A i \in DOMAIN queue' : AwaitsCall(queue[i])'
      /\ \A i \in DOMAIN replies' : AwaitsCall(replies[i])'
  BY <1>1, <1>2, <1>3 DEF CInv, AwaitsCall
<1>5. /\ \A i, j \in DOMAIN queue' : SameFlow(queue'[i], queue'[j]) => i = j
      /\ \A i, j \in DOMAIN replies' : SameFlow(replies'[i], replies'[j]) => i = j
      /\ \A i \in DOMAIN queue', j \in DOMAIN replies' : ~SameFlow(queue'[i], replies'[j])
  BY <1>1, <1>2 DEF CInv
<1> QED
  BY <1>4, <1>5 DEF CInv, AwaitsCall, SameFlow

\* Where the steps of the flows leave the others.
LEMMA GoLeaves ==
    ASSUME TypeOK, NEW f, NEW pc, NEW t, Go(f, pc, t)
    PROVE  /\ \A g \in Flow \ {f} : flow'[g] = flow[g]
           /\ f \in Flow => flow'[f].pc = pc
BY DEF Go, TypeOK

LEMMA CInvStep == RuntimeAssumption /\ TInv /\ CInv /\ [Next]_vars => CInv'
<1> SUFFICES ASSUME RuntimeAssumption, TInv, CInv, [Next]_vars PROVE CInv'
  OBVIOUS
<1>0. TypeOK /\ None \in Pointer
  BY DEF TInv, Pointer
<1>1. CASE UNCHANGED <<queue, replies, hydrated, flow>>
  BY <1>1 DEF CInv, AwaitsCall, SameFlow
<1>2. CASE NativeInstall \/ NativeConfirm \/ NativeRevert \/ NativeCallFails
  <2>1. PICK op \in {"install", "confirm", "revert", "rejected"} :
          Answers(op) /\ queue # <<>> /\ UNCHANGED <<hydrated, flow>>
    BY <1>2 DEF NativeInstall, NativeConfirm, NativeRevert, NativeCallFails, Executes, copy
  <2> QED
    BY <1>0, <2>1, CInvAnswer
<1>3. CASE UiReloads \/ NotifyAppReady
  <2>1. /\ Calls("reload", None, None) \/ Calls("confirm", None, None)
        /\ UNCHANGED <<replies, hydrated, flow>>
    BY <1>3 DEF UiReloads, NotifyAppReady, copy
  <2> QED
    BY <1>0, <2>1, CInvCall
<1>4. CASE NativeReload
  <2>1. UNCHANGED <<replies, hydrated, flow>>
    BY <1>4 DEF NativeReload, copy
  <2>2. \A i \in DOMAIN queue' : i \in Nat /\ i + 1 \in DOMAIN queue /\ queue'[i] = queue[i + 1]
    BY <1>0, <1>4 DEF NativeReload, Executes, TypeOK
  <2> QED
    BY <2>1, <2>2 DEF CInv, AwaitsCall, SameFlow
<1>5. CASE ReplaceRuntime \/ RestartProcess
  BY <1>5 DEF ReplaceRuntime, RestartProcess, FreshRuntime, CInv
<1>6. CASE Hydrate
  BY <1>6 DEF Hydrate, CInv
<1>7. CASE ConfirmAnswered
  BY <1>0, <1>7, CInvHear DEF ConfirmAnswered
<1>8. CASE InstallAnswered \/ RevertAnswered
  <2>1. /\ Hears("install") \/ Hears("revert")
        /\ replies' = Tail(replies) /\ UNCHANGED <<hydrated, queue>>
        /\ \E pc, t : Go(Head(replies).flow, pc, t)
    BY <1>8 DEF InstallAnswered, RevertAnswered
  <2>2. Head(replies) = replies[1]
    BY <1>0, <2>1, HearShape
  <2> QED
    BY <1>0, <2>1, <2>2, CInvHear, GoLeaves
<1>9. CASE CallRejected
  <2>1. /\ Hears("rejected") /\ replies' = Tail(replies) /\ UNCHANGED <<hydrated, queue>>
        /\ \/ UNCHANGED flow
           \/ \E pc, t : Go(Head(replies).flow, pc, t)
    BY <1>9 DEF CallRejected, copy
  <2>2. Head(replies) = replies[1]
    BY <1>0, <2>1, HearShape
  <2> QED
    BY <1>0, <2>1, <2>2, CInvHear, GoLeaves
<1>10. ASSUME NEW f \in Flow,
              \/ Check(f) \/ Verified(f) \/ Download(f) \/ Downloaded(f)
              \/ Abandon(f) \/ ActivateInstalled(f)
       PROVE  CInv'
  <2>1. flow[f].pc # "calling" /\ UNCHANGED <<queue, replies, hydrated>>
    BY <1>10 DEF Check, Verified, Download, Downloaded, Abandon, ActivateInstalled, At, native, copy
  <2>2. UNCHANGED flow \/ \E pc, t : Go(f, pc, t)
    BY <1>10 DEF Check, Verified, Download, Downloaded, Abandon, ActivateInstalled
  <2> QED
    BY <1>0, <2>1, <2>2, CInvFlow, GoLeaves
<1>11. ASSUME NEW f \in Flow, Install(f)
       PROVE  CInv'
  <2>1. /\ flow[f].pc # "calling" /\ UNCHANGED <<replies, hydrated>>
        /\ Go(f, "calling", flow[f].target)
    BY <1>11 DEF Install, At, copy
  <2>2. \/ Calls("install", flow[f].target, f) /\ flow[f].target \in Pointer
        \/ Calls("revert", None, f)
    BY <1>11 DEF Install, At, TInv, Targets, Pointer
  <2>3. flow'[f].pc = "calling"
    BY <1>0, <2>1, GoLeaves
  <2> QED
    BY <1>0, <2>1, <2>2, <2>3, CInvCall, GoLeaves
<1>12. CASE EnterBackground \/ EnterForeground \/ SuspendTimerFires \/ DisallowRestart
            \/ AllowRestart \/ RestartApp
  BY <1>1, <1>12 DEF EnterBackground, EnterForeground, SuspendTimerFires, DisallowRestart,
                     AllowRestart, RestartApp, native, copy
<1> QED
  BY <1>1, <1>2, <1>3, <1>4, <1>5, <1>6, <1>7, <1>8, <1>9, <1>10, <1>11, <1>12
     DEF Next, vars, native, copy

\* Every install is of some flow.
Owned(c) == c.op = "install" => c.flow \in Flow

OInv ==
    /\ \A i \in DOMAIN queue : Owned(queue[i])
    /\ \A i \in DOMAIN replies : Owned(replies[i])

LEMMA OInvInit == Init => OInv
BY DEF Init, OInv

LEMMA OInvStep == RuntimeAssumption /\ TInv /\ OInv /\ [Next]_vars => OInv'
<1> SUFFICES ASSUME RuntimeAssumption, TInv, OInv, [Next]_vars PROVE OInv'
  OBVIOUS
<1>0. TypeOK /\ None \in Pointer
  BY DEF TInv, Pointer
<1>1. CASE UNCHANGED <<queue, replies>>
  BY <1>1 DEF OInv, Owned
<1>2. CASE NativeInstall \/ NativeConfirm \/ NativeRevert \/ NativeCallFails
  <2>1. PICK op \in {"install", "confirm", "revert", "rejected"} :
          Answers(op) /\ queue # <<>> /\ (op = "install" => Head(queue).op = "install")
    BY <1>2 DEF NativeInstall, NativeConfirm, NativeRevert, NativeCallFails, Executes
  <2>2. /\ Len(replies) \in Nat /\ DOMAIN replies = 1 .. Len(replies)
        /\ DOMAIN replies' = 1 .. (Len(replies) + 1)
        /\ \A i \in 1 .. Len(replies) : replies'[i] = replies[i]
        /\ replies'[Len(replies) + 1].op = op
        /\ replies'[Len(replies) + 1].flow = queue[1].flow
        /\ Head(queue) = queue[1] /\ 1 \in DOMAIN queue
    BY <1>0, <2>1, AnswerShape
  <2>3. \A i \in DOMAIN queue' : i + 1 \in DOMAIN queue /\ queue'[i] = queue[i + 1]
    BY <1>0, <2>1, AnswerShape
  <2> QED
    BY <2>1, <2>2, <2>3 DEF OInv, Owned
<1>3. CASE UiReloads \/ NotifyAppReady \/ \E f \in Flow : Install(f)
  <2>1. UNCHANGED replies
    BY <1>3 DEF UiReloads, NotifyAppReady, Install
  <2>2. PICK op \in {"install", "confirm", "revert", "reload"}, h \in Pointer,
             f \in Flow \cup {None} :
          Calls(op, h, f) /\ (op = "install" => f \in Flow)
    BY <1>0, <1>3 DEF UiReloads, NotifyAppReady, Install, At, TInv, Targets, Pointer
  <2>3. /\ AskNative(op, h, f) \in Call /\ Owned(AskNative(op, h, f))
        /\ queue' = Append(queue, AskNative(op, h, f)) /\ queue \in Seq(Call)
    BY <1>0, <2>2 DEF Calls, AskNative, Call, Owned, TypeOK
  <2>4. \A i \in DOMAIN queue' : \/ i \in DOMAIN queue /\ queue'[i] = queue[i]
                                 \/ queue'[i] = AskNative(op, h, f)
    BY <2>3
  <2> QED
    BY <2>1, <2>3, <2>4 DEF OInv, Owned
<1>4. CASE NativeReload
  <2>1. UNCHANGED replies
    BY <1>4 DEF NativeReload
  <2>2. \A i \in DOMAIN queue' : i + 1 \in DOMAIN queue /\ queue'[i] = queue[i + 1]
    BY <1>0, <1>4 DEF NativeReload, Executes, TypeOK
  <2> QED
    BY <2>1, <2>2 DEF OInv, Owned
<1>5. CASE ReplaceRuntime \/ RestartProcess \/ Hydrate
  BY <1>5 DEF ReplaceRuntime, RestartProcess, Hydrate, OInv, Owned
<1>6. CASE ConfirmAnswered \/ InstallAnswered \/ CallRejected \/ RevertAnswered
  <2>1. replies # <<>> /\ replies' = Tail(replies) /\ UNCHANGED queue
    BY <1>6 DEF ConfirmAnswered, InstallAnswered, CallRejected, RevertAnswered, Hears
  <2>2. \A i \in DOMAIN replies' : i + 1 \in DOMAIN replies /\ replies'[i] = replies[i + 1]
    BY <1>0, <2>1 DEF TypeOK
  <2> QED
    BY <2>1, <2>2 DEF OInv, Owned
<1>7. CASE EnterBackground \/ EnterForeground \/ SuspendTimerFires \/ DisallowRestart
           \/ AllowRestart \/ RestartApp
           \/ \E f \in Flow : \/ Check(f) \/ Verified(f) \/ Download(f) \/ Downloaded(f)
                              \/ Abandon(f) \/ ActivateInstalled(f)
  BY <1>1, <1>7 DEF EnterBackground, EnterForeground, SuspendTimerFires, DisallowRestart,
                    AllowRestart, RestartApp, Check, Verified, Download, Downloaded, Abandon,
                    ActivateInstalled, native
<1> QED
  BY <1>1, <1>2, <1>3, <1>4, <1>5, <1>6, <1>7 DEF Next, vars, native

-----------------------------------------------------------------------------
(* immediate installs                                                       *)

\* A reload is on its way, or the activation is remembered.
ReloadIsDue == asked # 0 \/ \E i \in DOMAIN queue : queue[i].op = "reload"

Held == suppressed /\ blocked

IInv ==
    /\ hydrated /\ ~reloading
    /\ HasPendingActivation /\ mode = "IMMEDIATE"
    /\ \A f \in Flow : flow[f].pc # "installed"
    => ReloadIsDue \/ Held

LEMMA DueMeansAsked ==
    ASSUME TypeOK
    PROVE  ReloadIsDue <=> asked + ReloadsQueued # 0
BY ReloadsType DEF ReloadIsDue, TypeOK

LEMMA AskIsDue ==
    ASSUME RuntimeAssumption, TypeOK, AskReload
    PROVE  ReloadIsDue'
BY AskType DEF ReloadIsDue, TypeOK, RuntimeAssumption

\* A call joins the end of the queue, and leaves what is due due.
LEMMA CallKeepsDue ==
    ASSUME TypeOK, NEW op \in {"install", "confirm", "revert", "reload"}, NEW h \in Pointer,
           NEW f \in Flow \cup {None}, Calls(op, h, f)
    PROVE  /\ UNCHANGED asked /\ ReloadIsDue => ReloadIsDue'
           /\ op = "reload" => ReloadIsDue'
<1> DEFINE n == Len(queue)
<1>1. /\ n \in Nat /\ DOMAIN queue = 1 .. n /\ DOMAIN queue' = 1 .. (n + 1)
      /\ \A i \in 1 .. n : queue'[i] = queue[i]
      /\ queue'[n + 1].op = op
  <2>1. AskNative(op, h, f) \in Call /\ AskNative(op, h, f).op = op
    BY DEF AskNative, Call
  <2> QED
    BY <2>1 DEF Calls, TypeOK
<1> QED
  BY <1>1 DEF ReloadIsDue

\* An answer takes a call that was no reload from the queue.
LEMMA AnswerKeepsDue ==
    ASSUME TypeOK, NEW op \in {"install", "confirm", "revert", "rejected"}, queue # <<>>,
           Answers(op), Head(queue).op # "reload", UNCHANGED asked, ReloadIsDue
    PROVE  ReloadIsDue'
<1>1. /\ Len(queue) \in Nat /\ DOMAIN queue = 1 .. Len(queue)
      /\ DOMAIN queue' = 1 .. (Len(queue) - 1)
      /\ \A i \in DOMAIN queue' : queue'[i] = queue[i + 1]
      /\ Head(queue) = queue[1]
  BY AnswerShape
<1>2. ASSUME NEW i \in DOMAIN queue, queue[i].op = "reload"
      PROVE  ReloadIsDue'
  <2>1. i # 1
    BY <1>1, <1>2
  <2>2. i - 1 \in DOMAIN queue' /\ queue'[i - 1] = queue[i]
    BY <1>1, <2>1
  <2> QED
    BY <1>2, <2>2 DEF ReloadIsDue
<1> QED
  BY <1>2 DEF ReloadIsDue

LEMMA IInvInit == Init => IInv
BY DEF Init, IInv

LEMMA IInvStep == RuntimeAssumption /\ TInv /\ OInv /\ CInv /\ IInv /\ [Next]_vars => IInv'
<1> SUFFICES ASSUME RuntimeAssumption, TInv, OInv, CInv, IInv, [Next]_vars PROVE IInv'
  OBVIOUS
<1>0. TypeOK /\ None \in Pointer
  BY DEF TInv, Pointer
<1> DEFINE watched == <<hydrated, reloading, pending, revert, mode, flow>>
\* steps that change nothing of what is to be activated
<1>1. ASSUME UNCHANGED watched, ReloadIsDue => ReloadIsDue', Held => Held' \/ ReloadIsDue'
      PROVE  IInv'
  BY <1>1 DEF IInv, HasPendingActivation
<1>2. CASE UNCHANGED <<watched, asked, queue, suppressed, blocked>>
  BY <1>1, <1>2 DEF ReloadIsDue, Held
<1>3. CASE NativeInstall \/ NativeConfirm \/ NativeRevert \/ NativeCallFails
  <2>1. PICK op \in {"install", "confirm", "revert", "rejected"} :
          Answers(op) /\ queue # <<>> /\ Head(queue).op # "reload"
    BY <1>3 DEF NativeInstall, NativeConfirm, NativeRevert, NativeCallFails, Executes
  <2>2. UNCHANGED watched /\ UNCHANGED <<asked, suppressed, blocked>>
    BY <1>3 DEF NativeInstall, NativeConfirm, NativeRevert, NativeCallFails, copy, wish
  <2> QED
    BY <1>0, <1>1, <2>1, <2>2, AnswerKeepsDue DEF Held
<1>4. CASE UiReloads
  BY <1>0, <1>1, <1>4, CallKeepsDue DEF UiReloads, copy, wish, Held
<1>5. CASE NativeReload \/ ReplaceRuntime \/ RestartProcess
  BY <1>5 DEF NativeReload, ReplaceRuntime, RestartProcess, FreshRuntime, IInv
<1>6. CASE Hydrate
  BY <1>6 DEF Hydrate, TInv, Waiting, wish, IInv
<1>7. CASE EnterBackground \/ EnterForeground \/ SuspendTimerFires
  <2>1. UNCHANGED watched /\ UNCHANGED <<queue, suppressed>>
    BY <1>7 DEF EnterBackground, EnterForeground, SuspendTimerFires, copy
  <2>2. \/ UNCHANGED <<asked, blocked>>
        \/ suppressed /\ Suppress
        \/ Activate
    BY <1>7 DEF EnterBackground, EnterForeground, SuspendTimerFires, ScheduleSuspend,
                ActivateForLifecycle
  <2>3. CASE UNCHANGED <<asked, blocked>>
    BY <1>2, <2>1, <2>3
  <2>4. CASE suppressed /\ Suppress
    BY <1>1, <2>1, <2>4 DEF Suppress, Held, ReloadIsDue
  <2>5. CASE Activate
    BY <1>0, <1>1, <2>1, <2>5, AskIsDue DEF Activate
  <2> QED
    BY <2>2, <2>3, <2>4, <2>5
<1>8. CASE DisallowRestart
  BY <1>1, <1>8 DEF DisallowRestart, native, copy, Held, ReloadIsDue
<1>9. CASE AllowRestart
  <2>1. UNCHANGED watched /\ UNCHANGED queue
    BY <1>9 DEF AllowRestart, copy
  <2>2. CASE HasPendingActivation /\ blocked
    BY <1>0, <1>1, <1>9, <2>1, <2>2, AskIsDue DEF AllowRestart, Activate
  <2>3. CASE ~(HasPendingActivation /\ blocked)
    BY <1>9, <2>1, <2>3 DEF AllowRestart, IInv, Held, HasPendingActivation, ReloadIsDue
  <2> QED
    BY <2>2, <2>3
<1>10. CASE RestartApp
  <2>1. UNCHANGED watched /\ UNCHANGED <<queue, suppressed>>
    BY <1>10 DEF RestartApp, copy
  <2>2. CASE suppressed /\ Suppress
    BY <1>1, <2>1, <2>2 DEF Suppress, Held, ReloadIsDue
  <2>3. CASE AskReload
    BY <1>0, <1>1, <2>1, <2>3, AskIsDue
  <2> QED
    BY <1>10, <2>2, <2>3 DEF RestartApp, Activate
<1>11. CASE NotifyAppReady
  <2>1. UNCHANGED watched /\ UNCHANGED <<asked, suppressed, blocked>>
        /\ Calls("confirm", None, None)
    BY <1>11 DEF NotifyAppReady, copy, wish
  <2> QED
    BY <1>0, <1>1, <2>1, CallKeepsDue DEF Held
<1>12. CASE ConfirmAnswered
  BY <1>12 DEF ConfirmAnswered, IInv
<1>13. CASE InstallAnswered
  <2>1. Hears("install") /\ Go(Head(replies).flow, "installed", Head(replies).hash)
    BY <1>13 DEF InstallAnswered
  <2>2. Head(replies) = replies[1] /\ 1 \in DOMAIN replies /\ replies[1].op = "install"
    BY <1>0, <1>13, HearShape DEF InstallAnswered
  <2>3. replies[1].flow \in Flow
    BY <2>2 DEF OInv, Owned
  <2>4. flow'[replies[1].flow].pc = "installed"
    BY <1>0, <2>1, <2>2, <2>3, GoLeaves
  <2> QED
    BY <2>3, <2>4 DEF IInv
<1>14. CASE CallRejected
  <2>1. /\ Hears("rejected") /\ replies' = Tail(replies)
        /\ UNCHANGED <<hydrated, reloading, pending, revert, mode>>
        /\ UNCHANGED <<asked, queue, suppressed, blocked>>
        /\ UNCHANGED flow \/ (Head(replies).flow # None /\ \E pc, t : Go(Head(replies).flow, pc, t))
    BY <1>14 DEF CallRejected, copy, wish
  <2>2. /\ Head(replies) = replies[1] /\ 1 \in DOMAIN replies
    BY <1>0, <2>1, HearShape
  <2>3. replies[1].flow # None => flow[replies[1].flow].pc # "installed"
    BY <2>1, <2>2, <1>0 DEF CInv, AwaitsCall, Hears
  <2>4. (\A f \in Flow : flow'[f].pc # "installed") => \A f \in Flow : flow[f].pc # "installed"
    BY <1>0, <2>1, <2>2, <2>3, GoLeaves
  <2> QED
    BY <2>1, <2>4 DEF IInv, HasPendingActivation, ReloadIsDue, Held
<1>15. CASE RevertAnswered
  <2>1. /\ mode' = "IMMEDIATE" /\ ~suppressed => Activate
        /\ mode' = "IMMEDIATE" /\ suppressed => blocked' = TRUE
        /\ UNCHANGED <<queue, suppressed>>
    BY <1>15 DEF RevertAnswered
  <2> QED
    BY <1>0, <2>1, AskIsDue DEF Activate, IInv, Held
\* a step of a flow that is not the last of an install
<1>16. ASSUME NEW f \in Flow,
              \/ Check(f) \/ Verified(f) \/ Download(f) \/ Downloaded(f)
              \/ Abandon(f) \/ Install(f)
       PROVE  IInv'
  <2>1. /\ flow[f].pc # "installed"
        /\ UNCHANGED <<hydrated, reloading, pending, revert, mode>>
        /\ UNCHANGED <<asked, suppressed, blocked>>
        /\ UNCHANGED flow \/ \E pc, t : Go(f, pc, t)
    BY <1>16 DEF Check, Verified, Download, Downloaded, Abandon, Install, At, native, copy, wish
  <2>2. (\A g \in Flow : flow'[g].pc # "installed") => \A g \in Flow : flow[g].pc # "installed"
    BY <1>0, <2>1, GoLeaves
  <2>3. ReloadIsDue => ReloadIsDue'
    <3>1. CASE Install(f)
      <4>1. \/ Calls("install", flow[f].target, f) /\ flow[f].target \in Pointer
            \/ Calls("revert", None, f)
        BY <3>1 DEF Install, At, TInv, Targets, Pointer
      <4> QED
        BY <1>0, <2>1, <4>1, CallKeepsDue
    <3>2. CASE UNCHANGED queue
      BY <2>1, <3>2 DEF ReloadIsDue
    <3> QED
      BY <1>16, <3>1, <3>2 DEF Check, Verified, Download, Downloaded, Abandon, native
  <2> QED
    BY <2>1, <2>2, <2>3 DEF IInv, HasPendingActivation, Held
<1>17. ASSUME NEW f \in Flow, ActivateInstalled(f)
       PROVE  IInv'
  <2>1. UNCHANGED <<hydrated, reloading, pending, revert, mode, queue, suppressed>>
    BY <1>17 DEF ActivateInstalled, copy
  <2>2. CASE mode # "IMMEDIATE" \/ ~HasPendingActivation
    BY <2>1, <2>2 DEF IInv, HasPendingActivation
  <2>3. CASE mode = "IMMEDIATE" /\ HasPendingActivation
    BY <1>0, <1>17, <2>1, <2>3, AskIsDue DEF ActivateInstalled, Suppress, Activate, IInv, Held
  <2> QED
    BY <2>2, <2>3
<1> QED
  BY <1>2, <1>3, <1>4, <1>5, <1>6, <1>7, <1>8, <1>9, <1>10, <1>11, <1>12, <1>13, <1>14, <1>15,
     <1>16, <1>17 DEF Next, vars, native, copy, wish

\* For any number of flows, packages and reloads: an immediate install is
\* activated, about to be, or held back by disallowRestart and remembered for
\* allowRestart (runtime.ts activateInstalledUpdate, activateForLifecycle).
THEOREM ImmediateIsActivated ==
    ASSUME RuntimeAssumption
    PROVE  Spec => []ImmediateActivates
<1>1. Init => TInv /\ OInv /\ CInv /\ IInv
  BY TInvInit, OInvInit, CInvInit, IInvInit
<1>2. TInv /\ OInv /\ CInv /\ IInv /\ [Next]_vars => TInv' /\ OInv' /\ CInv' /\ IInv'
  BY TInvStep, OInvStep, CInvStep, IInvStep
<1>3. TInv /\ IInv => ImmediateActivates
  <2> SUFFICES ASSUME TInv, IInv PROVE ImmediateActivates
    OBVIOUS
  <2>1. TypeOK /\ DOMAIN flow = Flow
    BY DEF TInv, TypeOK
  <2> QED
    BY <2>1, DueMeansAsked DEF IInv, Held, ImmediateActivates, At
<1> QED
  BY <1>1, <1>2, <1>3, PTL DEF Spec

-----------------------------------------------------------------------------
(* suppressed activations                                                   *)

\* No step asks for a reload to activate a package while disallowRestart is in
\* force: lifecycle events, the suspend timer, allowRestart, restartApp and the
\* ends of installs and reverts all look at it (runtime.ts restartSuppressed).
THEOREM SuppressedIsHeldBack ==
    ASSUME RuntimeAssumption
    PROVE  Spec => SuppressedNeverActivates
<1>1. TInv /\ [Next]_vars => [asked' > asked => ~suppressed' \/ ~HasPendingActivation]_vars
  <2> SUFFICES ASSUME TInv, Next, asked' > asked
               PROVE  ~suppressed' \/ ~HasPendingActivation
    OBVIOUS
  <2>1. asked \in Nat
    BY DEF TInv, TypeOK
  <2>2. asked' # asked /\ ~(asked' = asked - 1) /\ asked' # 0
    BY <2>1
  <2>3. CASE EnterBackground \/ EnterForeground \/ SuspendTimerFires
    BY <2>2, <2>3 DEF EnterBackground, EnterForeground, SuspendTimerFires, ScheduleSuspend,
                      ActivateForLifecycle, Suppress
  <2>4. CASE AllowRestart \/ RestartApp \/ RevertAnswered
    BY <2>2, <2>4 DEF AllowRestart, RestartApp, RevertAnswered, Suppress
  <2>5. CASE \E f \in Flow : ActivateInstalled(f)
    <3>1. PICK f \in Flow : ActivateInstalled(f)
      BY <2>5
    <3>2. CASE ScheduleSuspend
      BY <2>2, <3>1, <3>2 DEF ActivateInstalled, ScheduleSuspend, ActivateForLifecycle, Suppress
    <3>3. CASE ~ScheduleSuspend
      BY <2>2, <3>1, <3>3 DEF ActivateInstalled, Suppress
    <3> QED
      BY <3>2, <3>3
  <2>6. CASE NativeInstall \/ NativeConfirm \/ NativeRevert \/ NativeCallFails \/ UiReloads
             \/ NativeReload \/ ReplaceRuntime \/ RestartProcess \/ Hydrate \/ DisallowRestart
             \/ NotifyAppReady \/ ConfirmAnswered \/ InstallAnswered \/ CallRejected
             \/ \E f \in Flow : \/ Check(f) \/ Verified(f) \/ Download(f) \/ Downloaded(f)
                                \/ Abandon(f) \/ Install(f)
    BY <2>2, <2>6 DEF NativeInstall, NativeConfirm, NativeRevert, NativeCallFails, UiReloads,
                      NativeReload, ReplaceRuntime, RestartProcess, Hydrate, DisallowRestart,
                      NotifyAppReady, ConfirmAnswered, InstallAnswered, CallRejected, Check,
                      Verified, Download, Downloaded, Abandon, Install, native
  <2> QED
    BY <2>3, <2>4, <2>5, <2>6 DEF Next
<1>2. Init => TInv
  BY TInvInit
<1>3. TInv /\ [Next]_vars => TInv'
  BY TInvStep
<1> QED
  BY <1>1, <1>2, <1>3, PTL DEF Spec, SuppressedNeverActivates
===============================================================================
