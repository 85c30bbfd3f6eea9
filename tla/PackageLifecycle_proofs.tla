------------------------ MODULE PackageLifecycle_proofs ------------------------
(***************************************************************************)
(* Proofs about PackageLifecycle for every set of packages and versions,   *)
(* every budget and every bound.                                           *)
(***************************************************************************)
EXTENDS PackageLifecycle, TLAPS

\* A dead process has no selection and no work; a task with writes left is the
\* head of the queue; nothing is deferred where nothing can be.
ProcessInv ==
    /\ ~alive => selection = NoSelection /\ io = Idle /\ queue = <<>>
    /\ io.op # "idle" => queue # <<>> /\ io.hash \in Hash
    /\ ~CanDefer => deferred = None

\* An install in progress left behind what its next write relies on.
InstallInv ==
    /\ io.op \in {"promoted", "recorded"} =>
         /\ io.hash \in contents
         /\ io.current = state.current
    /\ io.op = "recorded" => meta[io.hash] = binary

\* A spent budget belongs to the package that is running, whose charge is
\* written: the one more charge that would overrun it cannot come.
BudgetInv ==
    selection # NoSelection /\ state.count >= MaxLaunchAttempts =>
        /\ state.started = None \/ selection = SelectedAs("pending", state.started)
        /\ state.started = None \/ deferred # state.started

\* No queued install is of a package that is pending or running as pending, and
\* none is queued twice.
FreshInstalls(q, p, sel) ==
    \A i \in DOMAIN q : q[i].kind = "install" =>
        /\ p # q[i].hash
        /\ sel # SelectedAs("pending", q[i].hash)
        /\ \A j \in DOMAIN q : q[j] = q[i] => i = j

\* Behind a boot the user has not seen stands a deferred charge still owed or one
\* written early; what runs is bootable; an install in progress is the head task.
SeenInv ==
    /\ early >= 0
    /\ /\ selection = SelectedAs("pending", state.pending)
       /\ ~seen
       /\ deferred # state.pending
       => early >= 1
    /\ selection # SelectedAs("pending", None)
    /\ \A h \in Hash : selection = SelectedAs("pending", h) => IsBootEligible(h)
    /\ FreshInstalls(queue, state.pending, selection)
    /\ io.op \in {"promoted", "recorded"} => Head(queue) = Ask("install", io.hash)

TInv == TypeOK /\ ProcessInv
RInv == InstallInv /\ PointersResolve
BInv == /\ PointersMatchBinary /\ TrackingNamesPending /\ RunningNotFailed
        /\ BudgetInv /\ BudgetBounded
AInv == SeenInv /\ ChargesMatchLaunches

-----------------------------------------------------------------------------
(* what the operators on state.json return                                  *)

LEMMA DiskStateFields ==
    ASSUME NEW s \in DiskState
    PROVE  /\ s.current \in Pointer /\ s.previous \in Pointer /\ s.pending \in Pointer
           /\ s.failed \in Pointer /\ s.started \in Pointer /\ s.count \in Nat
BY DEF DiskState

LEMMA ClearType ==
    ASSUME NEW s \in DiskState
    PROVE  ClearPendingLaunchTracking(s) \in DiskState
BY DEF ClearPendingLaunchTracking, DiskState, Pointer

LEMMA EmptyType == EmptyState \in DiskState
BY DEF EmptyState, DiskState, Pointer

LEMMA ChargeType ==
    ASSUME NEW s \in DiskState, NEW h \in Hash
    PROVE  ChargePendingLaunch(s, h) \in DiskState
<1> DEFINE n == IF s.started = h THEN s.count + 1 ELSE 1
<1>1. n \in Nat
  BY DiskStateFields
<1>2. ChargePendingLaunch(s, h) = [s EXCEPT !.started = h, !.count = n]
  BY DEF ChargePendingLaunch
<1> HIDE DEF n
<1> QED
  BY <1>1, <1>2 DEF DiskState, Pointer

LEMMA StagedType ==
    ASSUME NEW s \in DiskState, NEW h \in Hash, NEW cur \in Pointer
    PROVE  Staged(s, h, cur) \in DiskState
BY DEF Staged, ClearPendingLaunchTracking, DiskState, Pointer

LEMMA ConfirmedType ==
    ASSUME NEW s \in DiskState
    PROVE  ConfirmedState(s) \in DiskState
BY DEF ConfirmedState, ClearPendingLaunchTracking, DiskState, Pointer

LEMMA EmbeddedType ==
    ASSUME NEW s \in DiskState
    PROVE  EmbeddedState(s) \in DiskState
BY DEF EmbeddedState, ClearPendingLaunchTracking, DiskState, Pointer

LEMMA RolledBackType ==
    ASSUME NEW s \in DiskState
    PROVE  RolledBack(s) \in DiskState
BY DEF RolledBack, ClearPendingLaunchTracking, DiskState, Pointer

LEMMA PreparedType ==
    ASSUME NEW s \in DiskState
    PROVE  Prepared(s) \in DiskState
BY EmptyType, ClearType, RolledBackType DEF Prepared

LEMMA ClearFields ==
    ASSUME NEW s \in DiskState
    PROVE  LET t == ClearPendingLaunchTracking(s) IN
             /\ t.current = s.current /\ t.previous = s.previous /\ t.pending = s.pending
             /\ t.failed = s.failed /\ t.started = None /\ t.count = 0
BY DEF ClearPendingLaunchTracking, DiskState

LEMMA ChargeFields ==
    ASSUME NEW s \in DiskState, NEW h \in Hash
    PROVE  LET t == ChargePendingLaunch(s, h) IN
             /\ t.current = s.current /\ t.previous = s.previous /\ t.pending = s.pending
             /\ t.failed = s.failed /\ t.started = h
             /\ t.count = IF s.started = h THEN s.count + 1 ELSE 1
BY DEF ChargePendingLaunch, DiskState

LEMMA StagedFields ==
    ASSUME NEW s \in DiskState, NEW h \in Hash, NEW cur \in Pointer
    PROVE  LET t == Staged(s, h, cur) IN
             /\ t.current = s.current /\ t.pending = h
             /\ t.previous \in {s.previous, cur}
             /\ t.failed = s.failed /\ t.started = None /\ t.count = 0
BY DEF Staged, ClearPendingLaunchTracking, DiskState

LEMMA ConfirmedFields ==
    ASSUME NEW s \in DiskState
    PROVE  LET t == ConfirmedState(s) IN
             /\ t.current \in {s.current, s.pending} /\ t.previous = s.previous
             /\ t.pending = None /\ t.failed = s.failed
             /\ IF s.pending = None THEN t = s ELSE t.started = None /\ t.count = 0
BY DEF ConfirmedState, ClearPendingLaunchTracking, DiskState

LEMMA EmbeddedFields ==
    ASSUME NEW s \in DiskState
    PROVE  LET t == EmbeddedState(s) IN
             /\ t.current = None /\ t.previous = None /\ t.pending = None
             /\ t.failed = s.failed /\ t.started = None /\ t.count = 0
BY DEF EmbeddedState, ClearPendingLaunchTracking, DiskState

LEMMA RolledBackFields ==
    ASSUME NEW s \in DiskState
    PROVE  LET t == RolledBack(s) IN
             /\ t.current = s.current /\ t.previous = s.previous /\ t.pending = None
             /\ t.failed = s.pending /\ t.started = None /\ t.count = 0
BY DEF RolledBack, ClearPendingLaunchTracking, DiskState

\* prepareBootState drops pointers and never adds one
LEMMA PreparedFields ==
    ASSUME NEW s \in DiskState
    PROVE  LET t == Prepared(s) IN
             /\ Pointers(t) \subseteq Pointers(s)
             /\ t.pending \in {s.pending, None}
             /\ t = s \/ (t.started = None /\ t.count = 0)
<1>1. CASE ForeignState(s)
  BY <1>1 DEF Prepared, EmptyState, Pointers
<1>2. CASE ~ForeignState(s)
  BY <1>2, ClearFields, RolledBackFields DEF Prepared, Pointers
<1> QED
  BY <1>1, <1>2

\* a state prepareBootState leaves alone is of this binary and within budget
LEMMA PreparedFixed ==
    ASSUME NEW s \in DiskState, Prepared(s) = s
    PROVE  /\ \A h \in Pointers(s) : MetadataMatchesBinary(h)
           /\ s.started # None => s.started = s.pending /\ s.count < MaxLaunchAttempts
<1>1. CASE ForeignState(s)
  BY <1>1 DEF Prepared, EmptyState, Pointers
<1>2. CASE ~ForeignState(s)
  <2>1. \A h \in Pointers(s) : MetadataMatchesBinary(h)
    BY <1>2 DEF ForeignState
  <2>2. ASSUME s.started # None, s.started # s.pending
        PROVE  FALSE
    BY <1>2, <2>2, ClearFields DEF Prepared
  <2>3. ASSUME s.started # None, s.started = s.pending, ~(s.count < MaxLaunchAttempts)
        PROVE  FALSE
    BY <1>2, <2>3, RolledBackFields DEF Prepared
  <2> QED
    BY <2>1, <2>2, <2>3
<1> QED
  BY <1>1, <1>2

-----------------------------------------------------------------------------
(* types                                                                    *)

USE DEF disk, process, history

LEMMA ProcessTypes ==
    /\ NoSelection \in Selection
    /\ SelectedAs("embedded", None) \in Selection
    /\ Idle \in IoStep
    /\ Idle.op = "idle"
    /\ \A h \in Pointer : \A k \in {"pending", "current"} : SelectedAs(k, h) \in Selection
    /\ \A k \in {"select", "confirm", "revert"} : Ask(k, None) \in Task
    /\ \A h \in Hash : \A k \in {"install", "charge"} : Ask(k, h) \in Task
BY DEF NoSelection, SelectedAs, Selection, Idle, IoStep, Ask, Task, Pointer

LEMMA NoTasks == <<>> \in Seq(Hash) /\ <<>> \in Seq(Task)
OBVIOUS

LEMMA QueueTypes ==
    /\ \A S : \A q \in Seq(S) : q # <<>> => Tail(q) \in Seq(S) /\ Head(q) \in S
    /\ \A S : \A q \in Seq(S) : \A t \in S : Append(q, t) \in Seq(S)
OBVIOUS

LEMMA TaskHash ==
    ASSUME NEW t \in Task, t.kind \in {"install", "charge"}
    PROVE  t.hash \in Hash
BY DEF Task

LEMMA IoFields ==
    ASSUME NEW i \in IoStep
    PROVE  /\ i.hash \in Pointer /\ i.current \in Pointer
           /\ [i EXCEPT !.op = "recorded"] \in IoStep
           /\ [i EXCEPT !.op = "recorded"].hash = i.hash
           /\ [i EXCEPT !.op = "recorded"].current = i.current
           /\ [i EXCEPT !.op = "recorded"].op = "recorded"
BY DEF IoStep

LEMMA TInvInit == Init => TInv
<1> SUFFICES ASSUME Init
             PROVE  TInv
  OBVIOUS
<1>1. callbacks \in Seq(Hash) /\ queue \in Seq(Task)
  BY NoTasks DEF Init
<1>2. meta \in [Hash -> Version \cup {None}]
  BY DEF Init
<1>3. /\ state \in DiskState /\ selection \in Selection /\ io \in IoStep
      /\ deferred \in Pointer
  BY EmptyType, ProcessTypes DEF Init, Pointer
<1>4. contents \subseteq Hash /\ events \subseteq Hash /\ binary \in Version
  BY DEF Init
<1>5. alive \in BOOLEAN /\ visible \in BOOLEAN /\ seen \in BOOLEAN
  BY Zenon DEF Init
<1>6. launches \in Nat /\ uncounted \in Nat /\ early \in Int
  BY DEF Init
<1>7. ProcessInv
  <2>1. selection = NoSelection /\ io = Idle /\ queue = <<>>
    BY DEF Init
  <2>2. io.op = "idle" /\ deferred = None
    BY ProcessTypes DEF Init
  <2> QED
    BY <2>1, <2>2 DEF ProcessInv
<1> QED
  BY <1>1, <1>2, <1>3, <1>4, <1>5, <1>6, <1>7 DEF TInv, TypeOK

LEMMA TInvNext == TInv /\ [Next]_vars => TInv'
<1> SUFFICES ASSUME TInv, [Next]_vars
             PROVE  TInv'
  OBVIOUS
<1> USE ConstantsAssumption, ProcessTypes, QueueTypes DEF TInv, TypeOK, ProcessInv, Pointer
<1>h. /\ state.pending \in Pointer
      /\ state.current \in Pointer
  BY DiskStateFields
<1>1. CASE StartProcess
  BY <1>1 DEF StartProcess
<1>2. CASE KillProcess
  <2>1. uncounted' \in Nat
    BY <1>2 DEF KillProcess
  <2>2. queue' \in Seq(Task) /\ callbacks' \in Seq(Hash)
    BY <1>2, NoTasks DEF KillProcess
  <2> QED
    BY <1>2, <2>1, <2>2 DEF KillProcess
<1>3. CASE ReplaceBinary
  BY <1>3 DEF ReplaceBinary
<1>4. CASE ActivityAppears
  <2> DEFINE c == [i \in DOMAIN callbacks |-> Ask("charge", callbacks[i])]
  <2>1. c \in Seq(Task)
    OBVIOUS
  <2>2. queue \o c \in Seq(Task)
    BY <2>1
  <2>3. queue # <<>> => queue \o c # <<>>
    BY <2>1
  <2> HIDE DEF c
  <2>4. queue' = queue \o c
    BY <1>4 DEF ActivityAppears, c
  <2>5. launches' \in Nat /\ early' \in Int
    BY <1>4 DEF ActivityAppears
  <2>6. callbacks' \in Seq(Hash)
    BY <1>4, NoTasks DEF ActivityAppears
  <2> QED
    BY <1>4, <2>2, <2>3, <2>4, <2>5, <2>6 DEF ActivityAppears
<1>5. CASE GoToBackground
  BY <1>5 DEF GoToBackground
<1>6. CASE HostAsksForBundle
  BY <1>6 DEF HostAsksForBundle, Submit
<1>7. CASE JsAsks
  <2>1. PICK t \in Task : Submit(t)
    BY <1>7 DEF JsAsks
  <2> QED
    BY <1>7, <2>1 DEF JsAsks, Submit
<1>8. CASE PrepareBootState
  BY <1>8, <1>h, PreparedType DEF PrepareBootState, AtHead, NothingLaunched, BudgetSpent, IoStep
<1>9. CASE WriteCrashRollbackEvent
  BY <1>9 DEF WriteCrashRollbackEvent
<1>10. CASE ReselectPending
  BY <1>10 DEF ReselectPending, BootReady, AtHead
<1>11. CASE BootPendingCharged
  BY <1>11, <1>h, ChargeType
     DEF BootPendingCharged, BootReady, AtHead, PendingBoots
<1>12. CASE BootPendingDeferred
  BY <1>12, <1>h DEF BootPendingDeferred, BootReady, AtHead, PendingBoots
<1>13. CASE BootCurrent
  BY <1>13, <1>h DEF BootCurrent, BootReady, AtHead, CurrentBoots
<1>14. CASE BootEmbedded
  BY <1>14 DEF BootEmbedded, BootReady, AtHead
<1>15. CASE ChargeDeferredLaunch
  BY <1>15, ChargeType, TaskHash
     DEF ChargeDeferredLaunch, AtHead, DeferredChargeApplies
<1>16. CASE InstallPromote
  BY <1>16, <1>h, TaskHash DEF InstallPromote, AtHead, IoStep
<1>17. CASE InstallRecord
  BY <1>17, IoFields DEF InstallRecord
<1>18. CASE InstallStage
  <2>1. Staged(state, io.hash, io.current) \in DiskState
    BY <1>18, StagedType, IoFields DEF InstallStage
  <2> QED
    BY <1>18, <2>1 DEF InstallStage, NothingLaunched
<1>19. CASE InstallRejected
  BY <1>19 DEF InstallRejected, AtHead
<1>20. CASE ConfirmPending
  BY <1>20, ConfirmedType DEF ConfirmPending, AtHead, NothingLaunched
<1>21. CASE StageEmbeddedRevert
  BY <1>21, EmbeddedType DEF StageEmbeddedRevert, AtHead, NothingLaunched
<1>22. CASE UNCHANGED vars
  BY <1>22 DEF vars
<1> QED
  BY <1>1, <1>2, <1>3, <1>4, <1>5, <1>6, <1>7, <1>8, <1>9, <1>10, <1>11, <1>12,
     <1>13, <1>14, <1>15, <1>16, <1>17, <1>18, <1>19, <1>20, <1>21, <1>22 DEF Next

\* state.json, the io queue and the process state keep their shape.
THEOREM TypeCorrect == Spec => []TypeOK
<1>1. TInv => TypeOK
  BY DEF TInv
<1> QED
  BY <1>1, TInvInit, TInvNext, PTL DEF Spec

-----------------------------------------------------------------------------
(* the files behind the pointers                                            *)

LEMMA RInvInit == Init => RInv
BY ProcessTypes DEF Init, RInv, InstallInv, PointersResolve, Pointers, EmptyState

LEMMA RInvNext == TInv /\ TInv' /\ RInv /\ [Next]_vars => RInv'
<1> SUFFICES ASSUME TInv, TInv', RInv, [Next]_vars
             PROVE  RInv'
  OBVIOUS
<1> USE DEF RInv, InstallInv, PointersResolve
<1>h. /\ state \in DiskState /\ state.current \in Pointer /\ state.pending \in Pointer
      /\ io \in IoStep /\ Idle.op = "idle"
      /\ contents \subseteq Hash /\ meta \in [Hash -> Version \cup {None}]
      /\ binary \in Version
  BY DiskStateFields, ProcessTypes DEF TInv, TypeOK
<1>1. CASE StartProcess
  BY <1>1 DEF StartProcess
<1>2. CASE KillProcess
  BY <1>2, <1>h DEF KillProcess
<1>3. CASE ReplaceBinary
  BY <1>3, <1>h DEF ReplaceBinary, TInv, ProcessInv
<1>4. CASE ActivityAppears
  BY <1>4 DEF ActivityAppears
<1>5. CASE GoToBackground
  BY <1>5 DEF GoToBackground
<1>6. CASE HostAsksForBundle
  BY <1>6 DEF HostAsksForBundle
<1>7. CASE JsAsks
  BY <1>7 DEF JsAsks
<1>8. CASE PrepareBootState
  <2>1. io'.op \notin {"promoted", "recorded"}
    BY <1>8, <1>h DEF PrepareBootState
  <2> QED
    BY <1>8, <1>h, <2>1, PreparedFields DEF PrepareBootState
<1>9. CASE WriteCrashRollbackEvent
  BY <1>9, <1>h DEF WriteCrashRollbackEvent
<1>10. CASE ReselectPending
  BY <1>10 DEF ReselectPending
<1>11. CASE BootPendingCharged
  <2>1. Pointers(state') = Pointers(state) /\ state'.current = state.current
    BY <1>11, <1>h, ChargeFields DEF BootPendingCharged, PendingBoots, Pointers, Pointer
  <2> QED
    BY <1>11, <2>1 DEF BootPendingCharged
<1>12. CASE BootPendingDeferred
  BY <1>12 DEF BootPendingDeferred
<1>13. CASE BootCurrent
  BY <1>13 DEF BootCurrent
<1>14. CASE BootEmbedded
  BY <1>14 DEF BootEmbedded
<1>15. CASE ChargeDeferredLaunch
  <2>1. Head(queue).hash \in Hash
    BY <1>15, QueueTypes, TaskHash DEF ChargeDeferredLaunch, AtHead, TInv, TypeOK
  <2>2. Pointers(state') = Pointers(state) /\ state'.current = state.current
    BY <1>15, <1>h, <2>1, ChargeFields DEF ChargeDeferredLaunch, Pointers
  <2> QED
    BY <1>15, <2>2 DEF ChargeDeferredLaunch
<1>16. CASE InstallPromote
  BY <1>16 DEF InstallPromote
<1>17. CASE InstallRecord
  <2>1. io.hash \in Hash
    BY <1>17 DEF InstallRecord, TInv, ProcessInv
  <2>2. /\ io'.hash = io.hash /\ io'.current = io.current
    BY <1>17, <1>h, IoFields DEF InstallRecord
  <2>3. \A h \in Hash : meta'[h] = IF h = io.hash THEN binary ELSE meta[h]
    BY <1>17, <1>h, <2>1 DEF InstallRecord
  <2>4. binary # None
    BY <1>h, ConstantsAssumption
  <2> QED
    BY <1>17, <1>h, <2>1, <2>2, <2>3, <2>4 DEF InstallRecord
<1>18. CASE InstallStage
  <2>1. io.hash \in Hash /\ io.current \in Pointer /\ binary # None
    BY <1>18, <1>h, IoFields, ConstantsAssumption DEF InstallStage, TInv, ProcessInv
  <2>2. Pointers(state') \subseteq Pointers(state) \cup {io.hash}
    BY <1>18, <1>h, <2>1, StagedFields DEF InstallStage, Pointers
  <2> QED
    BY <1>18, <1>h, <2>1, <2>2 DEF InstallStage
<1>19. CASE InstallRejected
  BY <1>19 DEF InstallRejected
<1>20. CASE ConfirmPending
  <2>1. Pointers(state') \subseteq Pointers(state)
    BY <1>20, <1>h, ConfirmedFields DEF ConfirmPending, Pointers
  <2> QED
    BY <1>20, <1>h, <2>1 DEF ConfirmPending, AtHead
<1>21. CASE StageEmbeddedRevert
  <2>1. Pointers(state') \subseteq Pointers(state)
    BY <1>21, <1>h, EmbeddedFields DEF StageEmbeddedRevert, Pointers
  <2> QED
    BY <1>21, <1>h, <2>1 DEF StageEmbeddedRevert, AtHead
<1>22. CASE UNCHANGED vars
  BY <1>22 DEF vars
<1> QED
  BY <1>1, <1>2, <1>3, <1>4, <1>5, <1>6, <1>7, <1>8, <1>9, <1>10, <1>11, <1>12,
     <1>13, <1>14, <1>15, <1>16, <1>17, <1>18, <1>19, <1>20, <1>21, <1>22 DEF Next

\* Every pointer names a package that is completely on disk.
THEOREM PointersAlwaysResolve == Spec => []PointersResolve
<1>1. TInv /\ RInv => PointersResolve
  BY DEF RInv
<1> QED
  BY <1>1, TInvInit, TInvNext, RInvInit, RInvNext, PTL DEF Spec

-----------------------------------------------------------------------------
(* binaries, the failed package and the budget                              *)

LEMMA BInvInit == Init => BInv
BY ConstantsAssumption
   DEF Init, BInv, PointersMatchBinary, TrackingNamesPending, RunningNotFailed,
       BudgetInv, BudgetBounded, NoSelection, SelectedAs, EmptyState

\* the process goes on running its pending package while it stays pending
LEMMA RunningPendingBoots ==
    ASSUME TInv, RInv, BInv, selection = SelectedAs("pending", state.pending),
           state.pending # None
    PROVE  PendingBoots
BY DEF RInv, BInv, PointersResolve, PointersMatchBinary, RunningNotFailed, Pointers,
       PendingBoots, IsBootEligible, SelectedAs, NoSelection

\* a bundle may be selected: the binary matches, and a spent budget is that of
\* the running package
LEMMA BootReadyFacts ==
    ASSUME TInv, BInv, BootReady
    PROVE  /\ \A h \in Pointers(state) : MetadataMatchesBinary(h)
           /\ state.started # None => state.started = state.pending
           /\ state.count >= MaxLaunchAttempts =>
                \/ state.started = None
                \/ /\ selection = SelectedAs("pending", state.pending)
                   /\ deferred # state.pending
<1>1. state \in DiskState /\ state.count \in Nat /\ MaxLaunchAttempts \in Nat
  BY DiskStateFields, ConstantsAssumption DEF TInv, TypeOK
<1>2. CASE selection = NoSelection
  BY <1>1, <1>2, PreparedFixed DEF BootReady
<1>3. CASE selection # NoSelection
  BY <1>3 DEF BInv, PointersMatchBinary, TrackingNamesPending, BudgetInv
<1> QED
  BY <1>2, <1>3

LEMMA BInvNext == TInv /\ TInv' /\ RInv /\ BInv /\ [Next]_vars => BInv'
<1> SUFFICES ASSUME TInv, TInv', RInv, BInv, [Next]_vars
             PROVE  BInv'
  OBVIOUS
<1> USE DEF BInv, PointersMatchBinary, TrackingNamesPending, RunningNotFailed,
            BudgetInv, BudgetBounded
<1>h. /\ state \in DiskState /\ state.current \in Pointer /\ state.pending \in Pointer
      /\ state.count \in Nat /\ MaxLaunchAttempts \in Nat \ {0}
      /\ io \in IoStep /\ meta \in [Hash -> Version \cup {None}]
      /\ binary \in Version /\ None \notin Hash /\ deferred \in Pointer
  BY DiskStateFields, ConstantsAssumption DEF TInv, TypeOK
<1>k. /\ NoSelection.kind = "none" /\ NoSelection # SelectedAs("embedded", None)
      /\ \A h : /\ SelectedAs("pending", h) # NoSelection
                /\ SelectedAs("current", h) # NoSelection
                /\ SelectedAs("pending", h).kind = "pending"
                /\ SelectedAs("pending", h).hash = h
                /\ SelectedAs("current", h).kind = "current"
      /\ SelectedAs("embedded", None).kind = "embedded"
      /\ \A g, h : SelectedAs("pending", g) = SelectedAs("pending", h) => g = h
  BY DEF NoSelection, SelectedAs
<1>1. CASE StartProcess
  BY <1>1 DEF StartProcess, MetadataMatchesBinary
<1>2. CASE KillProcess
  BY <1>2, <1>k DEF KillProcess
<1>3. CASE ReplaceBinary
  BY <1>3, <1>k DEF ReplaceBinary, TInv, ProcessInv
<1>4. CASE ActivityAppears
  BY <1>4 DEF ActivityAppears, MetadataMatchesBinary
<1>5. CASE GoToBackground
  BY <1>5 DEF GoToBackground, MetadataMatchesBinary
<1>6. CASE HostAsksForBundle
  BY <1>6 DEF HostAsksForBundle, MetadataMatchesBinary
<1>7. CASE JsAsks
  BY <1>7 DEF JsAsks, MetadataMatchesBinary
<1>8. CASE PrepareBootState
  BY <1>8, <1>h, <1>k, PreparedFields DEF PrepareBootState
<1>9. CASE WriteCrashRollbackEvent
  BY <1>9 DEF WriteCrashRollbackEvent, MetadataMatchesBinary
<1>10. CASE ReselectPending
  BY <1>10 DEF ReselectPending, MetadataMatchesBinary
<1>11. CASE BootPendingCharged
  <2>1. state.pending \in Hash /\ BootReady /\ state.pending # state.failed
    BY <1>11, <1>h DEF BootPendingCharged, PendingBoots, Pointer
  <2>2. ~(state.started = state.pending /\ state.count >= MaxLaunchAttempts)
    BY <1>11, <2>1, <1>h, BootReadyFacts DEF BootPendingCharged
  <2>3. /\ state'.pending = state.pending /\ state'.failed = state.failed
        /\ state'.started = state.pending
        /\ state'.count = IF state.started = state.pending THEN state.count + 1 ELSE 1
        /\ Pointers(state') = Pointers(state)
    BY <1>11, <2>1, <1>h, ChargeFields DEF BootPendingCharged, Pointers
  <2>4. selection' = SelectedAs("pending", state.pending) /\ UNCHANGED <<meta, binary>>
    BY <1>11 DEF BootPendingCharged
  <2>5. deferred' = None
    BY <1>11 DEF BootPendingCharged, TInv, ProcessInv
  <2>6. PointersMatchBinary'
    BY <2>1, <2>3, <2>4, BootReadyFacts DEF MetadataMatchesBinary
  <2>7. TrackingNamesPending' /\ BudgetBounded'
    BY <2>1, <2>2, <2>3, <1>h
  <2>8. RunningNotFailed' /\ BudgetInv'
    BY <2>1, <2>3, <2>4, <2>5, <1>h, <1>k
  <2> QED
    BY <2>6, <2>7, <2>8
<1>12. CASE BootPendingDeferred
  <2>1. /\ BootReady /\ state.pending # state.failed
        /\ selection # SelectedAs("pending", state.pending)
        /\ selection' = SelectedAs("pending", state.pending)
        /\ UNCHANGED <<state, meta, binary>>
    BY <1>12 DEF BootPendingDeferred, PendingBoots
  <2>2. PointersMatchBinary'
    BY <2>1, BootReadyFacts DEF MetadataMatchesBinary
  <2>3. BudgetInv'
    BY <2>1, BootReadyFacts
  <2> QED
    BY <2>1, <2>2, <2>3, <1>k
<1>13. CASE BootCurrent
  <2>1. /\ BootReady /\ ~PendingBoots
        /\ selection' = SelectedAs("current", state.current)
        /\ UNCHANGED <<state, deferred, meta, binary>>
    BY <1>13 DEF BootCurrent
  <2>2. PointersMatchBinary'
    BY <2>1, BootReadyFacts DEF MetadataMatchesBinary
  <2>3. ~(state.started # None /\ state.count >= MaxLaunchAttempts)
    BY <2>1, BootReadyFacts, RunningPendingBoots
  <2> QED
    BY <2>1, <2>2, <2>3, <1>k
<1>14. CASE BootEmbedded
  <2>1. /\ BootReady /\ ~PendingBoots
        /\ selection' = SelectedAs("embedded", None)
        /\ UNCHANGED <<state, deferred, meta, binary>>
    BY <1>14 DEF BootEmbedded
  <2>2. PointersMatchBinary'
    BY <2>1, BootReadyFacts DEF MetadataMatchesBinary
  <2>3. ~(state.started # None /\ state.count >= MaxLaunchAttempts)
    BY <2>1, BootReadyFacts, RunningPendingBoots
  <2> QED
    BY <2>1, <2>2, <2>3, <1>k
<1>15. CASE ChargeDeferredLaunch
  <2> DEFINE h == Head(queue).hash
  <2>1. h \in Hash
    BY <1>15, QueueTypes, TaskHash DEF ChargeDeferredLaunch, AtHead, TInv, TypeOK
  <2>2. /\ deferred' = IF deferred = h THEN None ELSE deferred
        /\ state' = IF DeferredChargeApplies(h) THEN ChargePendingLaunch(state, h)
                    ELSE state
        /\ UNCHANGED <<selection, meta, binary>>
    BY <1>15 DEF ChargeDeferredLaunch
  <2>3. CASE DeferredChargeApplies(h)
    <3>1. /\ deferred = h /\ selection = SelectedAs("pending", h) /\ state.pending = h
      BY <2>3 DEF DeferredChargeApplies
    <3>2. ~(state.started = h /\ state.count >= MaxLaunchAttempts)
      BY <3>1, <2>1, <1>h, <1>k
    <3>3. /\ state'.pending = state.pending /\ state'.failed = state.failed
          /\ state'.started = h
          /\ state'.count = IF state.started = h THEN state.count + 1 ELSE 1
          /\ Pointers(state') = Pointers(state)
      BY <2>1, <2>2, <2>3, <1>h, ChargeFields DEF Pointers
    <3> HIDE DEF h
    <3>4. PointersMatchBinary'
      BY <2>2, <3>3 DEF MetadataMatchesBinary
    <3>5. TrackingNamesPending' /\ BudgetBounded'
      BY <2>1, <3>1, <3>2, <3>3, <1>h
    <3>6. RunningNotFailed' /\ BudgetInv'
      BY <2>1, <2>2, <3>1, <3>3, <1>h, <1>k
    <3> QED
      BY <3>4, <3>5, <3>6
  <2>4. CASE ~DeferredChargeApplies(h)
    <3> HIDE DEF h
    <3> QED
      BY <2>1, <2>2, <2>4, <1>h DEF MetadataMatchesBinary
  <2> QED
    BY <2>3, <2>4
<1>16. CASE InstallPromote
  BY <1>16 DEF InstallPromote, MetadataMatchesBinary
<1>17. CASE InstallRecord
  <2>1. io.hash \in Hash
    BY <1>17 DEF InstallRecord, TInv, ProcessInv
  <2>2. /\ \A h \in Hash : meta'[h] = IF h = io.hash THEN binary ELSE meta[h]
        /\ UNCHANGED <<state, selection, deferred, binary>>
    BY <1>17, <1>h, <2>1 DEF InstallRecord
  <2>3. Pointers(state) \subseteq Hash
    BY <1>h, DiskStateFields DEF Pointers, Pointer
  <2>4. PointersMatchBinary'
    BY <2>2, <2>3 DEF MetadataMatchesBinary
  <2> QED
    BY <2>2, <2>4
<1>18. CASE InstallStage
  <2>1. io.hash \in Hash /\ io.current = state.current /\ meta[io.hash] = binary
    BY <1>18 DEF InstallStage, TInv, ProcessInv, RInv, InstallInv
  <2>2. /\ state'.pending = io.hash /\ state'.failed = state.failed
        /\ state'.started = None /\ state'.count = 0
        /\ Pointers(state') \subseteq Pointers(state) \cup {io.hash}
    BY <1>18, <1>h, <2>1, StagedFields DEF InstallStage, Pointers
  <2>3. UNCHANGED <<selection, deferred, meta, binary>>
    BY <1>18 DEF InstallStage
  <2> QED
    BY <1>h, <2>1, <2>2, <2>3 DEF MetadataMatchesBinary
<1>19. CASE InstallRejected
  BY <1>19 DEF InstallRejected, MetadataMatchesBinary
<1>20. CASE ConfirmPending
  <2>1. /\ Pointers(state') \subseteq Pointers(state) /\ state'.failed = state.failed
        /\ state' = state \/ (state'.started = None /\ state'.count = 0)
    BY <1>20, <1>h, ConfirmedFields DEF ConfirmPending, Pointers
  <2>2. UNCHANGED <<selection, deferred, meta, binary>>
    BY <1>20 DEF ConfirmPending
  <2> QED
    BY <1>h, <2>1, <2>2 DEF MetadataMatchesBinary
<1>21. CASE StageEmbeddedRevert
  <2>1. /\ Pointers(state') \subseteq Pointers(state) /\ state'.failed = state.failed
        /\ state'.started = None /\ state'.count = 0
    BY <1>21, <1>h, EmbeddedFields DEF StageEmbeddedRevert, Pointers
  <2>2. UNCHANGED <<selection, deferred, meta, binary>>
    BY <1>21 DEF StageEmbeddedRevert
  <2> QED
    BY <1>h, <2>1, <2>2 DEF MetadataMatchesBinary
<1>22. CASE UNCHANGED vars
  BY <1>22 DEF vars, MetadataMatchesBinary
<1> QED
  BY <1>1, <1>2, <1>3, <1>4, <1>5, <1>6, <1>7, <1>8, <1>9, <1>10, <1>11, <1>12,
     <1>13, <1>14, <1>15, <1>16, <1>17, <1>18, <1>19, <1>20, <1>21, <1>22 DEF Next

\* The four safety properties that rest on the budget invariant: no launch beyond
\* the budget, no marker of another package, no pointer to a package of another
\* binary in a process that has booted, no boot of the failed package.
THEOREM BudgetSafe ==
    Spec => [](BudgetBounded /\ TrackingNamesPending /\ PointersMatchBinary /\ RunningNotFailed)
<1>1. TInv /\ RInv /\ BInv =>
        BudgetBounded /\ TrackingNamesPending /\ PointersMatchBinary /\ RunningNotFailed
  BY DEF BInv
<1> QED
  BY <1>1, TInvInit, TInvNext, RInvInit, RInvNext, BInvInit, BInvNext, PTL DEF Spec

\* The marker charged launches are counted under names the pending package
\* (prepareBootState, chargePendingLaunch).
THEOREM TrackingAlwaysNamesPending == Spec => []TrackingNamesPending
BY BudgetSafe, PTL

\* A process that has selected a bundle keeps no pointer to a package of another
\* binary version (prepareBootState).
THEOREM PointersAlwaysMatchBinary == Spec => []PointersMatchBinary
BY BudgetSafe, PTL

\* The package that was rolled back is never selected as pending
\* (selectJSBundleFile).
THEOREM FailedNeverRuns == Spec => []RunningNotFailed
BY BudgetSafe, PTL

-----------------------------------------------------------------------------
(* the accounting of launches and charges                                   *)

LEMMA FreshTail ==
    ASSUME NEW q \in Seq(Task), q # <<>>, NEW p, NEW sel, FreshInstalls(q, p, sel)
    PROVE  FreshInstalls(Tail(q), p, sel)
<1> DEFINE t == Tail(q)
<1>1. \A i \in DOMAIN t : i + 1 \in DOMAIN q /\ t[i] = q[i + 1] /\ i \in Nat
  OBVIOUS
<1> HIDE DEF t
<1> QED
  BY <1>1 DEF FreshInstalls, t

LEMMA FreshAppend ==
    ASSUME NEW q \in Seq(Task), NEW t \in Task, NEW p, NEW sel, FreshInstalls(q, p, sel),
           t.kind = "install" => /\ p # t.hash
                                 /\ sel # SelectedAs("pending", t.hash)
                                 /\ t \notin {q[i] : i \in DOMAIN q}
    PROVE  FreshInstalls(Append(q, t), p, sel)
<1> DEFINE a == Append(q, t)
<1>1. \A i \in DOMAIN a : \/ i \in DOMAIN q /\ a[i] = q[i]
                          \/ i = Len(q) + 1 /\ a[i] = t
  OBVIOUS
<1> HIDE DEF a
<1>2. \A i \in DOMAIN a : a[i].kind = "install" => \A j \in DOMAIN a : a[j] = a[i] => i = j
  BY <1>1 DEF FreshInstalls
<1> QED
  BY <1>1, <1>2 DEF FreshInstalls, a

LEMMA FreshCharges ==
    ASSUME NEW q \in Seq(Task), NEW c \in Seq(Task), NEW p, NEW sel,
           FreshInstalls(q, p, sel), \A i \in DOMAIN c : c[i].kind = "charge"
    PROVE  FreshInstalls(q \o c, p, sel)
<1> DEFINE a == q \o c
<1>1. \A i \in DOMAIN a : \/ i \in DOMAIN q /\ a[i] = q[i]
                          \/ a[i].kind = "charge"
  OBVIOUS
<1> HIDE DEF a
<1> QED
  BY <1>1 DEF FreshInstalls, a

LEMMA AInvInit == Init => AInv
<1> SUFFICES ASSUME Init
             PROVE  AInv
  OBVIOUS
<1>1. selection = NoSelection /\ queue = <<>> /\ io.op = "idle"
  BY ProcessTypes DEF Init
<1>2. state.pending = None
  BY DEF Init, EmptyState
<1>3. early = 0 /\ deferred = None
  BY DEF Init
<1>4. FreshInstalls(queue, state.pending, selection)
  BY <1>1 DEF FreshInstalls
<1>5. SeenInv
  BY <1>1, <1>2, <1>3, <1>4 DEF SeenInv, NoSelection, SelectedAs
<1> QED
  BY <1>2, <1>5 DEF AInv, ChargesMatchLaunches

LEMMA AInvNext == TInv /\ TInv' /\ RInv /\ BInv /\ AInv /\ [Next]_vars => AInv'
<1> SUFFICES ASSUME TInv, TInv', RInv, BInv, AInv, [Next]_vars
             PROVE  AInv'
  OBVIOUS
<1> USE DEF AInv, SeenInv, ChargesMatchLaunches, ChargeOutstanding
<1>h. /\ state \in DiskState /\ state.current \in Pointer /\ state.pending \in Pointer
      /\ state.count \in Nat /\ launches \in Nat /\ uncounted \in Nat /\ early \in Int
      /\ io \in IoStep /\ Idle.op = "idle" /\ None \notin Hash
      /\ deferred \in Pointer /\ queue \in Seq(Task)
  BY DiskStateFields, ProcessTypes, ConstantsAssumption DEF TInv, TypeOK
<1>k. /\ \A h : NoSelection # SelectedAs("pending", h)
      /\ \A h : SelectedAs("embedded", None) # SelectedAs("pending", h)
      /\ \A g, h : SelectedAs("current", g) # SelectedAs("pending", h)
      /\ \A g, h : SelectedAs("pending", g) = SelectedAs("pending", h) => g = h
      /\ \A h : SelectedAs("pending", h).hash = h
  BY DEF NoSelection, SelectedAs
<1>t. queue # <<>> => FreshInstalls(Tail(queue), state.pending, selection)
  BY <1>h, FreshTail
<1>1. CASE StartProcess
  BY <1>1 DEF StartProcess, IsBootEligible, MetadataMatchesBinary
<1>2. CASE KillProcess
  <2>1. FreshInstalls(queue', state.pending', selection')
    BY <1>2 DEF KillProcess, FreshInstalls
  <2>2. selection' = NoSelection /\ io'.op = "idle" /\ UNCHANGED <<state, launches, early>>
    BY <1>2, <1>h DEF KillProcess
  <2>3. ~seen'
    BY <1>2 DEF KillProcess
  <2>4. uncounted' = IF ChargeOutstanding THEN uncounted + 1 ELSE uncounted
    BY <1>2 DEF KillProcess
  <2> QED
    BY <1>h, <1>k, <2>1, <2>2, <2>3, <2>4
<1>3. CASE ReplaceBinary
  <2>1. selection = NoSelection
    BY <1>3 DEF ReplaceBinary, TInv, ProcessInv
  <2> QED
    BY <1>3, <1>k, <2>1 DEF ReplaceBinary
<1>4. CASE ActivityAppears
  <2> DEFINE c == [i \in DOMAIN callbacks |-> Ask("charge", callbacks[i])]
  <2>a. callbacks \in Seq(Hash)
    BY DEF TInv, TypeOK
  <2>b. \A i \in DOMAIN callbacks : /\ Ask("charge", callbacks[i]) \in Task
                                    /\ Ask("charge", callbacks[i]).kind = "charge"
    <3>1. \A h \in Hash : Ask("charge", h) \in Task
      BY ProcessTypes
    <3>2. \A h : Ask("charge", h).kind = "charge"
      BY DEF Ask
    <3> QED
      BY <2>a, <3>1, <3>2
  <2>c. \A i \in DOMAIN c : c[i].kind = "charge"
    BY <2>b
  <2>d. c \in Seq(Task)
    BY <2>a, <2>b
  <2>1. c \in Seq(Task) /\ \A i \in DOMAIN c : c[i].kind = "charge"
    BY <2>c, <2>d
  <2>2. queue' = queue \o c
    BY <1>4 DEF ActivityAppears
  <2> HIDE DEF c
  <2>3. FreshInstalls(queue', state.pending, selection)
    BY <1>h, <2>1, <2>2, FreshCharges
  <2>4. queue # <<>> => Head(queue') = Head(queue)
    BY <1>h, <2>1, <2>2
  <2>5. io.op # "idle" => queue # <<>>
    BY DEF TInv, ProcessInv
  <2>6. UNCHANGED <<state, contents, meta, binary, selection, deferred, io, uncounted>>
    BY <1>4 DEF ActivityAppears
  <2>7. seen'
    BY <1>4 DEF ActivityAppears
  <2>8. IF ~seen /\ selection = SelectedAs("pending", state.pending)
        THEN /\ launches' = launches + 1
             /\ early' = IF deferred = state.pending THEN early ELSE early - 1
        ELSE UNCHANGED <<launches, early>>
    BY <1>4 DEF ActivityAppears
  <2>9. SeenInv'
    BY <1>h, <2>3, <2>4, <2>5, <2>6, <2>7, <2>8 DEF IsBootEligible, MetadataMatchesBinary
  <2>10. ChargesMatchLaunches'
    BY <1>h, <2>6, <2>7, <2>8
  <2> QED
    BY <2>9, <2>10
<1>5. CASE GoToBackground
  BY <1>5 DEF GoToBackground, IsBootEligible, MetadataMatchesBinary
<1>6. CASE HostAsksForBundle
  <2>1. FreshInstalls(queue', state.pending, selection)
    BY <1>6, <1>h, ProcessTypes, FreshAppend DEF HostAsksForBundle, Submit, Ask
  <2>2. queue # <<>> => Head(queue') = Head(queue)
    BY <1>6, <1>h, ProcessTypes DEF HostAsksForBundle, Submit
  <2> QED
    BY <1>6, <2>1, <2>2
       DEF HostAsksForBundle, TInv, ProcessInv, IsBootEligible, MetadataMatchesBinary
<1>7. CASE JsAsks
  <2>1. PICK t \in Task :
            /\ Submit(t)
            /\ t.kind = "install" => /\ t.hash \in Hash \ {RunningHash, state.pending}
                                     /\ t \notin {queue[i] : i \in DOMAIN queue}
    BY <1>7, ProcessTypes DEF JsAsks, Ask
  <2>2. t.kind = "install" => selection # SelectedAs("pending", t.hash)
    BY <1>h, <1>k, <2>1 DEF RunningHash
  <2>3. FreshInstalls(queue', state.pending, selection)
    BY <1>h, <2>1, <2>2, FreshAppend DEF Submit
  <2>4. queue # <<>> => Head(queue') = Head(queue)
    BY <1>h, <2>1 DEF Submit
  <2> QED
    BY <1>7, <2>3, <2>4 DEF JsAsks, TInv, ProcessInv, IsBootEligible, MetadataMatchesBinary
<1>8. CASE PrepareBootState
  <2>1. /\ selection = NoSelection /\ io'.op \notin {"promoted", "recorded"}
        /\ UNCHANGED <<selection, queue>>
        /\ early' = 0 /\ launches' = 0 /\ uncounted' = 0
    BY <1>8, <1>h DEF PrepareBootState, NothingLaunched
  <2>2. state'.pending \in {state.pending, None} /\ state'.count = 0
    BY <1>8, <1>h, PreparedFields DEF PrepareBootState
  <2>3. \A i \in DOMAIN queue : queue[i].kind = "install" => queue[i].hash # None
    BY <1>h, TaskHash
  <2>4. FreshInstalls(queue, state'.pending, selection)
    BY <2>2, <2>3 DEF FreshInstalls
  <2> QED
    BY <1>k, <2>1, <2>2, <2>4
<1>9. CASE WriteCrashRollbackEvent
  BY <1>9, <1>h DEF WriteCrashRollbackEvent, IsBootEligible, MetadataMatchesBinary
<1>10. CASE ReselectPending
  BY <1>10, <1>t
     DEF ReselectPending, BootReady, AtHead, Idle, IsBootEligible, MetadataMatchesBinary
<1>11. CASE BootPendingCharged
  <2>1. /\ state.pending \in Hash /\ BootReady /\ queue # <<>> /\ io.op = "idle"
        /\ IsBootEligible(state.pending)
    BY <1>11, <1>h DEF BootPendingCharged, PendingBoots, Pointer, BootReady, AtHead
  <2>2. /\ state'.pending = state.pending
        /\ state'.count = IF state.started = state.pending THEN state.count + 1 ELSE 1
    BY <1>11, <2>1, <1>h, ChargeFields DEF BootPendingCharged
  <2>3. state.started # state.pending => state.count = 0
    BY <2>1, BootReadyFacts DEF BInv, TrackingNamesPending
  <2>4. /\ selection # SelectedAs("pending", state.pending)
        /\ selection' = SelectedAs("pending", state.pending)
        /\ queue' = Tail(queue) /\ launches' = launches + 1
        /\ UNCHANGED <<contents, meta, binary, io, uncounted, early>>
    BY <1>11 DEF BootPendingCharged
  <2>5. seen'
    BY <1>11 DEF BootPendingCharged
  <2>6. deferred' = None
    BY <1>11 DEF BootPendingCharged, TInv, ProcessInv
  <2>7. FreshInstalls(queue', state'.pending, selection')
    BY <1>k, <1>t, <2>1, <2>2, <2>4 DEF FreshInstalls
  <2>8. SeenInv'
    BY <1>h, <1>k, <2>1, <2>2, <2>4, <2>5, <2>7 DEF IsBootEligible, MetadataMatchesBinary
  <2>9. ~ChargeOutstanding /\ ~ChargeOutstanding'
    BY <1>h, <2>1, <2>2, <2>4, <2>6
  <2>10. state'.count = state.count + 1
    BY <1>h, <2>2, <2>3
  <2> HIDE DEF ChargeOutstanding
  <2>11. ChargesMatchLaunches'
    BY <1>h, <2>1, <2>2, <2>4, <2>9, <2>10
  <2> QED
    BY <2>8, <2>11
<1>12. CASE BootPendingDeferred
  <2>1. /\ state.pending \in Hash /\ queue # <<>> /\ io.op = "idle"
        /\ IsBootEligible(state.pending)
    BY <1>12, <1>h DEF BootPendingDeferred, PendingBoots, Pointer, BootReady, AtHead
  <2>2. /\ selection # SelectedAs("pending", state.pending)
        /\ selection' = SelectedAs("pending", state.pending)
        /\ deferred' = state.pending /\ queue' = Tail(queue)
        /\ UNCHANGED <<state, contents, meta, binary, io, launches, uncounted, early>>
    BY <1>12 DEF BootPendingDeferred
  <2>3. ~seen'
    BY <1>12 DEF BootPendingDeferred
  <2>4. FreshInstalls(queue', state'.pending, selection')
    BY <1>k, <1>t, <2>1, <2>2 DEF FreshInstalls
  <2> QED
    BY <1>h, <1>k, <2>1, <2>2, <2>3, <2>4 DEF IsBootEligible, MetadataMatchesBinary
<1>13. CASE BootCurrent
  <2>1. /\ ~PendingBoots /\ queue # <<>> /\ io.op = "idle"
        /\ selection' = SelectedAs("current", state.current) /\ queue' = Tail(queue)
        /\ UNCHANGED <<state, contents, meta, binary, deferred, io, history>>
    BY <1>13, <1>h DEF BootCurrent, BootReady, AtHead
  <2>2. FreshInstalls(queue', state'.pending, selection')
    BY <1>k, <1>t, <2>1 DEF FreshInstalls
  <2> QED
    BY <1>h, <1>k, <2>1, <2>2, RunningPendingBoots
<1>14. CASE BootEmbedded
  <2>1. /\ ~PendingBoots /\ queue # <<>> /\ io.op = "idle"
        /\ selection' = SelectedAs("embedded", None) /\ queue' = Tail(queue)
        /\ UNCHANGED <<state, contents, meta, binary, deferred, io, history>>
    BY <1>14, <1>h DEF BootEmbedded, BootReady, AtHead
  <2>2. FreshInstalls(queue', state'.pending, selection')
    BY <1>k, <1>t, <2>1 DEF FreshInstalls
  <2> QED
    BY <1>h, <1>k, <2>1, <2>2, RunningPendingBoots
<1>15. CASE ChargeDeferredLaunch
  <2> DEFINE h == Head(queue).hash
  <2>1. h \in Hash /\ queue # <<>> /\ io.op = "idle"
    BY <1>15, <1>h, QueueTypes, TaskHash DEF ChargeDeferredLaunch, AtHead
  <2>2. /\ deferred' = IF deferred = h THEN None ELSE deferred
        /\ IF DeferredChargeApplies(h)
           THEN /\ state' = ChargePendingLaunch(state, h)
                /\ early' = IF seen THEN early ELSE early + 1
           ELSE UNCHANGED <<state, early>>
        /\ queue' = Tail(queue)
        /\ UNCHANGED <<contents, meta, binary, selection, io, launches, uncounted, seen>>
    BY <1>15 DEF ChargeDeferredLaunch
  <2> HIDE DEF h
  <2>3. CASE DeferredChargeApplies(h)
    <3>1. deferred = h /\ selection = SelectedAs("pending", h) /\ state.pending = h
      BY <2>3 DEF DeferredChargeApplies
    <3>2. /\ state'.pending = h
          /\ state'.count = IF state.started = h THEN state.count + 1 ELSE 1
      BY <2>1, <2>2, <2>3, <3>1, <1>h, ChargeFields
    <3>3. state'.count = state.count + 1
      BY <2>1, <3>1, <3>2, <1>h DEF BInv, TrackingNamesPending
    <3>4. deferred' = None /\ early' = IF seen THEN early ELSE early + 1
      BY <2>2, <2>3, <3>1
    <3>5. FreshInstalls(queue', state'.pending, selection')
      BY <1>t, <2>1, <2>2, <3>1, <3>2
    <3>6. SeenInv'
      BY <1>h, <1>k, <2>1, <2>2, <3>1, <3>2, <3>4, <3>5
         DEF IsBootEligible, MetadataMatchesBinary
    <3>7. (ChargeOutstanding <=> seen) /\ ~ChargeOutstanding'
      BY <1>h, <2>1, <2>2, <3>1, <3>2, <3>4
    <3> HIDE DEF ChargeOutstanding
    <3>8. ChargesMatchLaunches'
      <4>1. UNCHANGED <<launches, uncounted>>
        BY <2>2
      <4>2. state.pending # None
        BY <1>h, <2>1, <3>1
      <4>3. CASE seen
        BY <1>h, <3>3, <3>4, <3>7, <4>1, <4>2, <4>3
      <4>4. CASE ~seen
        BY <1>h, <3>3, <3>4, <3>7, <4>1, <4>2, <4>4
      <4> QED
        BY <4>3, <4>4
    <3> QED
      BY <3>6, <3>8
  <2>4. CASE ~DeferredChargeApplies(h)
    BY <1>h, <1>k, <1>t, <2>1, <2>2, <2>4
       DEF DeferredChargeApplies, IsBootEligible, MetadataMatchesBinary
  <2> QED
    BY <2>3, <2>4
<1>16. CASE InstallPromote
  <2>1. /\ Head(queue) = Ask("install", Head(queue).hash) /\ io'.hash = Head(queue).hash
        /\ UNCHANGED <<state, meta, binary, selection, deferred, queue, history>>
        /\ contents \subseteq contents'
    BY <1>16, <1>h, QueueTypes DEF InstallPromote, AtHead, Ask, Task
  <2> QED
    BY <1>h, <2>1 DEF IsBootEligible, MetadataMatchesBinary
<1>17. CASE InstallRecord
  <2>1. /\ io.hash \in Hash /\ io'.hash = io.hash /\ io.op = "promoted"
        /\ UNCHANGED <<state, contents, binary, selection, deferred, queue, history>>
    BY <1>17, <1>h, IoFields DEF InstallRecord, TInv, ProcessInv
  <2>2. \A h \in Hash : meta'[h] = IF h = io.hash THEN binary ELSE meta[h]
    BY <1>17, <2>1 DEF InstallRecord, TInv, TypeOK
  <2> QED
    BY <1>h, <2>1, <2>2 DEF IsBootEligible, MetadataMatchesBinary
<1>18. CASE InstallStage
  <2> DEFINE h == io.hash
  <2>1. h \in Hash /\ io.current \in Pointer /\ queue # <<>> /\ Head(queue) = Ask("install", h)
    BY <1>18, <1>h, IoFields DEF InstallStage, TInv, ProcessInv
  <2>2. state'.pending = h /\ state'.count = 0
    BY <1>18, <1>h, <2>1, StagedFields DEF InstallStage
  <2>3. /\ queue' = Tail(queue) /\ io'.op = "idle"
        /\ launches' = 0 /\ uncounted' = 0 /\ early' = 0
        /\ UNCHANGED <<contents, meta, binary, selection, deferred, seen>>
    BY <1>18, <1>h DEF InstallStage, NothingLaunched
  <2> HIDE DEF h
  <2>4. selection # SelectedAs("pending", h)
    BY <1>h, <2>1 DEF FreshInstalls, Ask
  <2>5. \A i \in DOMAIN queue' : /\ queue'[i] = queue[i + 1] /\ i + 1 \in DOMAIN queue
                                 /\ i + 1 # 1 /\ i \in Nat
    BY <1>h, <2>1, <2>3
  <2>6. queue[1] = Ask("install", h) /\ 1 \in DOMAIN queue
    BY <1>h, <2>1
  <2>7. \A i \in DOMAIN queue' : queue'[i].kind = "install" => queue'[i].hash # h
    <3>1. SUFFICES ASSUME NEW i \in DOMAIN queue', queue'[i].kind = "install",
                          queue'[i].hash = h
                   PROVE  FALSE
      OBVIOUS
    <3>2. queue[i + 1] \in Task /\ queue[i + 1].kind = "install" /\ queue[i + 1].hash = h
      BY <1>h, <2>5, <3>1
    <3>3. queue[i + 1] = queue[1]
      BY <2>6, <3>2 DEF Task, Ask
    <3> QED
      BY <2>5, <2>6, <3>2, <3>3 DEF FreshInstalls
  <2>8. FreshInstalls(queue', state'.pending, selection')
    BY <1>t, <2>1, <2>2, <2>3, <2>7 DEF FreshInstalls
  <2> QED
    BY <1>h, <2>1, <2>2, <2>3, <2>4, <2>8 DEF IsBootEligible, MetadataMatchesBinary
<1>19. CASE InstallRejected
  BY <1>19, <1>t, <1>h DEF InstallRejected, AtHead, IsBootEligible, MetadataMatchesBinary
<1>20. CASE ConfirmPending
  <2>1. state'.pending = None /\ queue # <<>> /\ io.op = "idle"
    BY <1>20, <1>h, ConfirmedFields DEF ConfirmPending, AtHead
  <2>2. /\ queue' = Tail(queue) /\ early' = 0
        /\ UNCHANGED <<contents, meta, binary, selection, deferred, io, seen>>
    BY <1>20 DEF ConfirmPending, NothingLaunched
  <2>3. \A i \in DOMAIN Tail(queue) : Tail(queue)[i] \in Task
    BY <1>h, <2>1
  <2>4. FreshInstalls(queue', state'.pending, selection')
    BY <1>h, <1>t, <2>1, <2>2, <2>3, TaskHash DEF FreshInstalls
  <2> QED
    BY <2>1, <2>2, <2>4 DEF IsBootEligible, MetadataMatchesBinary
<1>21. CASE StageEmbeddedRevert
  <2>1. state'.pending = None /\ queue # <<>> /\ io.op = "idle"
    BY <1>21, <1>h, EmbeddedFields DEF StageEmbeddedRevert, AtHead
  <2>2. /\ queue' = Tail(queue) /\ early' = 0
        /\ UNCHANGED <<contents, meta, binary, selection, deferred, io, seen>>
    BY <1>21 DEF StageEmbeddedRevert, NothingLaunched
  <2>3. \A i \in DOMAIN Tail(queue) : Tail(queue)[i] \in Task
    BY <1>h, <2>1
  <2>4. FreshInstalls(queue', state'.pending, selection')
    BY <1>h, <1>t, <2>1, <2>2, <2>3, TaskHash DEF FreshInstalls
  <2> QED
    BY <2>1, <2>2, <2>4 DEF IsBootEligible, MetadataMatchesBinary
<1>22. CASE UNCHANGED vars
  BY <1>22 DEF vars, IsBootEligible, MetadataMatchesBinary
<1> QED
  BY <1>1, <1>2, <1>3, <1>4, <1>5, <1>6, <1>7, <1>8, <1>9, <1>10, <1>11, <1>12,
     <1>13, <1>14, <1>15, <1>16, <1>17, <1>18, <1>19, <1>20, <1>21, <1>22 DEF Next

\* The charges on disk are the launches the user saw.
THEOREM ChargesAlwaysMatch == Spec => []ChargesMatchLaunches
<1>1. TInv /\ RInv /\ BInv /\ AInv => ChargesMatchLaunches
  BY DEF AInv
<1> QED
  BY <1>1, TInvInit, TInvNext, RInvInit, RInvNext, BInvInit, BInvNext, AInvInit, AInvNext,
     PTL DEF Spec

\* A rollback condemns the pending package, after MaxLaunchAttempts launches.
THEOREM RollbackIsEarned == Spec => NoEarlyRollback
<1> DEFINE Earned == state'.failed \notin {None, state.failed} =>
                       /\ state'.failed = state.pending
                       /\ launches + early >= MaxLaunchAttempts
<1>1. TInv /\ TInv' /\ AInv /\ [Next]_vars => [Earned]_vars
  <2> SUFFICES ASSUME TInv, TInv', AInv, [Next]_vars,
                      state'.failed \notin {None, state.failed}
               PROVE  /\ state'.failed = state.pending
                      /\ launches + early >= MaxLaunchAttempts
    OBVIOUS
  <2>h. /\ state \in DiskState /\ state.pending \in Pointer /\ state.count \in Nat
        /\ io \in IoStep /\ queue \in Seq(Task) /\ None \notin Hash
        /\ launches \in Nat /\ uncounted \in Nat /\ early \in Int
        /\ MaxLaunchAttempts \in Nat
    BY DiskStateFields, ConstantsAssumption DEF TInv, TypeOK
  <2>1. state' # state
    OBVIOUS
  <2>2. CASE PrepareBootState
    <3>1. Prepared(state).failed \notin {None, state.failed} /\ state' = Prepared(state)
          /\ selection = NoSelection
      BY <2>2 DEF PrepareBootState
    <3>2. /\ state.started # None /\ state.started = state.pending
          /\ ~(state.count < MaxLaunchAttempts)
          /\ state' = RolledBack(state)
      BY <2>h, <3>1, ClearFields DEF Prepared, EmptyState
    <3>3. state'.failed = state.pending
      BY <2>h, <3>2, RolledBackFields
    <3>4. ~ChargeOutstanding
      BY <3>1 DEF ChargeOutstanding, NoSelection, SelectedAs
    <3>5. state.count + uncounted + 0 = launches + early
      BY <3>2, <3>4 DEF AInv, ChargesMatchLaunches
    <3> QED
      BY <2>h, <3>2, <3>3, <3>5
  <2>3. CASE BootPendingCharged
    <3>1. state.pending \in Hash
      BY <2>h, <2>3 DEF BootPendingCharged, PendingBoots, Pointer
    <3> QED
      BY <2>h, <2>3, <3>1, ChargeFields DEF BootPendingCharged
  <2>4. CASE ChargeDeferredLaunch
    <3>1. Head(queue).hash \in Hash
      BY <2>4, <2>h, QueueTypes, TaskHash DEF ChargeDeferredLaunch, AtHead
    <3> QED
      BY <2>h, <2>4, <3>1, ChargeFields DEF ChargeDeferredLaunch
  <2>5. CASE InstallStage
    <3>1. io.hash \in Hash /\ io.current \in Pointer
      BY <2>5, <2>h, IoFields DEF InstallStage, TInv, ProcessInv
    <3> QED
      BY <2>h, <2>5, <3>1, StagedFields DEF InstallStage
  <2>6. CASE ConfirmPending
    BY <2>h, <2>6, ConfirmedFields DEF ConfirmPending
  <2>7. CASE StageEmbeddedRevert
    BY <2>h, <2>7, EmbeddedFields DEF StageEmbeddedRevert
  <2> QED
    BY <2>1, <2>2, <2>3, <2>4, <2>5, <2>6, <2>7
       DEF Next, vars, StartProcess, KillProcess, ReplaceBinary, ActivityAppears,
           GoToBackground, HostAsksForBundle, JsAsks, WriteCrashRollbackEvent,
           ReselectPending, BootPendingDeferred, BootCurrent, BootEmbedded,
           InstallPromote, InstallRecord, InstallRejected
<1> QED
  BY <1>1, TInvInit, TInvNext, RInvInit, RInvNext, BInvInit, BInvNext, AInvInit, AInvNext,
     PTL DEF Spec, NoEarlyRollback
=============================================================================
