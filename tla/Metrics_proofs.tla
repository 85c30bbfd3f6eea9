---------------------------- MODULE Metrics_proofs ----------------------------
(***************************************************************************)
(* Theorems about Metrics for any number of events, requests, folders,     *)
(* dates, faults and clears: its type, that no row is left behind the      *)
(* watermark, that the counts are exact, that an applied package's earlier *)
(* failures are gone, and that a fold never waits in a circle.             *)
(***************************************************************************)
EXTENDS Metrics, TLAPS, FiniteSetTheorems, WellFoundedInduction

Assumptions == WindowAssumption /\ ReportsAssumption

-----------------------------------------------------------------------------
(* the operators                                                            *)

LEMMA LeastExists ==
    ASSUME NEW S \in SUBSET Nat, S # {}
    PROVE  \E n \in S : \A m \in S : n <= m
<1>1. PICK n \in S : \A m \in S : ~ (<<m, n>> \in OpToRel(<, Nat))
  BY NatLessThanWellFounded, WFMin
<1>2. \A m \in S : ~ (m < n)
  BY <1>1 DEF OpToRel
<1> QED
  BY <1>2

LEMMA FirstIn ==
    ASSUME Assumptions, NEW batch \in SUBSET Numbers, batch # {}
    PROVE  First(batch) \in batch
<1>1. Numbers \subseteq Nat
  BY DEF Assumptions, ReportsAssumption, Numbers
<1>2. \E n \in batch : \A m \in batch : n <= m
  BY <1>1, LeastExists
<1> QED
  BY <1>2 DEF First

LEMMA EventsType ==
    ASSUME Assumptions
    PROVE  /\ \A e \in Events : e.name \in Names /\ e.day \in Nat
           /\ \A n \in Numbers : Emissions[n] \in Events /\ n \in Nat \ {0}
           /\ IsFiniteSet(Events)
<1> DEFINE E == [id : Nat, name : Names, day : Nat]
<1>1. Emissions \in Seq(E)
  BY DEF Assumptions, ReportsAssumption
<1>2. /\ \A n \in Numbers : Emissions[n] \in E
      /\ Numbers = 1 .. Len(Emissions) /\ Len(Emissions) \in Nat
  <2> HIDE DEF E
  <2> QED
    BY <1>1 DEF Numbers
<1>3. /\ \A n \in Numbers : /\ Emissions[n].name \in Names /\ Emissions[n].day \in Nat
                            /\ n \in Nat \ {0}
      /\ Numbers = 1 .. Len(Emissions) /\ Len(Emissions) \in Nat
  BY <1>2
<1>4. Emissions \in [Numbers -> Events]
  BY DEF Assumptions, ReportsAssumption, Numbers, Events
<1>5. Emissions \in Surjection(Numbers, Events)
  BY <1>4 DEF Surjection, Events
<1>6. IsFiniteSet(Numbers)
  BY <1>3, FS_Interval
<1>7. IsFiniteSet(Events)
  BY <1>5, <1>6, FS_Surjection
<1> QED
  BY <1>3, <1>7 DEF Events

LEMMA CountOfType ==
    ASSUME Assumptions, NEW rows \in SUBSET Events, NEW name
    PROVE  CountOf(rows, name) \in Nat
<1>1. Cardinality({e \in rows : e.name = name}) \in Nat
  BY EventsType, FS_Subset, FS_CardinalityType
<1> QED
  BY <1>1 DEF CountOf

LEMMA CountOfNone == \A name : CountOf({}, name) = 0
<1>1. \A name : {e \in {} : e.name = name} = {}
  OBVIOUS
<1> QED
  BY <1>1, FS_EmptySet DEF CountOf

LEMMA NextRowsExist ==
    ASSUME Assumptions, raw \subseteq Events, NEW f, Unfolded(f) # {}
    PROVE  NextRows(f) # {}
<1> DEFINE days == {e.day : e \in Unfolded(f)}
<1>1. days \subseteq Nat /\ days # {}
  BY EventsType DEF Unfolded
<1>2. PICK d \in days : \A o \in days : d <= o
  BY <1>1, LeastExists
<1>3. PICK e \in Unfolded(f) : d = e.day
  BY <1>2
<1>4. e \in NextRows(f)
  BY <1>2, <1>3 DEF NextRows
<1> QED
  BY <1>4

-----------------------------------------------------------------------------
(* the type                                                                 *)

\* Dates: the watermark and the cutoffs are behind the window.
Times ==
    /\ RawDays <= today
    /\ foldedBefore + RawDays <= today
    /\ \A f \in Folders : fold[f].cutoff + RawDays <= today

InWork(r) == req[r].pc \in {"lock", "decide", "insert"}

\* The files are finitely many; a request works on an event of its batch; a fold
\* moves the rows of a day before its cutoff.
Working ==
    /\ IsFiniteSet(queue)
    /\ \A r \in Requests : InWork(r) => req[r].batch # {}
    /\ \A f \in Folders : fold[f].pc = "moved" => fold[f].day < fold[f].cutoff

TInv == TypeOK /\ Times /\ Working

RequestType == [pc : {"idle", "judge", "lock", "decide", "insert"},
                batch : SUBSET Numbers, acked : SUBSET Numbers,
                received : Days, rows : SUBSET Events]
FoldType == [pc : {"idle", "lock", "moved"}, cutoff : Days, day : Days, moved : SUBSET Events]

LEMMA TInvInit == Assumptions /\ Init => TInv
<1> SUFFICES ASSUME Assumptions, Init PROVE TInv
  OBVIOUS
<1>1. 0 \in Days /\ today \in Days /\ RawDays \in Nat
  BY DEF Assumptions, WindowAssumption, Init, Days
<1>2. req \in [Requests -> RequestType] /\ fold \in [Folders -> FoldType]
  BY <1>1 DEF Init, RequestType, FoldType, Idle, FoldIdle
<1>3. queue \subseteq [n : Numbers, on : Days] /\ Cardinality(queue) <= QueueCap
  BY FS_EmptySet DEF Init, Assumptions, ReportsAssumption
<1>4. counts \in [Days -> [Names -> Nat]]
  BY DEF Init
<1>5. TypeOK
  BY <1>1, <1>2, <1>3, <1>4
     DEF Init, TypeOK, RequestType, FoldType, Assumptions, ReportsAssumption
<1>6. Times
  BY <1>1 DEF Init, Times, FoldIdle
<1>7. Working
  BY FS_EmptySet DEF Init, Working, InWork, Idle, FoldIdle
<1> QED
  BY <1>5, <1>6, <1>7 DEF TInv

LEMMA EventType ==
    ASSUME Assumptions, TInv, NEW r \in Requests, req[r].batch # {}
    PROVE  /\ First(req[r].batch) \in req[r].batch
           /\ First(req[r].batch) \in Numbers
           /\ Event(r) \in Events /\ Event(r).name \in Names /\ Event(r).day \in Nat
<1>1. req[r].batch \in SUBSET Numbers
  BY DEF TInv, TypeOK
<1>2. First(req[r].batch) \in req[r].batch
  BY <1>1, FirstIn
<1> QED
  BY <1>1, <1>2, EventsType DEF Event

LEMMA RequestKept ==
    ASSUME TInv, NEW r \in Requests, NEW new \in RequestType,
           req' = [req EXCEPT ![r] = new], new.pc \in {"lock", "decide", "insert"} => new.batch # {}
    PROVE  /\ req' \in [Requests -> RequestType]
           /\ \A p \in Requests : InWork(p)' => req'[p].batch # {}
<1>1. req \in [Requests -> RequestType]
  BY DEF TInv, TypeOK, RequestType
<1>2. req' \in [Requests -> RequestType]
  BY <1>1
<1>3. ASSUME NEW p \in Requests, InWork(p)'
      PROVE  req'[p].batch # {}
  BY <1>1, <1>3 DEF TInv, Working, InWork
<1> QED
  BY <1>2, <1>3

LEMMA IdleType ==
    ASSUME Assumptions
    PROVE  /\ Idle \in RequestType /\ Idle.pc = "idle" /\ Idle.rows = {}
           /\ FoldIdle \in FoldType /\ FoldIdle.pc = "idle" /\ FoldIdle.moved = {}
           /\ FoldIdle.cutoff = 0
<1>1. 0 \in Days
  BY DEF Assumptions, WindowAssumption, Days
<1> QED
  BY <1>1 DEF Idle, FoldIdle, RequestType, FoldType

LEMMA NextEventType ==
    ASSUME Assumptions, TInv, NEW r \in Requests, req[r].batch # {}
    PROVE  /\ NextEvent(r) \in RequestType
           /\ NextEvent(r).pc = "judge" /\ NextEvent(r).rows = {}
<1> DEFINE b == req[r].batch \ {First(req[r].batch)}
           a == req[r].acked \cup {First(req[r].batch)}
<1>1. b \in SUBSET Numbers /\ a \in SUBSET Numbers
  BY EventType DEF TInv, TypeOK
<1>2. NextEvent(r) = [Idle EXCEPT !.pc = "judge", !.batch = b, !.acked = a]
  BY DEF NextEvent
<1> HIDE DEF a, b
<1> QED
  BY <1>1, <1>2, IdleType DEF RequestType

\* A step of a request, of the device or of the administrator leaves the rest.
LEMMA TInvRequest ==
    ASSUME Assumptions, TInv, NEW r \in Requests, NEW new \in RequestType,
           req' = [req EXCEPT ![r] = new],
           new.pc \in {"lock", "decide", "insert"} => new.batch # {},
           UNCHANGED <<today, emitted, counts, foldedBefore, fold, clear, clears>>,
           queue' \subseteq queue, awaiting' \in Requests \cup {None},
           faults' \in 0 .. MaxFaults,
           raw' \subseteq Events, kept' \subseteq Events, stored' \subseteq Events
    PROVE  TInv'
<1>1. /\ req' \in [Requests -> RequestType]
      /\ \A p \in Requests : InWork(p)' => req'[p].batch # {}
  BY RequestKept
<1>2. /\ IsFiniteSet(queue') /\ Cardinality(queue') <= QueueCap
      /\ queue' \subseteq [n : Numbers, on : Days]
  <2>1. IsFiniteSet(queue) /\ Cardinality(queue) <= QueueCap
    BY DEF TInv, TypeOK, Working
  <2>2. IsFiniteSet(queue') /\ Cardinality(queue') <= Cardinality(queue)
    BY <2>1, FS_Subset
  <2>3. Cardinality(queue) \in Nat /\ Cardinality(queue') \in Nat /\ QueueCap \in Nat
    BY <2>1, <2>2, FS_CardinalityType DEF Assumptions, ReportsAssumption
  <2> QED
    BY <2>1, <2>2, <2>3 DEF TInv, TypeOK
<1>3. TypeOK'
  BY <1>1, <1>2 DEF TInv, TypeOK, RequestType, Days
<1>4. Times'
  BY DEF TInv, Times
<1>5. Working'
  BY <1>1, <1>2 DEF TInv, Working
<1> QED
  BY <1>3, <1>4, <1>5 DEF TInv

LEMMA TInvEnqueue == Assumptions /\ TInv /\ Enqueue => TInv'
<1> SUFFICES ASSUME Assumptions, TInv, Enqueue PROVE TInv'
  OBVIOUS
<1> DEFINE file  == [n |-> emitted + 1, on |-> today]
           files == queue \cup {file}
<1>1. file \in [n : Numbers, on : Days] /\ files \subseteq [n : Numbers, on : Days]
  BY DEF Enqueue, TInv, TypeOK
<1>2. IsFiniteSet(queue) /\ Cardinality(queue) \in Nat /\ Cardinality(queue) <= QueueCap
      /\ QueueCap \in Nat
  BY FS_CardinalityType DEF TInv, TypeOK, Working, Assumptions, ReportsAssumption
<1>3. IsFiniteSet(files) /\ Cardinality(files) <= Cardinality(queue) + 1
      /\ Cardinality(files) \in Nat
  <2> HIDE DEF file
  <2>1. /\ IsFiniteSet(files)
        /\ Cardinality(files) = IF file \in queue THEN Cardinality(queue) ELSE Cardinality(queue) + 1
    BY <1>2, FS_AddElement
  <2> QED
    BY <1>2, <2>1
<1>4. Oldest(files) \in files
  <2>1. {f.n : f \in files} \in SUBSET Nat /\ {f.n : f \in files} # {}
    BY <1>1, EventsType
  <2>2. PICK n \in {f.n : f \in files} : \A m \in {f.n : f \in files} : n <= m
    BY <2>1, LeastExists
  <2>3. \E f \in files : \A g \in files : f.n <= g.n
    BY <2>2
  <2> QED
    BY <2>3 DEF Oldest
<1>5. queue' = Capped(files)
  BY DEF Enqueue
<1>6. /\ IsFiniteSet(queue') /\ Cardinality(queue') <= QueueCap
      /\ queue' \subseteq [n : Numbers, on : Days]
  <2>1. CASE Cardinality(files) > QueueCap
    <3>1. queue' = files \ {Oldest(files)}
      BY <1>5, <2>1 DEF Capped
    <3>2. IsFiniteSet(queue') /\ Cardinality(queue') = Cardinality(files) - 1
      <4> HIDE DEF files
      <4> QED
        BY <1>3, <1>4, <3>1, FS_RemoveElement
    <3> QED
      BY <1>1, <1>2, <1>3, <3>1, <3>2
  <2>2. CASE ~(Cardinality(files) > QueueCap)
    BY <1>1, <1>2, <1>3, <1>5, <2>2 DEF Capped
  <2> QED
    BY <2>1, <2>2
<1>7. emitted' \in Numbers
  BY DEF Enqueue
<1>8. UNCHANGED <<today, awaiting, req, raw, counts, foldedBefore, fold, clear, bounds, history>>
  BY DEF Enqueue
<1>9. TypeOK'
  BY <1>6, <1>7, <1>8 DEF TInv, TypeOK, bounds, history, Days
<1>10. Times' /\ Working'
  BY <1>6, <1>8 DEF TInv, Times, Working, InWork
<1> QED
  BY <1>9, <1>10 DEF TInv

LEMMA TInvFlush == ASSUME Assumptions, TInv, NEW r \in Requests, Flush(r) PROVE TInv'
<1>1. queue' \subseteq queue
  BY DEF Flush
<1>2. /\ UNCHANGED <<today, emitted, counts, foldedBefore, fold, clear, clears, faults>>
      /\ raw' \subseteq Events /\ kept' \subseteq Events /\ stored' \subseteq Events
      /\ faults' \in 0 .. MaxFaults
  BY DEF Flush, bounds, history, TInv, TypeOK
<1>3. req \in [Requests -> RequestType]
  BY DEF TInv, TypeOK, RequestType
<1>4. CASE queue' = {}
  <2>1. req' = [req EXCEPT ![r] = req[r]] /\ awaiting' \in Requests \cup {None}
    BY <1>3, <1>4 DEF Flush, TInv, TypeOK
  <2>2. req[r] \in RequestType /\ (req[r].pc \in {"lock", "decide", "insert"} => req[r].batch # {})
    BY <1>3 DEF TInv, Working, InWork
  <2> QED
    BY <1>1, <1>2, <2>1, <2>2, TInvRequest
<1>5. CASE queue' # {}
  <2> DEFINE numbers == {file.n : file \in queue'}
             new == [req[r] EXCEPT !.pc = "judge", !.batch = numbers]
  <2>1. numbers \in SUBSET Numbers
    BY <1>1 DEF TInv, TypeOK
  <2>2. req' = [req EXCEPT ![r].pc = "judge", ![r].batch = numbers] /\ awaiting' = r
    BY <1>5 DEF Flush
  <2> HIDE DEF numbers
  <2>3. req' = [req EXCEPT ![r] = new]
    BY <1>3, <2>2
  <2>4. new \in RequestType /\ new.pc = "judge"
    BY <1>3, <2>1 DEF RequestType
  <2> HIDE DEF new
  <2> QED
    BY <1>1, <1>2, <2>2, <2>3, <2>4, TInvRequest
<1> QED
  BY <1>4, <1>5

\* A step of a request that changes nothing else.
LEMMA TInvOnly ==
    ASSUME Assumptions, TInv, NEW r \in Requests, NEW new \in RequestType, OnlyRequest(r, new),
           new.pc \in {"lock", "decide", "insert"} => new.batch # {}
    PROVE  TInv'
<1>1. /\ req' = [req EXCEPT ![r] = new]
      /\ UNCHANGED <<today, emitted, queue, awaiting, raw, counts, foldedBefore, fold, clear,
                     faults, clears, kept, stored>>
  BY DEF OnlyRequest, device, bounds, history
<1>2. /\ queue' \subseteq queue /\ awaiting' \in Requests \cup {None} /\ faults' \in 0 .. MaxFaults
      /\ raw' \subseteq Events /\ kept' \subseteq Events /\ stored' \subseteq Events
  BY <1>1 DEF TInv, TypeOK
<1> QED
  BY <1>1, <1>2, TInvRequest

LEMMA TInvIngest == ASSUME Assumptions, TInv, NEW r \in Requests, Ingest(r) PROVE TInv'
<1>1. req \in [Requests -> RequestType] /\ req[r] \in RequestType
  BY DEF TInv, TypeOK, RequestType
<1>2. CASE Drop(r)
  BY <1>2, NextEventType, TInvOnly DEF Drop
<1>3. CASE Accept(r)
  <2> DEFINE pc  == IF Supersedes(Event(r)) THEN "lock" ELSE "insert"
             new == [req[r] EXCEPT !.received = today, !.pc = pc]
  <2>1. pc \in {"lock", "insert"} /\ today \in Days
    BY DEF TInv, TypeOK
  <2>2. OnlyRequest(r, new) /\ req[r].batch # {}
    BY <1>3 DEF Accept
  <2> HIDE DEF pc
  <2>3. new \in RequestType /\ new.batch = req[r].batch
    BY <1>1, <2>1 DEF RequestType
  <2> HIDE DEF new
  <2> QED
    BY <2>2, <2>3, TInvOnly
<1>4. CASE AdvisoryLock(r)
  <2> DEFINE new == [req[r] EXCEPT !.pc = "decide"]
  <2>1. OnlyRequest(r, new) /\ req[r].batch # {}
    BY <1>4 DEF AdvisoryLock, TInv, Working, InWork
  <2>2. new \in RequestType /\ new.batch = req[r].batch
    BY <1>1 DEF RequestType
  <2> HIDE DEF new
  <2> QED
    BY <2>1, <2>2, TInvOnly
<1>5. CASE CheckFailed(r)
  <2> DEFINE new == [req[r] EXCEPT !.pc = "insert"]
  <2>1. OnlyRequest(r, IF HasApplied THEN NextEvent(r) ELSE new) /\ req[r].batch # {}
    BY <1>5 DEF CheckFailed, TInv, Working, InWork
  <2>2. new \in RequestType /\ new.batch = req[r].batch
    BY <1>1 DEF RequestType
  <2> HIDE DEF new
  <2> QED
    BY <2>1, <2>2, TInvOnly, NextEventType
<1>6. CASE DeleteFailed(r)
  <2> DEFINE new == [req[r] EXCEPT !.pc = "insert", !.rows = FailedRows]
  <2>1. OnlyRequest(r, new) /\ req[r].batch # {} /\ FailedRows \subseteq Events
    BY <1>6 DEF DeleteFailed, TInv, TypeOK, Working, InWork, FailedRows
  <2>2. new \in RequestType /\ new.batch = req[r].batch
    BY <1>1, <2>1 DEF RequestType
  <2> HIDE DEF new
  <2> QED
    BY <2>1, <2>2, TInvOnly
<1>7. CASE Insert(r)
  <2>1. req[r].batch # {} /\ UNCHANGED device
    BY <1>7 DEF Insert, TInv, Working, InWork
  <2>2. Event(r) \in Events
    BY <2>1, EventType
  <2>3. /\ raw' \subseteq Events /\ kept' \subseteq Events /\ stored' \subseteq Events
        /\ queue' \subseteq queue /\ awaiting' \in Requests \cup {None} /\ faults' \in 0 .. MaxFaults
    BY <1>7, <2>2 DEF Insert, device, bounds, TInv, TypeOK
  <2>4. /\ req' = [req EXCEPT ![r] = NextEvent(r)]
        /\ UNCHANGED <<today, emitted, counts, foldedBefore, fold, clear, clears>>
    BY <1>7 DEF Insert, device, bounds
  <2> QED
    BY <2>1, <2>3, <2>4, NextEventType, TInvRequest
<1>8. CASE Answer(r) \/ RequestError(r) \/ DeadlockVictim(r)
  <2>1. /\ req' = [req EXCEPT ![r] = Idle] /\ queue' \subseteq queue /\ NotAwaiting(r)
        /\ UNCHANGED <<today, emitted, raw, counts, foldedBefore, fold, clear, clears, kept, stored>>
    BY <1>8 DEF Answer, RequestError, DeadlockVictim, RequestFails, bounds, history
  <2>2. awaiting' \in Requests \cup {None}
    BY <2>1 DEF NotAwaiting, TInv, TypeOK
  <2>3. faults' \in 0 .. MaxFaults
    BY <1>8 DEF Answer, RequestError, DeadlockVictim, bounds, TInv, TypeOK, Assumptions,
                ReportsAssumption
  <2>4. raw' \subseteq Events /\ kept' \subseteq Events /\ stored' \subseteq Events
    BY <2>1 DEF TInv, TypeOK
  <2> QED
    BY <2>1, <2>2, <2>3, <2>4, IdleType, TInvRequest
<1> QED
  BY <1>2, <1>3, <1>4, <1>5, <1>6, <1>7, <1>8 DEF Ingest

\* A step of the folds.
LEMMA TInvFold == ASSUME Assumptions, TInv, NEW f \in Folders, Fold(f) PROVE TInv'
<1>0. /\ fold \in [Folders -> FoldType] /\ fold[f] \in FoldType
      /\ today \in Nat /\ foldedBefore \in Days /\ MaxDay \in Nat /\ today <= MaxDay
      /\ RawDays \in Nat \ {0} /\ 0 \in Days
  BY DEF TInv, TypeOK, FoldType, Days, Assumptions, WindowAssumption
\* what is left to show of each step
<1>1. ASSUME NEW new \in FoldType, fold' = [fold EXCEPT ![f] = new],
             UNCHANGED <<today, emitted, queue, awaiting, req, clear, clears, kept, stored>>,
             faults' \in 0 .. MaxFaults, raw' \subseteq raw,
             counts' \in [Days -> [Names -> Nat]],
             foldedBefore' \in Days, foldedBefore' + RawDays <= today,
             new.cutoff + RawDays <= today, new.pc = "moved" => new.day < new.cutoff
      PROVE  TInv'
  <2>1. fold' \in [Folders -> FoldType]
    BY <1>0, <1>1
  <2>2. TypeOK'
    BY <1>1, <2>1 DEF TInv, TypeOK, FoldType, Days
  <2>3. Times'
    BY <1>0, <1>1 DEF TInv, Times
  <2>4. Working'
    BY <1>0, <1>1 DEF TInv, Working, InWork
  <2> QED
    BY <2>2, <2>3, <2>4 DEF TInv
<1>2. /\ UNCHANGED <<today, emitted, queue, awaiting, req, clear, clears, kept, stored>>
      /\ faults' \in 0 .. MaxFaults
  BY DEF Fold, StartFold, MoveDay, CommitDay, NothingToFold, FoldFails, device, bounds, history,
         TInv, TypeOK, Assumptions, ReportsAssumption
<1>3. /\ raw \subseteq raw /\ counts \in [Days -> [Names -> Nat]]
      /\ foldedBefore + RawDays <= today /\ fold[f].cutoff + RawDays <= today
  BY DEF TInv, TypeOK, Times
<1>9. /\ FoldIdle \in FoldType /\ FoldIdle.pc # "moved"
      /\ FoldIdle.cutoff + RawDays <= today
  BY <1>0, IdleType DEF TInv, Times
<1>4. CASE StartFold(f)
  <2> DEFINE new == [fold[f] EXCEPT !.pc = "lock", !.cutoff = FoldCutoff(today)]
  <2>1. FoldCutoff(today) \in Days /\ FoldCutoff(today) + RawDays <= today
    BY <1>0, <1>4 DEF StartFold, FoldCutoff, Days
  <2>2. fold' = [fold EXCEPT ![f] = new] /\ UNCHANGED <<raw, counts, foldedBefore>>
    BY <1>0, <1>4 DEF StartFold
  <2>3. new \in FoldType /\ new.cutoff = FoldCutoff(today) /\ new.pc = "lock"
    BY <1>0, <2>1 DEF FoldType
  <2> HIDE DEF new
  <2> QED
    BY <1>0, <1>1, <1>2, <1>3, <2>1, <2>2, <2>3
<1>5. CASE MoveDay(f)
  <2> DEFINE some == CHOOSE e \in NextRows(f) : TRUE
             new  == [fold[f] EXCEPT !.pc = "moved", !.moved = NextRows(f), !.day = some.day]
  <2>1. some \in NextRows(f)
    BY <1>5 DEF MoveDay
  <2>2. /\ NextRows(f) \subseteq Events /\ some \in Events
        /\ some.day < fold[f].cutoff /\ foldedBefore <= some.day
    BY <2>1, <1>0, EventsType DEF NextRows, Unfolded, TInv, TypeOK, Days
  <2>3. some.day \in Days
    BY <1>0, <2>2, EventsType DEF FoldType, Days
  <2>4. fold' = [fold EXCEPT ![f] = new] /\ UNCHANGED <<raw, counts, foldedBefore>>
    BY <1>0, <1>5 DEF MoveDay
  <2> HIDE DEF some
  <2>5. new \in FoldType /\ new.cutoff = fold[f].cutoff /\ new.day = some.day
    BY <1>0, <2>2, <2>3 DEF FoldType
  <2> HIDE DEF new
  <2> QED
    BY <1>0, <1>1, <1>2, <1>3, <2>2, <2>4, <2>5
<1>6. CASE CommitDay(f)
  <2> DEFINE new == [FoldIdle EXCEPT !.pc = "lock", !.cutoff = fold[f].cutoff]
  <2>1. new \in FoldType /\ new.cutoff = fold[f].cutoff /\ new.pc = "lock"
    BY <1>0, IdleType DEF FoldType
  <2>2. fold[f].day < fold[f].cutoff /\ fold[f].day \in Days /\ fold[f].cutoff \in Days
    BY <1>0, <1>6 DEF CommitDay, TInv, Working, FoldType
  <2>3. foldedBefore' \in Days /\ foldedBefore' + RawDays <= today
    BY <1>0, <1>3, <1>6, <2>2 DEF CommitDay, Greatest, Days
  <2>4. counts' \in [Days -> [Names -> Nat]]
    <3>1. \A n \in Names : CountOf(fold[f].moved, n) \in Nat
      BY <1>0, CountOfType DEF FoldType
    <3>2. counts[fold[f].day] \in [Names -> Nat]
      BY <1>3, <2>2
    <3>3. [n \in Names |-> counts[fold[f].day][n] + CountOf(fold[f].moved, n)] \in [Names -> Nat]
      BY <3>1, <3>2
    <3> QED
      BY <1>3, <1>6, <2>2, <3>3 DEF CommitDay
  <2>5. fold' = [fold EXCEPT ![f] = new] /\ raw' \subseteq raw
    BY <1>6 DEF CommitDay
  <2> HIDE DEF new
  <2> QED
    BY <1>1, <1>2, <1>3, <2>1, <2>3, <2>4, <2>5
<1>7. CASE NothingToFold(f)
  <2>1. fold' = [fold EXCEPT ![f] = FoldIdle] /\ UNCHANGED <<raw, counts>>
    BY <1>7 DEF NothingToFold
  <2>2. foldedBefore' \in Days /\ foldedBefore' + RawDays <= today
    BY <1>0, <1>3, <1>7 DEF NothingToFold, Greatest, Days, FoldType
  <2> QED
    BY <1>1, <1>2, <1>3, <1>9, <2>1, <2>2
<1>8. CASE FoldFails(f)
  <2>1. fold' = [fold EXCEPT ![f] = FoldIdle] /\ UNCHANGED <<raw, counts, foldedBefore>>
    BY <1>8 DEF FoldFails
  <2> QED
    BY <1>0, <1>1, <1>2, <1>3, <1>9, <2>1
<1> QED
  BY <1>4, <1>5, <1>6, <1>7, <1>8 DEF Fold

LEMMA TInvStep == Assumptions /\ TInv /\ [Next]_vars => TInv'
<1> SUFFICES ASSUME Assumptions, TInv, [Next]_vars PROVE TInv'
  OBVIOUS
<1>1. CASE UNCHANGED vars
  BY <1>1 DEF vars, device, bounds, history, TInv, TypeOK, Times, Working, InWork, Days
<1>2. CASE Enqueue
  BY <1>2, TInvEnqueue
<1>3. CASE \E r \in Requests : Flush(r) \/ Ingest(r)
  BY <1>3, TInvFlush, TInvIngest
<1>4. CASE \E f \in Folders : Fold(f)
  BY <1>4, TInvFold
<1>5. CASE GiveUp \/ BeginClear \/ LockForClear
  <2>1. /\ faults' \in 0 .. MaxFaults /\ clears' \in 0 .. MaxClears
        /\ awaiting' \in Requests \cup {None}
        /\ clear' \in {"idle", "watermark", "deployment", "rows"}
    BY <1>5 DEF GiveUp, BeginClear, LockForClear, device, bounds, TInv, TypeOK, Assumptions,
                ReportsAssumption
  <2>2. UNCHANGED <<today, emitted, queue, req, raw, counts, foldedBefore, fold, kept, stored>>
    BY <1>5 DEF GiveUp, BeginClear, LockForClear, device, history
  <2> QED
    BY <2>1, <2>2 DEF TInv, TypeOK, Times, Working, InWork, Days
<1>6. CASE CommitClear
  <2>1. counts' \in [Days -> [Names -> Nat]]
    BY <1>6 DEF CommitClear
  <2>2. UNCHANGED <<today, emitted, queue, awaiting, req, foldedBefore, fold, faults, clears>>
    BY <1>6 DEF CommitClear, device, bounds
  <2> QED
    BY <1>6, <2>1, <2>2 DEF CommitClear, TInv, TypeOK, Times, Working, InWork, Days
<1>7. CASE Tick
  <2>1. today' \in Days /\ today' = today + 1
    BY <1>7 DEF Tick, TInv, TypeOK, Days, Assumptions, WindowAssumption
  <2>2. UNCHANGED <<emitted, queue, awaiting, req, raw, counts, foldedBefore, fold, clear, faults,
                    clears, kept, stored>>
    BY <1>7 DEF Tick, device, bounds, history
  <2>3. Times'
    <3>1. \A f \in Folders : fold[f].cutoff \in Nat
      BY DEF TInv, TypeOK, Days
    <3>2. today \in Nat /\ RawDays \in Nat /\ foldedBefore \in Nat
      BY DEF TInv, TypeOK, Days, Assumptions, WindowAssumption
    <3> QED
      BY <2>1, <2>2, <3>1, <3>2 DEF TInv, Times
  <2> QED
    BY <2>1, <2>2, <2>3 DEF TInv, TypeOK, Working, InWork, Days
<1> QED
  BY <1>1, <1>2, <1>3, <1>4, <1>5, <1>6, <1>7 DEF Next

\* The type of every variable; the queue of the device never holds more files than
\* its cap, whatever is emitted, lost or sent again (enforceEventQueueCap).
THEOREM TypeCorrect ==
    ASSUME Assumptions
    PROVE  Spec => []TypeOK
<1>1. Init => TInv
  BY TInvInit
<1>2. TInv /\ [Next]_vars => TInv'
  BY TInvStep
<1>3. TInv => TypeOK
  BY DEF TInv
<1> QED
  BY <1>1, <1>2, <1>3, PTL DEF Spec

-----------------------------------------------------------------------------
(* the inductive invariant                                                  *)

\* An event that is being stored was received today or yesterday, in the window.
DateInv ==
    \A r \in Requests : InWork(r) =>
      Event(r).day + RawDays > req[r].received /\ today <= req[r].received + 1

\* The advisory lock is one request's at a time; with it, an applied event sees all
\* failures it deletes until it is stored, and a failure no applied event.
Locked(r) ==
    /\ req[r].pc \in {"lock", "decide"} => Supersedes(Event(r))
    /\ req[r].rows # {} => req[r].pc = "insert" /\ Event(r).name = "Applied"
    /\ req[r].rows \subseteq FailedRows
    /\ req[r].pc = "insert" /\ Event(r).name = "Applied" => FailedRows \subseteq req[r].rows
    /\ req[r].pc = "insert" /\ Event(r).name = "Failed" => ~HasApplied

LockInv ==
    /\ \A r \in Requests : Locked(r)
    /\ \A r, p \in Requests : HoldsAdvisoryLock(r) /\ HoldsAdvisoryLock(p) => r = p

\* The watermark is one fold's, or the clear's.  A fold that has moved a day holds
\* all of its rows, there is none of an earlier day, and no request deletes one.
Moved(f) ==
    /\ fold[f].pc # "moved" => fold[f].moved = {}
    /\ fold[f].pc = "moved" =>
         /\ fold[f].day >= foldedBefore
         /\ fold[f].moved = On(raw, fold[f].day)
         /\ \A e \in raw : e.day >= fold[f].day
         /\ ~ClearHoldsWatermark
         /\ \A g \in Folders : fold[g].pc = "moved" => g = f
    /\ \A r \in Requests : fold[f].moved \cap req[r].rows = {}

MoveInv == \A f \in Folders : Moved(f)

\* A day before the watermark is in the counts, any other in the rows.
CountInv ==
    \A d \in Days :
      IF d < foldedBefore
      THEN On(raw, d) = {} /\ \A n \in Names : counts[d][n] = CountOf(On(kept, d), n)
      ELSE On(raw, d) = On(kept, d) /\ \A n \in Names : counts[d][n] = 0

\* An applied event that was stored is still a row, or its day was folded.
StoredInv == \A e \in stored : e.name = "Applied" => e \in raw \/ e.day < foldedBefore

MInv == TInv /\ DateInv /\ LockInv /\ MoveInv /\ NothingLeftBehind

-----------------------------------------------------------------------------
(* the steps                                                                *)

\* Steps that store and fold nothing and bring no event nearer to being stored.
Rests(r) == req[r].pc \in {"idle", "judge"} /\ req[r].rows = {}

Calm ==
    /\ UNCHANGED <<today, raw, kept, stored, counts, foldedBefore, fold>>
    /\ \A r \in Requests : req'[r] = req[r] \/ Rests(r)'
    /\ clear' = clear \/ (clear = "idle" /\ clear' = "watermark")

\* A request goes on with its event.
Advances(r, pc) ==
    /\ \A p \in Requests \ {r} : req'[p] = req[p]
    /\ req'[r].batch = req[r].batch /\ req'[r].pc = pc
    /\ UNCHANGED <<today, raw, kept, stored, counts, foldedBefore, fold, clear>>

LEMMA RestsAfter ==
    ASSUME Assumptions, TInv, NEW r \in Requests, NEW new \in RequestType,
           new.pc \in {"idle", "judge"}, new.rows = {}, req' = [req EXCEPT ![r] = new]
    PROVE  \A p \in Requests : req'[p] = req[p] \/ Rests(p)'
BY DEF TInv, TypeOK, Rests

LEMMA RequestSteps ==
    ASSUME Assumptions, TInv, LockInv, NEW r \in Requests, Flush(r) \/ Ingest(r)
    PROVE  \/ Calm
           \/ /\ Advances(r, IF Supersedes(Event(r)) THEN "lock" ELSE "insert")
              /\ req'[r].received = today /\ req'[r].rows = req[r].rows
              /\ req[r].pc = "judge" /\ req[r].batch # {}
              /\ ~IsExpired(Event(r), today)
           \/ /\ Advances(r, "decide")
              /\ req'[r].received = req[r].received /\ req'[r].rows = req[r].rows
              /\ req[r].pc = "lock"
              /\ \A p \in Requests \ {r} : ~HoldsAdvisoryLock(p)
           \/ /\ Advances(r, "insert")
              /\ req'[r].received = req[r].received /\ req'[r].rows = req[r].rows
              /\ req[r].pc = "decide" /\ Event(r).name = "Failed" /\ ~HasApplied
           \/ /\ Advances(r, "insert")
              /\ req'[r].received = req[r].received /\ req'[r].rows = FailedRows
              /\ req[r].pc = "decide" /\ Event(r).name = "Applied"
              /\ \A f \in Folders : fold[f].moved \cap FailedRows = {}
           \/ Insert(r)
<1>1. req \in [Requests -> RequestType] /\ req[r] \in RequestType
  BY DEF TInv, TypeOK, RequestType
<1>2. ASSUME NEW new \in RequestType, req' = [req EXCEPT ![r] = new],
             new.pc \in {"idle", "judge"}, new.rows = {},
             UNCHANGED <<today, raw, kept, stored, counts, foldedBefore, fold, clear>>
      PROVE  Calm
  BY <1>2, RestsAfter DEF Calm
<1>3. CASE Flush(r)
  <2>1. UNCHANGED <<today, raw, kept, stored, counts, foldedBefore, fold, clear>>
    BY <1>3 DEF Flush, bounds, history
  <2>2. CASE UNCHANGED req
    BY <2>1, <2>2 DEF Calm
  <2>3. CASE req' # req
    <3> DEFINE numbers == {file.n : file \in queue'}
    <3>1. req' = [req EXCEPT ![r].pc = "judge", ![r].batch = numbers]
      BY <1>3, <2>3 DEF Flush
    <3> HIDE DEF numbers
    <3>2. \A p \in Requests : req'[p] = req[p] \/ (p = r /\ req'[p].pc = "judge"
                                                   /\ req'[p].rows = req[p].rows)
      BY <1>1, <3>1 DEF RequestType
    <3>3. req[r].rows = {}
      BY <1>3 DEF Flush, LockInv, Locked
    <3> QED
      BY <2>1, <3>2, <3>3 DEF Calm, Rests
  <2> QED
    BY <2>2, <2>3
<1>4. CASE Drop(r)
  BY <1>2, <1>4, NextEventType DEF Drop, OnlyRequest, history
<1>5. CASE Accept(r)
  <2> DEFINE pc == IF Supersedes(Event(r)) THEN "lock" ELSE "insert"
  <2>1. req' = [req EXCEPT ![r] = [req[r] EXCEPT !.received = today, !.pc = pc]]
    BY <1>5 DEF Accept, OnlyRequest
  <2>2. UNCHANGED <<today, raw, kept, stored, counts, foldedBefore, fold, clear>>
    BY <1>5 DEF Accept, OnlyRequest, history
  <2>3. req[r].pc = "judge" /\ req[r].batch # {} /\ ~IsExpired(Event(r), today)
    BY <1>5 DEF Accept
  <2> HIDE DEF pc
  <2>4. Advances(r, pc) /\ req'[r].received = today /\ req'[r].rows = req[r].rows
    BY <1>1, <2>1, <2>2 DEF Advances, RequestType
  <2> USE DEF pc
  <2> QED
    BY <2>3, <2>4
<1>6. CASE AdvisoryLock(r)
  <2>1. req' = [req EXCEPT ![r] = [req[r] EXCEPT !.pc = "decide"]]
    BY <1>6 DEF AdvisoryLock, OnlyRequest
  <2>2. UNCHANGED <<today, raw, kept, stored, counts, foldedBefore, fold, clear>>
    BY <1>6 DEF AdvisoryLock, OnlyRequest, history
  <2>3. Advances(r, "decide") /\ req'[r].received = req[r].received
        /\ req'[r].rows = req[r].rows
    BY <1>1, <2>1, <2>2 DEF Advances, RequestType
  <2>4. req[r].pc = "lock" /\ \A p \in Requests \ {r} : ~HoldsAdvisoryLock(p)
    BY <1>6 DEF AdvisoryLock, Blocked, Processes, WaitsFor, RequestWaitsFor
  <2> QED
    BY <2>3, <2>4
<1>7. CASE CheckFailed(r)
  <2>1. CASE HasApplied
    BY <1>2, <1>7, <2>1, NextEventType
       DEF CheckFailed, OnlyRequest, history, TInv, Working, InWork
  <2>2. CASE ~HasApplied
    <3>1. req' = [req EXCEPT ![r] = [req[r] EXCEPT !.pc = "insert"]]
      BY <1>7, <2>2 DEF CheckFailed, OnlyRequest
    <3>2. UNCHANGED <<today, raw, kept, stored, counts, foldedBefore, fold, clear>>
      BY <1>7 DEF CheckFailed, OnlyRequest, history
    <3>3. Advances(r, "insert") /\ req'[r].received = req[r].received
          /\ req'[r].rows = req[r].rows
      BY <1>1, <3>1, <3>2 DEF Advances, RequestType
    <3> QED
      BY <1>7, <2>2, <3>3 DEF CheckFailed
  <2> QED
    BY <2>1, <2>2
<1>8. CASE DeleteFailed(r)
  <2> DEFINE failed == FailedRows
  <2>1. req' = [req EXCEPT ![r] = [req[r] EXCEPT !.pc = "insert", !.rows = failed]]
    BY <1>8 DEF DeleteFailed, OnlyRequest
  <2>2. UNCHANGED <<today, raw, kept, stored, counts, foldedBefore, fold, clear>>
    BY <1>8 DEF DeleteFailed, OnlyRequest, history
  <2> HIDE DEF failed
  <2>3. Advances(r, "insert") /\ req'[r].received = req[r].received /\ req'[r].rows = failed
    BY <1>1, <2>1, <2>2 DEF Advances, RequestType
  <2> USE DEF failed
  <2>4. /\ req[r].pc = "decide" /\ Event(r).name = "Applied"
        /\ \A f \in Folders : fold[f].moved \cap FailedRows = {}
    BY <1>8 DEF DeleteFailed, Blocked, Processes, WaitsFor, RequestWaitsFor
  <2> QED
    BY <2>3, <2>4
<1>9. CASE Answer(r) \/ RequestError(r) \/ DeadlockVictim(r)
  <2>1. /\ req' = [req EXCEPT ![r] = Idle]
        /\ UNCHANGED <<today, raw, kept, stored, counts, foldedBefore, fold, clear>>
    BY <1>9 DEF Answer, RequestError, DeadlockVictim, RequestFails, history
  <2> QED
    BY <1>2, <2>1, IdleType
<1> QED
  BY <1>3, <1>4, <1>5, <1>6, <1>7, <1>8, <1>9 DEF Ingest

LEMMA MInvInit == Assumptions /\ Init => MInv /\ CountInv /\ StoredInv /\ FailureSuperseded
<1> SUFFICES ASSUME Assumptions, Init
             PROVE  MInv /\ CountInv /\ StoredInv /\ FailureSuperseded
  OBVIOUS
<1>1. TInv
  BY TInvInit
<1>2. DateInv /\ LockInv
  BY DEF Init, Idle, DateInv, InWork, LockInv, Locked, HoldsAdvisoryLock
<1>3. MoveInv /\ NothingLeftBehind
  BY DEF Init, Idle, FoldIdle, MoveInv, Moved, NothingLeftBehind
<1>4. CountInv
  BY DEF Init, CountInv, On, Days
<1>5. StoredInv /\ FailureSuperseded
  BY DEF Init, StoredInv, FailureSuperseded
<1> QED
  BY <1>1, <1>2, <1>3, <1>4, <1>5 DEF MInv

\* A calm step keeps everything.
LEMMA CalmKeeps ==
    ASSUME DateInv, LockInv, MoveInv, NothingLeftBehind, Calm
    PROVE  DateInv' /\ LockInv' /\ MoveInv' /\ NothingLeftBehind'
<1>1. \A r \in Requests : req'[r] = req[r] \/ Rests(r)'
  BY DEF Calm
<1>2. \A r \in Requests : req'[r] = req[r] => Event(r)' = Event(r)
  BY DEF Event
<1>3. DateInv'
  BY <1>1, <1>2 DEF Calm, DateInv, InWork, Rests
<1>4. FailedRows' = FailedRows /\ HasApplied' = HasApplied
  BY DEF Calm, FailedRows, HasApplied
<1>5. \A r \in Requests : Locked(r)'
  BY <1>1, <1>2, <1>4 DEF LockInv, Locked, Rests
<1>6. \A r \in Requests : HoldsAdvisoryLock(r)' => HoldsAdvisoryLock(r)
  BY <1>1, <1>2 DEF HoldsAdvisoryLock, Rests, Supersedes
<1>7. LockInv'
  BY <1>5, <1>6 DEF LockInv
<1>8. MoveInv'
  BY <1>1 DEF Calm, MoveInv, Moved, On, ClearHoldsWatermark, Rests
<1>9. NothingLeftBehind'
  BY DEF Calm, NothingLeftBehind
<1> QED
  BY <1>3, <1>7, <1>8, <1>9

\* So does a request that goes on with its event, if what it takes was free.
LEMMA AdvanceKeeps ==
    ASSUME Assumptions, MInv, NEW r \in Requests, NEW pc \in {"lock", "decide", "insert"},
           Advances(r, pc),
           req'[r].received \in Nat,
           Event(r).day + RawDays > req'[r].received, today <= req'[r].received + 1,
           pc \in {"lock", "decide"} => Supersedes(Event(r)),
           \/ req'[r].rows = {} /\ (pc = "insert" => Event(r).name # "Applied")
           \/ /\ pc = "insert" /\ req'[r].rows = FailedRows /\ Event(r).name = "Applied"
              /\ \A f \in Folders : fold[f].moved \cap FailedRows = {},
           pc = "insert" /\ Event(r).name = "Failed" => ~HasApplied,
           \/ HoldsAdvisoryLock(r)
           \/ pc = "lock" \/ ~Supersedes(Event(r))
           \/ \A p \in Requests \ {r} : ~HoldsAdvisoryLock(p)
    PROVE  DateInv' /\ LockInv' /\ MoveInv' /\ NothingLeftBehind'
<1>1. \A p \in Requests : Event(p)' = Event(p) /\ (p # r => req'[p] = req[p])
  BY DEF Advances, Event
<1>2. DateInv'
  BY <1>1 DEF Advances, MInv, DateInv, InWork
<1>3. FailedRows' = FailedRows /\ HasApplied' = HasApplied
  BY DEF Advances, FailedRows, HasApplied
<1>4. \A p \in Requests : Locked(p)'
  <2>1. Locked(r)'
    BY <1>1, <1>3 DEF Advances, Locked
  <2>2. \A p \in Requests \ {r} : Locked(p)'
    BY <1>1, <1>3 DEF MInv, LockInv, Locked
  <2> QED
    BY <2>1, <2>2
<1>5. \A p \in Requests \ {r} : HoldsAdvisoryLock(p)' => HoldsAdvisoryLock(p)
  BY <1>1 DEF HoldsAdvisoryLock, Supersedes
<1>6. HoldsAdvisoryLock(r)' => \A p \in Requests \ {r} : ~HoldsAdvisoryLock(p)
  <2>1. HoldsAdvisoryLock(r)' => pc # "lock" /\ Supersedes(Event(r))
    BY <1>1 DEF Advances, HoldsAdvisoryLock, Supersedes
  <2>2. HoldsAdvisoryLock(r) => \A p \in Requests \ {r} : ~HoldsAdvisoryLock(p)
    BY DEF MInv, LockInv
  <2> QED
    BY <2>1, <2>2
<1>7. LockInv'
  BY <1>4, <1>5, <1>6 DEF MInv, LockInv
<1>8. MoveInv'
  BY <1>1 DEF Advances, MInv, MoveInv, Moved, On, ClearHoldsWatermark
<1>9. NothingLeftBehind'
  BY DEF Advances, MInv, NothingLeftBehind
<1> QED
  BY <1>2, <1>7, <1>8, <1>9

\* What a request is about to store is not behind any fold.
LEMMA InsertFacts ==
    ASSUME Assumptions, MInv, NEW r \in Requests, Insert(r)
    PROVE  /\ req[r].batch # {}
           /\ Event(r) \in Events /\ Event(r).name \in Names /\ Event(r).day \in Nat
           /\ Event(r).day >= foldedBefore
           /\ \A f \in Folders : Event(r).day >= fold[f].cutoff
           /\ \A f \in Folders : fold[f].pc = "moved" => Event(r).day > fold[f].day
           /\ req'[r].pc = "judge" /\ req'[r].rows = {}
           /\ \A p \in Requests \ {r} : req'[p] = req[p] /\ Event(p)' = Event(p)
           /\ raw' = (raw \ req[r].rows) \cup {Event(r)}
           /\ kept' = (kept \ req[r].rows) \cup {Event(r)}
           /\ stored' = stored \cup {Event(r)}
           /\ UNCHANGED <<today, counts, foldedBefore, fold, clear>>
<1>1. req[r].pc = "insert" /\ InWork(r) /\ req[r].batch # {}
  BY DEF Insert, InWork, MInv, TInv, Working
<1>2. Event(r) \in Events /\ Event(r).name \in Names /\ Event(r).day \in Nat
  BY <1>1, EventType DEF MInv
<1>3. /\ today \in Nat /\ req[r].received \in Nat /\ RawDays \in Nat /\ foldedBefore \in Nat
      /\ foldedBefore + RawDays <= today
  BY DEF MInv, TInv, TypeOK, Times, Days, Assumptions, WindowAssumption
<1>4. Event(r).day + RawDays >= today
  BY <1>1, <1>2, <1>3 DEF MInv, DateInv
<1>5. \A f \in Folders : /\ fold[f].cutoff + RawDays <= today /\ fold[f].cutoff \in Nat
                         /\ fold[f].day \in Nat
                         /\ fold[f].pc = "moved" => fold[f].day < fold[f].cutoff
  BY DEF MInv, TInv, TypeOK, Times, Working, Days
<1>6. /\ Event(r).day >= foldedBefore
      /\ \A f \in Folders : /\ Event(r).day >= fold[f].cutoff
                            /\ fold[f].pc = "moved" => Event(r).day > fold[f].day
  BY <1>2, <1>3, <1>4, <1>5
<1>7. /\ req' = [req EXCEPT ![r] = NextEvent(r)]
      /\ NextEvent(r).pc = "judge" /\ NextEvent(r).rows = {}
  BY <1>1, NextEventType DEF Insert, MInv
<1>8. /\ req'[r].pc = "judge" /\ req'[r].rows = {}
      /\ \A p \in Requests \ {r} : req'[p] = req[p] /\ Event(p)' = Event(p)
  BY <1>7 DEF MInv, TInv, TypeOK, Event
<1> QED
  BY <1>1, <1>2, <1>6, <1>8 DEF Insert

LEMMA InsertKeeps ==
    ASSUME Assumptions, MInv, NEW r \in Requests, Insert(r)
    PROVE  DateInv' /\ LockInv' /\ MoveInv' /\ NothingLeftBehind'
<1> DEFINE e == Event(r)
<1>1. /\ req[r].pc = "insert"
      /\ e \in Events /\ e.name \in Names /\ e.day \in Nat /\ e.day >= foldedBefore
      /\ \A f \in Folders : fold[f].pc = "moved" => e.day > fold[f].day
      /\ req'[r].pc = "judge" /\ req'[r].rows = {}
      /\ \A p \in Requests \ {r} : req'[p] = req[p] /\ Event(p)' = Event(p)
      /\ raw' = (raw \ req[r].rows) \cup {e}
      /\ UNCHANGED <<today, foldedBefore, fold, clear>>
  BY InsertFacts DEF Insert
<1>2. DateInv'
  BY <1>1 DEF MInv, DateInv, InWork
<1>3. \A p \in Requests \ {r} : HoldsAdvisoryLock(p)' => HoldsAdvisoryLock(p)
  BY <1>1 DEF HoldsAdvisoryLock, Supersedes
<1>4. ~HoldsAdvisoryLock(r)'
  BY <1>1 DEF HoldsAdvisoryLock
\* an event that supersedes is stored under the lock, and no other request has it
<1>5. ASSUME NEW p \in Requests \ {r} PROVE Locked(p)'
  <2>1. Locked(p)
    BY DEF MInv, LockInv
  <2>2. CASE HoldsAdvisoryLock(p)
    <3>1. ~HoldsAdvisoryLock(r)
      BY <2>2 DEF MInv, LockInv
    <3>2. e.name = "Active" /\ req[r].rows = {}
      BY <1>1, <3>1 DEF HoldsAdvisoryLock, Supersedes, Names, MInv, LockInv, Locked
    <3>3. FailedRows' = FailedRows /\ HasApplied' = HasApplied
      BY <1>1, <3>2 DEF FailedRows, HasApplied
    <3> QED
      BY <1>1, <2>1, <3>3 DEF Locked
  <2>3. CASE ~HoldsAdvisoryLock(p)
    <3>1. req[p].pc = "insert" => Event(p).name \notin {"Failed", "Applied"}
      BY <2>3 DEF HoldsAdvisoryLock, Supersedes
    <3>2. req[p].rows = {}
      BY <2>1, <3>1 DEF Locked
    <3> QED
      BY <1>1, <2>1, <3>1, <3>2 DEF Locked
  <2> QED
    BY <2>2, <2>3
<1>6. Locked(r)'
  BY <1>1 DEF Locked
<1>7. LockInv'
  BY <1>3, <1>4, <1>5, <1>6 DEF MInv, LockInv
<1>8. ASSUME NEW f \in Folders PROVE Moved(f)'
  <2>1. Moved(f) /\ (fold[f].pc = "moved" => fold[f].day \in Nat)
    BY DEF MInv, MoveInv, TInv, TypeOK, Days
  <2>2. fold[f].pc = "moved" => On(raw', fold[f].day) = On(raw, fold[f].day)
    BY <1>1, <2>1 DEF Moved, On
  <2>3. fold[f].pc = "moved" => \A o \in raw' : o.day >= fold[f].day
    BY <1>1, <2>1 DEF Moved
  <2>4. \A p \in Requests : fold[f].moved \cap req'[p].rows = {}
    BY <1>1, <2>1 DEF Moved
  <2> QED
    BY <1>1, <2>1, <2>2, <2>3, <2>4 DEF Moved, On, ClearHoldsWatermark
<1>9. NothingLeftBehind'
  BY <1>1 DEF MInv, NothingLeftBehind
<1> QED
  BY <1>2, <1>7, <1>8, <1>9 DEF MoveInv

\* The rows a fold would take next are those of the earliest day there is.
LEMMA NextRowsAreADay ==
    ASSUME Assumptions, MInv, NEW f \in Folders, NEW some \in NextRows(f)
    PROVE  /\ some \in raw /\ some.day \in Nat
           /\ foldedBefore <= some.day /\ some.day < fold[f].cutoff
           /\ NextRows(f) = On(raw, some.day)
           /\ \A e \in raw : e.day >= some.day
<1>1. /\ \A e \in raw : e.day \in Nat /\ e.day >= foldedBefore
      /\ foldedBefore \in Nat /\ fold[f].cutoff \in Nat
  BY EventsType DEF MInv, TInv, TypeOK, NothingLeftBehind, Days
<1>2. some \in Unfolded(f) /\ \A o \in Unfolded(f) : some.day <= o.day
  BY DEF NextRows
<1>3. some \in raw /\ some.day < fold[f].cutoff /\ some.day \in Nat /\ foldedBefore <= some.day
  BY <1>1, <1>2 DEF Unfolded
<1>4. \A e \in raw : e.day >= some.day
  BY <1>1, <1>2, <1>3 DEF Unfolded
<1>5. NextRows(f) \subseteq On(raw, some.day)
  <2>1. ASSUME NEW e \in NextRows(f)
        PROVE  e \in raw /\ e.day = some.day
    <3>1. e \in Unfolded(f) /\ e \in raw /\ e.day <= some.day
      BY <1>2 DEF NextRows, Unfolded
    <3> QED
      BY <1>1, <1>3, <1>4, <3>1
  <2> QED
    BY <2>1 DEF On
<1>6. On(raw, some.day) \subseteq NextRows(f)
  BY <1>1, <1>2, <1>3 DEF On, NextRows, Unfolded
<1> QED
  BY <1>3, <1>4, <1>5, <1>6

\* What the folds leave as it is.
LEMMA FoldLeaves ==
    ASSUME NEW f \in Folders, Fold(f)
    PROVE  /\ UNCHANGED <<today, req, clear, kept, stored>>
           /\ StartFold(f) \/ MoveDay(f) \/ FoldFails(f) => UNCHANGED <<raw, counts, foldedBefore>>
BY DEF Fold, StartFold, MoveDay, CommitDay, NothingToFold, FoldFails, device, bounds, history

\* Who holds the watermark keeps it from the others.
LEMMA FoldIsAlone ==
    ASSUME NEW f \in Folders, fold[f].pc = "lock", ~Blocked(f)
    PROVE  /\ \A g \in Folders \ {f} : fold[g].pc # "moved"
           /\ ~ClearHoldsWatermark
           /\ \A r \in Requests : NextRows(f) \cap req[r].rows = {}
BY DEF Blocked, Processes, WaitsFor, FoldWaitsFor, FoldHoldsWatermark

\* A day is committed: it was the earliest, and all of it goes.
LEMMA CommitFacts ==
    ASSUME Assumptions, MInv, NEW f \in Folders, CommitDay(f)
    PROVE  /\ fold[f].day \in Days /\ fold[f].day \in Nat /\ foldedBefore \in Nat
           /\ fold[f].moved = On(raw, fold[f].day)
           /\ fold[f].day >= foldedBefore
           /\ foldedBefore' = fold[f].day + 1
           /\ raw' = raw \ fold[f].moved
           /\ \A e \in raw : e.day \in Nat /\ e.day >= fold[f].day
           /\ \A e \in raw' : e \in raw /\ e.day >= fold[f].day + 1
           /\ \A r \in Requests : fold[f].moved \cap req[r].rows = {}
           /\ fold'[f].pc = "lock" /\ fold'[f].moved = {}
           /\ \A g \in Folders \ {f} : fold'[g] = fold[g] /\ fold[g].pc # "moved"
           /\ counts' = [counts EXCEPT ![fold[f].day] =
                           [n \in Names |-> @[n] + CountOf(fold[f].moved, n)]]
           /\ UNCHANGED <<today, req, clear, kept, stored>>
<1>1. /\ fold[f].pc = "moved" /\ Moved(f)
      /\ fold[f].day \in Days /\ foldedBefore \in Days
      /\ \A e \in raw : e.day \in Nat
      /\ fold \in [Folders -> FoldType]
  BY EventsType DEF CommitDay, MInv, MoveInv, TInv, TypeOK, FoldType
<1>2. fold[f].day \in Nat /\ foldedBefore \in Nat
  BY <1>1 DEF Days
<1>3. foldedBefore' = fold[f].day + 1
  BY <1>1, <1>2 DEF CommitDay, Greatest, Moved
<1>4. \A e \in raw' : e \in raw /\ e.day >= fold[f].day + 1
  BY <1>1, <1>2 DEF CommitDay, Moved, On
<1>5. /\ fold' = [fold EXCEPT ![f] = [FoldIdle EXCEPT !.pc = "lock", !.cutoff = fold[f].cutoff]]
      /\ raw' = raw \ fold[f].moved
      /\ counts' = [counts EXCEPT ![fold[f].day] =
                      [n \in Names |-> @[n] + CountOf(fold[f].moved, n)]]
  BY DEF CommitDay
<1>6. /\ fold'[f].pc = "lock" /\ fold'[f].moved = {}
      /\ \A g \in Folders \ {f} : fold'[g] = fold[g] /\ fold[g].pc # "moved"
  BY <1>1, <1>5 DEF Moved, FoldIdle
<1> QED
  BY <1>1, <1>2, <1>3, <1>4, <1>5, <1>6, FoldLeaves DEF Moved, Fold

LEMMA FoldKeeps ==
    ASSUME Assumptions, MInv, NEW f \in Folders, Fold(f)
    PROVE  DateInv' /\ LockInv' /\ MoveInv' /\ NothingLeftBehind'
<1>1. UNCHANGED <<today, req, clear>>
  BY FoldLeaves
<1>2. fold \in [Folders -> FoldType] /\ FoldIdle \in FoldType
  BY IdleType DEF MInv, TInv, TypeOK, FoldType
<1>3. \A r \in Requests : Event(r)' = Event(r)
  BY <1>1 DEF Event
<1>4. DateInv'
  BY <1>1, <1>3 DEF MInv, DateInv, InWork
<1>5. ASSUME UNCHANGED raw PROVE LockInv'
  BY <1>1, <1>3, <1>5 DEF MInv, LockInv, Locked, HoldsAdvisoryLock, FailedRows, HasApplied
<1>6. ASSUME UNCHANGED <<raw, foldedBefore>>,
             \A g \in Folders : fold'[g] = fold[g] \/ (fold'[g].pc # "moved" /\ fold'[g].moved = {})
      PROVE  MoveInv' /\ NothingLeftBehind'
  <2>1. \A g \in Folders : fold'[g].pc = "moved" => fold'[g] = fold[g]
    BY <1>6
  <2>2. ASSUME NEW g \in Folders PROVE Moved(g)'
    <3>1. Moved(g)
      BY DEF MInv, MoveInv
    <3>2. CASE fold'[g] = fold[g]
      BY <1>1, <1>6, <2>1, <3>1, <3>2 DEF Moved, On, ClearHoldsWatermark
    <3>3. CASE fold'[g].pc # "moved" /\ fold'[g].moved = {}
      BY <3>3 DEF Moved
    <3> QED
      BY <1>6, <3>2, <3>3
  <2> QED
    BY <1>6, <2>2 DEF MInv, MoveInv, NothingLeftBehind
<1>7. CASE StartFold(f) \/ FoldFails(f)
  <2>1. UNCHANGED <<raw, foldedBefore>>
    BY <1>7, FoldLeaves
  <2>2. fold[f].pc # "moved" \/ FoldFails(f)
    BY <1>7 DEF StartFold
  <2>3. fold[f].pc # "moved" => fold[f].moved = {}
    BY DEF MInv, MoveInv, Moved
  <2>4. fold'[f].pc # "moved" /\ fold'[f].moved = {}
    BY <1>2, <1>7, <2>3, IdleType DEF StartFold, FoldFails, FoldType
  <2>5. \A g \in Folders \ {f} : fold'[g] = fold[g]
    BY <1>2, <1>7 DEF StartFold, FoldFails
  <2> QED
    BY <1>4, <1>5, <1>6, <2>1, <2>4, <2>5
<1>8. CASE NothingToFold(f)
  <2>1. /\ UNCHANGED raw /\ fold' = [fold EXCEPT ![f] = FoldIdle]
        /\ NextRows(f) = {} /\ foldedBefore' = Greatest(foldedBefore, fold[f].cutoff)
        /\ fold[f].pc = "lock" /\ ~Blocked(f)
    BY <1>8 DEF NothingToFold
  <2>2. \A g \in Folders : fold[g].pc # "moved" /\ fold[g].moved = {}
    BY <2>1, FoldIsAlone DEF MInv, MoveInv, Moved
  <2>3. \A g \in Folders : fold'[g].pc # "moved" /\ fold'[g].moved = {}
    BY <1>2, <2>1, <2>2, IdleType
  <2>4. Unfolded(f) = {}
    BY <2>1, NextRowsExist DEF MInv, TInv, TypeOK
  <2>5. \A e \in raw : e.day \in Nat /\ e.day >= foldedBefore
    BY EventsType DEF MInv, TInv, TypeOK, NothingLeftBehind
  <2>6. foldedBefore \in Nat /\ fold[f].cutoff \in Nat
    BY DEF MInv, TInv, TypeOK, Days
  <2>7. \A e \in raw : e.day >= fold[f].cutoff
    BY <2>4, <2>5, <2>6 DEF Unfolded
  <2>8. NothingLeftBehind'
    BY <2>1, <2>5, <2>7 DEF NothingLeftBehind, Greatest
  <2>9. MoveInv'
    BY <2>3 DEF MoveInv, Moved
  <2> QED
    BY <1>4, <1>5, <2>1, <2>8, <2>9
<1>9. CASE MoveDay(f)
  <2> DEFINE some == CHOOSE e \in NextRows(f) : TRUE
  <2>1. some \in NextRows(f)
    BY <1>9 DEF MoveDay
  <2>2. /\ foldedBefore <= some.day /\ some.day < fold[f].cutoff /\ some.day \in Nat
        /\ NextRows(f) = On(raw, some.day)
        /\ \A e \in raw : e.day >= some.day
    BY <2>1, NextRowsAreADay
  <2>3. fold' = [fold EXCEPT ![f].pc = "moved", ![f].moved = NextRows(f), ![f].day = some.day]
    BY <1>9 DEF MoveDay
  <2> HIDE DEF some
  <2>4. /\ fold'[f].pc = "moved" /\ fold'[f].moved = NextRows(f) /\ fold'[f].day = some.day
        /\ \A g \in Folders \ {f} : fold'[g] = fold[g]
    BY <1>2, <2>3 DEF FoldType
  <2>5. UNCHANGED <<raw, foldedBefore>>
    BY <1>9, FoldLeaves
  <2>6. /\ \A g \in Folders \ {f} : fold[g].pc # "moved"
        /\ ~ClearHoldsWatermark
        /\ \A r \in Requests : NextRows(f) \cap req[r].rows = {}
    BY <1>9, FoldIsAlone DEF MoveDay
  <2>7. Moved(f)'
    BY <1>1, <2>2, <2>4, <2>5, <2>6 DEF Moved, On, ClearHoldsWatermark
  <2>8. \A g \in Folders \ {f} : Moved(g)'
    BY <1>1, <2>4, <2>6 DEF MInv, MoveInv, Moved
  <2> QED
    BY <1>4, <1>5, <2>5, <2>7, <2>8 DEF MoveInv, MInv, NothingLeftBehind
<1>10. CASE CommitDay(f)
  <2>1. /\ raw' = raw \ fold[f].moved
        /\ \A e \in raw' : e \in raw /\ e.day >= fold[f].day + 1
        /\ foldedBefore' = fold[f].day + 1
        /\ \A r \in Requests : fold[f].moved \cap req[r].rows = {}
        /\ fold'[f].pc = "lock" /\ fold'[f].moved = {}
        /\ \A g \in Folders \ {f} : fold'[g] = fold[g] /\ fold[g].pc # "moved"
    BY <1>10, CommitFacts
  <2>2. FailedRows' \subseteq FailedRows /\ (HasApplied' => HasApplied)
    BY <2>1 DEF FailedRows, HasApplied
  <2>3. \A r \in Requests : Locked(r)'
    <3>1. \A r \in Requests : req[r].rows \subseteq FailedRows'
      BY <2>1 DEF MInv, LockInv, Locked, FailedRows
    <3> QED
      BY <1>1, <1>3, <2>2, <3>1 DEF MInv, LockInv, Locked
  <2>4. LockInv'
    BY <1>1, <1>3, <2>3 DEF MInv, LockInv, HoldsAdvisoryLock
  <2>5. MoveInv'
    BY <1>1, <2>1 DEF MInv, MoveInv, Moved
  <2>6. NothingLeftBehind'
    BY <2>1 DEF NothingLeftBehind
  <2> QED
    BY <1>4, <2>4, <2>5, <2>6
<1> QED
  BY <1>7, <1>8, <1>9, <1>10 DEF Fold

\* The administrator's request.
LEMMA ClearKeeps ==
    ASSUME Assumptions, MInv, LockForClear \/ CommitClear
    PROVE  DateInv' /\ LockInv' /\ MoveInv' /\ NothingLeftBehind'
<1>1. UNCHANGED <<today, req, foldedBefore, fold>> /\ \A r \in Requests : Event(r)' = Event(r)
  BY DEF LockForClear, CommitClear, Event
<1>2. DateInv'
  BY <1>1 DEF MInv, DateInv, InWork
<1>3. CASE LockForClear
  <2>1. UNCHANGED raw
    BY <1>3 DEF LockForClear
  <2>2. clear = "watermark" => \A f \in Folders : fold[f].pc # "moved"
    BY <1>3 DEF LockForClear, Blocked, Processes, WaitsFor, ClearWaitsFor, FoldHoldsWatermark
  <2>3. clear # "watermark" => ClearHoldsWatermark
    BY <1>3 DEF LockForClear, ClearHoldsWatermark
  <2>4. \A f \in Folders : fold[f].pc # "moved"
    BY <2>2, <2>3 DEF MInv, MoveInv, Moved
  <2>5. MoveInv'
    BY <1>1, <2>4 DEF MInv, MoveInv, Moved
  <2> QED
    BY <1>1, <1>2, <2>1, <2>5 DEF MInv, LockInv, Locked, HoldsAdvisoryLock, FailedRows, HasApplied,
                                   NothingLeftBehind
<1>4. CASE CommitClear
  <2>1. /\ raw' = {}
        /\ \A r \in Requests : req[r].rows = {}
        /\ \A f \in Folders : fold[f].moved = {}
    BY <1>4 DEF CommitClear, Blocked, Processes, WaitsFor, ClearWaitsFor
  <2>2. \A f \in Folders : fold[f].pc # "moved"
    BY <1>4 DEF CommitClear, MInv, MoveInv, Moved, ClearHoldsWatermark
  <2>3. MoveInv' /\ NothingLeftBehind'
    BY <1>1, <2>1, <2>2 DEF MoveInv, Moved, NothingLeftBehind
  <2>4. FailedRows' = {} /\ ~HasApplied'
    BY <2>1 DEF FailedRows, HasApplied
  <2>5. LockInv'
    BY <1>1, <2>1, <2>4 DEF MInv, LockInv, Locked, HoldsAdvisoryLock
  <2> QED
    BY <1>2, <2>3, <2>5
<1> QED
  BY <1>3, <1>4

LEMMA TickKeeps ==
    ASSUME Assumptions, MInv, Tick
    PROVE  DateInv' /\ LockInv' /\ MoveInv' /\ NothingLeftBehind'
<1>1. UNCHANGED <<raw, req, foldedBefore, fold, clear>> /\ \A r \in Requests : Event(r)' = Event(r)
  BY DEF Tick, Event
<1>2. DateInv'
  <2>1. \A r \in Requests : InWork(r) => req[r].received = today
    BY DEF Tick, InWork
  <2>2. today' = today + 1 /\ today \in Nat
    BY DEF Tick, MInv, TInv, TypeOK, Days
  <2> QED
    BY <1>1, <2>1, <2>2 DEF MInv, DateInv, InWork
<1>3. LockInv'
  BY <1>1 DEF MInv, LockInv, Locked, HoldsAdvisoryLock, FailedRows, HasApplied
<1>4. MoveInv' /\ NothingLeftBehind'
  BY <1>1 DEF MInv, MoveInv, Moved, On, ClearHoldsWatermark, NothingLeftBehind
<1> QED
  BY <1>2, <1>3, <1>4

LEMMA RequestKeeps ==
    ASSUME Assumptions, MInv, NEW r \in Requests, Flush(r) \/ Ingest(r)
    PROVE  DateInv' /\ LockInv' /\ MoveInv' /\ NothingLeftBehind'
<1>0. /\ TInv /\ LockInv /\ DateInv /\ MoveInv /\ NothingLeftBehind
      /\ today \in Nat /\ RawDays \in Nat /\ req[r].received \in Nat /\ RawDays <= today
  BY DEF MInv, TInv, TypeOK, Times, Days, Assumptions, WindowAssumption
<1>1. CASE Calm
  BY <1>0, <1>1, CalmKeeps
<1>2. CASE Insert(r)
  BY <1>2, InsertKeeps
<1>3. CASE /\ Advances(r, IF Supersedes(Event(r)) THEN "lock" ELSE "insert")
           /\ req'[r].received = today /\ req'[r].rows = req[r].rows
           /\ req[r].pc = "judge" /\ req[r].batch # {}
           /\ ~IsExpired(Event(r), today)
  <2> DEFINE pc == IF Supersedes(Event(r)) THEN "lock" ELSE "insert"
  <2>1. Event(r).day + RawDays > today
    <3>1. Event(r).day \in Nat
      BY <1>0, <1>3, EventType
    <3> QED
      BY <1>0, <1>3, <3>1 DEF IsExpired, FoldCutoff
  <2>2. req'[r].rows = {} /\ (pc = "insert" => Event(r).name \notin {"Failed", "Applied"})
    BY <1>0, <1>3 DEF LockInv, Locked, Supersedes
  <2>3. pc \in {"lock", "insert"} /\ (pc = "lock" <=> Supersedes(Event(r)))
    OBVIOUS
  <2> HIDE DEF pc
  <2> QED
    BY <1>0, <1>3, <2>1, <2>2, <2>3, AdvanceKeeps DEF pc
<1>4. CASE /\ Advances(r, "decide")
           /\ req'[r].received = req[r].received /\ req'[r].rows = req[r].rows
           /\ req[r].pc = "lock"
           /\ \A p \in Requests \ {r} : ~HoldsAdvisoryLock(p)
  <2>1. /\ Supersedes(Event(r)) /\ req'[r].rows = {}
        /\ Event(r).day + RawDays > req[r].received /\ today <= req[r].received + 1
    BY <1>0, <1>4 DEF LockInv, Locked, DateInv, InWork
  <2> QED
    BY <1>0, <1>4, <2>1, AdvanceKeeps
<1>5. CASE /\ Advances(r, "insert")
           /\ req'[r].received = req[r].received /\ req'[r].rows = req[r].rows
           /\ req[r].pc = "decide" /\ Event(r).name = "Failed" /\ ~HasApplied
  <2>1. /\ HoldsAdvisoryLock(r) /\ req'[r].rows = {}
        /\ Event(r).day + RawDays > req[r].received /\ today <= req[r].received + 1
    BY <1>0, <1>5 DEF LockInv, Locked, DateInv, InWork, HoldsAdvisoryLock, Supersedes
  <2> QED
    BY <1>0, <1>5, <2>1, AdvanceKeeps
<1>6. CASE /\ Advances(r, "insert")
           /\ req'[r].received = req[r].received /\ req'[r].rows = FailedRows
           /\ req[r].pc = "decide" /\ Event(r).name = "Applied"
           /\ \A f \in Folders : fold[f].moved \cap FailedRows = {}
  <2>1. /\ HoldsAdvisoryLock(r)
        /\ Event(r).day + RawDays > req[r].received /\ today <= req[r].received + 1
    BY <1>0, <1>6 DEF DateInv, InWork, HoldsAdvisoryLock, Supersedes
  <2> QED
    BY <1>0, <1>6, <2>1, AdvanceKeeps
<1> QED
  BY <1>0, <1>1, <1>2, <1>3, <1>4, <1>5, <1>6, RequestSteps

LEMMA DeviceIsCalm ==
    ASSUME Enqueue \/ GiveUp \/ BeginClear \/ UNCHANGED vars
    PROVE  Calm
BY DEF Enqueue, GiveUp, BeginClear, vars, device, bounds, history, Calm

LEMMA MInvStep == Assumptions /\ MInv /\ [Next]_vars => MInv'
<1> SUFFICES ASSUME Assumptions, MInv, [Next]_vars PROVE MInv'
  OBVIOUS
<1>1. TInv'
  BY TInvStep DEF MInv
<1>2. DateInv' /\ LockInv' /\ MoveInv' /\ NothingLeftBehind'
  <2>1. CASE Enqueue \/ GiveUp \/ BeginClear \/ UNCHANGED vars
    BY <2>1, DeviceIsCalm, CalmKeeps DEF MInv
  <2>2. CASE \E r \in Requests : Flush(r) \/ Ingest(r)
    BY <2>2, RequestKeeps
  <2>3. CASE \E f \in Folders : Fold(f)
    BY <2>3, FoldKeeps
  <2>4. CASE LockForClear \/ CommitClear
    BY <2>4, ClearKeeps
  <2>5. CASE Tick
    BY <2>5, TickKeeps
  <2> QED
    BY <2>1, <2>2, <2>3, <2>4, <2>5 DEF Next
<1> QED
  BY <1>1, <1>2 DEF MInv

-----------------------------------------------------------------------------
(* the counts                                                               *)

LEMMA CountInvStep == Assumptions /\ MInv /\ CountInv /\ [Next]_vars => CountInv'
<1> SUFFICES ASSUME Assumptions, MInv, CountInv, [Next]_vars PROVE CountInv'
  OBVIOUS
<1>1. ASSUME UNCHANGED <<raw, kept, counts, foldedBefore>> PROVE CountInv'
  BY <1>1 DEF CountInv, On
<1>2. CASE Enqueue \/ GiveUp \/ BeginClear \/ UNCHANGED vars
  BY <1>1, <1>2, DeviceIsCalm DEF Calm
<1>3. ASSUME NEW r \in Requests, Insert(r) PROVE CountInv'
  <2>1. /\ Event(r).day \in Nat /\ Event(r).day >= foldedBefore /\ foldedBefore \in Nat
        /\ raw' = (raw \ req[r].rows) \cup {Event(r)}
        /\ kept' = (kept \ req[r].rows) \cup {Event(r)}
        /\ UNCHANGED <<counts, foldedBefore>>
    BY <1>3, InsertFacts DEF MInv, TInv, TypeOK, Days
  <2>2. \A e \in req[r].rows : e \in raw /\ e.day >= foldedBefore
    BY DEF MInv, LockInv, Locked, FailedRows, NothingLeftBehind
  <2>3. ASSUME NEW d \in Days, d < foldedBefore
        PROVE  On(raw', d) = On(raw, d) /\ On(kept', d) = On(kept, d)
    <3>1. d \in Nat /\ Event(r).day # d /\ \A e \in req[r].rows : e.day # d
      <4>1. d \in Nat
        BY DEF Days
      <4>2. \A e \in req[r].rows : e.day \in Nat
        BY EventsType DEF MInv, TInv, TypeOK
      <4> QED
        BY <2>1, <2>2, <2>3, <4>1, <4>2
    <3> QED
      BY <2>1, <3>1 DEF On
  <2>4. ASSUME NEW d \in Days, On(raw, d) = On(kept, d)
        PROVE  On(raw', d) = On(kept', d)
    BY <2>1, <2>4 DEF On
  <2> QED
    BY <2>1, <2>3, <2>4 DEF CountInv
<1>4. CASE \E r \in Requests : Flush(r) \/ Ingest(r)
  <2>1. PICK r \in Requests : Flush(r) \/ Ingest(r)
    BY <1>4
  <2>2. Insert(r) \/ Calm \/ \E pc : Advances(r, pc)
    BY <2>1, RequestSteps DEF MInv
  <2> QED
    BY <1>1, <1>3, <2>2 DEF Calm, Advances
<1>5. ASSUME NEW f \in Folders, Fold(f) PROVE CountInv'
  <2>1. CASE StartFold(f) \/ MoveDay(f) \/ FoldFails(f)
    BY <1>1, <1>5, <2>1, FoldLeaves
  <2>2. CASE CommitDay(f)
    <3> DEFINE day == fold[f].day
    <3>1. /\ day \in Days /\ day \in Nat /\ foldedBefore \in Nat
          /\ fold[f].moved = On(raw, day)
          /\ day >= foldedBefore
          /\ foldedBefore' = day + 1
          /\ raw' = raw \ fold[f].moved
          /\ \A e \in raw : e.day \in Nat /\ e.day >= day
          /\ counts' = [counts EXCEPT ![day] = [n \in Names |-> @[n] + CountOf(fold[f].moved, n)]]
          /\ UNCHANGED kept
      BY <2>2, CommitFacts
    <3>2. counts \in [Days -> [Names -> Nat]] /\ kept \subseteq Events
      BY DEF MInv, TInv, TypeOK
    <3>3. ASSUME NEW d \in Days, d < foldedBefore'
          PROVE  On(raw', d) = {} /\ \A n \in Names : counts'[d][n] = CountOf(On(kept', d), n)
      <4>0. d \in Nat
        BY DEF Days
      <4>1. CASE d = day
        <5>1. On(raw', d) = {} /\ On(raw, d) = On(kept, d) /\ \A n \in Names : counts[d][n] = 0
          BY <3>1, <4>1 DEF On, CountInv
        <5>2. \A n \in Names : counts'[d][n] = counts[d][n] + CountOf(On(raw, d), n)
          BY <3>1, <3>2, <4>1
        <5>3. \A n \in Names : CountOf(On(raw, d), n) \in Nat
          BY CountOfType DEF On, MInv, TInv, TypeOK
        <5>4. On(kept', d) = On(raw, d)
          BY <3>1, <5>1 DEF On
        <5>5. \A n \in Names : counts'[d][n] = CountOf(On(raw, d), n)
          BY <5>1, <5>2, <5>3
        <5> QED
          BY <5>1, <5>4, <5>5
      <4>2. CASE d # day
        <5>1. d < day /\ On(raw, d) = {} /\ On(raw', d) = {}
          BY <3>1, <3>3, <4>0, <4>2 DEF On
        <5>2. counts'[d] = counts[d]
          BY <3>1, <3>2, <4>2
        <5>3. CASE d < foldedBefore
          BY <3>1, <5>1, <5>2, <5>3 DEF CountInv
        <5>4. CASE ~(d < foldedBefore)
          BY <3>1, <5>1, <5>2, <5>4, CountOfNone DEF CountInv
        <5> QED
          BY <5>3, <5>4
      <4> QED
        BY <4>1, <4>2
    <3>4. ASSUME NEW d \in Days, ~(d < foldedBefore')
          PROVE  On(raw', d) = On(kept', d) /\ \A n \in Names : counts'[d][n] = 0
      <4>1. d \in Nat /\ d # day /\ ~(d < foldedBefore)
        BY <3>1, <3>4 DEF Days
      <4>2. On(raw', d) = On(raw, d)
        BY <3>1, <4>1 DEF On
      <4>3. counts'[d] = counts[d]
        BY <3>1, <3>2, <4>1
      <4> QED
        BY <3>1, <4>1, <4>2, <4>3 DEF CountInv
    <3> QED
      BY <3>3, <3>4 DEF CountInv
  <2>3. CASE NothingToFold(f)
    <3>1. /\ UNCHANGED <<raw, counts, kept>> /\ NextRows(f) = {}
          /\ foldedBefore' = Greatest(foldedBefore, fold[f].cutoff)
          /\ foldedBefore \in Nat /\ fold[f].cutoff \in Nat
      BY <2>3 DEF NothingToFold, history, MInv, TInv, TypeOK, Days
    <3>2. Unfolded(f) = {}
      BY <3>1, NextRowsExist DEF MInv, TInv, TypeOK
    <3>3. ASSUME NEW d \in Days, d < foldedBefore', ~(d < foldedBefore)
          PROVE  On(raw, d) = {}
      BY <3>1, <3>2, <3>3 DEF On, Unfolded, Greatest, Days
    <3>4. ASSUME NEW d \in Days, d < foldedBefore', ~(d < foldedBefore)
          PROVE  \A n \in Names : counts[d][n] = CountOf(On(kept, d), n)
      BY <3>3, <3>4, CountOfNone DEF CountInv
    <3>5. \A d \in Days : d < foldedBefore => d < foldedBefore'
      BY <3>1 DEF Greatest, Days
    <3> QED
      BY <3>1, <3>3, <3>4, <3>5 DEF CountInv, On
  <2> QED
    BY <1>5, <2>1, <2>2, <2>3 DEF Fold
<1>6. CASE LockForClear \/ Tick
  BY <1>1, <1>6 DEF LockForClear, Tick, history
<1>7. CASE CommitClear
  <2>1. raw' = {} /\ kept' = {} /\ counts' = [d \in Days |-> [n \in Names |-> 0]]
    BY <1>7 DEF CommitClear
  <2>2. \A d \in Days : On(raw', d) = {} /\ On(kept', d) = {}
    BY <2>1 DEF On
  <2>3. \A d \in Days, n \in Names : counts'[d][n] = 0
    BY <2>1
  <2> QED
    BY <2>2, <2>3, CountOfNone DEF CountInv
<1> QED
  BY <1>2, <1>4, <1>5, <1>6, <1>7 DEF Next

-----------------------------------------------------------------------------
(* the failures that an applied event supersedes                            *)

LEMMA SupersededStep ==
    Assumptions /\ MInv /\ StoredInv /\ FailureSuperseded /\ [Next]_vars
        => StoredInv' /\ FailureSuperseded'
<1> SUFFICES ASSUME Assumptions, MInv, StoredInv, FailureSuperseded, [Next]_vars
             PROVE  StoredInv' /\ FailureSuperseded'
  OBVIOUS
<1>0. /\ raw \subseteq Events /\ stored \subseteq Events /\ foldedBefore \in Nat
      /\ \A e \in Events : e.day \in Nat
  BY EventsType DEF MInv, TInv, TypeOK, Days
<1>1. ASSUME UNCHANGED <<raw, stored, foldedBefore>> PROVE StoredInv' /\ FailureSuperseded'
  BY <1>1 DEF StoredInv, FailureSuperseded
<1>2. CASE Enqueue \/ GiveUp \/ BeginClear \/ UNCHANGED vars
  BY <1>1, <1>2, DeviceIsCalm DEF Calm
<1>3. ASSUME NEW r \in Requests, Insert(r) PROVE StoredInv' /\ FailureSuperseded'
  <2> DEFINE e == Event(r)
  <2>1. /\ e.day \in Nat /\ e.day >= foldedBefore
        /\ raw' = (raw \ req[r].rows) \cup {e} /\ stored' = stored \cup {e}
        /\ foldedBefore' = foldedBefore
        /\ req[r].pc = "insert"
    BY <1>3, InsertFacts DEF Insert
  <2>2. /\ req[r].rows # {} => e.name = "Applied"
        /\ req[r].rows \subseteq FailedRows
        /\ e.name = "Applied" => FailedRows \subseteq req[r].rows
        /\ e.name = "Failed" => ~HasApplied
    BY <2>1 DEF MInv, LockInv, Locked
  <2> HIDE DEF e
  <2>3. StoredInv'
    BY <2>1, <2>2 DEF StoredInv, FailedRows
  <2>4. ASSUME NEW f \in raw', NEW a \in stored', f.name = "Failed", a.name = "Applied"
        PROVE  f.day > a.day
    <3>1. CASE e.name = "Applied"
      BY <2>1, <2>2, <2>4, <3>1 DEF FailedRows
    <3>2. CASE e.name = "Failed"
      <4>1. a \in stored
        BY <2>1, <2>4, <3>2
      <4>2. a.day < foldedBefore
        BY <2>2, <2>4, <3>2, <4>1 DEF StoredInv, HasApplied
      <4>3. f \in raw \/ f = e
        BY <2>1
      <4>4. a.day \in Nat
        BY <1>0, <4>1
      <4> QED
        BY <1>0, <2>1, <2>4, <4>1, <4>2, <4>3, <4>4 DEF FailureSuperseded
    <3>3. CASE e.name \notin {"Applied", "Failed"}
      BY <2>1, <2>4, <3>3 DEF FailureSuperseded
    <3> QED
      BY <3>1, <3>2, <3>3
  <2> QED
    BY <2>3, <2>4 DEF FailureSuperseded
<1>4. CASE \E r \in Requests : Flush(r) \/ Ingest(r)
  <2>1. PICK r \in Requests : Flush(r) \/ Ingest(r)
    BY <1>4
  <2>2. Insert(r) \/ Calm \/ \E pc : Advances(r, pc)
    BY <2>1, RequestSteps DEF MInv
  <2> QED
    BY <1>1, <1>3, <2>2 DEF Calm, Advances
<1>5. ASSUME NEW f \in Folders, Fold(f) PROVE StoredInv' /\ FailureSuperseded'
  <2>1. CASE StartFold(f) \/ MoveDay(f) \/ FoldFails(f)
    BY <1>1, <1>5, <2>1, FoldLeaves
  <2>2. CASE CommitDay(f)
    <3>1. /\ fold[f].moved = On(raw, fold[f].day) /\ fold[f].day \in Nat
          /\ fold[f].day >= foldedBefore /\ foldedBefore' = fold[f].day + 1
          /\ raw' = raw \ fold[f].moved /\ stored' = stored
      BY <2>2, CommitFacts
    <3>2. StoredInv'
      <4> SUFFICES ASSUME NEW e \in stored, e.name = "Applied"
                   PROVE  e \in raw' \/ e.day < foldedBefore'
        BY <3>1 DEF StoredInv
      <4>1. e.day \in Nat /\ (e \in raw \/ e.day < foldedBefore)
        BY <1>0 DEF StoredInv
      <4> QED
        BY <1>0, <3>1, <4>1 DEF On
    <3> QED
      BY <3>1, <3>2 DEF FailureSuperseded
  <2>3. CASE NothingToFold(f)
    <3>1. /\ UNCHANGED <<raw, stored>>
          /\ foldedBefore' = Greatest(foldedBefore, fold[f].cutoff)
          /\ fold[f].cutoff \in Nat
      BY <2>3 DEF NothingToFold, history, MInv, TInv, TypeOK, Days
    <3>2. \A e \in stored : e.day < foldedBefore => e.day < foldedBefore'
      BY <1>0, <3>1 DEF Greatest
    <3> QED
      BY <3>1, <3>2 DEF StoredInv, FailureSuperseded
  <2> QED
    BY <1>5, <2>1, <2>2, <2>3 DEF Fold
<1>6. CASE LockForClear \/ Tick
  BY <1>1, <1>6 DEF LockForClear, Tick, history
<1>7. CASE CommitClear
  BY <1>7 DEF CommitClear, StoredInv, FailureSuperseded
<1> QED
  BY <1>2, <1>4, <1>5, <1>6, <1>7 DEF Next

-----------------------------------------------------------------------------
(* the folds and the circles                                                *)

\* A fold that has moved a day waits for nobody, and one that waits for the watermark
\* has nobody waiting for it.
LEMMA NoFoldInACircle == ASSUME Assumptions, MoveInv PROVE FoldNeverDeadlocks
<1> SUFFICES ASSUME NEW f \in Folders, InCircle(f) PROVE FALSE
  BY DEF FoldNeverDeadlocks
<1>0. /\ \A p \in Folders : p \notin Requests /\ p # "clear"
      /\ f \in Processes
  BY DEF Assumptions, ReportsAssumption, Processes
<1>1. PICK q \in Processes : WaitsFor(f, q)
  BY DEF InCircle, Blocked
<1>2. FoldWaitsFor(f, q)
  BY <1>0, <1>1 DEF WaitsFor
<1>3. fold[f].pc = "lock"
  BY <1>2 DEF FoldWaitsFor, MoveInv, Moved, ClearHoldsDeployment, ClearHoldsWatermark
<1>4. fold[f].moved = {} /\ ~FoldHoldsWatermark(f)
  BY <1>3 DEF MoveInv, Moved, FoldHoldsWatermark
<1>5. \A p \in Processes : ~WaitsFor(p, f)
  BY <1>0, <1>4 DEF WaitsFor, RequestWaitsFor, FoldWaitsFor, ClearWaitsFor
<1>6. \A w \in (Processes \ {f}) \cup {f} : \A p \in Processes :
        WaitsFor(w, p) => p \in Processes \ {f}
  BY <1>0, <1>5
<1>7. f \in Processes \ {f}
  <2> DEFINE ps == Processes \ {f}
  <2>1. ps \in SUBSET Processes
    OBVIOUS
  <2> HIDE DEF ps
  <2>2. (\A w \in ps \cup {f} : \A p \in Processes : WaitsFor(w, p) => p \in ps) => f \in ps
    BY <2>1 DEF InCircle
  <2> QED
    BY <1>6, <2>2 DEF ps
<1> QED
  BY <1>7

-----------------------------------------------------------------------------
(* the theorems                                                             *)

\* Days before the watermark hold no rows, and what is left in the counts is what was
\* kept, on every day.
LEMMA ExactCounts == ASSUME Assumptions, MInv, CountInv PROVE CountsAreExact
<1> SUFFICES ASSUME NEW d \in Days, NEW n \in Names
             PROVE  counts[d][n] + CountOf(On(raw, d), n) = CountOf(On(kept, d), n)
  BY DEF CountsAreExact
<1>1. CountOf(On(raw, d), n) \in Nat /\ CountOf(On(kept, d), n) \in Nat
  BY CountOfType DEF On, MInv, TInv, TypeOK
<1>2. CASE d < foldedBefore
  BY <1>1, <1>2, CountOfNone DEF CountInv
<1>3. CASE ~(d < foldedBefore)
  BY <1>1, <1>3 DEF CountInv
<1> QED
  BY <1>2, <1>3

IInv == MInv /\ CountInv /\ StoredInv /\ FailureSuperseded

LEMMA IInvInit == Assumptions /\ Init => IInv
BY MInvInit DEF IInv

LEMMA IInvStep == Assumptions /\ IInv /\ [Next]_vars => IInv'
BY MInvStep, CountInvStep, SupersededStep DEF IInv

LEMMA IInvHolds == ASSUME Assumptions PROVE Spec => []IInv
<1>1. Init => IInv
  BY IInvInit
<1>2. IInv /\ [Next]_vars => IInv'
  BY IInvStep
<1> QED
  BY <1>1, <1>2, PTL DEF Spec

\* No row is left behind the watermark (isExpiredMetricEvent, foldExpiredMetricDays).
THEOREM NothingStaysBehind == ASSUME Assumptions PROVE Spec => []NothingLeftBehind
<1>1. IInv => NothingLeftBehind
  BY DEF IInv, MInv
<1> QED
  BY <1>1, IInvHolds, PTL

\* Rows and daily counts added up are each stored event once, whatever is sent again,
\* fails or is aborted between (listDeploymentTimeseries, foldExpiredMetricDays).
THEOREM CountsStayExact == ASSUME Assumptions PROVE Spec => []CountsAreExact
<1>1. IInv => CountsAreExact
  BY ExactCounts DEF IInv
<1> QED
  BY <1>1, IInvHolds, PTL

\* No failure is stored beside the application it came before, in any order of
\* arrival (persistWithFailureSupersession).
THEOREM FailuresAreSuperseded == ASSUME Assumptions PROVE Spec => []FailureSuperseded
<1>1. IInv => FailureSuperseded
  BY DEF IInv
<1> QED
  BY <1>1, IInvHolds, PTL

\* PostgreSQL never has a fold to abort (waitForMetricFold).
THEOREM FoldsNeverDeadlock == ASSUME Assumptions PROVE Spec => []FoldNeverDeadlocks
<1>1. IInv => FoldNeverDeadlocks
  BY NoFoldInACircle DEF IInv, MInv
<1> QED
  BY <1>1, IInvHolds, PTL
===============================================================================
