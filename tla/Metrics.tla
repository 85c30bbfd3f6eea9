------------------------------- MODULE Metrics -------------------------------
(***************************************************************************)
(* Metric events on their way from a device to the counters of a release.  *)
(*                                                                         *)
(* The device queues events as files and posts them in batches until the   *)
(* server acknowledges them (CodemagicPatchModule.kt, flushMetricEvents).  *)
(* The server stores each event as a raw row (metricsRepository.ts) and,   *)
(* when its UTC day leaves the retention window, folds the day into daily  *)
(* counts and deletes its rows (metricFoldRepository.ts). A deployment may *)
(* be cleared at any time (managementRepository.ts, clearDeployment).      *)
(*                                                                         *)
(* There is one deployment, one device and one package; dates are UTC      *)
(* days. The transactions are READ COMMITTED: a step is a statement, or    *)
(* the last statement and the commit, and WaitsFor says whose locks it     *)
(* waits for. PostgreSQL aborts one of those that wait in a circle.        *)
(***************************************************************************)
EXTENDS Naturals, Sequences, FiniteSets

CONSTANTS
    Emissions,      \* the events in the order the device emits them: [id, name, day],
                    \* "Failed", "Applied" or "Active", the day by the device's clock
    Requests,       \* requests the server can be working on at once
    Folders,        \* server instances whose timer folds
    RawDays,        \* METRIC_RAW_RETENTION_DAYS
    ClientDays,     \* how long the device keeps an event
    QueueCap,       \* enforceEventQueueCap
    MaxDay,         \* bounds: dates, lost answers and errors, clears
    MaxFaults,
    MaxClears,
    None

Names == {"Failed", "Applied", "Active"}

WindowAssumption ==
    /\ RawDays \in Nat \ {0} /\ ClientDays \in Nat /\ ClientDays < RawDays
    /\ MaxDay \in Nat /\ RawDays <= MaxDay

ReportsAssumption ==
    /\ Emissions \in Seq([id : Nat, name : Names, day : Nat])
    /\ QueueCap \in Nat /\ MaxFaults \in Nat /\ MaxClears \in Nat
    /\ None \notin Requests
    /\ Requests \cap Folders = {} /\ "clear" \notin Requests \cup Folders

VARIABLES
    today,
    emitted,    \* number of events emitted
    queue,      \* the event files: [n, on], the n-th event, written on that day
    awaiting,   \* the request whose answer the device waits for, or None
    req,        \* [r -> [pc, batch, acked, received, rows]]; events by their number
    raw,        \* metric_event
    counts,     \* the daily counts: [day -> [name -> Nat]]
    foldedBefore,   \* metric_event_fold_state
    fold,       \* [f -> [pc, cutoff, day, moved]]
    clear,      \* "idle", or what it takes next: "watermark", "deployment", "rows"
    faults, clears,
    kept, stored    \* history, since the last clear: the events to be counted, and
                    \* those that were ever stored

device == <<emitted, queue, awaiting>>
history == <<kept, stored>>
bounds == <<faults, clears>>
vars == <<today, device, req, raw, counts, foldedBefore, fold, clear, bounds, history>>

Numbers == DOMAIN Emissions
Events == {Emissions[n] : n \in Numbers}
Days == 0 .. MaxDay

Idle == [pc |-> "idle", batch |-> {}, acked |-> {}, received |-> 0, rows |-> {}]
FoldIdle == [pc |-> "idle", cutoff |-> 0, day |-> 0, moved |-> {}]

Init ==
    /\ today = RawDays
    /\ emitted = 0
    /\ queue = {}
    /\ awaiting = None
    /\ req = [r \in Requests |-> Idle]
    /\ raw = {}
    /\ counts = [d \in Days |-> [n \in Names |-> 0]]
    /\ foldedBefore = 0
    /\ fold = [f \in Folders |-> FoldIdle]
    /\ clear = "idle"
    /\ faults = 0 /\ clears = 0
    /\ kept = {} /\ stored = {}

(***************************************************************************)
(* The device.                                                             *)
(***************************************************************************)
\* faulty variant: the queue is not cut.
Uncapped(files) == files

Oldest(files) == CHOOSE file \in files : \A other \in files : file.n <= other.n

\* enforceEventQueueCap: past the cap the oldest go.
Capped(files) ==
    IF Cardinality(files) > QueueCap THEN files \ {Oldest(files)} ELSE files

\* commitMetricEvent
Enqueue ==
    /\ emitted + 1 \in Numbers
    /\ emitted' = emitted + 1
    /\ queue' = Capped(queue \cup {[n |-> emitted + 1, on |-> today]})
    /\ UNCHANGED <<today, awaiting, req, raw, counts, foldedBefore, fold, clear, bounds, history>>

Fresh(file) == file.on + ClientDays >= today

\* flushMetricEvents, one at a time: files too old to be taken are deleted.
Flush(r) ==
    /\ awaiting = None
    /\ queue # {}
    /\ req[r].pc = "idle"
    /\ queue' = {file \in queue : Fresh(file)}
    /\ IF queue' = {} THEN UNCHANGED <<req, awaiting>>
       ELSE /\ req' = [req EXCEPT ![r].pc = "judge", ![r].batch = {file.n : file \in queue'}]
            /\ awaiting' = r
    /\ UNCHANGED <<today, emitted, raw, counts, foldedBefore, fold, clear, bounds, history>>

\* The answer is lost or too late: the server may still be working, the files stay.
GiveUp ==
    /\ awaiting # None
    /\ faults < MaxFaults
    /\ awaiting' = None
    /\ faults' = faults + 1
    /\ UNCHANGED <<today, emitted, queue, req, raw, counts, foldedBefore, fold, clear, clears, history>>

(***************************************************************************)
(* Who waits for whom.                                                     *)
(***************************************************************************)
First(batch) == CHOOSE n \in batch : \A m \in batch : n <= m
Event(r) == Emissions[First(req[r].batch)]
Supersedes(e) == e.name \in {"Failed", "Applied"}
FailedRows == {e \in raw : e.name = "Failed"}

\* The day a fold would move next, with the rows it has on it.
Unfolded(f) == {e \in raw : e.day >= foldedBefore /\ e.day < fold[f].cutoff}
NextRows(f) == {e \in Unfolded(f) : \A o \in Unfolded(f) : e.day <= o.day}

\* faulty variant: the lock does not tell apart who holds it.
SharedAdvisoryLock(r) == FALSE

HoldsAdvisoryLock(r) == req[r].pc \in {"decide", "insert"} /\ Supersedes(Event(r))

\* faulty variant: clearing takes the deployment without waiting for a fold.
ClearWithoutWatermark == FALSE

\* waitForMetricFold
ClearHoldsWatermark == clear \in {"deployment", "rows"}
ClearHoldsDeployment == clear = "rows"
FoldHoldsWatermark(f) == fold[f].pc = "moved"

RequestWaitsFor(r, p) ==
    \/ req[r].pc = "lock" /\ p \in Requests \ {r} /\ HoldsAdvisoryLock(p)
    \/ /\ req[r].pc = "decide" /\ Event(r).name = "Applied"
       /\ p \in Folders /\ fold[p].moved \cap FailedRows # {}
    \/ req[r].pc = "insert" /\ p \in Folders /\ Event(r) \in fold[p].moved
    \/ req[r].pc = "insert" /\ p = "clear" /\ ClearHoldsDeployment

FoldWaitsFor(f, p) ==
    \/ fold[f].pc = "lock" /\ p \in Folders \ {f} /\ FoldHoldsWatermark(p)
    \/ fold[f].pc = "lock" /\ p = "clear" /\ ClearHoldsWatermark
    \/ fold[f].pc = "lock" /\ p \in Requests /\ NextRows(f) \cap req[p].rows # {}
    \/ fold[f].pc = "moved" /\ p = "clear" /\ ClearHoldsDeployment

ClearWaitsFor(p) ==
    \/ clear = "watermark" /\ p \in Folders /\ FoldHoldsWatermark(p)
    \/ clear = "rows" /\ p \in Folders /\ fold[p].moved # {}
    \/ clear = "rows" /\ p \in Requests /\ req[p].rows # {}

Processes == Requests \cup Folders \cup {"clear"}

WaitsFor(p, q) ==
    \/ p \in Requests /\ RequestWaitsFor(p, q)
    \/ p \in Folders /\ FoldWaitsFor(p, q)
    \/ p = "clear" /\ ClearWaitsFor(q)

Blocked(p) == \E q \in Processes : WaitsFor(p, q)

\* p is in every set that holds all that p waits for and all that they wait for.
InCircle(p) ==
    /\ Blocked(p)
    /\ \A ps \in SUBSET Processes :
         (\A w \in ps \cup {p} : \A q \in Processes : WaitsFor(w, q) => q \in ps) => p \in ps

(***************************************************************************)
(* The server's ingest: the events of a batch one after the other.         *)
(***************************************************************************)
FoldCutoff(now) == now - RawDays

\* faulty variant: the day of the cutoff is still taken.
IsExpiredBeforeCutoff(e, now) == e.day < FoldCutoff(now)

\* isExpiredMetricEvent
IsExpired(e, now) == e.day <= FoldCutoff(now)

\* isFutureMetricEvent: more than 24 hours ahead, on the next day by the time of day.
MayBeFuture(e, now) == e.day > now
MustBeFuture(e, now) == e.day > now + 1

NextEvent(r) ==
    [Idle EXCEPT !.pc = "judge", !.batch = req[r].batch \ {First(req[r].batch)},
                 !.acked = req[r].acked \cup {First(req[r].batch)}]

OnlyRequest(r, new) ==
    /\ req' = [req EXCEPT ![r] = new]
    /\ UNCHANGED <<today, device, raw, counts, foldedBefore, fold, clear, bounds, history>>

Drop(r) ==
    /\ req[r].pc = "judge" /\ req[r].batch # {}
    /\ IsExpired(Event(r), today) \/ MayBeFuture(Event(r), today)
    /\ OnlyRequest(r, NextEvent(r))

Accept(r) ==
    /\ req[r].pc = "judge" /\ req[r].batch # {}
    /\ ~IsExpired(Event(r), today) /\ ~MustBeFuture(Event(r), today)
    /\ OnlyRequest(r, [req[r] EXCEPT !.received = today,
                                     !.pc = IF Supersedes(Event(r)) THEN "lock" ELSE "insert"])

AdvisoryLock(r) ==
    /\ req[r].pc = "lock" /\ ~Blocked(r)
    /\ OnlyRequest(r, [req[r] EXCEPT !.pc = "decide"])

HasApplied == \E e \in raw : e.name = "Applied"

\* A failure of a package that the device has applied since is not stored.
CheckFailed(r) ==
    /\ req[r].pc = "decide" /\ Event(r).name = "Failed"
    /\ OnlyRequest(r, IF HasApplied THEN NextEvent(r) ELSE [req[r] EXCEPT !.pc = "insert"])

DeleteFailed(r) ==
    /\ req[r].pc = "decide" /\ Event(r).name = "Applied" /\ ~Blocked(r)
    /\ OnlyRequest(r, [req[r] EXCEPT !.pc = "insert", !.rows = FailedRows])

\* insertMetricEvent, ON CONFLICT (event_id) DO NOTHING, and the commit.
Insert(r) ==
    /\ req[r].pc = "insert" /\ ~Blocked(r)
    /\ raw' = (raw \ req[r].rows) \cup {Event(r)}
    /\ kept' = (kept \ req[r].rows) \cup {Event(r)}
    /\ stored' = stored \cup {Event(r)}
    /\ req' = [req EXCEPT ![r] = NextEvent(r)]
    /\ UNCHANGED <<today, device, counts, foldedBefore, fold, clear, bounds>>

NotAwaiting(r) == awaiting' = IF awaiting = r THEN None ELSE awaiting

\* 202: a device that still waits deletes the files of the events acknowledged.
Answer(r) ==
    /\ req[r].pc = "judge" /\ req[r].batch = {}
    /\ queue' = IF awaiting = r
                THEN {file \in queue : file.n \notin req[r].acked} ELSE queue
    /\ NotAwaiting(r)
    /\ req' = [req EXCEPT ![r] = Idle]
    /\ UNCHANGED <<today, emitted, raw, counts, foldedBefore, fold, clear, bounds, history>>

\* 500, or the server dies: the batch stays queued, what was committed stays stored.
RequestFails(r) ==
    /\ NotAwaiting(r)
    /\ req' = [req EXCEPT ![r] = Idle]
    /\ UNCHANGED <<today, emitted, queue, raw, counts, foldedBefore, fold, clear, clears, history>>

RequestError(r) ==
    /\ req[r].pc # "idle" /\ faults < MaxFaults
    /\ faults' = faults + 1
    /\ RequestFails(r)

DeadlockVictim(r) ==
    /\ req[r].pc # "idle" /\ InCircle(r)
    /\ faults' = faults
    /\ RequestFails(r)

(***************************************************************************)
(* foldExpiredMetricDays: one transaction for each day, under the          *)
(* watermark's row lock.                                                   *)
(***************************************************************************)
StartFold(f) ==
    /\ fold[f].pc = "idle"
    /\ today > RawDays
    /\ fold' = [fold EXCEPT ![f].pc = "lock", ![f].cutoff = FoldCutoff(today)]
    /\ UNCHANGED <<today, device, req, raw, counts, foldedBefore, clear, bounds, history>>

Greatest(a, b) == IF a > b THEN a ELSE b

MoveDay(f) ==
    /\ fold[f].pc = "lock" /\ ~Blocked(f)
    /\ NextRows(f) # {}
    /\ fold' = [fold EXCEPT ![f].pc = "moved", ![f].moved = NextRows(f),
                            ![f].day = (CHOOSE e \in NextRows(f) : TRUE).day]
    /\ UNCHANGED <<today, device, req, raw, counts, foldedBefore, clear, bounds, history>>

\* A device active on a day counts once, however many events say so.
CountOf(rows, name) ==
    LET n == Cardinality({e \in rows : e.name = name})
    IN IF name = "Active" /\ n > 1 THEN 1 ELSE n

CommitDay(f) ==
    /\ fold[f].pc = "moved" /\ ~Blocked(f)
    /\ counts' = [counts EXCEPT ![fold[f].day] =
                     [n \in Names |-> @[n] + CountOf(fold[f].moved, n)]]
    /\ raw' = raw \ fold[f].moved
    /\ foldedBefore' = Greatest(foldedBefore, fold[f].day + 1)
    /\ fold' = [fold EXCEPT ![f] = [FoldIdle EXCEPT !.pc = "lock", !.cutoff = fold[f].cutoff]]
    /\ UNCHANGED <<today, device, req, clear, bounds, history>>

NothingToFold(f) ==
    /\ fold[f].pc = "lock" /\ ~Blocked(f)
    /\ NextRows(f) = {}
    /\ foldedBefore' = Greatest(foldedBefore, fold[f].cutoff)
    /\ fold' = [fold EXCEPT ![f] = FoldIdle]
    /\ UNCHANGED <<today, device, req, raw, counts, clear, bounds, history>>

\* An error or a shutdown: the days committed stay folded, the next run retries.
FoldFails(f) ==
    /\ fold[f].pc # "idle" /\ faults < MaxFaults
    /\ faults' = faults + 1
    /\ fold' = [fold EXCEPT ![f] = FoldIdle]
    /\ UNCHANGED <<today, device, req, raw, counts, foldedBefore, clear, clears, history>>

(***************************************************************************)
(* clearDeployment: the watermark, the deployment's row, then its rows.    *)
(***************************************************************************)
BeginClear ==
    /\ clear = "idle" /\ clears < MaxClears
    /\ clear' = "watermark"
    /\ clears' = clears + 1
    /\ UNCHANGED <<today, device, req, raw, counts, foldedBefore, fold, faults, history>>

LockForClear ==
    /\ clear \in {"watermark", "deployment"} /\ ~Blocked("clear")
    /\ clear' = IF clear = "watermark" THEN "deployment" ELSE "rows"
    /\ UNCHANGED <<today, device, req, raw, counts, foldedBefore, fold, bounds, history>>

CommitClear ==
    /\ clear = "rows" /\ ~Blocked("clear")
    /\ raw' = {} /\ kept' = {} /\ stored' = {}
    /\ counts' = [d \in Days |-> [n \in Names |-> 0]]
    /\ clear' = "idle"
    /\ UNCHANGED <<today, device, req, foldedBefore, fold, bounds>>

-----------------------------------------------------------------------------
\* A date changes at most once while an event is being stored.
Tick ==
    /\ today < MaxDay
    /\ \A r \in Requests : req[r].pc \in {"lock", "decide", "insert"} => req[r].received = today
    /\ today' = today + 1
    /\ UNCHANGED <<device, req, raw, counts, foldedBefore, fold, clear, bounds, history>>

Ingest(r) ==
    \/ Drop(r) \/ Accept(r) \/ AdvisoryLock(r) \/ CheckFailed(r) \/ DeleteFailed(r)
    \/ Insert(r) \/ Answer(r) \/ RequestError(r) \/ DeadlockVictim(r)

Fold(f) == StartFold(f) \/ MoveDay(f) \/ CommitDay(f) \/ NothingToFold(f) \/ FoldFails(f)

Next ==
    \/ Enqueue
    \/ \E r \in Requests : Flush(r) \/ Ingest(r)
    \/ GiveUp
    \/ \E f \in Folders : Fold(f)
    \/ BeginClear \/ LockForClear \/ CommitClear
    \/ Tick

Spec == Init /\ [][Next]_vars

-----------------------------------------------------------------------------
TypeOK ==
    /\ today \in Days
    /\ emitted \in Numbers \cup {0}
    /\ queue \subseteq [n : Numbers, on : Days] /\ Cardinality(queue) <= QueueCap
    /\ awaiting \in Requests \cup {None}
    /\ req \in [Requests -> [pc : {"idle", "judge", "lock", "decide", "insert"},
                             batch : SUBSET Numbers, acked : SUBSET Numbers,
                             received : Days, rows : SUBSET Events]]
    /\ raw \subseteq Events
    /\ counts \in [Days -> [Names -> Nat]]
    /\ foldedBefore \in Days
    /\ fold \in [Folders -> [pc : {"idle", "lock", "moved"}, cutoff : Days, day : Days,
                             moved : SUBSET Events]]
    /\ clear \in {"idle", "watermark", "deployment", "rows"}
    /\ faults \in 0 .. MaxFaults /\ clears \in 0 .. MaxClears
    /\ kept \subseteq Events /\ stored \subseteq Events

\* What the dashboard shows, raw rows and daily counts added up, is each stored event
\* once: a batch sent again, also while its first delivery is still being worked on,
\* or after the day was folded, adds nothing, and a fold takes nothing away
\* (listDeploymentTimeseries, metricFoldRepository.ts, isExpiredMetricEvent).
On(rows, day) == {e \in rows : e.day = day}
CountsAreExact ==
    \A d \in Days, n \in Names : counts[d][n] + CountOf(On(raw, d), n) = CountOf(On(kept, d), n)

\* A failure that came before the device applied the package is not shown beside it,
\* in whatever order the two arrive, at once or twice (persistWithFailureSupersession).
FailureSuperseded ==
    \A f \in raw, a \in stored : f.name = "Failed" /\ a.name = "Applied" => f.day > a.day

\* A fold never waits in a circle (waitForMetricFold): the administrator's request is
\* not aborted by the timer, nor the fold by it.
FoldNeverDeadlocks == \A f \in Folders : ~InCircle(f)

\* No row is left behind the watermark, where no fold looks again: ingest refuses an
\* event from its date alone, without asking how far the folds are (isExpiredMetricEvent).
NothingLeftBehind == \A e \in raw : e.day >= foldedBefore
=============================================================================
