--------------------------- MODULE BackgroundSync ---------------------------
(***************************************************************************)
(* The background synchronization of one supply point: coordinator.py's    *)
(* poll, scheduler, worker, history button and lifecycle, over the         *)
(* checkpoint of SyncCheckpoint.                                           *)
(*                                                                         *)
(* Poll and worker are asyncio tasks of one event loop.  A step here runs  *)
(* from one await to the next; while the worker is "storing" it holds the  *)
(* mutation lock, every other locked section is one step.                  *)
(*                                                                         *)
(* Left out: the statistics marks and the ledger's own content (a stored   *)
(* tick is one that was read from the provider and flushed), the order of  *)
(* supply points, the length of a backoff (a held scope is released at any *)
(* later step) and the one startup delay of the worker.                    *)
(***************************************************************************)
EXTENDS SyncCheckpoint

CONSTANTS HistoryFloor,  \* the oldest instant a walk should reach
          HoleScopes,    \* scopes a scan of the ledger may find to be missing
          StartTime,     \* the instant the clock starts from
          MaxNow,        \* bound: the last instant the clock reaches
          MaxEvents      \* bound: faults, presses and restarts in a behaviour

ASSUME SyncAssumption ==
    /\ HistoryFloor \in Int
    /\ HoleScopes \subseteq [direction : Directions, window : Windows]
    /\ StartTime \in Int /\ MaxNow \in Int /\ MaxEvents \in Nat

VARIABLES
    now,        \* the wall clock
    phase,      \* "setup", "ready" (first poll done), "running", "closing"
    auth,       \* "ok", "pollRefused" or "workerRefused" (_reauth_pending)
    enabled,    \* discovery lists the supply point and the user wants it
    loaded,     \* _supply_points holds it
    queryable,  \* directions whose last attempt did not condemn them
    ckpt,       \* the checkpoint; memory and disk agree at every step
    stored,     \* per direction, ticks read from the provider and flushed
    queue,      \* entries of the in-memory queue, one per scope and obligation
    held,       \* scopes the retry controller holds back
    rateHeld,   \* the entry-wide rate-limit barrier is up
    poll,       \* the poll's progress
    worker,     \* the worker's progress
    cadence,    \* _schedule and _gaps_scanned_on
    events      \* how much of MaxEvents is spent

vars == <<now, phase, auth, enabled, loaded, queryable, ckpt, stored, queue,
          held, rateHeld, poll, worker, cadence, events>>

-----------------------------------------------------------------------------
\* Obligations that are not planned generations.
GapRefill == [reason |-> "gap", start |-> 0, end |-> 0]
HistoryBackfill == [reason |-> "history", start |-> 0, end |-> 0]
Obligations == Generations \cup {GapRefill, HistoryBackfill}

Scopes == [direction : Directions, window : Windows]
Entries == [scope : Scopes, obligation : Obligations]
Items == [scope : Scopes, obligations : SUBSET Obligations]

Scope(direction, window) == [direction |-> direction, window |-> window]
EntryFor(scope, obligation) == [scope |-> scope, obligation |-> obligation]
EntriesOf(item) == [scope : {item.scope}, obligation : item.obligations]
ScopesOf(entries) == {e.scope : e \in entries}
ItemAt(scope) ==
    [scope |-> scope, obligations |-> {e.obligation : e \in {f \in queue : f.scope = scope}}]

Priority ==
    [daily |-> 10, initialCurrent |-> 20, initialPrevious |-> 30, gap |-> 35, history |-> 40]

\* Some obligation of `scope` outranks all of `other`, or ties and is newer.
PrecedesIn(q, scope, other) ==
    LET ranks(s) == {Priority[e.obligation.reason] : e \in {f \in q : f.scope = s}}
        best(s) == CHOOSE n \in ranks(s) : \A m \in ranks(s) : n <= m
    IN  \/ best(scope) < best(other)
        \/ /\ best(scope) = best(other)
           /\ \/ scope.window.end > other.window.end
              \/ /\ scope.window.end = other.window.end
                 /\ scope.window.start > other.window.start

IsGapRefill(item) == item.obligations = {GapRefill}
IsBackfill(item) == item.obligations = {HistoryBackfill}

-----------------------------------------------------------------------------
PollSteps == {"idle", "discovering", "loading", "reading"}
WorkerSteps == {"none", "idle", "fetching", "storing"}

IdlePoll == [step |-> "idle", now |-> StartTime, unread |-> {}, answered |-> FALSE]
NoWorker == [step |-> "none", item |-> {}]
IdleWorker == [step |-> "idle", item |-> {}]
InHand == worker.step \in {"fetching", "storing"}
LockHeld == worker.step = "storing"

Disturb == events < MaxEvents /\ events' = events + 1

\* Mutant: a worker is started only for work that finds the queue empty.
EnsuredWorker_FirstWorkOnly(entries) ==
    IF worker.step = "none" /\ auth # "workerRefused" /\ queue = {} /\ entries # {}
    THEN IdleWorker ELSE worker

\* _ensure_background_worker, given the queue it sees.
EnsuredWorker(entries) ==
    IF worker.step = "none" /\ auth # "workerRefused" /\ entries # {}
    THEN IdleWorker ELSE worker

ActiveScopes == {i.scope : i \in worker.item}
Pruned(entries) == held \cap (ScopesOf(entries) \cup ActiveScopes)

\* A coordinator object is dropped and a new one built from the disk.
ForgetMemory ==
    /\ phase' = "setup" /\ loaded' = FALSE /\ queryable' = {}
    /\ queue' = {} /\ held' = {} /\ rateHeld' = FALSE
    /\ poll' = IdlePoll /\ worker' = NoWorker
    /\ cadence' = [daily |-> {}, discovery |-> now, gaps |-> {}]
    /\ UNCHANGED enabled

TypeOK ==
    /\ now \in Int
    /\ phase \in {"setup", "ready", "running", "closing"}
    /\ auth \in {"ok", "pollRefused", "workerRefused"}
    /\ enabled \in BOOLEAN /\ loaded \in BOOLEAN
    /\ queryable \subseteq Directions
    /\ ckpt \in Checkpoints
    /\ stored \in [Directions -> SUBSET Int]
    /\ queue \subseteq Entries
    /\ held \subseteq Scopes /\ rateHeld \in BOOLEAN
    /\ poll \in [step : PollSteps, now : Int, unread : SUBSET Directions,
                 answered : BOOLEAN]
    /\ worker \in [step : WorkerSteps, item : SUBSET Items]
    /\ InHand <=> worker.item # {}
    /\ \A i, j \in worker.item : i = j
    /\ cadence \in [daily : SUBSET Int, discovery : Int, gaps : SUBSET Int]
    /\ events \in Nat

Init ==
    /\ now = StartTime
    /\ phase = "setup" /\ auth = "ok" /\ enabled = TRUE /\ loaded = FALSE
    /\ queryable = {}
    /\ ckpt = Empty(StartTime)
    /\ stored = [d \in Directions |-> {}]
    /\ queue = {} /\ held = {} /\ rateHeld = FALSE
    /\ poll = IdlePoll /\ worker = NoWorker
    /\ cadence = [daily |-> {}, discovery |-> StartTime, gaps |-> {}]
    /\ events = 0

Tick ==
    /\ now < MaxNow
    /\ now' = now + 1
    /\ UNCHANGED <<phase, auth, enabled, loaded, queryable, ckpt, stored, queue, held,
                   rateHeld, poll, worker, cadence, events>>

-----------------------------------------------------------------------------
(* Scheduling: roll the month pair, plan the initial and daily             *)
(* generations, save, then rebuild the queue from what is missing.         *)
DailyDue(t) == DayOf(t) \notin cadence.daily

Planned(t) ==
    LET rolled == RollMonthPair(ckpt, t)
        initial == IF InitialsOf(rolled) = {} THEN Register(rolled, Initial(t)) ELSE rolled
        today == {g \in DailiesOf(initial) : DayOf(g.end) = DayOf(t)}
        selected == IF today = {} THEN Daily(t) ELSE CHOOSE g \in today : TRUE
    IN  IF DailyDue(t)
        THEN ClearFailures(SupersedeDaily(initial, selected), queryable)
        ELSE initial

\* The queue once the obligations the new plan superseded are removed.
WithoutObsolete(t) ==
    {e \in queue : e.obligation \notin ckpt.generations \ Planned(t).generations}

MissingEntries(c, directions) ==
    {EntryFor(Scope(r.direction, r.window), r.generation) : r \in Missing(c, directions)}

WalkEntries(c) ==
    {EntryFor(Scope(d, BackfillWindow(c.walk[d].cursor)), HistoryBackfill) :
        d \in {e \in Directions : c.walk[e].state = "running"}}

RefillEntries(c, holes) ==
    {EntryFor(s, GapRefill) :
        s \in {h \in holes : ~SkipsGapWindow(c, h.direction, h.window, now)}}

\* Mutant: the day of the last scan is not looked at.
Scans_EveryPoll(holes, scannedOn) ==
    \/ scannedOn = {DayOf(now)}
    \/ holes = {} /\ scannedOn = cadence.gaps

(* The daily scan for holes: what it finds is read off the ledger, which   *)
(* is not modelled, so any of HoleScopes; a corrupt partition ends the     *)
(* scan without marking the day as scanned.                                *)
Scans(holes, scannedOn) ==
    \/ DayOf(now) \in cadence.gaps /\ holes = {} /\ scannedOn = cadence.gaps
    \/ DayOf(now) \notin cadence.gaps /\ scannedOn = {DayOf(now)}
    \/ DayOf(now) \notin cadence.gaps /\ holes = {} /\ scannedOn = cadence.gaps

ScheduleSaves(t) ==
    \E holes \in SUBSET HoleScopes, scannedOn \in {cadence.gaps, {DayOf(now)}} :
        /\ IF enabled /\ loaded
           THEN /\ Scans(holes, scannedOn)
                /\ ckpt' = Planned(t)
                /\ queue' = WithoutObsolete(t) \cup MissingEntries(Planned(t), queryable)
                              \cup WalkEntries(Planned(t)) \cup RefillEntries(Planned(t), holes)
           ELSE holes = {} /\ scannedOn = cadence.gaps /\ UNCHANGED <<ckpt, queue>>
        /\ cadence' = [cadence EXCEPT !.gaps = scannedOn,
                                      !.daily = IF DailyDue(t) THEN {DayOf(t)} ELSE @]
        /\ held' = Pruned(queue')

-----------------------------------------------------------------------------
(* The poll.  Before the first success of a new coordinator a failed poll  *)
(* fails the entry's setup, which drops the coordinator.                   *)
PollFails ==
    IF phase = "setup"
    THEN ForgetMemory
    ELSE /\ poll' = IdlePoll
         /\ UNCHANGED <<phase, enabled, loaded, queryable, queue, held, rateHeld, worker,
                        cadence>>

PollBegins ==
    /\ poll.step = "idle"
    /\ \/ phase = "setup" /\ auth = "ok"
       \/ phase = "running" /\ auth # "workerRefused"
    /\ poll' = [IdlePoll EXCEPT
                    !.now = now,
                    !.step = IF phase = "running" /\ now - cadence.discovery >= DayLength
                             THEN "discovering" ELSE "loading"]
    /\ cadence' = [cadence EXCEPT !.discovery = IF phase = "setup" THEN now ELSE @]
    /\ UNCHANGED <<now, phase, auth, enabled, loaded, queryable, ckpt, stored, queue,
                   held, rateHeld, worker, events>>

\* Discovery drops the queue of a supply point it no longer lists, and
\* forgives the failures of one it does.
Rediscovered(listed) ==
    /\ enabled' = listed
    /\ queue' = IF listed THEN queue ELSE {}
    /\ held' = Pruned(queue')
    /\ cadence' = [cadence EXCEPT !.discovery = poll.now]
    /\ UNCHANGED <<now, phase, auth, loaded, queryable, stored, rateHeld, worker>>

Forgiven(listed) == IF listed /\ loaded THEN ClearFailures(ckpt, Directions) ELSE ckpt

PollDiscovers ==
    /\ poll.step = "discovering" /\ ~LockHeld
    /\ \E listed \in BOOLEAN :
        /\ Rediscovered(listed)
        /\ \/ /\ IF listed = enabled THEN UNCHANGED events ELSE Disturb
              /\ ckpt' = Forgiven(listed)
              /\ poll' = [poll EXCEPT !.step = "loading"]
           \/ /\ Disturb
              /\ Forgiven(listed) # ckpt
              /\ poll' = IdlePoll
              /\ UNCHANGED ckpt

PollLoads ==
    /\ poll.step = "loading"
    /\ IF enabled /\ ~loaded
       THEN \/ ckpt' = RollMonthPair(ckpt, poll.now) /\ UNCHANGED events
            \/ ckpt' = Empty(poll.now) /\ Disturb   \* the stored one is unreadable
       ELSE UNCHANGED <<ckpt, events>>
    /\ loaded' = (loaded \/ enabled)
    /\ poll' = [poll EXCEPT !.step = "reading",
                            !.unread = IF enabled THEN Directions ELSE {}]
    /\ UNCHANGED <<now, phase, auth, enabled, queryable, stored, queue, held, rateHeld,
                   worker, cadence>>

PollReads(d) ==
    /\ d \in poll.unread /\ ~LockHeld
    /\ queryable' = queryable \cup {d}
    /\ poll' = [poll EXCEPT !.unread = @ \ {d}, !.answered = TRUE]
    /\ UNCHANGED <<now, phase, auth, enabled, loaded, ckpt, stored, queue, held, rateHeld,
                   worker, cadence, events>>

\* The provider refuses one direction, or the whole supply point at once.
PollRefused(d) ==
    /\ d \in poll.unread /\ Disturb
    /\ \/ queryable' = queryable \ {d} /\ poll' = [poll EXCEPT !.unread = @ \ {d}]
       \/ queryable' = {} /\ poll' = [poll EXCEPT !.unread = {}]
    /\ UNCHANGED <<now, phase, auth, enabled, loaded, ckpt, stored, queue, held, rateHeld,
                   worker, cadence>>

\* A shared fault ends the attempts; it fails the poll if nothing answered.
PollInterrupted ==
    /\ poll.unread # {} /\ Disturb
    /\ IF poll.answered
       THEN /\ poll' = [poll EXCEPT !.unread = {}]
            /\ UNCHANGED <<phase, enabled, loaded, queryable, queue, held, rateHeld, worker,
                           cadence>>
       ELSE PollFails
    /\ UNCHANGED <<now, auth, ckpt, stored>>

\* Discovery, a load or a reading raises what the poll does not absorb.
PollAborts ==
    /\ poll.step # "idle" /\ Disturb
    /\ \/ auth' = "pollRefused" /\ poll.step # "loading"
       \/ UNCHANGED auth
    /\ PollFails
    /\ UNCHANGED <<now, ckpt, stored>>

PollEnds ==
    /\ poll.step = "reading" /\ poll.unread = {} /\ ~LockHeld
    /\ auth' = IF auth = "pollRefused" THEN "ok" ELSE auth
    /\ poll' = IdlePoll
    /\ IF phase = "setup"
       THEN phase' = "ready" /\ UNCHANGED <<ckpt, queue, held, worker, cadence>>
       ELSE /\ ScheduleSaves(poll.now)
            /\ worker' = IF phase = "running" THEN EnsuredWorker(queue') ELSE worker
            /\ UNCHANGED phase
    /\ UNCHANGED <<now, enabled, loaded, queryable, stored, rateHeld, events>>

\* An OSError from the save leaves the queue stripped of the old plan.
PollScheduleFails ==
    /\ poll.step = "reading" /\ poll.unread = {} /\ ~LockHeld /\ phase # "setup"
    /\ Disturb
    /\ enabled /\ loaded /\ Planned(poll.now) # ckpt
    /\ queue' = WithoutObsolete(poll.now)
    /\ poll' = IdlePoll
    /\ UNCHANGED <<now, phase, auth, enabled, loaded, queryable, ckpt, stored, held,
                   rateHeld, worker, cadence>>

-----------------------------------------------------------------------------
(* The worker.  It takes the first ready scope in queue order while no     *)
(* poll is pending; a poll may begin while its request is in flight.       *)
Ready == {s \in ScopesOf(queue) : ~rateHeld /\ s \notin held}

WorkerTakes ==
    /\ worker.step = "idle" /\ phase = "running" /\ poll.step = "idle"
    /\ \E s \in Ready :
        /\ \A other \in Ready : ~PrecedesIn(queue, other, s)
        /\ worker' = [step |-> "fetching", item |-> {ItemAt(s)}]
        /\ queue' = {e \in queue : e.scope # s}
    /\ UNCHANGED <<now, phase, auth, enabled, loaded, queryable, ckpt, stored, held,
                   rateHeld, poll, cadence, events>>

WorkerReturns ==
    /\ worker.step = "idle"
    /\ phase = "closing" \/ (poll.step = "idle" /\ queue = {})
    /\ worker' = NoWorker
    /\ UNCHANGED <<now, phase, auth, enabled, loaded, queryable, ckpt, stored, queue, held,
                   rateHeld, poll, cadence, events>>

\* The answer is reconciled into the ledger and flushed, under the lock.
WorkerStores ==
    /\ worker.step = "fetching"
    /\ \E item \in worker.item :
        stored' = [stored EXCEPT ![item.scope.direction] = @ \cup Ticks(item.scope.window)]
    /\ worker' = [worker EXCEPT !.step = "storing"]
    /\ UNCHANGED <<now, phase, auth, enabled, loaded, queryable, ckpt, queue, held,
                   rateHeld, poll, cadence, events>>

Resolve(item) == held' = held \ {item.scope}

\* mark_durable and the save; an item none of whose obligations are planned
\* takes its own path instead.
CommitsPlanned(item) ==
    /\ ~IsGapRefill(item) /\ ~IsBackfill(item)
    /\ Registered(ckpt, item.scope.window, item.obligations)
    /\ ckpt' = MarkDurable(ckpt, item.scope.direction, item.scope.window, item.obligations)
    /\ queryable' = queryable \cup {item.scope.direction}
    /\ Resolve(item)
    /\ UNCHANGED queue

CommitsRefill(item) ==
    /\ IsGapRefill(item)
    /\ \E filled \in BOOLEAN :
        ckpt' = RecordGapAttempt(ckpt, item.scope.direction, item.scope.window, filled, now)
    /\ Resolve(item)
    /\ UNCHANGED <<queryable, queue>>

\* A walk that goes on queues its next window and paces it.
CommitsWalk(item) ==
    LET d == item.scope.direction
    IN  /\ IsBackfill(item)
        /\ \E empty \in BOOLEAN :
            ckpt' = AdvanceBackfill(ckpt, d, item.scope.window, empty, HistoryFloor)
        /\ IF ckpt'.walk[d].state = "running"
           THEN /\ queue' = queue \cup WalkEntries(ckpt')
                /\ held' = (held \cup {Scope(d, BackfillWindow(ckpt'.walk[d].cursor))})
                            \ {item.scope}
           ELSE Resolve(item) /\ UNCHANGED queue
        /\ UNCHANGED queryable

WorkerCommits ==
    /\ worker.step = "storing"
    /\ \E item \in worker.item :
        CommitsPlanned(item) \/ CommitsRefill(item) \/ CommitsWalk(item)
    /\ worker' = IdleWorker
    /\ UNCHANGED <<now, phase, auth, enabled, loaded, stored, rateHeld, poll, cadence,
                   events>>

\* The legacy provider answers a window it cannot reach: nothing is stored.
WorkerHearsLegacy ==
    /\ worker.step = "fetching" /\ Disturb
    /\ \E item \in worker.item :
        /\ IsGapRefill(item) \/ IsBackfill(item)
        /\ ckpt' = IF IsBackfill(item)
                   THEN StopBackfill(ckpt, item.scope.direction, "unsupported") ELSE ckpt
        /\ Resolve(item)
    /\ worker' = IdleWorker
    /\ UNCHANGED <<now, phase, auth, enabled, loaded, queryable, stored, queue, rateHeld,
                   poll, cadence>>

\* A transient fault of the request, the flush or the save: back into the
\* queue as it was popped, held until its backoff ends.
WorkerRetries ==
    /\ InHand /\ Disturb
    /\ \E item \in worker.item :
        /\ worker.step = "storing" =>
              IsGapRefill(item) \/ IsBackfill(item)
              \/ Registered(ckpt, item.scope.window, item.obligations)
        /\ queue' = queue \cup EntriesOf(item)
        /\ held' = held \cup {item.scope}
    /\ \/ UNCHANGED rateHeld
       \/ worker.step = "fetching" /\ rateHeld' = TRUE
    /\ worker' = IdleWorker
    /\ UNCHANGED <<now, phase, auth, enabled, loaded, queryable, ckpt, stored, poll, cadence>>

\* _async_resolve_permanent_failure.
WorkerGivesUp ==
    /\ worker.step = "fetching" /\ Disturb
    /\ \E item \in worker.item :
        LET d == item.scope.direction
        IN  \/ /\ IsGapRefill(item)
               /\ queryable' = queryable \ {d}
               /\ UNCHANGED <<ckpt, held>>
            \/ /\ IsBackfill(item)
               /\ ckpt' = StopBackfill(ckpt, d, "failed")
               /\ UNCHANGED <<queryable, held>>
            \/ /\ ~IsGapRefill(item) /\ ~IsBackfill(item)
               /\ Registered(ckpt, item.scope.window, item.obligations)
               /\ ckpt' = MarkFailed(ckpt, d, item.scope.window, item.obligations)
               /\ queryable' = queryable \ {d}
               /\ Resolve(item)
    /\ worker' = IdleWorker
    /\ UNCHANGED <<now, phase, auth, enabled, loaded, stored, queue, rateHeld, poll, cadence>>

\* An exception escapes the handler and ends the task with the item in hand:
\* mark_durable or mark_failed refuses an obligation that is no longer
\* registered (the ValueError of the first is a permanent failure, and
\* recording that raises the second), or saving a permanent failure fails.
WorkerDies ==
    /\ \E item \in worker.item :
        /\ ~IsGapRefill(item)
        /\ \/ /\ worker.step = "storing" /\ ~IsBackfill(item)
              /\ ~Registered(ckpt, item.scope.window, item.obligations)
              /\ UNCHANGED events
           \/ worker.step = "fetching" /\ Disturb
    /\ worker' = NoWorker
    /\ UNCHANGED <<now, phase, auth, enabled, loaded, queryable, ckpt, stored, queue, held,
                   rateHeld, poll, cadence>>

WorkerRefused ==
    /\ worker.step = "fetching" /\ Disturb
    /\ \E item \in worker.item : queue' = queue \cup EntriesOf(item)
    /\ auth' = "workerRefused"
    /\ worker' = NoWorker
    /\ UNCHANGED <<now, phase, enabled, loaded, queryable, ckpt, stored, held, rateHeld,
                   poll, cadence>>

BackoffEnds ==
    /\ \/ \E s \in held : held' = held \ {s} /\ UNCHANGED rateHeld
       \/ rateHeld /\ rateHeld' = FALSE /\ UNCHANGED held
    /\ UNCHANGED <<now, phase, auth, enabled, loaded, queryable, ckpt, stored, queue, poll,
                   worker, cadence, events>>

-----------------------------------------------------------------------------
(* The entry's lifecycle and the history button.                           *)
StartsSync ==
    /\ phase = "ready" /\ ~LockHeld
    /\ phase' = "running"
    /\ ScheduleSaves(now)
    /\ worker' = EnsuredWorker(queue')
    /\ UNCHANGED <<now, auth, enabled, loaded, queryable, stored, rateHeld, poll, events>>

\* A failed save here fails the setup; so does a crash, at any moment.
Restarts ==
    /\ Disturb
    /\ ForgetMemory
    /\ auth' = "ok"
    /\ UNCHANGED <<now, ckpt, stored>>

PressesHistoryButton ==
    /\ loaded /\ phase \in {"ready", "running"} /\ ~LockHeld /\ Disturb
    /\ \E legacy \in SUBSET Directions :
        LET wanted == {d \in queryable : ckpt.walk[d].state # "running"}
            begun(d) == StartBackfill(ckpt, d, InitialFloor(now))
        IN  ckpt' = [ckpt EXCEPT !.walk =
                [d \in Directions |->
                    IF d \in wanted \cap legacy
                    THEN StopBackfill(begun(d), d, "unsupported").walk[d]
                    ELSE IF d \in wanted THEN begun(d).walk[d] ELSE ckpt.walk[d]]]
    /\ queue' = queue \cup WalkEntries(ckpt')
    /\ worker' = IF phase = "running" THEN EnsuredWorker(queue') ELSE worker
    /\ UNCHANGED <<now, phase, auth, enabled, loaded, queryable, stored, held, rateHeld, poll,
                   cadence>>

PreparesShutdown ==
    /\ phase = "running" /\ Disturb
    /\ phase' = "closing"
    /\ UNCHANGED <<now, auth, enabled, loaded, queryable, ckpt, stored, queue, held, rateHeld,
                   poll, worker, cadence>>

\* The lock has been free once since: the task is cancelled, its item requeued.
CancelsWorker ==
    /\ phase = "closing" /\ ~LockHeld /\ worker # NoWorker
    /\ queue' = queue \cup UNION {EntriesOf(i) : i \in worker.item}
    /\ worker' = NoWorker
    /\ UNCHANGED <<now, phase, auth, enabled, loaded, queryable, ckpt, stored, held, rateHeld,
                   poll, cadence, events>>

\* The platforms refused to unload.
Resumes ==
    /\ phase = "closing" /\ worker = NoWorker
    /\ phase' = "running"
    /\ queue' = IF enabled /\ loaded THEN queue \cup MissingEntries(ckpt, queryable) ELSE queue
    /\ worker' = EnsuredWorker(queue')
    /\ UNCHANGED <<now, auth, enabled, loaded, queryable, ckpt, stored, held, rateHeld, poll,
                   cadence, events>>

\* The entry is set up again, after an unload or a renewed sign-in.
Reloads ==
    /\ ~LockHeld
    /\ (phase = "closing" /\ worker = NoWorker) \/ auth # "ok"
    /\ ForgetMemory
    /\ auth' = "ok"
    /\ UNCHANGED <<now, ckpt, stored, events>>

-----------------------------------------------------------------------------
PollNext ==
    \/ PollBegins \/ PollDiscovers \/ PollLoads \/ PollInterrupted \/ PollAborts
    \/ PollEnds \/ PollScheduleFails
    \/ \E d \in Directions : PollReads(d) \/ PollRefused(d)

WorkerNext ==
    \/ WorkerTakes \/ WorkerReturns \/ WorkerStores \/ WorkerCommits
    \/ WorkerHearsLegacy \/ WorkerRetries \/ WorkerGivesUp \/ WorkerDies
    \/ WorkerRefused \/ BackoffEnds

LifecycleNext ==
    \/ StartsSync \/ Restarts \/ PressesHistoryButton \/ PreparesShutdown
    \/ CancelsWorker \/ Resumes \/ Reloads

Next == Tick \/ PollNext \/ WorkerNext \/ LifecycleNext

Spec == Init /\ [][Next]_vars

-----------------------------------------------------------------------------
(* What every behaviour keeps.                                             *)

\* Coverage is claimed only for ticks that were read and flushed first, the
\* worker's order: reconcile, flush, mark, save.  A crash or a fault between
\* any two of them leaves a claim short of the ledger, never ahead of it.
CoverageIsDurable == \A d \in Directions : ckpt.coverage[d] \subseteq stored[d]

\* A daily barrier for an instant means the whole span from the previous
\* month's start to it was read and flushed, whatever generations were
\* superseded, retried or re-planned on the way.
BarrierIsDurable ==
    \A d \in Directions : \A b \in ckpt.daily[d] :
        /\ InitialFloor(b.through) .. (b.through - 1) \subseteq stored[d]
        /\ b.day = DayOf(b.through)

\* What is saved can be loaded: the constructor would refuse a resolution of
\* a window that no registered generation plans, and the whole record with it.
CheckpointIsAccepted == Accepted(ckpt)

\* At most one daily generation is ever registered, and the initial ones are
\* those of the recorded month pair and meet at the month's start.
PlansAreCurrent ==
    /\ \A g, h \in DailiesOf(ckpt) : g = h
    /\ \A g \in InitialsOf(ckpt) :
        \/ g.reason = "initialCurrent" /\ g.start = ckpt.month * MonthLength
        \/ g.reason = "initialPrevious" /\ g.start = (ckpt.month - 1) * MonthLength
    /\ \A g, h \in InitialsOf(ckpt) : g.start < h.start => g.end = h.start

\* A refill is asked for at most once more after its last permitted silence,
\* by the request a scan queued while that silence was still on its way.
RefillOverrunsOnce == \A a \in ckpt.gaps : a.streak <= GapEmptyLimit + 1

\* Everything between a walk's cursor and the floor the cadence plans back to
\* is covered: no restart, refusal or stale window opens a gap between them.
WalkLeavesNoGap ==
    \A d \in Directions : ckpt.walk[d].state # "none" =>
        ckpt.walk[d].cursor .. (InitialFloor(StartTime) - 1) \subseteq ckpt.coverage[d]

(* The first three of these are inductive together with what they rest on. *)

\* A resolution outlives the answer it records: the ticks of a completed
\* window stay on disk.
ResolutionsAreDurable ==
    \A r \in ckpt.completed : Ticks(r.window) \subseteq stored[r.direction]

\* An answer about to be marked has been flushed, whatever the poll did since.
AnswerInHandIsFlushed ==
    worker.step = "storing" =>
        \A i \in worker.item : Ticks(i.scope.window) \subseteq stored[i.scope.direction]

DailiesReachTheFloor == \A g \in DailiesOf(ckpt) : g.start = InitialFloor(g.end)

\* There is one latest barrier per direction and one daily generation.
LatestIsUnique ==
    /\ \A g, h \in DailiesOf(ckpt) : g = h
    /\ \A d \in Directions : \A a, b \in ckpt.daily[d] : a = b

\* The inductive invariant: claims, barriers and what they rest on.
SyncInv ==
    /\ TypeOK
    /\ CheckpointIsAccepted
    /\ CoverageIsDurable
    /\ BarrierIsDurable
    /\ LatestIsUnique
    /\ ResolutionsAreDurable
    /\ AnswerInHandIsFlushed
    /\ DailiesReachTheFloor

\* The synchronization keeps the promise of DurableCoverage: what a step
\* claims was flushed by an earlier one, a claim or a barrier is never taken
\* back, and only an unreadable checkpoint forgets what was claimed.
Promise == INSTANCE DurableCoverage WITH
    FloorBefore <- InitialFloor,
    durable <- stored,
    claimed <- ckpt.coverage,
    vouched <- [d \in Directions |-> {b.through : b \in ckpt.daily[d]}]

KeepsPromise == Promise!AbstractSpec

-----------------------------------------------------------------------------
(* Fairness.  The event loop runs what is ready, Home Assistant polls again *)
(* while the sign-in stands, a backoff ends, an interrupted unload either   *)
(* resumes or reloads.  A poll disables WorkerTakes again and again, but is *)
(* short against its interval, so the worker gets its turns: strong         *)
(* fairness.  Nothing obliges a fault, a press, a new sign-in or the clock. *)
Fairness ==
    /\ WF_vars(PollBegins /\ auth = "ok")
    /\ WF_vars(PollDiscovers) /\ WF_vars(PollLoads) /\ WF_vars(PollEnds)
    /\ \A d \in Directions : WF_vars(PollReads(d))
    /\ WF_vars(StartsSync)
    /\ SF_vars(WorkerTakes)
    /\ WF_vars(WorkerReturns) /\ WF_vars(WorkerStores) /\ WF_vars(WorkerCommits)
    /\ WF_vars(worker.step = "storing" /\ WorkerDies)
    /\ WF_vars(BackoffEnds)
    /\ WF_vars(CancelsWorker)
    /\ WF_vars(phase = "closing" /\ (Resumes \/ Reloads))

FairSpec == Spec /\ Fairness

Settled == \A d \in queryable : Missing(ckpt, {d}) = {}

\* While the sign-in and the supply point stand, every planned window of a
\* direction that answers is completed or given up in the end: work lost with
\* a worker that died, a queue that was dropped or a restart is planned again.
PlannedWorkSettles ==
    <>[](auth = "ok" /\ enabled) => <>[](phase = "running" /\ Settled)

\* The work itself ends: no refill is asked for ever, no walk runs past its
\* floor, no obligation that nothing wants any more is retried for ever.
QueueDrains == <>[](auth = "ok" /\ enabled) => <>[](queue = {} /\ ~InHand)

=============================================================================
