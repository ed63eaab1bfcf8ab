----------------------------- MODULE SyncPacing -----------------------------
(***************************************************************************)
(* What an error does to a direction and to a queued window: the triage    *)
(* and worker tables of coordinator.py, the exact BackgroundRetryController*)
(* (sync_runtime.py), the directions' statuses and the completeness of the *)
(* calendar periods the sensors report.                                    *)
(*                                                                         *)
(* One supply point.  The windows were planned at the start, newest first; *)
(* how plans change is in BackgroundSync.  Delays count down, as many ticks*)
(* as they last; the readings' own time stops at Horizon.  A refused       *)
(* sign-in is in LoginSession.                                             *)
(***************************************************************************)
EXTENDS Integers, Sequences, FiniteSets, SequencesExt, FiniteSetsExt

CONSTANTS Directions,    \* the order in which they are read, a sequence
          Windows,       \* planned windows <<from, to>>, newest first
          MonthStart,    \* the last planned month begins here
          Overlap,       \* POLL_OVERLAP
          MaxAttempts,   \* MAX_BACKGROUND_ATTEMPTS
          Defer,         \* BACKGROUND_DEFER
          MaxBackoff,    \* MAX_BACKOFF
          Faults,        \* error classes that occur
          Broken,        \* scopes whose requests always time out
          Horizon, MaxFaults   \* bounds

Dirs == Range(Directions)
Scopes == Dirs \X Range(Windows)
Planned == Windows[1][2]

ASSUME PacingAssumption ==
    /\ MaxAttempts \in Nat \ {0, 1} /\ Defer \in Nat \ {0} /\ MaxBackoff \in 0 .. Defer
    /\ Windows \in Seq(Int \X Int) /\ Windows # <<>>
    /\ \A w \in Range(Windows) : w[1] < w[2]
    /\ Overlap \in Nat \ {0} /\ Horizon \in Nat /\ Horizon >= Planned /\ MaxFaults \in Nat
    /\ Broken \subseteq Scopes

VARIABLES
    now,
    queue,      \* queued scopes
    active,     \* the scope whose request is in flight, or NoScope
    attempts, held, barrier,   \* the retry controller: counts, ticks left
    status,     \* DirectionSyncStatus of every direction
    settled,    \* the checkpoint: windows durable or failed
    data,       \* published: the date, and each direction's complete periods
    answered,   \* history: what was read
    streak, rest, quiet,   \* history: failures in a row, ticks they entail
    faults

vars == <<now, queue, active, attempts, held, barrier, status, settled, data,
          answered, streak, rest, quiet, faults>>
controller == <<attempts, held, barrier>>
history == <<streak, rest, quiet>>

-----------------------------------------------------------------------------
(* The two tables, by error class.                                         *)
Condemning == {"not_found", "invalid", "ledger"}       \* the whole supply point
Shared == {"rate_limit", "timeout"}                    \* ends the poll
Refusing == {"final_http", "authorization", "validation", "unavailable"}
Storage == {"disk"}                                    \* in no triage rule
Requeued == Shared \cup Storage                        \* what the worker retries

NoScope == <<"none", <<0, 0>>>>
Unread == [queryable |-> FALSE, error |-> "none", from |-> -1, to |-> -1]
SettledNothing == [durable |-> {}, failed |-> {}]

\* _record_direction_success: one stretch, from the earliest to the latest.
Succeeded(s, window) ==
    [queryable |-> TRUE, error |-> "none",
     from |-> IF s.from = -1 THEN window[1] ELSE Min({s.from, window[1]}),
     to |-> Max({s.to, window[2]})]

\* Mutant: whatever the error, the direction is not queryable.
Failed_Always(s, class) == [s EXCEPT !.error = class, !.queryable = FALSE]
\* _record_direction_failure: a shared fault leaves queryability as it was.
Failed(s, class) ==
    [s EXCEPT !.error = class, !.queryable = @ /\ class \in Shared]

-----------------------------------------------------------------------------
(* The snapshot.                                                           *)

\* _covers: the stretches join up from the start of the period to its end.
Covers(ranges, period) ==
    LET joined == UNION {r[1] .. r[2] - 1 : r \in ranges}
    IN  period[1] .. period[2] - 1 \subseteq joined
Periods(at) == {<<Windows[Len(Windows)][1], MonthStart>>, <<MonthStart, at>>}

\* apply_calendar_coverage, for the directions a reading proved.
Snapshot(at, statuses, checkpoint) ==
    [at |-> at, complete |-> [d \in Dirs |->
        IF ~statuses[d].queryable THEN {}
        ELSE {p \in Periods(at) :
                Covers(checkpoint[d].durable \cup {<<statuses[d].from, statuses[d].to>>}, p)}]]

-----------------------------------------------------------------------------
(* The retry controller.                                                   *)
Effective(scope) == Max({barrier, held[scope]})
Rank(scope) ==
    LET d == CHOOSE i \in DOMAIN Directions : Directions[i] = scope[1]
        w == CHOOSE i \in DOMAIN Windows : Windows[i] = scope[2]
    IN  w * (Len(Directions) + 1) + d

\* Mutant: only the head of the queue is looked at.
Available_HeadOnly(scopes) ==
    {s \in scopes : Effective(s) = 0 /\ \A t \in scopes : Rank(s) <= Rank(t)}
\* available: the first in order of those that are ready, or nothing.
Available(scopes) ==
    LET ready == {s \in scopes : Effective(s) = 0}
    IN  {s \in ready : \A t \in ready : Rank(s) <= Rank(t)}

\* Delays record_transient may choose: what the provider stated, capped, or
\* full jitter.
Delays(stated) == IF stated >= 0 THEN {Min({stated, MaxBackoff})} ELSE 0 .. MaxBackoff

\* Mutant: the barrier is the item's own.
Barrier_OfItem(class, delay) == barrier
\* The barrier a failure leaves for the entry.
Barrier(class, delay) == IF class = "rate_limit" THEN Max({barrier, delay}) ELSE barrier

\* record_transient
RecordTransient(scope, class, delay) ==
    LET last == attempts[scope] + 1 >= MaxAttempts
        wait == IF last THEN Defer ELSE delay
    IN  /\ attempts' = [attempts EXCEPT ![scope] = IF last THEN 0 ELSE @ + 1]
        /\ held' = [held EXCEPT ![scope] = wait]
        /\ barrier' = Barrier(class, wait)

\* Mutant: the scope in flight is forgotten.
Kept_QueuedOnly(queued) == queued
\* The scopes prune leaves alone.
Kept(queued) == queued \cup {active}

\* prune and resolve: no count and no delay of their own.
Forgotten(scopes) ==
    /\ attempts' = [s \in Scopes |-> IF s \in scopes THEN 0 ELSE attempts[s]]
    /\ held' = [s \in Scopes |-> IF s \in scopes THEN 0 ELSE held[s]]

-----------------------------------------------------------------------------
Init ==
    /\ now = Planned /\ queue = {} /\ active = NoScope
    /\ attempts = [s \in Scopes |-> 0] /\ held = [s \in Scopes |-> 0] /\ barrier = 0
    /\ status = [d \in Dirs |-> Unread] /\ settled = [d \in Dirs |-> SettledNothing]
    /\ data = [at |-> now, complete |-> [d \in Dirs |-> {}]]
    /\ answered = [d \in Dirs |-> {}]
    /\ streak = [s \in Scopes |-> 0] /\ rest = [s \in Scopes |-> 0] /\ quiet = 0
    /\ faults = 0

Less(ticks) == IF ticks > 0 THEN ticks - 1 ELSE 0

\* The worker takes what is ready at once: time passes while it waits for a
\* delay or for an answer.
Tick ==
    /\ active # NoScope \/ Available(queue) = {}
    /\ now' = Min({now + 1, Horizon})
    /\ held' = [s \in Scopes |-> Less(held[s])] /\ barrier' = Less(barrier)
    /\ rest' = [s \in Scopes |-> Less(rest[s])] /\ quiet' = Less(quiet)
    /\ UNCHANGED <<queue, active, attempts, status, settled, data, answered, streak, faults>>

-----------------------------------------------------------------------------
(* The poll: one window of every direction, in order.                      *)
PollWindow == <<Max({now - Overlap, 0}), now>>
Days(window) == window[1] .. window[2] - 1

\* A disk fault ends the poll as it is, a shared one all attempts after it,
\* and one that condemns the supply point as well.
Ends(class) == class \in Condemning \cup Shared \cup Storage
Tried(outcome) ==
    {Directions[i] : i \in {i \in DOMAIN Directions :
                                \A j \in 1 .. i - 1 : ~Ends(outcome[Directions[j]])}}
Polled(outcome) ==
    LET tried == Tried(outcome)
        ending == {outcome[d] : d \in tried} \cap (Condemning \cup Shared)
    IN  [d \in Dirs |->
            LET read == IF d \in tried /\ outcome[d] = "ok"
                        THEN Succeeded(status[d], PollWindow) ELSE status[d]
            IN  IF ending \cap Condemning # {} THEN Failed(read, CHOOSE c \in ending : TRUE)
                ELSE IF d \in tried
                THEN IF outcome[d] \in {"ok"} \cup Storage THEN read ELSE Failed(read, outcome[d])
                ELSE IF ending # {} THEN Failed(read, CHOOSE c \in ending : TRUE) ELSE read]

\* enqueue_missing, for the directions that can be read.
Owed(statuses, checkpoint) ==
    {s \in Scopes : statuses[s[1]].queryable
                    /\ s[2] \notin checkpoint[s[1]].durable \cup checkpoint[s[1]].failed}

\* clear_failures, on the first poll of a day.
Forgiven(statuses, day) ==
    [d \in Dirs |-> IF day /\ statuses[d].queryable
                    THEN [settled[d] EXCEPT !.failed = {}] ELSE settled[d]]

Poll ==
    /\ \E outcome \in [Dirs -> {"ok"} \cup Faults], day \in BOOLEAN :
        LET tried == Tried(outcome)
            read == {d \in tried : outcome[d] = "ok"}
            statuses == Polled(outcome)
            checkpoint == Forgiven(statuses, day)
            queued == queue \cup Owed(statuses, checkpoint)
            failed == \/ \E d \in tried : outcome[d] \in Storage
                      \/ read = {} /\ \E d \in tried : outcome[d] \in Shared
        IN  /\ \A d \in Dirs \ tried : outcome[d] = "ok"
            /\ faults + (IF \E d \in tried : outcome[d] # "ok" THEN 1 ELSE 0) <= MaxFaults
            /\ faults' = faults + (IF \E d \in tried : outcome[d] # "ok" THEN 1 ELSE 0)
            /\ answered' = [d \in Dirs |->
                                IF d \in read THEN answered[d] \cup Days(PollWindow) ELSE answered[d]]
            /\ status' = statuses
            /\ \/ /\ failed /\ ~day
                  /\ UNCHANGED <<controller, queue, settled, data>>
               \/ /\ ~failed
                  /\ settled' = checkpoint /\ queue' = queued
                  /\ Forgotten(Scopes \ Kept(queued)) /\ UNCHANGED barrier
                  /\ data' = Snapshot(now, statuses, checkpoint)
    /\ UNCHANGED <<now, active, history>>

-----------------------------------------------------------------------------
(* The background worker.                                                  *)
Takes ==
    /\ active = NoScope
    /\ \E scope \in Available(queue) : active' = scope /\ queue' = queue \ {scope}
    /\ UNCHANGED <<now, controller, status, settled, data, answered, history, faults>>

\* The window is settled: readings on disk, or a failure kept as one.
Settles(d, statuses, checkpoint) ==
    /\ status' = statuses /\ settled' = checkpoint
    /\ data' = Snapshot(data.at, statuses, checkpoint)
    /\ Forgotten({active}) /\ UNCHANGED <<queue, barrier, quiet>>
    /\ streak' = [streak EXCEPT ![active] = 0] /\ rest' = [rest EXCEPT ![active] = 0]

Answered ==
    /\ active \in Scopes \ Broken /\ active' = NoScope
    /\ LET d == active[1]
       IN  /\ Settles(d, [status EXCEPT ![d] = Succeeded(@, active[2])],
                      [settled EXCEPT ![d].durable = @ \cup {active[2]},
                                      ![d].failed = @ \ {active[2]}])
           /\ answered' = [answered EXCEPT ![d] = @ \cup Days(active[2])]
    /\ UNCHANGED <<now, faults>>

\* _async_resolve_permanent_failure
Refused ==
    /\ active \in Scopes \ Broken /\ active' = NoScope
    /\ faults < MaxFaults /\ faults' = faults + 1
    /\ \E class \in Faults \ Requeued :
        LET d == active[1]
        IN  Settles(d, [status EXCEPT ![d] = Failed(@, class)],
                    [settled EXCEPT ![d].durable = @ \ {active[2]},
                                    ![d].failed = @ \cup {active[2]}])
    /\ UNCHANGED <<now, answered>>

Requeues ==
    /\ active # NoScope /\ active' = NoScope /\ queue' = queue \cup {active}
    /\ faults' = IF active \in Broken THEN faults ELSE faults + 1
    /\ active \notin Broken => faults < MaxFaults
    /\ \E class \in Faults \cap Requeued, stated \in -1 .. MaxBackoff + 1 :
        /\ active \in Broken => class = "timeout"
        /\ stated >= 0 => class # "disk"
        /\ \E delay \in Delays(stated) : RecordTransient(active, class, delay)
        /\ quiet' = IF class = "rate_limit" THEN Max({quiet, Min({stated, MaxBackoff})}) ELSE quiet
        /\ LET whole == streak[active] + 1 = MaxAttempts
           IN  /\ streak' = [streak EXCEPT ![active] = IF whole THEN 0 ELSE @ + 1]
               /\ rest' = [rest EXCEPT ![active] = IF whole THEN Defer ELSE 0]
    /\ UNCHANGED <<now, status, settled, data, answered>>

\* Home Assistant starts again, or the entry is reloaded.
Restarts ==
    /\ faults < MaxFaults /\ faults' = faults + 1
    /\ queue' = {} /\ active' = NoScope
    /\ Forgotten(Scopes) /\ barrier' = 0 /\ status' = [d \in Dirs |-> Unread]
    /\ data' = [at |-> now, complete |-> [d \in Dirs |-> {}]]
    /\ streak' = [s \in Scopes |-> 0] /\ rest' = [s \in Scopes |-> 0] /\ quiet' = 0
    /\ UNCHANGED <<now, settled, answered>>

-----------------------------------------------------------------------------
Next == Tick \/ Poll \/ Takes \/ Answered \/ Refused \/ Requeues \/ Restarts
Works == Answered \/ Refused \/ Requeues
Spec == Init /\ [][Next]_vars /\ WF_vars(Tick) /\ WF_vars(Takes) /\ WF_vars(Works)

-----------------------------------------------------------------------------
(* Properties.                                                             *)
IsAsked(scope) == active' = scope /\ active # scope

\* "Bounded retry": a window whose requests failed MaxAttempts times in a row
\* is left alone for BACKGROUND_DEFER, whatever polls, prunes and other
\* failures come in between.
RetriesRest == [][\A s \in Scopes : IsAsked(s) => rest[s] = 0]_vars

\* A rate limit is the entry's: until the delay the provider stated is over,
\* no window of any direction is asked for in the background.
RateLimitsHoldEverything == [][\A s \in Scopes : IsAsked(s) => quiet = 0]_vars

\* An outage or a rate limit, met by the poll or by the worker and after
\* whatever else happened, takes no sensor away: a direction stops being
\* queryable only over an error that is an answer.
OutagesKeepSensors ==
    [][\A d \in Dirs : status[d].queryable /\ ~status'[d].queryable =>
            status'[d] = Unread \/ status'[d].error \notin Requeued]_vars

\* A window that fails for ever does not keep the windows behind it waiting
\* for ever, although it is ready first again and again.
BrokenWindowsBlockNobody ==
    \A s \in Scopes \ Broken : s \in queue ~> s \notin queue

\* "Mark calendar aggregates complete only when authoritative coverage spans
\* them" (apply_calendar_coverage): a period is reported only when every day
\* of it was read.
ReportedPeriodsAreRead ==
    \A d \in Dirs : \A p \in data.complete[d] : Days(p) \subseteq answered[d]
=============================================================================
