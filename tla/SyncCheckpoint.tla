--------------------------- MODULE SyncCheckpoint ---------------------------
(***************************************************************************)
(* SyncCheckpoint of background_sync.py: the record one supply point keeps *)
(* on disk of what background work has been planned, finished and given    *)
(* up, and the methods that derive the next record from the last.          *)
(*                                                                         *)
(* Coverage is a set of ticks per direction where the code keeps merged    *)
(* ranges: merging is set union.                                           *)
(***************************************************************************)
EXTENDS SyncPlan, FiniteSets

CONSTANTS Directions,      \* the directions a supply point may be read in
          EmptyLimit,      \* silent windows that end a history walk
          GapEmptyLimit,   \* silent refills after which a gap is abandoned
          GapRetryAfter    \* ticks an abandoned gap is left alone

ASSUME CheckpointAssumption ==
    /\ IsFiniteSet(Directions)
    /\ EmptyLimit \in Nat \ {0}
    /\ GapEmptyLimit \in Nat \ {0}
    /\ GapRetryAfter \in Nat \ {0}

WalkStates == {"none", "running", "complete", "unsupported", "failed"}
Walks == [state : WalkStates, cursor : Int, streak : Nat]
NoWalk == [state |-> "none", cursor |-> 0, streak |-> 0]

\* One direction's resolved window of one generation.
Resolutions == [direction : Directions, generation : Generations, window : Windows]
Barriers == [day : Int, through : Int]
GapAttempts == [direction : Directions, window : Windows, streak : Nat, at : Int]

Checkpoints ==
    [month : Int,
     generations : SUBSET Generations,
     completed : SUBSET Resolutions,
     failed : SUBSET Resolutions,
     coverage : [Directions -> SUBSET Int],
     daily : [Directions -> SUBSET Barriers],   \* {} or the one latest barrier
     walk : [Directions -> Walks],
     gaps : SUBSET GapAttempts]

Empty(t) ==
    [month |-> MonthOf(t), generations |-> {}, completed |-> {}, failed |-> {},
     coverage |-> [d \in Directions |-> {}],
     daily |-> [d \in Directions |-> {}],
     walk |-> [d \in Directions |-> NoWalk],
     gaps |-> {}]

\* What the constructor accepts: every resolution is of a registered window.
Accepted(c) ==
    \A r \in c.completed \cup c.failed :
        r.generation \in c.generations /\ r.window \in WindowsOf(r.generation)

-----------------------------------------------------------------------------
Retain(c, kept) ==
    [c EXCEPT !.generations = kept,
              !.completed = {r \in @ : r.generation \in kept},
              !.failed = {r \in @ : r.generation \in kept}]

InitialsOf(c) == {g \in c.generations : g.reason \in InitialReasons}
DailiesOf(c) == {g \in c.generations : g.reason = "daily"}

\* Mutant: the old pair's resolutions outlive its generations.
RollMonthPair_KeepsResolutions(c, t) ==
    IF c.month = MonthOf(t)
    THEN c
    ELSE [c EXCEPT !.generations = DailiesOf(c), !.month = MonthOf(t)]

RollMonthPair(c, t) ==
    IF c.month = MonthOf(t)
    THEN c
    ELSE [Retain(c, DailiesOf(c)) EXCEPT !.month = MonthOf(t)]

Register(c, planned) == [c EXCEPT !.generations = @ \cup planned]

ObsoleteDailies(c, g) == DailiesOf(c) \ {g}

\* Mutant: yesterday's generation is left registered beside today's.
SupersedeDaily_KeepsObsolete(c, g) == Register(c, {g})

SupersedeDaily(c, g) ==
    Register(Retain(c, c.generations \ ObsoleteDailies(c, g)), {g})

-----------------------------------------------------------------------------
ResolutionsOf(direction, window, obligations) ==
    [direction : {direction}, generation : obligations, window : {window}]

\* mark_durable and mark_failed raise unless this holds.
Registered(c, window, obligations) ==
    \A o \in obligations : o \in c.generations /\ window \in WindowsOf(o)

\* Mutant: a window either direction completed counts for both.
FinishedDailies_AnyDirection(c, direction) ==
    {g \in DailiesOf(c) : \A w \in WindowsOf(g) :
        \E r \in c.completed : r.generation = g /\ r.window = w}

\* The generations whose every window one direction has completed.
FinishedDailies(c, direction) ==
    {g \in DailiesOf(c) : \A w \in WindowsOf(g) :
        [direction |-> direction, generation |-> g, window |-> w] \in c.completed}

Later(b, other) ==
    \/ b.day > other.day
    \/ b.day = other.day /\ b.through > other.through

\* Mutant: any one window of the day raises the barrier.
AdvanceDailyBarrier_OnAnyWindow(c, direction) ==
    LET begun == {r.generation : r \in {q \in c.completed :
                    q.direction = direction /\ q.generation.reason = "daily"}}
    IN  [c EXCEPT !.daily[direction] =
            IF begun = {} THEN @
            ELSE {[day |-> DayOf(g.end), through |-> g.end] : g \in begun}]

\* The barriers the finished generations are worth.
Reached(c, direction) ==
    {[day |-> DayOf(g.end), through |-> g.end] : g \in FinishedDailies(c, direction)}

LatestOf(barriers) == {b \in barriers : \A other \in barriers : ~Later(other, b)}

AdvanceDailyBarrier(c, direction) ==
    [c EXCEPT !.daily[direction] = LatestOf(@ \cup Reached(c, direction))]

\* Mutants: a window replaces what was covered, or covers every direction.
Cover_Replaces(c, direction, window) ==
    [c EXCEPT !.coverage[direction] = Ticks(window)]
Cover_EveryDirection(c, direction, window) ==
    [c EXCEPT !.coverage = [d \in Directions |-> @[d] \cup Ticks(window)]]

Cover(c, direction, window) ==
    [c EXCEPT !.coverage[direction] = @ \cup Ticks(window)]

MarkDurable(c, direction, window, obligations) ==
    AdvanceDailyBarrier(
        [Cover(c, direction, window) EXCEPT
            !.completed = @ \cup ResolutionsOf(direction, window, obligations)],
        direction)

MarkFailed(c, direction, window, obligations) ==
    [c EXCEPT !.failed = @ \cup ResolutionsOf(direction, window, obligations)]

ClearFailures(c, directions) ==
    [c EXCEPT !.failed = {r \in @ : r.direction \notin directions}]

\* enqueue_missing over every registered generation, for each direction.
Missing(c, directions) ==
    {r \in UNION {[direction : directions, generation : {g}, window : WindowsOf(g)] :
                    g \in c.generations} :
        r \notin c.completed /\ r \notin c.failed}

-----------------------------------------------------------------------------
\* The history walk: a cursor that moves backwards one window at a time.
BackfillWindow_SkipsOne(cursor) ==   \* mutant: off by one at the newer end
    [start |-> cursor - QueryWindow, end |-> cursor - 1]
BackfillWindow(cursor) == [start |-> cursor - QueryWindow, end |-> cursor]

StartBackfill(c, direction, floor) ==
    [c EXCEPT !.walk[direction] =
        [state |-> "running", streak |-> 0,
         cursor |-> IF @.state = "none" THEN floor ELSE @.cursor]]

\* Mutant: the cursor is left at the newer end of the window.
AdvanceBackfill_Stays(c, direction, window, empty, historyFloor) ==
    LET streak == IF empty THEN c.walk[direction].streak + 1 ELSE 0
        finished == streak >= EmptyLimit \/ window.start <= historyFloor
    IN  [Cover(c, direction, window) EXCEPT !.walk[direction] =
            [state |-> IF finished THEN "complete" ELSE "running",
             cursor |-> window.end, streak |-> streak]]

AdvanceBackfill(c, direction, window, empty, historyFloor) ==
    LET streak == IF empty THEN c.walk[direction].streak + 1 ELSE 0
        finished == streak >= EmptyLimit \/ window.start <= historyFloor
    IN  IF c.walk[direction].state = "none"
        THEN c
        ELSE [Cover(c, direction, window) EXCEPT !.walk[direction] =
                [state |-> IF finished THEN "complete" ELSE "running",
                 cursor |-> window.start, streak |-> streak]]

StopBackfill(c, direction, state) ==
    [c EXCEPT !.walk[direction].state = IF @ = "none" THEN @ ELSE state]

-----------------------------------------------------------------------------
\* Gap refills: how often each requested window came back with nothing.
IsAbandoned_Late(a, t) ==   \* mutant: one silence too many
    a.streak > GapEmptyLimit /\ t - a.at < GapRetryAfter
IsAbandoned(a, t) == a.streak >= GapEmptyLimit /\ t - a.at < GapRetryAfter

AttemptsAt(c, direction, window) ==
    {a \in c.gaps : a.direction = direction /\ a.window = window}

SkipsGapWindow(c, direction, window, t) ==
    \E a \in AttemptsAt(c, direction, window) : IsAbandoned(a, t)

RecordGapAttempt(c, direction, window, filled, t) ==
    LET previous == AttemptsAt(c, direction, window)
        recent == {a \in previous : t - a.at < GapRetryAfter}
        again(n) == [direction |-> direction, window |-> window, streak |-> n, at |-> t]
    IN  [c EXCEPT !.gaps = (@ \ previous) \cup
            IF filled THEN {}
            ELSE IF recent = {} THEN {again(1)}
            ELSE {again(a.streak + 1) : a \in recent}]
=============================================================================
