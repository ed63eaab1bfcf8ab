------------------------------ MODULE SyncPlan ------------------------------
(***************************************************************************)
(* The calendar and the planner of background_sync.py: which windows one   *)
(* generation of background work asks the provider for.                    *)
(*                                                                         *)
(* Time is a count of ticks.  A Japanese day is DayLength ticks, a         *)
(* calendar month MonthLength ticks, the longest query QueryWindow ticks   *)
(* (seven days in the code) and the poll re-reads PollOverlap ticks (72    *)
(* hours).  Months have one length here: nothing compares two months'      *)
(* lengths.                                                                *)
(***************************************************************************)
EXTENDS Integers

CONSTANTS DayLength, MonthLength, QueryWindow, PollOverlap

ASSUME PlanAssumption ==
    /\ DayLength \in Nat \ {0}
    /\ MonthLength \in Nat \ {0}
    /\ QueryWindow \in Nat \ {0}
    /\ PollOverlap \in Nat

Earliest(s, t) == IF s < t THEN s ELSE t
Latest(s, t) == IF s < t THEN t ELSE s

-----------------------------------------------------------------------------
DayOf(t) == t \div DayLength

MonthOf(t) == t \div MonthLength
LocalMonthStart(t) == MonthOf(t) * MonthLength

\* The start of the previous month: the oldest instant the daily cadence plans.
InitialFloor(t) == LocalMonthStart(t) - MonthLength

-----------------------------------------------------------------------------
\* A half-open window, non-empty and no longer than one query may be.
Windows == {w \in [start : Int, end : Int] :
                w.start < w.end /\ w.end - w.start <= QueryWindow}

Ticks(w) == w.start .. (w.end - 1)

\* Chunks are cut from the newest end, so only the oldest may be short.
Chunk(start, end, k) ==
    [start |-> Latest(start, end - (k + 1) * QueryWindow),
     end   |-> end - k * QueryWindow]

NewestFirstChunks(start, end) ==
    {Chunk(start, end, k) :
        k \in {j \in 0 .. (end - start) : end - j * QueryWindow > start}}

-----------------------------------------------------------------------------
InitialReasons == {"initialCurrent", "initialPrevious"}
PlannedReasons == InitialReasons \cup {"daily"}

(* A planned generation stands for its obligation too: its identifier is   *)
(* built from the reason and the two instants kept here.                   *)
Generations == [reason : PlannedReasons, start : Int, end : Int]

WindowsOf(g) == NewestFirstChunks(g.start, g.end)

Initial(t) ==
    LET cutoff == t - PollOverlap
        month == LocalMonthStart(t)
    IN  {g \in {[reason |-> "initialCurrent", start |-> month, end |-> cutoff],
                [reason |-> "initialPrevious", start |-> InitialFloor(t),
                 end |-> Earliest(month, cutoff)]} :
            g.end > g.start}

Daily(t) == [reason |-> "daily", start |-> InitialFloor(t), end |-> t]
=============================================================================
