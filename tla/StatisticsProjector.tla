------------------------- MODULE StatisticsProjector -------------------------
(***************************************************************************)
(* HomeAssistantStatisticsProjector of statistics_runtime.py: one pass     *)
(* over the ledger of one supply point, which publishes the hourly rows of *)
(* an energy series per direction and of the cost series of the import.    *)
(*                                                                         *)
(* Time is a count of hours.  Energies are small integers, and the tariff  *)
(* charges one unit more for what a period consumes beyond StepSize: the   *)
(* cost of an hour depends on its period so far, as a stepped tariff's     *)
(* does.  The rate adjustments are part of the price.                      *)
(***************************************************************************)
EXTENDS Integers, FiniteSetsExt, Functions

CONSTANTS Directions,       \* the directions a supply point is read in
          Import,           \* the one that is priced
          LastHour,         \* bound: the last hour of the model
          Energies,         \* what an hour may read
          Prices,           \* what a unit may cost
          StepSize,         \* units of a period below the higher price
          PeriodLength,     \* hours of a billing period
          PartitionLength   \* hours of a ledger partition

ASSUME ProjectorAssumption ==
    /\ Import \in Directions
    /\ LastHour \in Nat
    /\ Energies \subseteq Nat \ {0} /\ Prices \subseteq Nat \ {0}
    /\ StepSize \in Nat
    /\ PeriodLength \in Nat \ {0} /\ PartitionLength \in Nat \ {0}

Hours == 0 .. LastHour
NoReading == 0
Ledgers == [Directions -> [Hours -> Energies \cup {NoReading}]]
HoursRead(readings) == {h \in Hours : readings[h] # NoReading}
HoursKnown(ledger) == UNION {HoursRead(ledger[d]) : d \in Directions}

\* A calendar is the hour its periods are anchored on.
Calendars == 0 .. (PeriodLength - 1)
PeriodStart(calendar, t) == t - ((t - calendar) % PeriodLength)
PreviousPeriodStart(calendar, t) == PeriodStart(calendar, PeriodStart(calendar, t) - 1)

\* The start of the oldest partition.  A partition once written keeps a
\* reading: an answer that has none for it deletes nothing.
PartitionStart(h) == h - (h % PartitionLength)
EarliestOf(ledger) == PartitionStart(Min(HoursKnown(ledger)))

-----------------------------------------------------------------------------
(* The rows of a pass over the hours from `start`: an hour's own value and *)
(* the total up to it, resumed from what was reached at `start`.           *)
EnergyIn(readings, from, before) ==
    SumFunctionOnSet(readings, {h \in HoursRead(readings) : from <= h /\ h < before})

EnergyRows(readings, start, base) ==
    [h \in {r \in HoursRead(readings) : start <= r} |->
        [state |-> readings[h], sum |-> base + EnergyIn(readings, start, h + 1)]]

Beyond(energy) == IF energy > StepSize THEN energy - StepSize ELSE 0

\* project_hourly_cost: the step counter restarts on the period boundary and
\* on the first hour of the pass.
CostAt(readings, tariff, start, h) ==
    LET opened == PeriodStart(tariff.calendar, h)
        before == EnergyIn(readings, IF opened < start THEN start ELSE opened, h)
    IN  tariff.price * readings[h] + Beyond(before + readings[h]) - Beyond(before)

CostIn(readings, tariff, start, before) ==
    SumFunction([h \in {r \in HoursRead(readings) : start <= r /\ r < before} |->
                    CostAt(readings, tariff, start, h)])

CostRows(readings, tariff, start, base) ==
    [h \in {r \in HoursRead(readings) : start <= r} |->
        [state |-> CostAt(readings, tariff, start, h),
         sum |-> base + CostIn(readings, tariff, start, h + 1)]]

\* What is published over the rows that are already there.
Over(rows, old) == [h \in DOMAIN rows \cup DOMAIN old |->
                        IF h \in DOMAIN rows THEN rows[h] ELSE old[h]]

From(rows, hours) == [h \in {r \in DOMAIN rows : \A d \in hours : d <= r} |-> rows[h]]

-----------------------------------------------------------------------------
(* The projector's memory, lost with the process: the totals reached at    *)
(* recent period boundaries, the calendar they belong to, and the inputs   *)
(* the cost was last computed from.  A tariff is a price and a calendar;   *)
(* its price is 0 while none is known.                                     *)
Tariffs == [price : Prices \cup {0}, calendar : Calendars]
IsPriceable(tariff) == tariff.price # 0

NoTotals == [energy |-> [d \in Directions |-> 0], cost |-> 0]
NoMemory == [calendar |-> {}, inputs |-> {}, baselines |-> <<>>]

\* Mutant: the billing periods are no part of what a cost depends on.
Inputs_PriceOnly(tariff) == {[price |-> tariff.price, calendar |-> 0]}

\* The fingerprint; without a price the calendar is no part of it.
Inputs(tariff) == IF IsPriceable(tariff) THEN {tariff} ELSE {[price |-> 0, calendar |-> 0]}

(* A request asks to publish `from` some hour on, or everything ({}), and  *)
(* names the directions to clear first.                                    *)
Requests == [from : {{}} \cup {{h} : h \in Hours \cup {LastHour + 1}}, reset : SUBSET Directions]
Everything == [from |-> {}, reset |-> {}]

DirtyFrom(request) == IF request.reset # {} THEN {} ELSE request.from

Repriced(memory, tariff) == memory.inputs # Inputs(tariff)

\* What a pass leaves in memory before it has read the ledger.
Touched(memory, tariff) ==
    [calendar |-> {tariff.calendar},
     inputs |-> Inputs(tariff),
     baselines |-> IF memory.calendar = {tariff.calendar} THEN memory.baselines ELSE <<>>]

\* _projection_start: the boundary a pass may resume from, if it has one.
Resumable(memory, request, ledger, tariff) ==
    IF Repriced(memory, tariff) \/ memory.calendar # {tariff.calendar}
    THEN {}
    ELSE {s \in {PeriodStart(tariff.calendar, h) : h \in DirtyFrom(request)} :
            s > EarliestOf(ledger) /\ s \in DOMAIN memory.baselines}

Boundaries(tariff, t) ==
    {PreviousPeriodStart(tariff.calendar, t), PeriodStart(tariff.calendar, t)}

\* Mutant: a boundary keeps the totals it was first remembered with.
Remembered_Once(memory, ledger, tariff, start, base, t) ==
    LET known == Boundaries(tariff, t) \cap DOMAIN memory.baselines
    IN  [at \in known \cup {b \in Boundaries(tariff, t) : start <= b} |->
            IF at \in known THEN memory.baselines[at]
            ELSE [energy |-> [d \in Directions |->
                                base.energy[d] + EnergyIn(ledger[d], start, at)],
                  cost |-> base.cost + IF IsPriceable(tariff)
                                       THEN CostIn(ledger[Import], tariff, start, at) ELSE 0]]

\* _remember_baselines: the totals at the two most recent boundaries.  A
\* series without a row in this pass keeps what it was remembered with.
Remembered(memory, ledger, tariff, start, base, t) ==
    LET known == Boundaries(tariff, t) \cap DOMAIN memory.baselines
        old(at) == IF at \in known THEN memory.baselines[at] ELSE NoTotals
        silent(d) == \A h \in HoursRead(ledger[d]) : h < start
        energyAt(d, at) == IF silent(d) THEN old(at).energy[d]
                           ELSE base.energy[d] + EnergyIn(ledger[d], start, at)
        costAt(at) == IF silent(Import) \/ ~IsPriceable(tariff) THEN old(at).cost
                      ELSE base.cost + CostIn(ledger[Import], tariff, start, at)
    IN  [at \in known \cup {b \in Boundaries(tariff, t) : start <= b} |->
            IF at < start THEN old(at)
            ELSE [energy |-> [d \in Directions |-> energyAt(d, at)], cost |-> costAt(at)]]

\* Mutant: only a request names what to clear, and a restart forgets it.
Cleared_OnRequest(request, ledger, d) == d \in request.reset

\* What a pass that publishes everything removes first.
Cleared(request, ledger, d) ==
    DirtyFrom(request) = {} /\ (d \in request.reset \/ HoursRead(ledger[d]) # {})

\* async_project_supply_point over a ledger that holds something, at hour t.
Pass(memory, rows, request, ledger, tariff, t) ==
    LET touched == Touched(memory, tariff)
        resumable == Resumable(memory, request, ledger, tariff)
        start == IF resumable = {} THEN EarliestOf(ledger) ELSE Min(resumable)
        base == IF resumable = {} THEN NoTotals ELSE memory.baselines[start]
        dirty == DirtyFrom(request)
        cost == IF IsPriceable(tariff)
                THEN CostRows(ledger[Import], tariff, start, base.cost) ELSE <<>>
    IN  [rows |->
            [energy |-> [d \in Directions |->
                Over(From(EnergyRows(ledger[d], start, base.energy[d]), dirty),
                     IF Cleared(request, ledger, d) THEN <<>> ELSE rows.energy[d])],
             cost |-> Over(From(cost, IF Repriced(memory, tariff) THEN {} ELSE dirty), rows.cost)],
         memory |-> [touched EXCEPT !.baselines =
                        Remembered(touched, ledger, tariff, start, base, t)]]
=============================================================================
