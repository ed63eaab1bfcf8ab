---------------------------- MODULE TariffCost ----------------------------
(***************************************************************************)
(* The price of every hour: billing_period.py, tariff_cost.py and the      *)
(* per-kWh adders of tariff_history.py.  Pure, as in the code.             *)
(*                                                                         *)
(* Consumption is a whole number of units an hour.  Home Assistant's UTC   *)
(* and the account's time zone differ by whole hours, so hours are hours   *)
(* of the account's zone here.                                             *)
(***************************************************************************)
EXTENDS TariffQuery

Kinds == {"fuel", "levy"}

-----------------------------------------------------------------------------
(* Billing periods.  Anchor 0: none is known, the calendar month.          *)

\* BillingPeriodCalendar._anchor_in: pulled back in a month too short for it.
AnchorIn(anchor, month) ==
    IF anchor = 0 THEN 1
    ELSE IF anchor > MonthDays[month] THEN MonthDays[month] ELSE anchor
DayIn == [hour \in Hours |-> (hour - MonthStart[MonthOf[hour]]) \div DayHours + 1]

\* period_start
Anchors == 0 .. Max({MonthDays[m] : m \in Months})
PeriodStart == [anchor \in Anchors |-> [hour \in Hours |->
    LET month == MonthOf[hour]
        begun == IF DayIn[hour] < AnchorIn(anchor, month) THEN month - 1 ELSE month
    IN  MonthStart[begun] + DayHours * (AnchorIn(anchor, begun) - 1)]]

-----------------------------------------------------------------------------
(* The adders.  A record's kind and window are its key.                    *)
AppliesAt(record, moment) == record.from <= moment /\ moment < record.to

\* AdderSchedule.rate_at, for one kind: the last statement covering the
\* moment, else the near end of what is known.
RateOf(records, kind, moment) ==
    LET ofKind == {r \in records : r.kind = kind}
        covering == {r \in ofKind : AppliesAt(r, moment)}
        first == CHOOSE r \in ofKind : \A s \in ofKind : r.from <= s.from
        last(set) == CHOOSE r \in set : \A s \in set : r.from >= s.from
    IN  IF ofKind = {} THEN 0
        ELSE IF covering # {} THEN last(covering).price
        ELSE IF moment < first.from THEN first.price ELSE last(ofKind).price
RateAt(records, moment) == RateOf(records, "fuel", moment) + RateOf(records, "levy", moment)

\* live_schedule: only what the provider reports right now.
LiveSchedule(tariff) == {a \in {tariff.fuel, tariff.levy} \ {NoAdder} : a.from # Unstated}

-----------------------------------------------------------------------------
(* One hour, and all of them.                                              *)
MarginalPrice(steps, position) ==
    LET containing == {s \in steps : s.start <= position /\ position < s.end}
    IN  IF steps = {} THEN 0
        ELSE IF containing # {} THEN (CHOOSE s \in containing : TRUE).price
        ELSE (CHOOSE s \in steps : \A other \in steps : s.start >= other.start).price

\* Mutant: an hour is priced at the step it begins in.
PriceAcrossSteps_Whole(steps, cumulative, kwh) == kwh * MarginalPrice(steps, cumulative)

\* _price_across_steps: cut at every boundary the hour crosses.
PriceAcrossSteps(steps, cumulative, kwh) ==
    LET ends == cumulative + kwh
        cuts == {cumulative} \cup {s.start : s \in {s \in steps : cumulative < s.start /\ s.start < ends}}
        EndOf(cut) == Min({ends} \cup {c \in cuts : c > cut})
    IN  SumFunction([cut \in cuts |-> (EndOf(cut) - cut) * MarginalPrice(steps, cut)])

BandPrice(tariff, hour) ==
    LET slot == SlotAt(AreaOf(tariff.scheme, tariff.area), hour)
    IN  IF slot = None THEN 0 ELSE PriceForSlot(tariff, slot, hour)

\* What the period had consumed before this hour, of the hours in the pass.
Before(kwh, anchor, hour) ==
    SumFunctionOnSet(kwh,
        {h \in DOMAIN kwh : h < hour /\ PeriodStart[anchor][h] = PeriodStart[anchor][hour]})

EnergyCost(tariff, anchor, kwh, hour) ==
    IF IsTimeOfUse(tariff) THEN kwh[hour] * BandPrice(tariff, hour)
    ELSE PriceAcrossSteps(StepsAt(tariff, hour), Before(kwh, anchor, hour), kwh[hour])

\* project_hourly_cost: nothing is published for export, for a tariff that is
\* refused, or once an hour falls in a slot that has no price.
Publishes(tariff, direction, kwh) ==
    /\ direction = "import" /\ IsPriceable(tariff)
    /\ IsTimeOfUse(tariff) => \A hour \in DOMAIN kwh : BandPrice(tariff, hour) # 0

\* The standing charge is counted DayHours-fold, its hours being fractions.
ProjectHourlyCost(tariff, anchor, adders, direction, kwh) ==
    IF ~Publishes(tariff, direction, kwh) THEN <<>>
    ELSE [hour \in DOMAIN kwh |->
            DayHours * (EnergyCost(tariff, anchor, kwh, hour) + kwh[hour] * RateAt(adders, hour))
            + tariff.standing]
=============================================================================
