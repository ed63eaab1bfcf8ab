---------------------------- MODULE TariffQuery ----------------------------
(***************************************************************************)
(* What one supply point is charged, out of the provider's agreements      *)
(* (api/tariff.py), and the hours a time-of-use band covers (api/tou.py).  *)
(*                                                                         *)
(* Time is a count of hours in Japan's time zone.  A day has DayHours of   *)
(* them, the months the given days; the first month is only there for a    *)
(* billing period to begin in.  A price is a positive number, and a field  *)
(* the provider leaves out is None, Unstated (a start) or Forever (an      *)
(* end).                                                                   *)
(***************************************************************************)
EXTENDS Integers, FiniteSets, FiniteSetsExt, Functions

CONSTANTS DayHours,    \* hours of a day
          MonthDays,   \* days of each month, a sequence
          Schemes      \* scheme -> area -> AreaSchedule

ASSUME TariffQueryAssumption ==
    /\ DayHours \in Nat \ {0}
    /\ IsFiniteSet(DOMAIN MonthDays) /\ DOMAIN MonthDays = 1 .. Cardinality(DOMAIN MonthDays)
    /\ \A m \in DOMAIN MonthDays : MonthDays[m] \in Nat \ {0}

None == "none"
Unstated == -1
Months == DOMAIN MonthDays
LastMonth == Cardinality(Months)
MonthStart == [m \in 1 .. LastMonth + 1 |->
                  DayHours * SumFunctionOnSet(MonthDays, 1 .. m - 1)]
Forever == MonthStart[LastMonth + 1]
Hours == MonthStart[2] .. Forever - 1
MonthOf == [hour \in Hours |->
              CHOOSE m \in Months : MonthStart[m] <= hour /\ hour < MonthStart[m + 1]]

-----------------------------------------------------------------------------
(* Time of use.                                                            *)

\* SeasonSpan.contains, by the month: it may wrap the turn of the year.
InSeason(season, month) ==
    IF season[1] <= season[2] THEN season[1] <= month /\ month <= season[2]
    ELSE month >= season[1] \/ month <= season[2]

\* No spans is the whole day, no seasons the whole year.
Covers(slot, hour) ==
    /\ slot.seasons = {} \/ \E season \in slot.seasons : InSeason(season, MonthOf[hour])
    /\ slot.spans = {} \/ hour % DayHours \in slot.spans

SlotNames(area) == {slot.name : slot \in area.explicit} \cup {area.remainder}

SlotAt(area, hour) ==
    LET matched == {slot \in area.explicit : Covers(slot, hour)}
    IN  IF Cardinality(matched) > 1 THEN None
        ELSE IF matched = {} THEN area.remainder
        ELSE (CHOOSE slot \in matched : TRUE).name

AreaOf(scheme, area) ==
    IF scheme \in DOMAIN Schemes /\ area \in DOMAIN Schemes[scheme]
    THEN Schemes[scheme][area] ELSE [explicit |-> {}, remainder |-> None]
IsKnown(area) == area.remainder # None

\* Every hour of every schedule resolves to exactly one slot, as
\* tests/test_tou.py has it of the ones transcribed.
ASSUME SchemesAssumption ==
    \A scheme \in DOMAIN Schemes : \A area \in DOMAIN Schemes[scheme] :
        LET explicit == Schemes[scheme][area].explicit
        IN  /\ \A slot \in explicit : slot.name # None
            /\ \A hour \in Hours : \A a, b \in explicit :
                    Covers(a, hour) /\ Covers(b, hour) => a = b

-----------------------------------------------------------------------------
(* Rates and their generations.                                            *)
Window(rate) == <<rate.from, rate.to>>

\* _generation_at: the first generation that covers the moment, else the
\* last that had begun, else the earliest.
GenerationAt(rates, moment) ==
    LET windows == {Window(r) : r \in rates}
        begun == {w \in windows : w[1] <= moment}
        covering == {w \in begun : moment < w[2]}
        earliest(set) == CHOOSE w \in set : \A other \in set : w[1] <= other[1]
        latest(set) == CHOOSE w \in set : \A other \in set : w[1] >= other[1]
        chosen == IF covering # {} THEN earliest(covering)
                  ELSE IF begun # {} THEN latest(begun) ELSE earliest(windows)
    IN  IF Cardinality(windows) <= 1 THEN rates ELSE {r \in rates : Window(r) = chosen}

StepsAt(tariff, moment) == GenerationAt(tariff.steps, moment)

\* price_for_slot: a generation of this slot's own bands.
PriceForSlot(tariff, slot, moment) ==
    LET chosen == GenerationAt({b \in tariff.bands : b.slot = slot}, moment)
    IN  IF chosen = {} THEN 0 ELSE (CHOOSE b \in chosen : TRUE).price

-----------------------------------------------------------------------------
(* One agreement out of several.                                           *)
ConsumptionProducts == {"stepped", "single"}
Consumes(agreement) == agreement.product.type \in ConsumptionProducts

\* _select_tariff_source.  Only the end of an agreement is looked at.
Candidates(agreements) == {a \in agreements : ~a.revoked /\ Consumes(a)}
Live(agreements, now) == {a \in Candidates(agreements) : now < a.to}
NoProduct == [type |-> None, charges |-> {}, scheme |-> None, standing |-> 0, adjusted |-> FALSE]
NoSource == [product |-> NoProduct, estimate |-> FALSE, several |-> FALSE]
SelectTariffSource(agreements, now) ==
    LET live == Live(agreements, now)
        candidates == Candidates(agreements)
        best == CHOOSE a \in live : \A other \in live : a.from >= other.from
    IN  IF live # {} THEN [NoSource EXCEPT !.product = best.product]
        ELSE IF Cardinality(candidates) = 1
        THEN [product |-> (CHOOSE a \in candidates : TRUE).product, estimate |-> TRUE, several |-> FALSE]
        ELSE [NoSource EXCEPT !.several = candidates # {}]

NoAdder == [kind |-> None, from |-> Unstated, to |-> Forever, price |-> 0]
NoTariff == [reason |-> "absent", steps |-> {}, bands |-> {}, scheme |-> None, area |-> None,
             estimate |-> FALSE, standing |-> 0, fuel |-> NoAdder, levy |-> NoAdder]
Refused(reason) == [NoTariff EXCEPT !.reason = reason]
IsPriceable(tariff) == tariff.reason = None /\ tariff.steps \cup tariff.bands # {}
IsTimeOfUse(tariff) == tariff.bands # {}

\* Mutant: a slot without a price is left to the projection.
Resolve_AnyBands(tariff, named) ==
    LET scheme == IF named # None THEN named ELSE tariff.scheme
    IN  [tariff EXCEPT !.scheme = scheme,
             !.reason = IF IsKnown(AreaOf(scheme, tariff.area)) THEN None ELSE "scheme_unknown"]

\* resolve_time_of_use
Resolve(tariff, named) ==
    LET scheme == IF named # None THEN named ELSE tariff.scheme
        area == AreaOf(scheme, tariff.area)
        \* Two charges that differ in their price alone.
        ambiguous == \E a, b \in tariff.bands : a # b /\ a.slot = b.slot /\ Window(a) = Window(b)
    IN  IF tariff.bands = {} THEN tariff
        ELSE [tariff EXCEPT !.scheme = scheme, !.reason =
            IF ~IsKnown(area) THEN "scheme_unknown"
            ELSE IF ~(SlotNames(area) \subseteq {b.slot : b \in tariff.bands})
            THEN "bands_incomplete"
            ELSE IF ambiguous THEN "bands_ambiguous" ELSE None]

\* A charge without a price, a band without a slot, and a step without its
\* boundary (but for a product that has none) are passed over.
Priced(charges) == {c \in charges : c.price # 0}
BandsOf(product) ==
    {[slot |-> c.slot, price |-> c.price, from |-> c.from, to |-> c.to] :
        c \in {c \in Priced(product.charges) : c.slot # None}}
StepsOf(product) ==
    {[start |-> IF c.start = Unstated THEN 0 ELSE c.start, end |-> c.end, price |-> c.price,
      from |-> c.from, to |-> c.to] :
        c \in {c \in Priced(product.charges) : c.start # Unstated \/ product.type = "single"}}

\* _parse_product and _parse_time_of_use, the adders as they are in force.
\* Only bands tell the grid area: a stepped tariff has none.
ParseProduct(source, fuel, levy) ==
    LET product == source.product
        areas == {c.area : c \in product.charges} \ {None}
        timed == \E c \in product.charges : c.slot # None
        based == [NoTariff EXCEPT !.reason = None, !.estimate = source.estimate,
                      !.standing = product.standing, !.levy = levy,
                      !.fuel = IF product.adjusted THEN fuel ELSE NoAdder]
    IN  IF Cardinality(areas) > 1 THEN [based EXCEPT !.reason = "mixed_operator"]
        ELSE IF \E c \in product.charges : ~c.consumption
        THEN [based EXCEPT !.reason = "unsupported_unit"]
        ELSE IF timed
        THEN Resolve([based EXCEPT !.bands = BandsOf(product), !.scheme = product.scheme,
                          !.area = IF areas = {} THEN None ELSE CHOOSE a \in areas : TRUE], None)
        ELSE [based EXCEPT !.steps = StepsOf(product),
                           !.reason = IF StepsOf(product) = {} THEN "no_charges" ELSE None]

\* parse_supply_point_tariffs, for one supply point.
Parsed(agreements, now, fuel, levy) ==
    LET source == SelectTariffSource(agreements, now)
    IN  IF source.product # NoProduct THEN ParseProduct(source, fuel, levy)
        ELSE IF source.several THEN Refused("agreement_history")
        ELSE IF \E a \in agreements : Consumes(a) THEN Refused("agreement_lapsed")
        ELSE NoTariff

\* _async_name_missing_schemes: asked once more, for a product without a name.
Named(tariff, summary) ==
    IF tariff.reason = "scheme_unknown" /\ tariff.scheme = None /\ tariff.area # None /\ summary # None
    THEN Resolve(tariff, summary) ELSE tariff
=============================================================================
