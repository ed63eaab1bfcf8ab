-------------------------- MODULE MCTariffArchive --------------------------
(* Agreements, schedules and rates for TLC.  Months of three, three, two   *)
(* and three days of two hours; the first is history only.                 *)
EXTENDS TariffArchive

MCMonthDays == [m \in 1 .. 4 |-> IF m = 3 THEN 2 ELSE 3]

\* Kansai's shape: a day that differs by season, and the night as remainder.
MCSchemes == [all_denka |-> [kansai |->
    [explicit |-> {[name |-> "summer_day", spans |-> {1}, seasons |-> {<<3, 3>>}],
                   [name |-> "other_day", spans |-> {1}, seasons |-> {<<4, 2>>}]},
     remainder |-> "night"]]]

Charge == [consumption |-> TRUE, price |-> 1, start |-> Unstated, end |-> Forever,
           from |-> Unstated, to |-> Forever, area |-> None, slot |-> None]
Step(price, start, end) == [Charge EXCEPT !.price = price, !.start = start, !.end = end]
Band(price, slot) == [Charge EXCEPT !.price = price, !.slot = slot, !.area = "kansai"]
Product(type, charges) == [type |-> type, charges |-> charges, scheme |-> None,
                           standing |-> 1, adjusted |-> TRUE]

\* Three steps, and a second generation of them from the third month on.
Ladder == {Step(1, 0, 2), Step(2, 2, 4), Step(4, 4, Forever)}
Later == {[c EXCEPT !.price = @ + 2, !.from = MonthStart[3]] : c \in Ladder}
Stepped == Product("stepped", {[c EXCEPT !.to = MonthStart[3]] : c \in Ladder} \cup Later)
Single == [Product("single", {Charge}) EXCEPT !.adjusted = FALSE]
Unmeasured == Product("stepped", {[c EXCEPT !.consumption = c.start # 0] : c \in Ladder})
Bands == {Band(3, "summer_day"), Band(2, "other_day"), Band(1, "night")}
Timed(charges, scheme) == [Product("single", charges) EXCEPT !.scheme = scheme]
Export == Product("fit", {})

Agreement(product, from, to) == [product |-> product, from |-> from, to |-> to, revoked |-> FALSE]
Now(product) == Agreement(product, 0, Forever)
MCOffers ==
    {{Now(Stepped)}, {Now(Single), Agreement(Export, 1, Forever)}, {Now(Unmeasured)},
     {Now(Timed(Bands, "all_denka"))}, {Now(Timed(Bands, None))},
     {Now(Timed(Bands \ {Band(1, "night")}, "all_denka"))},
     {Now(Timed(Bands \cup {Band(2, "night")}, "all_denka"))},
     {Agreement(Stepped, 0, MonthStart[3]), Agreement(Single, MonthStart[3], MonthStart[4])},
     {[Now(Stepped) EXCEPT !.revoked = TRUE], Now(Export)}}

MCRates == [kind \in Kinds |-> [m \in 1 .. 4 |-> m]]
MCBaseline ==
    {[kind |-> "levy", from |-> MonthStart[m], to |-> MonthStart[m + 2], price |-> m, area |-> None] :
        m \in {2}}
    \cup {[kind |-> "fuel", from |-> MonthStart[m], to |-> MonthStart[m + 1], price |-> 9,
           area |-> "kansai"] : m \in {2, 3}}
\* Hours without consumption, and hours that cross both ends of a step.
MCProfiles == {[hour \in Hours |-> IF hour % 4 = 1 THEN 5 ELSE (hour % 4) \div 2]}
=============================================================================
