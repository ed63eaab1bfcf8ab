--------------------------- MODULE TariffArchive ---------------------------
(***************************************************************************)
(* The commercial coordinator's refresh (commercial_coordinator.py), the   *)
(* archive of adders it feeds (tariff_history.py, tariff_history_store.py) *)
(* and what an hour is priced with (adders_for in __init__.py).            *)
(*                                                                         *)
(* A fuel adjustment is in force for a month, the levy for two.  The       *)
(* provider serves only what is in force, and may restate it.  Each        *)
(* account has one supply point.  What is read besides the tariff only     *)
(* matters here when the sign-in is refused.                               *)
(***************************************************************************)
EXTENDS TariffCost

CONSTANTS Points,        \* supply points
          Offers,        \* sets of agreements a supply point may have
          Rates,         \* the public price of an adder: kind -> month -> price
          Baseline,      \* the shipped table: levy, and fuel by area
          Profiles,      \* consumption to price: hour -> units
          MaxChanges,    \* bound: agreements changed, adders restated
          MaxFaults      \* bound: failed reads, damaged files, restarts

ASSUME ArchiveAssumption ==
    /\ MaxChanges \in Nat /\ MaxFaults \in Nat /\ LastMonth > 1
    /\ \A kind \in Kinds, m \in Months : Rates[kind][m] \in Nat \ {0}

\* The window of an adder that is in force in a month.
WindowOf(kind, m) ==
    IF kind = "fuel" THEN <<m, m + 1>>
    ELSE LET first == m - (m % 2) IN <<first, Min({first + 2, LastMonth + 1})>>

\* The shipped table was read off the same provider: its windows are those
\* the provider serves.
ASSUME BaselineAssumption ==
    \A r \in Baseline : r.kind \in Kinds /\
        \E m \in 2 .. LastMonth : LET window == WindowOf(r.kind, m)
                               IN  r.from = MonthStart[window[1]] /\ r.to = MonthStart[window[2]]

\* The steps of one generation: from the first unit up, without a hole.
IsLadder(steps) ==
    /\ IsFiniteSet(steps) /\ \E s \in steps : s.start = 0
    /\ \A s \in steps : s.start \in Nat /\ s.end \in Nat /\ s.start < s.end /\ s.price \in Nat
    /\ \A s, t \in steps :
        /\ s.start = t.start => s = t
        /\ s.start < t.start => s.end <= t.start /\ \E u \in steps : u.start = s.end

\* Agreements and charges state the hour they begin, or leave it out, and
\* steps follow one another, as in the answers tests/test_tariff.py holds.
ASSUME OffersAssumption ==
    \A offer \in Offers : \A agreement \in offer :
        LET product == agreement.product
            timed == \E charge \in product.charges : charge.slot # None
        IN  /\ agreement.from \in {Unstated} \cup 0 .. Forever
            /\ \A charge \in product.charges : charge.from \in {Unstated} \cup 0 .. Forever
            /\ ~timed /\ StepsOf(product) # {} =>
                    \A hour \in Hours : IsLadder(GenerationAt(StepsOf(product), hour))

ASSUME ProfilesAssumption ==
    \A kwh \in Profiles : DOMAIN kwh \subseteq Hours /\ \A hour \in DOMAIN kwh : kwh[hour] \in Nat

VARIABLES
    month,       \* now
    restated,    \* adders the provider has restated
    agreements,  \* what each supply point has agreed to
    running,     \* the entry is set up: TRUE, or FALSE once it is removed
    refresh,     \* the refresh in progress
    data,        \* the coordinator's data: a tariff per supply point
    file,        \* each supply point's file
    store,       \* its TariffHistoryStore
    late,        \* a save an earlier store still has to make
    baseline,    \* the shipped table, as far as it could be read
    filed,       \* history: what was filed, and not lost with a crash
    escaped,     \* history: supply points a failed load has left with a store
                 \* that is not their file's, or with data older than it
    changes, faults

vars == <<month, restated, agreements, running, refresh, data, file, store, late, baseline,
          filed, escaped, changes, faults>>
provider == <<month, restated, agreements>>
budget == <<changes, faults>>

-----------------------------------------------------------------------------
NoFile == [exists |-> FALSE, damaged |-> FALSE, records |-> {}]
NoStore == [state |-> "none", records |-> {}, pending |-> FALSE]
Quarantined == [NoStore EXCEPT !.state = "quarantined"]
Unread == [NoStore EXCEPT !.state = "unread"]
Idle == [step |-> "idle", left |-> {}, got |-> [p \in Points |-> NoTariff]]
NoData == [p \in Points |-> NoTariff]
NotLate == [waiting |-> FALSE, records |-> {}]

\* What the provider serves: the window the month lies in, and its price.
Span(kind) == WindowOf(kind, month)
Served(kind) ==
    [kind |-> kind, from |-> MonthStart[Span(kind)[1]], to |-> MonthStart[Span(kind)[2]],
     price |-> Rates[kind][Span(kind)[1]] + IF <<kind, Span(kind)[1]>> \in restated THEN 1 ELSE 0]

Key(record) == <<record.kind, record.from, record.to>>
KeysOf(records) == {Key(r) : r \in records}
OnePerWindow(records) == Cardinality(KeysOf(records)) = Cardinality(records)

TariffTypeOK ==
    /\ month \in Months /\ running \in BOOLEAN
    /\ refresh.step \in {"idle", "read", "file", "reprice"} /\ refresh.left \subseteq Points
    /\ \A p \in Points :
        /\ OnePerWindow(file[p].records) /\ OnePerWindow(store[p].records)
        /\ ~file[p].exists => file[p] = NoFile
        /\ store[p].state \in {"none", "loaded", "quarantined", "unread"}
        /\ store[p].state \in {"none", "quarantined"} => store[p] \in {NoStore, Quarantined}
        /\ store[p].state = "unread" => p \in escaped
        /\ p \in escaped => filed[p] = {}
        /\ late[p].waiting => OnePerWindow(late[p].records)

Init ==
    /\ month = 2 /\ restated = {} /\ running = TRUE
    /\ agreements \in [Points -> Offers]
    /\ refresh = Idle /\ data = NoData
    /\ file = [p \in Points |-> NoFile] /\ store = [p \in Points |-> NoStore]
    /\ late = [p \in Points |-> NotLate] /\ filed = [p \in Points |-> {}]
    /\ escaped = {}
    /\ baseline \in {Baseline, {}}
    /\ changes = 0 /\ faults = 0

-----------------------------------------------------------------------------
(* The provider.  A refresh and the debounced save it leaves are over      *)
(* within seconds: before a month turns or an agreement changes.           *)
Settled ==
    /\ refresh.step \in {"idle", "reprice"}
    /\ \A p \in Points : ~store[p].pending /\ ~late[p].waiting

Tick ==
    /\ month < LastMonth /\ Settled /\ month' = month + 1
    /\ UNCHANGED <<restated, agreements, running, refresh, data, file, store, late, baseline,
                   filed, escaped, budget>>

Restates ==
    /\ changes < MaxChanges /\ changes' = changes + 1
    /\ \E kind \in Kinds : restated' = restated \cup {<<kind, Span(kind)[1]>>}
    /\ UNCHANGED <<month, agreements, running, refresh, data, file, store, late, baseline,
                   filed, escaped, faults>>

Switches ==
    /\ changes < MaxChanges /\ changes' = changes + 1 /\ Settled
    /\ \E p \in Points, offer \in Offers : agreements' = [agreements EXCEPT ![p] = offer]
    /\ UNCHANGED <<month, restated, running, refresh, data, file, store, late, baseline, filed,
                   escaped, faults>>

-----------------------------------------------------------------------------
(* The archive.                                                            *)

\* observed_adders, those with a period to file them under.
Observed(tariff) == LiveSchedule(tariff)

\* Mutant: a restated window joins the one it restates.
MergeObserved_KeepsBoth(records, observed) == records \cup observed
\* merge_observed: one record a window, the last statement wins.
MergeObserved(records, observed) ==
    {r \in records : Key(r) \notin KeysOf(observed)} \cup observed

\* Mutant: the shipped table wins.
WithBaseline_Wins(observed, shipped) == MergeObserved(observed, shipped)
\* with_baseline: only for windows nothing was observed for.
WithBaseline(observed, shipped) == MergeObserved(shipped, observed)

\* baseline_schedule: the fuel adjustment needs an area.
BaselineFor(tariff) ==
    {[kind |-> r.kind, from |-> r.from, to |-> r.to, price |-> r.price] :
        r \in {r \in baseline : r.kind = "levy" \/ r.area = tariff.area}}

\* adders_for: no fuel adjustment is shipped for a product known to have none.
AddersFor(p) ==
    LET tariff == data[p]
        absent == tariff.reason # "absent" /\ tariff.fuel = NoAdder
    IN  WithBaseline(store[p].records,
                     {r \in BaselineFor(tariff) : absent => r.kind # "fuel"})

\* _pricing_inputs of statistics_runtime.py.
PricedWith(p) == IF AddersFor(p) # {} THEN AddersFor(p) ELSE LiveSchedule(data[p])

\* TariffHistoryStore.async_load, for a store the archive does not have yet:
\* an OSError or a payload that does not parse is left alone.
Loaded(p, unreadable) ==
    IF store[p].state # "none" THEN store[p]
    ELSE IF file[p].damaged \/ unreadable THEN Quarantined
    ELSE [NoStore EXCEPT !.state = "loaded", !.records = file[p].records]

\* Mutant: async_replace saves whatever the store is.
Replaced_Always(loaded, merged) ==
    IF merged = loaded.records THEN loaded
    ELSE [state |-> "loaded", records |-> merged, pending |-> TRUE]
\* async_replace, called when something changed.
Replaced(loaded, merged) ==
    IF merged = loaded.records \/ loaded.state = "quarantined" THEN loaded
    ELSE [loaded EXCEPT !.records = merged, !.pending = TRUE]

-----------------------------------------------------------------------------
(* One refresh.                                                            *)
RefreshBegins ==
    /\ running /\ refresh.step = "idle"
    /\ refresh' = [Idle EXCEPT !.step = "read", !.left = Points]
    /\ UNCHANGED <<provider, running, data, file, store, late, baseline, filed, escaped, budget>>

\* Left to do once this account's answer is here.
Got(p, tariff) ==
    LET got == [refresh.got EXCEPT ![p] = tariff]
        left == refresh.left \ {p}
    IN  refresh' = IF left # {} THEN [refresh EXCEPT !.left = left, !.got = got]
                   ELSE [step |-> "file", got |-> got,
                         left |-> {q \in Points : got[q].reason # "absent"}]

ReadsTariff ==
    /\ refresh.step = "read"
    /\ \E p \in refresh.left :
        \/ \E summary \in {None} \cup DOMAIN Schemes :
            /\ LET read == Parsed(agreements[p], MonthStart[month], Served("fuel"), Served("levy"))
               IN  Got(p, Named(read, summary))
            /\ UNCHANGED faults
        \/ /\ faults < MaxFaults /\ faults' = faults + 1
           /\ \/ Got(p, data[p])      \* an API error: the tariff read before
              \/ Got(p, NoTariff)     \* not permitted
              \/ refresh' = Idle      \* the sign-in is refused
    /\ UNCHANGED <<provider, running, data, file, store, late, baseline, filed, escaped, changes>>

\* async_observe, for one tariff.  An OSError is as good as a damaged file.
\* A supply point is promised its file again once it is opened, unless a
\* save of a store from before is still due.
Files ==
    /\ refresh.step = "file"
    /\ \E p \in refresh.left :
        /\ refresh' = [refresh EXCEPT !.left = @ \ {p}]
        /\ \E unreadable \in BOOLEAN :
            LET loaded == Loaded(p, unreadable)
                observed == Observed(refresh.got[p])
            IN  /\ unreadable => store[p].state = "none" /\ file[p].exists /\ faults < MaxFaults
                /\ faults' = IF unreadable THEN faults + 1 ELSE faults
                /\ store' = [store EXCEPT ![p] = Replaced(loaded, MergeObserved(loaded.records, observed))]
                /\ escaped' = IF store[p].state = "none" /\ ~late[p].waiting
                              THEN escaped \ {p} ELSE escaped
                /\ filed' = IF loaded.state = "quarantined" \/ p \in escaped' THEN filed
                            ELSE [filed EXCEPT ![p] = MergeObserved(@, observed)]
    /\ UNCHANGED <<provider, running, data, file, late, baseline, changes>>

\* Any other exception of the load ends the refresh.  The archive has the store
\* already: the next tariff is filed in it, and saved over the file that was
\* not read.  Who was filed before keeps the data from before.
LoadFails ==
    /\ refresh.step = "file" /\ refresh' = Idle
    /\ faults < MaxFaults /\ faults' = faults + 1
    /\ \E p \in refresh.left :
        /\ store[p].state = "none" /\ file[p].exists
        /\ store' = [store EXCEPT ![p] = Unread]
        /\ escaped' = escaped \cup {p} \cup {q \in Points \ refresh.left : refresh.got[q] # data[q]}
        /\ filed' = [q \in Points |-> IF q \in escaped' THEN {} ELSE filed[q]]
    /\ UNCHANGED <<provider, running, data, file, late, baseline, changes>>

\* The new data, and its listeners.
RefreshEnds ==
    /\ refresh.step = "file" /\ refresh.left = {}
    /\ data' = refresh.got /\ refresh' = [Idle EXCEPT !.step = "reprice"]
    /\ UNCHANGED <<provider, running, file, store, late, baseline, filed, escaped, budget>>

\* The listener's pass over the statistics has seen the new prices.
Repriced ==
    /\ refresh.step = "reprice" /\ refresh' = Idle
    /\ UNCHANGED <<provider, running, data, file, store, late, baseline, filed, escaped, budget>>

-----------------------------------------------------------------------------
(* Saves, restarts, removal.                                               *)
Written(records) == [exists |-> TRUE, damaged |-> FALSE, records |-> records]

\* The delayed save.  An earlier store's is due before this one's.
Saves ==
    /\ \E p \in Points :
        /\ store[p].pending /\ ~late[p].waiting
        /\ file' = [file EXCEPT ![p] = Written(store[p].records)]
        /\ store' = [store EXCEPT ![p].pending = FALSE]
    /\ UNCHANGED <<provider, running, refresh, data, late, baseline, filed, escaped, budget>>

\* Nothing cancels the save of a store that was unloaded.
LateSaves ==
    /\ \E p \in Points :
        /\ late[p].waiting
        /\ file' = [file EXCEPT ![p] = Written(late[p].records)]
        /\ late' = [late EXCEPT ![p] = NotLate]
    /\ UNCHANGED <<provider, running, refresh, data, store, baseline, filed, escaped, budget>>

Unloaded ==
    /\ refresh' = Idle /\ data' = NoData /\ store' = [p \in Points |-> NoStore]

Reloads ==
    /\ running /\ Unloaded
    /\ faults < MaxFaults /\ faults' = faults + 1
    /\ late' = [p \in Points |-> IF store[p].pending
                                 THEN [waiting |-> TRUE, records |-> store[p].records]
                                 ELSE late[p]]
    /\ UNCHANGED <<provider, running, file, baseline, filed, escaped, changes>>

\* Home Assistant dies.  An orderly stop makes the delayed saves first.
Crashes ==
    /\ running /\ Unloaded
    /\ faults < MaxFaults /\ faults' = faults + 1
    /\ late' = [p \in Points |-> NotLate]
    /\ filed' = [p \in Points |-> filed[p] \cap file[p].records]
    /\ UNCHANGED <<provider, running, file, baseline, escaped, changes>>

Damages ==
    /\ faults < MaxFaults /\ faults' = faults + 1
    /\ \E p \in Points :
        /\ file[p].exists /\ ~file[p].damaged /\ store[p].state = "none" /\ ~late[p].waiting
        /\ file' = [file EXCEPT ![p].damaged = TRUE]
        /\ filed' = [filed EXCEPT ![p] = {}]
    /\ UNCHANGED <<provider, running, refresh, data, store, late, baseline, escaped, changes>>

\* async_remove_entry: the entry's files go.
Removes ==
    /\ running /\ running' = FALSE /\ Unloaded
    /\ faults < MaxFaults /\ faults' = faults + 1
    /\ file' = [p \in Points |-> NoFile] /\ filed' = [p \in Points |-> {}]
    /\ late' = [p \in Points |-> IF store[p].pending
                                 THEN [waiting |-> TRUE, records |-> store[p].records]
                                 ELSE late[p]]
    /\ UNCHANGED <<provider, baseline, escaped, changes>>

-----------------------------------------------------------------------------
Next ==
    \/ Tick \/ Restates \/ Switches
    \/ RefreshBegins \/ ReadsTariff \/ Files \/ LoadFails \/ RefreshEnds \/ Repriced
    \/ Saves \/ LateSaves \/ Reloads \/ Crashes \/ Damages \/ Removes
Spec == Init /\ [][Next]_vars

-----------------------------------------------------------------------------
(* Properties.                                                             *)

\* Files hold the only copy of what the provider serves no more: no write
\* ever drops a window, and a file that was found damaged is left as it is,
\* over reloads with a save still due, until the entry is removed.  The
\* docstring promises it of every file that failed to load; the code keeps it
\* only where async_load turned the failure into a quarantine.
NothingIsForgotten ==
    [][running' =>
        \A p \in Points \ escaped :
            /\ KeysOf(file[p].records) \subseteq KeysOf(file'[p].records)
            /\ file[p].damaged => file'[p] = file[p]]_vars

\* Whenever there is a tariff to price with, every hour of every window that
\* was ever filed is priced with the last statement about it, over restarts
\* and reloads, and never with the shipped table or a neighbouring window.
ObservedRatesArePriced ==
    \A p \in Points : data[p].reason # "absent" /\ store[p].state # "quarantined" =>
        \A r \in filed[p] : \A hour \in r.from .. r.to - 1 :
            RateOf(PricedWith(p), r.kind, hour) = r.price

\* The comment in project_hourly_cost says the branch without a price should
\* be unreachable: a time-of-use tariff that passes parsing prices every hour.
EveryHourIsPriced ==
    \A p \in Points : refresh.step = "reprice" /\ IsPriceable(data[p]) =>
        Publishes(data[p], "import", [hour \in Hours |-> 1])

\* The reference: unit by unit, each at the price of the step it falls in,
\* counted from the last boundary, which is the anchor's day of a month or
\* the last day of a month too short for it.
Boundaries == [anchor \in Anchors |->
    {MonthStart[m] + DayHours * ((IF anchor = 0 THEN 1 ELSE Min({anchor, MonthDays[m]})) - 1) : m \in Months}]
UnitPrice(steps, position) ==
    (CHOOSE s \in steps : s.start <= position
                          /\ \A t \in steps : t.start <= position => t.start <= s.start).price
CostOf(steps, anchor, kwh, hour) ==
    LET begun == Max({b \in Boundaries[anchor] : b <= hour})
        before == SumFunctionOnSet(kwh, {h \in DOMAIN kwh : begun <= h /\ h < hour})
    IN  SumFunction([unit \in 0 .. kwh[hour] - 1 |-> UnitPrice(steps, before + unit)])

\* What is published for a stepped tariff is what its units cost one by one,
\* for every reading day and every profile, with the adders of the hour and an
\* hour's share of the standing charge.
UnitsAreChargedOnce ==
    \A p \in Points :
        refresh.step = "reprice" /\ IsPriceable(data[p]) /\ ~IsTimeOfUse(data[p]) =>
            \A anchor \in Anchors, kwh \in Profiles :
                LET costs == ProjectHourlyCost(data[p], anchor, PricedWith(p), "import", kwh)
                IN  \A hour \in DOMAIN kwh :
                        costs[hour] = DayHours *
                            (CostOf(StepsAt(data[p], hour), anchor, kwh, hour)
                             + kwh[hour] * RateAt(PricedWith(p), hour))
                            + data[p].standing
=============================================================================
