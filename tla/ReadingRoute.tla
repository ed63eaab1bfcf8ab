---------------------------- MODULE ReadingRoute ----------------------------
(***************************************************************************)
(* One request for the readings of a direction: api/readings.py and        *)
(* async_paginate of api/discovery.py.                                     *)
(*                                                                         *)
(* The router asks the current model, series by series and page by page,   *)
(* and falls back to the older one only when the current model is shown    *)
(* not to serve this point.  Meanwhile the provider keeps revising what it *)
(* offers, so the pages of one answer are not of one instant.              *)
(*                                                                         *)
(* A reading is its slot and what it says; a malformed one covers less     *)
(* than its half hour.  Conversions of dates, decimals and units are left  *)
(* out: a field that cannot be read is the failure "invalid".              *)
(***************************************************************************)
EXTENDS ApiErrors, Integers

CONSTANTS LastTarget,    \* the series of the point are targets 1 .. LastTarget
          LastSlot,      \* the window is slots 1 .. LastSlot
          PageSize,
          MaxPages,
          Values,
          Found,         \* what discovery may have found of the point
          Errors,        \* the sets of details the provider may answer with
          MaxRevisions   \* bound: revisions while the request is in flight

VARIABLES
    capabilities,  \* what discovery found
    offered,       \* per series and slot, the entries the provider lists
    since,         \* history: what it listed at some time since the stamp
    request,       \* the query in progress
    readings,      \* what the finished queries returned
    reason,        \* of the fallback, or "none"
    cause,         \* history: the failure that made the router fall back
    outcome,       \* how the request ended
    revisions

vars == <<capabilities, offered, since, request, readings, reason, cause, outcome,
          revisions>>

-----------------------------------------------------------------------------
Availability == {"supported", "unsupported", "forbidden", "unknown"}
Excluded == {"unsupported", "forbidden"}
Directions == {"import", "export"}
Capabilities ==
    [generic : Availability, import : BOOLEAN, export : BOOLEAN, quality : BOOLEAN,
     half_hourly : Availability, interval : Availability,
     point : Directions \cup {"unknown"}, direction : Directions]

ASSUME RouteAssumption ==
    /\ LastTarget \in Nat \ {0} /\ LastSlot \in Nat \ {0}
    /\ PageSize \in Nat \ {0} /\ MaxPages \in Nat \ {0} /\ Values # {}
    /\ Found \subseteq Capabilities /\ Errors \subseteq SUBSET Details
    /\ MaxRevisions \in Nat

Slots == 1 .. LastSlot
Targets == 1 .. LastTarget
Serial(source, target) == [source |-> source, target |-> target]
GenericSeries == {Serial("generic", t) : t \in Targets}
Sources == {"half_hourly", "interval"}
LegacySeries == {Serial(s, 0) : s \in Sources}
Series == GenericSeries \cup LegacySeries

Entries == [value : Values, whole : BOOLEAN]
Whole(value) == [value |-> value, whole |-> TRUE]
Readings == [series : Series, slot : Slots, entry : Entries]

\* _is_self_consistent: an interval of the billing period has no fixed span.
IsConsistent(reading) == reading.entry.whole \/ reading.series.source = "interval"

\* _deduplicate_readings
Deduplicated(found) == {r \in found : IsConsistent(r)}
HasConflict(found) ==
    \E r, s \in Deduplicated(found) :
        r.series = s.series /\ r.slot = s.slot /\ r.entry.whole = s.entry.whole /\ r # s

\* candidate_directions, for a direction not asked for before.
LegacyMayWork(c) == \E s \in Sources : c[s] \notin Excluded
Candidates(c) ==
    {d \in Directions : \/ c.point = d \/ c[d]
                        \/ d = "import" /\ c.point = "unknown" /\ LegacyMayWork(c)}
LegacyDirection(c) == IF c.point = "unknown" THEN "import" ELSE c.point
Sourced(c) == {s \in Sources : c[s] \notin Excluded}

Idle == [step |-> "idle", target |-> 0, quality |-> FALSE, after |-> 0, seen |-> {},
         pages |-> 0, found |-> {}]
Unended == [kind |-> "none", class |-> "none", series |-> {}]
NoCause == Failure("none", {})

RouteTypeOK ==
    /\ capabilities \in Capabilities
    /\ offered \in [Series -> [Slots -> SUBSET Entries]]
    /\ readings \subseteq Readings
    /\ request.step \in {"idle", "generic", "ended"} \cup Sources
    /\ request.target \in 0 .. LastTarget
    /\ request.seen \subseteq Nat /\ request.pages \in 0 .. MaxPages
    /\ request.found \subseteq Readings
    /\ outcome.kind \in {"none", "answer", "error"}
    /\ outcome.kind = "error" => outcome.class \in Classes

Init ==
    /\ capabilities \in {c \in Found : c.direction \in Candidates(c)}
    /\ offered = [s \in Series |-> [t \in Slots |-> {Whole(CHOOSE v \in Values : TRUE)}]]
    /\ since = [s \in Series |-> [t \in Slots |-> {}]]
    /\ request = Idle /\ readings = {} /\ reason = "none" /\ cause = NoCause
    /\ outcome = Unended /\ revisions = 0

-----------------------------------------------------------------------------
(* The provider lists, withdraws, restates or garbles one reading.         *)
Revise ==
    /\ revisions < MaxRevisions /\ revisions' = revisions + 1
    /\ request.step # "ended"
    /\ \E s \in Series, t \in Slots, said \in SUBSET Entries :
        /\ Cardinality(said) <= 2 /\ said # offered[s][t]
        /\ Cardinality({e \in said : ~e.whole}) <= 1
        /\ offered' = [offered EXCEPT ![s][t] = said]
        /\ since' = [since EXCEPT ![s][t] = @ \cup {said}]
    /\ UNCHANGED <<capabilities, request, readings, reason, cause, outcome>>

-----------------------------------------------------------------------------
(* How a request ends, and how it falls back.                              *)
\* A provider stamps its readings before its first query.
Stamps == since' = [s \in Series |-> [t \in Slots |-> {offered[s][t]}]]

Ends(result) ==
    /\ request' = [Idle EXCEPT !.step = "ended"]
    /\ outcome' = result
Errs(class) == Ends([Unended EXCEPT !.kind = "error", !.class = class])

AnswersWith(found, series) ==
    /\ readings' = Deduplicated(found)
    /\ IF HasConflict(found) THEN Errs("invalid")
       ELSE Ends([kind |-> "answer", class |-> "none", series |-> series])

\* The first legacy source at or after the given one that is not excluded.
LegacySource(from) ==
    IF from = "half_hourly" /\ capabilities.half_hourly \notin Excluded THEN "half_hourly"
    ELSE IF capabilities.interval \notin Excluded THEN "interval" ELSE "none"

LegacyAuthority == {s \in LegacySeries : s.source \in Sourced(capabilities)}

\* _legacy_batch: what the current model has returned so far is dropped.
FallsBack(why, failure) ==
    /\ reason' = why
    /\ cause' = failure
    /\ readings' = {}
    /\ Stamps
    /\ IF capabilities.direction # LegacyDirection(capabilities)
          \/ LegacySource("half_hourly") = "none"
       THEN Errs("no_provider")
       ELSE /\ request' = [Idle EXCEPT !.step = LegacySource("half_hourly")]
            /\ UNCHANGED outcome

\* Asking one series from its first page.
SeriesQuery(target, quality) ==
    [Idle EXCEPT !.step = "generic", !.target = target, !.quality = quality]

\* ReadingProviderRouter.async_get_readings, up to the first query.
Begins ==
    /\ request.step = "idle"
    /\ CASE capabilities.generic = "forbidden" -> FallsBack("capability_forbidden", NoCause)
         [] \/ capabilities.generic = "unsupported"
            \/ capabilities.generic # "forbidden" /\ ~capabilities[capabilities.direction]
                -> FallsBack("capability_unsupported", NoCause)
         [] OTHER ->
            /\ request' = SeriesQuery(1, capabilities.quality)
            /\ Stamps
            /\ UNCHANGED <<readings, reason, cause, outcome>>
    /\ UNCHANGED <<capabilities, offered, revisions>>

-----------------------------------------------------------------------------
(* One page of one series.                                                 *)
OfSlots(series, slots) ==
    UNION {{[series |-> series, slot |-> t, entry |-> e] : e \in offered[series][t]} :
                t \in slots}

\* parse_generic_readings_page: cursors stand for the last slot of a page.
PageAfter(target, cursor) ==
    OfSlots(Serial("generic", target), Slots \cap (cursor + 1) .. (cursor + PageSize))

\* Mutant: a page takes the place of the pages before it.
Collected_LastPage(page) == page
Collected(page) == request.found \cup page

\* The series is complete: the next one, or the answer.
SeriesEnds(found) ==
    IF request.target < LastTarget
    THEN /\ request' = SeriesQuery(request.target + 1, capabilities.quality)
         /\ readings' = readings \cup Deduplicated(found)
         /\ UNCHANGED outcome
    ELSE AnswersWith(readings \cup found, GenericSeries)

\* Mutant: pages are asked for as long as there are more.
NextPage_Endless(page, cursor) ==
    /\ request' = [request EXCEPT !.after = cursor, !.seen = @ \cup {cursor},
                                  !.pages = @ + 1, !.found = Collected(page)]
    /\ UNCHANGED <<readings, outcome>>

\* async_paginate: another page, unless its cursor repeats or the pages are
\* too many.
NextPage(page, cursor) ==
    IF cursor \in request.seen \/ request.pages + 1 >= MaxPages
    THEN Errs("invalid") /\ UNCHANGED readings
    ELSE /\ request' = [request EXCEPT !.after = cursor, !.seen = @ \cup {cursor},
                                       !.pages = @ + 1, !.found = Collected(page)]
         /\ UNCHANGED <<readings, outcome>>

\* The provider is honest about further pages, or repeats a cursor, or
\* promises a page for ever, or forgets the cursor.
PageArrives ==
    /\ request.step = "generic"
    /\ LET page == PageAfter(request.target, request.after)
           last == request.after + PageSize
       IN  IF HasConflict(page) THEN Errs("invalid") /\ UNCHANGED readings
           ELSE \/ IF last < LastSlot THEN NextPage(page, last)
                   ELSE SeriesEnds(Collected(page))
                \/ last >= LastSlot /\ NextPage(page, last)
                \/ \E cursor \in request.seen : NextPage(page, cursor)
                \/ Errs("invalid") /\ UNCHANGED readings
    /\ UNCHANGED <<capabilities, offered, since, reason, cause, revisions>>

-----------------------------------------------------------------------------
(* One query fails.                                                        *)
\* A field that was not selected cannot be refused.
Refusals == [quality \in BOOLEAN |->
    FailuresOf({details \in Errors : quality \/ \A d \in details : "qualities" \notin d.path})
        \cup {Failure("unavailable", {})}]
LegacyRefusals == {failure.class : failure \in FailuresOf(Errors)}

OnlyQualities(failure) ==
    /\ failure.class = "authorization" /\ failure.details # {}
    /\ \A d \in failure.details : "qualities" \in d.path

\* Mutant: one detail below the supply point is enough.
IsPermissionGap_Some(failure) ==
    /\ failure.class = "authorization"
    /\ \E d \in failure.details : d.path \cap GenericFields # {}
IsPermissionGap(failure) ==
    /\ failure.class = "authorization" /\ failure.details # {}
    /\ \A d \in failure.details : d.code # "refused" /\ d.path \cap GenericFields # {}

IsDisabledField(failure) ==
    /\ failure.class = "validation"
    /\ \E d \in failure.details : d.code = "disabled" \/ d.type = "disabled"

\* Mutant: the series is asked again as it was.
WithoutQuality_Again == SeriesQuery(request.target, request.quality)
WithoutQuality == SeriesQuery(request.target, FALSE)

\* _async_fetch_series, then the router.
QueryFails ==
    /\ request.step = "generic"
    /\ \E failure \in Refusals[request.quality] :
        \/ /\ request.quality /\ OnlyQualities(failure)
           /\ request' = WithoutQuality
           /\ UNCHANGED <<since, readings, reason, cause, outcome>>
        \/ /\ ~(request.quality /\ OnlyQualities(failure))
           /\ CASE IsPermissionGap(failure) -> FallsBack("permission_gap", failure)
                [] failure.class = "unavailable" -> FallsBack("point_unavailable", failure)
                [] IsDisabledField(failure) -> FallsBack("field_disabled", failure)
                [] OTHER -> /\ Errs(failure.class)
                            /\ UNCHANGED <<since, readings, reason, cause>>
    /\ UNCHANGED <<capabilities, offered, revisions>>

-----------------------------------------------------------------------------
(* The older model: one query per source.                                  *)
LegacyArrives ==
    /\ request.step \in Sources
    /\ LET said == OfSlots(Serial(request.step, 0), Slots)
           next == IF request.step = "half_hourly" THEN LegacySource("interval") ELSE "none"
       IN  IF HasConflict(said) THEN Errs("invalid") /\ UNCHANGED readings
           ELSE IF next = "none" THEN AnswersWith(readings \cup said, LegacyAuthority)
           ELSE /\ readings' = readings \cup Deduplicated(said)
                /\ request' = [Idle EXCEPT !.step = next]
                /\ UNCHANGED outcome
    /\ UNCHANGED <<capabilities, offered, since, reason, cause, revisions>>

LegacyFails ==
    /\ request.step \in Sources
    /\ \E class \in LegacyRefusals : Errs(class)
    /\ UNCHANGED <<capabilities, offered, since, readings, reason, cause, revisions>>

Steps == Begins \/ PageArrives \/ QueryFails \/ LegacyArrives \/ LegacyFails
Next == Steps \/ Revise
Spec == Init /\ [][Next]_vars /\ WF_vars(Steps)

-----------------------------------------------------------------------------
(* Properties.                                                             *)

\* What an answer is authoritative for, it states: in every slot of every
\* such series exactly what was listed at some time since its stamp, less
\* what contradicts its own span.  The ledger deletes whatever an answer of
\* this kind does not mention, so a lost page or series would cost history.
Stated(series, slot) ==
    {r.entry : r \in {q \in readings : q.series = series /\ q.slot = slot}}
AnswersAreComplete ==
    outcome.kind = "answer" =>
        /\ \A r \in readings : r.series \in outcome.series
        /\ \A s \in outcome.series, t \in Slots :
            \E said \in since[s][t] :
                Stated(s, t) = {e \in said : e.whole \/ s.source = "interval"}

\* The older model is asked only about a gap of the current one: never
\* because of an outage, a rate limit, an expired sign-in or a principal
\* that is refused, however these are mixed with other errors, and never
\* for the quality of a reading alone.
OnlyGapsFallBack ==
    cause # NoCause =>
        /\ cause.class \notin Transport \cup {"rate_limit", "authentication"}
        /\ CodesIn(cause.details) \cap {"rate", "expired", "refused"} = {}
        /\ cause.class = "authorization" =>
            \A d \in cause.details : d.path \cap GenericFields # {}
        /\ capabilities.quality /\ cause.class = "authorization" =>
            \E d \in cause.details : "qualities" \notin d.path

\* Every request ends, whatever the provider says of its pages.
RequestEnds == (request.step # "idle") ~> (request.step = "ended")
=============================================================================
