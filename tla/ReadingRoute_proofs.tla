------------------------ MODULE ReadingRoute_proofs ------------------------
(***************************************************************************)
(* What an answer of ReadingRoute may be relied on for, with any number of *)
(* series, slots, pages and revisions, and any errors.                     *)
(*                                                                         *)
(* RouteInv says of the pages read so far what AnswersAreComplete says of  *)
(* the answer: up to the cursor, each slot holds what was listed at some   *)
(* time since the stamp.                                                   *)
(***************************************************************************)
EXTENDS ReadingRoute, TLAPS

-----------------------------------------------------------------------------
(* The inductive invariant.                                                *)
RequestType ==
    [step : {"idle", "generic", "ended"} \cup Sources, target : 0 .. LastTarget,
     quality : BOOLEAN, after : Nat, seen : SUBSET Nat, pages : 0 .. MaxPages,
     found : SUBSET Readings]

\* What is listed was listed at some time since the stamp.
ListedOK ==
    /\ offered \in [Series -> [Slots -> SUBSET Entries]]
    /\ since \in [Series -> [Slots -> SUBSET (SUBSET Entries)]]
    /\ request.step # "idle" =>
            \A s \in Series, t \in Slots : offered[s][t] \in since[s][t]

SaysOf(found, series, slot) == {e \in Entries :
    [series |-> series, slot |-> slot, entry |-> e] \in found}

\* The readings of a series are what was listed, and consistent.
IsWhole(series, found) ==
    \A t \in Slots : \E said \in since[series][t] :
        SaysOf(found, series, t) = {e \in said : e.whole \/ series.source = "interval"}

\* The readings are of these series only, and all of these series.
AllDone(done, found) ==
    /\ \A r \in found : r.series \in done /\ IsConsistent(r)
    /\ \A s \in done : IsWhole(s, found)

\* The series a request is through with.
Done ==
    IF request.step = "generic"
    THEN {Serial("generic", t) : t \in 1 .. (request.target - 1)}
    ELSE IF request.step = "interval" THEN {Serial("half_hourly", 0)} \cap LegacyAuthority
    ELSE {}

\* The series being read, up to the cursor.
ReadSoFar ==
    request.step = "generic" =>
        LET series == Serial("generic", request.target)
        IN  /\ request.target \in Targets
            /\ \A r \in request.found : r.series = series /\ r.slot <= request.after
            /\ \A t \in Slots : t <= request.after =>
                    SaysOf(request.found, series, t) \in since[series][t]

DoneIsWhole ==
    request.step \in {"generic"} \cup Sources =>
        /\ \A r \in readings : r.series \in Done /\ IsConsistent(r)
        /\ \A s \in Done : IsWhole(s, readings)
        /\ outcome.kind = "none"

AnswerIsWhole ==
    outcome.kind = "answer" =>
        /\ request.step = "ended"
        /\ outcome.series \subseteq Series
        /\ \A r \in readings : r.series \in outcome.series
        /\ \A s \in outcome.series : IsWhole(s, readings)

RouteInv ==
    /\ capabilities \in Capabilities
    /\ request \in RequestType /\ readings \in SUBSET Readings
    /\ outcome.kind \in {"none", "answer", "error"}
    /\ outcome.kind = "error" => outcome.class \in Classes
    /\ request.step = "idle" => outcome.kind = "none" /\ readings = {}
    /\ request.step \in Sources => Serial(request.step, 0) \in LegacyAuthority
    /\ ListedOK /\ ReadSoFar /\ DoneIsWhole /\ AnswerIsWhole

-----------------------------------------------------------------------------
(* What sets of readings say.                                              *)

\* Dropping what contradicts its own span.
LEMMA DeduplicatedSays ==
    ASSUME NEW found \in SUBSET Readings, NEW series \in Series, NEW slot \in Slots
    PROVE  SaysOf(Deduplicated(found), series, slot)
             = {e \in SaysOf(found, series, slot) : e.whole \/ series.source = "interval"}
BY DEF SaysOf, Deduplicated, IsConsistent

\* A page, or a whole legacy answer, states what is listed.
LEMMA PageSays ==
    ASSUME offered \in [Series -> [Slots -> SUBSET Entries]],
           NEW series \in Series, NEW slots \in SUBSET Slots
    PROVE  /\ OfSlots(series, slots) \in SUBSET Readings
           /\ \A r \in OfSlots(series, slots) : r.series = series /\ r.slot \in slots
           /\ \A t \in slots : SaysOf(OfSlots(series, slots), series, t) = offered[series][t]
<1>1. \A r : r \in OfSlots(series, slots) <=>
        \E t \in slots : \E e \in offered[series][t] :
            r = [series |-> series, slot |-> t, entry |-> e]
  BY DEF OfSlots
<1>2. \A t \in slots : t \in Slots /\ offered[series][t] \in SUBSET Entries
  OBVIOUS
<1>3. ASSUME NEW r \in OfSlots(series, slots)
      PROVE  r \in Readings /\ r.series = series /\ r.slot \in slots
  BY <1>1, <1>2 DEF Readings
<1>4. ASSUME NEW t \in slots
      PROVE  SaysOf(OfSlots(series, slots), series, t) = offered[series][t]
  <2>1. ASSUME NEW e \in offered[series][t]
        PROVE  e \in SaysOf(OfSlots(series, slots), series, t)
    BY <1>1, <1>2 DEF SaysOf
  <2>2. ASSUME NEW e \in SaysOf(OfSlots(series, slots), series, t)
        PROVE  e \in offered[series][t]
    BY <1>1 DEF SaysOf
  <2> QED BY <2>1, <2>2
<1> QED BY <1>3, <1>4

\* One more series, read to its end, joins the series that are done.
LEMMA OneMoreSeries ==
    ASSUME NEW done \in SUBSET Series, NEW series \in Series, series \notin done,
           NEW old \in SUBSET Readings, NEW new \in SUBSET Readings,
           AllDone(done, old),
           \A r \in new : r.series = series,
           \A t \in Slots : SaysOf(new, series, t) \in since[series][t]
    PROVE  /\ Deduplicated(old \cup new) \in SUBSET Readings
           /\ AllDone(done \cup {series}, Deduplicated(old \cup new))
<1> USE DEF AllDone
<1> DEFINE all == Deduplicated(old \cup new)
<1>1. all = old \cup Deduplicated(new) /\ all \in SUBSET Readings
  BY DEF Deduplicated
<1>2. \A r \in all : r.series \in done \cup {series} /\ IsConsistent(r)
  BY DEF Deduplicated
<1> HIDE DEF all
<1>3. ASSUME NEW s \in done, NEW t \in Slots PROVE SaysOf(all, s, t) = SaysOf(old, s, t)
  <2>1. \A e \in Entries : [series |-> s, slot |-> t, entry |-> e] \notin Deduplicated(new)
    BY DEF Deduplicated
  <2> QED BY <2>1, <1>1 DEF SaysOf
<1>4. ASSUME NEW s \in done PROVE IsWhole(s, all)
  BY <1>3 DEF IsWhole
<1>5. ASSUME NEW t \in Slots PROVE SaysOf(all, series, t) = SaysOf(Deduplicated(new), series, t)
  <2>1. \A e \in Entries : [series |-> series, slot |-> t, entry |-> e] \notin old
    OBVIOUS
  <2> QED BY <2>1, <1>1 DEF SaysOf
<1>6. IsWhole(series, all)
  BY <1>5, DeduplicatedSays DEF IsWhole
<1> QED BY <1>1, <1>2, <1>4, <1>6 DEF all

-----------------------------------------------------------------------------
(* Queries are typed.                                                      *)
LEMMA IdleIsTyped ==
    Idle \in RequestType /\ Idle.step = "idle" /\ Idle.after = 0 /\ Idle.found = {}
BY RouteAssumption DEF Idle, RequestType, Sources

LEMMA QueryIsTyped ==
    ASSUME NEW target \in Targets, NEW quality \in BOOLEAN
    PROVE  /\ SeriesQuery(target, quality) \in RequestType
           /\ SeriesQuery(target, quality).step = "generic"
           /\ SeriesQuery(target, quality).target = target
           /\ SeriesQuery(target, quality).after = 0
           /\ SeriesQuery(target, quality).found = {}
<1>1. target \in 0 .. LastTarget
  BY RouteAssumption DEF Targets
<1> QED BY <1>1, IdleIsTyped DEF SeriesQuery, RequestType

LEMMA SteppedIsTyped ==
    ASSUME NEW step \in {"idle", "generic", "ended"} \cup Sources
    PROVE  [Idle EXCEPT !.step = step] \in RequestType /\ [Idle EXCEPT !.step = step].step = step
BY IdleIsTyped DEF RequestType

\* RouteInv holds initially.
LEMMA RouteInit == Init => RouteInv
<1> SUFFICES ASSUME Init PROVE RouteInv
  OBVIOUS
<1>1. capabilities \in Capabilities
  BY RouteAssumption DEF Init
<1>2. request \in RequestType /\ request.step = "idle"
  BY RouteAssumption DEF Init, Idle, RequestType, Sources
<1>3. readings = {} /\ outcome.kind = "none"
  BY DEF Init, Unended
<1>4. offered \in [Series -> [Slots -> SUBSET Entries]]
      /\ since \in [Series -> [Slots -> SUBSET (SUBSET Entries)]]
  <2>1. Whole(CHOOSE v \in Values : TRUE) \in Entries
    BY RouteAssumption DEF Whole, Entries
  <2> QED BY <2>1 DEF Init
<1> QED BY <1>1, <1>2, <1>3, <1>4
  DEF RouteInv, ListedOK, ReadSoFar, DoneIsWhole, AnswerIsWhole, Sources

-----------------------------------------------------------------------------
(* The ways a step can end a request, or begin another query.              *)

\* A refused or failed request claims nothing.
LEMMA EndingKeeps ==
    ASSUME RouteInv, request.step # "idle", NEW class \in Classes,
           request' = [Idle EXCEPT !.step = "ended"],
           outcome' = [Unended EXCEPT !.kind = "error", !.class = class],
           readings' \in SUBSET Readings,
           UNCHANGED <<capabilities, offered, since>>
    PROVE  RouteInv'
<1>1. request' \in RequestType /\ request'.step = "ended"
  BY SteppedIsTyped
<1>2. outcome'.kind = "error" /\ outcome'.class \in Classes
  BY DEF Unended
<1>3. ListedOK'
  BY DEF RouteInv, ListedOK
<1> QED BY <1>1, <1>2, <1>3
  DEF RouteInv, ReadSoFar, DoneIsWhole, AnswerIsWhole, Sources

LEMMA LegacyAuthorityIsSeries == LegacyAuthority \subseteq Series
BY DEF LegacyAuthority, LegacySeries, Series

LEMMA DoneIsSeries == request \in RequestType => Done \subseteq Series
<1> SUFFICES ASSUME request \in RequestType PROVE Done \subseteq Series
  OBVIOUS
<1>1. request.target \in 0 .. LastTarget
  BY DEF RequestType
<1>2. \A t \in 1 .. (request.target - 1) : Serial("generic", t) \in Series
  BY <1>1, RouteAssumption DEF Series, GenericSeries, Targets
<1> QED BY <1>2, LegacyAuthorityIsSeries DEF Done

\* A failure is of one of the classes.
LEMMA FailuresAreClasses ==
    ASSUME NEW errors, NEW failure \in FailuresOf(errors)
    PROVE  failure.class \in Classes
<1>1. \/ \E details \in errors : failure = Failure(Classify(details), details)
      \/ \E s \in Statuses : failure = Failure(StatusClass(s), {})
      \/ \E class \in {"timeout", "transport", "invalid"} : failure = Failure(class, {})
  BY DEF FailuresOf, HttpFailures
<1>2. \A details : Classify(details) \in Classes
  BY DEF Classify, Classes
<1>3. \A s \in Statuses : StatusClass(s) \in Classes
  BY DEF Statuses, StatusClass, Classes, Transport
<1> QED BY <1>1, <1>2, <1>3 DEF Failure, Classes, Transport

LEMMA RefusalsAreClasses ==
    ASSUME NEW quality \in BOOLEAN, NEW failure \in Refusals[quality]
    PROVE  failure.class \in Classes
<1>1. failure.class \in Classes \/ failure = Failure("unavailable", {})
  BY FailuresAreClasses DEF Refusals
<1> QED BY <1>1 DEF Failure, Classes

\* Stamping forgets what was listed before the stamp.
LEMMA StampsList ==
    ASSUME RouteInv, Stamps, UNCHANGED offered
    PROVE  ListedOK'
BY DEF RouteInv, ListedOK, Stamps

LEMMA FallingBackKeeps ==
    ASSUME RouteInv, request.step \in {"idle", "generic"}, NEW why, NEW failure,
           FallsBack(why, failure), UNCHANGED <<capabilities, offered>>
    PROVE  RouteInv'
<1>1. ListedOK'
  BY StampsList DEF FallsBack
<1>2. readings' = {} /\ capabilities' \in Capabilities /\ outcome.kind = "none"
  BY DEF FallsBack, RouteInv, DoneIsWhole, Sources
<1>3. CASE Errs("no_provider")
  <2>1. request' \in RequestType /\ request'.step = "ended"
    BY <1>3, SteppedIsTyped DEF Errs, Ends
  <2>2. outcome'.kind = "error" /\ outcome'.class \in Classes
    BY <1>3 DEF Errs, Ends, Unended, Classes
  <2> QED BY <2>1, <2>2, <1>1, <1>2
    DEF RouteInv, ReadSoFar, DoneIsWhole, AnswerIsWhole, Sources
<1>4. CASE /\ LegacySource("half_hourly") # "none"
           /\ request' = [Idle EXCEPT !.step = LegacySource("half_hourly")]
           /\ UNCHANGED outcome
  <2> DEFINE source == LegacySource("half_hourly")
  <2>1. /\ source \in Sources /\ source \in Sourced(capabilities)
        /\ source = "interval" => "half_hourly" \notin Sourced(capabilities)
    BY <1>4 DEF LegacySource, Sourced, Sources
  <2> HIDE DEF source
  <2>2. request' \in RequestType /\ request'.step = source
    BY <1>4, <2>1, SteppedIsTyped DEF source
  <2>3. Serial(source, 0) \in LegacyAuthority'
    BY <2>1 DEF LegacyAuthority, LegacySeries, Sourced, Serial
  <2>4. Done' = {}
    <3>1. ASSUME source = "interval" PROVE Serial("half_hourly", 0) \notin LegacyAuthority'
      BY <2>1, <3>1 DEF LegacyAuthority, LegacySeries, Sourced, Serial
    <3> QED BY <2>1, <2>2, <3>1 DEF Done, Sources
  <2>5. outcome'.kind = "none"
    BY <1>2, <1>4
  <2> QED BY <1>1, <1>2, <2>1, <2>2, <2>3, <2>4, <2>5
    DEF RouteInv, ReadSoFar, DoneIsWhole, AnswerIsWhole, Sources
<1> QED BY <1>3, <1>4 DEF FallsBack

\* An answer is given for series that are done.
LEMMA AnsweringKeeps ==
    ASSUME RouteInv, request.step # "idle", NEW found, NEW series \in SUBSET Series,
           AnswersWith(found, series), Deduplicated(found) \in SUBSET Readings,
           \A r \in Deduplicated(found) : r.series \in series,
           \A s \in series : IsWhole(s, Deduplicated(found)),
           UNCHANGED <<capabilities, offered, since>>
    PROVE  RouteInv'
<1>1. readings' = Deduplicated(found)
  BY DEF AnswersWith
<1>2. CASE HasConflict(found)
  BY <1>1, <1>2, EndingKeeps DEF AnswersWith, Errs, Ends, Classes, Transport
<1>3. CASE ~HasConflict(found)
  <2>1. /\ request' = [Idle EXCEPT !.step = "ended"]
        /\ outcome' = [kind |-> "answer", class |-> "none", series |-> series]
    BY <1>3 DEF AnswersWith, Ends
  <2>2. request' \in RequestType /\ request'.step = "ended"
    BY <2>1, SteppedIsTyped
  <2>3. ListedOK'
    BY DEF RouteInv, ListedOK
  <2>4. AnswerIsWhole'
    BY <1>1, <2>1, <2>2 DEF AnswerIsWhole, IsWhole
  <2> QED BY <1>1, <2>1, <2>2, <2>3, <2>4
    DEF RouteInv, ReadSoFar, DoneIsWhole, Sources
<1> QED BY <1>2, <1>3

-----------------------------------------------------------------------------
(* Every step keeps RouteInv.                                              *)
LEMMA ReviseKeeps == RouteInv /\ Revise => RouteInv'
<1> SUFFICES ASSUME RouteInv, Revise PROVE RouteInv'
  OBVIOUS
<1>1. PICK s \in Series, t \in Slots, said \in SUBSET Entries :
        /\ offered' = [offered EXCEPT ![s][t] = said]
        /\ since' = [since EXCEPT ![s][t] = @ \cup {said}]
  BY DEF Revise
<1>2. UNCHANGED <<capabilities, request, readings, outcome>>
  BY DEF Revise
<1>3. \A x \in Series, y \in Slots : since[x][y] \subseteq since'[x][y]
  BY <1>1 DEF RouteInv, ListedOK
<1>4. ListedOK'
  BY <1>1, <1>2 DEF RouteInv, ListedOK
<1>5. \A x \in Series : IsWhole(x, readings) => IsWhole(x, readings)'
  BY <1>2, <1>3 DEF IsWhole
<1>6. Done' = Done /\ LegacyAuthority' = LegacyAuthority
  BY <1>2 DEF Done, LegacyAuthority, Sourced
<1>7. ReadSoFar'
  <2>1. ASSUME request.step = "generic" PROVE Serial("generic", request.target) \in Series
    BY <2>1 DEF RouteInv, ReadSoFar, Series, GenericSeries
  <2> QED BY <2>1, <1>2, <1>3 DEF RouteInv, ReadSoFar
<1>8. request.step \in {"generic"} \cup Sources => Done \subseteq Series
  BY DoneIsSeries DEF RouteInv
<1>9. DoneIsWhole' /\ AnswerIsWhole'
  BY <1>2, <1>5, <1>6, <1>8 DEF RouteInv, DoneIsWhole, AnswerIsWhole
<1> QED BY <1>2, <1>4, <1>6, <1>7, <1>9 DEF RouteInv

\* A series is asked from its first page, with others done before it.
LEMMA AskingKeeps ==
    ASSUME RouteInv, NEW target \in Targets, NEW quality \in BOOLEAN,
           request' = SeriesQuery(target, quality),
           readings' \in SUBSET Readings, outcome'.kind = "none",
           \A r \in readings' : r.series \in {Serial("generic", t) : t \in 1 .. (target - 1)}
                                /\ IsConsistent(r),
           \A t \in 1 .. (target - 1) : IsWhole(Serial("generic", t), readings)',
           ListedOK', UNCHANGED capabilities
    PROVE  RouteInv'
<1>1. /\ request' \in RequestType /\ request'.step = "generic" /\ request'.target = target
      /\ request'.after = 0 /\ request'.found = {}
  BY QueryIsTyped
<1>2. ReadSoFar'
  BY <1>1 DEF ReadSoFar, Slots
<1>3. Done' = {Serial("generic", t) : t \in 1 .. (target - 1)}
  BY <1>1 DEF Done
<1>4. DoneIsWhole' /\ AnswerIsWhole'
  BY <1>3 DEF DoneIsWhole, AnswerIsWhole
<1> QED BY <1>1, <1>2, <1>4 DEF RouteInv, Sources

LEMMA BeginsKeeps == RouteInv /\ Begins => RouteInv'
<1> SUFFICES ASSUME RouteInv, Begins PROVE RouteInv'
  OBVIOUS
<1>1. request.step = "idle" /\ UNCHANGED <<capabilities, offered>>
  BY DEF Begins
<1>2. CASE \E why : FallsBack(why, NoCause)
  BY <1>1, <1>2, FallingBackKeeps
<1>3. CASE /\ request' = SeriesQuery(1, capabilities.quality)
           /\ Stamps /\ UNCHANGED <<readings, outcome>>
  <2>1. outcome.kind = "none" /\ readings = {} /\ capabilities.quality \in BOOLEAN
    BY <1>1 DEF RouteInv, Capabilities
  <2>2. 1 \in Targets /\ ListedOK'
    BY <1>1, <1>3, StampsList, RouteAssumption DEF Targets
  <2>3. 1 .. (1 - 1) = {}
    OBVIOUS
  <2> QED BY <1>1, <1>3, <2>1, <2>2, <2>3, AskingKeeps DEF RouteInv
<1> QED BY <1>2, <1>3 DEF Begins


LEMMA PageArrivesKeeps == RouteInv /\ PageArrives => RouteInv'
<1> SUFFICES ASSUME RouteInv, PageArrives PROVE RouteInv'
  OBVIOUS
<1> DEFINE page == PageAfter(request.target, request.after)
           last == request.after + PageSize
           read == request.found \cup page
           series == Serial("generic", request.target)
<1>1. request.step = "generic" /\ UNCHANGED <<capabilities, offered, since>>
  BY DEF PageArrives
<1>2. /\ request.target \in Targets /\ series \in Series /\ request \in RequestType
      /\ request.after \in Nat /\ last \in Nat /\ request.after < last
  BY <1>1, RouteAssumption DEF RouteInv, ReadSoFar, RequestType, Series, GenericSeries
<1> DEFINE slots == Slots \cap (request.after + 1) .. last
<1>3. page = OfSlots(series, slots) /\ slots \in SUBSET Slots
      /\ offered \in [Series -> [Slots -> SUBSET Entries]]
  BY DEF PageAfter, RouteInv, ListedOK
<1> HIDE DEF page, series, slots
<1>4. /\ page \in SUBSET Readings
      /\ \A r \in page : r.series = series /\ r.slot \in slots
      /\ \A t \in slots : SaysOf(page, series, t) = offered[series][t]
  BY <1>2, <1>3, PageSays
<1>5. read \in SUBSET Readings /\ \A r \in read : r.series = series /\ r.slot <= last
  <2>1. request.found \in SUBSET Readings
        /\ \A r \in request.found : r.series = series /\ r.slot <= request.after
    BY <1>1, <1>2 DEF RouteInv, ReadSoFar, RequestType, series
  <2>2. \A r \in request.found \cup page : r.slot \in Nat
    BY <2>1, <1>4 DEF Readings, Slots
  <2>3. \A r \in page : r.slot <= last
    BY <1>2, <1>4 DEF slots
  <2> QED BY <2>1, <2>2, <2>3, <1>2, <1>4
<1>6. ASSUME NEW t \in Slots, t <= last PROVE SaysOf(read, series, t) \in since[series][t]
  <2>1. SaysOf(read, series, t) = SaysOf(request.found, series, t) \cup SaysOf(page, series, t)
    BY DEF SaysOf
  <2>2. CASE t <= request.after
    <3>1. t \notin slots
      BY <1>2, <2>2 DEF Slots, slots
    <3>2. SaysOf(page, series, t) = {}
      BY <1>4, <3>1 DEF SaysOf
    <3> QED BY <2>1, <2>2, <3>2, <1>1 DEF RouteInv, ReadSoFar, series
  <2>3. CASE ~(t <= request.after)
    <3>1. t \in slots
      BY <1>2, <1>6, <2>3 DEF Slots, slots
    <3>2. SaysOf(request.found, series, t) = {}
      BY <1>1, <2>3 DEF SaysOf, RouteInv, ReadSoFar, series
    <3>3. offered[series][t] \in since[series][t]
      BY <1>1, <1>2 DEF RouteInv, ListedOK
    <3> QED BY <2>1, <3>1, <3>2, <3>3, <1>4
  <2> QED BY <2>2, <2>3
<1>7. \/ Errs("invalid") /\ UNCHANGED readings
      \/ last >= LastSlot /\ SeriesEnds(read)
      \/ /\ request' = [request EXCEPT !.after = last, !.seen = @ \cup {last},
                                       !.pages = @ + 1, !.found = read]
         /\ request.pages + 1 < MaxPages
         /\ UNCHANGED <<readings, outcome>>
  <2>1. request.pages + 1 \in Nat
    BY <1>2 DEF RequestType
  <2>2. ASSUME NEW cursor, NextPage(page, cursor), cursor = last \/ cursor \in request.seen
        PROVE  \/ Errs("invalid") /\ UNCHANGED readings
               \/ /\ request' = [request EXCEPT !.after = last, !.seen = @ \cup {last},
                                                !.pages = @ + 1, !.found = read]
                  /\ request.pages + 1 < MaxPages
                  /\ UNCHANGED <<readings, outcome>>
    <3>1. CASE cursor \in request.seen \/ request.pages + 1 >= MaxPages
      BY <2>2, <3>1 DEF NextPage
    <3>2. CASE ~(cursor \in request.seen \/ request.pages + 1 >= MaxPages)
      <4>1. cursor = last /\ request.pages + 1 < MaxPages
        BY <2>1, <2>2, <3>2, RouteAssumption
      <4> QED BY <4>1, <2>2, <3>2 DEF NextPage, Collected
    <3> QED BY <3>1, <3>2
  <2>3. \/ Errs("invalid") /\ UNCHANGED readings
        \/ last >= LastSlot /\ SeriesEnds(read)
        \/ \E cursor : NextPage(page, cursor) /\ (cursor = last \/ cursor \in request.seen)
    BY <1>2, RouteAssumption DEF PageArrives, Collected, page
  <2> QED BY <2>2, <2>3
<1> HIDE DEF page, read, series, last, slots
<1>8. CASE Errs("invalid") /\ UNCHANGED readings
  BY <1>1, <1>8, EndingKeeps DEF Errs, Ends, Classes, Transport, RouteInv
<1>9. CASE /\ request' = [request EXCEPT !.after = last, !.seen = @ \cup {last},
                                         !.pages = @ + 1, !.found = read]
           /\ request.pages + 1 < MaxPages
           /\ UNCHANGED <<readings, outcome>>
  <2>1. /\ request' \in RequestType /\ request'.step = "generic"
        /\ request'.target = request.target /\ request'.after = last /\ request'.found = read
    <3>1. request.pages + 1 \in 0 .. MaxPages
      BY <1>2, <1>9, RouteAssumption DEF RequestType
    <3> QED BY <3>1, <1>1, <1>2, <1>5, <1>9 DEF RequestType
  <2>2. ReadSoFar'
    BY <1>1, <1>2, <1>5, <1>6, <2>1 DEF ReadSoFar, series
  <2>3. Done' = Done
    BY <1>1, <2>1 DEF Done
  <2>4. DoneIsWhole' /\ AnswerIsWhole' /\ ListedOK'
    BY <1>1, <1>9, <2>1, <2>3
    DEF RouteInv, DoneIsWhole, AnswerIsWhole, IsWhole, ListedOK
  <2> QED BY <1>1, <1>9, <2>1, <2>2, <2>4 DEF RouteInv, Sources
<1>10. CASE last >= LastSlot /\ SeriesEnds(read)
  <2>1. Done = {Serial("generic", t) : t \in 1 .. (request.target - 1)}
    BY <1>1 DEF Done
  <2>2. Done \in SUBSET Series /\ series \notin Done
    <3>1. \A t \in 1 .. (request.target - 1) : t # request.target
      BY <1>2, RouteAssumption DEF Targets
    <3>2. \A t : Serial("generic", t) = series => t = request.target
      BY DEF series, Serial
    <3> QED BY <3>1, <3>2, <1>2, <2>1, DoneIsSeries
  <2>3. \A t \in Slots : SaysOf(read, series, t) \in since[series][t]
    BY <1>2, <1>6, <1>10, RouteAssumption DEF Slots
  <2> DEFINE all == Deduplicated(readings \cup read)
  <2>4. /\ all = readings \cup Deduplicated(read) /\ all \in SUBSET Readings
        /\ \A r \in all : r.series \in Done \cup {series} /\ IsConsistent(r)
        /\ \A s \in Done \cup {series} : IsWhole(s, all)
    <3>1. readings \in SUBSET Readings /\ AllDone(Done, readings)
      BY <1>1 DEF RouteInv, DoneIsWhole, AllDone
    <3>2. \A r \in read : r.series = series
      BY <1>5
    <3>3. all \in SUBSET Readings /\ AllDone(Done \cup {series}, all)
      BY <3>1, <3>2, <1>2, <1>5, <2>2, <2>3, OneMoreSeries
    <3>4. all = readings \cup Deduplicated(read)
      BY <3>1 DEF AllDone, Deduplicated
    <3> QED BY <3>3, <3>4 DEF AllDone
  <2> HIDE DEF all
  <2>5. Done \cup {series} = {Serial("generic", t) : t \in 1 .. request.target}
    BY <1>2, <2>1 DEF series, Targets
  <2>6. CASE /\ request.target < LastTarget
             /\ request' = SeriesQuery(request.target + 1, capabilities.quality)
             /\ readings' = readings \cup Deduplicated(read)
             /\ UNCHANGED outcome
    <3>1. request.target + 1 \in Targets /\ (request.target + 1) - 1 = request.target
      BY <1>2, <2>6, RouteAssumption DEF Targets
    <3>2. \A t \in 1 .. request.target : IsWhole(Serial("generic", t), readings)'
      BY <2>4, <2>5, <2>6, <1>1 DEF IsWhole
    <3>3. ListedOK' /\ outcome'.kind = "none" /\ capabilities.quality \in BOOLEAN
      BY <1>1, <2>6 DEF RouteInv, ListedOK, DoneIsWhole, Capabilities, SeriesQuery
    <3> QED BY <3>1, <3>2, <3>3, <1>1, <2>4, <2>5, <2>6, AskingKeeps
  <2>7. CASE ~(request.target < LastTarget) /\ AnswersWith(readings \cup read, GenericSeries)
    <3>1. Done \cup {series} = GenericSeries
      BY <1>2, <2>5, <2>7, RouteAssumption DEF GenericSeries, Targets
    <3>2. GenericSeries \in SUBSET Series
      BY DEF Series
    <3> QED BY <3>1, <3>2, <1>1, <2>4, <2>7, AnsweringKeeps DEF all
  <2> QED BY <1>10, <2>6, <2>7 DEF SeriesEnds
<1> QED BY <1>7, <1>8, <1>9, <1>10

LEMMA QueryFailsKeeps == RouteInv /\ QueryFails => RouteInv'
<1> SUFFICES ASSUME RouteInv, QueryFails PROVE RouteInv'
  OBVIOUS
<1>1. request.step = "generic" /\ UNCHANGED <<capabilities, offered>>
  BY DEF QueryFails
<1>2. PICK failure \in Refusals[request.quality] :
        \/ /\ request' = WithoutQuality
           /\ UNCHANGED <<since, readings, reason, cause, outcome>>
        \/ \E why : FallsBack(why, failure)
        \/ Errs(failure.class) /\ UNCHANGED <<since, readings>>
  BY DEF QueryFails
<1>3. failure.class \in Classes
  BY RefusalsAreClasses DEF RouteInv, RequestType
<1>4. CASE \E why : FallsBack(why, failure)
  BY <1>1, <1>4, FallingBackKeeps
<1>5. CASE Errs(failure.class) /\ UNCHANGED <<since, readings>>
  BY <1>1, <1>3, <1>5, EndingKeeps DEF Errs, Ends, RouteInv
<1>6. CASE request' = WithoutQuality /\ UNCHANGED <<since, readings, outcome>>
  <2>1. request.target \in Targets /\ ListedOK'
    BY <1>1, <1>6 DEF RouteInv, ReadSoFar, ListedOK, WithoutQuality, SeriesQuery
  <2>2. /\ Done = {Serial("generic", t) : t \in 1 .. (request.target - 1)}
        /\ \A r \in readings : r.series \in Done /\ IsConsistent(r)
        /\ \A s \in Done : IsWhole(s, readings)
        /\ outcome.kind = "none" /\ readings \in SUBSET Readings
    BY <1>1 DEF RouteInv, DoneIsWhole, Done
  <2>3. \A t \in 1 .. (request.target - 1) : IsWhole(Serial("generic", t), readings)'
    BY <1>6, <2>2 DEF IsWhole
  <2> QED BY <1>1, <1>6, <2>1, <2>2, <2>3, AskingKeeps DEF WithoutQuality
<1> QED BY <1>2, <1>4, <1>5, <1>6

LEMMA LegacyArrivesKeeps == RouteInv /\ LegacyArrives => RouteInv'
<1> SUFFICES ASSUME RouteInv, LegacyArrives PROVE RouteInv'
  OBVIOUS
<1> DEFINE series == Serial(request.step, 0)
           said == OfSlots(series, Slots)
           next == IF request.step = "half_hourly" THEN LegacySource("interval") ELSE "none"
           all == Deduplicated(readings \cup said)
<1>1. /\ request.step \in Sources /\ UNCHANGED <<capabilities, offered, since>>
      /\ request.step # "idle" /\ request.step # "generic"
  BY DEF LegacyArrives, Sources
<1>2. \/ Errs("invalid") /\ UNCHANGED readings
      \/ next = "none" /\ AnswersWith(readings \cup said, LegacyAuthority)
      \/ /\ next # "none" /\ readings' = readings \cup Deduplicated(said)
         /\ request' = [Idle EXCEPT !.step = next] /\ UNCHANGED outcome
  BY DEF LegacyArrives
<1>3. /\ series \in Series /\ series \in LegacyAuthority
      /\ Done \in SUBSET Series /\ LegacyAuthority \in SUBSET Series
  BY <1>1, LegacyAuthorityIsSeries, DoneIsSeries DEF RouteInv
<1>4. series \notin Done
  BY <1>1 DEF Done, Serial, Sources
<1>5. /\ said \in SUBSET Readings /\ \A r \in said : r.series = series
      /\ \A t \in Slots : SaysOf(said, series, t) \in since[series][t]
  BY <1>1, <1>3, PageSays DEF RouteInv, ListedOK
<1>6. /\ all = readings \cup Deduplicated(said) /\ all \in SUBSET Readings
      /\ \A r \in all : r.series \in Done \cup {series} /\ IsConsistent(r)
      /\ \A s \in Done \cup {series} : IsWhole(s, all)
  <2> HIDE DEF series, said
  <2>1. readings \in SUBSET Readings /\ AllDone(Done, readings)
    BY <1>1 DEF RouteInv, DoneIsWhole, AllDone
  <2>2. all \in SUBSET Readings /\ AllDone(Done \cup {series}, all)
    BY <2>1, <1>3, <1>4, <1>5, OneMoreSeries
  <2>3. all = readings \cup Deduplicated(said)
    BY <2>1 DEF AllDone, Deduplicated
  <2> QED BY <2>2, <2>3 DEF AllDone
<1>7. \A s : s \in LegacyAuthority <=>
        \/ s = Serial("half_hourly", 0) /\ capabilities.half_hourly \notin Excluded
        \/ s = Serial("interval", 0) /\ capabilities.interval \notin Excluded
  BY DEF LegacyAuthority, LegacySeries, Sourced, Sources, Serial
<1>8. next \in {"interval", "none"}
      /\ (next = "interval" => request.step = "half_hourly" /\ capabilities.interval \notin Excluded)
  BY DEF LegacySource
<1>9. CASE Errs("invalid") /\ UNCHANGED readings
  BY <1>1, <1>9, EndingKeeps DEF Errs, Ends, Classes, Transport, RouteInv
<1>10. CASE next = "none" /\ AnswersWith(readings \cup said, LegacyAuthority)
  <2>1. Done \cup {series} = LegacyAuthority
    <3>1. CASE request.step = "interval"
      <4>1. Done = {Serial("half_hourly", 0)} \cap LegacyAuthority
        BY <3>1 DEF Done
      <4> QED BY <4>1, <3>1, <1>3, <1>7
    <3>2. CASE request.step = "half_hourly"
      <4>1. Done = {} /\ capabilities.interval \in Excluded
        BY <3>2, <1>10 DEF Done, LegacySource
      <4> QED BY <4>1, <3>2, <1>3, <1>7
    <3> QED BY <3>1, <3>2, <1>1 DEF Sources
  <2> HIDE DEF series, said, next
  <2> QED BY <1>1, <1>3, <1>6, <1>10, <2>1, AnsweringKeeps
<1>11. CASE /\ next # "none" /\ readings' = readings \cup Deduplicated(said)
            /\ request' = [Idle EXCEPT !.step = next] /\ UNCHANGED outcome
  <2>1. next = "interval" /\ request.step = "half_hourly"
        /\ Serial("interval", 0) \in LegacyAuthority
    BY <1>7, <1>8, <1>11
  <2>2. request' \in RequestType /\ request'.step = "interval"
    BY <1>11, <2>1, SteppedIsTyped DEF Sources
  <2>3. LegacyAuthority' = LegacyAuthority
    BY <1>1 DEF LegacyAuthority, Sourced
  <2>4. Done' = Done \cup {series}
    <3>1. Done = {}
      BY <2>1 DEF Done
    <3>2. Done' = {Serial("half_hourly", 0)} \cap LegacyAuthority
      BY <2>2, <2>3 DEF Done
    <3> QED BY <3>1, <3>2, <2>1, <1>3
  <2> HIDE DEF series, said, next
  <2>5. DoneIsWhole'
    BY <1>1, <1>6, <1>11, <2>4 DEF RouteInv, DoneIsWhole, IsWhole, Sources
  <2>6. outcome.kind = "none" /\ ListedOK'
    BY <1>1, <2>2 DEF RouteInv, DoneIsWhole, ListedOK
  <2>7. readings' \in SUBSET Readings /\ outcome'.kind = "none"
    BY <1>6, <1>11, <2>6
  <2>8. ReadSoFar' /\ AnswerIsWhole'
    BY <2>2, <2>7 DEF ReadSoFar, AnswerIsWhole
  <2> QED BY <1>1, <2>1, <2>2, <2>3, <2>5, <2>6, <2>7, <2>8 DEF RouteInv
<1> QED BY <1>2, <1>9, <1>10, <1>11

LEMMA LegacyFailsKeeps == RouteInv /\ LegacyFails => RouteInv'
<1> SUFFICES ASSUME RouteInv, LegacyFails PROVE RouteInv'
  OBVIOUS
<1>1. request.step \in Sources /\ UNCHANGED <<capabilities, offered, since, readings>>
  BY DEF LegacyFails
<1>2. PICK class \in LegacyRefusals : Errs(class)
  BY DEF LegacyFails
<1>3. class \in Classes
  BY FailuresAreClasses, RouteAssumption DEF LegacyRefusals
<1> QED BY <1>1, <1>2, <1>3, EndingKeeps DEF Errs, Ends, RouteInv, Sources

LEMMA RouteStep == RouteInv /\ [Next]_vars => RouteInv'
<1> SUFFICES ASSUME RouteInv, [Next]_vars PROVE RouteInv'
  OBVIOUS
<1>1. CASE UNCHANGED vars
  <2>1. UNCHANGED <<capabilities, offered, since, request, readings, outcome>>
    BY <1>1 DEF vars
  <2>2. ListedOK' /\ ReadSoFar'
    BY <2>1 DEF RouteInv, ListedOK, ReadSoFar
  <2>3. Done' = Done /\ LegacyAuthority' = LegacyAuthority
    BY <2>1 DEF Done, LegacyAuthority, Sourced
  <2>4. \A s : IsWhole(s, readings)' <=> IsWhole(s, readings)
    BY <2>1 DEF IsWhole
  <2>5. DoneIsWhole' /\ AnswerIsWhole'
    BY <2>1, <2>3, <2>4 DEF RouteInv, DoneIsWhole, AnswerIsWhole
  <2> QED BY <2>1, <2>2, <2>3, <2>5 DEF RouteInv
<1> QED
  BY <1>1, ReviseKeeps, BeginsKeeps, PageArrivesKeeps, QueryFailsKeeps, LegacyArrivesKeeps,
     LegacyFailsKeeps
  DEF Next, Steps

\* Whatever page, revision or failure comes in between, the pages read so
\* far state what was listed since the stamp.
THEOREM RouteHolds == Spec => []RouteInv
BY RouteInit, RouteStep, PTL DEF Spec

-----------------------------------------------------------------------------
(* The properties.                                                         *)

\* Every variable keeps its type, and a request reads at most MaxPages pages
\* of a series (api/discovery.py, async_paginate).
THEOREM RouteTypes == Spec => []RouteTypeOK
<1>1. RouteInv => RouteTypeOK
  BY DEF RouteInv, RouteTypeOK, ListedOK, RequestType
<1> QED BY <1>1, RouteHolds, PTL

\* An answer states, of every slot of every series it is authoritative for,
\* what the provider listed at some time since the stamp.
THEOREM AnswersComplete == Spec => []AnswersAreComplete
<1>1. ASSUME RouteInv PROVE AnswersAreComplete
  <2> SUFFICES ASSUME outcome.kind = "answer" PROVE
        /\ \A r \in readings : r.series \in outcome.series
        /\ \A s \in outcome.series, t \in Slots :
            \E said \in since[s][t] :
                Stated(s, t) = {e \in said : e.whole \/ s.source = "interval"}
    BY DEF AnswersAreComplete
  <2>1. readings \in SUBSET Readings
    BY <1>1 DEF RouteInv
  <2>2. ASSUME NEW s \in Series, NEW t \in Slots PROVE Stated(s, t) = SaysOf(readings, s, t)
    <3>1. ASSUME NEW e \in Stated(s, t) PROVE e \in SaysOf(readings, s, t)
      <4>1. PICK r \in readings : r.series = s /\ r.slot = t /\ e = r.entry
        BY DEF Stated
      <4>2. r = [series |-> s, slot |-> t, entry |-> e] /\ e \in Entries
        BY <2>1, <4>1 DEF Readings
      <4> QED BY <4>1, <4>2 DEF SaysOf
    <3>2. ASSUME NEW e \in SaysOf(readings, s, t) PROVE e \in Stated(s, t)
      BY DEF SaysOf, Stated
    <3> QED BY <3>1, <3>2
  <2>3. /\ outcome.series \subseteq Series
        /\ \A r \in readings : r.series \in outcome.series
        /\ \A s \in outcome.series : IsWhole(s, readings)
    BY <1>1 DEF RouteInv, AnswerIsWhole
  <2> QED BY <2>2, <2>3 DEF IsWhole
<1> QED BY <1>1, RouteHolds, PTL

\* What a query can be refused with.
LEMMA RefusalsByDetail ==
    ASSUME NEW quality \in BOOLEAN, NEW failure \in Refusals[quality]
    PROVE  \/ failure.details = {}
           \/ /\ failure.class = Classify(failure.details)
              /\ quality \/ \A d \in failure.details : "qualities" \notin d.path
BY DEF Refusals, FailuresOf, HttpFailures, Failure

\* A failure that makes the router fall back is a gap of the current model.
LEMMA FallbackIsForGap ==
    ASSUME NEW quality \in BOOLEAN, NEW failure \in Refusals[quality],
           ~(quality /\ OnlyQualities(failure)),
           \/ IsPermissionGap(failure)
           \/ failure.class = "unavailable"
           \/ IsDisabledField(failure)
    PROVE  /\ failure.class \notin Transport \cup {"rate_limit", "authentication"}
           /\ CodesIn(failure.details) \cap {"rate", "expired", "refused"} = {}
           /\ failure.class = "authorization" =>
                /\ \A d \in failure.details : d.path \cap GenericFields # {}
                /\ \E d \in failure.details : "qualities" \notin d.path
<1>1. failure.class \notin Transport \cup {"rate_limit", "authentication"}
  BY DEF IsPermissionGap, IsDisabledField, Transport
<1>2. CASE failure.details = {}
  BY <1>1, <1>2 DEF IsPermissionGap, IsDisabledField, CodesIn
<1>3. CASE failure.details # {}
  <2>1. /\ failure.class = Classify(failure.details)
        /\ quality \/ \A d \in failure.details : "qualities" \notin d.path
    BY <1>3, RefusalsByDetail
  <2>2. failure.class # "unavailable"
    BY <2>1 DEF Classify
  <2>3. "rate" \notin CodesIn(failure.details) /\ "expired" \notin CodesIn(failure.details)
    BY <1>1, <2>1 DEF Classify
  <2>4. CASE IsPermissionGap(failure)
    <3>1. "refused" \notin CodesIn(failure.details)
      BY <2>4 DEF IsPermissionGap, CodesIn
    <3>2. \E d \in failure.details : "qualities" \notin d.path
      BY <1>3, <2>1, <2>4 DEF IsPermissionGap, OnlyQualities
    <3> QED BY <1>1, <2>3, <2>4, <3>1, <3>2 DEF IsPermissionGap
  <2>5. CASE IsDisabledField(failure)
    <3>1. failure.class = "validation"
      BY <2>5 DEF IsDisabledField
    <3>2. "refused" \notin CodesIn(failure.details)
      BY <2>1, <3>1 DEF Classify
    <3> QED BY <1>1, <2>3, <3>1, <3>2
  <2> QED BY <2>2, <2>4, <2>5
<1> QED BY <1>2, <1>3

\* The older model is asked only about a gap of the current one, whatever
\* combination of errors the provider answers with.
THEOREM FallbacksAreForGaps == Spec => []OnlyGapsFallBack
<1>1. Init => OnlyGapsFallBack
  BY DEF Init, OnlyGapsFallBack
<1>2. ASSUME RouteInv, OnlyGapsFallBack, [Next]_vars PROVE OnlyGapsFallBack'
  <2>1. CASE UNCHANGED <<cause, capabilities>>
    BY <1>2, <2>1 DEF OnlyGapsFallBack
  <2>2. CASE Begins
    <3>1. cause' = NoCause \/ UNCHANGED cause
      BY <2>2 DEF Begins, FallsBack
    <3>2. UNCHANGED capabilities
      BY <2>2 DEF Begins
    <3> QED BY <3>1, <3>2, <1>2 DEF OnlyGapsFallBack
  <2>3. CASE QueryFails
    <3>1. request.quality \in BOOLEAN /\ UNCHANGED capabilities
      BY <1>2, <2>3 DEF RouteInv, RequestType, QueryFails
    <3>2. PICK failure \in Refusals[request.quality] :
            \/ UNCHANGED cause
            \/ /\ ~(request.quality /\ OnlyQualities(failure))
               /\ \/ IsPermissionGap(failure)
                  \/ failure.class = "unavailable"
                  \/ IsDisabledField(failure)
               /\ cause' = failure
      BY <2>3 DEF QueryFails, FallsBack
    <3>3. CASE UNCHANGED cause
      BY <1>2, <3>1, <3>3 DEF OnlyGapsFallBack
    <3>4. CASE /\ ~(request.quality /\ OnlyQualities(failure))
               /\ \/ IsPermissionGap(failure)
                  \/ failure.class = "unavailable"
                  \/ IsDisabledField(failure)
               /\ cause' = failure
      BY <3>1, <3>4, FallbackIsForGap DEF OnlyGapsFallBack
    <3> QED BY <3>2, <3>3, <3>4
  <2> QED BY <1>2, <2>1, <2>2, <2>3
    DEF Next, Steps, vars, Revise, PageArrives, LegacyArrives, LegacyFails
<1> QED BY <1>1, <1>2, RouteHolds, PTL DEF Spec
=============================================================================
