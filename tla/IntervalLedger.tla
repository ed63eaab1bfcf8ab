--------------------------- MODULE IntervalLedger ---------------------------
(***************************************************************************)
(* The interval ledger of one supply point and direction: ledger.py over   *)
(* the stores of ledger_store.py, with the two readers that feed it.       *)
(*                                                                         *)
(* A poll and the background worker each have at most one request in       *)
(* flight.  A request is stamped before it is sent, answered later and     *)
(* reconciled later still, under the mutation lock; the worker keeps the   *)
(* lock until what it stored is flushed.  Every month is a store of its    *)
(* own, written when its debounce ends or when somebody flushes, and the   *)
(* index of months is one more.                                            *)
(*                                                                         *)
(* A reading is its slot and its value: quality, cost and unit are part of *)
(* the value.  Left out: the count of corrections, the two functions with  *)
(* no caller (async_replace_corrupt_partition, async_remove_partition).    *)
(***************************************************************************)
EXTENDS Integers

CONSTANTS Generic,        \* series of the current readings model
          Legacy,         \* series of the older one
          Months,         \* partitions, in order of time
          HotMonths,      \* the current and the previous month
          SlotsPerMonth,
          Values,         \* what a reading can say
          MaxClock,       \* bound: the last instant
          MaxChanges,     \* bound: revisions by the provider
          MaxFaults       \* bound: crashes, damaged files, short answers

ASSUME LedgerAssumption ==
    /\ Months \subseteq Nat /\ HotMonths \subseteq Months
    /\ SlotsPerMonth \in Nat \ {0}
    /\ Generic \cap Legacy = {}
    /\ MaxClock \in Nat /\ MaxChanges \in Nat /\ MaxFaults \in Nat

Series == Generic \cup Legacy
MonthOf(slot) == slot \div SlotsPerMonth
Slots == {s \in Nat : MonthOf(s) \in Months}
SlotsOf(months) ==
    UNION {(m * SlotsPerMonth) .. (m * SlotsPerMonth + SlotsPerMonth - 1) : m \in months}

Readings == [series : Series, slot : Nat, value : Values]
Records == [series : Series, slot : Nat, value : Values, at : Nat]

VARIABLES
    clock,
    offered,    \* the provider's own records, per slot
    family,     \* the readings model that answers: "generic" or "legacy"
    requests,   \* per reader, its request in flight
    up,         \* the integration is loaded
    memory,     \* per month, the records IntervalLedger holds
    known,      \* _known_partitions
    corrupt,    \* _corrupt_partitions
    pending,    \* per month, the payload not flushed yet (a set of at most one)
    index,      \* the index not flushed yet (a set of at most one)
    delayed,    \* months whose debounced write is scheduled; IndexStore too
    flush,      \* the flush in progress: who runs it and what it will promise
    file,       \* per month, what is on disk
    indexFile,  \* the index on disk
    promised,   \* months some finished flush made durable
    spent

store == <<pending, index, delayed, file, indexFile>>
vars == <<clock, offered, family, requests, up, memory, known, corrupt, store,
          flush, promised, spent>>

-----------------------------------------------------------------------------
Readers == {"poll", "worker"}
IndexStore == -1
NoFile == [state |-> "none", records |-> {}]
BadFile == [state |-> "bad", records |-> {}]
GoodFile(records) == [state |-> "good", records |-> records]

NoRequest == [step |-> "none", at |-> 0, window |-> {}, series |-> {}, sources |-> {},
              readings |-> {}]
NoFlush == [by |-> "nobody", changed |-> {}]
LockFree == flush = NoFlush

Spend(kind, limit) == spent[kind] < limit /\ spent' = [spent EXCEPT ![kind] = @ + 1]

\* What async_load_partition finds: the pending payload, else the file.
Latest(month) ==
    IF pending[month] # {} THEN UNION pending[month] ELSE file[month].records
Unreadable(month, listed) ==
    /\ pending[month] = {}
    /\ \/ file[month].state = "bad"
       \/ file[month].state = "none" /\ month \in listed

SameInterval(r, s) == r.series = s.series /\ r.slot = s.slot

LedgerTypeOK ==
    /\ clock \in Nat /\ family \in {"generic", "legacy"}
    /\ up \in BOOLEAN
    /\ memory \in [Months -> SUBSET Records]
    /\ known \subseteq Months /\ corrupt \subseteq Months
    /\ pending \in [Months -> SUBSET (SUBSET Records)]
    /\ delayed \subseteq Months \cup {IndexStore}
    /\ file \in [Months -> [state : {"none", "bad", "good"}, records : SUBSET Records]]
    /\ indexFile \subseteq Months /\ promised \subseteq Months
    /\ flush \in [by : Readers \cup {"nobody"}, changed : SUBSET Months]
    /\ \A reader \in Readers :
        /\ requests[reader].step \in {"none", "asked", "answered"}
        /\ requests[reader].at \in Nat
        /\ requests[reader].readings \subseteq Readings
    /\ \A month \in Months : \A r, s \in memory[month] : SameInterval(r, s) => r = s

Init ==
    /\ clock = 0
    /\ \E v \in Values : offered = [s \in SlotsOf(Months) |-> {v}]
    /\ family = "generic"
    /\ requests = [reader \in Readers |-> NoRequest]
    /\ up = TRUE
    /\ memory = [m \in Months |-> {}]
    /\ known = {} /\ corrupt = {}
    /\ pending = [m \in Months |-> {}] /\ index = {} /\ delayed = {}
    /\ flush = NoFlush
    /\ file = [m \in Months |-> NoFile] /\ indexFile = {}
    /\ promised = {}
    /\ spent = [changes |-> 0, faults |-> 0]

-----------------------------------------------------------------------------
(* The provider.  It revises or withdraws a reading, or begins to answer   *)
(* through the other model.                                                *)
Tick ==
    /\ clock < MaxClock
    /\ clock' = clock + 1
    /\ UNCHANGED <<offered, family, requests, up, memory, known, corrupt, store, flush,
                   promised, spent>>

Revise ==
    /\ Spend("changes", MaxChanges)
    /\ \/ /\ \E s \in SlotsOf(Months), said \in {{}} \cup {{v} : v \in Values} :
                /\ said # offered[s]
                /\ offered' = [offered EXCEPT ![s] = said]
          /\ UNCHANGED family
       \/ /\ family' = (IF family = "generic" THEN "legacy" ELSE "generic")
          /\ Legacy # {} /\ UNCHANGED offered
    /\ UNCHANGED <<clock, requests, up, memory, known, corrupt, store, flush, promised>>

-----------------------------------------------------------------------------
(* A request: stamped when it is sent, answered at some later step with    *)
(* what is offered then, or with its beginning only.                       *)
\* The poll asks for the last hours, the worker for any span of the history.
WindowOf(reader) == SlotsOf(IF reader = "poll" THEN HotMonths ELSE Months)

Ask(reader) ==
    /\ up /\ requests[reader].step = "none"
    /\ ~(reader = "worker" /\ flush.by = "worker")
    /\ requests' = [requests EXCEPT ![reader] =
            [NoRequest EXCEPT !.step = "asked", !.at = clock, !.window = WindowOf(reader)]]
    /\ UNCHANGED <<clock, offered, family, up, memory, known, corrupt, store, flush,
                   promised, spent>>

SaidOf(window, series) ==
    UNION {{[series |-> series, slot |-> s, value |-> v] : v \in offered[s]} : s \in window}

\* Any one series of the answering model; a device may replace its meter.
Answer(reader) ==
    /\ requests[reader].step = "asked"
    /\ \E series \in (IF family = "generic" THEN Generic ELSE Legacy),
          cut \in {s + 1 : s \in requests[reader].window} :
        LET said == SaidOf(requests[reader].window, series)
            heard == {r \in said : r.slot < cut}
        IN  /\ requests' = [requests EXCEPT
                    ![reader].step = "answered",
                    ![reader].series = IF family = "generic" THEN {series} ELSE Legacy,
                    ![reader].sources = IF family = "generic" THEN Generic ELSE Series,
                    ![reader].readings = heard]
            /\ IF heard = said THEN UNCHANGED spent ELSE Spend("faults", MaxFaults)
    /\ UNCHANGED <<clock, offered, family, up, memory, known, corrupt, store, flush,
                   promised>>

-----------------------------------------------------------------------------
(* Reconciling one answer.                                                 *)

\* expand_authoritative_series: the queried series, and the stored ones of
\* the sources the answer speaks for.
Expanded(request, existing) ==
    request.series \cup {r.series : r \in {e \in existing : e.series \in request.sources}}

\* Mutant: an older answer is not held back.
Stands_WhateverItsAge(record, request, authoritative) ==
    LET said == {r \in request.readings : SameInterval(r, record)}
    IN  IF said # {}
        THEN \E r \in said : r.value = record.value
        ELSE record.series \notin authoritative \/ record.slot \notin request.window

\* A stored record that this answer leaves as it is: outside of what the
\* answer speaks for, confirmed by it, or observed after it.
Stands(record, request, authoritative) ==
    LET said == {r \in request.readings : SameInterval(r, record)}
    IN  \/ request.at < record.at
        \/ IF said # {}
           THEN \E r \in said : r.value = record.value
           ELSE record.series \notin authoritative \/ record.slot \notin request.window

\* Another value, observed at the very same instant.
Conflicts(base, request) ==
    \E record \in base : \E r \in request.readings :
        /\ SameInterval(r, record)
        /\ r.value # record.value /\ request.at = record.at

Stamped(reading, at) ==
    [series |-> reading.series, slot |-> reading.slot, value |-> reading.value, at |-> at]

\* Mutant: a corrected interval is kept beside its correction.
Merged_KeepsBoth(base, request, month, authoritative) ==
    base \cup {Stamped(r, request.at) : r \in {t \in request.readings : MonthOf(t.slot) = month}}

\* reconcile_partition, for the readings of one month.
Merged(base, request, month, authoritative) ==
    LET kept == {r \in base : Stands(r, request, authoritative)}
        said == {r \in request.readings : MonthOf(r.slot) = month}
    IN  kept \cup {Stamped(r, request.at) : r \in {t \in said :
                                            \A k \in kept : ~SameInterval(k, t)}}

Partitions(window) == {MonthOf(s) : s \in window}
CorruptNow(window) == corrupt \cup {m \in Partitions(window) \ HotMonths : Unreadable(m, known)}
BaseOf(month) == IF month \in HotMonths THEN memory[month] ELSE Latest(month)

\* Mutant: an empty month is reconciled like any other.
Answered_EvenWithNothing(request) == Partitions(request.window) \ CorruptNow(request.window)

\* The months that are reconciled: readable, and with something said of them.
Answered(request) ==
    {m \in Partitions(request.window) \ CorruptNow(request.window) :
        \E r \in request.readings : MonthOf(r.slot) = m}

AuthoritativeNow(request) ==
    Expanded(request, UNION {{r \in BaseOf(m) : r.slot \in request.window} :
                                m \in Partitions(request.window) \ CorruptNow(request.window)})

Outcome(request) ==
    [m \in Months |-> IF m \in Answered(request)
                      THEN Merged(BaseOf(m), request, m, AuthoritativeNow(request))
                      ELSE BaseOf(m)]
ChangedBy(request) == {m \in Answered(request) : Outcome(request)[m] # BaseOf(m)}

\* Mutant: what is already pending is not replaced.
Saves_OldestSnapshot(changed, records, listed) ==
    /\ pending' = [m \in Months |-> IF m \in changed /\ pending[m] = {}
                                   THEN {records[m]} ELSE pending[m]]
    /\ index' = IF listed = known THEN index ELSE {listed}
    /\ delayed' = delayed \cup changed \cup (IF listed = known THEN {} ELSE {IndexStore})
    /\ UNCHANGED <<file, indexFile>>

\* async_save_partition and async_save_index: kept in memory, and due later.
Saves(changed, records, listed) ==
    /\ pending' = [m \in Months |-> IF m \in changed THEN {records[m]} ELSE pending[m]]
    /\ index' = IF listed = known THEN index ELSE {listed}
    /\ delayed' = delayed \cup changed \cup (IF listed = known THEN {} ELSE {IndexStore})
    /\ UNCHANGED <<file, indexFile>>

\* async_reconcile.  An irreconcilable answer changes no month at all.
Reconcile(reader) ==
    LET request == requests[reader]
        refused == \E m \in Answered(request) : Conflicts(BaseOf(m), request)
        changed == IF refused THEN {} ELSE ChangedBy(request)
    IN  /\ up /\ request.step = "answered" /\ LockFree
        /\ requests' = [requests EXCEPT ![reader] = NoRequest]
        /\ corrupt' = CorruptNow(request.window)
        /\ memory' = [m \in Months |-> IF m \in changed \cap HotMonths
                                       THEN Outcome(request)[m] ELSE memory[m]]
        /\ known' = known \cup changed
        /\ Saves(changed, Outcome(request), known \cup changed)
        /\ flush' = IF reader = "worker" /\ ~refused
                    THEN [by |-> reader, changed |-> changed] ELSE NoFlush
        /\ UNCHANGED <<clock, offered, family, up, promised, spent>>

-----------------------------------------------------------------------------
(* The stores.                                                             *)
Writes(month) == file' = [file EXCEPT ![month] = GoodFile(UNION pending[month])]

\* A debounce ends.  The payload stays pending until a flush takes it out.
DebounceEnds ==
    /\ up
    /\ \E s \in delayed :
        /\ delayed' = delayed \ {s}
        /\ IF s = IndexStore
           THEN indexFile' = UNION index /\ UNCHANGED file
           ELSE Writes(s) /\ UNCHANGED indexFile
    /\ UNCHANGED <<clock, offered, family, requests, up, memory, known, corrupt, pending,
                   index, flush, promised, spent>>

\* The pass that publishes statistics flushes what the poll stored.
PollFlushes ==
    /\ up /\ LockFree
    /\ flush' = [by |-> "poll", changed |-> {m \in Months : pending[m] # {}}]
    /\ flush'.changed # {} \/ index # {}
    /\ UNCHANGED <<clock, offered, family, requests, up, memory, known, corrupt, store,
                   promised, spent>>

\* async_flush: the months one by one, then the index.
FlushesMonth ==
    /\ ~LockFree
    /\ \E m \in {n \in Months : pending[n] # {}} :
        /\ Writes(m)
        /\ pending' = [pending EXCEPT ![m] = {}]
        /\ delayed' = delayed \ {m}
    /\ UNCHANGED <<clock, offered, family, requests, up, memory, known, corrupt, index,
                   indexFile, flush, promised, spent>>

\* Mutant: the index is left to its debounce.
FlushEnds_LeavesIndex ==
    /\ ~LockFree
    /\ \A m \in Months : pending[m] = {}
    /\ promised' = promised \cup flush.changed
    /\ flush' = NoFlush
    /\ UNCHANGED <<clock, offered, family, requests, up, memory, known, corrupt, store,
                   spent>>

FlushEnds ==
    /\ ~LockFree
    /\ \A m \in Months : pending[m] = {}
    /\ indexFile' = IF index = {} THEN indexFile ELSE UNION index
    /\ index' = {}
    /\ delayed' = delayed \ {IndexStore}
    /\ promised' = promised \cup flush.changed
    /\ flush' = NoFlush
    /\ UNCHANGED <<clock, offered, family, requests, up, memory, known, corrupt, pending,
                   file, spent>>

-----------------------------------------------------------------------------
(* Crash and restart.                                                      *)
Crash ==
    /\ up /\ Spend("faults", MaxFaults)
    /\ up' = FALSE
    /\ requests' = [reader \in Readers |-> NoRequest]
    /\ memory' = [m \in Months |-> {}] /\ known' = {} /\ corrupt' = {}
    /\ pending' = [m \in Months |-> {}] /\ index' = {} /\ delayed' = {}
    /\ flush' = NoFlush
    /\ UNCHANGED <<clock, offered, family, file, indexFile, promised>>

\* While nobody looks, a file is damaged or left by a newer release.
Damage ==
    /\ ~up
    /\ \E m \in {n \in Months : file[n].state = "good"} :
        /\ file' = [file EXCEPT ![m] = BadFile]
        /\ promised' = promised \ {m}
    /\ UNCHANGED <<clock, offered, family, requests, up, memory, known, corrupt, pending,
                   index, delayed, indexFile, flush, spent>>

\* async_initialize: the index, then the hot months.
Start ==
    /\ ~up /\ up' = TRUE
    /\ known' = indexFile
    /\ corrupt' = {m \in HotMonths : Unreadable(m, indexFile)}
    /\ memory' = [m \in Months |-> IF m \in HotMonths THEN Latest(m) ELSE {}]
    /\ UNCHANGED <<clock, offered, family, requests, store, flush, promised, spent>>

Next ==
    \/ Tick \/ Revise \/ DebounceEnds \/ PollFlushes \/ FlushesMonth \/ FlushEnds
    \/ Crash \/ Damage \/ Start
    \/ \E reader \in Readers : Ask(reader) \/ Answer(reader) \/ Reconcile(reader)

Spec == Init /\ [][Next]_vars

-----------------------------------------------------------------------------
(* Properties.                                                             *)

\* There is one ledger: what memory holds of a month is what a load would
\* find, pending or on disk, and a quarantined month is held as empty.  Lost
\* snapshots, stale debounced writes and evictions would show here.
MemoryIsLatest ==
    up => /\ \A m \in HotMonths \ corrupt : memory[m] = Latest(m)
          /\ \A m \in corrupt : memory[m] = {}
          /\ \A m \in Months : m \notin HotMonths => memory[m] = {}

\* Once a flush ended, the months it wrote stay listed and readable through
\* every later crash, unless their file is damaged.
FlushedMonthsStay ==
    /\ \A m \in promised : m \in indexFile /\ file[m].state = "good"
    /\ up => promised \cap corrupt = {}

\* No answer, however short or late, takes a month's last reading: a month
\* on disk is never overwritten by an empty one.
MonthsAreNeverEmptied ==
    [][\A m \in Months : file[m].records # {} /\ file'[m].state = "good"
            => file'[m].records # {}]_vars

\* An answer changes nothing that was observed after it was asked for, and
\* nothing outside of its window; what it does change, it states.
AnswersInOrder ==
    [][\A m \in HotMonths : \A r \in memory[m] : up' =>
            \/ r \in memory'[m]
            \/ \E reader \in Readers :
                LET request == requests[reader]
                IN  /\ request.step = "answered" /\ requests'[reader] = NoRequest
                    /\ r.at <= request.at /\ r.slot \in request.window
                    /\ \A s \in memory'[m] : SameInterval(r, s) =>
                            \E t \in request.readings : SameInterval(t, s) /\ t.value = s.value]_vars
=============================================================================
