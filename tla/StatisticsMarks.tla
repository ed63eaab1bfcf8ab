--------------------------- MODULE StatisticsMarks ---------------------------
(***************************************************************************)
(* How a change of the ledger reaches the Energy Dashboard: the marks of   *)
(* coordinator.py (_statistics_pending) between poll, worker, history walk *)
(* and price, and the passes of StatisticsProjector that consume them.     *)
(*                                                                         *)
(* A publication runs under the mutation lock wherever it is called, and   *)
(* so does every change of the ledger or of the marks: each is one step.   *)
(* Between the readings of a poll and its marks the lock is free.  A poll  *)
(* does not outlast the hour it began in.                                  *)
(*                                                                         *)
(* Left out: a recorder that is not loaded, and what a crash takes from    *)
(* the ledger's last seconds.                                              *)
(***************************************************************************)
EXTENDS StatisticsProjector

CONSTANTS StartHour,     \* the hour the clock starts from
          WindowLength,  \* hours one answer covers
          MaxAnswers,    \* bound: answers that change the ledger
          MaxInputs,     \* bound: presses, new prices, calendars and restarts
          MaxLost,       \* bound: faults between a change and its mark
          MaxStopped,    \* bound: walks ended by a refusal
          MaxFailed      \* bound: passes that fail

ASSUME MarksAssumption ==
    /\ StartHour \in 0 .. LastHour /\ WindowLength \in Nat \ {0}
    /\ MaxAnswers \in Nat /\ MaxInputs \in Nat
    /\ MaxLost \in Nat /\ MaxStopped \in Nat /\ MaxFailed \in Nat

VARIABLES
    now,       \* the clock: hours before it are over
    ledger,    \* the stored readings
    rows,      \* what the recorder holds, per series
    memory,    \* the projector's memory
    pending,   \* the supply point's mark, if it has one
    tariff,    \* the price last read and the calendar of the billing periods
    poll,      \* the changes a poll has stored and not yet marked
    walks,     \* the directions a history walk is running in
    spent      \* how much of each bound is used up

vars == <<now, ledger, rows, memory, pending, tariff, poll, walks, spent>>

TypeOK ==
    /\ now \in 0 .. (LastHour + 1)
    /\ ledger \in Ledgers
    /\ \A d \in Directions : DOMAIN rows.energy[d] \subseteq Hours
    /\ DOMAIN rows.cost \subseteq Hours
    /\ pending \subseteq Requests
    /\ tariff \in Tariffs
    /\ poll \in [reading : BOOLEAN, changed : SUBSET Hours, deleted : SUBSET Directions]
    /\ walks \subseteq Directions

IdlePoll == [reading |-> FALSE, changed |-> {}, deleted |-> {}]

Init ==
    /\ now = StartHour
    /\ ledger = [d \in Directions |-> [h \in Hours |-> NoReading]]
    /\ rows = [energy |-> [d \in Directions |-> <<>>], cost |-> <<>>]
    /\ memory = NoMemory
    /\ pending = {Everything}
    /\ tariff = [price |-> 0, calendar |-> 0]
    /\ poll = IdlePoll
    /\ walks = {}
    /\ spent = [answers |-> 0, inputs |-> 0, lost |-> 0, stopped |-> 0, failed |-> 0]

\* One more of the events bounded by `limit`.
Spend(kind, limit) == spent[kind] < limit /\ spent' = [spent EXCEPT ![kind] = @ + 1]

-----------------------------------------------------------------------------
(* The ledger.                                                             *)
Windows == {s .. (s + WindowLength - 1) : s \in 0 .. (now - WindowLength)}
RecentWindow == {w \in Windows : now - 1 \in w}

\* async_reconcile: the answer is authoritative for the partitions it has a
\* reading for, and says nothing about the others.
Reconciled(readings, window, answer) ==
    LET answered == {PartitionStart(h) : h \in {r \in window : answer[r] # NoReading}}
    IN  [h \in Hours |-> IF h \in window /\ PartitionStart(h) \in answered
                         THEN answer[h] ELSE readings[h]]

Stores(d, windows) ==
    /\ spent.answers < MaxAnswers
    /\ \E w \in windows : \E answer \in [w -> Energies \cup {NoReading}] :
            ledger' = [ledger EXCEPT ![d] = Reconciled(@, w, answer)]
    /\ ledger' # ledger

Changed == {h \in Hours : \E d \in Directions : ledger'[d][h] # ledger[d][h]}
Deleted == {d \in Directions :
                \E h \in HoursRead(ledger[d]) : ledger'[d][h] = NoReading}

-----------------------------------------------------------------------------
(* The marks.                                                              *)

\* Mutant: every changed hour is kept, not the earliest.
Marked_EveryHour(marks, changed, deleted) ==
    {[from |-> IF \E m \in marks : m.from = {} THEN {}
               ELSE changed \cup UNION {m.from : m \in marks},
      reset |-> deleted \cup UNION {m.reset : m \in marks}]}

\* _mark_statistics_dirty: the earliest change, and what to clear.
Marked(marks, changed, deleted) ==
    IF changed = {} THEN marks
    ELSE IF marks = {} THEN {[from |-> {Min(changed)}, reset |-> deleted]}
    ELSE {[from |-> IF m.from = {} THEN {} ELSE {Min(m.from \cup changed)},
           reset |-> m.reset \cup deleted] : m \in marks}

\* _mark_statistics_reset: a finished walk asks for a rebuild.
MarkedReset(marks, d) == {[from |-> {}, reset |-> {d} \cup UNION {m.reset : m \in marks}]}

\* _async_publish_pending_statistics: a mark is consumed by the pass it asks
\* for.  A pass may fail before it has touched the projector's memory or
\* after; either way the mark stays.
PassSucceeds(marks) ==
    /\ pending' = {}
    /\ IF marks = {} \/ HoursKnown(ledger') = {}
       THEN UNCHANGED <<rows, memory>>
       ELSE \E m \in marks :
                LET pass == Pass(memory, rows, m, ledger', tariff, now)
                IN  rows' = pass.rows /\ memory' = pass.memory

PassFails(marks) ==
    /\ marks # {} /\ HoursKnown(ledger') # {}
    /\ pending' = marks
    /\ memory' \in {memory, Touched(memory, tariff)}
    /\ UNCHANGED rows

\* A publication after `used` more answers.
Publishes(marks, used) ==
    \/ /\ PassSucceeds(marks)
       /\ spent' = [spent EXCEPT !.answers = @ + used]
    \/ /\ PassFails(marks) /\ spent.failed < MaxFailed
       /\ spent' = [spent EXCEPT !.answers = @ + used, !.failed = @ + 1]

-----------------------------------------------------------------------------
Tick ==
    /\ now <= LastHour /\ ~poll.reading
    /\ now' = now + 1
    /\ UNCHANGED <<ledger, rows, memory, pending, tariff, poll, walks, spent>>

\* The poll stores what it reads, and marks it only once it is over.
PollReads(d) ==
    /\ Stores(d, RecentWindow)
    /\ poll' = [reading |-> TRUE, changed |-> poll.changed \cup Changed,
                deleted |-> poll.deleted \cup Deleted]
    /\ spent' = [spent EXCEPT !.answers = @ + 1]
    /\ UNCHANGED <<now, rows, memory, pending, tariff, walks>>

PollEnds ==
    /\ UNCHANGED ledger
    /\ Publishes(Marked(pending, poll.changed, poll.deleted), 0)
    /\ poll' = IdlePoll
    /\ UNCHANGED <<now, tariff, walks>>

\* A refused sign-in at a later reading, or a failed save of the checkpoint,
\* ends the poll before it has marked what it stored.
PollAborts ==
    /\ poll.reading
    /\ Spend("lost", MaxLost)
    /\ poll' = IdlePoll
    /\ UNCHANGED <<now, ledger, rows, memory, pending, tariff, walks>>

\* A planned window or a refill: stored, flushed, marked and published.
WorkerStores(d) ==
    /\ Stores(d, Windows)
    /\ Publishes(Marked(pending, Changed, Deleted), 1)
    /\ UNCHANGED <<now, tariff, poll, walks>>

\* The flush of a planned window, or the save that follows that of a refill,
\* fails: the item is retried, and its answer then changes nothing.
WorkerStoresUnmarked(d) ==
    /\ Stores(d, Windows)
    /\ spent.lost < MaxLost
    /\ spent' = [spent EXCEPT !.lost = @ + 1, !.answers = @ + 1]
    /\ UNCHANGED <<now, rows, memory, pending, tariff, poll, walks>>

-----------------------------------------------------------------------------
(* The history walk stores without marking, until it ends.                 *)
WalkBegins(d) ==
    /\ d \notin walks /\ Spend("inputs", MaxInputs)
    /\ walks' = walks \cup {d}
    /\ UNCHANGED <<now, ledger, rows, memory, pending, tariff, poll>>

WalkStores(d) ==
    /\ d \in walks
    /\ Stores(d, Windows)
    /\ spent' = [spent EXCEPT !.answers = @ + 1]
    /\ UNCHANGED <<now, rows, memory, pending, tariff, poll, walks>>

\* The last window of a walk, empty or not.
WalkEnds(d) ==
    /\ d \in walks
    /\ walks' = walks \ {d}
    /\ \/ UNCHANGED ledger /\ Publishes(MarkedReset(pending, d), 0)
       \/ Stores(d, Windows) /\ Publishes(MarkedReset(pending, d), 1)
    /\ UNCHANGED <<now, tariff, poll>>

\* A legacy answer or a permanent failure: the walk ends and marks nothing.
WalkIsStopped(d) ==
    /\ d \in walks
    /\ walks' = walks \ {d}
    /\ Spend("stopped", MaxStopped)
    /\ UNCHANGED <<now, ledger, rows, memory, pending, tariff, poll>>

-----------------------------------------------------------------------------
(* The inputs of the cost, and the process.                                *)
PriceArrives ==
    /\ Spend("inputs", MaxInputs)
    /\ \E p \in Prices \cup {0} : p # tariff.price /\ tariff' = [tariff EXCEPT !.price = p]
    /\ UNCHANGED <<now, ledger, rows, memory, pending, poll, walks>>

\* async_reprice_statistics, whenever the tariff was read again.
Reprices ==
    /\ UNCHANGED ledger
    /\ Publishes(IF pending = {} THEN {[from |-> {now}, reset |-> {}]} ELSE pending, 0)
    /\ UNCHANGED <<now, tariff, poll, walks>>

CalendarMoves ==
    /\ Spend("inputs", MaxInputs)
    /\ \E c \in Calendars \ {tariff.calendar} : tariff' = [tariff EXCEPT !.calendar = c]
    /\ UNCHANGED <<now, ledger, rows, memory, pending, poll, walks>>

Restarts ==
    /\ Spend("inputs", MaxInputs)
    /\ memory' = NoMemory /\ pending' = {Everything} /\ poll' = IdlePoll
    /\ tariff' = [tariff EXCEPT !.price = 0]
    /\ UNCHANGED <<now, ledger, rows, walks>>

Next ==
    \/ Tick \/ PollEnds \/ PollAborts
    \/ PriceArrives \/ Reprices \/ CalendarMoves \/ Restarts
    \/ \E d \in Directions :
        \/ PollReads(d) \/ WorkerStores(d) \/ WorkerStoresUnmarked(d)
        \/ WalkBegins(d) \/ WalkStores(d) \/ WalkEnds(d) \/ WalkIsStopped(d)

Spec == Init /\ [][Next]_vars

-----------------------------------------------------------------------------
\* What a pass over the whole ledger would publish.
WholeEnergy(d) == EnergyRows(ledger[d], 0, 0)
WholeCost == CostRows(ledger[Import], tariff, 0, 0)

\* Whatever was stored is marked and whatever was marked is published.
AllMarksServed == pending = {} /\ ~poll.reading /\ walks = {}
CostIsCurrent == IsPriceable(tariff) /\ memory.inputs = Inputs(tariff)

(* "The sums are identical to a whole-ledger pass" (docs/ARCHITECTURE.md): *)
(* whatever boundary each pass resumed from and whatever was corrected     *)
(* behind it, once every mark is served the rows of every direction are    *)
(* those of a pass over the whole ledger.                                  *)
EnergyIsExact == AllMarksServed => \A d \in Directions : rows.energy[d] = WholeEnergy(d)

\* The same of the cost of every hour read, priced with the present inputs.
CostIsExact ==
    AllMarksServed /\ CostIsCurrent =>
        \A h \in HoursRead(ledger[Import]) :
            h \in DOMAIN rows.cost /\ rows.cost[h] = WholeCost[h]

\* A rebuild is due: everything was asked for, by a restart or a walk, and is
\* not published yet, or what happens now ends a walk or removes a reading.
AsksForEverything(marks) == marks # {} /\ \A m \in marks : DirtyFrom(m) = {}
RebuildIsDue ==
    \/ AsksForEverything(pending)
    \/ \E d \in walks : WalkEnds(d)
    \/ poll.deleted # {} /\ PollEnds
    \/ \E d \in Directions : WorkerStores(d) /\ Deleted # {}

\* A rebuild that is due is made or stays due, and once made the rows are those
\* of what is stored, whatever lost marks, failed passes, stopped walks and
\* withdrawn hours had left there: the energy of every direction, and, while a
\* price is known, the cost of every hour read.
RebuildRepairs ==
    [][RebuildIsDue =>
        \/ AsksForEverything(pending')
        \/ /\ pending' = {}
           /\ \A d \in Directions : HoursRead(ledger'[d]) # {} => rows'.energy[d] = WholeEnergy(d)'
           /\ IsPriceable(tariff') => \A h \in HoursRead(ledger'[Import]) :
                 h \in DOMAIN rows'.cost /\ rows'.cost[h] = WholeCost'[h]]_vars
=============================================================================
