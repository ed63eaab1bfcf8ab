------------------------ MODULE IntervalLedger_proofs ------------------------
(***************************************************************************)
(* The properties of IntervalLedger hold for any months, series and        *)
(* values, any number of revisions, crashes and damaged files.             *)
(*                                                                         *)
(* LedgerInv is inductive.  It says what a pending payload, an index not   *)
(* flushed yet and a flush in progress have to do with the files: that is  *)
(* why a snapshot still in memory can always become durable.               *)
(***************************************************************************)
EXTENDS IntervalLedger, TLAPS

-----------------------------------------------------------------------------
(* The inductive invariant.                                                *)
OnePerInterval(records) == \A r, s \in records : SameInterval(r, s) => r = s

OfferedOK ==
    /\ offered \in [SlotsOf(Months) -> SUBSET Values]
    /\ \A s \in SlotsOf(Months) : \A v, w \in offered[s] : v = w

RequestType ==
    [step : {"none", "asked", "answered"}, at : Nat, window : SUBSET SlotsOf(Months),
     series : SUBSET Series, sources : SUBSET Series, readings : SUBSET Readings]
RequestsOK ==
    /\ requests \in [Readers -> RequestType]
    /\ \A reader \in Readers :
        /\ OnePerInterval(requests[reader].readings)
        /\ \A r \in requests[reader].readings : r.slot \in requests[reader].window

MemoryOK ==
    /\ memory \in [Months -> SUBSET Records]
    /\ \A m \in Months : OnePerInterval(memory[m])

FilesOK ==
    /\ file \in [Months -> [state : {"none", "bad", "good"}, records : SUBSET Records]]
    /\ \A m \in Months : /\ OnePerInterval(file[m].records)
                         /\ file[m].state # "good" => file[m].records = {}

\* At most one payload a month waits, and it holds something.
PendingOK ==
    /\ pending \in [Months -> SUBSET (SUBSET Records)]
    /\ \A m \in Months : \A p \in pending[m] :
        /\ p # {} /\ OnePerInterval(p)
        /\ \A q \in pending[m] : p = q

\* A debounced write has its payload, and a payload its month.
DelaysOK ==
    /\ delayed \subseteq Months \cup {IndexStore}
    /\ IndexStore \in delayed => index # {}
    /\ \A m \in Months : m \in delayed => pending[m] # {}
    /\ \A m \in Months : pending[m] # {} => m \in known \ corrupt

\* The index that waits, or else the one on disk, lists the known months.
IndexOK ==
    /\ known \subseteq Months /\ corrupt \subseteq Months /\ indexFile \subseteq Months
    /\ index \in {{}, {known}}
    /\ up => indexFile \subseteq known
    /\ up /\ index = {} => indexFile = known

\* What a flush will promise is known, and pending or on disk.
FlushOK ==
    /\ flush \in [by : Readers \cup {"nobody"}, changed : SUBSET Months]
    /\ flush.changed \subseteq known \ corrupt
    /\ \A m \in flush.changed : pending[m] # {} \/ file[m].state = "good"

DownOK ==
    ~up => /\ known = {} /\ corrupt = {} /\ index = {} /\ delayed = {} /\ flush = NoFlush
           /\ \A m \in Months : pending[m] = {} /\ memory[m] = {}
           /\ \A reader \in Readers : requests[reader] = NoRequest

LedgerInv ==
    /\ clock \in Nat /\ family \in {"generic", "legacy"} /\ up \in BOOLEAN
    /\ promised \subseteq Months
    /\ OfferedOK /\ RequestsOK /\ MemoryOK /\ FilesOK /\ PendingOK /\ DelaysOK
    /\ IndexOK /\ FlushOK /\ DownOK
    /\ MemoryIsLatest /\ FlushedMonthsStay

-----------------------------------------------------------------------------
(* Slots, months and stores.                                               *)
LEMMA SlotsAreNaturals == SlotsOf(Months) \subseteq Nat
<1> SUFFICES ASSUME NEW m \in Months,
                    NEW s \in (m * SlotsPerMonth) .. (m * SlotsPerMonth + SlotsPerMonth - 1)
             PROVE  s \in Nat
  BY DEF SlotsOf
<1>1. m \in Nat /\ SlotsPerMonth \in Nat
  BY LedgerAssumption
<1>2. m * SlotsPerMonth \in Nat
  BY <1>1
<1> QED BY <1>1, <1>2

LEMMA IndexIsNoMonth == IndexStore \notin Months
BY LedgerAssumption DEF IndexStore

\* The payload that waits for a month is what a load of it finds.
LEMMA PendingIsLatest ==
    ASSUME PendingOK, NEW m \in Months, NEW p \in pending[m]
    PROVE  pending[m] = {p} /\ UNION pending[m] = p /\ Latest(m) = p
<1>1. pending[m] = {p}
  BY DEF PendingOK
<1> QED BY <1>1 DEF Latest

LEMMA LatestIsTyped ==
    ASSUME PendingOK, FilesOK, NEW m \in Months
    PROVE  Latest(m) \in SUBSET Records /\ OnePerInterval(Latest(m))
<1>1. CASE pending[m] = {}
  BY <1>1 DEF Latest, FilesOK
<1>2. CASE pending[m] # {}
  <2>1. PICK p \in pending[m] : TRUE
    BY <1>2
  <2> QED BY <2>1, PendingIsLatest DEF PendingOK
<1> QED BY <1>1, <1>2

-----------------------------------------------------------------------------
(* Merging the readings of an answer into a month.                         *)
LEMMA StampedIsTyped ==
    ASSUME NEW r \in Readings, NEW at \in Nat
    PROVE  /\ Stamped(r, at) \in Records
           /\ Stamped(r, at).series = r.series /\ Stamped(r, at).slot = r.slot
           /\ Stamped(r, at).value = r.value /\ Stamped(r, at).at = at
BY DEF Stamped, Readings, Records

\* A merged month holds one record of an interval.
LEMMA MergedIsTyped ==
    ASSUME NEW base \in SUBSET Records, OnePerInterval(base),
           NEW request \in RequestType, OnePerInterval(request.readings),
           NEW month, NEW authoritative
    PROVE  /\ Merged(base, request, month, authoritative) \in SUBSET Records
           /\ OnePerInterval(Merged(base, request, month, authoritative))
<1> DEFINE kept == {r \in base : Stands(r, request, authoritative)}
           new == {t \in request.readings : MonthOf(t.slot) = month
                                            /\ \A k \in kept : ~SameInterval(k, t)}
<1>1. Merged(base, request, month, authoritative) = kept \cup {Stamped(r, request.at) : r \in new}
  BY DEF Merged
<1>2. kept \subseteq base /\ new \subseteq Readings /\ request.at \in Nat
  BY DEF RequestType
<1>3. new \subseteq request.readings /\ \A t \in new : \A k \in kept : ~SameInterval(k, t)
  OBVIOUS
<1> HIDE DEF kept, new
<1>4. {Stamped(r, request.at) : r \in new} \subseteq Records
  BY <1>2, StampedIsTyped
<1>5. ASSUME NEW r \in kept \cup {Stamped(t, request.at) : t \in new},
             NEW s \in kept \cup {Stamped(t, request.at) : t \in new}, SameInterval(r, s)
      PROVE  r = s
  <2>1. CASE r \in kept /\ s \in kept
    BY <2>1, <1>2, <1>5 DEF OnePerInterval
  <2>2. ASSUME NEW t \in new, r = Stamped(t, request.at), s \in kept PROVE FALSE
    BY <2>2, <1>2, <1>3, <1>5, StampedIsTyped DEF SameInterval
  <2>3. ASSUME NEW t \in new, s = Stamped(t, request.at), r \in kept PROVE FALSE
    BY <2>3, <1>2, <1>3, <1>5, StampedIsTyped DEF SameInterval
  <2>4. ASSUME NEW t \in new, NEW u \in new, r = Stamped(t, request.at), s = Stamped(u, request.at)
        PROVE  r = s
    <3>1. SameInterval(t, u)
      BY <2>4, <1>2, <1>5, StampedIsTyped DEF SameInterval
    <3> QED BY <3>1, <2>4, <1>3 DEF OnePerInterval
  <2> QED BY <2>1, <2>2, <2>3, <2>4
<1> QED BY <1>1, <1>2, <1>4, <1>5 DEF OnePerInterval

\* A month that something was said of is not empty afterwards.
LEMMA MergedHoldsSomething ==
    ASSUME NEW base, NEW request, NEW month, NEW authoritative,
           NEW r \in request.readings, MonthOf(r.slot) = month
    PROVE  Merged(base, request, month, authoritative) # {}
BY DEF Merged

\* A record that is gone was older than the answer and in its window, and
\* whatever stands for its interval now is what the answer says.
LEMMA MergedInOrder ==
    ASSUME NEW base \in SUBSET Records, OnePerInterval(base),
           NEW request \in RequestType,
           \A t \in request.readings : t.slot \in request.window,
           NEW month, NEW authoritative,
           NEW r \in base, r \notin Merged(base, request, month, authoritative)
    PROVE  /\ r.at <= request.at /\ r.slot \in request.window
           /\ \A s \in Merged(base, request, month, authoritative) : SameInterval(r, s) =>
                \E t \in request.readings : SameInterval(t, s) /\ t.value = s.value
<1>1. ~Stands(r, request, authoritative)
  BY DEF Merged
<1>2. r.at \in Nat /\ request.at \in Nat /\ request.readings \subseteq Readings
  BY DEF Records, RequestType
<1>3. r.at <= request.at
  BY <1>1, <1>2 DEF Stands
<1>4. r.slot \in request.window
  <2>1. CASE {t \in request.readings : SameInterval(t, r)} = {}
    BY <2>1, <1>1 DEF Stands
  <2>2. CASE {t \in request.readings : SameInterval(t, r)} # {}
    BY <2>2 DEF SameInterval
  <2> QED BY <2>1, <2>2
<1>5. ASSUME NEW s \in Merged(base, request, month, authoritative), SameInterval(r, s)
      PROVE  \E t \in request.readings : SameInterval(t, s) /\ t.value = s.value
  <2>1. CASE s \in base /\ Stands(s, request, authoritative)
    BY <2>1, <1>1, <1>5 DEF OnePerInterval
  <2>2. CASE \E t \in request.readings : s = Stamped(t, request.at)
    BY <2>2, <1>2, StampedIsTyped DEF SameInterval
  <2> QED BY <2>1, <2>2 DEF Merged
<1> QED BY <1>3, <1>4, <1>5

-----------------------------------------------------------------------------
(* One answer, reconciled.                                                 *)
LEMMA BaseIsTyped ==
    ASSUME MemoryOK, PendingOK, FilesOK, NEW m \in Months
    PROVE  BaseOf(m) \in SUBSET Records /\ OnePerInterval(BaseOf(m))
BY LatestIsTyped DEF BaseOf, MemoryOK

\* What a reconciliation leaves of a month.
LEMMA OutcomeIsTyped ==
    ASSUME MemoryOK, PendingOK, FilesOK, NEW m \in Months,
           NEW request \in RequestType, OnePerInterval(request.readings)
    PROVE  /\ Outcome(request)[m] \in SUBSET Records
           /\ OnePerInterval(Outcome(request)[m])
<1>1. BaseOf(m) \in SUBSET Records /\ OnePerInterval(BaseOf(m))
  BY BaseIsTyped
<1>2. CASE m \in Answered(request)
  <2>1. Outcome(request)[m] = Merged(BaseOf(m), request, m, AuthoritativeNow(request))
    BY <1>2 DEF Outcome
  <2> QED BY <2>1, <1>1, MergedIsTyped
<1>3. CASE m \notin Answered(request)
  BY <1>1, <1>3 DEF Outcome
<1> QED BY <1>2, <1>3

\* Only months that were read and answered change, and none of them to empty.
LEMMA ChangedMonths ==
    ASSUME NEW request, NEW m \in ChangedBy(request)
    PROVE  /\ m \in Partitions(request.window) /\ m \notin CorruptNow(request.window)
           /\ m \in Months => Outcome(request)[m] # {}
                              /\ Outcome(request)[m]
                                 = Merged(BaseOf(m), request, m, AuthoritativeNow(request))
<1>1. m \in Answered(request)
  BY DEF ChangedBy
<1>2. PICK r \in request.readings : MonthOf(r.slot) = m
  BY <1>1 DEF Answered
<1>3. ASSUME m \in Months
      PROVE  Outcome(request)[m] = Merged(BaseOf(m), request, m, AuthoritativeNow(request))
  BY <1>1, <1>3 DEF Outcome
<1> QED BY <1>1, <1>2, <1>3, MergedHoldsSomething DEF Answered

\* The months of a window are months.
LEMMA PartitionsAreMonths ==
    ASSUME NEW window \in SUBSET SlotsOf(Months)
    PROVE  Partitions(window) \subseteq Months
<1> SUFFICES ASSUME NEW m \in Months,
                    NEW s \in (m * SlotsPerMonth) .. (m * SlotsPerMonth + SlotsPerMonth - 1)
             PROVE  s \div SlotsPerMonth = m
  BY DEF Partitions, SlotsOf, MonthOf
<1> DEFINE q == s \div SlotsPerMonth
<1>1. m \in Nat /\ SlotsPerMonth \in Nat \ {0} /\ m * SlotsPerMonth \in Nat
  BY LedgerAssumption
<1>2. q \in Int /\ q * SlotsPerMonth <= s /\ s < q * SlotsPerMonth + SlotsPerMonth
  BY <1>1
<1> HIDE DEF q
<1>3. ASSUME q < m PROVE FALSE
  <2>1. (q + 1) * SlotsPerMonth <= m * SlotsPerMonth
    BY <1>1, <1>2, <1>3
  <2>2. (q + 1) * SlotsPerMonth = q * SlotsPerMonth + SlotsPerMonth
    BY <1>1, <1>2
  <2> QED BY <2>1, <2>2, <1>1, <1>2
<1>4. ASSUME m < q PROVE FALSE
  <2>1. (m + 1) * SlotsPerMonth <= q * SlotsPerMonth
    BY <1>1, <1>2, <1>4
  <2>2. (m + 1) * SlotsPerMonth = m * SlotsPerMonth + SlotsPerMonth
    BY <1>1
  <2> QED BY <2>1, <2>2, <1>1, <1>2
<1>5. q = m
  BY <1>1, <1>2, <1>3, <1>4
<1> QED BY <1>5 DEF q

-----------------------------------------------------------------------------
(* LedgerInv holds initially, and every step keeps it.                     *)
LEMMA LedgerInit == Init => LedgerInv
<1> SUFFICES ASSUME Init PROVE LedgerInv
  OBVIOUS
<1>1. OfferedOK
  BY DEF Init, OfferedOK
<1>2. NoRequest \in RequestType /\ NoRequest.readings = {}
  BY DEF NoRequest, RequestType
<1>3. RequestsOK
  BY <1>2 DEF Init, RequestsOK, OnePerInterval
<1>4. NoFile \in [state : {"none", "bad", "good"}, records : SUBSET Records]
      /\ NoFile.records = {}
  BY DEF NoFile
<1>5. MemoryOK /\ FilesOK
  BY <1>4 DEF Init, MemoryOK, FilesOK, OnePerInterval
<1>6. PendingOK /\ DelaysOK /\ IndexOK /\ FlushOK
  BY DEF Init, PendingOK, DelaysOK, IndexOK, FlushOK, NoFlush
<1>7. MemoryIsLatest /\ FlushedMonthsStay
  BY <1>4, LedgerAssumption DEF Init, MemoryIsLatest, FlushedMonthsStay, Latest
<1>8. DownOK
  BY DEF Init, DownOK
<1>9. clock \in Nat /\ family \in {"generic", "legacy"} /\ up \in BOOLEAN /\ promised \subseteq Months
  BY DEF Init
<1> QED BY <1>1, <1>3, <1>5, <1>6, <1>7, <1>8, <1>9 DEF LedgerInv

\* The parts of LedgerInv that do not look at requests or the provider.
LEMMA LedgerUntouched ==
    ASSUME LedgerInv,
           UNCHANGED <<up, memory, known, corrupt, store, flush, promised>>
    PROVE  /\ up' \in BOOLEAN /\ promised' \subseteq Months
           /\ MemoryOK' /\ FilesOK' /\ PendingOK' /\ DelaysOK' /\ IndexOK' /\ FlushOK'
           /\ MemoryIsLatest' /\ FlushedMonthsStay'
<1> USE DEF store, LedgerInv
<1>1. up' \in BOOLEAN /\ promised' \subseteq Months
  OBVIOUS
<1>2. MemoryOK' /\ FilesOK'
  BY DEF MemoryOK, FilesOK
<1>3. PendingOK' /\ DelaysOK'
  BY DEF PendingOK, DelaysOK
<1>4. IndexOK' /\ FlushOK'
  BY DEF IndexOK, FlushOK
<1>5. MemoryIsLatest' /\ FlushedMonthsStay'
  BY DEF MemoryIsLatest, FlushedMonthsStay, Latest
<1> QED BY <1>1, <1>2, <1>3, <1>4, <1>5

LEMMA TickKeeps == LedgerInv /\ Tick => LedgerInv'
<1> SUFFICES ASSUME LedgerInv, Tick PROVE LedgerInv'
  OBVIOUS
<1>1. UNCHANGED <<offered, family, requests, up, memory, known, corrupt, store, flush,
                  promised>>
  BY DEF Tick
<1>2. clock' \in Nat
  BY DEF Tick, LedgerInv
<1>3. OfferedOK' /\ RequestsOK' /\ DownOK'
  BY <1>1 DEF LedgerInv, OfferedOK, RequestsOK, DownOK, store
<1> QED BY <1>1, <1>2, <1>3, LedgerUntouched DEF LedgerInv

LEMMA ReviseKeeps == LedgerInv /\ Revise => LedgerInv'
<1> SUFFICES ASSUME LedgerInv, Revise PROVE LedgerInv'
  OBVIOUS
<1>1. UNCHANGED <<clock, requests, up, memory, known, corrupt, store, flush, promised>>
  BY DEF Revise
<1>2. family' \in {"generic", "legacy"} /\ OfferedOK'
  BY DEF Revise, LedgerInv, OfferedOK
<1>3. RequestsOK' /\ DownOK'
  BY <1>1 DEF LedgerInv, RequestsOK, DownOK, store
<1> QED BY <1>1, <1>2, <1>3, LedgerUntouched DEF LedgerInv

LEMMA AskKeeps ==
    ASSUME LedgerInv, NEW reader \in Readers, Ask(reader) PROVE LedgerInv'
<1> DEFINE asked == [NoRequest EXCEPT !.step = "asked", !.at = clock, !.window = WindowOf(reader)]
<1>1. UNCHANGED <<clock, offered, family, up, memory, known, corrupt, store, flush, promised>>
      /\ up /\ requests' = [requests EXCEPT ![reader] = asked]
  BY DEF Ask
<1>2. WindowOf(reader) \subseteq SlotsOf(Months)
  BY LedgerAssumption DEF WindowOf, SlotsOf
<1>3. asked \in RequestType /\ asked.readings = {}
  BY <1>2 DEF LedgerInv, NoRequest, RequestType
<1> HIDE DEF asked
<1>4. RequestsOK'
  BY <1>1, <1>3 DEF LedgerInv, RequestsOK, OnePerInterval
<1>5. OfferedOK' /\ DownOK'
  BY <1>1 DEF LedgerInv, OfferedOK, DownOK
<1> QED BY <1>1, <1>4, <1>5, LedgerUntouched DEF LedgerInv

\* What the provider says of a window has one value for an interval.
LEMMA SaidIsTyped ==
    ASSUME OfferedOK, NEW window \in SUBSET SlotsOf(Months), NEW series \in Series
    PROVE  /\ SaidOf(window, series) \in SUBSET Readings
           /\ OnePerInterval(SaidOf(window, series))
           /\ \A r \in SaidOf(window, series) : r.slot \in window
<1>1. \A r \in SaidOf(window, series) : \E s \in window : \E v \in offered[s] :
            r = [series |-> series, slot |-> s, value |-> v]
  BY DEF SaidOf
<1>2. \A s \in window : s \in Nat /\ s \in SlotsOf(Months)
  BY SlotsAreNaturals
<1>3. \A s \in window : \A v \in offered[s] : v \in Values /\ \A w \in offered[s] : v = w
  BY <1>2 DEF OfferedOK
<1>4. \A r \in SaidOf(window, series) :
        /\ r \in Readings /\ r.slot \in window /\ r.series = series
        /\ r.value \in offered[r.slot]
        /\ r = [series |-> r.series, slot |-> r.slot, value |-> r.value]
  BY <1>1, <1>2, <1>3 DEF Readings
<1>5. OnePerInterval(SaidOf(window, series))
  <2> SUFFICES ASSUME NEW r \in SaidOf(window, series), NEW s \in SaidOf(window, series),
                      r.series = s.series, r.slot = s.slot
               PROVE  r = s
    BY DEF OnePerInterval, SameInterval
  <2>1. r.value = s.value
    BY <1>3, <1>4
  <2> QED BY <2>1, <1>4
<1> QED BY <1>4, <1>5

LEMMA AnswerKeeps ==
    ASSUME LedgerInv, NEW reader \in Readers, Answer(reader) PROVE LedgerInv'
<1> DEFINE request == requests[reader]
<1>1. PICK series \in (IF family = "generic" THEN Generic ELSE Legacy),
           cut \in {s + 1 : s \in request.window} :
        requests' = [requests EXCEPT
            ![reader].step = "answered",
            ![reader].series = IF family = "generic" THEN {series} ELSE Legacy,
            ![reader].sources = IF family = "generic" THEN Generic ELSE Series,
            ![reader].readings = {r \in SaidOf(request.window, series) : r.slot < cut}]
  BY DEF Answer
<1>2. series \in Series
  BY DEF Series
<1>3. UNCHANGED <<clock, offered, family, up, memory, known, corrupt, store, flush, promised>>
      /\ request.step = "asked"
  BY DEF Answer
<1>4. request \in RequestType /\ OfferedOK
  BY DEF LedgerInv, RequestsOK
<1>5. /\ SaidOf(request.window, series) \in SUBSET Readings
      /\ OnePerInterval(SaidOf(request.window, series))
      /\ \A r \in SaidOf(request.window, series) : r.slot \in request.window
  BY <1>2, <1>4, SaidIsTyped DEF RequestType
<1> DEFINE heard == {r \in SaidOf(request.window, series) : r.slot < cut}
<1>6. heard \in SUBSET Readings /\ OnePerInterval(heard)
      /\ \A r \in heard : r.slot \in request.window
  BY <1>5 DEF OnePerInterval
<1> HIDE DEF heard
<1>7. /\ requests'[reader] \in RequestType
      /\ requests'[reader].readings = heard /\ requests'[reader].window = request.window
      /\ \A other \in Readers \ {reader} : requests'[other] = requests[other]
      /\ requests' \in [Readers -> RequestType]
  <2>1. /\ {series} \subseteq Series \/ family # "generic"
        /\ Legacy \subseteq Series /\ Generic \subseteq Series
    BY <1>2 DEF Series
  <2>2. requests \in [Readers -> RequestType]
    BY DEF LedgerInv, RequestsOK
  <2>3. requests' = [requests EXCEPT ![reader] =
            [request EXCEPT !.step = "answered",
                            !.series = IF family = "generic" THEN {series} ELSE Legacy,
                            !.sources = IF family = "generic" THEN Generic ELSE Series,
                            !.readings = heard]]
    BY <1>1, <2>2 DEF heard
  <2> QED BY <2>1, <2>2, <2>3, <1>4, <1>6 DEF RequestType
<1>8. RequestsOK'
  BY <1>6, <1>7 DEF LedgerInv, RequestsOK
<1>9. OfferedOK' /\ DownOK'
  <2>1. up
    BY <1>3 DEF LedgerInv, DownOK, NoRequest
  <2> QED BY <2>1, <1>3 DEF LedgerInv, OfferedOK, DownOK
<1> QED BY <1>3, <1>8, <1>9, LedgerUntouched DEF LedgerInv

-----------------------------------------------------------------------------
(* Reconciling.                                                            *)
RefusedNow(request) == \E m \in Answered(request) : Conflicts(BaseOf(m), request)
ChangedNow(request) == IF RefusedNow(request) THEN {} ELSE ChangedBy(request)

\* What a reconciliation does, with the changed months named.
LEMMA ReconcileSteps ==
    ASSUME NEW reader \in Readers, Reconcile(reader)
    PROVE  LET request == requests[reader]
               changed == ChangedNow(request)
           IN  /\ up /\ request.step = "answered" /\ flush = NoFlush
               /\ requests' = [requests EXCEPT ![reader] = NoRequest]
               /\ corrupt' = CorruptNow(request.window)
               /\ memory' = [m \in Months |-> IF m \in changed \cap HotMonths
                                              THEN Outcome(request)[m] ELSE memory[m]]
               /\ known' = known \cup changed
               /\ pending' = [m \in Months |-> IF m \in changed THEN {Outcome(request)[m]}
                                               ELSE pending[m]]
               /\ index' = IF known' = known THEN index ELSE {known'}
               /\ delayed' = delayed \cup changed
                                     \cup (IF known' = known THEN {} ELSE {IndexStore})
               /\ flush' \in {[by |-> reader, changed |-> changed], NoFlush}
               /\ UNCHANGED <<clock, offered, family, up, file, indexFile, promised>>
BY DEF Reconcile, RefusedNow, ChangedNow, Saves, LockFree

\* The changed months are read, typed and not empty; a month is quarantined
\* only for what its file says.
LEMMA ReconcileFacts ==
    ASSUME LedgerInv, NEW reader \in Readers, Reconcile(reader),
           NEW changed, changed = ChangedNow(requests[reader]),
           NEW outcome, outcome = Outcome(requests[reader])
    PROVE  /\ changed \subseteq Months /\ changed \cap corrupt' = {}
           /\ corrupt \subseteq corrupt' /\ corrupt' \subseteq Months
           /\ \A m \in corrupt' \ corrupt :
                m \notin HotMonths /\ pending[m] = {} /\ file[m].state # "good"
           /\ \A m \in changed :
                /\ outcome[m] \in SUBSET Records /\ OnePerInterval(outcome[m])
                /\ outcome[m] # {}
<1> DEFINE request == requests[reader]
<1>1. /\ request \in RequestType /\ OnePerInterval(request.readings)
      /\ MemoryOK /\ PendingOK /\ FilesOK /\ IndexOK
  BY DEF LedgerInv, RequestsOK
<1>2. request.window \in SUBSET SlotsOf(Months)
  BY <1>1 DEF RequestType
<1>3. corrupt' = CorruptNow(request.window)
  BY ReconcileSteps
<1>4. changed \subseteq ChangedBy(request)
  BY DEF ChangedNow
<1> HIDE DEF request
<1>5. Partitions(request.window) \subseteq Months
  BY <1>2, PartitionsAreMonths
<1>6. \A m \in changed : m \in ChangedBy(request)
  BY <1>4
<1>7. changed \subseteq Months /\ changed \cap corrupt' = {}
  BY <1>3, <1>5, <1>6, ChangedMonths
<1>8. corrupt \subseteq corrupt' /\ corrupt' \subseteq Months
  BY <1>1, <1>3, <1>5 DEF CorruptNow, IndexOK
<1>9. \A m \in corrupt' \ corrupt :
        m \notin HotMonths /\ pending[m] = {} /\ file[m].state # "good"
  BY <1>3 DEF CorruptNow, Unreadable
<1>10. ASSUME NEW m \in changed
       PROVE  /\ outcome[m] \in SUBSET Records /\ OnePerInterval(outcome[m])
              /\ outcome[m] # {}
  <2>1. outcome = Outcome(request) /\ m \in Months
    BY <1>7 DEF request
  <2> QED BY <2>1, <1>1, <1>6, ChangedMonths, OutcomeIsTyped
<1> QED BY <1>7, <1>8, <1>9, <1>10

LEMMA ReconcileKeeps ==
    ASSUME LedgerInv, NEW reader \in Readers, Reconcile(reader) PROVE LedgerInv'
<1> DEFINE changed == ChangedNow(requests[reader])
           outcome == Outcome(requests[reader])
<1>1. /\ up /\ flush = NoFlush /\ UNCHANGED <<clock, offered, family, up, file, indexFile, promised>>
      /\ requests' = [requests EXCEPT ![reader] = NoRequest]
      /\ memory' = [m \in Months |-> IF m \in changed \cap HotMonths THEN outcome[m]
                                     ELSE memory[m]]
      /\ known' = known \cup changed
      /\ pending' = [m \in Months |-> IF m \in changed THEN {outcome[m]} ELSE pending[m]]
      /\ index' = IF known' = known THEN index ELSE {known'}
      /\ delayed' = delayed \cup changed \cup (IF known' = known THEN {} ELSE {IndexStore})
      /\ flush' \in {[by |-> reader, changed |-> changed], NoFlush}
  BY ReconcileSteps
<1>2. /\ changed \subseteq Months /\ changed \cap corrupt' = {}
      /\ corrupt \subseteq corrupt' /\ corrupt' \subseteq Months
      /\ \A m \in corrupt' \ corrupt :
            m \notin HotMonths /\ pending[m] = {} /\ file[m].state # "good"
      /\ \A m \in changed : /\ outcome[m] \in SUBSET Records /\ OnePerInterval(outcome[m])
                            /\ outcome[m] # {}
  BY ReconcileFacts
<1> HIDE DEF changed, outcome
<1>3. OfferedOK' /\ FilesOK' /\ DownOK'
  BY <1>1 DEF LedgerInv, OfferedOK, FilesOK, DownOK
<1>4. RequestsOK'
  <2>1. NoRequest \in RequestType /\ NoRequest.readings = {}
    BY DEF NoRequest, RequestType
  <2> QED BY <2>1, <1>1 DEF LedgerInv, RequestsOK, OnePerInterval
<1>5. MemoryOK'
  BY <1>1, <1>2 DEF LedgerInv, MemoryOK
<1>6. PendingOK'
  BY <1>1, <1>2 DEF LedgerInv, PendingOK
<1>7. DelaysOK'
  <2>1. delayed' \subseteq Months \cup {IndexStore}
    BY <1>1, <1>2 DEF LedgerInv, DelaysOK
  <2>2. IndexStore \in delayed' => index' # {}
    BY <1>1, <1>2, IndexIsNoMonth DEF LedgerInv, DelaysOK
  <2>3. \A m \in Months : m \in delayed' => pending'[m] # {}
    BY <1>1, <1>2, IndexIsNoMonth DEF LedgerInv, DelaysOK
  <2>4. \A m \in Months : pending'[m] # {} => m \in known' \ corrupt'
    BY <1>1, <1>2 DEF LedgerInv, DelaysOK
  <2> QED BY <2>1, <2>2, <2>3, <2>4 DEF DelaysOK
<1>8. IndexOK'
  BY <1>1, <1>2 DEF LedgerInv, IndexOK
<1>9. FlushOK'
  <2>1. flush'.changed \subseteq changed /\ flush' \in [by : Readers \cup {"nobody"}, changed : SUBSET Months]
    BY <1>1, <1>2 DEF NoFlush
  <2> QED BY <2>1, <1>1, <1>2 DEF FlushOK
<1>10. MemoryIsLatest'
  <2>1. ASSUME NEW m \in HotMonths \ corrupt' PROVE memory'[m] = Latest(m)'
    <3>1. m \in Months
      BY LedgerAssumption
    <3>2. CASE m \in changed
      <4>1. memory'[m] = outcome[m] /\ pending'[m] = {outcome[m]}
        BY <1>1, <3>1, <3>2, <2>1
      <4> QED BY <4>1 DEF Latest
    <3>3. CASE m \notin changed
      <4>1. memory'[m] = memory[m] /\ pending'[m] = pending[m] /\ file'[m] = file[m]
        BY <1>1, <3>1, <3>3
      <4>2. memory[m] = Latest(m)
        BY <1>1, <1>2, <2>1 DEF LedgerInv, MemoryIsLatest
      <4> QED BY <4>1, <4>2 DEF Latest
    <3> QED BY <3>2, <3>3
  <2>2. ASSUME NEW m \in corrupt' PROVE memory'[m] = {}
    <3>1. memory'[m] = memory[m]
      BY <1>1, <1>2, <2>2
    <3>2. m \in Months /\ (m \in corrupt \/ m \notin HotMonths)
      BY <1>2, <2>2
    <3> QED BY <3>1, <3>2, <1>1 DEF LedgerInv, MemoryIsLatest
  <2>3. \A m \in Months : m \notin HotMonths => memory'[m] = {}
    BY <1>1 DEF LedgerInv, MemoryIsLatest
  <2> QED BY <2>1, <2>2, <2>3 DEF MemoryIsLatest
<1>11. FlushedMonthsStay'
  BY <1>1, <1>2 DEF LedgerInv, FlushedMonthsStay
<1> QED BY <1>1, <1>3, <1>4, <1>5, <1>6, <1>7, <1>8, <1>9, <1>10, <1>11 DEF LedgerInv

-----------------------------------------------------------------------------
(* Writing, crashing and starting again.                                   *)
LEMMA DebounceEndsKeeps == LedgerInv /\ DebounceEnds => LedgerInv'
<1> SUFFICES ASSUME LedgerInv, DebounceEnds PROVE LedgerInv'
  OBVIOUS
<1>1. PICK s \in delayed :
        /\ delayed' = delayed \ {s}
        /\ IF s = IndexStore THEN indexFile' = UNION index /\ UNCHANGED file
           ELSE Writes(s) /\ UNCHANGED indexFile
  BY DEF DebounceEnds
<1>2. up /\ UNCHANGED <<clock, offered, family, requests, up, memory, known, corrupt, pending,
                        index, flush, promised>>
  BY DEF DebounceEnds
<1>3. OfferedOK' /\ RequestsOK' /\ MemoryOK' /\ PendingOK' /\ DownOK' /\ DelaysOK'
  BY <1>1, <1>2 DEF LedgerInv, OfferedOK, RequestsOK, MemoryOK, PendingOK, DownOK, DelaysOK
<1>4. CASE s = IndexStore
  <2>1. indexFile' = known /\ UNCHANGED file
    <3>1. index = {known}
      BY <1>1, <1>4 DEF LedgerInv, DelaysOK, IndexOK
    <3> QED BY <3>1, <1>1, <1>4
  <2>2. FilesOK' /\ FlushOK' /\ MemoryIsLatest'
    BY <2>1, <1>2 DEF LedgerInv, FilesOK, FlushOK, MemoryIsLatest, Latest
  <2>3. IndexOK' /\ FlushedMonthsStay'
    BY <2>1, <1>2 DEF LedgerInv, IndexOK, FlushedMonthsStay
  <2> QED BY <2>2, <2>3, <1>2, <1>3 DEF LedgerInv
<1>5. CASE s # IndexStore
  <2>1. s \in Months /\ UNCHANGED indexFile /\ pending[s] # {}
    BY <1>1, <1>5 DEF LedgerInv, DelaysOK
  <2>2. PICK p \in pending[s] : TRUE
    BY <2>1
  <2>3. /\ p \in SUBSET Records /\ OnePerInterval(p)
        /\ file' = [file EXCEPT ![s] = [state |-> "good", records |-> p]]
    BY <1>1, <1>5, <2>1, <2>2, PendingIsLatest DEF LedgerInv, PendingOK, Writes, GoodFile
  <2>4. FilesOK' /\ IndexOK'
    BY <2>1, <2>3, <1>2 DEF LedgerInv, FilesOK, IndexOK
  <2>5. \A m \in Months : pending[m] = {} => file'[m] = file[m]
    BY <2>1, <2>3 DEF LedgerInv, FilesOK
  <2>6. \A m \in Months : Latest(m)' = Latest(m)
    BY <2>5, <1>2 DEF Latest
  <2>7. MemoryIsLatest'
    BY <2>6, <1>2, LedgerAssumption DEF LedgerInv, MemoryIsLatest
  <2>8. \A m \in Months : file[m].state = "good" => file'[m].state = "good"
    BY <2>1, <2>3 DEF LedgerInv, FilesOK
  <2>9. FlushOK' /\ FlushedMonthsStay'
    BY <2>8, <2>1, <1>2 DEF LedgerInv, FlushOK, FlushedMonthsStay
  <2> QED BY <2>4, <2>7, <2>9, <1>2, <1>3 DEF LedgerInv
<1> QED BY <1>4, <1>5

LEMMA PollFlushesKeeps == LedgerInv /\ PollFlushes => LedgerInv'
<1> SUFFICES ASSUME LedgerInv, PollFlushes PROVE LedgerInv'
  OBVIOUS
<1>1. /\ up /\ flush' = [by |-> "poll", changed |-> {m \in Months : pending[m] # {}}]
      /\ UNCHANGED <<clock, offered, family, requests, up, memory, known, corrupt, store,
                     promised>>
  BY DEF PollFlushes
<1>2. OfferedOK' /\ RequestsOK' /\ MemoryOK' /\ PendingOK' /\ DownOK' /\ DelaysOK'
  BY <1>1 DEF LedgerInv, OfferedOK, RequestsOK, MemoryOK, PendingOK, DownOK, DelaysOK, store
<1>3. FilesOK' /\ IndexOK' /\ MemoryIsLatest' /\ FlushedMonthsStay'
  BY <1>1 DEF LedgerInv, FilesOK, IndexOK, MemoryIsLatest, FlushedMonthsStay, Latest, store
<1>4. FlushOK'
  BY <1>1 DEF LedgerInv, DelaysOK, FlushOK, store, Readers
<1> QED BY <1>1, <1>2, <1>3, <1>4 DEF LedgerInv

LEMMA FlushesMonthKeeps == LedgerInv /\ FlushesMonth => LedgerInv'
<1> SUFFICES ASSUME LedgerInv, FlushesMonth PROVE LedgerInv'
  OBVIOUS
<1>1. PICK s \in {n \in Months : pending[n] # {}} :
        Writes(s) /\ pending' = [pending EXCEPT ![s] = {}] /\ delayed' = delayed \ {s}
  BY DEF FlushesMonth
<1>2. flush # NoFlush
      /\ UNCHANGED <<clock, offered, family, requests, up, memory, known, corrupt, index,
                     indexFile, flush, promised>>
  BY DEF FlushesMonth, LockFree
<1>3. PICK p \in pending[s] : TRUE
  BY <1>1
<1>4. /\ p \in SUBSET Records /\ OnePerInterval(p) /\ Latest(s) = p
      /\ file' = [file EXCEPT ![s] = [state |-> "good", records |-> p]]
  BY <1>1, <1>3, PendingIsLatest DEF LedgerInv, PendingOK, Writes, GoodFile
<1>5. OfferedOK' /\ RequestsOK' /\ MemoryOK' /\ IndexOK'
  BY <1>2 DEF LedgerInv, OfferedOK, RequestsOK, MemoryOK, IndexOK
<1>6. DownOK' /\ PendingOK' /\ FilesOK'
  BY <1>1, <1>2, <1>4 DEF LedgerInv, DownOK, PendingOK, FilesOK
<1>7. DelaysOK'
  BY <1>1, <1>2, IndexIsNoMonth DEF LedgerInv, DelaysOK, PendingOK
<1>8. ASSUME NEW m \in Months PROVE Latest(m)' = Latest(m)
  <2>1. CASE m = s
    <3>1. pending'[m] = {} /\ file'[m].records = p
      BY <2>1, <1>1, <1>4 DEF LedgerInv, PendingOK, FilesOK
    <3> QED BY <3>1, <2>1, <1>4 DEF Latest
  <2>2. CASE m # s
    <3>1. pending'[m] = pending[m] /\ file'[m] = file[m]
      BY <2>2, <1>1, <1>4 DEF LedgerInv, PendingOK, FilesOK
    <3> QED BY <3>1 DEF Latest
  <2> QED BY <2>1, <2>2
<1>9. MemoryIsLatest'
  BY <1>8, <1>2, LedgerAssumption DEF LedgerInv, MemoryIsLatest
<1>10. \A m \in Months : /\ file[m].state = "good" => file'[m].state = "good"
                         /\ pending[m] # {} /\ pending'[m] = {} => file'[m].state = "good"
  BY <1>1, <1>4 DEF LedgerInv, FilesOK, PendingOK
<1>11. FlushOK' /\ FlushedMonthsStay'
  BY <1>10, <1>2 DEF LedgerInv, FlushOK, FlushedMonthsStay
<1> QED BY <1>2, <1>5, <1>6, <1>7, <1>9, <1>11 DEF LedgerInv

LEMMA FlushEndsKeeps == LedgerInv /\ FlushEnds => LedgerInv'
<1> SUFFICES ASSUME LedgerInv, FlushEnds PROVE LedgerInv'
  OBVIOUS
<1>1. /\ flush # NoFlush /\ \A m \in Months : pending[m] = {}
      /\ indexFile' = IF index = {} THEN indexFile ELSE UNION index
      /\ index' = {} /\ delayed' = delayed \ {IndexStore}
      /\ promised' = promised \cup flush.changed /\ flush' = NoFlush
      /\ UNCHANGED <<clock, offered, family, requests, up, memory, known, corrupt, pending, file>>
  BY DEF FlushEnds, LockFree
<1>2. up
  BY <1>1 DEF LedgerInv, DownOK
<1>3. indexFile' = known
  BY <1>1, <1>2 DEF LedgerInv, IndexOK
<1>4. OfferedOK' /\ RequestsOK' /\ MemoryOK' /\ PendingOK' /\ FilesOK' /\ DownOK'
  BY <1>1, <1>2 DEF LedgerInv, OfferedOK, RequestsOK, MemoryOK, PendingOK, FilesOK, DownOK
<1>5. DelaysOK' /\ IndexOK'
  BY <1>1, <1>3 DEF LedgerInv, DelaysOK, IndexOK
<1>6. FlushOK'
  BY <1>1 DEF FlushOK, NoFlush
<1>7. MemoryIsLatest'
  BY <1>1 DEF LedgerInv, MemoryIsLatest, Latest
<1>8. FlushedMonthsStay'
  <2>1. promised \subseteq known /\ flush.changed \subseteq known
    BY <1>2 DEF LedgerInv, FlushedMonthsStay, IndexOK, FlushOK
  <2>2. \A m \in promised' : file[m].state = "good"
    BY <1>1 DEF LedgerInv, FlushedMonthsStay, FlushOK
  <2>3. promised' \cap corrupt = {}
    BY <1>1, <1>2 DEF LedgerInv, FlushedMonthsStay, FlushOK
  <2> QED BY <2>1, <2>2, <2>3, <1>1, <1>3 DEF FlushedMonthsStay
<1>9. promised' \subseteq Months
  BY <1>1 DEF LedgerInv, FlushOK
<1> QED BY <1>1, <1>4, <1>5, <1>6, <1>7, <1>8, <1>9 DEF LedgerInv

LEMMA CrashKeeps == LedgerInv /\ Crash => LedgerInv'
<1> SUFFICES ASSUME LedgerInv, Crash PROVE LedgerInv'
  OBVIOUS
<1>1. /\ up' = FALSE /\ requests' = [reader \in Readers |-> NoRequest]
      /\ memory' = [m \in Months |-> {}] /\ known' = {} /\ corrupt' = {}
      /\ pending' = [m \in Months |-> {}] /\ index' = {} /\ delayed' = {} /\ flush' = NoFlush
      /\ UNCHANGED <<clock, offered, family, file, indexFile, promised>>
  BY DEF Crash
<1>2. NoRequest \in RequestType /\ NoRequest.readings = {}
  BY DEF NoRequest, RequestType
<1>3. OfferedOK' /\ FilesOK' /\ RequestsOK'
  BY <1>1, <1>2 DEF LedgerInv, OfferedOK, FilesOK, RequestsOK, OnePerInterval
<1>4. MemoryOK' /\ PendingOK'
  BY <1>1 DEF MemoryOK, PendingOK, OnePerInterval
<1>5. DelaysOK' /\ FlushOK' /\ DownOK'
  BY <1>1 DEF DelaysOK, FlushOK, DownOK, NoFlush
<1>6. IndexOK' /\ MemoryIsLatest' /\ FlushedMonthsStay'
  BY <1>1 DEF LedgerInv, IndexOK, MemoryIsLatest, FlushedMonthsStay
<1> QED BY <1>1, <1>3, <1>4, <1>5, <1>6 DEF LedgerInv

LEMMA DamageKeeps == LedgerInv /\ Damage => LedgerInv'
<1> SUFFICES ASSUME LedgerInv, Damage PROVE LedgerInv'
  OBVIOUS
<1>1. PICK s \in Months : file' = [file EXCEPT ![s] = BadFile] /\ promised' = promised \ {s}
  BY DEF Damage
<1>2. ~up /\ UNCHANGED <<clock, offered, family, requests, up, memory, known, corrupt, pending,
                         index, delayed, indexFile, flush>>
  BY DEF Damage
<1>3. OfferedOK' /\ RequestsOK' /\ MemoryOK' /\ PendingOK' /\ DelaysOK' /\ IndexOK' /\ DownOK'
  BY <1>2 DEF LedgerInv, OfferedOK, RequestsOK, MemoryOK, PendingOK, DelaysOK, IndexOK, DownOK
<1>4. FilesOK'
  BY <1>1 DEF LedgerInv, FilesOK, BadFile, OnePerInterval
<1>5. FlushOK'
  BY <1>2 DEF LedgerInv, DownOK, FlushOK, NoFlush
<1>6. MemoryIsLatest' /\ FlushedMonthsStay' /\ promised' \subseteq Months
  BY <1>1, <1>2 DEF LedgerInv, FilesOK, MemoryIsLatest, FlushedMonthsStay
<1> QED BY <1>2, <1>3, <1>4, <1>5, <1>6 DEF LedgerInv

LEMMA StartKeeps == LedgerInv /\ Start => LedgerInv'
<1> SUFFICES ASSUME LedgerInv, Start PROVE LedgerInv'
  OBVIOUS
<1>1. /\ ~up /\ up' = TRUE /\ known' = indexFile
      /\ corrupt' = {m \in HotMonths : Unreadable(m, indexFile)}
      /\ memory' = [m \in Months |-> IF m \in HotMonths THEN Latest(m) ELSE {}]
      /\ UNCHANGED <<clock, offered, family, requests, store, flush, promised>>
  BY DEF Start
<1>2. /\ index = {} /\ delayed = {} /\ flush = NoFlush
      /\ \A m \in Months : pending[m] = {}
  BY <1>1 DEF LedgerInv, DownOK
<1>3. OfferedOK' /\ RequestsOK' /\ FilesOK' /\ PendingOK'
  BY <1>1 DEF LedgerInv, OfferedOK, RequestsOK, FilesOK, PendingOK, store
<1>4. MemoryOK'
  <2>1. \A m \in Months : Latest(m) \in SUBSET Records /\ OnePerInterval(Latest(m))
    BY LatestIsTyped DEF LedgerInv
  <2> QED BY <2>1, <1>1 DEF MemoryOK, OnePerInterval
<1>5. DelaysOK' /\ IndexOK' /\ FlushOK' /\ DownOK'
  BY <1>1, <1>2, LedgerAssumption
  DEF LedgerInv, DelaysOK, IndexOK, FlushOK, DownOK, store, NoFlush
<1>6. MemoryIsLatest'
  <2>1. \A m \in Months : Latest(m)' = Latest(m)
    BY <1>1 DEF store, Latest
  <2>2. \A m \in corrupt' : m \in Months /\ memory'[m] = {}
    BY <1>1, <1>2, LedgerAssumption DEF LedgerInv, FilesOK, Latest, Unreadable
  <2> QED BY <2>1, <2>2, <1>1, LedgerAssumption DEF MemoryIsLatest
<1>7. FlushedMonthsStay'
  BY <1>1 DEF LedgerInv, FlushedMonthsStay, Unreadable, store
<1> QED BY <1>1, <1>3, <1>4, <1>5, <1>6, <1>7 DEF LedgerInv

LEMMA LedgerStep == LedgerInv /\ [Next]_vars => LedgerInv'
<1> SUFFICES ASSUME LedgerInv, [Next]_vars PROVE LedgerInv'
  OBVIOUS
<1>1. CASE UNCHANGED vars
  BY <1>1, LedgerUntouched
  DEF vars, LedgerInv, OfferedOK, RequestsOK, DownOK, store
<1>2. CASE Tick
  BY <1>2, TickKeeps
<1>3. CASE Revise
  BY <1>3, ReviseKeeps
<1>4. CASE DebounceEnds
  BY <1>4, DebounceEndsKeeps
<1>5. CASE PollFlushes
  BY <1>5, PollFlushesKeeps
<1>6. CASE FlushesMonth
  BY <1>6, FlushesMonthKeeps
<1>7. CASE FlushEnds
  BY <1>7, FlushEndsKeeps
<1>8. CASE Crash
  BY <1>8, CrashKeeps
<1>9. CASE Damage
  BY <1>9, DamageKeeps
<1>10. CASE Start
  BY <1>10, StartKeeps
<1>11. ASSUME NEW reader \in Readers, Ask(reader) \/ Answer(reader) \/ Reconcile(reader)
       PROVE  LedgerInv'
  BY <1>11, AskKeeps, AnswerKeeps, ReconcileKeeps
<1> QED
  BY <1>1, <1>2, <1>3, <1>4, <1>5, <1>6, <1>7, <1>8, <1>9, <1>10, <1>11 DEF Next

\* What the store, the memory and a flush have to do with one another never
\* breaks, whatever answers, crashes and debounced writes do in between.
THEOREM LedgerHolds == Spec => []LedgerInv
BY LedgerInit, LedgerStep, PTL DEF Spec

-----------------------------------------------------------------------------
(* The properties.                                                         *)

\* Every ledger variable keeps its type, and a month holds one record of an
\* interval (ledger.py, reconcile_partition).
THEOREM LedgerTypes == Spec => []LedgerTypeOK
<1>1. LedgerInv => LedgerTypeOK
  BY DEF LedgerInv, LedgerTypeOK, MemoryOK, OnePerInterval, PendingOK, DelaysOK, FilesOK,
         IndexOK, FlushOK, RequestsOK, RequestType
<1> QED BY <1>1, LedgerHolds, PTL

\* There is one ledger: memory is what a load of the stores would find.
THEOREM LedgerIsOne == Spec => []MemoryIsLatest
<1>1. LedgerInv => MemoryIsLatest
  BY DEF LedgerInv
<1> QED BY <1>1, LedgerHolds, PTL

\* A month that a finished flush wrote is listed and readable for good.
THEOREM FlushIsDurable == Spec => []FlushedMonthsStay
<1>1. LedgerInv => FlushedMonthsStay
  BY DEF LedgerInv
<1> QED BY <1>1, LedgerHolds, PTL

\* Only payloads are written, and no payload is empty.
LEMMA NoMonthIsEmptied ==
    ASSUME LedgerInv, [Next]_vars, NEW m \in Months,
           file[m].records # {}, file'[m].state = "good"
    PROVE  file'[m].records # {}
<1>1. CASE UNCHANGED file
  BY <1>1
<1>2. ASSUME NEW s \in Months, pending[s] # {}, Writes(s)
      PROVE  file'[m].records # {}
  <2>1. PICK p \in pending[s] : TRUE
    BY <1>2
  <2>2. p # {} /\ file' = [file EXCEPT ![s] = [state |-> "good", records |-> p]]
    BY <1>2, <2>1, PendingIsLatest DEF LedgerInv, PendingOK, Writes, GoodFile
  <2> QED BY <2>2 DEF LedgerInv, FilesOK
<1>3. CASE DebounceEnds
  BY <1>1, <1>2, <1>3 DEF DebounceEnds, LedgerInv, DelaysOK
<1>4. CASE FlushesMonth
  BY <1>2, <1>4 DEF FlushesMonth
<1>5. CASE Damage
  BY <1>5 DEF Damage, BadFile, LedgerInv, FilesOK
<1>6. ASSUME NEW reader \in Readers, Ask(reader) \/ Answer(reader) \/ Reconcile(reader)
      PROVE  UNCHANGED file
  BY <1>6, ReconcileSteps DEF Ask, Answer, store
<1> QED
  BY <1>1, <1>3, <1>4, <1>5, <1>6
  DEF Next, vars, Tick, Revise, PollFlushes, FlushEnds, Crash, Start, store

\* No answer, however short or late, takes a month's last reading.
THEOREM MonthsKeepReadings == Spec => MonthsAreNeverEmptied
<1>1. LedgerInv /\ [Next]_vars =>
        [\A m \in Months : file[m].records # {} /\ file'[m].state = "good"
            => file'[m].records # {}]_vars
  BY NoMonthIsEmptied
<1> QED BY <1>1, LedgerHolds, PTL DEF Spec, MonthsAreNeverEmptied

\* A record leaves memory only for an answer that was asked for later, has
\* its slot in the window, and states whatever replaces it.
LEMMA RecordsLeaveInOrder ==
    ASSUME LedgerInv, [Next]_vars, NEW m \in HotMonths, NEW r \in memory[m], up',
           r \notin memory'[m]
    PROVE  \E reader \in Readers :
                LET request == requests[reader]
                IN  /\ request.step = "answered" /\ requests'[reader] = NoRequest
                    /\ r.at <= request.at /\ r.slot \in request.window
                    /\ \A s \in memory'[m] : SameInterval(r, s) =>
                            \E t \in request.readings : SameInterval(t, s) /\ t.value = s.value
<1>1. m \in Months
  BY LedgerAssumption
<1>2. ~UNCHANGED memory
  OBVIOUS
<1>3. ~Start
  BY <1>1 DEF Start, LedgerInv, DownOK
<1>4. PICK reader \in Readers : Reconcile(reader)
  BY <1>2, <1>3
  DEF Next, vars, Tick, Revise, DebounceEnds, PollFlushes, FlushesMonth, FlushEnds, Crash,
      Damage, Ask, Answer
<1> DEFINE request == requests[reader]
           changed == ChangedNow(request)
<1>5. /\ up /\ request.step = "answered" /\ requests' = [requests EXCEPT ![reader] = NoRequest]
      /\ memory' = [n \in Months |-> IF n \in changed \cap HotMonths
                                     THEN Outcome(request)[n] ELSE memory[n]]
  BY <1>4, ReconcileSteps
<1>6. requests'[reader] = NoRequest
  BY <1>5 DEF LedgerInv, RequestsOK
<1>7. m \in ChangedBy(request) /\ memory'[m] = Outcome(request)[m]
  BY <1>1, <1>5 DEF ChangedNow
<1>8. /\ request \in RequestType /\ \A t \in request.readings : t.slot \in request.window
      /\ memory[m] \in SUBSET Records /\ OnePerInterval(memory[m])
  BY <1>1 DEF LedgerInv, RequestsOK, MemoryOK
<1> HIDE DEF request, changed
<1>9. memory'[m] = Merged(memory[m], request, m, AuthoritativeNow(request))
  BY <1>1, <1>7, ChangedMonths DEF BaseOf
<1>10. /\ r.at <= request.at /\ r.slot \in request.window
       /\ \A s \in memory'[m] : SameInterval(r, s) =>
            \E t \in request.readings : SameInterval(t, s) /\ t.value = s.value
  BY <1>8, <1>9, MergedInOrder
<1> QED BY <1>5, <1>6, <1>10 DEF request

\* Answers are merged in the order they were asked for, whatever the order
\* they arrive in (ledger.py, _reconcile_interval).
THEOREM AnswersAreOrdered == Spec => AnswersInOrder
<1>1. LedgerInv /\ [Next]_vars =>
        [\A m \in HotMonths : \A r \in memory[m] : up' =>
            \/ r \in memory'[m]
            \/ \E reader \in Readers :
                LET request == requests[reader]
                IN  /\ request.step = "answered" /\ requests'[reader] = NoRequest
                    /\ r.at <= request.at /\ r.slot \in request.window
                    /\ \A s \in memory'[m] : SameInterval(r, s) =>
                            \E t \in request.readings : SameInterval(t, s) /\ t.value = s.value]_vars
  BY RecordsLeaveInOrder
<1> QED BY <1>1, LedgerHolds, PTL DEF Spec, AnswersInOrder
=============================================================================
