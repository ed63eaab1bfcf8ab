------------------------ MODULE BackgroundSync_proofs ------------------------
(***************************************************************************)
(* The planner, the checkpoint and the worker, proved for any calendar,    *)
(* any set of directions and any limits.                                   *)
(*                                                                         *)
(* First the chunks of a span, and what every method of the checkpoint     *)
(* keeps.  SyncInv is then an inductive invariant of BackgroundSync, which *)
(* implements DurableCoverage.  Last the plans: those of the recorded      *)
(* months, refills that overrun their limit once at most, walks that leave *)
(* no gap behind.                                                          *)
(***************************************************************************)
EXTENDS BackgroundSync, TLAPS

-----------------------------------------------------------------------------
(* The calendar.                                                           *)

\* Integer division by a positive number rounds down, and is monotone.
LEMMA DivisionBounds ==
    ASSUME NEW n \in Int, NEW q \in Nat \ {0}
    PROVE  /\ n \div q \in Int
           /\ (n \div q) * q <= n
           /\ n < (n \div q) * q + q
OBVIOUS

LEMMA DivisionIsMonotone ==
    ASSUME NEW m \in Int, NEW n \in Int, NEW q \in Nat \ {0}, m <= n
    PROVE  m \div q <= n \div q
<1> DEFINE a == m \div q
           b == n \div q
<1>1. a \in Int /\ b \in Int /\ a * q <= m /\ n < b * q + q
  BY DivisionBounds
<1>2. SUFFICES ASSUME b < a PROVE FALSE
  BY <1>1
<1> HIDE DEF a, b
<1>3. (b + 1) * q <= a * q
  BY <1>1, <1>2
<1>4. (b + 1) * q = b * q + q
  BY <1>1
<1> QED BY <1>1, <1>3, <1>4

\* The calendar's instants are instants.
LEMMA CalendarType ==
    ASSUME NEW t \in Int
    PROVE  DayOf(t) \in Int /\ MonthOf(t) \in Int
           /\ LocalMonthStart(t) \in Int /\ InitialFloor(t) \in Int
<1>1. DayOf(t) \in Int /\ MonthOf(t) \in Int
  BY PlanAssumption, DivisionBounds DEF DayOf, MonthOf
<1> QED BY <1>1, PlanAssumption DEF LocalMonthStart, InitialFloor

LEMMA DaysFollowInstants ==
    ASSUME NEW s \in Int, NEW t \in Int, s <= t
    PROVE  DayOf(s) <= DayOf(t)
BY PlanAssumption, DivisionIsMonotone DEF DayOf

-----------------------------------------------------------------------------
(* The chunks of a span.                                                   *)

\* Every chunk is a window the provider may be asked for.
LEMMA ChunksAreWindows ==
    ASSUME NEW start \in Int, NEW end \in Int
    PROVE  NewestFirstChunks(start, end) \subseteq Windows
<1> SUFFICES ASSUME NEW k \in 0 .. (end - start), end - k * QueryWindow > start
             PROVE  Chunk(start, end, k) \in Windows
  BY DEF NewestFirstChunks
<1>1. k * QueryWindow \in Int /\ (k + 1) * QueryWindow = k * QueryWindow + QueryWindow
  BY PlanAssumption
<1> QED BY <1>1, PlanAssumption DEF Chunk, Windows, Latest

\* Together the chunks leave no instant of the span out.
LEMMA ChunksCoverTheSpan ==
    ASSUME NEW start \in Int, NEW end \in Int, NEW t \in start .. (end - 1)
    PROVE  \E w \in NewestFirstChunks(start, end) : t \in Ticks(w)
<1> DEFINE k == (end - 1 - t) \div QueryWindow
<1>1. /\ k \in Int /\ k * QueryWindow \in Int
      /\ k * QueryWindow <= end - 1 - t
      /\ end - 1 - t < k * QueryWindow + QueryWindow
  BY PlanAssumption, DivisionBounds
<1> HIDE DEF k
<1>2. (k + 1) * QueryWindow = k * QueryWindow + QueryWindow
  BY <1>1, PlanAssumption
<1>3. k >= 0
  <2> SUFFICES ASSUME k <= -1 PROVE FALSE
    BY <1>1
  <2>1. k * QueryWindow <= -1 * QueryWindow
    BY <1>1, PlanAssumption
  <2> QED BY <2>1, <1>1, PlanAssumption
<1>4. k <= k * QueryWindow
  BY <1>1, <1>3, PlanAssumption
<1>5. k \in {j \in 0 .. (end - start) : end - j * QueryWindow > start}
  BY <1>1, <1>3, <1>4
<1>6. t \in Ticks(Chunk(start, end, k))
  BY <1>1, <1>2, PlanAssumption DEF Ticks, Chunk, Latest
<1> QED BY <1>5, <1>6 DEF NewestFirstChunks

-----------------------------------------------------------------------------
(* Soundness of a checkpoint against the ledger's durable ticks: the       *)
(* conjuncts of SyncInv that speak of the checkpoint, for any record c and *)
(* any durable ticks s.                                                    *)
Ledgers == [Directions -> SUBSET Int]

Vouched(c, s) ==
    \A d \in Directions : \A b \in c.daily[d] :
        /\ InitialFloor(b.through) .. (b.through - 1) \subseteq s[d]
        /\ b.day = DayOf(b.through)

Latest1(c) ==
    /\ \A g, h \in DailiesOf(c) : g = h
    /\ \A d \in Directions : \A a, b \in c.daily[d] : a = b

Sound(c, s) ==
    /\ c \in Checkpoints
    /\ Accepted(c)
    /\ \A d \in Directions : c.coverage[d] \subseteq s[d]
    /\ Vouched(c, s)
    /\ Latest1(c)
    /\ \A r \in c.completed : Ticks(r.window) \subseteq s[r.direction]
    /\ \A g \in DailiesOf(c) : g.start = InitialFloor(g.end)

\* An empty record claims nothing.
LEMMA EmptyIsSound ==
    ASSUME NEW t \in Int, NEW s \in Ledgers
    PROVE  Sound(Empty(t), s)
<1>1. Empty(t) \in Checkpoints
  BY CalendarType DEF Empty, Checkpoints, NoWalk, Walks, WalkStates
<1> QED BY <1>1 DEF Sound, Empty, Accepted, Vouched, Latest1, DailiesOf

\* More durable ticks never make a record unsound.
LEMMA SoundnessIsMonotone ==
    ASSUME NEW c, NEW s \in Ledgers, NEW t \in Ledgers, Sound(c, s),
           \A d \in Directions : s[d] \subseteq t[d]
    PROVE  Sound(c, t)
<1>1. \A r \in c.completed : r.direction \in Directions
  BY DEF Sound, Checkpoints, Resolutions
<1> QED BY <1>1 DEF Sound, Vouched

\* A record that keeps a subset of another's generations and resolutions, all
\* of them registered, and its claims as they were, is sound with it.
LEMMA RetainingIsSound ==
    ASSUME NEW c, NEW s \in Ledgers, Sound(c, s), NEW kept \in SUBSET c.generations
    PROVE  Sound(Retain(c, kept), s)
<1>1. Retain(c, kept) \in Checkpoints
  BY DEF Sound, Checkpoints, Retain
<1>2. Accepted(Retain(c, kept))
  BY DEF Sound, Checkpoints, Accepted, Retain
<1>3. /\ Retain(c, kept).coverage = c.coverage
      /\ Retain(c, kept).daily = c.daily
      /\ Retain(c, kept).completed \subseteq c.completed
      /\ DailiesOf(Retain(c, kept)) \subseteq DailiesOf(c)
  BY DEF Sound, Checkpoints, Retain, DailiesOf
<1> QED BY <1>1, <1>2, <1>3 DEF Sound, Vouched, Latest1

LEMMA RollingIsSound ==
    ASSUME NEW c, NEW s \in Ledgers, Sound(c, s), NEW t \in Int
    PROVE  Sound(RollMonthPair(c, t), s)
<1>1. CASE c.month = MonthOf(t)
  BY <1>1 DEF RollMonthPair
<1>2. CASE c.month # MonthOf(t)
  <2> DEFINE r == Retain(c, DailiesOf(c))
             n == [r EXCEPT !.month = MonthOf(t)]
  <2>1. Sound(r, s)
    BY RetainingIsSound DEF DailiesOf
  <2>2. n = RollMonthPair(c, t)
    BY <1>2 DEF RollMonthPair
  <2> HIDE DEF r
  <2>3. n \in Checkpoints
    BY <2>1, CalendarType DEF Sound, Checkpoints
  <2>4. /\ n.generations = r.generations /\ n.completed = r.completed
        /\ n.failed = r.failed /\ n.coverage = r.coverage /\ n.daily = r.daily
    BY <2>1 DEF Sound, Checkpoints
  <2>5. Sound(n, s)
    BY <2>1, <2>3, <2>4 DEF Sound, Accepted, Vouched, Latest1, DailiesOf
  <2> QED BY <2>2, <2>5
<1> QED BY <1>1, <1>2

\* Registering generations leaves every resolution registered.
LEMMA RegisteringIsSound ==
    ASSUME NEW c, NEW s \in Ledgers, Sound(c, s), NEW planned \in SUBSET Generations,
           \A g \in planned : g.reason = "daily" => g.start = InitialFloor(g.end),
           \A g, h \in DailiesOf(c) \cup {p \in planned : p.reason = "daily"} : g = h
    PROVE  Sound(Register(c, planned), s)
<1> DEFINE n == Register(c, planned)
<1>1. n \in Checkpoints
  BY DEF Sound, Checkpoints, Register
<1>2. /\ n.generations = c.generations \cup planned /\ n.completed = c.completed
      /\ n.failed = c.failed /\ n.coverage = c.coverage /\ n.daily = c.daily
  BY DEF Sound, Checkpoints, Register
<1> HIDE DEF n
<1>3. Accepted(n) /\ Vouched(n, s)
  BY <1>2 DEF Sound, Accepted, Vouched
<1>4. Latest1(n) /\ \A g \in DailiesOf(n) : g.start = InitialFloor(g.end)
  BY <1>2 DEF Sound, Latest1, DailiesOf
<1> QED BY <1>1, <1>2, <1>3, <1>4 DEF Sound, n

\* What the planner plans is a set of generations, all initial.
LEMMA InitialPlansAreGenerations ==
    ASSUME NEW t \in Int
    PROVE  Initial(t) \subseteq Generations /\ \A g \in Initial(t) : g.reason # "daily"
<1>1. Earliest(LocalMonthStart(t), t - PollOverlap) \in Int
  BY CalendarType, PlanAssumption DEF Earliest
<1> QED
  BY <1>1, CalendarType, PlanAssumption
  DEF Initial, Generations, PlannedReasons, InitialReasons

LEMMA DailyPlanIsGeneration ==
    ASSUME NEW t \in Int
    PROVE  /\ Daily(t) \in Generations /\ Daily(t).reason = "daily"
           /\ Daily(t).start = InitialFloor(Daily(t).end)
BY CalendarType DEF Daily, Generations, PlannedReasons

\* The new daily generation is the only one.
LEMMA SupersedingIsSound ==
    ASSUME NEW c, NEW s \in Ledgers, Sound(c, s),
           NEW g \in Generations, g.reason = "daily", g.start = InitialFloor(g.end)
    PROVE  Sound(SupersedeDaily(c, g), s)
<1> DEFINE kept == c.generations \ ObsoleteDailies(c, g)
           r == Retain(c, kept)
<1>1. Sound(r, s)
  BY RetainingIsSound
<1>2. r.generations = kept
  BY DEF Sound, Checkpoints, Retain
<1>3. \A h \in DailiesOf(r) : h = g
  BY <1>2 DEF DailiesOf, ObsoleteDailies
<1> HIDE DEF r
<1>4. Sound(Register(r, {g}), s)
  BY <1>1, <1>3, RegisteringIsSound
<1> QED BY <1>4 DEF SupersedeDaily, r

LEMMA ForgivingIsSound ==
    ASSUME NEW c, NEW s \in Ledgers, Sound(c, s), NEW directions
    PROVE  Sound(ClearFailures(c, directions), s)
<1> DEFINE n == ClearFailures(c, directions)
<1>1. n \in Checkpoints
  BY DEF Sound, Checkpoints, ClearFailures
<1>2. /\ n.generations = c.generations /\ n.completed = c.completed
      /\ n.failed \subseteq c.failed /\ n.coverage = c.coverage /\ n.daily = c.daily
  BY DEF Sound, Checkpoints, ClearFailures
<1> HIDE DEF n
<1>3. Sound(n, s)
  BY <1>1, <1>2 DEF Sound, Accepted, Vouched, Latest1, DailiesOf
<1> QED BY <1>3 DEF n

-----------------------------------------------------------------------------
(* Claims: what a completed window adds for one direction.                 *)
ClaimsMore(c, n, d) ==
    /\ c.coverage[d] \subseteq n.coverage[d]
    /\ \A b \in n.daily[d] : \A a \in c.daily[d] : a.through <= b.through
    /\ c.daily[d] # {} => n.daily[d] # {}
    /\ \A e \in Directions \ {d} : n.coverage[e] = c.coverage[e] /\ n.daily[e] = c.daily[e]

\* A daily generation whose every window is completed was read in full.
LEMMA FinishedDailyIsDurable ==
    ASSUME NEW c, NEW s \in Ledgers, Sound(c, s), NEW d \in Directions,
           NEW g \in FinishedDailies(c, d)
    PROVE  InitialFloor(g.end) .. (g.end - 1) \subseteq s[d]
<1>1. g \in DailiesOf(c) /\ g.start = InitialFloor(g.end)
  BY DEF FinishedDailies, Sound
<1>2. g.start \in Int /\ g.end \in Int
  BY <1>1 DEF Sound, Checkpoints, DailiesOf, Generations
<1> SUFFICES ASSUME NEW t \in g.start .. (g.end - 1)
             PROVE  t \in s[d]
  BY <1>1
<1>3. PICK w \in WindowsOf(g) : t \in Ticks(w)
  BY <1>2, ChunksCoverTheSpan DEF WindowsOf
<1>4. [direction |-> d, generation |-> g, window |-> w] \in c.completed
  BY <1>3 DEF FinishedDailies
<1>5. Ticks(w) \subseteq s[d]
  BY <1>4 DEF Sound
<1> QED BY <1>3, <1>5

\* The barrier moves to the latest instant a daily generation finished, or
\* stays; it never moves back and never vanishes.
LEMMA AdvancingTheBarrierIsSound ==
    ASSUME NEW c, NEW s \in Ledgers, Sound(c, s), NEW d \in Directions
    PROVE  /\ Sound(AdvanceDailyBarrier(c, d), s)
           /\ ClaimsMore(c, AdvanceDailyBarrier(c, d), d)
<1> DEFINE reached == Reached(c, d)
           candidates == c.daily[d] \cup reached
           latest == LatestOf(candidates)
           n == AdvanceDailyBarrier(c, d)
<1>1. \A g \in FinishedDailies(c, d) : g \in DailiesOf(c) /\ g.end \in Int
  BY DEF FinishedDailies, Sound, Checkpoints, DailiesOf, Generations
<1>2. \A b \in candidates : /\ b \in Barriers
                            /\ InitialFloor(b.through) .. (b.through - 1) \subseteq s[d]
                            /\ b.day = DayOf(b.through)
  <2>1. \A b \in c.daily[d] : b \in Barriers
    BY DEF Sound, Checkpoints
  <2>2. \A b \in reached : /\ b \in Barriers
                           /\ InitialFloor(b.through) .. (b.through - 1) \subseteq s[d]
                           /\ b.day = DayOf(b.through)
    BY <1>1, FinishedDailyIsDurable, CalendarType DEF Barriers, Reached
  <2> QED BY <2>1, <2>2 DEF Sound, Vouched
<1>3. \A a, b \in reached : a = b
  BY <1>1 DEF Sound, Latest1, Reached
<1>4. \A a, b \in c.daily[d] : a = b
  BY DEF Sound, Latest1
<1>5. n = [c EXCEPT !.daily[d] = latest]
  BY DEF AdvanceDailyBarrier
<1>6. \A a, b \in candidates : a.through <= b.through \/ Later(a, b)
  <2> SUFFICES ASSUME NEW a \in candidates, NEW b \in candidates, b.through <= a.through,
                      a.through # b.through
               PROVE  Later(a, b)
    BY <1>2 DEF Barriers
  <2>1. /\ a.day \in Int /\ a.through \in Int /\ b.day \in Int /\ b.through \in Int
        /\ a.day = DayOf(a.through) /\ b.day = DayOf(b.through)
    BY <1>2 DEF Barriers
  <2>2. b.day <= a.day
    BY <2>1, DaysFollowInstants
  <2> QED BY <2>1, <2>2 DEF Later
<1>7. \A a, b \in latest : a = b
  <2> TAKE a, b \in latest
  <2>1. a \in Barriers /\ b \in Barriers /\ ~Later(a, b) /\ ~Later(b, a)
    BY <1>2 DEF LatestOf
  <2> QED BY <2>1 DEF Later, Barriers
<1>8. c.daily[d] # {} => latest # {}
  <2> SUFFICES ASSUME NEW b \in c.daily[d] PROVE latest # {}
    OBVIOUS
  <2>1. \A x, y \in candidates : Later(x, y) => ~Later(y, x)
    BY <1>2 DEF Later, Barriers
  <2>2. \A x \in candidates : ~Later(x, x)
    BY <1>2 DEF Later, Barriers
  <2>3. CASE \E x \in reached : Later(x, b)
    BY <2>1, <2>2, <2>3, <1>3, <1>4 DEF LatestOf
  <2>4. CASE \A x \in reached : ~Later(x, b)
    BY <2>2, <2>4, <1>4 DEF LatestOf
  <2> QED BY <2>3, <2>4
<1>9. \A b \in latest : b \in candidates /\ \A a \in c.daily[d] : ~Later(a, b)
  BY DEF LatestOf
<1> HIDE DEF latest, candidates, reached, n
<1>10. n \in Checkpoints
  <2>1. latest \in SUBSET Barriers
    BY <1>2, <1>9
  <2>2. c \in Checkpoints
    BY DEF Sound
  <2> QED BY <2>1, <2>2, <1>5 DEF Checkpoints
<1>11. /\ n.generations = c.generations /\ n.completed = c.completed
       /\ n.failed = c.failed /\ n.coverage = c.coverage
       /\ n.daily[d] = latest
       /\ \A e \in Directions \ {d} : n.daily[e] = c.daily[e]
  BY <1>5 DEF Sound, Checkpoints
<1>12. Vouched(n, s)
  BY <1>2, <1>9, <1>11 DEF Sound, Vouched
<1>13. Latest1(n)
  BY <1>7, <1>11 DEF Sound, Latest1, DailiesOf
<1>14. Sound(n, s)
  BY <1>10, <1>11, <1>12, <1>13 DEF Sound, Accepted, DailiesOf
<1>15. ClaimsMore(c, n, d)
  BY <1>6, <1>8, <1>9, <1>11 DEF ClaimsMore, candidates
<1> QED BY <1>14, <1>15 DEF n

\* Completing a window whose ticks are durable claims it, for its direction.
LEMMA MarkingDurableIsSound ==
    ASSUME NEW c, NEW s \in Ledgers, Sound(c, s),
           NEW d \in Directions, NEW w \in Windows, NEW obligations,
           Registered(c, w, obligations), Ticks(w) \subseteq s[d]
    PROVE  /\ Sound(MarkDurable(c, d, w, obligations), s)
           /\ ClaimsMore(c, MarkDurable(c, d, w, obligations), d)
<1> DEFINE new == ResolutionsOf(d, w, obligations)
           m == [Cover(c, d, w) EXCEPT !.completed = @ \cup new]
<1>1. new \subseteq Resolutions
      /\ \A r \in new : /\ r.generation \in c.generations
                        /\ r.window \in WindowsOf(r.generation)
                        /\ Ticks(r.window) \subseteq s[r.direction]
  BY DEF ResolutionsOf, Registered, Resolutions, Sound, Checkpoints
<1>2. Ticks(w) \subseteq Int
  BY DEF Ticks, Windows
<1> HIDE DEF new
<1>3. m \in Checkpoints
  BY <1>1, <1>2 DEF Cover, Sound, Checkpoints
<1>4. /\ m.generations = c.generations /\ m.completed = c.completed \cup new
      /\ m.failed = c.failed /\ m.daily = c.daily
      /\ m.coverage[d] = c.coverage[d] \cup Ticks(w)
      /\ \A e \in Directions \ {d} : m.coverage[e] = c.coverage[e]
  BY DEF Cover, Sound, Checkpoints
<1>5. MarkDurable(c, d, w, obligations) = AdvanceDailyBarrier(m, d)
  BY DEF MarkDurable, new
<1> HIDE DEF m
<1>6. Sound(m, s)
  BY <1>1, <1>3, <1>4 DEF Sound, Accepted, Vouched, Latest1, DailiesOf
<1>7. ClaimsMore(m, AdvanceDailyBarrier(m, d), d) /\ Sound(AdvanceDailyBarrier(m, d), s)
  BY <1>6, AdvancingTheBarrierIsSound
<1>8. ClaimsMore(c, AdvanceDailyBarrier(m, d), d)
  BY <1>4, <1>7 DEF ClaimsMore
<1> QED BY <1>5, <1>7, <1>8

LEMMA MarkingFailedIsSound ==
    ASSUME NEW c, NEW s \in Ledgers, Sound(c, s),
           NEW d \in Directions, NEW w \in Windows, NEW obligations,
           Registered(c, w, obligations)
    PROVE  Sound(MarkFailed(c, d, w, obligations), s)
<1> DEFINE new == ResolutionsOf(d, w, obligations)
           n == MarkFailed(c, d, w, obligations)
<1>1. new \subseteq Resolutions
      /\ \A r \in new : r.generation \in c.generations
                        /\ r.window \in WindowsOf(r.generation)
  BY DEF ResolutionsOf, Registered, Resolutions, Sound, Checkpoints
<1>2. n = [c EXCEPT !.failed = @ \cup new]
  BY DEF MarkFailed
<1> HIDE DEF new, n
<1>3. n \in Checkpoints
  BY <1>1, <1>2 DEF Sound, Checkpoints
<1>4. /\ n.generations = c.generations /\ n.completed = c.completed
      /\ n.failed = c.failed \cup new /\ n.coverage = c.coverage /\ n.daily = c.daily
  BY <1>2 DEF Sound, Checkpoints
<1>5. Sound(n, s)
  BY <1>1, <1>3, <1>4 DEF Sound, Accepted, Vouched, Latest1, DailiesOf
<1> QED BY <1>5 DEF n

-----------------------------------------------------------------------------
(* The history walk and the gap refills.                                   *)

\* A record that differs only in its walks or its gap attempts claims the same.
LEMMA WalksAndGapsClaimNothing ==
    ASSUME NEW c, NEW n, NEW s \in Ledgers, Sound(c, s), n \in Checkpoints,
           n.generations = c.generations, n.completed = c.completed,
           n.failed = c.failed, n.coverage = c.coverage, n.daily = c.daily
    PROVE  Sound(n, s)
BY DEF Sound, Accepted, Vouched, Latest1, DailiesOf

LEMMA StartingIsTyped ==
    ASSUME NEW c \in Checkpoints, NEW d \in Directions, NEW floor \in Int
    PROVE  /\ StartBackfill(c, d, floor) \in Checkpoints
           /\ StartBackfill(c, d, floor).walk[d] \in Walks
BY DEF StartBackfill, Checkpoints, Walks, WalkStates

LEMMA StoppingIsSound ==
    ASSUME NEW c \in Checkpoints, NEW d \in Directions, NEW state \in WalkStates
    PROVE  /\ StopBackfill(c, d, state) \in Checkpoints
           /\ StopBackfill(c, d, state).walk[d] \in Walks
           /\ \A s \in Ledgers : Sound(c, s) => Sound(StopBackfill(c, d, state), s)
<1> DEFINE n == StopBackfill(c, d, state)
<1>1. c.walk[d].state \in WalkStates
  BY DEF Checkpoints, Walks
<1>2. n \in Checkpoints /\ n.walk[d] \in Walks
  BY <1>1 DEF StopBackfill, Checkpoints, Walks
<1>3. /\ n.generations = c.generations /\ n.completed = c.completed
      /\ n.failed = c.failed /\ n.coverage = c.coverage /\ n.daily = c.daily
  BY DEF StopBackfill, Checkpoints
<1> HIDE DEF n
<1>4. \A s \in Ledgers : Sound(c, s) => Sound(n, s)
  BY <1>2, <1>3, WalksAndGapsClaimNothing
<1> QED BY <1>2, <1>4 DEF n

\* A walked window claims its durable ticks.
LEMMA WalkingIsSound ==
    ASSUME NEW c, NEW s \in Ledgers, Sound(c, s),
           NEW d \in Directions, NEW w \in Windows, NEW empty \in BOOLEAN,
           NEW floor \in Int, Ticks(w) \subseteq s[d]
    PROVE  /\ Sound(AdvanceBackfill(c, d, w, empty, floor), s)
           /\ ClaimsMore(c, AdvanceBackfill(c, d, w, empty, floor), d)
<1> DEFINE m == Cover(c, d, w)
           n == AdvanceBackfill(c, d, w, empty, floor)
<1>1. CASE c.walk[d].state = "none"
  <2>1. n = c
    BY <1>1 DEF AdvanceBackfill
  <2>2. \A a, b \in c.daily[d] : a.through <= b.through
    BY DEF Sound, Latest1, Checkpoints, Barriers
  <2> QED BY <2>1, <2>2 DEF ClaimsMore
<1>2. CASE c.walk[d].state # "none"
  <2>1. PICK walk : n = [m EXCEPT !.walk[d] = walk] /\ walk \in Walks
    <3>1. w.start \in Int /\ c.walk[d].streak \in Nat
      BY DEF Windows, Sound, Checkpoints, Walks
    <3>2. ASSUME NEW streak \in Nat, NEW finished \in BOOLEAN
          PROVE  [state |-> IF finished THEN "complete" ELSE "running",
                  cursor |-> w.start, streak |-> streak] \in Walks
      BY <3>1 DEF Walks, WalkStates
    <3>3. (IF empty THEN c.walk[d].streak + 1 ELSE 0) \in Nat
      BY <3>1
    <3> QED BY <1>2, <3>2, <3>3 DEF AdvanceBackfill
  <2>2. Ticks(w) \subseteq Int
    BY DEF Ticks, Windows
  <2>3. m \in Checkpoints
    BY <2>2 DEF Cover, Sound, Checkpoints
  <2>4. /\ m.generations = c.generations /\ m.completed = c.completed
        /\ m.failed = c.failed /\ m.daily = c.daily
        /\ m.coverage[d] = c.coverage[d] \cup Ticks(w)
        /\ \A e \in Directions \ {d} : m.coverage[e] = c.coverage[e]
    BY DEF Cover, Sound, Checkpoints
  <2> HIDE DEF m, n
  <2>5. Sound(m, s)
    BY <2>3, <2>4 DEF Sound, Accepted, Vouched, Latest1, DailiesOf
  <2>6. n \in Checkpoints
    BY <2>1, <2>3 DEF Checkpoints
  <2>7. /\ n.generations = m.generations /\ n.completed = m.completed
        /\ n.failed = m.failed /\ n.coverage = m.coverage /\ n.daily = m.daily
    BY <2>1, <2>3 DEF Checkpoints
  <2>8. Sound(n, s)
    BY <2>5, <2>6, <2>7, WalksAndGapsClaimNothing
  <2>9. \A a, b \in c.daily[d] : a.through <= b.through
    BY DEF Sound, Latest1, Checkpoints, Barriers
  <2>10. ClaimsMore(c, n, d)
    BY <2>4, <2>7, <2>9 DEF ClaimsMore
  <2> QED BY <2>8, <2>10 DEF n
<1> QED BY <1>1, <1>2

\* However a refill was answered, nothing is claimed about it.
LEMMA RecordingGapsIsSound ==
    ASSUME NEW c, NEW s \in Ledgers, Sound(c, s),
           NEW d \in Directions, NEW w \in Windows, NEW filled \in BOOLEAN, NEW t \in Int
    PROVE  /\ Sound(RecordGapAttempt(c, d, w, filled, t), s)
           /\ RecordGapAttempt(c, d, w, filled, t).coverage = c.coverage
           /\ RecordGapAttempt(c, d, w, filled, t).daily = c.daily
<1> DEFINE n == RecordGapAttempt(c, d, w, filled, t)
           again(k) == [direction |-> d, window |-> w, streak |-> k, at |-> t]
<1>1. PICK gaps : n = [c EXCEPT !.gaps = gaps] /\ gaps \in SUBSET GapAttempts
  <2> DEFINE previous == AttemptsAt(c, d, w)
             recent == {a \in previous : t - a.at < GapRetryAfter}
             next == IF filled THEN {}
                     ELSE IF recent = {} THEN {again(1)}
                     ELSE {again(a.streak + 1) : a \in recent}
  <2>1. \A a \in recent : a.streak \in Nat
    BY DEF AttemptsAt, Sound, Checkpoints, GapAttempts
  <2>2. \A k \in Nat : again(k) \in GapAttempts
    BY DEF GapAttempts
  <2>3. next \subseteq GapAttempts
    BY <2>1, <2>2
  <2>4. c.gaps \subseteq GapAttempts
    BY DEF Sound, Checkpoints
  <2>5. n = [c EXCEPT !.gaps = (@ \ previous) \cup next]
    BY DEF RecordGapAttempt
  <2> HIDE DEF next, previous, n
  <2> QED BY <2>3, <2>4, <2>5
<1> HIDE DEF n
<1>2. n \in Checkpoints
  BY <1>1 DEF Sound, Checkpoints
<1>3. /\ n.generations = c.generations /\ n.completed = c.completed
      /\ n.failed = c.failed /\ n.coverage = c.coverage /\ n.daily = c.daily
  BY <1>1 DEF Sound, Checkpoints
<1>4. Sound(n, s)
  BY <1>2, <1>3, WalksAndGapsClaimNothing
<1> QED BY <1>3, <1>4 DEF n

-----------------------------------------------------------------------------
(* Planning claims nothing.                                                *)
SameClaims(c, n) == n.coverage = c.coverage /\ n.daily = c.daily

LEMMA PlanningClaimsNothing ==
    ASSUME NEW c \in Checkpoints
    PROVE  /\ \A t \in Int : SameClaims(c, RollMonthPair(c, t))
           /\ \A planned : SameClaims(c, Register(c, planned))
           /\ \A g : SameClaims(c, SupersedeDaily(c, g))
           /\ \A directions : SameClaims(c, ClearFailures(c, directions))
<1>1. \A kept : SameClaims(c, Retain(c, kept))
  BY DEF SameClaims, Retain, Checkpoints
<1>2. \A t \in Int : SameClaims(c, RollMonthPair(c, t))
  BY DEF SameClaims, RollMonthPair, Retain, Checkpoints
<1>3. \A planned : SameClaims(c, Register(c, planned))
  BY DEF SameClaims, Register, Checkpoints
<1>4. \A g : SameClaims(c, SupersedeDaily(c, g))
  BY DEF SameClaims, SupersedeDaily, Register, Retain, Checkpoints
<1>5. \A directions : SameClaims(c, ClearFailures(c, directions))
  BY DEF SameClaims, ClearFailures, Checkpoints
<1> QED BY <1>2, <1>3, <1>4, <1>5

-----------------------------------------------------------------------------
(* SyncInv in terms of the soundness of a record.                          *)
LEMMA SyncInvParts ==
    SyncInv <=> TypeOK /\ Sound(ckpt, stored) /\ AnswerInHandIsFlushed
BY DEF SyncInv, Sound, CheckpointIsAccepted, CoverageIsDurable, BarrierIsDurable, Vouched,
       LatestIsUnique, Latest1, ResolutionsAreDurable, DailiesReachTheFloor, TypeOK

LEMMA SyncInvPartsPrimed ==
    SyncInv' <=> TypeOK' /\ Sound(ckpt', stored') /\ AnswerInHandIsFlushed'
BY DEF SyncInv, Sound, CheckpointIsAccepted, CoverageIsDurable, BarrierIsDurable, Vouched,
       LatestIsUnique, Latest1, ResolutionsAreDurable, DailiesReachTheFloor, TypeOK

-----------------------------------------------------------------------------
(* What is queued is typed.                                                *)
LEMMA QueuedEntriesAreTyped ==
    ASSUME NEW c \in Checkpoints
    PROVE  /\ \A directions \in SUBSET Directions : MissingEntries(c, directions) \subseteq Entries
           /\ WalkEntries(c) \subseteq Entries
           /\ \A holes \in SUBSET HoleScopes : RefillEntries(c, holes) \subseteq Entries
           /\ \A i \in Items : EntriesOf(i) \subseteq Entries
<1>1. \A g \in c.generations : g \in Generations /\ WindowsOf(g) \subseteq Windows
  BY ChunksAreWindows DEF Checkpoints, Generations, WindowsOf
<1>2. ASSUME NEW directions \in SUBSET Directions
      PROVE  MissingEntries(c, directions) \subseteq Entries
  BY <1>1 DEF MissingEntries, Missing, Entries, Scopes, Obligations, EntryFor, Scope
<1>3. WalkEntries(c) \subseteq Entries
  <2>1. \A d \in Directions : c.walk[d].cursor \in Int
    BY DEF Checkpoints, Walks
  <2>2. \A cursor \in Int : BackfillWindow(cursor) \in Windows
    BY PlanAssumption DEF BackfillWindow, Windows
  <2> QED BY <2>1, <2>2 DEF WalkEntries, Entries, Scopes, Obligations, EntryFor, Scope
<1>4. ASSUME NEW holes \in SUBSET HoleScopes
      PROVE  RefillEntries(c, holes) \subseteq Entries
  BY SyncAssumption DEF RefillEntries, Entries, Scopes, Obligations, EntryFor
<1>5. \A i \in Items : EntriesOf(i) \subseteq Entries
  BY DEF Items, EntriesOf, Entries
<1> QED BY <1>2, <1>3, <1>4, <1>5

LEMMA ItemsAreTyped ==
    ASSUME queue \subseteq Entries, NEW s \in ScopesOf(queue)
    PROVE  ItemAt(s) \in Items
BY DEF ItemAt, ScopesOf, Entries, Items

\* The scheduler starts a worker or leaves the one there is alone.
LEMMA EnsuredWorkerCases ==
    ASSUME NEW q
    PROVE  EnsuredWorker(q) = worker \/ EnsuredWorker(q) = IdleWorker
BY DEF EnsuredWorker

-----------------------------------------------------------------------------
(* A plan is sound, and claims nothing.                                    *)
LEMMA PlansAreSound ==
    ASSUME TypeOK, Sound(ckpt, stored), NEW t \in Int
    PROVE  Sound(Planned(t), stored) /\ SameClaims(ckpt, Planned(t))
<1> DEFINE rolled == RollMonthPair(ckpt, t)
           initial == IF InitialsOf(rolled) = {} THEN Register(rolled, Initial(t)) ELSE rolled
           today == {g \in DailiesOf(initial) : DayOf(g.end) = DayOf(t)}
           selected == IF today = {} THEN Daily(t) ELSE CHOOSE g \in today : TRUE
           superseded == SupersedeDaily(initial, selected)
<1>1. stored \in Ledgers
  BY DEF TypeOK, Ledgers
<1>2. Sound(rolled, stored) /\ SameClaims(ckpt, rolled)
  BY <1>1, RollingIsSound, PlanningClaimsNothing DEF Sound
<1>3. Sound(initial, stored) /\ SameClaims(ckpt, initial)
  <2> HIDE DEF rolled
  <2>1. \A g, h \in DailiesOf(rolled) \cup {p \in Initial(t) : p.reason = "daily"} : g = h
    BY <1>2, InitialPlansAreGenerations DEF Sound, Latest1
  <2>2. Sound(Register(rolled, Initial(t)), stored)
    BY <1>1, <1>2, <2>1, RegisteringIsSound, InitialPlansAreGenerations
  <2>3. SameClaims(ckpt, Register(rolled, Initial(t)))
    BY <1>2, PlanningClaimsNothing DEF Sound, SameClaims
  <2> QED BY <1>2, <2>2, <2>3
<1> HIDE DEF initial
<1>4. selected \in Generations /\ selected.reason = "daily"
      /\ selected.start = InitialFloor(selected.end)
  <2>1. \A g \in today : g \in Generations /\ g.reason = "daily"
                         /\ g.start = InitialFloor(g.end)
    BY <1>3 DEF Sound, Checkpoints, DailiesOf
  <2>2. CASE today = {}
    BY <2>2, DailyPlanIsGeneration
  <2>3. CASE today # {}
    <3>1. selected \in today
      BY <2>3
    <3> QED BY <3>1, <2>1
  <2> QED BY <2>2, <2>3
<1> HIDE DEF selected
<1>5. Sound(superseded, stored) /\ SameClaims(ckpt, superseded)
  BY <1>1, <1>3, <1>4, SupersedingIsSound, PlanningClaimsNothing DEF Sound, SameClaims
<1> HIDE DEF superseded
<1>6. /\ Sound(ClearFailures(superseded, queryable), stored)
      /\ SameClaims(ckpt, ClearFailures(superseded, queryable))
  <2>1. Sound(ClearFailures(superseded, queryable), stored)
    BY <1>1, <1>5, ForgivingIsSound
  <2>2. superseded \in Checkpoints
    BY <1>5 DEF Sound
  <2> QED BY <1>5, <2>1, <2>2, PlanningClaimsNothing DEF SameClaims
<1>7. Planned(t) = IF DailyDue(t) THEN ClearFailures(superseded, queryable) ELSE initial
  BY DEF Planned, initial, selected, superseded
<1> QED BY <1>3, <1>6, <1>7

\* Scheduling keeps the types of all it writes, and the record sound.
LEMMA SchedulingIsSound ==
    ASSUME TypeOK, Sound(ckpt, stored), NEW t \in Int, ScheduleSaves(t)
    PROVE  /\ Sound(ckpt', stored) /\ SameClaims(ckpt, ckpt')
           /\ queue' \subseteq Entries /\ held' \subseteq Scopes
           /\ cadence' \in [daily : SUBSET Int, discovery : Int, gaps : SUBSET Int]
<1>1. PICK holes \in SUBSET HoleScopes, scannedOn \in {cadence.gaps, {DayOf(now)}} :
        /\ \/ /\ ckpt' = Planned(t)
              /\ queue' = WithoutObsolete(t) \cup MissingEntries(Planned(t), queryable)
                            \cup WalkEntries(Planned(t)) \cup RefillEntries(Planned(t), holes)
           \/ UNCHANGED <<ckpt, queue>>
        /\ cadence' = [cadence EXCEPT !.gaps = scannedOn,
                                      !.daily = IF DailyDue(t) THEN {DayOf(t)} ELSE @]
        /\ held' = Pruned(queue')
  BY DEF ScheduleSaves
<1> DEFINE p == Planned(t)
<1>2. Sound(p, stored) /\ SameClaims(ckpt, p) /\ p \in Checkpoints
  BY PlansAreSound DEF Sound
<1> HIDE DEF p
<1>3. Sound(ckpt', stored) /\ SameClaims(ckpt, ckpt')
  BY <1>1, <1>2 DEF SameClaims, p
<1>4. queue' \subseteq Entries
  <2>1. WithoutObsolete(t) \subseteq Entries /\ queue \subseteq Entries
    BY DEF WithoutObsolete, TypeOK
  <2>2. queryable \in SUBSET Directions
    BY DEF TypeOK
  <2>3. /\ MissingEntries(p, queryable) \subseteq Entries
        /\ WalkEntries(p) \subseteq Entries
        /\ RefillEntries(p, holes) \subseteq Entries
    BY <1>2, <2>2, QueuedEntriesAreTyped
  <2> QED BY <1>1, <2>1, <2>3 DEF p
<1>5. held' \subseteq Scopes
  BY <1>1 DEF TypeOK, Pruned
<1>6. cadence' \in [daily : SUBSET Int, discovery : Int, gaps : SUBSET Int]
  <2>1. DayOf(now) \in Int /\ DayOf(t) \in Int
    BY CalendarType DEF TypeOK
  <2> QED BY <1>1, <2>1 DEF TypeOK
<1> QED BY <1>3, <1>4, <1>5, <1>6

-----------------------------------------------------------------------------
(* The effect of a step on what is durable and claimed.                    *)
ClaimStep ==
    \/ stored' = stored /\ SameClaims(ckpt, ckpt')
    \/ /\ SameClaims(ckpt, ckpt')
       /\ \E d \in Directions : /\ stored[d] \subseteq stored'[d]
                                /\ \A e \in Directions \ {d} : stored'[e] = stored[e]
    \/ stored' = stored /\ \E d \in Directions : ClaimsMore(ckpt, ckpt', d)
    \/ stored' = stored /\ \E t \in Int : ckpt' = Empty(t)

Kept == TypeOK' /\ Sound(ckpt', stored') /\ AnswerInHandIsFlushed' /\ ClaimStep

Good == TypeOK /\ Sound(ckpt, stored) /\ AnswerInHandIsFlushed

LEMMA UntouchedRecord ==
    ASSUME Good, UNCHANGED <<ckpt, stored>>
    PROVE  Sound(ckpt', stored') /\ ClaimStep
BY DEF Good, ClaimStep, SameClaims

LEMMA IdleValues ==
    /\ IdlePoll \in [step : PollSteps, now : Int, unread : SUBSET Directions,
                     answered : BOOLEAN]
    /\ NoWorker \in [step : WorkerSteps, item : SUBSET Items]
    /\ IdleWorker \in [step : WorkerSteps, item : SUBSET Items]
BY SyncAssumption DEF IdlePoll, NoWorker, IdleWorker, PollSteps, WorkerSteps

\* A dropped coordinator leaves typed variables and no answer in hand.
LEMMA ForgettingIsTyped ==
    ASSUME Good, ForgetMemory, ckpt' = ckpt, stored' = stored, now' = now,
           auth' \in {"ok", "pollRefused", "workerRefused"}, events' \in Nat
    PROVE  TypeOK' /\ AnswerInHandIsFlushed'
<1>1. InHand' <=> worker'.item # {}
  BY DEF ForgetMemory, InHand, NoWorker
<1> QED
  BY <1>1, IdleValues DEF Good, TypeOK, ForgetMemory, NoWorker, AnswerInHandIsFlushed, Sound

LEMMA TickKeeps == ASSUME Good, Tick PROVE Kept
<1>1. Sound(ckpt', stored') /\ ClaimStep
  BY UntouchedRecord DEF Tick
<1>2. now' \in Int
  BY DEF Good, TypeOK, Tick
<1>3. TypeOK'
  BY <1>2 DEF Good, Tick, TypeOK, InHand
<1>4. AnswerInHandIsFlushed'
  BY DEF Good, Tick, AnswerInHandIsFlushed
<1> QED BY <1>1, <1>3, <1>4 DEF Kept

-----------------------------------------------------------------------------
(* The poll's steps.                                                       *)
LEMMA PollFailsKeeps ==
    ASSUME Good, PollFails, UNCHANGED <<now, ckpt, stored>>,
           auth' \in {"ok", "pollRefused", "workerRefused"}, events' \in Nat
    PROVE  Kept
<1>1. Sound(ckpt', stored') /\ ClaimStep
  BY UntouchedRecord
<1>2. CASE phase = "setup"
  BY <1>1, <1>2, ForgettingIsTyped DEF PollFails, Kept
<1>3. CASE phase # "setup"
  <2>1. ckpt' \in Checkpoints
    BY <1>1 DEF Sound
  <2>2. UNCHANGED <<phase, enabled, loaded, queryable, queue, held, rateHeld, worker, cadence>>
        /\ poll' = IdlePoll
    BY <1>3 DEF PollFails
  <2> QED BY <1>1, <2>1, <2>2, IdleValues
    DEF Kept, Good, TypeOK, AnswerInHandIsFlushed, InHand
<1> QED BY <1>2, <1>3

LEMMA PollBeginsKeeps == ASSUME Good, PollBegins PROVE Kept
<1>1. Sound(ckpt', stored') /\ ClaimStep
  BY UntouchedRecord DEF PollBegins
<1>2. poll' \in [step : PollSteps, now : Int, unread : SUBSET Directions, answered : BOOLEAN]
  BY IdleValues DEF PollBegins, PollSteps, Good, TypeOK
<1> QED BY <1>1, <1>2
  DEF Kept, Good, PollBegins, TypeOK, AnswerInHandIsFlushed, InHand

LEMMA PollDiscoversKeeps == ASSUME Good, PollDiscovers PROVE Kept
<1>1. PICK listed \in BOOLEAN :
        /\ Rediscovered(listed)
        /\ \/ /\ IF listed = enabled THEN UNCHANGED events ELSE Disturb
              /\ ckpt' = Forgiven(listed)
              /\ poll' = [poll EXCEPT !.step = "loading"]
           \/ Disturb /\ poll' = IdlePoll /\ UNCHANGED ckpt
  BY DEF PollDiscovers
<1>2. stored \in Ledgers /\ stored' = stored
  BY <1>1 DEF Good, TypeOK, Ledgers, Rediscovered
<1>3. Sound(ckpt', stored') /\ ClaimStep
  <2>1. Sound(ClearFailures(ckpt, Directions), stored)
    BY <1>2, ForgivingIsSound DEF Good
  <2>2. SameClaims(ckpt, ClearFailures(ckpt, Directions))
    BY PlanningClaimsNothing DEF Good, Sound
  <2>3. SameClaims(ckpt, ckpt)
    BY DEF SameClaims
  <2> QED BY <1>1, <1>2, <2>1, <2>2, <2>3 DEF Forgiven, ClaimStep, Good
<1>4. poll' \in [step : PollSteps, now : Int, unread : SUBSET Directions, answered : BOOLEAN]
  BY <1>1, IdleValues DEF Good, TypeOK, PollSteps
<1>5. events' \in Nat
  BY <1>1 DEF Good, TypeOK, Disturb
<1>6. queue' \subseteq Entries /\ held' \subseteq Scopes
  BY <1>1 DEF Rediscovered, Good, TypeOK, Pruned
<1>7. ckpt' \in Checkpoints
  BY <1>3 DEF Sound
<1> QED BY <1>1, <1>2, <1>3, <1>4, <1>5, <1>6, <1>7
  DEF Kept, Good, Rediscovered, TypeOK, AnswerInHandIsFlushed, InHand

LEMMA PollLoadsKeeps == ASSUME Good, PollLoads PROVE Kept
<1>1. stored \in Ledgers /\ stored' = stored /\ poll.now \in Int
  BY DEF Good, TypeOK, Ledgers, PollLoads
<1>2. /\ \/ ckpt' = ckpt
         \/ ckpt' = RollMonthPair(ckpt, poll.now)
         \/ ckpt' = Empty(poll.now)
      /\ events' \in Nat
  BY DEF PollLoads, Disturb, Good, TypeOK
<1>3. Sound(ckpt', stored') /\ ClaimStep
  <2>1. CASE ckpt' = ckpt
    BY <2>1, <1>1, UntouchedRecord
  <2>2. CASE ckpt' = RollMonthPair(ckpt, poll.now)
    <3>1. Sound(ckpt', stored)
      BY <2>2, <1>1, RollingIsSound DEF Good
    <3>2. SameClaims(ckpt, ckpt')
      BY <2>2, <1>1, PlanningClaimsNothing DEF Good, Sound
    <3> QED BY <3>1, <3>2, <1>1 DEF ClaimStep
  <2>3. CASE ckpt' = Empty(poll.now)
    BY <2>3, <1>1, EmptyIsSound DEF ClaimStep
  <2> QED BY <1>2, <2>1, <2>2, <2>3
<1>4. poll' \in [step : PollSteps, now : Int, unread : SUBSET Directions, answered : BOOLEAN]
  BY DEF Good, TypeOK, PollLoads, PollSteps
<1>5. ckpt' \in Checkpoints
  BY <1>3 DEF Sound
<1> QED BY <1>2, <1>3, <1>4, <1>5
  DEF Kept, Good, PollLoads, TypeOK, AnswerInHandIsFlushed, InHand

LEMMA PollReadsKeeps == ASSUME Good, NEW d \in Directions, PollReads(d) PROVE Kept
<1>1. Sound(ckpt', stored') /\ ClaimStep
  BY UntouchedRecord DEF PollReads
<1> QED BY <1>1 DEF Kept, Good, PollReads, TypeOK, AnswerInHandIsFlushed, InHand

LEMMA PollRefusedKeeps == ASSUME Good, NEW d \in Directions, PollRefused(d) PROVE Kept
<1>1. Sound(ckpt', stored') /\ ClaimStep
  BY UntouchedRecord DEF PollRefused
<1> QED BY <1>1 DEF Kept, Good, PollRefused, Disturb, TypeOK, AnswerInHandIsFlushed, InHand

LEMMA PollInterruptedKeeps == ASSUME Good, PollInterrupted PROVE Kept
<1>1. events' \in Nat /\ auth' = auth /\ UNCHANGED <<now, ckpt, stored>>
  BY DEF PollInterrupted, Disturb, Good, TypeOK
<1>2. CASE poll.answered
  <2>1. Sound(ckpt', stored') /\ ClaimStep
    BY <1>1, UntouchedRecord
  <2> QED BY <1>1, <1>2, <2>1
    DEF PollInterrupted, Kept, Good, TypeOK, AnswerInHandIsFlushed, InHand
<1>3. CASE ~poll.answered
  BY <1>1, <1>3, PollFailsKeeps DEF PollInterrupted, Good, TypeOK
<1> QED BY <1>2, <1>3

LEMMA PollAbortsKeeps == ASSUME Good, PollAborts PROVE Kept
<1>1. events' \in Nat /\ auth' \in {"ok", "pollRefused", "workerRefused"}
  BY DEF PollAborts, Disturb, Good, TypeOK
<1> QED BY <1>1, PollFailsKeeps DEF PollAborts

LEMMA PollEndsKeeps == ASSUME Good, PollEnds PROVE Kept
<1>1. UNCHANGED <<now, enabled, loaded, queryable, stored, rateHeld, events>>
      /\ auth' \in {"ok", "pollRefused", "workerRefused"} /\ poll' = IdlePoll
      /\ poll.now \in Int /\ worker.step # "storing"
  BY DEF PollEnds, Good, TypeOK, LockHeld
<1>2. CASE phase = "setup"
  <2>1. Sound(ckpt', stored') /\ ClaimStep
    BY <1>1, <1>2, UntouchedRecord DEF PollEnds
  <2> QED BY <1>1, <1>2, <2>1, IdleValues
    DEF PollEnds, Kept, Good, TypeOK, AnswerInHandIsFlushed, InHand
<1>3. CASE phase # "setup"
  <2>1. ScheduleSaves(poll.now) /\ phase' = phase
        /\ (worker' = worker \/ worker' = IdleWorker)
    BY <1>3, EnsuredWorkerCases DEF PollEnds
  <2>2. /\ Sound(ckpt', stored) /\ SameClaims(ckpt, ckpt')
        /\ queue' \subseteq Entries /\ held' \subseteq Scopes
        /\ cadence' \in [daily : SUBSET Int, discovery : Int, gaps : SUBSET Int]
    BY <1>1, <2>1, SchedulingIsSound DEF Good
  <2>3. ckpt' \in Checkpoints
    BY <2>2 DEF Sound
  <2>4. TypeOK' /\ AnswerInHandIsFlushed'
    BY <1>1, <2>1, <2>2, <2>3, IdleValues
    DEF Good, TypeOK, AnswerInHandIsFlushed, InHand, IdleWorker
  <2> QED BY <1>1, <2>2, <2>4 DEF Kept, ClaimStep
<1> QED BY <1>2, <1>3

LEMMA PollScheduleFailsKeeps == ASSUME Good, PollScheduleFails PROVE Kept
<1>1. Sound(ckpt', stored') /\ ClaimStep
  BY UntouchedRecord DEF PollScheduleFails
<1> QED BY <1>1, IdleValues
  DEF Kept, Good, PollScheduleFails, WithoutObsolete, Disturb, TypeOK,
      AnswerInHandIsFlushed, InHand

-----------------------------------------------------------------------------
(* The worker's steps.                                                     *)
LEMMA WorkerTakesKeeps == ASSUME Good, WorkerTakes PROVE Kept
<1>1. PICK s \in Ready : /\ worker' = [step |-> "fetching", item |-> {ItemAt(s)}]
                         /\ queue' = {e \in queue : e.scope # s}
  BY DEF WorkerTakes
<1>2. ItemAt(s) \in Items
  BY ItemsAreTyped DEF Good, TypeOK, Ready
<1>3. Sound(ckpt', stored') /\ ClaimStep
  BY UntouchedRecord DEF WorkerTakes
<1>4. worker' \in [step : WorkerSteps, item : SUBSET Items]
      /\ (InHand' <=> worker'.item # {}) /\ (\A i, j \in worker'.item : i = j)
  BY <1>1, <1>2 DEF WorkerSteps, InHand
<1>5. TypeOK'
  BY <1>1, <1>4 DEF Good, WorkerTakes, TypeOK
<1>6. AnswerInHandIsFlushed'
  BY <1>1 DEF AnswerInHandIsFlushed
<1> QED BY <1>3, <1>5, <1>6 DEF Kept

LEMMA WorkerReturnsKeeps == ASSUME Good, WorkerReturns PROVE Kept
<1>1. Sound(ckpt', stored') /\ ClaimStep
  BY UntouchedRecord DEF WorkerReturns
<1> QED BY <1>1, IdleValues
  DEF Kept, Good, WorkerReturns, TypeOK, AnswerInHandIsFlushed, InHand, NoWorker

\* What is flushed joins the ledger of the item's own direction.
LEMMA WorkerStoresKeeps == ASSUME Good, WorkerStores PROVE Kept
<1>1. PICK i \in worker.item :
        stored' = [stored EXCEPT ![i.scope.direction] = @ \cup Ticks(i.scope.window)]
  BY DEF WorkerStores
<1>2. i \in Items /\ i.scope.direction \in Directions /\ Ticks(i.scope.window) \subseteq Int
  BY DEF Good, TypeOK, Items, Scopes, Ticks, Windows
<1>3. stored \in Ledgers /\ stored' \in Ledgers
  BY <1>1, <1>2 DEF Good, TypeOK, Ledgers
<1>4. \A d \in Directions : stored[d] \subseteq stored'[d]
  BY <1>1, <1>2, <1>3 DEF Ledgers
<1>5. Sound(ckpt', stored')
  BY <1>3, <1>4, SoundnessIsMonotone DEF Good, WorkerStores
<1>6. ClaimStep
  BY <1>1, <1>2, <1>3, <1>4 DEF ClaimStep, SameClaims, WorkerStores, Ledgers
<1>7. worker' = [worker EXCEPT !.step = "storing"] /\ worker.step = "fetching"
  BY DEF WorkerStores
<1>8. TypeOK'
  BY <1>3, <1>7 DEF Good, WorkerStores, TypeOK, WorkerSteps, InHand, Ledgers
<1>9. AnswerInHandIsFlushed'
  <2>1. \A j \in worker'.item : j = i
    BY <1>7 DEF Good, TypeOK
  <2>2. Ticks(i.scope.window) \subseteq stored'[i.scope.direction]
    BY <1>1, <1>2, <1>3 DEF Ledgers
  <2> QED BY <2>1, <2>2 DEF AnswerInHandIsFlushed
<1> QED BY <1>5, <1>6, <1>8, <1>9 DEF Kept

\* A committed answer is claimed only because it is flushed.
LEMMA WorkerCommitsKeeps == ASSUME Good, WorkerCommits PROVE Kept
<1>1. PICK i \in worker.item : CommitsPlanned(i) \/ CommitsRefill(i) \/ CommitsWalk(i)
  BY DEF WorkerCommits
<1> DEFINE d == i.scope.direction
           w == i.scope.window
<1>2. i \in Items /\ i.scope \in Scopes /\ d \in Directions /\ w \in Windows
  BY DEF Good, TypeOK, Items, Scopes
<1>3. Ticks(w) \subseteq stored[d]
  BY DEF Good, AnswerInHandIsFlushed, WorkerCommits
<1>4. stored \in Ledgers /\ stored' = stored /\ worker' = IdleWorker
      /\ UNCHANGED <<now, phase, auth, enabled, loaded, rateHeld, poll, cadence, events>>
  BY DEF Good, TypeOK, Ledgers, WorkerCommits
<1>5. /\ Sound(ckpt', stored') /\ ClaimStep
      /\ queryable' \subseteq Directions /\ queue' \subseteq Entries /\ held' \subseteq Scopes
  <2>1. CASE CommitsPlanned(i)
    <3>1. /\ Registered(ckpt, w, i.obligations)
          /\ ckpt' = MarkDurable(ckpt, d, w, i.obligations)
          /\ queryable' = queryable \cup {d} /\ held' = held \ {i.scope} /\ queue' = queue
      BY <2>1 DEF CommitsPlanned, Resolve
    <3>2. Sound(ckpt', stored) /\ ClaimsMore(ckpt, ckpt', d)
      BY <1>2, <1>3, <1>4, <3>1, MarkingDurableIsSound DEF Good
    <3> QED BY <1>2, <1>4, <3>1, <3>2 DEF ClaimStep, Good, TypeOK
  <2>2. CASE CommitsRefill(i)
    <3>1. PICK filled \in BOOLEAN :
            /\ ckpt' = RecordGapAttempt(ckpt, d, w, filled, now)
            /\ held' = held \ {i.scope} /\ UNCHANGED <<queryable, queue>>
      BY <2>2 DEF CommitsRefill, Resolve
    <3>2. Sound(ckpt', stored) /\ SameClaims(ckpt, ckpt')
      BY <1>2, <1>4, <3>1, RecordingGapsIsSound DEF Good, TypeOK, SameClaims
    <3> QED BY <1>4, <3>1, <3>2 DEF ClaimStep, Good, TypeOK
  <2>3. CASE CommitsWalk(i)
    <3>1. PICK empty \in BOOLEAN :
            /\ ckpt' = AdvanceBackfill(ckpt, d, w, empty, HistoryFloor)
            /\ queryable' = queryable
            /\ \/ /\ queue' = queue \cup WalkEntries(ckpt')
                  /\ held' = (held \cup {Scope(d, BackfillWindow(ckpt'.walk[d].cursor))})
                             \ {i.scope}
               \/ queue' = queue /\ held' = held \ {i.scope}
      BY <2>3 DEF CommitsWalk, Resolve
    <3>2. Sound(ckpt', stored) /\ ClaimsMore(ckpt, ckpt', d)
      BY <1>2, <1>3, <1>4, <3>1, WalkingIsSound, SyncAssumption DEF Good
    <3>3. ckpt' \in Checkpoints
      BY <3>2 DEF Sound
    <3>4. WalkEntries(ckpt') \subseteq Entries
      BY <3>3, QueuedEntriesAreTyped
    <3>5. Scope(d, BackfillWindow(ckpt'.walk[d].cursor)) \in Scopes
      <4>1. ckpt'.walk[d].cursor \in Int
        BY <1>2, <3>3 DEF Checkpoints, Walks
      <4> QED BY <1>2, <4>1, PlanAssumption DEF Scope, Scopes, BackfillWindow, Windows
    <3> QED BY <1>2, <1>4, <3>1, <3>2, <3>4, <3>5 DEF ClaimStep, Good, TypeOK
  <2> QED BY <1>1, <2>1, <2>2, <2>3
<1>6. TypeOK' /\ AnswerInHandIsFlushed'
  <2>1. ckpt' \in Checkpoints
    BY <1>5 DEF Sound
  <2> QED BY <1>4, <1>5, <2>1, IdleValues
    DEF Good, TypeOK, AnswerInHandIsFlushed, InHand, IdleWorker
<1> QED BY <1>5, <1>6 DEF Kept

LEMMA WorkerHearsLegacyKeeps == ASSUME Good, WorkerHearsLegacy PROVE Kept
<1>1. PICK i \in worker.item :
        /\ \/ ckpt' = ckpt
           \/ ckpt' = StopBackfill(ckpt, i.scope.direction, "unsupported")
        /\ held' = held \ {i.scope}
  BY DEF WorkerHearsLegacy, Resolve
<1>2. i.scope.direction \in Directions
  BY DEF Good, TypeOK, Items, Scopes
<1>3. Sound(ckpt', stored') /\ SameClaims(ckpt, ckpt') /\ stored' = stored
  <2>1. stored \in Ledgers /\ stored' = stored /\ ckpt \in Checkpoints
    BY DEF Good, TypeOK, Ledgers, WorkerHearsLegacy
  <2>2. Sound(StopBackfill(ckpt, i.scope.direction, "unsupported"), stored)
    BY <1>2, <2>1, StoppingIsSound DEF WalkStates, Good
  <2>3. SameClaims(ckpt, StopBackfill(ckpt, i.scope.direction, "unsupported"))
    BY <2>1 DEF SameClaims, StopBackfill, Checkpoints
  <2> QED BY <1>1, <2>1, <2>2, <2>3 DEF Good, SameClaims
<1>4. ckpt' \in Checkpoints /\ events' \in Nat /\ worker' = IdleWorker
  BY <1>3 DEF Sound, WorkerHearsLegacy, Disturb, Good, TypeOK
<1>5. TypeOK' /\ AnswerInHandIsFlushed'
  BY <1>1, <1>3, <1>4, IdleValues
  DEF Good, WorkerHearsLegacy, TypeOK, AnswerInHandIsFlushed, InHand, IdleWorker
<1> QED BY <1>3, <1>5 DEF Kept, ClaimStep

LEMMA WorkerRetriesKeeps == ASSUME Good, WorkerRetries PROVE Kept
<1>1. PICK i \in worker.item : queue' = queue \cup EntriesOf(i) /\ held' = held \cup {i.scope}
  BY DEF WorkerRetries
<1>2. i \in Items /\ i.scope \in Scopes /\ EntriesOf(i) \subseteq Entries
  <2>1. i \in Items
    BY DEF Good, TypeOK
  <2> QED BY <2>1, QueuedEntriesAreTyped DEF Good, Sound, Items
<1>3. Sound(ckpt', stored') /\ ClaimStep
  BY UntouchedRecord DEF WorkerRetries
<1>4. worker' = IdleWorker /\ events' \in Nat /\ rateHeld' \in BOOLEAN
  <2>1. worker' = IdleWorker /\ events' \in Nat
    BY DEF WorkerRetries, Disturb, Good, TypeOK
  <2>2. rateHeld \in BOOLEAN /\ (rateHeld' = rateHeld \/ rateHeld' = TRUE)
    BY DEF WorkerRetries, Good, TypeOK
  <2> QED BY <2>1, <2>2
<1>5. TypeOK' /\ AnswerInHandIsFlushed'
  BY <1>1, <1>2, <1>4, IdleValues
  DEF Good, WorkerRetries, TypeOK, AnswerInHandIsFlushed, InHand, IdleWorker
<1> QED BY <1>3, <1>5 DEF Kept

LEMMA WorkerGivesUpKeeps == ASSUME Good, WorkerGivesUp PROVE Kept
<1>1. PICK i \in worker.item :
        /\ \/ ckpt' = ckpt
           \/ ckpt' = StopBackfill(ckpt, i.scope.direction, "failed")
           \/ /\ Registered(ckpt, i.scope.window, i.obligations)
              /\ ckpt' = MarkFailed(ckpt, i.scope.direction, i.scope.window, i.obligations)
        /\ queryable' \subseteq queryable /\ held' \subseteq held
  BY DEF WorkerGivesUp, Resolve
<1>2. i.scope.direction \in Directions /\ i.scope.window \in Windows
  BY DEF Good, TypeOK, Items, Scopes
<1>3. Sound(ckpt', stored') /\ SameClaims(ckpt, ckpt') /\ stored' = stored
  <2>1. stored \in Ledgers /\ stored' = stored /\ ckpt \in Checkpoints
    BY DEF Good, TypeOK, Ledgers, WorkerGivesUp
  <2>2. CASE ckpt' = ckpt
    BY <2>1, <2>2 DEF Good, SameClaims
  <2>3. CASE ckpt' = StopBackfill(ckpt, i.scope.direction, "failed")
    <3>1. Sound(StopBackfill(ckpt, i.scope.direction, "failed"), stored)
      BY <1>2, <2>1, StoppingIsSound DEF WalkStates, Good
    <3>2. SameClaims(ckpt, StopBackfill(ckpt, i.scope.direction, "failed"))
      BY <2>1 DEF SameClaims, StopBackfill, Checkpoints
    <3> QED BY <2>1, <2>3, <3>1, <3>2
  <2>4. CASE /\ Registered(ckpt, i.scope.window, i.obligations)
             /\ ckpt' = MarkFailed(ckpt, i.scope.direction, i.scope.window, i.obligations)
    <3>1. Sound(ckpt', stored)
      BY <1>2, <2>1, <2>4, MarkingFailedIsSound DEF Good
    <3>2. SameClaims(ckpt, ckpt')
      BY <2>1, <2>4 DEF SameClaims, MarkFailed, Checkpoints
    <3> QED BY <2>1, <3>1, <3>2
  <2> QED BY <1>1, <2>2, <2>3, <2>4
<1>4. ckpt' \in Checkpoints /\ events' \in Nat /\ worker' = IdleWorker
  BY <1>3 DEF Sound, WorkerGivesUp, Disturb, Good, TypeOK
<1>5. TypeOK' /\ AnswerInHandIsFlushed'
  BY <1>1, <1>3, <1>4, IdleValues
  DEF Good, WorkerGivesUp, TypeOK, AnswerInHandIsFlushed, InHand, IdleWorker
<1> QED BY <1>3, <1>5 DEF Kept, ClaimStep

LEMMA WorkerDiesKeeps == ASSUME Good, WorkerDies PROVE Kept
<1>1. Sound(ckpt', stored') /\ ClaimStep
  BY UntouchedRecord DEF WorkerDies
<1>2. events' \in Nat /\ worker' = NoWorker
  BY DEF WorkerDies, Disturb, Good, TypeOK
<1> QED BY <1>1, <1>2, IdleValues
  DEF Kept, Good, WorkerDies, TypeOK, AnswerInHandIsFlushed, InHand, NoWorker

LEMMA WorkerRefusedKeeps == ASSUME Good, WorkerRefused PROVE Kept
<1>1. PICK i \in worker.item : queue' = queue \cup EntriesOf(i)
  BY DEF WorkerRefused
<1>2. EntriesOf(i) \subseteq Entries
  BY QueuedEntriesAreTyped DEF Good, Sound, TypeOK
<1>3. Sound(ckpt', stored') /\ ClaimStep
  BY UntouchedRecord DEF WorkerRefused
<1>4. events' \in Nat /\ worker' = NoWorker
  BY DEF WorkerRefused, Disturb, Good, TypeOK
<1> QED BY <1>1, <1>2, <1>3, <1>4, IdleValues
  DEF Kept, Good, WorkerRefused, TypeOK, AnswerInHandIsFlushed, InHand, NoWorker

LEMMA BackoffEndsKeeps == ASSUME Good, BackoffEnds PROVE Kept
<1>1. Sound(ckpt', stored') /\ ClaimStep
  BY UntouchedRecord DEF BackoffEnds
<1>2. held' \subseteq held /\ rateHeld' \in BOOLEAN
  BY DEF BackoffEnds, Good, TypeOK
<1> QED BY <1>1, <1>2
  DEF Kept, Good, BackoffEnds, TypeOK, AnswerInHandIsFlushed, InHand

-----------------------------------------------------------------------------
(* The lifecycle's steps.                                                  *)
LEMMA StartsSyncKeeps == ASSUME Good, StartsSync PROVE Kept
<1>1. /\ ScheduleSaves(now) /\ phase' = "running" /\ now \in Int
      /\ worker' = worker \/ worker' = IdleWorker
      /\ UNCHANGED <<now, auth, enabled, loaded, queryable, stored, rateHeld, poll, events>>
  BY EnsuredWorkerCases DEF StartsSync, Good, TypeOK
<1>2. /\ Sound(ckpt', stored) /\ SameClaims(ckpt, ckpt')
      /\ queue' \subseteq Entries /\ held' \subseteq Scopes
      /\ cadence' \in [daily : SUBSET Int, discovery : Int, gaps : SUBSET Int]
  BY <1>1, SchedulingIsSound DEF Good
<1>3. ckpt' \in Checkpoints
  BY <1>2 DEF Sound
<1>4. TypeOK' /\ AnswerInHandIsFlushed'
  BY <1>1, <1>2, <1>3, IdleValues DEF Good, TypeOK, AnswerInHandIsFlushed, InHand, IdleWorker
<1> QED BY <1>1, <1>2, <1>4 DEF Kept, ClaimStep

LEMMA RestartsKeeps == ASSUME Good, Restarts PROVE Kept
<1>1. Sound(ckpt', stored') /\ ClaimStep
  BY UntouchedRecord DEF Restarts
<1>2. events' \in Nat
  BY DEF Restarts, Disturb, Good, TypeOK
<1> QED BY <1>1, <1>2, ForgettingIsTyped DEF Restarts, Kept

LEMMA PressesHistoryButtonKeeps == ASSUME Good, PressesHistoryButton PROVE Kept
<1>1. PICK legacy \in SUBSET Directions :
        LET wanted == {d \in queryable : ckpt.walk[d].state # "running"}
            begun(d) == StartBackfill(ckpt, d, InitialFloor(now))
        IN  ckpt' = [ckpt EXCEPT !.walk =
                [d \in Directions |->
                    IF d \in wanted \cap legacy
                    THEN StopBackfill(begun(d), d, "unsupported").walk[d]
                    ELSE IF d \in wanted THEN begun(d).walk[d] ELSE ckpt.walk[d]]]
  BY DEF PressesHistoryButton
<1>2. ckpt \in Checkpoints /\ InitialFloor(now) \in Int /\ stored \in Ledgers
  BY CalendarType DEF Good, Sound, TypeOK, Ledgers
<1>3. ASSUME NEW d \in Directions
      PROVE  /\ StartBackfill(ckpt, d, InitialFloor(now)).walk[d] \in Walks
             /\ StopBackfill(StartBackfill(ckpt, d, InitialFloor(now)), d, "unsupported").walk[d]
                  \in Walks
             /\ ckpt.walk[d] \in Walks
  BY <1>2, StartingIsTyped, StoppingIsSound DEF WalkStates, Checkpoints
<1>4. PICK walk \in [Directions -> Walks] : ckpt' = [ckpt EXCEPT !.walk = walk]
  BY <1>1, <1>3
<1>5. ckpt' \in Checkpoints
  BY <1>2, <1>4 DEF Checkpoints
<1>6. /\ ckpt'.generations = ckpt.generations /\ ckpt'.completed = ckpt.completed
      /\ ckpt'.failed = ckpt.failed /\ ckpt'.coverage = ckpt.coverage
      /\ ckpt'.daily = ckpt.daily
  BY <1>2, <1>4 DEF Checkpoints
<1>7. Sound(ckpt', stored)
  BY <1>2, <1>5, <1>6, WalksAndGapsClaimNothing DEF Good
<1>8. /\ queue' \subseteq Entries /\ events' \in Nat
      /\ worker' = worker \/ worker' = IdleWorker
  <2>1. WalkEntries(ckpt') \subseteq Entries
    BY <1>5, QueuedEntriesAreTyped
  <2> QED BY <2>1, EnsuredWorkerCases DEF PressesHistoryButton, Disturb, Good, TypeOK
<1>9. UNCHANGED <<now, phase, auth, enabled, loaded, queryable, stored, held, rateHeld, poll,
                  cadence>>
  BY DEF PressesHistoryButton
<1>10. TypeOK' /\ AnswerInHandIsFlushed'
  <2>1. CASE worker' = worker
    <3>1. TypeOK'
      BY <1>5, <1>8, <1>9, <2>1 DEF Good, TypeOK, InHand
    <3>2. AnswerInHandIsFlushed'
      BY <1>9, <2>1 DEF Good, AnswerInHandIsFlushed
    <3> QED BY <3>1, <3>2
  <2>2. CASE worker' = IdleWorker
    <3>1. TypeOK'
      BY <1>5, <1>8, <1>9, <2>2, IdleValues DEF Good, TypeOK, InHand, IdleWorker
    <3>2. AnswerInHandIsFlushed'
      BY <2>2 DEF AnswerInHandIsFlushed, IdleWorker
    <3> QED BY <3>1, <3>2
  <2> QED BY <1>8, <2>1, <2>2
<1> QED BY <1>6, <1>7, <1>9, <1>10 DEF Kept, ClaimStep, SameClaims

LEMMA PreparesShutdownKeeps == ASSUME Good, PreparesShutdown PROVE Kept
<1>1. Sound(ckpt', stored') /\ ClaimStep
  BY UntouchedRecord DEF PreparesShutdown
<1> QED BY <1>1
  DEF Kept, Good, PreparesShutdown, Disturb, TypeOK, AnswerInHandIsFlushed, InHand

LEMMA CancelsWorkerKeeps == ASSUME Good, CancelsWorker PROVE Kept
<1>1. Sound(ckpt', stored') /\ ClaimStep
  BY UntouchedRecord DEF CancelsWorker
<1>2. queue' \subseteq Entries
  <2>1. \A i \in worker.item : EntriesOf(i) \subseteq Entries
    BY QueuedEntriesAreTyped DEF Good, Sound, TypeOK
  <2> QED BY <2>1 DEF CancelsWorker, Good, TypeOK
<1>3. worker' = NoWorker
  BY DEF CancelsWorker
<1> QED BY <1>1, <1>2, <1>3, IdleValues
  DEF Kept, Good, CancelsWorker, TypeOK, AnswerInHandIsFlushed, InHand, NoWorker

LEMMA ResumesKeeps == ASSUME Good, Resumes PROVE Kept
<1>1. Sound(ckpt', stored') /\ ClaimStep
  BY UntouchedRecord DEF Resumes
<1>2. queue' \subseteq Entries /\ (worker' = worker \/ worker' = IdleWorker)
  <2>1. MissingEntries(ckpt, queryable) \subseteq Entries
    BY QueuedEntriesAreTyped DEF Good, Sound, TypeOK
  <2> QED BY <2>1, EnsuredWorkerCases DEF Resumes, Good, TypeOK
<1>3. TypeOK'
  <2>1. UNCHANGED <<now, auth, enabled, loaded, queryable, ckpt, stored, held, rateHeld, poll,
                    cadence, events>> /\ phase' = "running"
    BY DEF Resumes
  <2>2. CASE worker' = worker
    BY <1>2, <2>1, <2>2 DEF Good, TypeOK, InHand
  <2>3. CASE worker' = IdleWorker
    BY <1>2, <2>1, <2>3, IdleValues DEF Good, TypeOK, InHand, IdleWorker
  <2> QED BY <1>2, <2>2, <2>3
<1>4. AnswerInHandIsFlushed'
  BY <1>2 DEF Good, Resumes, AnswerInHandIsFlushed, IdleWorker
<1> QED BY <1>1, <1>3, <1>4 DEF Kept

LEMMA ReloadsKeeps == ASSUME Good, Reloads PROVE Kept
<1>1. Sound(ckpt', stored') /\ ClaimStep
  BY UntouchedRecord DEF Reloads
<1>2. events' \in Nat
  BY DEF Reloads, Good, TypeOK
<1> QED BY <1>1, <1>2, ForgettingIsTyped DEF Reloads, Kept

-----------------------------------------------------------------------------
(* Every step keeps the invariant and takes an allowed step of the claims. *)
LEMMA NextKeeps == ASSUME Good, Next PROVE Kept
<1>1. CASE Tick
  BY <1>1, TickKeeps
<1>2. CASE PollNext
  BY <1>2, PollBeginsKeeps, PollDiscoversKeeps, PollLoadsKeeps, PollInterruptedKeeps,
     PollAbortsKeeps, PollEndsKeeps, PollScheduleFailsKeeps, PollReadsKeeps, PollRefusedKeeps
  DEF PollNext
<1>3. CASE WorkerNext
  BY <1>3, WorkerTakesKeeps, WorkerReturnsKeeps, WorkerStoresKeeps, WorkerCommitsKeeps,
     WorkerHearsLegacyKeeps, WorkerRetriesKeeps, WorkerGivesUpKeeps, WorkerDiesKeeps,
     WorkerRefusedKeeps, BackoffEndsKeeps
  DEF WorkerNext
<1>4. CASE LifecycleNext
  BY <1>4, StartsSyncKeeps, RestartsKeeps, PressesHistoryButtonKeeps, PreparesShutdownKeeps,
     CancelsWorkerKeeps, ResumesKeeps, ReloadsKeeps
  DEF LifecycleNext
<1> QED BY <1>1, <1>2, <1>3, <1>4 DEF Next

LEMMA StutteringKeeps == ASSUME Good, UNCHANGED vars PROVE Kept
<1>1. Sound(ckpt', stored') /\ ClaimStep
  BY UntouchedRecord DEF vars
<1>2. TypeOK'
  BY DEF Good, vars, TypeOK, InHand
<1>3. AnswerInHandIsFlushed'
  BY DEF Good, vars, AnswerInHandIsFlushed
<1> QED BY <1>1, <1>2, <1>3 DEF Kept

LEMMA InitIsGood == Init => Good
<1> SUFFICES ASSUME Init PROVE Good
  OBVIOUS
<1>1. stored \in Ledgers /\ Sound(ckpt, stored)
  BY EmptyIsSound, SyncAssumption DEF Init, Ledgers
<1>2. TypeOK
  BY <1>1, IdleValues, SyncAssumption
  DEF Init, TypeOK, Sound, Ledgers, InHand, NoWorker
<1>3. AnswerInHandIsFlushed
  BY DEF Init, AnswerInHandIsFlushed, NoWorker
<1> QED BY <1>1, <1>2, <1>3 DEF Good

-----------------------------------------------------------------------------
\* The inductive invariant holds in every state: whatever is planned, retried,
\* given up, cancelled, forgotten or read again, the record is loadable and
\* claims only what is on disk.
THEOREM SyncInvHolds == Spec => []SyncInv
<1>1. Init => SyncInv
  BY InitIsGood, SyncInvParts DEF Good
<1>2. SyncInv /\ [Next]_vars => SyncInv'
  BY NextKeeps, StutteringKeeps, SyncInvParts, SyncInvPartsPrimed DEF Good, Kept
<1> QED BY <1>1, <1>2, PTL DEF Spec

\* Every variable keeps its type.
THEOREM TypeIsCorrect == Spec => []TypeOK
<1>1. SyncInv => TypeOK
  BY DEF SyncInv
<1> QED BY <1>1, SyncInvHolds, PTL

\* The persisted coverage never speaks of a tick that was not flushed before.
THEOREM CoverageHolds == Spec => []CoverageIsDurable
<1>1. SyncInv => CoverageIsDurable
  BY DEF SyncInv
<1> QED BY <1>1, SyncInvHolds, PTL

\* A daily barrier vouches only for a stretch that is on disk without a hole,
\* back to the start of the month before it.
THEOREM BarrierHolds == Spec => []BarrierIsDurable
<1>1. SyncInv => BarrierIsDurable
  BY DEF SyncInv
<1> QED BY <1>1, SyncInvHolds, PTL

\* No step saves a record that the next start would have to discard.
THEOREM CheckpointStaysLoadable == Spec => []CheckpointIsAccepted
<1>1. SyncInv => CheckpointIsAccepted
  BY DEF SyncInv
<1> QED BY <1>1, SyncInvHolds, PTL

-----------------------------------------------------------------------------
(* Refinement.                                                             *)
LEMMA InitRefines == Init => Promise!AbstractInit
BY DEF Init, Promise!AbstractInit, Empty

LEMMA StepRefines ==
    ASSUME Good, Kept
    PROVE  Promise!AbstractNext \/ UNCHANGED Promise!abstractVars
<1>1. /\ stored \in Ledgers /\ stored' \in Ledgers
      /\ ckpt \in Checkpoints /\ ckpt' \in Checkpoints
      /\ Vouched(ckpt', stored')
      /\ \A d \in Directions : ckpt'.coverage[d] \subseteq stored'[d]
  BY DEF Good, Kept, TypeOK, Ledgers, Sound
<1>2. CASE stored' = stored /\ SameClaims(ckpt, ckpt')
  BY <1>2 DEF SameClaims, Promise!abstractVars
<1>3. CASE /\ SameClaims(ckpt, ckpt')
           /\ \E d \in Directions : /\ stored[d] \subseteq stored'[d]
                                    /\ \A e \in Directions \ {d} : stored'[e] = stored[e]
  BY <1>3 DEF SameClaims, Promise!AbstractNext, Promise!Persist, Promise!OnlyFor
<1>4. CASE stored' = stored /\ \E d \in Directions : ClaimsMore(ckpt, ckpt', d)
  <2>1. PICK d \in Directions : ClaimsMore(ckpt, ckpt', d)
    BY <1>4
  <2>2. Promise!Claim(d)
    BY <1>1, <1>4, <2>1 DEF ClaimsMore, Promise!Claim, Promise!OnlyFor, Vouched
  <2> QED BY <2>2 DEF Promise!AbstractNext
<1>5. CASE stored' = stored /\ \E t \in Int : ckpt' = Empty(t)
  <2>1. Promise!Forget
    BY <1>5 DEF Empty, Promise!Forget
  <2> QED BY <2>1 DEF Promise!AbstractNext
<1> QED BY <1>2, <1>3, <1>4, <1>5 DEF Kept, ClaimStep

\* The synchronization implements the promise of DurableCoverage.
THEOREM SyncKeepsPromise == Spec => KeepsPromise
<1>1. Init => Promise!AbstractInit
  BY InitRefines
<1>2. SyncInv /\ [Next]_vars => [Promise!AbstractNext]_(Promise!abstractVars)
  BY NextKeeps, StutteringKeeps, StepRefines, SyncInvParts DEF Good
<1> QED BY <1>1, <1>2, SyncInvHolds, PTL DEF Spec, KeepsPromise, Promise!AbstractSpec

-----------------------------------------------------------------------------
(* The plans of a record.                                                  *)
PlansMeet(c) ==
    /\ \A g \in InitialsOf(c) :
        \/ g.reason = "initialCurrent" /\ g.start = c.month * MonthLength
        \/ g.reason = "initialPrevious" /\ g.start = (c.month - 1) * MonthLength
    /\ \A g, h \in InitialsOf(c) : g.start < h.start => g.end = h.start

\* What no plan touches.
SameRest(c, n) == n.gaps = c.gaps /\ n.walk = c.walk /\ n.coverage = c.coverage

LEMMA FewerPlansMeet ==
    ASSUME NEW c, NEW n, PlansMeet(c), InitialsOf(n) \subseteq InitialsOf(c), n.month = c.month
    PROVE  PlansMeet(n)
BY DEF PlansMeet

LEMMA NewPlansMeet ==
    ASSUME NEW c, NEW t \in Int, InitialsOf(c) \subseteq Initial(t), c.month = MonthOf(t)
    PROVE  PlansMeet(c)
<1> DEFINE month == LocalMonthStart(t)
           cutoff == t - PollOverlap
<1>1. /\ month \in Int /\ cutoff \in Int /\ MonthLength \in Nat \ {0} /\ MonthOf(t) \in Int
      /\ InitialFloor(t) = month - MonthLength
  BY CalendarType, PlanAssumption DEF InitialFloor
<1>2. month = MonthOf(t) * MonthLength
  BY DEF LocalMonthStart
<1>3. (MonthOf(t) - 1) * MonthLength = MonthOf(t) * MonthLength - MonthLength
  <2>1. \A m \in Int, n \in Nat : (m - 1) * n = m * n - n
    OBVIOUS
  <2> QED BY <1>1, <2>1
<1>4. (MonthOf(t) - 1) * MonthLength = month - MonthLength
  BY <1>2, <1>3
<1> HIDE DEF month, cutoff
<1>5. \A g \in InitialsOf(c) :
        \/ /\ g.reason = "initialCurrent" /\ g.start = month /\ g.end = cutoff
           /\ g.end > g.start
        \/ /\ g.reason = "initialPrevious" /\ g.start = month - MonthLength
           /\ g.end = Earliest(month, cutoff) /\ g.end > g.start
  BY <1>1 DEF Initial, month, cutoff
<1>6. ASSUME NEW g \in InitialsOf(c), NEW h \in InitialsOf(c), g.start < h.start
      PROVE  g.end = h.start
  <2>1. g.start = month - MonthLength /\ g.end = Earliest(month, cutoff)
        /\ h.start = month /\ cutoff > month
    BY <1>1, <1>5, <1>6
  <2> QED BY <1>1, <2>1 DEF Earliest
<1> QED BY <1>2, <1>4, <1>5, <1>6 DEF PlansMeet

LEMMA EmptyPlansMeet ==
    ASSUME NEW t \in Int PROVE PlansMeet(Empty(t))
BY DEF PlansMeet, InitialsOf, Empty

LEMMA RollingMeets ==
    ASSUME NEW c \in Checkpoints, PlansMeet(c), NEW t \in Int
    PROVE  /\ PlansMeet(RollMonthPair(c, t)) /\ RollMonthPair(c, t).month = MonthOf(t)
           /\ SameRest(c, RollMonthPair(c, t)) /\ RollMonthPair(c, t) \in Checkpoints
<1> DEFINE n == RollMonthPair(c, t)
<1>1. CASE c.month = MonthOf(t)
  BY <1>1 DEF RollMonthPair, SameRest
<1>2. CASE c.month # MonthOf(t)
  <2>1. n = [Retain(c, DailiesOf(c)) EXCEPT !.month = MonthOf(t)]
    BY <1>2 DEF RollMonthPair
  <2>2. /\ n.month = MonthOf(t) /\ n.generations = DailiesOf(c) /\ SameRest(c, n)
    BY <2>1 DEF Checkpoints, Retain, SameRest
  <2>3. InitialsOf(n) = {}
    BY <2>2 DEF InitialsOf, DailiesOf, InitialReasons
  <2>4. n \in Checkpoints
    BY <2>1, CalendarType DEF Checkpoints, Retain, DailiesOf
  <2> QED BY <2>2, <2>3, <2>4 DEF PlansMeet
<1> QED BY <1>1, <1>2

LEMMA PlanningMeets ==
    ASSUME TypeOK, PlansMeet(ckpt), NEW t \in Int
    PROVE  PlansMeet(Planned(t)) /\ SameRest(ckpt, Planned(t))
<1> DEFINE rolled == RollMonthPair(ckpt, t)
           initial == IF InitialsOf(rolled) = {} THEN Register(rolled, Initial(t)) ELSE rolled
           today == {g \in DailiesOf(initial) : DayOf(g.end) = DayOf(t)}
           selected == IF today = {} THEN Daily(t) ELSE CHOOSE g \in today : TRUE
           kept == initial.generations \ ObsoleteDailies(initial, selected)
           superseded == SupersedeDaily(initial, selected)
           cleared == ClearFailures(superseded, queryable)
<1>1. ckpt \in Checkpoints
  BY DEF TypeOK
<1>2. PlansMeet(rolled) /\ rolled.month = MonthOf(t) /\ SameRest(ckpt, rolled)
      /\ rolled \in Checkpoints
  BY <1>1, RollingMeets
<1> HIDE DEF rolled
<1>3. PlansMeet(initial) /\ SameRest(ckpt, initial) /\ initial \in Checkpoints
  <2>1. CASE InitialsOf(rolled) # {}
    BY <1>2, <2>1
  <2>2. CASE InitialsOf(rolled) = {}
    <3>1. initial = [rolled EXCEPT !.generations = @ \cup Initial(t)]
      BY <2>2 DEF Register
    <3>2. /\ initial.month = MonthOf(t) /\ SameRest(ckpt, initial)
          /\ initial.generations = rolled.generations \cup Initial(t)
      BY <1>2, <3>1 DEF Checkpoints, SameRest
    <3>3. initial \in Checkpoints
      BY <1>2, <3>1, InitialPlansAreGenerations DEF Checkpoints
    <3>4. InitialsOf(initial) \subseteq Initial(t)
      BY <2>2, <3>2 DEF InitialsOf
    <3> QED BY <3>2, <3>3, <3>4, NewPlansMeet
  <2> QED BY <2>1, <2>2
<1> HIDE DEF initial
<1>4. selected.reason = "daily"
  <2>1. \A g \in today : g.reason = "daily"
    BY DEF DailiesOf
  <2>2. CASE today = {}
    BY <2>2, DailyPlanIsGeneration
  <2>3. CASE today # {}
    <3>1. selected \in today
      BY <2>3
    <3> QED BY <3>1, <2>1
  <2> QED BY <2>2, <2>3
<1> HIDE DEF selected
<1>5. /\ superseded.month = initial.month
      /\ superseded.generations = kept \cup {selected}
      /\ SameRest(initial, superseded)
      /\ cleared.month = superseded.month
      /\ cleared.generations = superseded.generations
      /\ SameRest(superseded, cleared)
  BY <1>3 DEF SupersedeDaily, Retain, Register, ClearFailures, Checkpoints, SameRest
<1> HIDE DEF superseded, kept
<1>6. InitialsOf(superseded) \subseteq InitialsOf(initial)
  BY <1>4, <1>5 DEF InitialsOf, InitialReasons, kept
<1>7. PlansMeet(superseded)
  BY <1>3, <1>5, <1>6, FewerPlansMeet
<1> HIDE DEF cleared
<1>8. PlansMeet(cleared)
  BY <1>5, <1>7, FewerPlansMeet DEF InitialsOf
<1>9. SameRest(ckpt, cleared)
  BY <1>3, <1>5 DEF SameRest
<1>10. Planned(t) = IF DailyDue(t) THEN cleared ELSE initial
  BY DEF Planned, cleared, superseded, initial, selected, rolled
<1> QED BY <1>3, <1>8, <1>9, <1>10

\* An operation that settles windows leaves plans, walks and refills alone.
Settles(c, n) ==
    /\ n.generations = c.generations /\ n.month = c.month
    /\ n.gaps = c.gaps /\ n.walk = c.walk
    /\ \A d \in Directions : c.coverage[d] \subseteq n.coverage[d]

LEMMA SettlingOperations ==
    ASSUME NEW c \in Checkpoints, NEW d \in Directions, NEW w \in Windows, NEW o
    PROVE  Settles(c, MarkDurable(c, d, w, o)) /\ Settles(c, MarkFailed(c, d, w, o))
<1>1. Settles(c, MarkFailed(c, d, w, o))
  BY DEF Settles, MarkFailed, Checkpoints
<1> DEFINE marked == [Cover(c, d, w) EXCEPT !.completed = @ \cup ResolutionsOf(d, w, o)]
<1>2. /\ marked.generations = c.generations /\ marked.month = c.month
      /\ marked.gaps = c.gaps /\ marked.walk = c.walk
      /\ marked.coverage = [c.coverage EXCEPT ![d] = @ \cup Ticks(w)]
      /\ DOMAIN marked = DOMAIN c
  BY DEF Checkpoints, Cover
<1> HIDE DEF marked
<1>3. MarkDurable(c, d, w, o) = [marked EXCEPT !.daily[d] = LatestOf(@ \cup Reached(marked, d))]
  BY DEF MarkDurable, AdvanceDailyBarrier, marked
<1>4. /\ DOMAIN c = {"month", "generations", "completed", "failed", "coverage", "daily",
                     "walk", "gaps"}
      /\ c.coverage \in [Directions -> SUBSET Int]
  BY DEF Checkpoints
<1>5. \A e \in Directions : c.coverage[e] \subseteq [c.coverage EXCEPT ![d] = @ \cup Ticks(w)][e]
  BY <1>4
<1>6. /\ MarkDurable(c, d, w, o).generations = marked.generations
      /\ MarkDurable(c, d, w, o).month = marked.month
      /\ MarkDurable(c, d, w, o).gaps = marked.gaps
      /\ MarkDurable(c, d, w, o).walk = marked.walk
      /\ MarkDurable(c, d, w, o).coverage = marked.coverage
  BY <1>2, <1>3, <1>4
<1> QED BY <1>1, <1>2, <1>5, <1>6 DEF Settles

LEMMA ForgivingSettles ==
    ASSUME NEW c \in Checkpoints, NEW directions
    PROVE  Settles(c, ClearFailures(c, directions))
BY DEF Settles, ClearFailures, Checkpoints

-----------------------------------------------------------------------------
(* The other operations of a record: walks and refills touch no plan.      *)
SamePlans(c, n) == n.generations = c.generations /\ n.month = c.month

LEMMA WalksAndRefillsPlanNothing ==
    ASSUME NEW c \in Checkpoints, NEW d \in Directions, NEW w \in Windows
    PROVE  /\ \A filled \in BOOLEAN, t \in Int : SamePlans(c, RecordGapAttempt(c, d, w, filled, t))
           /\ \A empty \in BOOLEAN : SamePlans(c, AdvanceBackfill(c, d, w, empty, HistoryFloor))
           /\ \A state \in WalkStates : SamePlans(c, StopBackfill(c, d, state))
<1>1. \A filled \in BOOLEAN, t \in Int : SamePlans(c, RecordGapAttempt(c, d, w, filled, t))
  BY DEF SamePlans, RecordGapAttempt, Checkpoints
<1>2. \A empty \in BOOLEAN : SamePlans(c, AdvanceBackfill(c, d, w, empty, HistoryFloor))
  BY DEF SamePlans, AdvanceBackfill, Cover, Checkpoints
<1>3. \A state \in WalkStates : SamePlans(c, StopBackfill(c, d, state))
  BY DEF SamePlans, StopBackfill, Checkpoints
<1> QED BY <1>1, <1>2, <1>3

LEMMA SamePlansMeet ==
    ASSUME NEW c, NEW n, PlansMeet(c), SamePlans(c, n) PROVE PlansMeet(n)
BY DEF PlansMeet, SamePlans, InitialsOf

\* What a step may do to the plans.
PlanStep ==
    \/ SamePlans(ckpt, ckpt')
    \/ \E t \in Int : ckpt' \in {Empty(t), RollMonthPair(ckpt, t), Planned(t)}

LEMMA UntouchedPlans == ASSUME ckpt' = ckpt PROVE PlanStep
BY DEF PlanStep, SamePlans

LEMMA PollPlans == ASSUME Good, PollNext PROVE PlanStep
<1>1. ckpt \in Checkpoints /\ poll.now \in Int
  BY DEF Good, TypeOK
<1>2. CASE PollDiscovers
  <2>1. SamePlans(ckpt, ClearFailures(ckpt, Directions)) /\ SamePlans(ckpt, ckpt)
    BY <1>1, ForgivingSettles DEF Settles, SamePlans
  <2>2. ckpt' = ckpt \/ ckpt' = ClearFailures(ckpt, Directions)
    BY <1>2 DEF PollDiscovers, Forgiven
  <2> QED BY <2>1, <2>2 DEF PlanStep
<1>3. CASE PollLoads
  <2>1. ckpt' = ckpt \/ ckpt' = RollMonthPair(ckpt, poll.now) \/ ckpt' = Empty(poll.now)
    BY <1>3 DEF PollLoads
  <2> QED BY <1>1, <2>1, UntouchedPlans DEF PlanStep
<1>4. CASE PollEnds
  <2>1. ckpt' = ckpt \/ ckpt' = Planned(poll.now)
    BY <1>4 DEF PollEnds, ScheduleSaves
  <2> QED BY <1>1, <2>1, UntouchedPlans DEF PlanStep
<1>5. CASE PollBegins \/ PollInterrupted \/ PollAborts \/ PollScheduleFails
           \/ \E d \in Directions : PollReads(d) \/ PollRefused(d)
  BY <1>5, UntouchedPlans
  DEF PollBegins, PollInterrupted, PollAborts, PollScheduleFails, PollReads, PollRefused
<1> QED BY <1>2, <1>3, <1>4, <1>5 DEF PollNext

LEMMA ItemsInHand ==
    ASSUME Good, NEW i \in worker.item
    PROVE  i \in Items /\ i.scope.direction \in Directions /\ i.scope.window \in Windows
           /\ i.scope \in Scopes /\ worker.item = {i}
BY DEF Good, TypeOK, Items, Scopes

LEMMA WorkerPlans == ASSUME Good, WorkerNext PROVE PlanStep
<1>1. ckpt \in Checkpoints /\ now \in Int
  BY DEF Good, TypeOK
<1>2. CASE WorkerCommits
  <2>1. PICK i \in worker.item : CommitsPlanned(i) \/ CommitsRefill(i) \/ CommitsWalk(i)
    BY <1>2 DEF WorkerCommits
  <2>2. i.scope.direction \in Directions /\ i.scope.window \in Windows
    BY ItemsInHand
  <2>3. CASE CommitsPlanned(i)
    <3>1. Settles(ckpt, MarkDurable(ckpt, i.scope.direction, i.scope.window, i.obligations))
      BY <1>1, <2>2, SettlingOperations
    <3> QED BY <2>3, <3>1 DEF CommitsPlanned, Settles, PlanStep, SamePlans
  <2>4. CASE CommitsRefill(i)
    BY <1>1, <2>2, <2>4, WalksAndRefillsPlanNothing DEF CommitsRefill, PlanStep
  <2>5. CASE CommitsWalk(i)
    BY <1>1, <2>2, <2>5, WalksAndRefillsPlanNothing DEF CommitsWalk, PlanStep
  <2> QED BY <2>1, <2>3, <2>4, <2>5
<1>3. CASE WorkerHearsLegacy
  <2>1. PICK i \in worker.item :
          ckpt' = ckpt \/ ckpt' = StopBackfill(ckpt, i.scope.direction, "unsupported")
    BY <1>3 DEF WorkerHearsLegacy
  <2>2. i.scope.direction \in Directions /\ i.scope.window \in Windows
    BY ItemsInHand
  <2> QED BY <1>1, <2>1, <2>2, WalksAndRefillsPlanNothing, UntouchedPlans
    DEF PlanStep, WalkStates
<1>4. CASE WorkerGivesUp
  <2>1. PICK i \in worker.item :
          \/ ckpt' = ckpt \/ ckpt' = StopBackfill(ckpt, i.scope.direction, "failed")
          \/ ckpt' = MarkFailed(ckpt, i.scope.direction, i.scope.window, i.obligations)
    BY <1>4 DEF WorkerGivesUp
  <2>2. i.scope.direction \in Directions /\ i.scope.window \in Windows
    BY ItemsInHand
  <2>3. SamePlans(ckpt, MarkFailed(ckpt, i.scope.direction, i.scope.window, i.obligations))
    BY <1>1, <2>2, SettlingOperations DEF Settles, SamePlans
  <2> QED BY <1>1, <2>1, <2>2, <2>3, WalksAndRefillsPlanNothing, UntouchedPlans
    DEF PlanStep, WalkStates
<1>5. CASE \/ WorkerTakes \/ WorkerReturns \/ WorkerStores \/ WorkerRetries \/ WorkerDies
           \/ WorkerRefused \/ BackoffEnds
  BY <1>5, UntouchedPlans
  DEF WorkerTakes, WorkerReturns, WorkerStores, WorkerRetries, WorkerDies, WorkerRefused,
      BackoffEnds
<1> QED BY <1>2, <1>3, <1>4, <1>5 DEF WorkerNext

LEMMA LifecyclePlans == ASSUME Good, LifecycleNext PROVE PlanStep
<1>1. ckpt \in Checkpoints /\ now \in Int
  BY DEF Good, TypeOK
<1>2. CASE StartsSync
  <2>1. ckpt' = ckpt \/ ckpt' = Planned(now)
    BY <1>2 DEF StartsSync, ScheduleSaves
  <2> QED BY <1>1, <2>1, UntouchedPlans DEF PlanStep
<1>3. CASE PressesHistoryButton
  <2>1. PICK walk : ckpt' = [ckpt EXCEPT !.walk = walk]
    BY <1>3 DEF PressesHistoryButton
  <2> QED BY <1>1, <2>1 DEF PlanStep, SamePlans, Checkpoints
<1>4. CASE Restarts \/ PreparesShutdown \/ CancelsWorker \/ Resumes \/ Reloads
  BY <1>4, UntouchedPlans DEF Restarts, PreparesShutdown, CancelsWorker, Resumes, Reloads
<1> QED BY <1>2, <1>3, <1>4 DEF LifecycleNext

LEMMA NextPlans == ASSUME Good, Next PROVE PlanStep
BY PollPlans, WorkerPlans, LifecyclePlans, UntouchedPlans DEF Next, Tick

LEMMA PlanStepMeets ==
    ASSUME Good, PlansMeet(ckpt), PlanStep PROVE PlansMeet(ckpt')
<1>1. CASE SamePlans(ckpt, ckpt')
  BY <1>1, SamePlansMeet
<1>2. ASSUME NEW t \in Int, ckpt' \in {Empty(t), RollMonthPair(ckpt, t), Planned(t)}
      PROVE  PlansMeet(ckpt')
  <2>1. TypeOK /\ ckpt \in Checkpoints
    BY DEF Good, TypeOK
  <2>2. PlansMeet(Empty(t)) /\ PlansMeet(RollMonthPair(ckpt, t)) /\ PlansMeet(Planned(t))
    BY <2>1, EmptyPlansMeet, RollingMeets, PlanningMeets
  <2> QED BY <1>2, <2>2
<1> QED BY <1>1, <1>2 DEF PlanStep

-----------------------------------------------------------------------------
(* The work of one obligation that is in memory: queued, or in hand.       *)
Queued(o) == ScopesOf({e \in queue : e.obligation = o})
Hand(o) == {i.scope : i \in {j \in worker.item : o \in j.obligations}}

\* It stays where it is or goes, comes back from the hand, or is taken.
WorkStep(o, extra) ==
    \/ Hand(o)' \subseteq Hand(o) /\ Queued(o)' \subseteq Queued(o) \cup extra
    \/ Hand(o)' = {} /\ Queued(o)' \subseteq Queued(o) \cup Hand(o) \cup extra
    \/ /\ Hand(o)' \subseteq Queued(o) /\ Queued(o)' \subseteq Queued(o)
       /\ Hand(o)' \cap Queued(o)' = {}

\* The refills a scan may ask for, and the windows the walks are at.
Askable == {s \in Scopes : ~SkipsGapWindow(ckpt, s.direction, s.window, now)}
Walked(c) == ScopesOf(WalkEntries(c))

Work == WorkStep(GapRefill, Askable) /\ WorkStep(HistoryBackfill, Walked(ckpt'))

HandShrinks == worker'.item = worker.item \/ worker'.item = {}

LEMMA HandShrinking ==
    ASSUME NEW o, HandShrinks PROVE Hand(o)' \subseteq Hand(o)
BY DEF Hand, HandShrinks

LEMMA WorkOnlyGoes ==
    ASSUME HandShrinks, queue' \subseteq queue PROVE Work
<1>1. \A o : Queued(o)' \subseteq Queued(o)
  BY DEF Queued, ScopesOf
<1> QED BY <1>1, HandShrinking DEF Work, WorkStep

LEMMA WorkComesBack ==
    ASSUME worker'.item = {},
           queue' \subseteq queue \cup UNION {EntriesOf(i) : i \in worker.item}
    PROVE  Work
<1>1. ASSUME NEW o PROVE Hand(o)' = {} /\ Queued(o)' \subseteq Queued(o) \cup Hand(o)
  <2>1. \A i : \A e \in EntriesOf(i) : e.scope = i.scope /\ e.obligation \in i.obligations
    BY DEF EntriesOf
  <2> QED BY <2>1 DEF Queued, Hand, ScopesOf
<1> QED BY <1>1 DEF Work, WorkStep

LEMMA PlannedEntriesAreNeither ==
    ASSUME NEW c \in Checkpoints, NEW directions
    PROVE  \A e \in MissingEntries(c, directions) :
              e.obligation # GapRefill /\ e.obligation # HistoryBackfill
<1>1. \A g \in c.generations : g # GapRefill /\ g # HistoryBackfill
  BY DEF Checkpoints, Generations, PlannedReasons, InitialReasons, GapRefill, HistoryBackfill
<1> QED BY <1>1 DEF MissingEntries, Missing, EntryFor

LEMMA SpecialEntries ==
    /\ GapRefill # HistoryBackfill
    /\ \A c : \A e \in WalkEntries(c) : e.obligation = HistoryBackfill
    /\ \A c, holes : \A e \in RefillEntries(c, holes) : e.obligation = GapRefill
BY DEF GapRefill, HistoryBackfill, WalkEntries, RefillEntries, EntryFor

\* A step that queues planned windows, the walks' windows and refills.
LEMMA WorkIsAdded ==
    ASSUME HandShrinks, NEW c \in Checkpoints, NEW directions, NEW refills,
           queue' \subseteq queue \cup MissingEntries(c, directions)
                              \cup WalkEntries(ckpt') \cup refills,
           \A e \in refills : e.obligation = GapRefill /\ e.scope \in Askable
    PROVE  Work
<1>1. \A e \in MissingEntries(c, directions) :
         e.obligation # GapRefill /\ e.obligation # HistoryBackfill
  BY PlannedEntriesAreNeither
<1>2. /\ GapRefill # HistoryBackfill
      /\ \A e \in WalkEntries(ckpt') : e.obligation = HistoryBackfill
  BY SpecialEntries
<1>3. Queued(GapRefill)' \subseteq Queued(GapRefill) \cup Askable
  BY <1>1, <1>2 DEF Queued, ScopesOf
<1>4. Queued(HistoryBackfill)' \subseteq Queued(HistoryBackfill) \cup Walked(ckpt')
  BY <1>1, <1>2 DEF Queued, ScopesOf, Walked
<1> QED BY <1>3, <1>4, HandShrinking DEF Work, WorkStep

LEMMA WindowsAreAdded ==
    ASSUME HandShrinks, ckpt \in Checkpoints, NEW directions,
           queue' \subseteq queue \cup MissingEntries(ckpt, directions) \cup WalkEntries(ckpt')
    PROVE  Work
<1>1. PICK refills : refills = {}
  OBVIOUS
<1>2. queue' \subseteq queue \cup MissingEntries(ckpt, directions) \cup WalkEntries(ckpt')
                       \cup refills
  OBVIOUS
<1>3. \A e \in refills : e.obligation = GapRefill /\ e.scope \in Askable
  BY <1>1
<1> QED BY <1>2, <1>3, WorkIsAdded

LEMMA EnsuringShrinks ==
    ASSUME NEW q, worker' = EnsuredWorker(q) \/ worker' = worker PROVE HandShrinks
BY EnsuredWorkerCases DEF HandShrinks, IdleWorker

LEMMA SchedulingWork ==
    ASSUME Good, PlansMeet(ckpt), NEW t \in Int, ScheduleSaves(t), HandShrinks PROVE Work
<1>1. PICK holes \in SUBSET HoleScopes :
        \/ /\ ckpt' = Planned(t)
           /\ queue' = WithoutObsolete(t) \cup MissingEntries(Planned(t), queryable)
                         \cup WalkEntries(Planned(t)) \cup RefillEntries(Planned(t), holes)
        \/ UNCHANGED <<ckpt, queue>>
  BY DEF ScheduleSaves
<1>2. CASE UNCHANGED <<ckpt, queue>>
  BY <1>2, WorkOnlyGoes
<1>3. CASE ckpt' = Planned(t)
           /\ queue' = WithoutObsolete(t) \cup MissingEntries(Planned(t), queryable)
                         \cup WalkEntries(Planned(t)) \cup RefillEntries(Planned(t), holes)
  <2> DEFINE p == Planned(t)
             refills == RefillEntries(p, holes)
  <2>1. p \in Checkpoints /\ p.gaps = ckpt.gaps
    BY PlansAreSound, PlanningMeets DEF Good, Sound, SameRest
  <2>2. WithoutObsolete(t) \subseteq queue
    BY DEF WithoutObsolete
  <2>3. \A d, w : SkipsGapWindow(p, d, w, now) <=> SkipsGapWindow(ckpt, d, w, now)
    BY <2>1 DEF SkipsGapWindow, AttemptsAt
  <2> HIDE DEF p
  <2>4. \A e \in refills : e.obligation = GapRefill /\ e.scope \in Askable
    BY <2>3, SyncAssumption DEF RefillEntries, EntryFor, Askable, Scopes
  <2> HIDE DEF refills
  <2>5. queue' \subseteq queue \cup MissingEntries(p, queryable) \cup WalkEntries(ckpt') \cup refills
    BY <1>3, <2>2 DEF p, refills
  <2> QED BY <2>1, <2>4, <2>5, WorkIsAdded
<1> QED BY <1>1, <1>2, <1>3

LEMMA PollWork == ASSUME Good, PlansMeet(ckpt), PollNext PROVE Work
<1>1. CASE PollEnds
  <2>1. CASE phase = "setup"
    BY <1>1, <2>1, WorkOnlyGoes DEF PollEnds, HandShrinks
  <2>2. CASE phase # "setup"
    <3>1. ScheduleSaves(poll.now) /\ HandShrinks
      BY <1>1, <2>2, EnsuringShrinks DEF PollEnds
    <3> QED BY <3>1, SchedulingWork DEF Good, TypeOK
  <2> QED BY <2>1, <2>2
<1>2. CASE PollDiscovers
  BY <1>2, WorkOnlyGoes DEF PollDiscovers, Rediscovered, HandShrinks
<1>3. CASE PollInterrupted \/ PollAborts
  BY <1>3, WorkOnlyGoes
  DEF PollInterrupted, PollAborts, PollFails, ForgetMemory, NoWorker, HandShrinks
<1>4. CASE PollScheduleFails
  BY <1>4, WorkOnlyGoes DEF PollScheduleFails, WithoutObsolete, HandShrinks
<1>5. CASE PollBegins \/ PollLoads \/ \E d \in Directions : PollReads(d) \/ PollRefused(d)
  BY <1>5, WorkOnlyGoes DEF PollBegins, PollLoads, PollReads, PollRefused, HandShrinks
<1> QED BY <1>1, <1>2, <1>3, <1>4, <1>5 DEF PollNext

LEMMA TakingWork == ASSUME Good, WorkerTakes PROVE Work
<1>1. PICK s : /\ worker'.item = {ItemAt(s)}
               /\ queue' = {e \in queue : e.scope # s}
  BY DEF WorkerTakes
<1>2. ASSUME NEW o
      PROVE  /\ Hand(o)' \subseteq Queued(o) /\ Queued(o)' \subseteq Queued(o)
             /\ Hand(o)' \cap Queued(o)' = {}
  <2>1. ItemAt(s).scope = s
        /\ (o \in ItemAt(s).obligations => \E e \in queue : e.scope = s /\ e.obligation = o)
    BY DEF ItemAt
  <2>2. Hand(o)' \subseteq {s} /\ Hand(o)' \subseteq Queued(o)
    BY <1>1, <2>1 DEF Hand, Queued, ScopesOf
  <2>3. Queued(o)' \subseteq Queued(o) \ {s}
    BY <1>1 DEF Queued, ScopesOf
  <2> QED BY <2>2, <2>3
<1> QED BY <1>2 DEF Work, WorkStep

LEMMA WorkerWork == ASSUME Good, WorkerNext PROVE Work
<1>1. CASE WorkerTakes
  BY <1>1, TakingWork
<1>2. CASE WorkerCommits
  <2>1. PICK i \in worker.item : CommitsPlanned(i) \/ CommitsRefill(i) \/ CommitsWalk(i)
    BY <1>2 DEF WorkerCommits
  <2>2. HandShrinks
    BY <1>2 DEF WorkerCommits, IdleWorker, HandShrinks
  <2>3. CASE CommitsPlanned(i) \/ CommitsRefill(i)
    BY <2>2, <2>3, WorkOnlyGoes DEF CommitsPlanned, CommitsRefill
  <2>4. CASE CommitsWalk(i)
    <3>1. queue' \subseteq queue \cup WalkEntries(ckpt')
      BY <2>4 DEF CommitsWalk
    <3>2. ckpt \in Checkpoints
      BY DEF Good, TypeOK
    <3>3. queue' \subseteq queue \cup MissingEntries(ckpt, {}) \cup WalkEntries(ckpt')
      BY <3>1
    <3> QED BY <2>2, <3>2, <3>3, WindowsAreAdded
  <2> QED BY <2>1, <2>3, <2>4
<1>3. CASE WorkerRetries \/ WorkerRefused
  <2>1. PICK i \in worker.item : queue' = queue \cup EntriesOf(i)
    BY <1>3 DEF WorkerRetries, WorkerRefused
  <2>2. worker'.item = {}
    BY <1>3 DEF WorkerRetries, WorkerRefused, IdleWorker, NoWorker
  <2> QED BY <2>1, <2>2, WorkComesBack
<1>4. CASE \/ WorkerReturns \/ WorkerStores \/ WorkerHearsLegacy \/ WorkerGivesUp
           \/ WorkerDies \/ BackoffEnds
  <2>1. queue' \subseteq queue
    BY <1>4
    DEF WorkerReturns, WorkerStores, WorkerHearsLegacy, WorkerGivesUp, WorkerDies, BackoffEnds
  <2>2. worker'.item = worker.item \/ worker'.item = {}
    <3>1. CASE WorkerStores
      BY <3>1 DEF WorkerStores, Good, TypeOK
    <3>2. CASE BackoffEnds
      BY <3>2 DEF BackoffEnds
    <3>3. CASE WorkerReturns \/ WorkerHearsLegacy \/ WorkerGivesUp \/ WorkerDies
      BY <3>3 DEF WorkerReturns, WorkerHearsLegacy, WorkerGivesUp, WorkerDies, IdleWorker, NoWorker
    <3> QED BY <1>4, <3>1, <3>2, <3>3
  <2> QED BY <2>1, <2>2, WorkOnlyGoes DEF HandShrinks
<1> QED BY <1>1, <1>2, <1>3, <1>4 DEF WorkerNext

LEMMA LifecycleWork == ASSUME Good, PlansMeet(ckpt), LifecycleNext PROVE Work
<1>1. ckpt \in Checkpoints /\ now \in Int
  BY DEF Good, TypeOK
<1>2. CASE StartsSync
  <2>1. ScheduleSaves(now) /\ HandShrinks
    BY <1>2, EnsuringShrinks DEF StartsSync
  <2> QED BY <1>1, <2>1, SchedulingWork
<1>3. CASE PressesHistoryButton
  <2>1. HandShrinks
    BY <1>3, EnsuringShrinks DEF PressesHistoryButton
  <2>2. queue' \subseteq queue \cup MissingEntries(ckpt, {}) \cup WalkEntries(ckpt')
    BY <1>3 DEF PressesHistoryButton
  <2> QED BY <1>1, <2>1, <2>2, WindowsAreAdded
<1>4. CASE Resumes
  <2>1. HandShrinks
    BY <1>4, EnsuringShrinks DEF Resumes
  <2>2. queue' \subseteq queue \cup MissingEntries(ckpt, queryable) \cup WalkEntries(ckpt')
    BY <1>4 DEF Resumes
  <2> QED BY <1>1, <2>1, <2>2, WindowsAreAdded
<1>5. CASE CancelsWorker
  BY <1>5, WorkComesBack DEF CancelsWorker, NoWorker
<1>6. CASE Restarts \/ Reloads \/ PreparesShutdown
  BY <1>6, WorkOnlyGoes
  DEF Restarts, Reloads, ForgetMemory, PreparesShutdown, NoWorker, HandShrinks
<1> QED BY <1>2, <1>3, <1>4, <1>5, <1>6 DEF LifecycleNext

LEMMA NextWork == ASSUME Good, PlansMeet(ckpt), Next PROVE Work
<1>1. CASE Tick
  BY <1>1, WorkOnlyGoes DEF Tick, HandShrinks
<1> QED BY <1>1, PollWork, WorkerWork, LifecycleWork DEF Next
-----------------------------------------------------------------------------
(* Refills.  An abandoned window is not both queued and in hand, and once  *)
(* its limit is overrun it is neither: no scan asks for it, so the request *)
(* that was on its way is the last.                                        *)
Spent(a) ==
    LET s == Scope(a.direction, a.window)
    IN  IsAbandoned(a, now) =>
            /\ s \notin Queued(GapRefill) \cap Hand(GapRefill)
            /\ a.streak > GapEmptyLimit => s \notin Queued(GapRefill) \cup Hand(GapRefill)

RefillsEnd == \A a \in ckpt.gaps : a.streak <= GapEmptyLimit + 1 /\ Spent(a)

Recorded ==
    /\ now' = now /\ queue' = queue /\ worker'.item = {}
    /\ \E i \in worker.item, filled \in BOOLEAN :
        /\ IsGapRefill(i)
        /\ ckpt' = RecordGapAttempt(ckpt, i.scope.direction, i.scope.window, filled, now)

GapStep ==
    \/ now' >= now /\ ckpt'.gaps \subseteq ckpt.gaps
    \/ Recorded

LEMMA OtherOperationsAskNothing ==
    ASSUME NEW c \in Checkpoints, NEW d \in Directions, NEW w \in Windows
    PROVE  /\ \A empty \in BOOLEAN : AdvanceBackfill(c, d, w, empty, HistoryFloor).gaps = c.gaps
           /\ \A state : StopBackfill(c, d, state).gaps = c.gaps
<1>1. \A empty \in BOOLEAN : AdvanceBackfill(c, d, w, empty, HistoryFloor).gaps = c.gaps
  BY DEF AdvanceBackfill, Cover, Checkpoints
<1>2. \A state : StopBackfill(c, d, state).gaps = c.gaps
  BY DEF StopBackfill, Checkpoints
<1> QED BY <1>1, <1>2

LEMMA RollingAsksNothing ==
    ASSUME NEW c \in Checkpoints, NEW t \in Int
    PROVE  RollMonthPair(c, t).gaps = c.gaps /\ Empty(t).gaps = {}
BY DEF RollMonthPair, Retain, Checkpoints, Empty

LEMMA NextAsks == ASSUME Good, PlansMeet(ckpt), Next PROVE GapStep
<1>1. ckpt \in Checkpoints /\ now \in Int /\ poll.now \in Int /\ TypeOK
  BY DEF Good, TypeOK
<1>2. CASE Tick
  BY <1>1, <1>2 DEF Tick, GapStep
<1>3. CASE PollNext
  <2>1. now' = now
    BY <1>3 DEF PollNext, PollBegins, PollDiscovers, Rediscovered, PollLoads, PollReads,
       PollRefused, PollInterrupted, PollAborts, PollEnds, PollScheduleFails
  <2>2. \/ ckpt' = ckpt \/ ckpt' = ClearFailures(ckpt, Directions)
        \/ \E t \in Int : ckpt' \in {Empty(t), RollMonthPair(ckpt, t), Planned(t)}
    BY <1>1, <1>3 DEF PollNext, PollBegins, PollDiscovers, Forgiven, PollLoads, PollReads,
       PollRefused, PollInterrupted, PollAborts, PollEnds, PollScheduleFails, ScheduleSaves
  <2>3. /\ ClearFailures(ckpt, Directions).gaps = ckpt.gaps
        /\ \A t \in Int : /\ Empty(t).gaps = {} /\ RollMonthPair(ckpt, t).gaps = ckpt.gaps
                          /\ Planned(t).gaps = ckpt.gaps
    BY <1>1, ForgivingSettles, RollingAsksNothing, PlanningMeets DEF Settles, SameRest
  <2> QED BY <1>1, <2>1, <2>2, <2>3 DEF GapStep
<1>4. CASE WorkerNext
  <2>1. now' = now
    BY <1>4 DEF WorkerNext, WorkerTakes, WorkerReturns, WorkerStores, WorkerCommits,
       WorkerHearsLegacy, WorkerRetries, WorkerGivesUp, WorkerDies, WorkerRefused, BackoffEnds
  <2>2. CASE WorkerCommits
    <3>1. PICK i \in worker.item : CommitsPlanned(i) \/ CommitsRefill(i) \/ CommitsWalk(i)
      BY <2>2 DEF WorkerCommits
    <3>2. i.scope.direction \in Directions /\ i.scope.window \in Windows
      BY ItemsInHand
    <3>3. CASE CommitsPlanned(i)
      <4>1. Settles(ckpt, MarkDurable(ckpt, i.scope.direction, i.scope.window, i.obligations))
        BY <1>1, <3>2, SettlingOperations
      <4> QED BY <1>1, <2>1, <3>3, <4>1 DEF CommitsPlanned, Settles, GapStep
    <3>4. CASE CommitsRefill(i)
      BY <2>1, <2>2, <3>4 DEF CommitsRefill, WorkerCommits, IdleWorker, Recorded, GapStep
    <3>5. CASE CommitsWalk(i)
      BY <1>1, <2>1, <3>2, <3>5, OtherOperationsAskNothing DEF CommitsWalk, GapStep
    <3> QED BY <3>1, <3>3, <3>4, <3>5
  <2>3. CASE WorkerHearsLegacy
    <3>1. PICK i \in worker.item :
            ckpt' = ckpt \/ ckpt' = StopBackfill(ckpt, i.scope.direction, "unsupported")
      BY <2>3 DEF WorkerHearsLegacy
    <3> QED BY <1>1, <2>1, <3>1, ItemsInHand, OtherOperationsAskNothing DEF GapStep
  <2>4. CASE WorkerGivesUp
    <3>1. PICK i \in worker.item :
            \/ ckpt' = ckpt \/ ckpt' = StopBackfill(ckpt, i.scope.direction, "failed")
            \/ ckpt' = MarkFailed(ckpt, i.scope.direction, i.scope.window, i.obligations)
      BY <2>4 DEF WorkerGivesUp
    <3>2. i.scope.direction \in Directions /\ i.scope.window \in Windows
      BY ItemsInHand
    <3>3. MarkFailed(ckpt, i.scope.direction, i.scope.window, i.obligations).gaps = ckpt.gaps
      BY <1>1, <3>2, SettlingOperations DEF Settles
    <3> QED BY <1>1, <2>1, <3>1, <3>2, <3>3, OtherOperationsAskNothing DEF GapStep
  <2>5. CASE \/ WorkerTakes \/ WorkerReturns \/ WorkerStores \/ WorkerRetries \/ WorkerDies
             \/ WorkerRefused \/ BackoffEnds
    <3>1. ckpt' = ckpt
      BY <2>5 DEF WorkerTakes, WorkerReturns, WorkerStores, WorkerRetries, WorkerDies,
         WorkerRefused, BackoffEnds
    <3> QED BY <1>1, <2>1, <3>1 DEF GapStep
  <2> QED BY <1>4, <2>2, <2>3, <2>4, <2>5 DEF WorkerNext
<1>5. CASE LifecycleNext
  <2>1. now' = now
    BY <1>5 DEF LifecycleNext, StartsSync, Restarts, PressesHistoryButton, PreparesShutdown,
       CancelsWorker, Resumes, Reloads
  <2>2. ckpt' = ckpt \/ ckpt' = Planned(now) \/ \E walk : ckpt' = [ckpt EXCEPT !.walk = walk]
    BY <1>5 DEF LifecycleNext, StartsSync, ScheduleSaves, Restarts, PressesHistoryButton,
       PreparesShutdown, CancelsWorker, Resumes, Reloads
  <2>3. Planned(now).gaps = ckpt.gaps
    BY <1>1, PlanningMeets DEF SameRest
  <2>4. ckpt'.gaps = ckpt.gaps
    <3>1. ASSUME NEW walk, ckpt' = [ckpt EXCEPT !.walk = walk] PROVE ckpt'.gaps = ckpt.gaps
      BY <1>1, <3>1 DEF Checkpoints
    <3> QED BY <2>2, <2>3, <3>1
  <2> QED BY <1>1, <2>1, <2>4 DEF GapStep
<1> QED BY <1>2, <1>3, <1>4, <1>5 DEF Next

LEMMA RecordedRefillsEnd ==
    ASSUME Good, RefillsEnd, Recorded PROVE RefillsEnd'
<1>1. PICK i \in worker.item, filled \in BOOLEAN :
        /\ IsGapRefill(i)
        /\ ckpt' = RecordGapAttempt(ckpt, i.scope.direction, i.scope.window, filled, now)
  BY DEF Recorded
<1> DEFINE d == i.scope.direction
           w == i.scope.window
           s == Scope(d, w)
<1>2. i \in Items /\ i.scope \in Scopes /\ ckpt \in Checkpoints /\ now \in Int
      /\ GapEmptyLimit \in Nat \ {0} /\ GapRetryAfter \in Nat \ {0}
  BY ItemsInHand, CheckpointAssumption DEF Good, TypeOK
<1>3. s = i.scope /\ s \in Hand(GapRefill)
  BY <1>1, <1>2 DEF Scope, Scopes, Hand, IsGapRefill
<1>4. Hand(GapRefill)' = {} /\ Queued(GapRefill)' = Queued(GapRefill) /\ now' = now
  BY DEF Recorded, Hand, Queued
<1>5. \A a \in ckpt.gaps : a.streak \in Nat /\ a.at \in Int
  BY <1>2 DEF Checkpoints, GapAttempts
<1>6. ASSUME NEW a \in ckpt'.gaps
      PROVE  \/ a \in ckpt.gaps
             \/ /\ a.direction = d /\ a.window = w
                /\ \/ a.streak = 1
                   \/ \E b \in ckpt.gaps : /\ b.direction = d /\ b.window = w
                                           /\ now - b.at < GapRetryAfter
                                           /\ a.streak = b.streak + 1
  <2> DEFINE previous == AttemptsAt(ckpt, d, w)
             recent == {b \in previous : now - b.at < GapRetryAfter}
             again(n) == [direction |-> d, window |-> w, streak |-> n, at |-> now]
             added == IF filled THEN {}
                      ELSE IF recent = {} THEN {again(1)}
                      ELSE {again(b.streak + 1) : b \in recent}
  <2>1. ckpt'.gaps = (ckpt.gaps \ previous) \cup added
    BY <1>1, <1>2 DEF RecordGapAttempt, Checkpoints
  <2>2. ASSUME a \in added
        PROVE  /\ a.direction = d /\ a.window = w
               /\ a.streak = 1 \/ \E b \in recent : a.streak = b.streak + 1
    BY <2>2
  <2>3. \A b \in recent : /\ b \in ckpt.gaps /\ b.direction = d /\ b.window = w
                          /\ now - b.at < GapRetryAfter
    BY DEF AttemptsAt
  <2> HIDE DEF added, recent, previous
  <2> QED BY <2>1, <2>2, <2>3
<1> HIDE DEF d, w, s
<1>7. ASSUME NEW a \in ckpt'.gaps, a \in ckpt.gaps
      PROVE  a.streak <= GapEmptyLimit + 1 /\ Spent(a)'
  <2>1. a.streak <= GapEmptyLimit + 1 /\ Spent(a)
    BY <1>7 DEF RefillsEnd
  <2> QED BY <1>4, <2>1 DEF Spent, IsAbandoned
<1>8. ASSUME NEW a \in ckpt'.gaps, a.direction = d, a.window = w, a.streak = 1
      PROVE  a.streak <= GapEmptyLimit + 1 /\ Spent(a)'
  <2>1. ~(a.streak > GapEmptyLimit) /\ a.streak <= GapEmptyLimit + 1
    BY <1>2, <1>8
  <2> QED BY <1>4, <2>1 DEF Spent
<1>9. ASSUME NEW a \in ckpt'.gaps, a.direction = d, a.window = w,
             NEW b \in ckpt.gaps, b.direction = d, b.window = w,
             now - b.at < GapRetryAfter, a.streak = b.streak + 1
      PROVE  a.streak <= GapEmptyLimit + 1 /\ Spent(a)'
  <2>1. Spent(b) /\ b.streak \in Nat /\ Scope(b.direction, b.window) = s
        /\ Scope(a.direction, a.window) = s
    BY <1>5, <1>9 DEF RefillsEnd, s
  <2>2. b.streak <= GapEmptyLimit
    BY <1>2, <1>3, <1>9, <2>1 DEF Spent, IsAbandoned
  <2>3. b.streak = GapEmptyLimit => s \notin Queued(GapRefill)
    BY <1>2, <1>3, <1>9, <2>1 DEF Spent, IsAbandoned
  <2>4. a.streak > GapEmptyLimit => b.streak = GapEmptyLimit
    BY <1>2, <1>9, <2>1, <2>2
  <2>5. a.streak <= GapEmptyLimit + 1
    BY <1>2, <1>9, <2>1, <2>2
  <2> QED BY <1>4, <2>1, <2>3, <2>4, <2>5 DEF Spent
<1> QED BY <1>6, <1>7, <1>8, <1>9 DEF RefillsEnd

LEMMA OtherRefillsEnd ==
    ASSUME Good, RefillsEnd, Work, now' \in Int, now' >= now, ckpt'.gaps \subseteq ckpt.gaps
    PROVE  RefillsEnd'
<1> SUFFICES ASSUME NEW a \in ckpt.gaps PROVE Spent(a)'
  BY DEF RefillsEnd
<1>1. /\ Spent(a) /\ a \in GapAttempts /\ now \in Int /\ GapRetryAfter \in Nat
      /\ GapEmptyLimit \in Nat
  BY CheckpointAssumption DEF RefillsEnd, Good, TypeOK, Checkpoints
<1> DEFINE s == Scope(a.direction, a.window)
<1>2. SUFFICES ASSUME IsAbandoned(a, now)'
               PROVE  /\ s \notin Queued(GapRefill)' \cap Hand(GapRefill)'
                      /\ a.streak > GapEmptyLimit =>
                            s \notin Queued(GapRefill)' \cup Hand(GapRefill)'
  BY DEF Spent
<1>3. IsAbandoned(a, now)
  BY <1>1, <1>2 DEF IsAbandoned, GapAttempts
<1>4. s \notin Askable
  <2>1. s.direction = a.direction /\ s.window = a.window
    BY DEF Scope
  <2> HIDE DEF s
  <2> QED BY <1>3, <2>1 DEF Askable, SkipsGapWindow, AttemptsAt
<1>5. /\ s \notin Queued(GapRefill) \cap Hand(GapRefill)
      /\ a.streak > GapEmptyLimit => s \notin Queued(GapRefill) \cup Hand(GapRefill)
  BY <1>1, <1>3 DEF Spent
<1>6. WorkStep(GapRefill, Askable)
  BY DEF Work
<1> HIDE DEF s
<1> QED BY <1>4, <1>5, <1>6 DEF WorkStep

LEMMA NextRefills ==
    ASSUME Good, PlansMeet(ckpt), RefillsEnd, Next, now' \in Int PROVE RefillsEnd'
BY NextAsks, NextWork, RecordedRefillsEnd, OtherRefillsEnd DEF GapStep
-----------------------------------------------------------------------------
(* Walks.  Every window a walk has queued or in hand ends where coverage   *)
(* reaches down to, so completing a stale one opens no gap either.         *)
Reaches(c, d, t) == t .. (InitialFloor(StartTime) - 1) \subseteq c.coverage[d]

WalksReach(c) ==
    \A d \in Directions : c.walk[d].state # "none" => Reaches(c, d, c.walk[d].cursor)

\* An unreadable record is met before there is any work.
Fresh == ~loaded => queue = {} /\ worker.item = {}

WalksInv ==
    /\ now >= StartTime
    /\ Fresh
    /\ WalksReach(ckpt)
    /\ \A s \in Queued(HistoryBackfill) \cup Hand(HistoryBackfill) :
          Reaches(ckpt, s.direction, s.window.end)

LEMMA StaysFresh == ASSUME Good, Fresh, Next PROVE Fresh'
<1>1. CASE Tick
  BY <1>1 DEF Tick, Fresh
<1>2. CASE PollNext
  <2>1. CASE PollInterrupted \/ PollAborts
    BY <1>2, <2>1 DEF PollInterrupted, PollAborts, PollFails, ForgetMemory, NoWorker, Fresh
  <2>2. CASE PollEnds
    <3>1. loaded' = loaded /\ (worker' = worker \/ worker'.item = {})
          /\ (loaded \/ queue' = queue)
      BY <2>2, EnsuredWorkerCases DEF PollEnds, ScheduleSaves, IdleWorker
    <3> QED BY <3>1 DEF Fresh
  <2>3. CASE PollDiscovers
    BY <2>3 DEF PollDiscovers, Rediscovered, Fresh
  <2>4. CASE PollBegins \/ PollLoads \/ PollScheduleFails
             \/ \E d \in Directions : PollReads(d) \/ PollRefused(d)
    BY <2>4 DEF PollBegins, PollLoads, PollScheduleFails, PollReads, PollRefused, Fresh
  <2> QED BY <1>2, <2>1, <2>2, <2>3, <2>4 DEF PollNext
<1>3. CASE WorkerNext
  <2>1. loaded' = loaded
    BY <1>3 DEF WorkerNext, WorkerTakes, WorkerReturns, WorkerStores, WorkerCommits,
       WorkerHearsLegacy, WorkerRetries, WorkerGivesUp, WorkerDies, WorkerRefused, BackoffEnds
  <2>2. CASE WorkerTakes
    BY <2>1, <2>2 DEF WorkerTakes, Ready, ScopesOf, Fresh
  <2>3. CASE WorkerReturns \/ BackoffEnds
    BY <2>1, <2>3 DEF WorkerReturns, BackoffEnds, NoWorker, Fresh
  <2>4. CASE \/ WorkerStores \/ WorkerCommits \/ WorkerHearsLegacy \/ WorkerRetries
             \/ WorkerGivesUp \/ WorkerDies \/ WorkerRefused
    <3>1. worker.item # {}
      BY <2>4 DEF WorkerStores, WorkerCommits, WorkerHearsLegacy, WorkerRetries,
         WorkerGivesUp, WorkerDies, WorkerRefused, Good, TypeOK, InHand
    <3> QED BY <2>1, <3>1 DEF Fresh
  <2> QED BY <1>3, <2>2, <2>3, <2>4 DEF WorkerNext
<1>4. CASE LifecycleNext
  <2>1. CASE StartsSync
    <3>1. loaded' = loaded /\ (worker' = worker \/ worker'.item = {})
          /\ (loaded \/ queue' = queue)
      BY <2>1, EnsuredWorkerCases DEF StartsSync, ScheduleSaves, IdleWorker
    <3> QED BY <3>1 DEF Fresh
  <2>2. CASE Restarts \/ Reloads
    BY <2>2 DEF Restarts, Reloads, ForgetMemory, NoWorker, Fresh
  <2>3. CASE PressesHistoryButton \/ PreparesShutdown
    BY <2>3 DEF PressesHistoryButton, PreparesShutdown, Fresh
  <2>4. CASE CancelsWorker
    BY <2>4 DEF CancelsWorker, NoWorker, Fresh
  <2>5. CASE Resumes
    <3>1. worker' = worker \/ worker'.item = {}
      BY <2>5, EnsuredWorkerCases DEF Resumes, IdleWorker
    <3> QED BY <2>5, <3>1 DEF Resumes, Fresh
  <2> QED BY <1>4, <2>1, <2>2, <2>3, <2>4, <2>5 DEF LifecycleNext
<1> QED BY <1>1, <1>2, <1>3, <1>4 DEF Next

\* Coverage grows, or the record is new; and each walk reaches its cursor.
Grows(c, n) == \A d \in Directions : c.coverage[d] \subseteq n.coverage[d]
WalkStep == WalksReach(ckpt') /\ (Grows(ckpt, ckpt') \/ ~loaded)

LEMMA WalksUntouched ==
    ASSUME WalksReach(ckpt), ckpt'.walk = ckpt.walk, Grows(ckpt, ckpt')
    PROVE  WalkStep
BY DEF WalksReach, Reaches, Grows, WalkStep

LEMMA UntouchedWalks == ASSUME WalksReach(ckpt), ckpt' = ckpt PROVE WalkStep
BY WalksUntouched DEF Grows

LEMMA SettledWalks == ASSUME WalksReach(ckpt), Settles(ckpt, ckpt') PROVE WalkStep
BY WalksUntouched DEF Grows, Settles

LEMMA PlannedWalks == ASSUME WalksReach(ckpt), SameRest(ckpt, ckpt') PROVE WalkStep
BY WalksUntouched DEF Grows, SameRest

LEMMA StoppedWalks ==
    ASSUME Good, WalksReach(ckpt), NEW d \in Directions, NEW state \in WalkStates \ {"none"},
           ckpt' = StopBackfill(ckpt, d, state)
    PROVE  WalkStep
<1>1. ckpt \in Checkpoints
  BY DEF Good, TypeOK
<1>2. ckpt'.coverage = ckpt.coverage
  BY <1>1 DEF StopBackfill, Checkpoints
<1>3. ASSUME NEW e \in Directions
      PROVE  ckpt'.walk[e].cursor = ckpt.walk[e].cursor
             /\ (ckpt'.walk[e].state # "none" => ckpt.walk[e].state # "none")
  BY <1>1 DEF StopBackfill, Checkpoints, Walks
<1> QED BY <1>2, <1>3 DEF WalksReach, Reaches, Grows, WalkStep

LEMMA AdvancedWalks ==
    ASSUME Good, WalksReach(ckpt), NEW d \in Directions, NEW w \in Windows,
           Reaches(ckpt, d, w.end), NEW empty \in BOOLEAN,
           ckpt' = AdvanceBackfill(ckpt, d, w, empty, HistoryFloor)
    PROVE  WalkStep
<1>1. ckpt \in Checkpoints
  BY DEF Good, TypeOK
<1>2. CASE ckpt.walk[d].state = "none"
  BY <1>2, UntouchedWalks DEF AdvanceBackfill
<1>3. CASE ckpt.walk[d].state # "none"
  <2> DEFINE streak == IF empty THEN ckpt.walk[d].streak + 1 ELSE 0
             finished == streak >= EmptyLimit \/ w.start <= HistoryFloor
             walk == [state |-> IF finished THEN "complete" ELSE "running",
                      cursor |-> w.start, streak |-> streak]
  <2>1. walk.cursor = w.start /\ ckpt' = [Cover(ckpt, d, w) EXCEPT !.walk[d] = walk]
    BY <1>3 DEF AdvanceBackfill
  <2> HIDE DEF walk
  <2>2. /\ ckpt'.coverage = [ckpt.coverage EXCEPT ![d] = @ \cup Ticks(w)]
        /\ ckpt'.walk = [ckpt.walk EXCEPT ![d] = walk]
    BY <1>1, <2>1 DEF Cover, Checkpoints
  <2>3. ckpt'.coverage[d] = ckpt.coverage[d] \cup Ticks(w) /\ ckpt'.walk[d] = walk
        /\ \A e \in Directions \ {d} : /\ ckpt'.coverage[e] = ckpt.coverage[e]
                                       /\ ckpt'.walk[e] = ckpt.walk[e]
    BY <1>1, <2>2 DEF Checkpoints
  <2>4. InitialFloor(StartTime) \in Int /\ w.start \in Int /\ w.end \in Int
    BY CalendarType, SyncAssumption DEF Windows
  <2>5. Reaches(ckpt', d, w.start)
    BY <2>3, <2>4 DEF Reaches, Ticks
  <2>6. Grows(ckpt, ckpt')
    BY <2>3 DEF Grows
  <2>7. WalksReach(ckpt')
    BY <2>1, <2>3, <2>5 DEF WalksReach, Reaches
  <2> QED BY <2>6, <2>7 DEF WalkStep
<1> QED BY <1>2, <1>3

LEMMA PressedWalks ==
    ASSUME Good, WalksInv, PressesHistoryButton PROVE WalkStep
<1> DEFINE floor == InitialFloor(now)
<1>1. ckpt \in Checkpoints /\ floor \in Int /\ now \in Int /\ StartTime \in Int
      /\ InitialFloor(StartTime) \in Int
  BY CalendarType, SyncAssumption DEF Good, TypeOK
<1>2. floor >= InitialFloor(StartTime)
  <2>1. MonthOf(StartTime) <= MonthOf(now) /\ MonthOf(StartTime) \in Int /\ MonthOf(now) \in Int
    BY <1>1, CalendarType, PlanAssumption, DivisionIsMonotone DEF MonthOf, WalksInv
  <2>2. \A m, n \in Int, q \in Nat : m <= n => m * q <= n * q
    OBVIOUS
  <2>3. MonthOf(StartTime) * MonthLength <= MonthOf(now) * MonthLength
    BY <2>1, <2>2, PlanAssumption
  <2>4. MonthOf(StartTime) * MonthLength \in Int /\ MonthOf(now) * MonthLength \in Int
    BY <2>1, PlanAssumption
  <2> QED BY <2>3, <2>4, PlanAssumption DEF InitialFloor, LocalMonthStart
<1> HIDE DEF floor
<1>3. PICK legacy \in SUBSET Directions :
        LET wanted == {d \in queryable : ckpt.walk[d].state # "running"}
            begun(d) == StartBackfill(ckpt, d, floor)
        IN  ckpt' = [ckpt EXCEPT !.walk =
                [d \in Directions |->
                    IF d \in wanted \cap legacy
                    THEN StopBackfill(begun(d), d, "unsupported").walk[d]
                    ELSE IF d \in wanted THEN begun(d).walk[d] ELSE ckpt.walk[d]]]
  BY DEF PressesHistoryButton, floor
<1>4. ASSUME NEW d \in Directions
      PROVE  /\ StartBackfill(ckpt, d, floor).walk[d].cursor =
                   IF ckpt.walk[d].state = "none" THEN floor ELSE ckpt.walk[d].cursor
             /\ StopBackfill(StartBackfill(ckpt, d, floor), d, "unsupported").walk[d].cursor =
                   StartBackfill(ckpt, d, floor).walk[d].cursor
  BY <1>1 DEF StartBackfill, StopBackfill, Checkpoints, Walks
<1>5. ckpt'.coverage = ckpt.coverage
      /\ \A d \in Directions :
            \/ ckpt'.walk[d] = ckpt.walk[d]
            \/ ckpt'.walk[d].cursor = IF ckpt.walk[d].state = "none"
                                      THEN floor ELSE ckpt.walk[d].cursor
  BY <1>1, <1>3, <1>4 DEF Checkpoints
<1>6. \A d \in Directions : Reaches(ckpt, d, floor)
  BY <1>1, <1>2 DEF Reaches
<1>7. WalksReach(ckpt)
  BY DEF WalksInv
<1> QED BY <1>5, <1>6, <1>7 DEF WalksReach, Reaches, Grows, WalkStep

LEMMA NextWalks == ASSUME Good, PlansMeet(ckpt), WalksInv, Next PROVE WalkStep
<1>1. ckpt \in Checkpoints /\ now \in Int /\ poll.now \in Int /\ TypeOK /\ WalksReach(ckpt)
  BY DEF Good, TypeOK, WalksInv
<1>2. \A t \in Int : SameRest(ckpt, RollMonthPair(ckpt, t)) /\ SameRest(ckpt, Planned(t))
  BY <1>1, RollingMeets, PlanningMeets
<1>3. CASE Tick
  BY <1>1, <1>3, UntouchedWalks DEF Tick
<1>4. CASE PollNext
  <2>1. CASE PollLoads
    <3>1. \/ ckpt' = ckpt \/ ckpt' = RollMonthPair(ckpt, poll.now)
          \/ ckpt' = Empty(poll.now) /\ ~loaded
      BY <2>1 DEF PollLoads
    <3>2. WalksReach(Empty(poll.now))
      BY DEF WalksReach, Empty, NoWalk
    <3> QED BY <1>1, <1>2, <3>1, <3>2, UntouchedWalks, PlannedWalks DEF WalkStep
  <2>2. CASE PollEnds
    <3>1. ckpt' = ckpt \/ ckpt' = Planned(poll.now)
      BY <2>2 DEF PollEnds, ScheduleSaves
    <3> QED BY <1>1, <1>2, <3>1, UntouchedWalks, PlannedWalks
  <2>3. CASE PollDiscovers
    <3>1. ckpt' = ckpt \/ ckpt' = ClearFailures(ckpt, Directions)
      BY <2>3 DEF PollDiscovers, Forgiven
    <3> QED BY <1>1, <3>1, ForgivingSettles, UntouchedWalks, SettledWalks
  <2>4. CASE PollBegins \/ PollInterrupted \/ PollAborts \/ PollScheduleFails
             \/ \E d \in Directions : PollReads(d) \/ PollRefused(d)
    BY <1>1, <2>4, UntouchedWalks
    DEF PollBegins, PollInterrupted, PollAborts, PollScheduleFails, PollReads, PollRefused
  <2> QED BY <1>4, <2>1, <2>2, <2>3, <2>4 DEF PollNext
<1>5. CASE WorkerNext
  <2>1. CASE WorkerCommits
    <3>1. PICK i \in worker.item : CommitsPlanned(i) \/ CommitsRefill(i) \/ CommitsWalk(i)
      BY <2>1 DEF WorkerCommits
    <3>2. i.scope.direction \in Directions /\ i.scope.window \in Windows
      BY ItemsInHand
    <3>3. CASE CommitsPlanned(i)
      BY <1>1, <3>2, <3>3, SettlingOperations, SettledWalks DEF CommitsPlanned
    <3>4. CASE CommitsRefill(i)
      <4>1. ckpt'.walk = ckpt.walk /\ ckpt'.coverage = ckpt.coverage
        BY <1>1, <3>4 DEF CommitsRefill, RecordGapAttempt, Checkpoints
      <4> QED BY <1>1, <4>1, WalksUntouched DEF Grows
    <3>5. CASE CommitsWalk(i)
      <4>1. i.scope \in Hand(HistoryBackfill)
        BY <3>5 DEF CommitsWalk, IsBackfill, Hand
      <4>2. Reaches(ckpt, i.scope.direction, i.scope.window.end)
        BY <4>1 DEF WalksInv
      <4> QED BY <1>1, <3>2, <3>5, <4>2, AdvancedWalks DEF CommitsWalk
    <3> QED BY <3>1, <3>3, <3>4, <3>5
  <2>2. CASE WorkerHearsLegacy
    <3>1. PICK i \in worker.item :
            ckpt' = ckpt \/ ckpt' = StopBackfill(ckpt, i.scope.direction, "unsupported")
      BY <2>2 DEF WorkerHearsLegacy
    <3> QED BY <1>1, <3>1, ItemsInHand, UntouchedWalks, StoppedWalks DEF WalkStates
  <2>3. CASE WorkerGivesUp
    <3>1. PICK i \in worker.item :
            \/ ckpt' = ckpt \/ ckpt' = StopBackfill(ckpt, i.scope.direction, "failed")
            \/ ckpt' = MarkFailed(ckpt, i.scope.direction, i.scope.window, i.obligations)
      BY <2>3 DEF WorkerGivesUp
    <3>2. i.scope.direction \in Directions /\ i.scope.window \in Windows
      BY ItemsInHand
    <3>3. Settles(ckpt, MarkFailed(ckpt, i.scope.direction, i.scope.window, i.obligations))
      BY <1>1, <3>2, SettlingOperations
    <3> QED BY <1>1, <3>1, <3>2, <3>3, UntouchedWalks, SettledWalks, StoppedWalks DEF WalkStates
  <2>4. CASE \/ WorkerTakes \/ WorkerReturns \/ WorkerStores \/ WorkerRetries \/ WorkerDies
             \/ WorkerRefused \/ BackoffEnds
    BY <1>1, <2>4, UntouchedWalks DEF WorkerTakes, WorkerReturns, WorkerStores, WorkerRetries,
       WorkerDies, WorkerRefused, BackoffEnds
  <2> QED BY <1>5, <2>1, <2>2, <2>3, <2>4 DEF WorkerNext
<1>6. CASE LifecycleNext
  <2>1. CASE StartsSync
    <3>1. ckpt' = ckpt \/ ckpt' = Planned(now)
      BY <2>1 DEF StartsSync, ScheduleSaves
    <3> QED BY <1>1, <1>2, <3>1, UntouchedWalks, PlannedWalks
  <2>2. CASE PressesHistoryButton
    BY <2>2, PressedWalks
  <2>3. CASE Restarts \/ PreparesShutdown \/ CancelsWorker \/ Resumes \/ Reloads
    BY <1>1, <2>3, UntouchedWalks
    DEF Restarts, PreparesShutdown, CancelsWorker, Resumes, Reloads
  <2> QED BY <1>6, <2>1, <2>2, <2>3 DEF LifecycleNext
<1> QED BY <1>3, <1>4, <1>5, <1>6 DEF Next

LEMMA NextWalksInv == ASSUME Good, PlansMeet(ckpt), WalksInv, Next, TypeOK' PROVE WalksInv'
<1>1. WalkStep /\ Fresh' /\ WorkStep(HistoryBackfill, Walked(ckpt'))
  BY NextWalks, StaysFresh, NextWork DEF WalksInv, Work
<1>2. now' >= StartTime
  <2>1. now \in Int /\ now' \in Int /\ StartTime \in Int /\ now >= StartTime
    BY SyncAssumption DEF Good, TypeOK, WalksInv
  <2>2. now' >= now
    BY <2>1, NextAsks DEF GapStep, Recorded
  <2> QED BY <2>1, <2>2
<1>3. \A s \in Queued(HistoryBackfill) \cup Hand(HistoryBackfill) :
         s.direction \in Directions /\ Reaches(ckpt, s.direction, s.window.end) /\ loaded
  BY DEF WalksInv, Fresh, Queued, Hand, ScopesOf, Good, TypeOK, Entries, Items, Scopes
<1>4. \A s \in Queued(HistoryBackfill) \cup Hand(HistoryBackfill) :
         Reaches(ckpt', s.direction, s.window.end)
  BY <1>1, <1>3 DEF WalkStep, Grows, Reaches
<1>5. ASSUME NEW s \in Walked(ckpt') PROVE Reaches(ckpt', s.direction, s.window.end)
  <2>1. PICK d \in Directions : /\ ckpt'.walk[d].state = "running"
                                /\ s = Scope(d, BackfillWindow(ckpt'.walk[d].cursor))
    BY DEF Walked, WalkEntries, ScopesOf, EntryFor
  <2>2. s.direction = d /\ s.window.end = ckpt'.walk[d].cursor
    BY <2>1 DEF Scope, BackfillWindow
  <2> QED BY <1>1, <2>1, <2>2 DEF WalkStep, WalksReach
<1>6. Queued(HistoryBackfill)' \cup Hand(HistoryBackfill)'
        \subseteq Queued(HistoryBackfill) \cup Hand(HistoryBackfill) \cup Walked(ckpt')
  BY <1>1 DEF WorkStep
<1>7. \A s \in Queued(HistoryBackfill)' \cup Hand(HistoryBackfill)' :
         Reaches(ckpt', s.direction, s.window.end)
  BY <1>4, <1>5, <1>6
<1> QED BY <1>1, <1>2, <1>7 DEF WalksInv, WalkStep

-----------------------------------------------------------------------------
(* The work invariant.                                                     *)
WorkInv == PlansMeet(ckpt) /\ RefillsEnd /\ WalksInv

LEMMA InitWork == Init => WorkInv
<1> SUFFICES ASSUME Init PROVE WorkInv
  OBVIOUS
<1>1. PlansMeet(ckpt)
  BY EmptyPlansMeet, SyncAssumption DEF Init
<1>2. RefillsEnd
  BY DEF Init, RefillsEnd, Empty
<1>3. WalksInv
  BY SyncAssumption
  DEF Init, WalksInv, Fresh, WalksReach, Empty, NoWalk, NoWorker, Queued, Hand, ScopesOf
<1> QED BY <1>1, <1>2, <1>3 DEF WorkInv

LEMMA StutteringWork == ASSUME WorkInv, UNCHANGED vars PROVE WorkInv'
<1>1. Queued(GapRefill)' = Queued(GapRefill) /\ Hand(GapRefill)' = Hand(GapRefill)
      /\ Queued(HistoryBackfill)' = Queued(HistoryBackfill)
      /\ Hand(HistoryBackfill)' = Hand(HistoryBackfill)
  BY DEF vars, Queued, Hand
<1> QED BY <1>1 DEF vars, WorkInv, RefillsEnd, Spent, WalksInv, Fresh

LEMMA NextWorkInv == ASSUME Good, WorkInv, Next PROVE WorkInv'
<1>1. TypeOK'
  BY NextKeeps DEF Kept
<1>2. PlansMeet(ckpt')
  BY NextPlans, PlanStepMeets DEF WorkInv
<1>3. RefillsEnd'
  BY <1>1, NextRefills DEF WorkInv, TypeOK
<1>4. WalksInv'
  BY <1>1, NextWalksInv DEF WorkInv
<1> QED BY <1>2, <1>3, <1>4 DEF WorkInv

\* The plans, the refills and the walks keep their invariant together.
THEOREM WorkHolds == Spec => []WorkInv
<1>1. SyncInv /\ WorkInv /\ [Next]_vars => WorkInv'
  BY NextWorkInv, StutteringWork, SyncInvParts DEF Good
<1> QED BY <1>1, InitWork, SyncInvHolds, PTL DEF Spec

\* Whatever is rolled, superseded, forgotten or planned anew, one daily plan
\* stands at most, and the initial plans are the recorded pair's and meet.
THEOREM PlansStayCurrent == Spec => []PlansAreCurrent
<1>1. SyncInv /\ WorkInv => PlansAreCurrent
  BY DEF SyncInv, LatestIsUnique, WorkInv, PlansMeet, PlansAreCurrent
<1> QED BY <1>1, WorkHolds, SyncInvHolds, PTL

\* However scans, requests, retries and restarts interleave, a silent window
\* is asked for once more than the limit at most.
THEOREM RefillsOverrunOnce == Spec => []RefillOverrunsOnce
<1>1. WorkInv => RefillOverrunsOnce
  BY DEF WorkInv, RefillsEnd, RefillOverrunsOnce
<1> QED BY <1>1, WorkHolds, PTL

\* No restart, refusal, fresh press or stale window of a walk leaves a gap
\* between what it has covered and what the cadence covers.
THEOREM WalksLeaveNoGap == Spec => []WalkLeavesNoGap
<1>1. WorkInv => WalkLeavesNoGap
  BY DEF WorkInv, WalksInv, WalksReach, Reaches, WalkLeavesNoGap
<1> QED BY <1>1, WorkHolds, PTL
=============================================================================
