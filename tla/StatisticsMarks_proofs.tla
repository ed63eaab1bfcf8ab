----------------------- MODULE StatisticsMarks_proofs -----------------------
(***************************************************************************)
(* What is proved of the statistics: the types, that a pass over           *)
(* everything repairs whatever was wrong, and that the marks are enough:   *)
(* what passes resumed from remembered totals have published is what one   *)
(* pass over the whole ledger would publish.                               *)
(*                                                                         *)
(* The calendar and the sums come first, then what one pass publishes and  *)
(* remembers, then the steps.                                              *)
(***************************************************************************)
EXTENDS StatisticsMarks, Sums_proofs

-----------------------------------------------------------------------------
(* The calendar.  A period and a partition are multiples of a length.      *)
LEMMA Remainder ==
    ASSUME NEW x \in Int, NEW P \in Nat \ {0}
    PROVE  x % P \in 0 .. (P - 1) /\ x % P = x - P * (x \div P) /\ x \div P \in Int
<1>1. x % P \in 0 .. (P - 1)
  OBVIOUS
<1>2. x % P = x - P * (x \div P)
  OBVIOUS
<1> QED BY <1>1, <1>2

\* Two multiples of P that differ are at least P apart.
LEMMA MultiplesKeepApart ==
    ASSUME NEW j \in Int, NEW k \in Int, NEW P \in Nat \ {0}, P * j < P * k + P
    PROVE  P * j <= P * k
<1>1. CASE j <= k
  BY <1>1
<1>2. CASE j >= k + 1
  <2>1. PICK e \in Nat : j = k + 1 + e
    BY <1>2
  <2>2. P * j = P * k + P + P * e /\ P * e >= 0
    BY <2>1
  <2> QED BY <2>2
<1> QED BY <1>1, <1>2

\* Nothing starts between the start of what holds x and x.
LEMMA LatestStart ==
    ASSUME NEW x \in Int, NEW y \in Int, NEW P \in Nat \ {0}, y - (y % P) <= x
    PROVE  y - (y % P) <= x - (x % P)
<1>1. x % P \in 0 .. (P - 1) /\ x % P = x - P * (x \div P) /\ x \div P \in Int
  BY Remainder
<1>2. y % P \in 0 .. (P - 1) /\ y % P = y - P * (y \div P) /\ y \div P \in Int
  BY Remainder
<1> DEFINE j == y \div P
<1> DEFINE k == x \div P
<1>3. P * j \in Int /\ P * k \in Int /\ y - (y % P) = P * j /\ x - (x % P) = P * k
   BY <1>1, <1>2
<1>4. P * j < P * k + P
  BY <1>1, <1>2, <1>3
<1>5. P * j <= P * k
  BY <1>1, <1>2, <1>4, MultiplesKeepApart
<1> QED BY <1>3, <1>5

\* The period start of an hour is the latest multiple of the length up to it.
LEMMA PeriodStarts ==
    ASSUME NEW c \in Int, NEW x \in Int
    PROVE  /\ PeriodStart(c, x) \in Int /\ PeriodStart(c, x) <= x
           /\ \A y \in Int : PeriodStart(c, y) <= x => PeriodStart(c, y) <= PeriodStart(c, x)
<1>1. (x - c) % PeriodLength \in 0 .. (PeriodLength - 1)
  BY Remainder, ProjectorAssumption
<1>2. ASSUME NEW y \in Int, PeriodStart(c, y) <= x
      PROVE  PeriodStart(c, y) <= PeriodStart(c, x)
  <2> DEFINE u == x - c
  <2> DEFINE v == y - c
  <2>1. v % PeriodLength \in Int /\ u \in Int /\ v \in Int
    BY Remainder, ProjectorAssumption
  <2>2. v - (v % PeriodLength) <= u
    BY <1>2, <2>1 DEF PeriodStart
  <2>3. v - (v % PeriodLength) <= u - (u % PeriodLength)
    BY <2>1, <2>2, LatestStart, ProjectorAssumption
  <2> QED BY <1>1, <2>1, <2>3 DEF PeriodStart
<1> QED BY <1>1, <1>2, ProjectorAssumption DEF PeriodStart

\* A period start is a whole number no later than its hour.
LEMMA PeriodStartType ==
    ASSUME NEW c \in Int, NEW x \in Int
    PROVE  PeriodStart(c, x) \in Int
BY PeriodStarts

\* A partition starts with the window its hour is in.
LEMMA PartitionStarts ==
    ASSUME NEW x \in Nat
    PROVE  /\ PartitionStart(x) \in Nat /\ PartitionStart(x) <= x
           /\ \A y \in Nat : y <= x => PartitionStart(y) <= PartitionStart(x)
<1>1. ASSUME NEW z \in Nat
      PROVE  /\ z % PartitionLength \in 0 .. (PartitionLength - 1)
             /\ z % PartitionLength = z - PartitionLength * (z \div PartitionLength)
             /\ z \div PartitionLength \in Int
  <2>1. z \in Int /\ PartitionLength \in Nat \ {0}
    BY ProjectorAssumption
  <2> QED BY <2>1, Remainder
<1>2. \A z \in Nat : z % PartitionLength <= z
  <2> TAKE z \in Nat
  <2>1. z \div PartitionLength >= 0
    BY ProjectorAssumption
  <2>2. PartitionLength * (z \div PartitionLength) >= 0
    BY <1>1, <2>1, ProjectorAssumption
  <2> QED BY <1>1, <2>2, ProjectorAssumption
<1>3. ASSUME NEW y \in Nat, y <= x
      PROVE  PartitionStart(y) <= PartitionStart(x)
  <2>1. y - (y % PartitionLength) <= x
    BY <1>1, <1>3, ProjectorAssumption
  <2> QED BY <2>1, LatestStart, ProjectorAssumption DEF PartitionStart
<1> QED BY <1>1, <1>2, <1>3, ProjectorAssumption DEF PartitionStart

-----------------------------------------------------------------------------
(* The sums of a pass.                                                     *)
IsReadings(r) == r \in [Hours -> Energies \cup {NoReading}]
Span(r, from, before) == {h \in HoursRead(r) : from <= h /\ h < before}

\* The hours read are finitely many natural numbers.
LEMMA HoursAreFinite ==
    ASSUME NEW r, IsReadings(r)
    PROVE  /\ HoursRead(r) \subseteq Hours /\ IsFiniteSet(HoursRead(r))
           /\ \A h \in HoursRead(r) : h \in Nat /\ h <= LastHour /\ r[h] \in Nat \ {0}
<1>1. IsFiniteSet(Hours)
  BY FS_Interval, ProjectorAssumption DEF Hours
<1>2. HoursRead(r) \subseteq Hours
  BY DEF HoursRead
<1>3. IsFiniteSet(HoursRead(r))
  BY <1>1, <1>2, FS_Subset
<1>4. \A h \in Hours : h \in Nat /\ h <= LastHour
  BY ProjectorAssumption DEF Hours
<1>6. \A h \in Hours : r[h] \in Energies \cup {0}
  BY DEF IsReadings, NoReading
<1>7. Energies \subseteq Nat
  BY ProjectorAssumption
<1>5. \A h \in HoursRead(r) : r[h] # 0
  BY DEF HoursRead, NoReading
<1> QED BY <1>2, <1>3, <1>4, <1>5, <1>6, <1>7

\* So are those of them between two hours.
LEMMA SpansAreFinite ==
    ASSUME NEW r, IsReadings(r), NEW a \in Int, NEW b \in Int
    PROVE  IsFiniteSet(Span(r, a, b)) /\ \A h \in Span(r, a, b) : h \in Hours /\ h \in Nat /\ r[h] \in Nat
<1>1. Span(r, a, b) \subseteq HoursRead(r)
  BY DEF Span
<1> QED BY <1>1, HoursAreFinite, FS_Subset

\* The energy between two hours is the sum of the readings there.
LEMMA EnergyType ==
    ASSUME NEW r, IsReadings(r), NEW a \in Int, NEW b \in Int
    PROVE  EnergyIn(r, a, b) \in Nat /\ EnergyIn(r, a, b) = SumOver(r, Span(r, a, b))
<1>1. EnergyIn(r, a, b) = SumOver(r, Span(r, a, b))
  BY DEF EnergyIn, SumOver, Span
<1>2. IsFiniteSet(Span(r, a, b)) /\ \A h \in Span(r, a, b) : r[h] \in Nat
  BY SpansAreFinite
<1>3. SumOver(r, Span(r, a, b)) \in Nat
  BY <1>2, SumType
<1> QED BY <1>1, <1>3

\* Energy adds up over two spans that meet.
LEMMA EnergySplits ==
    ASSUME NEW r, IsReadings(r), NEW a \in Int, NEW b \in Int, NEW c \in Int, a <= b, b <= c
    PROVE  EnergyIn(r, a, c) = EnergyIn(r, a, b) + EnergyIn(r, b, c)
<1> DEFINE s == Span(r, a, b)
<1> DEFINE u == Span(r, b, c)
<1>1. IsFiniteSet(s) /\ IsFiniteSet(u) /\ \A h \in s \cup u : r[h] \in Int
  <2>1. IsFiniteSet(s) /\ \A h \in s : r[h] \in Nat
    BY SpansAreFinite
  <2>2. IsFiniteSet(u) /\ \A h \in u : r[h] \in Nat
    BY SpansAreFinite
  <2> QED BY <2>1, <2>2
<1>2. s \cap u = {} /\ Span(r, a, c) = s \cup u
  <2>1. HoursRead(r) \subseteq Int
    BY HoursAreFinite
  <2> QED BY <2>1 DEF Span
<1> HIDE DEF s, u
<1>3. SumOver(r, s \cup u) = SumOver(r, s) + SumOver(r, u)
  BY <1>1, <1>2, SumOfUnion
<1> QED BY <1>2, <1>3, EnergyType DEF s, u

\* A total depends on the readings it is the total of.
LEMMA SameEnergy ==
    ASSUME NEW r, NEW q, IsReadings(r), IsReadings(q), NEW a \in Int, NEW b \in Int, 
           \A h \in Hours : h < b => r[h] = q[h]
    PROVE  EnergyIn(r, a, b) = EnergyIn(q, a, b)
<1>1. Span(r, a, b) = Span(q, a, b)
  BY HoursAreFinite DEF Span, HoursRead, Hours
<1>2. IsFiniteSet(Span(r, a, b)) /\ \A h \in Span(r, a, b) : r[h] = q[h]
  BY SpansAreFinite DEF Span
<1>3. SumOver(r, Span(r, a, b)) = SumOver(q, Span(r, a, b))
  BY <1>2, SameSum
<1> QED BY <1>1, <1>3, EnergyType

\* Nothing is added up where nothing was read.
LEMMA NothingBefore ==
    ASSUME NEW r, IsReadings(r), NEW a \in Int, NEW b \in Int, NEW c \in Int,
           \A h \in HoursRead(r) : h >= a /\ h >= b
    PROVE  EnergyIn(r, a, c) = EnergyIn(r, b, c)
<1>1. Span(r, a, c) = Span(r, b, c)
  BY HoursAreFinite DEF Span
<1> QED BY <1>1, EnergyType

-----------------------------------------------------------------------------
(* The costs of a pass.                                                    *)

\* Where a pass may start so that its costs are those of a whole pass: at the
\* start of a period, or before everything that was read.
MayStart(r, t, s) ==
    \/ \E x \in Int : s = PeriodStart(t.calendar, x)
    \/ \A h \in HoursRead(r) : s <= h

\* A tariff has a price and a calendar, and some may not be priceable.
LEMMA TariffType ==
    ASSUME NEW t \in Tariffs
    PROVE  t.price \in Nat /\ t.calendar \in Int
<1>1. t.price \in Prices \cup {0} /\ t.calendar \in Calendars
  BY DEF Tariffs
<1>2. \A p \in Prices \cup {0} : p \in Nat
  BY ProjectorAssumption
<1>3. Calendars \subseteq Int
  BY ProjectorAssumption DEF Calendars
<1>4. t.price \in Nat
  BY <1>1, <1>2
<1>5. t.calendar \in Int
  BY <1>1, <1>3
<1> QED BY <1>4, <1>5

\* The period of an hour, in the calendar of a tariff.
LEMMA PeriodOfTariff ==
    ASSUME NEW t \in Tariffs, NEW x \in Int
    PROVE  PeriodStart(t.calendar, x) \in Int /\ PeriodStart(t.calendar, x) <= x
<1>1. t.calendar \in Int
  BY TariffType
<1> QED BY <1>1, PeriodStarts

\* The first hour a cost looks back to.
LooksBackTo(t, s, h) ==
    IF PeriodStart(t.calendar, h) < s THEN s ELSE PeriodStart(t.calendar, h)

\* The hours a band looks back to are before the hour priced.
LEMMA LooksBackType ==
    ASSUME NEW t \in Tariffs, NEW s \in Int, NEW h \in Int
    PROVE  LooksBackTo(t, s, h) \in Int
<1>1. t.calendar \in Int
  BY TariffType
<1>2. PeriodStart(t.calendar, h) \in Int
  BY <1>1, PeriodStarts
<1> QED BY <1>2 DEF LooksBackTo

\* What one hour costs, with the branches the code takes.
LEMMA CostAtIs ==
    ASSUME NEW r, NEW t, NEW s, NEW h
    PROVE  CostAt(r, t, s, h) =
             t.price * r[h] + Beyond(EnergyIn(r, LooksBackTo(t, s, h), h) + r[h])
                - Beyond(EnergyIn(r, LooksBackTo(t, s, h), h))
BY DEF CostAt, LooksBackTo

\* An hour costs a whole amount.
LEMMA CostAtType ==
    ASSUME NEW r, IsReadings(r), NEW t \in Tariffs, NEW s \in Int, NEW h \in HoursRead(r)
    PROVE  CostAt(r, t, s, h) \in Int
<1> DEFINE from == LooksBackTo(t, s, h)
<1>1. h \in Int /\ r[h] \in Nat /\ t.price \in Nat /\ from \in Int
  <2>1. h \in Int /\ r[h] \in Nat
    BY HoursAreFinite
  <2>2. t.price \in Nat /\ from \in Int
    BY <2>1, TariffType, LooksBackType
  <2> QED BY <2>1, <2>2
<1> HIDE DEF from
<1>2. EnergyIn(r, from, h) \in Nat
  BY <1>1, EnergyType
<1>3. \A n \in Nat : Beyond(n) \in Int
  BY ProjectorAssumption DEF Beyond
<1>4. t.price * r[h] \in Int /\ Beyond(EnergyIn(r, from, h) + r[h]) \in Int
      /\ Beyond(EnergyIn(r, from, h)) \in Int
  BY <1>1, <1>2, <1>3
<1>5. t.price * r[h] + Beyond(EnergyIn(r, from, h) + r[h]) - Beyond(EnergyIn(r, from, h)) \in Int
  BY <1>4
<1> QED BY <1>5, CostAtIs DEF from

\* An hour costs the same from any start that begins its period.
LEMMA SameCost ==
    ASSUME NEW r, IsReadings(r), NEW t \in Tariffs, NEW s \in Nat, MayStart(r, t, s),
           NEW h \in HoursRead(r), s <= h
    PROVE  CostAt(r, t, s, h) = CostAt(r, t, 0, h)
<1> DEFINE from == LooksBackTo(t, s, h)
<1> DEFINE whole == LooksBackTo(t, 0, h)
<1>1. h \in Int /\ t.calendar \in Int /\ PeriodStart(t.calendar, h) \in Int
  <2>1. h \in Int /\ t.calendar \in Int
    BY HoursAreFinite, TariffType
  <2> QED BY <2>1, PeriodStarts
<1>2. EnergyIn(r, from, h) = EnergyIn(r, whole, h)
  <2>1. CASE \E x \in Int : s = PeriodStart(t.calendar, x)
    <3>1. s <= PeriodStart(t.calendar, h)
      BY <1>1, <2>1, PeriodStarts
    <3>2. from = whole
      BY <1>1, <3>1 DEF LooksBackTo
    <3> QED BY <3>2
  <2>2. CASE \A k \in HoursRead(r) : s <= k
    <3>1. CASE PeriodStart(t.calendar, h) < s
      <4>1. from \in Int /\ whole \in Int /\ from <= s /\ whole <= s
        BY <1>1, <3>1 DEF LooksBackTo
      <4>2. \A k \in HoursRead(r) : k >= from /\ k >= whole
        BY <2>2, <4>1, HoursAreFinite
      <4> HIDE DEF from, whole
      <4> QED BY <1>1, <4>1, <4>2, NothingBefore
    <3>2. CASE ~(PeriodStart(t.calendar, h) < s)
      BY <1>1, <3>2 DEF LooksBackTo
    <3> QED BY <3>1, <3>2
  <2> QED BY <2>1, <2>2 DEF MayStart
<1> QED BY <1>2, CostAtIs

Costs(r, t) == [h \in Hours |-> CostAt(r, t, 0, h)]

\* The cost between two hours is the sum of what each of them costs.
LEMMA CostIsSum ==
    ASSUME NEW r, IsReadings(r), NEW t \in Tariffs, NEW s \in Nat, MayStart(r, t, s), NEW b \in Int
    PROVE  /\ CostIn(r, t, s, b) = SumOver(Costs(r, t), Span(r, s, b))
           /\ CostIn(r, t, s, b) \in Int
<1> DEFINE hours == Span(r, s, b)
<1> DEFINE f == [h \in hours |-> CostAt(r, t, s, h)]
<1> DEFINE g == Costs(r, t)
<1>1. IsFiniteSet(hours) /\ \A h \in hours : h \in HoursRead(r) /\ h \in Hours /\ s <= h
  BY SpansAreFinite DEF Span
<1>2. \A h \in hours : CostAt(r, t, s, h) = CostAt(r, t, 0, h) /\ CostAt(r, t, s, h) \in Int
  BY <1>1, SameCost, CostAtType
<1>3. CostIn(r, t, s, b) = SumOver(f, hours)
  BY DEF CostIn, SumOver, SumFunction, Span
<1>4. \A h \in hours : f[h] = g[h] /\ f[h] \in Int
  BY <1>1, <1>2 DEF Costs
<1> HIDE DEF hours, f, g
<1>5. SumOver(f, hours) = SumOver(g, hours)
  BY <1>1, <1>4, SameSum
<1>6. SumOver(f, hours) \in Int
  BY <1>1, <1>4, SumType
<1> QED BY <1>3, <1>5, <1>6 DEF g, hours

\* A pass may always start at 0.
LEMMA ZeroMayStart ==
    ASSUME NEW r, IsReadings(r), NEW t
    PROVE  MayStart(r, t, 0)
BY HoursAreFinite DEF MayStart

\* Cost adds up over two spans that meet where a pass may start.
LEMMA CostSplits ==
    ASSUME NEW r, IsReadings(r), NEW t \in Tariffs, NEW s \in Nat, MayStart(r, t, s),
           NEW b \in Int, s <= b
    PROVE  CostIn(r, t, 0, b) = CostIn(r, t, 0, s) + CostIn(r, t, s, b)
<1> DEFINE f == Costs(r, t)
<1> DEFINE u == Span(r, 0, s)
<1> DEFINE v == Span(r, s, b)
<1>1. IsFiniteSet(u) /\ IsFiniteSet(v) /\ u \subseteq HoursRead(r) /\ v \subseteq HoursRead(r)
  <2>1. IsFiniteSet(u) /\ IsFiniteSet(v)
    BY SpansAreFinite
  <2> QED BY <2>1 DEF Span
<1>2. u \cap v = {} /\ Span(r, 0, b) = u \cup v
  <2>1. HoursRead(r) \subseteq Int
    BY HoursAreFinite
  <2> QED BY <2>1 DEF Span
<1>3. \A h \in HoursRead(r) : f[h] \in Int
  BY HoursAreFinite, CostAtType DEF Costs
<1>4. CostIn(r, t, 0, b) = SumOver(f, Span(r, 0, b)) /\ CostIn(r, t, 0, s) = SumOver(f, u)
  <2>1. MayStart(r, t, 0) /\ 0 \in Nat
    BY ZeroMayStart
  <2> QED BY <2>1, CostIsSum
<1>5. CostIn(r, t, s, b) = SumOver(f, v)
  BY CostIsSum
<1> HIDE DEF f, u, v
<1>6. SumOver(f, u \cup v) = SumOver(f, u) + SumOver(f, v)
  <2>1. \A h \in u \cup v : f[h] \in Int
    BY <1>1, <1>3
  <2> QED BY <1>1, <1>2, <2>1, SumOfUnion
<1> QED BY <1>2, <1>4, <1>5, <1>6

\* Cost depends on the readings of the span and of the period it starts in.
LEMMA SameCosts ==
    ASSUME NEW r, NEW q, IsReadings(r), IsReadings(q), NEW t \in Tariffs, NEW b \in Int,
           \A h \in Hours : h < b => r[h] = q[h]
    PROVE  /\ CostIn(r, t, 0, b) = CostIn(q, t, 0, b)
           /\ \A h \in HoursRead(r) : h < b => CostAt(r, t, 0, h) = CostAt(q, t, 0, h)
<1>1. ASSUME NEW h \in HoursRead(r), h < b
      PROVE  CostAt(r, t, 0, h) = CostAt(q, t, 0, h)
  <2> DEFINE from == LooksBackTo(t, 0, h)
  <2>1. h \in Int /\ h \in Hours
    BY HoursAreFinite
  <2>4. from \in Int
    BY <2>1, LooksBackType
  <2>2. r[h] = q[h] /\ \A k \in Hours : k < h => r[k] = q[k]
    BY <1>1, <2>1 DEF Hours
  <2> HIDE DEF from
  <2>3. EnergyIn(r, from, h) = EnergyIn(q, from, h)
    BY <2>1, <2>2, <2>4, SameEnergy
  <2> QED BY <2>2, <2>3, CostAtIs DEF from
<1> DEFINE hours == Span(r, 0, b)
<1> DEFINE f == Costs(r, t)
<1> DEFINE g == Costs(q, t)
<1>2. Span(q, 0, b) = hours
  BY HoursAreFinite DEF Span, HoursRead, Hours
<1>3. IsFiniteSet(hours) /\ \A h \in hours : h \in HoursRead(r) /\ h \in Hours /\ h < b
  BY SpansAreFinite DEF Span
<1>4. \A h \in hours : f[h] = g[h]
  BY <1>1, <1>3 DEF Costs
<1>5. CostIn(r, t, 0, b) = SumOver(f, hours) /\ CostIn(q, t, 0, b) = SumOver(g, hours)
  <2>1. MayStart(r, t, 0) /\ MayStart(q, t, 0) /\ 0 \in Nat
    BY ZeroMayStart
  <2>2. CostIn(q, t, 0, b) = SumOver(g, Span(q, 0, b))
    BY <2>1, CostIsSum
  <2>3. CostIn(r, t, 0, b) = SumOver(f, hours)
    BY <2>1, CostIsSum
  <2> QED BY <1>2, <2>2, <2>3
<1> HIDE DEF hours, f, g
<1>6. SumOver(f, hours) = SumOver(g, hours)
  BY <1>3, <1>4, SameSum
<1> QED BY <1>1, <1>5, <1>6

-----------------------------------------------------------------------------
(* Where a pass starts, and from which totals.                             *)
LEMMA MinIsLeast ==
    ASSUME NEW S \in SUBSET Nat, S # {}
    PROVE  Min(S) \in S /\ Min(S) \in Nat /\ \A y \in S : Min(S) <= y
<1>1. \E x \in S : \A y \in S : x <= y
  BY LeastNatural
<1>2. Min(S) \in S /\ \A y \in S : Min(S) <= y
  BY <1>1 DEF Min
<1> QED BY <1>2

\* What a ledger holds of a direction is a function of readings.
LEMMA LedgerReadings ==
    ASSUME NEW L \in Ledgers, NEW d \in Directions
    PROVE  IsReadings(L[d])
BY DEF Ledgers, IsReadings

\* Nothing was read before the earliest partition.
LEMMA Earliest ==
    ASSUME NEW L \in Ledgers, HoursKnown(L) # {}
    PROVE  /\ EarliestOf(L) \in Nat
           /\ \A d \in Directions : \A h \in HoursRead(L[d]) : EarliestOf(L) <= h
<1>1. HoursKnown(L) \in SUBSET Nat
  BY LedgerReadings, HoursAreFinite DEF HoursKnown
<1> DEFINE first == Min(HoursKnown(L))
<1>2. first \in Nat /\ \A h \in HoursKnown(L) : first <= h
  BY <1>1, MinIsLeast
<1>3. PartitionStart(first) \in Nat /\ PartitionStart(first) <= first
  BY <1>2, PartitionStarts
<1>4. \A d \in Directions : \A h \in HoursRead(L[d]) : h \in HoursKnown(L) /\ h \in Nat
  BY <1>1 DEF HoursKnown
<1> HIDE DEF first
<1> QED BY <1>2, <1>3, <1>4 DEF EarliestOf, first

StartOf(mem, req, L, t) ==
    IF Resumable(mem, req, L, t) = {} THEN EarliestOf(L) ELSE Min(Resumable(mem, req, L, t))
BaseOf(mem, req, L, t) ==
    IF Resumable(mem, req, L, t) = {} THEN NoTotals ELSE mem.baselines[StartOf(mem, req, L, t)]

\* A mark names one hour, or every hour.
LEMMA RequestType ==
    ASSUME NEW req \in Requests
    PROVE  DirtyFrom(req) = {} \/ \E x \in Nat : DirtyFrom(req) = {x}
<1>1. req.from \in {{}} \cup {{h} : h \in Hours \cup {LastHour + 1}}
  BY DEF Requests
<1>2. \A h \in Hours \cup {LastHour + 1} : h \in Nat
  BY ProjectorAssumption DEF Hours
<1>3. req.from = {} \/ \E x \in Nat : req.from = {x}
  BY <1>1, <1>2
<1> QED BY <1>3 DEF DirtyFrom

\* A pass starts over the whole ledger, or where it may resume.
Resumed(mem, req, L, t, s) ==
    /\ s \in DOMAIN mem.baselines
    /\ BaseOf(mem, req, L, t) = mem.baselines[s]
    /\ mem.inputs = Inputs(t) /\ mem.calendar = {t.calendar}
    /\ \E x \in Nat : DirtyFrom(req) = {x} /\ s = PeriodStart(t.calendar, x)
StartsOver(mem, req, L, t, s) ==
    s = EarliestOf(L) /\ BaseOf(mem, req, L, t) = NoTotals

\* A pass resumes at a remembered boundary or starts over, and loses no dirty hour.
LEMMA PassStart ==
    ASSUME NEW L \in Ledgers, HoursKnown(L) # {}, NEW t \in Tariffs, NEW req \in Requests, NEW mem,
           NEW s, s = StartOf(mem, req, L, t)
    PROVE  /\ s \in Nat /\ EarliestOf(L) <= s
           /\ StartsOver(mem, req, L, t, s) \/ Resumed(mem, req, L, t, s)
           /\ MayStart(L[Import], t, s)
           /\ DirtyFrom(req) = {} => StartsOver(mem, req, L, t, s)
<1> DEFINE resumable == Resumable(mem, req, L, t)
<1>1. EarliestOf(L) \in Nat /\ \A h \in HoursRead(L[Import]) : EarliestOf(L) <= h
  BY Earliest, ProjectorAssumption
<1>2. CASE resumable = {}
  BY <1>1, <1>2 DEF StartOf, BaseOf, StartsOver, MayStart
<1>3. CASE resumable # {}
  <2>1. /\ mem.inputs = Inputs(t) /\ mem.calendar = {t.calendar}
        /\ resumable = {b \in {PeriodStart(t.calendar, h) : h \in DirtyFrom(req)} :
                          b > EarliestOf(L) /\ b \in DOMAIN mem.baselines}
    BY <1>3 DEF Resumable, Repriced
  <2>2. PICK x \in Nat : DirtyFrom(req) = {x}
    BY <2>1, <1>3, RequestType
  <2> DEFINE b == PeriodStart(t.calendar, x)
  <2>3. b > EarliestOf(L) /\ b \in DOMAIN mem.baselines /\ resumable = {b}
    BY <1>3, <2>1, <2>2
  <2>4. b \in Int
    <3>1. t.calendar \in Int
      BY TariffType
    <3>2. x \in Int
      BY <2>2
    <3> QED BY <3>1, <3>2, PeriodStartType
  <2>5. Min({b}) = b
    BY <2>4 DEF Min
  <2>6. s = b /\ BaseOf(mem, req, L, t) = mem.baselines[s]
    BY <1>3, <2>3, <2>5 DEF StartOf, BaseOf
  <2>7. MayStart(L[Import], t, s)
    BY <2>6 DEF MayStart
  <2>8. Resumed(mem, req, L, t, s)
    BY <2>1, <2>2, <2>3, <2>6 DEF Resumed
  <2>9. s \in Nat /\ EarliestOf(L) <= s
    BY <1>1, <2>3, <2>4, <2>6
  <2> QED BY <2>2, <2>7, <2>8, <2>9
<1> QED BY <1>2, <1>3

-----------------------------------------------------------------------------
(* The rows of a pass.                                                     *)
\* Rows that cover everything replace whatever was there.
LEMMA RowsOverNothing ==
    ASSUME NEW r, NEW s, NEW base
    PROVE  Over(From(EnergyRows(r, s, base), {}), <<>>) = EnergyRows(r, s, base)
BY DEF Over, From, EnergyRows

\* A row of energy does not depend on where its pass started.
LEMMA EnergyRow ==
    ASSUME NEW r, IsReadings(r), NEW s \in Nat, NEW h \in HoursRead(r), s <= h
    PROVE  /\ h \in DOMAIN EnergyRows(r, s, EnergyIn(r, 0, s))
           /\ EnergyRows(r, s, EnergyIn(r, 0, s))[h] = EnergyRows(r, 0, 0)[h]
<1>1. h \in Nat
  BY HoursAreFinite
<1>2. EnergyIn(r, 0, h + 1) = EnergyIn(r, 0, s) + EnergyIn(r, s, h + 1)
  BY <1>1, EnergySplits
<1>3. EnergyIn(r, 0, h + 1) \in Nat
  BY <1>1, EnergyType
<1> QED BY <1>1, <1>2, <1>3 DEF EnergyRows

\* Nor does a row of cost.
LEMMA CostRow ==
    ASSUME NEW r, IsReadings(r), NEW t \in Tariffs, NEW s \in Nat, MayStart(r, t, s),
           NEW h \in HoursRead(r), s <= h
    PROVE  /\ h \in DOMAIN CostRows(r, t, s, CostIn(r, t, 0, s))
           /\ CostRows(r, t, s, CostIn(r, t, 0, s))[h] = CostRows(r, t, 0, 0)[h]
<1>1. h \in Nat
  BY HoursAreFinite
<1>2. CostIn(r, t, 0, h + 1) = CostIn(r, t, 0, s) + CostIn(r, t, s, h + 1)
  BY <1>1, CostSplits
<1>3. CostIn(r, t, 0, h + 1) \in Int
  BY <1>1, ZeroMayStart, CostIsSum
<1>4. CostAt(r, t, s, h) = CostAt(r, t, 0, h)
  BY SameCost
<1> QED BY <1>1, <1>2, <1>3, <1>4 DEF CostRows

\* Nothing precedes what comes first.
LEMMA NothingToResume ==
    ASSUME NEW r, IsReadings(r), NEW t \in Tariffs, NEW s \in Nat, \A h \in HoursRead(r) : s <= h
    PROVE  EnergyIn(r, 0, s) = 0 /\ CostIn(r, t, 0, s) = 0
<1>1. Span(r, 0, s) = {}
  BY HoursAreFinite DEF Span
<1>2. MayStart(r, t, 0)
  BY ZeroMayStart
<1>3. EnergyIn(r, 0, s) = SumOver(r, Span(r, 0, s)) /\ CostIn(r, t, 0, s) = SumOver(Costs(r, t), Span(r, 0, s))
  BY <1>2, EnergyType, CostIsSum
<1> QED BY <1>1, <1>3, EmptySum

\* And a pass from before the first reading publishes all of them.
LEMMA WholeRows ==
    ASSUME NEW r, IsReadings(r), NEW s \in Nat, \A h \in HoursRead(r) : s <= h
    PROVE  EnergyRows(r, s, 0) = EnergyRows(r, 0, 0)
<1>1. {h \in HoursRead(r) : s <= h} = {h \in HoursRead(r) : 0 <= h}
  BY HoursAreFinite
<1>2. \A h \in HoursRead(r) : h \in Nat /\ EnergyIn(r, s, h + 1) = EnergyIn(r, 0, h + 1)
  <2> TAKE h \in HoursRead(r)
  <2>1. h \in Nat /\ \A k \in HoursRead(r) : k >= s /\ k >= 0
    BY HoursAreFinite
  <2> QED BY <2>1, NothingBefore
<1> QED BY <1>1, <1>2 DEF EnergyRows

-----------------------------------------------------------------------------
(* What a pass remembers.                                                  *)
Exact(total, r, t, b) ==
    /\ total.energy[Import] = EnergyIn(r, 0, b)
    /\ IsPriceable(t) => total.cost = CostIn(r, t, 0, b)

Silent(r, s) == \A h \in HoursRead(r) : h < s

\* A pass that starts over starts from the right totals.
LEMMA StartingOverIsExact ==
    ASSUME NEW L \in Ledgers, HoursKnown(L) # {}, NEW t \in Tariffs, NEW req \in Requests, NEW mem,
           NEW s, s = StartOf(mem, req, L, t), StartsOver(mem, req, L, t, s)
    PROVE  Exact(BaseOf(mem, req, L, t), L[Import], t, s)
<1>1. s \in Nat /\ \A h \in HoursRead(L[Import]) : s <= h
  BY Earliest, ProjectorAssumption DEF StartsOver
<1>2. IsReadings(L[Import])
  BY LedgerReadings, ProjectorAssumption
<1>3. EnergyIn(L[Import], 0, s) = 0 /\ CostIn(L[Import], t, 0, s) = 0
  BY <1>1, <1>2, NothingToResume
<1>4. NoTotals.energy[Import] = 0 /\ NoTotals.cost = 0
  BY ProjectorAssumption DEF NoTotals
<1> QED BY <1>3, <1>4 DEF Exact, StartsOver

\* The boundaries remembered are whole hours up to the start of the period.
LEMMA BoundariesType ==
    ASSUME NEW t \in Tariffs, NEW n \in Int
    PROVE  /\ Boundaries(t, n) \subseteq Int
           /\ \A b \in Boundaries(t, n) : b <= PeriodStart(t.calendar, n)
<1> DEFINE c == t.calendar
<1>1. c \in Int
  BY TariffType
<1>2. PeriodStart(c, n) \in Int
  BY <1>1, PeriodStarts
<1>3. PreviousPeriodStart(c, n) \in Int /\ PreviousPeriodStart(c, n) <= PeriodStart(c, n) - 1
  <2>1. PeriodStart(c, n) - 1 \in Int
    BY <1>2
  <2> QED BY <1>1, <2>1, PeriodStarts DEF PreviousPeriodStart
<1> HIDE DEF c
<1> QED BY <1>2, <1>3 DEF Boundaries, c

\* What the projector's memory is, whatever it holds.
MemoryShape(mem, first) ==
    /\ \/ mem.inputs = {} /\ DOMAIN mem.baselines = {}
       \/ \E t \in Tariffs : mem.inputs = Inputs(t) /\ mem.calendar = {t.calendar}
    /\ \A b \in DOMAIN mem.baselines : b \in Int /\ first <= b

\* A pass leaves a memory that has its shape.
LEMMA PassKeepsShape ==
    ASSUME NEW L \in Ledgers, HoursKnown(L) # {}, NEW t \in Tariffs, NEW req \in Requests, NEW mem,
           MemoryShape(mem, EarliestOf(L)), NEW R, NEW n \in Int
    PROVE  MemoryShape(Pass(mem, R, req, L, t, n).memory, EarliestOf(L))
<1> DEFINE P == Pass(mem, R, req, L, t, n)
<1> DEFINE s == StartOf(mem, req, L, t)
<1> DEFINE base == BaseOf(mem, req, L, t)
<1> DEFINE before == Touched(mem, t)
<1>1. P.memory.calendar = {t.calendar} /\ P.memory.inputs = Inputs(t)
      /\ P.memory.baselines = Remembered(before, L, t, s, base, n)
  BY DEF Pass, StartOf, BaseOf, Touched
<1>2. s \in Nat /\ EarliestOf(L) <= s /\ EarliestOf(L) \in Nat
  BY PassStart, Earliest
<1>3. DOMAIN before.baselines \subseteq DOMAIN mem.baselines
  BY DEF Touched
<1>4. Boundaries(t, n) \subseteq Int
  BY BoundariesType
<1> HIDE DEF P, s, base, before
<1>5. DOMAIN P.memory.baselines =
        (Boundaries(t, n) \cap DOMAIN before.baselines) \cup {b \in Boundaries(t, n) : s <= b}
  BY <1>1 DEF Remembered
<1>6. \A b \in DOMAIN P.memory.baselines : b \in Int /\ EarliestOf(L) <= b
  BY <1>2, <1>3, <1>4, <1>5 DEF MemoryShape
<1> QED BY <1>1, <1>6 DEF MemoryShape, P

\* A boundary is remembered exactly if the totals the pass resumed from are
\* exact, and the totals of the boundary itself where the pass adds nothing.
LEMMA PassRemembers ==
    ASSUME NEW L \in Ledgers, HoursKnown(L) # {}, HoursRead(L[Import]) # {},
           NEW t \in Tariffs, NEW req \in Requests, NEW mem,
           MemoryShape(mem, EarliestOf(L)), NEW R, NEW n \in Int,
           NEW s, s = StartOf(mem, req, L, t),
           NEW b \in DOMAIN Pass(mem, R, req, L, t, n).memory.baselines,
           Resumed(mem, req, L, t, s) =>
             /\ s <= b => Exact(mem.baselines[s], L[Import], t, s)
             /\ b < s \/ Silent(L[Import], s) =>
                  b \in DOMAIN mem.baselines /\ Exact(mem.baselines[b], L[Import], t, b)
    PROVE  Exact(Pass(mem, R, req, L, t, n).memory.baselines[b], L[Import], t, b)
<1> DEFINE P == Pass(mem, R, req, L, t, n)
<1> DEFINE base == BaseOf(mem, req, L, t)
<1> DEFINE before == Touched(mem, t)
<1> DEFINE r == L[Import]
<1>1. P.memory.baselines = Remembered(before, L, t, s, base, n)
  BY DEF Pass, StartOf, BaseOf, Touched
<1>2. s \in Nat /\ EarliestOf(L) <= s /\ MayStart(r, t, s)
      /\ (StartsOver(mem, req, L, t, s) \/ Resumed(mem, req, L, t, s))
  BY PassStart
<1>3. MemoryShape(P.memory, EarliestOf(L))
  BY PassKeepsShape
<1>4. b \in Int /\ EarliestOf(L) <= b /\ EarliestOf(L) \in Nat
  BY <1>3, Earliest DEF MemoryShape
<1>5. Resumed(mem, req, L, t, s) => before.baselines = mem.baselines
  BY DEF Resumed, Touched
<1>6. IsReadings(r)
  BY LedgerReadings, ProjectorAssumption
<1>7. \A h \in HoursRead(r) : h \in Nat /\ EarliestOf(L) <= h
  BY <1>6, HoursAreFinite, Earliest, ProjectorAssumption
<1> DEFINE B == P.memory.baselines
<1> DEFINE known == Boundaries(t, n) \cap DOMAIN before.baselines
<1> HIDE DEF base, before
<1>8. /\ DOMAIN B = known \cup {a \in Boundaries(t, n) : s <= a}
      /\ b < s => B[b] = IF b \in known THEN before.baselines[b] ELSE NoTotals
      /\ ~(b < s) /\ Silent(r, s) /\ b \in known =>
                    /\ B[b].energy[Import] = before.baselines[b].energy[Import]
                    /\ B[b].cost = before.baselines[b].cost
      /\ ~(b < s) /\ ~Silent(r, s) =>
                    /\ B[b].energy[Import] = base.energy[Import] + EnergyIn(r, s, b)
                    /\ IsPriceable(t) => B[b].cost = base.cost + CostIn(r, t, s, b)
  BY <1>1, ProjectorAssumption DEF Remembered, Silent
<1>9. StartsOver(mem, req, L, t, s) => ~Silent(r, s) /\ ~(b < s)
  BY <1>2, <1>4, <1>7 DEF StartsOver, Silent
<1> HIDE DEF P, base, before, r, B, known
<1>10. CASE b < s
  <2>1. Resumed(mem, req, L, t, s) /\ b \in known
    BY <1>2, <1>4, <1>8, <1>9, <1>10 DEF B, P
  <2> QED BY <2>1, <1>5, <1>8, <1>10 DEF B, P, r
<1>11. CASE ~(b < s) /\ Silent(r, s)
  <2>1. Resumed(mem, req, L, t, s)
    BY <1>2, <1>9, <1>11
  <2>2. b \in known
    BY <2>1, <1>5, <1>8, <1>11 DEF r, B, P, known
  <2> QED BY <2>1, <2>2, <1>5, <1>8, <1>11 DEF B, P, r, Exact
<1>12. CASE ~(b < s) /\ ~Silent(r, s)
  <2>1. Exact(base, r, t, s)
    <3>1. CASE StartsOver(mem, req, L, t, s)
      BY <3>1, StartingOverIsExact DEF base, r
    <3>2. CASE Resumed(mem, req, L, t, s)
      BY <3>2, <1>2, <1>4, <1>12 DEF base, r, Resumed
    <3> QED BY <3>1, <3>2, <1>2
  <2>2. EnergyIn(r, 0, b) = EnergyIn(r, 0, s) + EnergyIn(r, s, b)
    BY <1>2, <1>4, <1>6, <1>12, EnergySplits
  <2>3. CostIn(r, t, 0, b) = CostIn(r, t, 0, s) + CostIn(r, t, s, b)
    BY <1>2, <1>4, <1>6, <1>12, CostSplits
  <2> QED BY <2>1, <2>2, <2>3, <1>8, <1>12 DEF Exact, B, P, r
<1> QED BY <1>10, <1>11, <1>12

-----------------------------------------------------------------------------
(* What a pass publishes.                                                  *)
IsDirty(req, h) == \A x \in DirtyFrom(req) : x <= h

\* What a pass publishes of the energy is exact from the dirty hour on.
LEMMA PassPublishesEnergy ==
    ASSUME NEW L \in Ledgers, HoursKnown(L) # {},
           NEW t \in Tariffs, NEW req \in Requests, NEW mem, NEW R, NEW n,
           NEW s, s = StartOf(mem, req, L, t),
           NEW rows_, rows_ = Pass(mem, R, req, L, t, n).rows.energy[Import]
    PROVE  /\ DOMAIN rows_ \subseteq
                HoursRead(L[Import]) \cup (IF Cleared(req, L, Import) THEN {} ELSE DOMAIN R.energy[Import])
           /\ rows_ = [h \in DOMAIN rows_ |-> rows_[h]]
           /\ \A h \in HoursRead(L[Import]) :
                IsDirty(req, h) /\ (Resumed(mem, req, L, t, s) => Exact(mem.baselines[s], L[Import], t, s))
                    => h \in DOMAIN rows_ /\ rows_[h] = EnergyRows(L[Import], 0, 0)[h]
           /\ \A h \in DOMAIN R.energy[Import] :
                ~IsDirty(req, h) => h \in DOMAIN rows_ /\ rows_[h] = R.energy[Import][h]
<1> DEFINE r == L[Import]
<1> DEFINE base == BaseOf(mem, req, L, t)
<1> DEFINE new == EnergyRows(r, s, base.energy[Import])
<1> DEFINE old == IF Cleared(req, L, Import) THEN <<>> ELSE R.energy[Import]
<1> DEFINE dirty == DirtyFrom(req)
<1>1. rows_ = Over(From(new, dirty), old)
  BY ProjectorAssumption DEF Pass, StartOf, BaseOf
<1>2. s \in Nat /\ MayStart(r, t, s) /\ (StartsOver(mem, req, L, t, s) \/ Resumed(mem, req, L, t, s))
      /\ (dirty = {} => StartsOver(mem, req, L, t, s))
  BY PassStart
<1>3. IsReadings(r)
  BY LedgerReadings, ProjectorAssumption
<1>4. DOMAIN new = {h \in HoursRead(r) : s <= h}
  BY DEF EnergyRows
<1>5. DOMAIN old = IF Cleared(req, L, Import) THEN {} ELSE DOMAIN R.energy[Import]
  OBVIOUS
<1> HIDE DEF new, old, base
<1>6. /\ DOMAIN rows_ = {h \in DOMAIN new : \A d \in dirty : d <= h} \cup DOMAIN old
      /\ \A h \in DOMAIN new : (\A d \in dirty : d <= h) => rows_[h] = new[h]
      /\ \A h \in DOMAIN old : ~(h \in DOMAIN new /\ \A d \in dirty : d <= h) => rows_[h] = old[h]
      /\ rows_ = [h \in DOMAIN rows_ |-> rows_[h]]
  <2> HIDE DEF dirty
  <2> QED BY <1>1 DEF Over, From
<1>7. DOMAIN rows_ \subseteq HoursRead(r) \cup DOMAIN old
  BY <1>4, <1>6
<1>8. ASSUME NEW h \in HoursRead(r), IsDirty(req, h),
             Resumed(mem, req, L, t, s) => Exact(mem.baselines[s], r, t, s)
      PROVE  h \in DOMAIN rows_ /\ rows_[h] = EnergyRows(r, 0, 0)[h]
  <2>1. h \in Nat
    BY <1>3, HoursAreFinite
  <2>2. base.energy[Import] = EnergyIn(r, 0, s)
    <3>1. CASE StartsOver(mem, req, L, t, s)
      BY <3>1, StartingOverIsExact DEF base, Exact
    <3>2. CASE Resumed(mem, req, L, t, s)
      BY <3>2, <1>8 DEF base, Resumed, Exact
    <3> QED BY <1>2, <3>1, <3>2
  <2>3. s <= h
    <3>1. CASE StartsOver(mem, req, L, t, s)
      BY <3>1, Earliest, ProjectorAssumption DEF StartsOver
    <3>2. CASE Resumed(mem, req, L, t, s)
      <4>1. PICK x \in Nat : dirty = {x} /\ s = PeriodStart(t.calendar, x)
        BY <3>2 DEF Resumed
      <4>2. x <= h
        BY <1>8, <4>1 DEF IsDirty
      <4>3. s <= x
        BY <4>1, PeriodOfTariff
      <4> QED BY <1>2, <2>1, <4>1, <4>2, <4>3
    <3> QED BY <1>2, <3>1, <3>2
  <2>4. h \in DOMAIN new /\ new[h] = EnergyRows(r, 0, 0)[h]
    BY <1>2, <1>3, <2>2, <2>3, EnergyRow DEF new
  <2> QED BY <1>6, <1>8, <2>4 DEF IsDirty
<1>9. ASSUME NEW h \in DOMAIN R.energy[Import], ~IsDirty(req, h)
      PROVE  h \in DOMAIN rows_ /\ rows_[h] = R.energy[Import][h]
  <2>1. old = R.energy[Import]
    BY <1>9 DEF IsDirty, Cleared, old
  <2> QED BY <1>6, <1>9, <2>1 DEF IsDirty
<1> QED BY <1>5, <1>6, <1>7, <1>8, <1>9

\* So is what it publishes of the cost.
LEMMA PassPublishesCost ==
    ASSUME NEW L \in Ledgers, HoursKnown(L) # {},
           NEW t \in Tariffs, IsPriceable(t), NEW req \in Requests, NEW mem, NEW R, NEW n,
           NEW s, s = StartOf(mem, req, L, t),
           NEW rows_, rows_ = Pass(mem, R, req, L, t, n).rows.cost
    PROVE  /\ \A h \in HoursRead(L[Import]) :
                /\ IsDirty(req, h) \/ Repriced(mem, t)
                /\ Resumed(mem, req, L, t, s) => Exact(mem.baselines[s], L[Import], t, s)
                => h \in DOMAIN rows_ /\ rows_[h] = CostRows(L[Import], t, 0, 0)[h]
           /\ \A h \in DOMAIN R.cost :
                ~IsDirty(req, h) /\ ~Repriced(mem, t) => h \in DOMAIN rows_ /\ rows_[h] = R.cost[h]
<1> DEFINE r == L[Import]
<1> DEFINE base == BaseOf(mem, req, L, t)
<1> DEFINE new == CostRows(r, t, s, base.cost)
<1> DEFINE dirty == IF Repriced(mem, t) THEN {} ELSE DirtyFrom(req)
<1>1. rows_ = Over(From(new, dirty), R.cost)
  BY DEF Pass, StartOf, BaseOf
<1>2. s \in Nat /\ MayStart(r, t, s) /\ (StartsOver(mem, req, L, t, s) \/ Resumed(mem, req, L, t, s))
  BY PassStart
<1>3. IsReadings(r)
  BY LedgerReadings, ProjectorAssumption
<1>4. DOMAIN new = {h \in HoursRead(r) : s <= h}
  BY DEF CostRows
<1> HIDE DEF new, base
<1>6. /\ DOMAIN rows_ = {h \in DOMAIN new : \A d \in dirty : d <= h} \cup DOMAIN R.cost
      /\ \A h \in DOMAIN new : (\A d \in dirty : d <= h) => rows_[h] = new[h]
      /\ \A h \in DOMAIN R.cost : ~(h \in DOMAIN new /\ \A d \in dirty : d <= h) => rows_[h] = R.cost[h]
  <2> HIDE DEF dirty
  <2> QED BY <1>1 DEF Over, From
<1>8. ASSUME NEW h \in HoursRead(r), IsDirty(req, h) \/ Repriced(mem, t),
             Resumed(mem, req, L, t, s) => Exact(mem.baselines[s], r, t, s)
      PROVE  h \in DOMAIN rows_ /\ rows_[h] = CostRows(r, t, 0, 0)[h]
  <2>1. h \in Nat
    BY <1>3, HoursAreFinite
  <2>2. base.cost = CostIn(r, t, 0, s)
    <3>1. CASE StartsOver(mem, req, L, t, s)
      BY <3>1, StartingOverIsExact DEF base, Exact
    <3>2. CASE Resumed(mem, req, L, t, s)
      BY <3>2, <1>8 DEF base, Resumed, Exact
    <3> QED BY <1>2, <3>1, <3>2
  <2>3. s <= h
    <3>1. CASE StartsOver(mem, req, L, t, s)
      BY <3>1, Earliest, ProjectorAssumption DEF StartsOver
    <3>2. CASE Resumed(mem, req, L, t, s)
      <4>1. PICK x \in Nat : DirtyFrom(req) = {x} /\ s = PeriodStart(t.calendar, x)
        BY <3>2 DEF Resumed
      <4>2. x <= h
        BY <1>8, <3>2, <4>1 DEF IsDirty, Resumed, Repriced
      <4>3. s <= x
        BY <4>1, PeriodOfTariff
      <4> QED BY <1>2, <2>1, <4>1, <4>2, <4>3
    <3> QED BY <1>2, <3>1, <3>2
  <2>4. h \in DOMAIN new /\ new[h] = CostRows(r, t, 0, 0)[h]
    BY <1>2, <1>3, <2>2, <2>3, CostRow DEF new
  <2> QED BY <1>6, <1>8, <2>4 DEF IsDirty
<1>9. ASSUME NEW h \in DOMAIN R.cost, ~IsDirty(req, h), ~Repriced(mem, t)
      PROVE  h \in DOMAIN rows_ /\ rows_[h] = R.cost[h]
  BY <1>6, <1>9 DEF IsDirty
<1> QED BY <1>8, <1>9

-----------------------------------------------------------------------------
(* Every state has its type.                                               *)
LEMMA StoresType ==
    ASSUME ledger \in Ledgers, NEW d \in Directions, NEW ws, Stores(d, ws)
    PROVE  /\ ledger' \in Ledgers
           /\ Changed \subseteq Hours /\ Changed # {} /\ Deleted \subseteq Directions
<1>1. PICK w \in ws : \E answer \in [w -> Energies \cup {NoReading}] :
            ledger' = [ledger EXCEPT ![d] = Reconciled(@, w, answer)]
  BY DEF Stores
<1>2. PICK answer \in [w -> Energies \cup {NoReading}] :
            ledger' = [ledger EXCEPT ![d] = Reconciled(@, w, answer)]
  BY <1>1
<1>3. ledger[d] \in [Hours -> Energies \cup {NoReading}]
  BY DEF Ledgers
<1>4. Reconciled(ledger[d], w, answer) \in [Hours -> Energies \cup {NoReading}]
  BY <1>3 DEF Reconciled
<1>5. ledger' \in Ledgers
  BY <1>2, <1>4 DEF Ledgers
<1>6. Changed # {}
  <2> SUFFICES ASSUME Changed = {} PROVE FALSE
    OBVIOUS
  <2>1. \A e \in Directions : \A h \in Hours : ledger'[e][h] = ledger[e][h]
    BY DEF Changed
  <2>2. \A e \in Directions : ledger'[e] = ledger[e]
    BY <1>5, <2>1 DEF Ledgers
  <2>3. ledger' = ledger
    BY <1>5, <2>2 DEF Ledgers
  <2> QED BY <2>3 DEF Stores
<1> QED BY <1>5, <1>6 DEF Changed, Deleted

\* The hours of the model are natural numbers.
LEMMA HoursAreNatural == Hours \subseteq Nat /\ \A h \in Hours : {h} \in SUBSET Nat
BY ProjectorAssumption DEF Hours

\* The marks a change leaves are requests.
LEMMA MarkedType ==
    ASSUME NEW marks \in SUBSET Requests, NEW changed \in SUBSET Hours, NEW deleted \in SUBSET Directions
    PROVE  Marked(marks, changed, deleted) \subseteq Requests
<1>1. CASE changed = {}
  BY <1>1 DEF Marked
<1>2. CASE changed # {} /\ marks = {}
  <2>1. Min(changed) \in Hours
    BY <1>2, HoursAreNatural, MinIsLeast
  <2>2. Marked(marks, changed, deleted) = {[from |-> {Min(changed)}, reset |-> deleted]}
    BY <1>2 DEF Marked
  <2>3. {Min(changed)} \in {{}} \cup {{h} : h \in Hours \cup {LastHour + 1}}
    BY <2>1
  <2> QED BY <2>2, <2>3 DEF Requests
<1>3. CASE changed # {} /\ marks # {}
  <2>1. Marked(marks, changed, deleted) =
          {[from |-> IF m.from = {} THEN {} ELSE {Min(m.from \cup changed)},
            reset |-> m.reset \cup deleted] : m \in marks}
    BY <1>3 DEF Marked
  <2>2. ASSUME NEW m \in marks
        PROVE  [from |-> IF m.from = {} THEN {} ELSE {Min(m.from \cup changed)},
                reset |-> m.reset \cup deleted] \in Requests
    <3>1. m.from \in {{}} \cup {{h} : h \in Hours \cup {LastHour + 1}} /\ m.reset \in SUBSET Directions
      BY DEF Requests
    <3>2. m.from \cup changed \subseteq Hours \cup {LastHour + 1}
      BY <3>1
    <3>3. Hours \cup {LastHour + 1} \subseteq Nat
      BY HoursAreNatural, ProjectorAssumption
    <3>4. Min(m.from \cup changed) \in Hours \cup {LastHour + 1}
      <4>1. m.from \cup changed \in SUBSET Nat /\ m.from \cup changed # {}
        BY <1>3, <3>2, <3>3
      <4>2. Min(m.from \cup changed) \in m.from \cup changed
        BY <4>1, MinIsLeast
      <4> QED BY <3>2, <4>2
    <3>5. (IF m.from = {} THEN {} ELSE {Min(m.from \cup changed)})
             \in {{}} \cup {{h} : h \in Hours \cup {LastHour + 1}}
      BY <3>4
    <3>6. m.reset \cup deleted \in SUBSET Directions
      BY <3>1
    <3> QED BY <3>5, <3>6 DEF Requests
  <2> QED BY <2>1, <2>2
<1> QED BY <1>1, <1>2, <1>3

\* And so are those a lost direction leaves.
LEMMA MarkedResetType ==
    ASSUME NEW marks \in SUBSET Requests, NEW d \in Directions
    PROVE  MarkedReset(marks, d) \subseteq Requests
<1>1. UNION {m.reset : m \in marks} \subseteq Directions
  BY DEF Requests
<1>2. {d} \cup UNION {m.reset : m \in marks} \in SUBSET Directions
  BY <1>1
<1> QED BY <1>2 DEF MarkedReset, Requests

RowsType(R) == (\A d \in Directions : DOMAIN R.energy[d] \subseteq Hours) /\ DOMAIN R.cost \subseteq Hours

\* A pass writes rows of hours that were read.
LEMMA PassRowsType ==
    ASSUME NEW L \in Ledgers, NEW mem, NEW R, RowsType(R), NEW req, NEW t, NEW n
    PROVE  RowsType(Pass(mem, R, req, L, t, n).rows)
<1> DEFINE P == Pass(mem, R, req, L, t, n)
<1> DEFINE s == StartOf(mem, req, L, t)
<1> DEFINE base == BaseOf(mem, req, L, t)
<1> DEFINE new(d) == EnergyRows(L[d], s, base.energy[d])
<1> DEFINE old(d) == IF Cleared(req, L, d) THEN <<>> ELSE R.energy[d]
<1> DEFINE costs == IF IsPriceable(t) THEN CostRows(L[Import], t, s, base.cost) ELSE <<>>
<1> DEFINE dirty == IF Repriced(mem, t) THEN {} ELSE DirtyFrom(req)
<1>1. /\ \A d \in Directions : P.rows.energy[d] = Over(From(new(d), DirtyFrom(req)), old(d))
      /\ P.rows.cost = Over(From(costs, dirty), R.cost)
  BY DEF Pass, StartOf, BaseOf
<1>2. \A f, g, D : DOMAIN Over(From(f, D), g) \subseteq DOMAIN f \cup DOMAIN g
  BY DEF Over, From
<1>3. \A d \in Directions : HoursRead(L[d]) \subseteq Hours
  BY DEF HoursRead
<1>4. \A d \in Directions : DOMAIN new(d) \subseteq Hours
  BY <1>3 DEF EnergyRows
<1>5. \A d \in Directions : DOMAIN old(d) \subseteq Hours
  BY DEF RowsType
<1>6. DOMAIN costs \subseteq Hours
  BY <1>3, ProjectorAssumption DEF CostRows
<1> HIDE DEF P, s, base, new, old, costs, dirty
<1>7. \A d \in Directions : DOMAIN P.rows.energy[d] \subseteq Hours
  BY <1>1, <1>2, <1>4, <1>5
<1>8. DOMAIN P.rows.cost \subseteq Hours
  BY <1>1, <1>2, <1>6 DEF RowsType
<1> QED BY <1>7, <1>8 DEF RowsType, P

\* A pass that succeeds or fails keeps the types.
LEMMA PublishesType ==
    ASSUME TypeOK, ledger' \in Ledgers, NEW marks \in SUBSET Requests, NEW used, Publishes(marks, used)
    PROVE  pending' \subseteq Requests /\ RowsType(rows)'
<1>1. RowsType(rows)
  BY DEF TypeOK, RowsType
<1>2. CASE PassSucceeds(marks)
  <2>1. pending' = {}
    BY <1>2 DEF PassSucceeds
  <2>2. rows' = rows \/ \E m \in marks : rows' = Pass(memory, rows, m, ledger', tariff, now).rows
    BY <1>2 DEF PassSucceeds
  <2> QED BY <1>1, <2>1, <2>2, PassRowsType DEF RowsType
<1>3. CASE PassFails(marks)
  BY <1>1, <1>3 DEF PassFails, RowsType
<1> QED BY <1>2, <1>3 DEF Publishes

\* The first state has its type.
LEMMA InitTypeOK == Init => TypeOK
<1> SUFFICES ASSUME Init PROVE TypeOK
  OBVIOUS
<1>1. now \in 0 .. (LastHour + 1)
  BY ProjectorAssumption, MarksAssumption DEF Init
<1>2. ledger \in Ledgers
  BY DEF Init, Ledgers
<1>3. pending \subseteq Requests
  BY DEF Init, Requests, Everything
<1>4. tariff \in Tariffs
  BY ProjectorAssumption DEF Init, Tariffs, Calendars
<1>5. RowsType(rows)
  BY DEF Init, RowsType
<1>6. poll \in [reading : BOOLEAN, changed : SUBSET Hours, deleted : SUBSET Directions] /\ walks \subseteq Directions
  BY DEF Init, IdlePoll
<1> QED BY <1>1, <1>2, <1>3, <1>4, <1>5, <1>6 DEF TypeOK, RowsType

\* Every step keeps it.
LEMMA NextTypeOK == TypeOK /\ [Next]_vars => TypeOK'
<1> SUFFICES ASSUME TypeOK, [Next]_vars PROVE TypeOK'
  OBVIOUS
<1> USE DEF TypeOK
<1> DEFINE Polls == [reading : BOOLEAN, changed : SUBSET Hours, deleted : SUBSET Directions]
<1>1. CASE Tick
  BY <1>1, ProjectorAssumption DEF Tick
<1>2. CASE PollEnds
  <2>1. ledger' \in Ledgers /\ now' = now /\ tariff' = tariff /\ walks' = walks /\ poll' \in Polls
    BY <1>2 DEF PollEnds, IdlePoll
  <2>2. Marked(pending, poll.changed, poll.deleted) \in SUBSET Requests
    BY MarkedType
  <2>3. pending' \subseteq Requests /\ RowsType(rows)'
    BY <1>2, <2>1, <2>2, PublishesType DEF PollEnds
  <2> QED BY <2>1, <2>3 DEF RowsType
<1>3. CASE PollAborts
  BY <1>3 DEF PollAborts, IdlePoll
<1>4. CASE PriceArrives
  BY <1>4 DEF PriceArrives, Tariffs
<1>5. CASE Reprices
  <2>1. ledger' \in Ledgers /\ now' = now /\ tariff' = tariff /\ walks' = walks /\ poll' = poll
    BY <1>5 DEF Reprices
  <2> DEFINE marks == IF pending = {} THEN {[from |-> {now}, reset |-> {}]} ELSE pending
  <2>2. marks \in SUBSET Requests
    <3>1. now \in Hours \cup {LastHour + 1}
      BY ProjectorAssumption DEF Hours
    <3>2. {now} \in {{}} \cup {{h} : h \in Hours \cup {LastHour + 1}}
      BY <3>1
    <3>3. [from |-> {now}, reset |-> {}] \in Requests
      BY <3>2 DEF Requests
    <3> QED BY <3>3
  <2>3. Publishes(marks, 0)
    BY <1>5 DEF Reprices
  <2> HIDE DEF marks
  <2>4. pending' \subseteq Requests /\ RowsType(rows)'
    BY <2>1, <2>2, <2>3, PublishesType
  <2> QED BY <2>1, <2>4 DEF RowsType
<1>6. CASE CalendarMoves
  BY <1>6 DEF CalendarMoves, Tariffs
<1>7. CASE Restarts
  <2>1. pending' \subseteq Requests
    BY <1>7 DEF Restarts, Requests, Everything
  <2>2. tariff' \in Tariffs
    BY <1>7 DEF Restarts, Tariffs
  <2> QED BY <1>7, <2>1, <2>2 DEF Restarts, IdlePoll
<1>8. ASSUME NEW d \in Directions, PollReads(d) PROVE TypeOK'
  <2>1. ledger' \in Ledgers /\ Changed \subseteq Hours /\ Deleted \subseteq Directions
    BY <1>8, StoresType DEF PollReads
  <2>2. poll' \in Polls
    BY <1>8, <2>1 DEF PollReads
  <2> QED BY <1>8, <2>1, <2>2 DEF PollReads
<1>9. ASSUME NEW d \in Directions, WorkerStores(d) PROVE TypeOK'
  <2>1. ledger' \in Ledgers /\ Changed \in SUBSET Hours /\ Deleted \in SUBSET Directions
    BY <1>9, StoresType DEF WorkerStores
  <2>2. Marked(pending, Changed, Deleted) \in SUBSET Requests
    BY <2>1, MarkedType
  <2>3. pending' \subseteq Requests /\ RowsType(rows)'
    BY <1>9, <2>1, <2>2, PublishesType DEF WorkerStores
  <2> QED BY <1>9, <2>1, <2>3 DEF WorkerStores, RowsType
<1>10. ASSUME NEW d \in Directions, WorkerStoresUnmarked(d) PROVE TypeOK'
  <2>1. ledger' \in Ledgers
    BY <1>10, StoresType DEF WorkerStoresUnmarked
  <2> QED BY <1>10, <2>1 DEF WorkerStoresUnmarked
<1>11. ASSUME NEW d \in Directions, WalkBegins(d) PROVE TypeOK'
  BY <1>11 DEF WalkBegins
<1>12. ASSUME NEW d \in Directions, WalkStores(d) PROVE TypeOK'
  <2>1. ledger' \in Ledgers
    BY <1>12, StoresType DEF WalkStores
  <2> QED BY <1>12, <2>1 DEF WalkStores
<1>13. ASSUME NEW d \in Directions, WalkEnds(d) PROVE TypeOK'
  <2>1. ledger' \in Ledgers
    BY <1>13, StoresType DEF WalkEnds
  <2>2. MarkedReset(pending, d) \in SUBSET Requests
    BY MarkedResetType
  <2>3. \E used : Publishes(MarkedReset(pending, d), used)
    BY <1>13 DEF WalkEnds
  <2>4. pending' \subseteq Requests /\ RowsType(rows)'
    BY <2>1, <2>2, <2>3, PublishesType
  <2> QED BY <1>13, <2>1, <2>4 DEF WalkEnds, RowsType
<1>14. ASSUME NEW d \in Directions, WalkIsStopped(d) PROVE TypeOK'
  BY <1>14 DEF WalkIsStopped
<1>15. CASE UNCHANGED vars
  BY <1>15 DEF vars
<1> QED BY <1>1, <1>2, <1>3, <1>4, <1>5, <1>6, <1>7, <1>8, <1>9, <1>10, <1>11, <1>12,
           <1>13, <1>14, <1>15 DEF Next

\* The recorder's rows, the marks and the ledger have their types.
THEOREM MarksAreTyped == Spec => []TypeOK
<1>1. Init => TypeOK
  BY InitTypeOK
<1>2. TypeOK /\ [Next]_vars => TypeOK'
  BY NextTypeOK
<1> QED BY <1>1, <1>2, PTL DEF Spec

-----------------------------------------------------------------------------
(* A pass over everything.                                                 *)
LEMMA FullPass ==
    ASSUME NEW L \in Ledgers, NEW d \in Directions, HoursRead(L[d]) # {}, NEW t \in Tariffs,
           NEW req \in Requests, DirtyFrom(req) = {}, NEW mem, NEW R, NEW n
    PROVE  Pass(mem, R, req, L, t, n).rows.energy[d] = EnergyRows(L[d], 0, 0)
<1> DEFINE s == StartOf(mem, req, L, t)
<1> DEFINE base == BaseOf(mem, req, L, t)
<1>1. HoursKnown(L) # {}
  BY DEF HoursKnown
<1>2. s \in Nat /\ StartsOver(mem, req, L, t, s)
  BY <1>1, PassStart
<1>3. \A h \in HoursRead(L[d]) : s <= h
  BY <1>1, <1>2, Earliest DEF StartsOver
<1>4. base.energy[d] = 0
  BY <1>2 DEF StartsOver, NoTotals
<1>5. Cleared(req, L, d)
  BY DEF Cleared
<1>6. Pass(mem, R, req, L, t, n).rows.energy[d] =
          Over(From(EnergyRows(L[d], s, base.energy[d]), {}), <<>>)
  BY <1>5 DEF Pass, StartOf, BaseOf
<1>7. IsReadings(L[d])
  BY LedgerReadings
<1> HIDE DEF s, base
<1>8. EnergyRows(L[d], s, 0) = EnergyRows(L[d], 0, 0)
  BY <1>2, <1>3, <1>7, WholeRows
<1> QED BY <1>4, <1>6, <1>8, RowsOverNothing

\* A request for everything stays one, whatever is marked after it.
LEMMA EverythingStaysMarked ==
    ASSUME NEW marks, marks # {}, \A m \in marks : DirtyFrom(m) = {},
           NEW changed, NEW deleted, NEW d
    PROVE  /\ Marked(marks, changed, deleted) # {}
           /\ \A m \in Marked(marks, changed, deleted) : DirtyFrom(m) = {}
           /\ MarkedReset(marks, d) # {} /\ \A m \in MarkedReset(marks, d) : DirtyFrom(m) = {}
<1>1. MarkedReset(marks, d) # {} /\ \A m \in MarkedReset(marks, d) : DirtyFrom(m) = {}
  BY DEF MarkedReset, DirtyFrom
<1>2. CASE changed = {}
  BY <1>1, <1>2 DEF Marked
<1>3. CASE changed # {}
  <2> DEFINE merged(m) == [from |-> IF m.from = {} THEN {} ELSE {Min(m.from \cup changed)},
                           reset |-> m.reset \cup deleted]
  <2>1. Marked(marks, changed, deleted) = {merged(m) : m \in marks}
    BY <1>3 DEF Marked
  <2>2. ASSUME NEW m \in marks PROVE DirtyFrom(merged(m)) = {}
    <3>1. m.reset # {} \/ m.from = {}
      BY DEF DirtyFrom
    <3>2. merged(m).reset # {} \/ merged(m).from = {}
      BY <3>1
    <3> HIDE DEF merged
    <3> QED BY <3>2 DEF DirtyFrom
  <2> HIDE DEF merged
  <2> QED BY <1>1, <2>1, <2>2
<1> QED BY <1>2, <1>3

\* A walk that ends asks for everything, and so does a reading taken away.
LEMMA ClearingAsksForEverything ==
    ASSUME NEW marks, NEW changed, changed # {}, NEW deleted, deleted # {}, NEW d
    PROVE  AsksForEverything(Marked(marks, changed, deleted)) /\ AsksForEverything(MarkedReset(marks, d))
<1>1. AsksForEverything(MarkedReset(marks, d))
  BY DEF AsksForEverything, MarkedReset, DirtyFrom
<1>2. CASE marks = {}
  <2> DEFINE only == [from |-> {Min(changed)}, reset |-> deleted]
  <2>1. Marked(marks, changed, deleted) = {only}
    BY <1>2 DEF Marked
  <2>2. DirtyFrom(only) = {}
    BY DEF DirtyFrom
  <2> HIDE DEF only
  <2> QED BY <1>1, <2>1, <2>2 DEF AsksForEverything
<1>3. CASE marks # {}
  <2> DEFINE merged(m) == [from |-> IF m.from = {} THEN {} ELSE {Min(m.from \cup changed)},
                           reset |-> m.reset \cup deleted]
  <2>1. Marked(marks, changed, deleted) = {merged(m) : m \in marks}
    BY <1>3 DEF Marked
  <2>2. ASSUME NEW m \in marks PROVE DirtyFrom(merged(m)) = {}
    <3>1. merged(m).reset # {}
      OBVIOUS
    <3> HIDE DEF merged
    <3> QED BY <3>1 DEF DirtyFrom
  <2> HIDE DEF merged
  <2> QED BY <1>1, <1>3, <2>1, <2>2 DEF AsksForEverything
<1> QED BY <1>2, <1>3

Repairs ==
    \/ AsksForEverything(pending')
    \/ /\ pending' = {}
       /\ \A d \in Directions : HoursRead(ledger'[d]) # {} =>
             rows'.energy[d] = EnergyRows(ledger'[d], 0, 0)
       /\ IsPriceable(tariff') => \A h \in HoursRead(ledger'[Import]) :
             h \in DOMAIN rows'.cost /\ rows'.cost[h] = CostRows(ledger'[Import], tariff', 0, 0)[h]

\* A pass over everything is a repair once it succeeds, and asked for until then.
LEMMA PublishingEverythingRepairs ==
    ASSUME TypeOK, ledger' \in Ledgers, tariff' = tariff, NEW marks \in SUBSET Requests,
           AsksForEverything(marks), NEW used, Publishes(marks, used)
    PROVE  Repairs
<1>1. tariff \in Tariffs
  BY DEF TypeOK
<1>2. CASE PassFails(marks)
  BY <1>2 DEF PassFails, Repairs
<1>3. CASE PassSucceeds(marks) /\ HoursKnown(ledger') = {}
  <2>1. \A d \in Directions : HoursRead(ledger'[d]) = {}
    BY <1>3 DEF HoursKnown
  <2>2. HoursRead(ledger'[Import]) = {}
    BY <2>1, ProjectorAssumption
  <2> QED BY <1>3, <2>1, <2>2 DEF PassSucceeds, Repairs
<1>4. CASE PassSucceeds(marks) /\ HoursKnown(ledger') # {}
  <2>1. PICK m \in marks : rows' = Pass(memory, rows, m, ledger', tariff, now).rows
    BY <1>4 DEF PassSucceeds, AsksForEverything
  <2>2. m \in Requests /\ DirtyFrom(m) = {}
    BY DEF AsksForEverything
  <2>3. \A d \in Directions : HoursRead(ledger'[d]) # {} => rows'.energy[d] = EnergyRows(ledger'[d], 0, 0)
    BY <1>1, <2>1, <2>2, FullPass
  <2>4. ASSUME IsPriceable(tariff)
        PROVE  \A h \in HoursRead(ledger'[Import]) :
                  h \in DOMAIN rows'.cost /\ rows'.cost[h] = CostRows(ledger'[Import], tariff, 0, 0)[h]
    <3> DEFINE s == StartOf(memory, m, ledger', tariff)
    <3>1. ~Resumed(memory, m, ledger', tariff, s) /\ \A h : IsDirty(m, h)
      BY <2>2 DEF Resumed, IsDirty
    <3> HIDE DEF s
    <3> QED BY <1>1, <1>4, <2>1, <2>2, <2>4, <3>1, PassPublishesCost DEF s
  <2>5. pending' = {}
    BY <1>4 DEF PassSucceeds
  <2> QED BY <2>3, <2>4, <2>5 DEF Repairs
<1> QED BY <1>2, <1>3, <1>4 DEF Publishes

\* What a poll has seen deleted, it has seen change.
DeletionsAreChanges == poll.deleted # {} => poll.changed # {}

\* Every step keeps it.
LEMMA NextDeletionsAreChanges == TypeOK /\ DeletionsAreChanges /\ [Next]_vars => DeletionsAreChanges'
<1> SUFFICES ASSUME TypeOK, DeletionsAreChanges, [Next]_vars PROVE DeletionsAreChanges'
  OBVIOUS
<1>1. CASE UNCHANGED poll
  BY <1>1 DEF DeletionsAreChanges
<1>2. CASE poll' = IdlePoll
  BY <1>2 DEF DeletionsAreChanges, IdlePoll
<1>3. ASSUME NEW d \in Directions, PollReads(d) PROVE DeletionsAreChanges'
  <2>1. Changed # {}
    BY <1>3, StoresType DEF PollReads, TypeOK
  <2>2. poll'.changed = poll.changed \cup Changed
    BY <1>3 DEF PollReads
  <2> QED BY <2>1, <2>2 DEF DeletionsAreChanges
<1> QED BY <1>1, <1>2, <1>3 DEF Next, vars, Tick, PollEnds, PollAborts, PriceArrives, Reprices,
           CalendarMoves, Restarts, WorkerStores, WorkerStoresUnmarked, WalkBegins, WalkStores,
           WalkEnds, WalkIsStopped

\* The end of a walk.
LEMMA WalkEndsRepairs ==
    ASSUME TypeOK, TypeOK', NEW d \in Directions, WalkEnds(d)
    PROVE  Repairs
<1> DEFINE marks == MarkedReset(pending, d)
<1>1. marks \in SUBSET Requests
  BY MarkedResetType DEF TypeOK
<1>2. AsksForEverything(marks)
  BY DEF AsksForEverything, MarkedReset, DirtyFrom
<1>3. (\E used : Publishes(marks, used)) /\ tariff' = tariff /\ ledger' \in Ledgers
  BY DEF WalkEnds, TypeOK
<1> HIDE DEF marks
<1> QED BY <1>1, <1>2, <1>3, PublishingEverythingRepairs

\* The end of a poll, when everything is due or something was taken away.
LEMMA PollEndsRepairs ==
    ASSUME TypeOK, TypeOK', DeletionsAreChanges, PollEnds,
           AsksForEverything(pending) \/ poll.deleted # {}
    PROVE  Repairs
<1> DEFINE marks == Marked(pending, poll.changed, poll.deleted)
<1>1. marks \in SUBSET Requests
  BY MarkedType DEF TypeOK
<1>2. AsksForEverything(marks)
  <2>1. CASE AsksForEverything(pending)
    BY <2>1, EverythingStaysMarked DEF AsksForEverything
  <2>2. CASE poll.deleted # {}
    BY <2>2, ClearingAsksForEverything DEF DeletionsAreChanges
  <2> QED BY <2>1, <2>2
<1>3. Publishes(marks, 0) /\ tariff' = tariff /\ ledger' \in Ledgers
  BY DEF PollEnds, TypeOK
<1> HIDE DEF marks
<1> QED BY <1>1, <1>2, <1>3, PublishingEverythingRepairs

\* The worker's answer, likewise.
LEMMA WorkerStoresRepairs ==
    ASSUME TypeOK, TypeOK', NEW d \in Directions, WorkerStores(d),
           AsksForEverything(pending) \/ Deleted # {}
    PROVE  Repairs
<1> DEFINE marks == Marked(pending, Changed, Deleted)
<1>1. marks \in SUBSET Requests /\ Changed # {}
  BY StoresType, MarkedType DEF WorkerStores, TypeOK
<1>2. AsksForEverything(marks)
  <2>1. CASE AsksForEverything(pending)
    BY <2>1, EverythingStaysMarked DEF AsksForEverything
  <2>2. CASE Deleted # {}
    BY <1>1, <2>2, ClearingAsksForEverything
  <2> QED BY <2>1, <2>2
<1>3. Publishes(marks, 1) /\ tariff' = tariff /\ ledger' \in Ledgers
  BY DEF WorkerStores, TypeOK
<1> HIDE DEF marks
<1> QED BY <1>1, <1>2, <1>3, PublishingEverythingRepairs

\* A rebuild that is due is made, or stays due.
LEMMA StepRepairs ==
    ASSUME TypeOK, TypeOK', DeletionsAreChanges, [Next]_vars, RebuildIsDue
    PROVE  Repairs
<1>1. CASE \E d \in walks : WalkEnds(d)
  BY <1>1, WalkEndsRepairs DEF TypeOK
<1>2. CASE poll.deleted # {} /\ PollEnds
  BY <1>2, PollEndsRepairs
<1>3. CASE \E d \in Directions : WorkerStores(d) /\ Deleted # {}
  BY <1>3, WorkerStoresRepairs
<1>4. CASE AsksForEverything(pending)
  <2>1. CASE UNCHANGED pending
    BY <1>4, <2>1 DEF Repairs
  <2>2. CASE PollEnds
    BY <1>4, <2>2, PollEndsRepairs
  <2>3. CASE Reprices
    <3>1. Publishes(pending, 0) /\ tariff' = tariff
      BY <1>4, <2>3 DEF Reprices, AsksForEverything
    <3> QED BY <1>4, <3>1, PublishingEverythingRepairs DEF TypeOK
  <2>4. CASE Restarts
    BY <2>4 DEF Restarts, Repairs, AsksForEverything, DirtyFrom, Everything
  <2>5. ASSUME NEW d \in Directions, WorkerStores(d) PROVE Repairs
    BY <1>4, <2>5, WorkerStoresRepairs
  <2>6. ASSUME NEW d \in Directions, WalkEnds(d) PROVE Repairs
    BY <2>6, WalkEndsRepairs
  <2> QED BY <2>1, <2>2, <2>3, <2>4, <2>5, <2>6 DEF Next, vars, Tick, PollAborts, PriceArrives,
             CalendarMoves, PollReads, WorkerStoresUnmarked, WalkBegins, WalkStores, WalkIsStopped
<1> QED BY <1>1, <1>2, <1>3, <1>4 DEF RebuildIsDue

\* The end of a history walk, a reading taken away and a restart ask for
\* everything; that stays asked for until a pass serves it, and the pass leaves,
\* for any number of directions and whatever was lost before, energy rows and
\* costs that agree with what is stored.
THEOREM RebuildsRepair == Spec => RebuildRepairs
<1>1. Init => DeletionsAreChanges
  BY DEF Init, IdlePoll, DeletionsAreChanges
<1>2. Spec => []DeletionsAreChanges
  BY <1>1, NextDeletionsAreChanges, MarksAreTyped, PTL DEF Spec
<1>3. TypeOK /\ TypeOK' /\ DeletionsAreChanges /\ [Next]_vars =>
        [RebuildIsDue =>
            \/ AsksForEverything(pending')
            \/ /\ pending' = {}
               /\ \A d \in Directions : HoursRead(ledger'[d]) # {} => rows'.energy[d] = WholeEnergy(d)'
               /\ IsPriceable(tariff') => \A h \in HoursRead(ledger'[Import]) :
                     h \in DOMAIN rows'.cost /\ rows'.cost[h] = WholeCost'[h]]_vars
  BY StepRepairs DEF Repairs, WholeEnergy, WholeCost
<1> QED BY <1>2, <1>3, MarksAreTyped, PTL DEF Spec, RebuildRepairs

-----------------------------------------------------------------------------
(* One direction, and no fault: what a mark promises.                      *)
Faultless == Directions = {Import} /\ MaxLost = 0 /\ MaxStopped = 0 /\ MaxFailed = 0

Readings == ledger[Import]

\* A pass that is still to come will publish the hours from h on.
Owed(h) == pending # {} \/ walks # {} \/ \E c \in poll.changed : c <= h

RowIsExact(h) ==
    h \in DOMAIN rows.energy[Import] /\ rows.energy[Import][h] = EnergyRows(Readings, 0, 0)[h]
CostRowIsExact(h) ==
    \A t \in memory.inputs : IsPriceable(t) =>
        h \in DOMAIN rows.cost /\ rows.cost[h] = CostRows(Readings, t, 0, 0)[h]
TotalIsExact(mem, r, b) == \A t \in mem.inputs : Exact(mem.baselines[b], r, t, b)

\* Every boundary of the present period that a pass over everything would
\* remember is remembered.
BoundariesAreKnown ==
    \A c \in memory.calendar : \A b \in Boundaries([price |-> 0, calendar |-> c], now) :
        b \in DOMAIN memory.baselines \/ b < EarliestOf(ledger)

RowsAreExact == \A h \in HoursRead(Readings) : Owed(h) \/ RowIsExact(h)
CostsAreExact == \A h \in HoursRead(Readings) : Owed(h) \/ CostRowIsExact(h)
NothingStale ==
    \A h \in DOMAIN rows.energy[Import] :
        h \in HoursRead(Readings) \/ pending # {} \/ walks # {} \/ poll.deleted # {}
TotalsAreExact ==
    \A b \in DOMAIN memory.baselines : Owed(b - 1) \/ TotalIsExact(memory, Readings, b)

\* What a poll read and the worker took away again is published already.
TakenBackIsPublished ==
    /\ poll.changed # {} /\ poll.deleted = {} /\ pending = {} /\ walks = {}
    /\ \A c \in poll.changed : c \notin HoursRead(Readings)
    => /\ \A b \in DOMAIN memory.baselines : TotalIsExact(memory, Readings, b)
       /\ BoundariesAreKnown

MarksAreSimple ==
    /\ pending \in {{}, {Everything}}
    /\ poll.changed = {} \/ ~poll.reading => poll = IdlePoll
    /\ spent \in [answers : Nat, inputs : Nat, lost : Nat, stopped : Nat, failed : Nat]

NothingReadNothingKept ==
    HoursRead(Readings) = {} =>
        memory.inputs = {} /\ memory.calendar = {} /\ DOMAIN memory.baselines = {}
        /\ DOMAIN rows.energy[Import] = {}

MarksInv ==
    /\ RowsAreExact /\ CostsAreExact /\ NothingStale /\ TotalsAreExact
    /\ TakenBackIsPublished /\ MarksAreSimple /\ NothingReadNothingKept
    /\ MemoryShape(memory, EarliestOf(ledger))
    /\ rows.energy[Import] = [h \in DOMAIN rows.energy[Import] |-> rows.energy[Import][h]]

-----------------------------------------------------------------------------
(* How the ledger changes.                                                 *)
LEMMA InputsType ==
    ASSUME NEW t \in Tariffs
    PROVE  /\ Inputs(t) \subseteq Tariffs /\ Inputs(t) # {}
           /\ \A u \in Inputs(t) : IsPriceable(t) => u = t
           /\ \A u \in Inputs(t) : IsPriceable(u) => u = t /\ IsPriceable(t)
<1>1. 0 \in Calendars
  BY ProjectorAssumption DEF Calendars
<1>2. [price |-> 0, calendar |-> 0] \in Tariffs /\ ~IsPriceable([price |-> 0, calendar |-> 0])
  BY <1>1 DEF Tariffs, IsPriceable
<1>3. CASE IsPriceable(t)
  BY <1>3 DEF Inputs
<1>4. CASE ~IsPriceable(t)
  BY <1>2, <1>4 DEF Inputs
<1> QED BY <1>3, <1>4

\* For the inputs a memory has, its totals are exact one way or the other.
LEMMA TotalsOfInputs ==
    ASSUME NEW t \in Tariffs, NEW mem, mem.inputs = Inputs(t), NEW r, NEW b
    PROVE  TotalIsExact(mem, r, b) <=> Exact(mem.baselines[b], r, t, b)
<1>1. CASE IsPriceable(t)
  BY <1>1, InputsType DEF TotalIsExact, Inputs
<1>2. CASE ~IsPriceable(t)
  <2>1. \A u \in Inputs(t) : ~IsPriceable(u)
    BY <1>2, InputsType
  <2> QED BY <1>2, <2>1, InputsType DEF TotalIsExact, Exact
<1> QED BY <1>1, <1>2

\* Readings that differ from hour x on have the same rows and totals before it.
LEMMA SameBelow ==
    ASSUME NEW r, NEW q, IsReadings(r), IsReadings(q), NEW t \in Tariffs, NEW x \in Int,
           \A h \in Hours : h < x => r[h] = q[h]
    PROVE  /\ \A b \in Int : b <= x =>
                EnergyIn(r, 0, b) = EnergyIn(q, 0, b) /\ CostIn(r, t, 0, b) = CostIn(q, t, 0, b)
           /\ \A h \in HoursRead(q) : h < x =>
                /\ h \in HoursRead(r)
                /\ EnergyRows(r, 0, 0)[h] = EnergyRows(q, 0, 0)[h]
                /\ CostRows(r, t, 0, 0)[h] = CostRows(q, t, 0, 0)[h]
<1>1. ASSUME NEW b \in Int, b <= x
      PROVE  EnergyIn(r, 0, b) = EnergyIn(q, 0, b) /\ CostIn(r, t, 0, b) = CostIn(q, t, 0, b)
  <2>1. \A h \in Hours : h < b => r[h] = q[h]
    BY <1>1, ProjectorAssumption DEF Hours
  <2>2. EnergyIn(r, 0, b) = EnergyIn(q, 0, b)
    BY <2>1, SameEnergy
  <2>3. CostIn(r, t, 0, b) = CostIn(q, t, 0, b)
    BY <2>1, SameCosts
  <2> QED BY <2>2, <2>3
<1>2. ASSUME NEW h \in HoursRead(q), h < x
      PROVE  /\ h \in HoursRead(r)
             /\ EnergyRows(r, 0, 0)[h] = EnergyRows(q, 0, 0)[h]
             /\ CostRows(r, t, 0, 0)[h] = CostRows(q, t, 0, 0)[h]
  <2>1. h \in Hours /\ h \in Nat
    BY HoursAreFinite
  <2>2. h \in HoursRead(r) /\ r[h] = q[h]
    BY <1>2, <2>1 DEF HoursRead
  <2>3. h + 1 \in Int /\ h + 1 <= x
    BY <1>2, <2>1
  <2>4. EnergyIn(r, 0, h + 1) = EnergyIn(q, 0, h + 1) /\ CostIn(r, t, 0, h + 1) = CostIn(q, t, 0, h + 1)
    BY <1>1, <2>3
  <2>5. CostAt(r, t, 0, h) = CostAt(q, t, 0, h)
    BY <1>2, <2>2, SameCosts
  <2> QED BY <2>1, <2>2, <2>4, <2>5 DEF EnergyRows, CostRows
<1> QED BY <1>1, <1>2

\* The windows are made of hours.
LEMMA WindowsAreHours ==
    ASSUME TypeOK
    PROVE  (\A w \in Windows : w \subseteq Hours) /\ RecentWindow \subseteq Windows
<1>1. ASSUME NEW w \in Windows PROVE w \subseteq Hours
  <2>1. PICK s \in 0 .. (now - WindowLength) : w = s .. (s + WindowLength - 1)
    BY DEF Windows
  <2> QED BY <2>1, ProjectorAssumption, MarksAssumption DEF TypeOK, Hours
<1> QED BY <1>1 DEF RecentWindow

\* A partition that has a reading keeps one.
LEMMA ReconciledKeepsPartitions ==
    ASSUME NEW r, IsReadings(r), NEW w \in SUBSET Hours,
           NEW answer \in [w -> Energies \cup {NoReading}], NEW h \in HoursRead(r)
    PROVE  \E k \in HoursRead(Reconciled(r, w, answer)) : PartitionStart(k) = PartitionStart(h)
<1> DEFINE answered == {PartitionStart(k) : k \in {a \in w : answer[a] # NoReading}}
<1> DEFINE q == Reconciled(r, w, answer)
<1>1. q = [k \in Hours |-> IF k \in w /\ PartitionStart(k) \in answered THEN answer[k] ELSE r[k]]
  BY DEF Reconciled
<1>2. h \in Hours /\ r[h] # NoReading
  BY HoursAreFinite DEF HoursRead
<1> HIDE DEF q
<1>3. CASE PartitionStart(h) \notin answered
  <2>1. q[h] # NoReading
    BY <1>1, <1>2, <1>3
  <2> QED BY <1>2, <2>1 DEF q, HoursRead
<1>4. CASE PartitionStart(h) \in answered
  <2>1. PICK k \in w : answer[k] # NoReading /\ PartitionStart(k) = PartitionStart(h)
    BY <1>4
  <2>2. k \in Hours /\ q[k] # NoReading
    BY <1>1, <1>4, <2>1
  <2>3. k \in HoursRead(q)
    BY <2>2 DEF HoursRead
  <2> QED BY <2>1, <2>3 DEF q
<1> QED BY <1>3, <1>4

\* With one direction the ledger is its readings.
LEMMA OneDirection ==
    ASSUME Faultless, NEW L \in Ledgers
    PROVE  HoursKnown(L) = HoursRead(L[Import]) /\ IsReadings(L[Import])
<1>1. IsReadings(L[Import])
  BY LedgerReadings, ProjectorAssumption
<1> QED BY <1>1 DEF HoursKnown, Faultless

\* What a change of the ledger leaves as it was.
LEMMA ChangesAre ==
    ASSUME TypeOK, Faultless, NEW d \in Directions, NEW ws \in SUBSET Windows, Stores(d, ws)
    PROVE  /\ Min(Changed) \in Hours /\ Min(Changed) \in Nat /\ \A h \in Changed : Min(Changed) <= h
           /\ \A h \in Hours : h < Min(Changed) => Readings'[h] = Readings[h]
           /\ Deleted = {} => /\ HoursRead(Readings) \subseteq HoursRead(Readings')
                              /\ Changed \subseteq HoursRead(Readings')
           /\ HoursRead(Readings') # {}
           /\ HoursRead(Readings) # {} => EarliestOf(ledger') <= EarliestOf(ledger)
<1>0. d = Import /\ Directions = {Import}
  BY DEF Faultless
<1>1. ledger' \in Ledgers /\ Changed \subseteq Hours /\ Changed # {} /\ Changed \in SUBSET Nat
      /\ ledger \in Ledgers
  BY StoresType, HoursAreNatural DEF TypeOK
<1>2. Min(Changed) \in Changed /\ Min(Changed) \in Nat /\ \A h \in Changed : Min(Changed) <= h
  BY <1>1, MinIsLeast
<1>3. \A h \in Hours : h \notin Changed => Readings'[h] = Readings[h]
  BY <1>0 DEF Changed, Readings
<1>4. \A h \in Hours : h < Min(Changed) => Readings'[h] = Readings[h]
  BY <1>1, <1>2, <1>3, HoursAreNatural
<1>5. \A h \in Changed : Readings'[h] # Readings[h]
  BY <1>0 DEF Changed, Readings
<1>6. IsReadings(Readings) /\ IsReadings(Readings') /\ HoursKnown(ledger) = HoursRead(Readings)
      /\ HoursKnown(ledger') = HoursRead(Readings')
  BY <1>1, OneDirection DEF Readings
<1>7. ASSUME Deleted = {}
      PROVE  HoursRead(Readings) \subseteq HoursRead(Readings') /\ Changed \subseteq HoursRead(Readings')
  <2>1. \A h \in HoursRead(Readings) : Readings'[h] # NoReading
    BY <1>0, <1>7 DEF Deleted, Readings
  <2>2. HoursRead(Readings) \subseteq Hours
    BY DEF HoursRead
  <2>3. \A h \in Changed : Readings'[h] # NoReading
    BY <1>1, <1>5, <2>1 DEF HoursRead
  <2> QED BY <1>1, <2>1, <2>2, <2>3 DEF HoursRead
<1>8. PICK w \in Windows : \E answer \in [w -> Energies \cup {NoReading}] :
            Readings' = Reconciled(Readings, w, answer)
  BY <1>0, <1>1 DEF Stores, Readings, Ledgers
<1>9. PICK answer \in [w -> Energies \cup {NoReading}] : Readings' = Reconciled(Readings, w, answer)
  BY <1>8
<1>10. ASSUME NEW h \in HoursRead(Readings)
       PROVE  \E k \in HoursRead(Readings') : PartitionStart(k) = PartitionStart(h)
  BY <1>6, <1>9, ReconciledKeepsPartitions, WindowsAreHours
<1>11. HoursRead(Readings') # {}
  <2>1. CASE HoursRead(Readings) = {}
    <3>1. Min(Changed) \in Hours /\ Readings'[Min(Changed)] # Readings[Min(Changed)]
      BY <1>1, <1>2, <1>5
    <3>2. Readings[Min(Changed)] = NoReading
      BY <2>1, <3>1 DEF HoursRead
    <3> QED BY <3>1, <3>2 DEF HoursRead
  <2>2. CASE HoursRead(Readings) # {}
    BY <2>2, <1>10
  <2> QED BY <2>1, <2>2
<1>12. ASSUME HoursRead(Readings) # {} PROVE EarliestOf(ledger') <= EarliestOf(ledger)
  <2>1. HoursRead(Readings) \in SUBSET Nat /\ HoursRead(Readings') \in SUBSET Nat
    BY <1>6, HoursAreFinite
  <2> DEFINE first == Min(HoursRead(Readings))
  <2> DEFINE new == Min(HoursRead(Readings'))
  <2>2. first \in HoursRead(Readings) /\ first \in Nat
    BY <1>12, <2>1, MinIsLeast
  <2>3. PICK k \in HoursRead(Readings') : PartitionStart(k) = PartitionStart(first)
    BY <1>10, <2>2
  <2>4. new \in Nat /\ new <= k /\ k \in Nat
    BY <1>11, <2>1, MinIsLeast
  <2>5. PartitionStart(new) <= PartitionStart(k)
    BY <2>4, PartitionStarts
  <2> QED BY <1>6, <2>3, <2>5 DEF EarliestOf
<1> QED BY <1>1, <1>2, <1>4, <1>7, <1>11, <1>12

-----------------------------------------------------------------------------
(* What a pass leaves exact.                                               *)
LEMMA RememberedBoundaries ==
    ASSUME NEW mem, NEW R, NEW req, NEW L, NEW t, NEW n
    PROVE  DOMAIN Pass(mem, R, req, L, t, n).memory.baselines =
             (Boundaries(t, n) \cap DOMAIN Touched(mem, t).baselines)
               \cup {b \in Boundaries(t, n) : StartOf(mem, req, L, t) <= b}
<1> DEFINE s == StartOf(mem, req, L, t)
<1> DEFINE base == BaseOf(mem, req, L, t)
<1> DEFINE before == Touched(mem, t)
<1>1. Pass(mem, R, req, L, t, n).memory.baselines = Remembered(before, L, t, s, base, n)
  BY DEF Pass, StartOf, BaseOf, Touched
<1> HIDE DEF s, base, before
<1>2. DOMAIN Remembered(before, L, t, s, base, n) =
        (Boundaries(t, n) \cap DOMAIN before.baselines) \cup {b \in Boundaries(t, n) : s <= b}
  BY DEF Remembered
<1> QED BY <1>1, <1>2 DEF s, before

\* A pass remembers the tariff it was made with.
LEMMA PassInputs ==
    ASSUME NEW mem, NEW R, NEW req, NEW L, NEW t, NEW n
    PROVE  /\ Pass(mem, R, req, L, t, n).memory.inputs = Inputs(t)
           /\ Pass(mem, R, req, L, t, n).memory.calendar = {t.calendar}
BY DEF Pass, Touched

\* The hours up to which exactness is asked for are a set of hours with all
\* that come before them.
LEMMA PartialTotals ==
    ASSUME NEW L \in Ledgers, HoursKnown(L) # {}, HoursRead(L[Import]) # {},
           NEW t \in Tariffs, NEW req \in Requests, NEW mem,
           MemoryShape(mem, EarliestOf(L)), NEW R, NEW n \in Int,
           NEW x \in Nat, DirtyFrom(req) = {x},
           NEW E \in SUBSET Int, \A b \in E : \A a \in Int : a <= b => a \in E,
           \A b \in DOMAIN mem.baselines : b \in E /\ b <= x => TotalIsExact(mem, L[Import], b),
           /\ Silent(L[Import], PeriodStart(t.calendar, x)) /\ mem.calendar = {t.calendar}
           /\ PeriodStart(t.calendar, x) \in DOMAIN mem.baselines
           => \A b \in Boundaries(t, n) : b \in E /\ PeriodStart(t.calendar, x) <= b =>
                  b \in DOMAIN mem.baselines /\ TotalIsExact(mem, L[Import], b),
           NEW P, P = Pass(mem, R, req, L, t, n),
           NEW s, s = StartOf(mem, req, L, t)
    PROVE  /\ \A b \in DOMAIN P.memory.baselines : b \in E => TotalIsExact(P.memory, L[Import], b)
           /\ Resumed(mem, req, L, t, s) /\ s \in E => Exact(mem.baselines[s], L[Import], t, s)
<1>1. P.memory.inputs = Inputs(t)
  BY PassInputs
<1>2. DOMAIN P.memory.baselines =
        (Boundaries(t, n) \cap DOMAIN Touched(mem, t).baselines) \cup {b \in Boundaries(t, n) : s <= b}
  BY RememberedBoundaries
<1>3. s \in Nat
  BY PassStart
<1>4. ASSUME Resumed(mem, req, L, t, s)
      PROVE  /\ s = PeriodStart(t.calendar, x) /\ s <= x /\ s \in DOMAIN mem.baselines
             /\ mem.calendar = {t.calendar} /\ Touched(mem, t).baselines = mem.baselines
             /\ \A b : TotalIsExact(mem, L[Import], b) <=> Exact(mem.baselines[b], L[Import], t, b)
  <2>1. mem.inputs = Inputs(t) /\ mem.calendar = {t.calendar} /\ s \in DOMAIN mem.baselines
    BY <1>4 DEF Resumed
  <2>2. s = PeriodStart(t.calendar, x)
    BY <1>4 DEF Resumed
  <2>3. s <= x
    BY <2>2, PeriodOfTariff
  <2>4. Touched(mem, t).baselines = mem.baselines
    BY <2>1 DEF Touched
  <2>5. \A b : TotalIsExact(mem, L[Import], b) <=> Exact(mem.baselines[b], L[Import], t, b)
    BY <2>1, TotalsOfInputs
  <2> QED BY <2>1, <2>2, <2>3, <2>4, <2>5
<1>5. Resumed(mem, req, L, t, s) /\ s \in E => Exact(mem.baselines[s], L[Import], t, s)
  BY <1>4
<1>6. ASSUME NEW b \in DOMAIN P.memory.baselines, b \in E
      PROVE  TotalIsExact(P.memory, L[Import], b)
  <2>0. b \in Int /\ s \in Int
    <3>1. b \in Int
      BY <1>6
    <3>2. s \in Int
      BY <1>3
    <3> QED BY <3>1, <3>2
  <2>1. ASSUME Resumed(mem, req, L, t, s), s <= b
        PROVE  Exact(mem.baselines[s], L[Import], t, s)
    <3>1. s \in E
      BY <1>6, <2>0, <2>1
    <3> QED BY <1>5, <2>1, <3>1
  <2>2. ASSUME Resumed(mem, req, L, t, s), b < s
        PROVE  b \in DOMAIN mem.baselines /\ Exact(mem.baselines[b], L[Import], t, b)
    <3>1. ~(s <= b) /\ b <= x
      BY <1>4, <2>0, <2>2
    <3>2. b \in DOMAIN mem.baselines
      BY <1>2, <1>4, <1>6, <2>2, <3>1
    <3>3. TotalIsExact(mem, L[Import], b)
      BY <1>6, <3>1, <3>2
    <3> QED BY <3>2, <3>3, <1>4, <2>2
  <2>3. ASSUME Resumed(mem, req, L, t, s), Silent(L[Import], s), ~(b < s)
        PROVE  b \in DOMAIN mem.baselines /\ Exact(mem.baselines[b], L[Import], t, b)
    <3>1. b \in Boundaries(t, n) /\ s <= b
      BY <1>2, <1>6, <2>0, <2>3
    <3>2. b \in DOMAIN mem.baselines /\ TotalIsExact(mem, L[Import], b)
      BY <3>1, <1>4, <1>6, <2>3
    <3> QED BY <3>2, <1>4, <2>3
  <2>4. Exact(P.memory.baselines[b], L[Import], t, b)
    BY <2>1, <2>2, <2>3, <1>6, PassRemembers
  <2> QED BY <1>1, <2>4, TotalsOfInputs
<1> QED BY <1>5, <1>6

\* A pass keeps the form of the memory and of the rows.
PassDone(m) == /\ rows' = Pass(memory, rows, m, ledger', tariff, now).rows
               /\ memory' = Pass(memory, rows, m, ledger', tariff, now).memory

LedgerGrows ==
    HoursRead(Readings) # {} => HoursRead(Readings') # {} /\ EarliestOf(ledger') <= EarliestOf(ledger)

\* A memory stays in shape while the ledger grows.
LEMMA MemoryOfLedger ==
    ASSUME TypeOK, Faultless, MarksInv, ledger' \in Ledgers, LedgerGrows, HoursRead(Readings') # {}
    PROVE  MemoryShape(memory, EarliestOf(ledger'))
<1>1. HoursRead(Readings) = {} => DOMAIN memory.baselines = {}
  BY DEF MarksInv, NothingReadNothingKept
<1>2. HoursKnown(ledger') # {} /\ EarliestOf(ledger') \in Nat
  BY OneDirection, Earliest DEF Readings
<1>3. HoursRead(Readings) # {} => EarliestOf(ledger) \in Nat
  BY OneDirection, Earliest DEF Readings, TypeOK
<1>4. \A b \in DOMAIN memory.baselines : b \in Int /\ EarliestOf(ledger) <= b
  BY DEF MarksInv, MemoryShape
<1>5. \A b \in DOMAIN memory.baselines : b \in Int /\ EarliestOf(ledger') <= b
  BY <1>1, <1>2, <1>3, <1>4 DEF LedgerGrows
<1> QED BY <1>5 DEF MarksInv, MemoryShape

\* A pass keeps the form of rows and memory.
LEMMA PassKeepsForm ==
    ASSUME TypeOK, Faultless, MarksInv, ledger' \in Ledgers, LedgerGrows, HoursRead(Readings') # {},
           NEW m \in Requests, PassDone(m)
    PROVE  /\ NothingReadNothingKept'
           /\ MemoryShape(memory, EarliestOf(ledger))'
           /\ (rows.energy[Import] = [h \in DOMAIN rows.energy[Import] |-> rows.energy[Import][h]])'
           /\ memory'.inputs = Inputs(tariff) /\ memory'.calendar = {tariff.calendar}
<1>1. HoursKnown(ledger') # {} /\ tariff \in Tariffs /\ now \in Int
  BY OneDirection, ProjectorAssumption DEF Readings, TypeOK
<1>2. MemoryShape(memory', EarliestOf(ledger'))
  BY <1>1, MemoryOfLedger, PassKeepsShape DEF PassDone
<1>3. rows'.energy[Import] = [h \in DOMAIN rows'.energy[Import] |-> rows'.energy[Import][h]]
  BY <1>1, PassPublishesEnergy DEF PassDone
<1>4. memory'.inputs = Inputs(tariff) /\ memory'.calendar = {tariff.calendar}
  BY PassInputs DEF PassDone
<1> QED BY <1>2, <1>3, <1>4 DEF NothingReadNothingKept

\* After a pass over everything nothing is wrong, whatever was before.
AllExact ==
    /\ \A h \in HoursRead(Readings) : RowIsExact(h) /\ CostRowIsExact(h)
    /\ DOMAIN rows.energy[Import] \subseteq HoursRead(Readings)
    /\ \A b \in DOMAIN memory.baselines : TotalIsExact(memory, Readings, b)
    /\ BoundariesAreKnown

\* Every promise holds where everything is exact.
LEMMA AllExactIsEnough ==
    AllExact' => (RowsAreExact /\ CostsAreExact /\ NothingStale /\ TotalsAreExact /\ TakenBackIsPublished)'
BY DEF AllExact, RowsAreExact, CostsAreExact, NothingStale, TotalsAreExact, TakenBackIsPublished

\* Nothing was added before the earliest partition by a change after it.
LEMMA EarliestStays ==
    ASSUME TypeOK, Faultless, ledger' \in Ledgers, HoursRead(Readings) # {}, HoursRead(Readings') # {},
           NEW x \in Nat, EarliestOf(ledger) <= x,
           \A h \in Hours : h < x => Readings'[h] = Readings[h]
    PROVE  EarliestOf(ledger) <= EarliestOf(ledger')
<1>1. /\ HoursKnown(ledger) = HoursRead(Readings) /\ HoursKnown(ledger') = HoursRead(Readings')
      /\ IsReadings(Readings) /\ IsReadings(Readings')
  BY OneDirection DEF TypeOK, Readings
<1>2. HoursRead(Readings) \in SUBSET Nat /\ HoursRead(Readings') \in SUBSET Nat
  BY <1>1, HoursAreFinite
<1> DEFINE first == Min(HoursRead(Readings))
<1> DEFINE new == Min(HoursRead(Readings'))
<1>3. first \in Nat /\ EarliestOf(ledger) = first - (first % PartitionLength)
      /\ \A h \in HoursRead(Readings) : EarliestOf(ledger) <= h
  BY <1>1, <1>2, MinIsLeast, Earliest DEF EarliestOf, PartitionStart, TypeOK, Readings, Faultless
<1>4. new \in HoursRead(Readings') /\ new \in Nat /\ EarliestOf(ledger') = new - (new % PartitionLength)
  BY <1>1, <1>2, MinIsLeast DEF EarliestOf, PartitionStart
<1>5. EarliestOf(ledger) <= new
  <2>1. CASE new < x
    <3>1. new \in Hours
      BY <1>4 DEF HoursRead
    <3>2. new \in HoursRead(Readings)
      BY <2>1, <3>1, <1>4 DEF HoursRead
    <3> QED BY <1>3, <3>2
  <2>2. CASE ~(new < x)
    <3>1. EarliestOf(ledger) \in Nat
      BY <1>1, Earliest DEF TypeOK
    <3> QED BY <2>2, <3>1, <1>4
  <2> QED BY <2>1, <2>2
<1> HIDE DEF first, new
<1>6. first - (first % PartitionLength) <= new - (new % PartitionLength)
  <2>1. first \in Int /\ new \in Int /\ PartitionLength \in Nat \ {0}
    BY <1>3, <1>4, ProjectorAssumption
  <2>2. first - (first % PartitionLength) <= new
    BY <1>3, <1>5
  <2> QED BY <2>1, <2>2, LatestStart
<1> QED BY <1>3, <1>4, <1>6

\* Which boundaries a pass knows afterwards.
LEMMA BoundariesAfterPass ==
    ASSUME TypeOK, Faultless, MarksInv, ledger' \in Ledgers, LedgerGrows, HoursRead(Readings') # {},
           NEW m \in Requests, PassDone(m), now' = now,
           DirtyFrom(m) = {} \/ BoundariesAreKnown,
           \A x \in DirtyFrom(m) : \A h \in Hours : h < x => Readings'[h] = Readings[h]
    PROVE  BoundariesAreKnown'
<1> DEFINE s == StartOf(memory, m, ledger', tariff)
<1> DEFINE B == Boundaries(tariff, now)
<1>1. HoursKnown(ledger') # {} /\ tariff \in Tariffs /\ now \in Int
  BY OneDirection, ProjectorAssumption DEF Readings, TypeOK
<1>2. DOMAIN memory'.baselines = (B \cap DOMAIN Touched(memory, tariff).baselines) \cup {b \in B : s <= b}
  BY RememberedBoundaries DEF PassDone
<1>3. /\ s \in Nat
      /\ StartsOver(memory, m, ledger', tariff, s) \/ Resumed(memory, m, ledger', tariff, s)
      /\ DirtyFrom(m) = {} => StartsOver(memory, m, ledger', tariff, s)
  BY <1>1, PassStart
<1>4. B \subseteq Int
  BY <1>1, BoundariesType
<1>5. EarliestOf(ledger') \in Nat
  BY <1>1, Earliest
<1> HIDE DEF s
<1>6. ASSUME NEW b \in B PROVE b \in DOMAIN memory'.baselines \/ b < EarliestOf(ledger')
  <2>1. CASE StartsOver(memory, m, ledger', tariff, s)
    BY <1>2, <1>4, <1>5, <2>1 DEF StartsOver
  <2>2. CASE Resumed(memory, m, ledger', tariff, s)
    <3>1. memory.calendar = {tariff.calendar} /\ Touched(memory, tariff).baselines = memory.baselines
      BY <2>2 DEF Resumed, Touched
    <3>2. BoundariesAreKnown /\ HoursRead(Readings) # {}
      BY <2>2 DEF Resumed, MarksInv, NothingReadNothingKept
    <3>3. b \in DOMAIN memory.baselines \/ b < EarliestOf(ledger)
      BY <3>1, <3>2 DEF BoundariesAreKnown, Boundaries
    <3>4. b \in DOMAIN memory.baselines => b \in DOMAIN memory'.baselines
      BY <1>2, <3>1
    <3>5. CASE b < EarliestOf(ledger)
      <4>1. PICK x \in Nat : DirtyFrom(m) = {x} /\ s = PeriodStart(tariff.calendar, x)
        BY <2>2 DEF Resumed
      <4>2. s <= x
        BY <1>1, <4>1, PeriodOfTariff
      <4>3. EarliestOf(ledger) <= s
        BY <2>2 DEF Resumed, MarksInv, MemoryShape
      <4>4. EarliestOf(ledger) \in Nat
        BY <3>2, OneDirection, Earliest DEF Readings, TypeOK
      <4>5. EarliestOf(ledger) <= x
        BY <1>3, <4>2, <4>3, <4>4
      <4>6. EarliestOf(ledger) <= EarliestOf(ledger')
        BY <3>2, <4>1, <4>5, EarliestStays
      <4> QED BY <1>4, <1>5, <3>5, <4>4, <4>6
    <3> QED BY <3>3, <3>4, <3>5
  <2> QED BY <1>3, <2>1, <2>2
<1>7. memory'.calendar = {tariff.calendar}
  BY PassInputs DEF PassDone
<1>8. \A c \in memory'.calendar : Boundaries([price |-> 0, calendar |-> c], now') = B
  BY <1>7 DEF Boundaries
<1> QED BY <1>6, <1>8 DEF BoundariesAreKnown

\* A pass over everything.
LEMMA FullPassSettles ==
    ASSUME TypeOK, Faultless, MarksInv, ledger' \in Ledgers, LedgerGrows, HoursRead(Readings') # {},
           now' = now, NEW m \in Requests, DirtyFrom(m) = {}, PassDone(m)
    PROVE  AllExact'
<1> DEFINE s == StartOf(memory, m, ledger', tariff)
<1> DEFINE r == Readings'
<1> DEFINE P == Pass(memory, rows, m, ledger', tariff, now)
<1>1. /\ HoursKnown(ledger') # {} /\ tariff \in Tariffs /\ now \in Int /\ r = ledger'[Import]
      /\ HoursRead(ledger'[Import]) # {}
  BY OneDirection, ProjectorAssumption DEF Readings, TypeOK
<1>2. ~Resumed(memory, m, ledger', tariff, s)
  BY DEF Resumed
<1>3. \A h : IsDirty(m, h)
  BY DEF IsDirty
<1>4. memory'.inputs = Inputs(tariff)
  BY PassKeepsForm
<1>5. MemoryShape(memory, EarliestOf(ledger'))
  BY MemoryOfLedger
<1>6. Cleared(m, ledger', Import)
  BY <1>1 DEF Cleared
<1> DEFINE energy == rows'.energy[Import]
<1>7. energy = P.rows.energy[Import] /\ rows'.cost = P.rows.cost /\ memory'.baselines = P.memory.baselines
  BY DEF PassDone
<1>8. DOMAIN energy \subseteq HoursRead(r)
      /\ \A h \in HoursRead(r) : h \in DOMAIN energy /\ energy[h] = EnergyRows(r, 0, 0)[h]
  <2> HIDE DEF s, P, energy
  <2> QED BY <1>1, <1>2, <1>3, <1>6, <1>7, PassPublishesEnergy DEF s, P
<1>9. ASSUME IsPriceable(tariff)
      PROVE  \A h \in HoursRead(r) : h \in DOMAIN rows'.cost /\ rows'.cost[h] = CostRows(r, tariff, 0, 0)[h]
  BY <1>1, <1>2, <1>3, <1>7, <1>9, PassPublishesCost
<1>10. \A b \in DOMAIN memory'.baselines : Exact(memory'.baselines[b], r, tariff, b)
  <2> TAKE b \in DOMAIN memory'.baselines
  <2> QED BY <1>1, <1>2, <1>5, <1>7, PassRemembers
<1>11. \A b \in DOMAIN memory'.baselines : TotalIsExact(memory', r, b)
  BY <1>1, <1>4, <1>10, TotalsOfInputs
<1>12. BoundariesAreKnown'
  BY BoundariesAfterPass
<1>13. \A t \in memory'.inputs : IsPriceable(t) => t = tariff /\ IsPriceable(tariff)
  BY <1>1, <1>4, InputsType
<1> HIDE DEF r, P, s
<1>14. \A h \in HoursRead(r) : RowIsExact(h)' /\ CostRowIsExact(h)'
  BY <1>8, <1>9, <1>13 DEF RowIsExact, CostRowIsExact, r
<1> QED BY <1>8, <1>11, <1>12, <1>14 DEF AllExact, r

\* A pass from hour x on, the earliest of the hours a mark was made for.
Ahead(x) ==
    /\ \A h \in Hours : h < x => Readings'[h] = Readings[h]
    /\ \A h \in Int : h < x /\ ~Owed(h)' => ~Owed(h)

SilenceIsKnown(x) ==
    /\ Silent(Readings', PeriodStart(tariff.calendar, x)) /\ memory.calendar = {tariff.calendar}
    /\ PeriodStart(tariff.calendar, x) \in DOMAIN memory.baselines
    => \A b \in Boundaries(tariff, now) : PeriodStart(tariff.calendar, x) <= b =>
          b \in DOMAIN memory.baselines /\ (Owed(b - 1)' \/ TotalIsExact(memory, Readings', b))

\* What was exact before the change still is where the change has not been.
LEMMA TotalsBelow ==
    ASSUME TypeOK, Faultless, MarksInv, ledger' \in Ledgers, NEW x \in Int,
           \A h \in Hours : h < x => Readings'[h] = Readings[h],
           NEW b \in Int, b <= x, TotalIsExact(memory, Readings, b)
    PROVE  TotalIsExact(memory, Readings', b)
<1>1. IsReadings(Readings) /\ IsReadings(Readings')
  BY OneDirection DEF TypeOK, Readings
<1>2. \A t \in memory.inputs : t \in Tariffs
  BY InputsType DEF MarksInv, MemoryShape
<1>3. \A t \in memory.inputs :
        EnergyIn(Readings, 0, b) = EnergyIn(Readings', 0, b)
        /\ CostIn(Readings, t, 0, b) = CostIn(Readings', t, 0, b)
  BY <1>1, <1>2, SameBelow
<1> QED BY <1>3 DEF TotalIsExact, Exact

\* After such a pass every promise about rows and totals holds.
LEMMA PartialPassSettles ==
    ASSUME TypeOK, TypeOK', Faultless, MarksInv, LedgerGrows, HoursRead(Readings') # {},
           HoursRead(Readings) \subseteq HoursRead(Readings'),
           pending = {}, walks = {}, poll.deleted # {} => poll'.deleted # {},
           NEW x \in Nat, NEW m \in Requests, DirtyFrom(m) = {x}, Ahead(x), SilenceIsKnown(x), PassDone(m)
    PROVE  (RowsAreExact /\ CostsAreExact /\ NothingStale /\ TotalsAreExact)'
<1> DEFINE s == StartOf(memory, m, ledger', tariff)
<1> DEFINE r == Readings'
<1> DEFINE P == Pass(memory, rows, m, ledger', tariff, now)
<1> DEFINE E == {b \in Int : ~Owed(b - 1)'}
<1>0. ledger' \in Ledgers
  BY DEF TypeOK
<1>1. /\ HoursKnown(ledger') # {} /\ tariff \in Tariffs /\ now \in Int /\ r = ledger'[Import]
      /\ HoursRead(ledger'[Import]) # {}
  BY <1>0, OneDirection, ProjectorAssumption DEF Readings, TypeOK
<1>2. MemoryShape(memory, EarliestOf(ledger'))
  BY <1>0, MemoryOfLedger
<1>3. memory'.inputs = Inputs(tariff)
  BY <1>0, PassKeepsForm
<1>4. IsReadings(Readings) /\ IsReadings(r)
  BY <1>0, OneDirection DEF TypeOK, Readings
<1>5. \A b \in E : \A a \in Int : a <= b => a \in E
  <2>1. poll'.changed \subseteq Int
    <3>1. poll'.changed \subseteq Hours
      BY DEF TypeOK
    <3>2. \A h \in Hours : h \in Int
      BY ProjectorAssumption DEF Hours
    <3> QED BY <3>1, <3>2
  <2>2. ASSUME NEW b \in Int, ~Owed(b - 1)', NEW a \in Int, a <= b
        PROVE  ~Owed(a - 1)'
    <3>1. pending' = {} /\ walks' = {} /\ \A c \in poll'.changed : ~(c <= b - 1)
      BY <2>2 DEF Owed
    <3>2. \A c \in poll'.changed : ~(c <= a - 1)
      BY <2>1, <2>2, <3>1
    <3> QED BY <3>1, <3>2 DEF Owed
  <2> QED BY <2>2
<1>6. \A b \in DOMAIN memory.baselines : b \in E /\ b <= x => TotalIsExact(memory, r, b)
  <2> TAKE b \in DOMAIN memory.baselines
  <2> HAVE b \in E /\ b <= x
  <2>1. b - 1 \in Int /\ b - 1 < x /\ b \in Int
    OBVIOUS
  <2>2. ~Owed(b - 1)
    BY <2>1 DEF Ahead
  <2>3. TotalIsExact(memory, Readings, b)
    BY <2>2 DEF MarksInv, TotalsAreExact
  <2> QED BY <1>0, <2>1, <2>3, TotalsBelow DEF Ahead
<1>7. /\ Silent(r, PeriodStart(tariff.calendar, x)) /\ memory.calendar = {tariff.calendar}
      /\ PeriodStart(tariff.calendar, x) \in DOMAIN memory.baselines
      => \A b \in Boundaries(tariff, now) : b \in E /\ PeriodStart(tariff.calendar, x) <= b =>
            b \in DOMAIN memory.baselines /\ TotalIsExact(memory, r, b)
  BY DEF SilenceIsKnown
<1>8. memory' = P.memory /\ rows' = P.rows
  BY DEF PassDone
<1> HIDE DEF E
<1>9. /\ \A b \in DOMAIN P.memory.baselines : b \in E => TotalIsExact(P.memory, r, b)
      /\ Resumed(memory, m, ledger', tariff, s) /\ s \in E => Exact(memory.baselines[s], r, tariff, s)
  <2>1. E \in SUBSET Int
    BY DEF E
  <2> HIDE DEF P, s, r
  <2> QED BY <1>0, <1>1, <1>2, <1>5, <1>6, <1>7, <2>1, PartialTotals DEF P, s, r
<1>10. TotalsAreExact'
  <2>1. \A b \in DOMAIN memory'.baselines : b \in Int
    BY <1>0, PassKeepsForm DEF MemoryShape
  <2> QED BY <1>8, <1>9, <2>1 DEF TotalsAreExact, E, r
<1>11. ASSUME NEW h \in HoursRead(r), ~Owed(h)', x <= h, Resumed(memory, m, ledger', tariff, s)
       PROVE  Exact(memory.baselines[s], r, tariff, s)
  <2>1. s \in Nat /\ s <= x
    BY <1>0, <1>1, <1>11, PassStart, PeriodOfTariff DEF Resumed
  <2>2. h \in Nat
    BY <1>4, HoursAreFinite
  <2>3. h + 1 \in E
    BY <1>11, <2>2 DEF E
  <2>4. s \in E
    BY <1>5, <1>11, <2>1, <2>2, <2>3
  <2> QED BY <1>9, <1>11, <2>4
<1>12. \A h \in Int : IsDirty(m, h) <=> x <= h
  BY DEF IsDirty
<1>13. HoursRead(r) \subseteq Nat /\ HoursRead(Readings) \subseteq Nat
  BY <1>4, HoursAreFinite
<1> DEFINE energy == rows'.energy[Import]
<1>14. /\ DOMAIN energy \subseteq HoursRead(r) \cup DOMAIN rows.energy[Import]
       /\ \A h \in HoursRead(r) :
            IsDirty(m, h) /\ (Resumed(memory, m, ledger', tariff, s) => Exact(memory.baselines[s], r, tariff, s))
                    => h \in DOMAIN energy /\ energy[h] = EnergyRows(r, 0, 0)[h]
       /\ \A h \in DOMAIN rows.energy[Import] :
                ~IsDirty(m, h) => h \in DOMAIN energy /\ energy[h] = rows.energy[Import][h]
  <2> HIDE DEF s, P, energy
  <2> QED BY <1>0, <1>1, <1>8, PassPublishesEnergy DEF s, P, energy
<1>15. ASSUME NEW h \in HoursRead(r), ~Owed(h)', ~(x <= h)
       PROVE  /\ ~Owed(h) /\ h \in HoursRead(Readings)
              /\ EnergyRows(Readings, 0, 0)[h] = EnergyRows(r, 0, 0)[h]
              /\ \A t \in Tariffs : CostRows(Readings, t, 0, 0)[h] = CostRows(r, t, 0, 0)[h]
  <2>1. h \in Int /\ h < x
    BY <1>13, <1>15
  <2>2. ~Owed(h)
    BY <1>15, <2>1 DEF Ahead
  <2>3. \A k \in Hours : k < x => Readings[k] = r[k]
    BY DEF Ahead
  <2> QED BY <1>4, <2>1, <2>2, <2>3, <1>1, SameBelow
<1>16. ASSUME NEW h \in HoursRead(r), ~Owed(h)' PROVE RowIsExact(h)'
  <2>1. h \in Int
    BY <1>13
  <2>2. CASE x <= h
    <3>1. h \in DOMAIN energy /\ energy[h] = EnergyRows(r, 0, 0)[h]
      <4> HIDE DEF energy, r, s
      <4> QED BY <1>11, <1>12, <1>14, <1>16, <2>1, <2>2
    <3> QED BY <3>1 DEF RowIsExact
  <2>3. CASE ~(x <= h)
    <3>1. ~Owed(h) /\ h \in HoursRead(Readings) /\ EnergyRows(Readings, 0, 0)[h] = EnergyRows(r, 0, 0)[h]
      BY <1>15, <1>16, <2>3
    <3>2. RowIsExact(h)
      BY <3>1 DEF MarksInv, RowsAreExact
    <3>3. ~IsDirty(m, h)
      BY <1>12, <2>1, <2>3
    <3>4. h \in DOMAIN energy /\ energy[h] = rows.energy[Import][h]
      <4> HIDE DEF energy, r, s
      <4> QED BY <1>14, <3>2, <3>3 DEF RowIsExact
    <3> QED BY <3>1, <3>2, <3>4 DEF RowIsExact
  <2> QED BY <2>2, <2>3
<1>17. ASSUME NEW h \in HoursRead(r), ~Owed(h)' PROVE CostRowIsExact(h)'
  <2> SUFFICES ASSUME IsPriceable(tariff)
               PROVE  h \in DOMAIN rows'.cost /\ rows'.cost[h] = CostRows(r, tariff, 0, 0)[h]
    BY <1>1, <1>3, InputsType DEF CostRowIsExact
  <2> DEFINE costs == rows'.cost
  <2>1. h \in Int
    BY <1>13
  <2>2. /\ \A k \in HoursRead(r) :
                /\ IsDirty(m, k) \/ Repriced(memory, tariff)
                /\ Resumed(memory, m, ledger', tariff, s) => Exact(memory.baselines[s], r, tariff, s)
                => k \in DOMAIN costs /\ costs[k] = CostRows(r, tariff, 0, 0)[k]
        /\ \A k \in DOMAIN rows.cost :
                ~IsDirty(m, k) /\ ~Repriced(memory, tariff) => k \in DOMAIN costs /\ costs[k] = rows.cost[k]
    <3> HIDE DEF s, P, costs
    <3> QED BY <1>0, <1>1, <1>8, PassPublishesCost DEF s, P, costs
  <2>3. Resumed(memory, m, ledger', tariff, s) => ~Repriced(memory, tariff)
    BY DEF Resumed, Repriced
  <2>4. CASE Repriced(memory, tariff)
    BY <2>2, <2>3, <2>4
  <2>5. CASE x <= h
    BY <1>11, <1>12, <1>17, <2>1, <2>2, <2>5
  <2>6. CASE ~(x <= h) /\ ~Repriced(memory, tariff)
    <3>1. ~Owed(h) /\ h \in HoursRead(Readings)
          /\ CostRows(Readings, tariff, 0, 0)[h] = CostRows(r, tariff, 0, 0)[h]
      BY <1>1, <1>15, <1>17, <2>6
    <3>2. tariff \in memory.inputs
      BY <2>6 DEF Repriced, Inputs
    <3>3. h \in DOMAIN rows.cost /\ rows.cost[h] = CostRows(Readings, tariff, 0, 0)[h]
      BY <3>1, <3>2 DEF MarksInv, CostsAreExact, CostRowIsExact
    <3>4. ~IsDirty(m, h)
      BY <1>12, <2>1, <2>6
    <3> QED BY <2>2, <2>6, <3>1, <3>3, <3>4
  <2> QED BY <2>4, <2>5, <2>6
<1>18. NothingStale'
  BY <1>14 DEF MarksInv, NothingStale
<1> QED BY <1>10, <1>16, <1>17, <1>18 DEF RowsAreExact, CostsAreExact

\* And where everything was published, everything is after a partial pass.
LEMMA PartialPassKeepsAll ==
    ASSUME TypeOK, TypeOK', Faultless, MarksInv, LedgerGrows, HoursRead(Readings') # {}, now' = now,
           NEW x \in Nat, NEW m \in Requests, DirtyFrom(m) = {x}, PassDone(m),
           \A h \in Hours : h < x => Readings'[h] = Readings[h],
           \A b \in DOMAIN memory.baselines : TotalIsExact(memory, Readings, b), BoundariesAreKnown,
           /\ Silent(Readings', PeriodStart(tariff.calendar, x)) /\ memory.calendar = {tariff.calendar}
           /\ PeriodStart(tariff.calendar, x) \in DOMAIN memory.baselines
           => \A b \in Boundaries(tariff, now) : PeriodStart(tariff.calendar, x) <= b =>
                 b \in DOMAIN memory.baselines /\ TotalIsExact(memory, Readings', b)
    PROVE  (\A b \in DOMAIN memory.baselines : TotalIsExact(memory, Readings, b))' /\ BoundariesAreKnown'
<1> DEFINE s == StartOf(memory, m, ledger', tariff)
<1> DEFINE r == Readings'
<1> DEFINE P == Pass(memory, rows, m, ledger', tariff, now)
<1>0. ledger' \in Ledgers
  BY DEF TypeOK
<1>1. /\ HoursKnown(ledger') # {} /\ tariff \in Tariffs /\ now \in Int /\ r = ledger'[Import]
      /\ HoursRead(ledger'[Import]) # {}
  BY <1>0, OneDirection, ProjectorAssumption DEF Readings, TypeOK
<1>2. MemoryShape(memory, EarliestOf(ledger'))
  BY <1>0, MemoryOfLedger
<1>3. \A b \in DOMAIN memory.baselines : b \in Int
  BY DEF MarksInv, MemoryShape
<1>4. \A b \in DOMAIN memory.baselines : b <= x => TotalIsExact(memory, r, b)
  BY <1>0, <1>3, TotalsBelow
<1>5. memory' = P.memory
  BY DEF PassDone
<1>6. \A b \in DOMAIN P.memory.baselines : b \in Int
  BY <1>0, <1>5, PassKeepsForm DEF MemoryShape
<1>7. \A b \in DOMAIN P.memory.baselines : b \in Int => TotalIsExact(P.memory, r, b)
  <2>1. /\ Int \in SUBSET Int
        /\ \A b \in Int : \A a \in Int : a <= b => a \in Int
        /\ \A b \in DOMAIN memory.baselines : b \in Int /\ b <= x => TotalIsExact(memory, r, b)
        /\ (/\ Silent(r, PeriodStart(tariff.calendar, x)) /\ memory.calendar = {tariff.calendar}
            /\ PeriodStart(tariff.calendar, x) \in DOMAIN memory.baselines
            => \A b \in Boundaries(tariff, now) : b \in Int /\ PeriodStart(tariff.calendar, x) <= b =>
                 b \in DOMAIN memory.baselines /\ TotalIsExact(memory, r, b))
    BY <1>4
  <2> DEFINE E == Int
  <2> HIDE DEF P, r, s, E
  <2> QED BY <1>0, <1>1, <1>2, <2>1, PartialTotals DEF P, s, r, E
<1>8. BoundariesAreKnown'
  <2>1. \A y \in DirtyFrom(m) : \A h \in Hours : h < y => Readings'[h] = Readings[h]
    OBVIOUS
  <2> QED BY <1>0, <2>1, BoundariesAfterPass
<1> QED BY <1>5, <1>6, <1>7, <1>8

-----------------------------------------------------------------------------
(* Publishing.                                                             *)
FormInv ==
    /\ NothingReadNothingKept
    /\ MemoryShape(memory, EarliestOf(ledger))
    /\ rows.energy[Import] = [h \in DOMAIN rows.energy[Import] |-> rows.energy[Import][h]]

\* Without faults a pass succeeds, and no mark is left.
LEMMA NoPassFails ==
    ASSUME Faultless, MarksInv, NEW marks, NEW used \in Nat, Publishes(marks, used)
    PROVE  /\ PassSucceeds(marks) /\ pending' = {}
           /\ spent' \in [answers : Nat, inputs : Nat, lost : Nat, stopped : Nat, failed : Nat]
<1>1. spent.failed \in Nat /\ spent.answers \in Nat
  BY DEF MarksInv, MarksAreSimple
<1>2. PassSucceeds(marks) /\ spent' = [spent EXCEPT !.answers = @ + used]
  BY <1>1 DEF Publishes, Faultless
<1> QED BY <1>1, <1>2 DEF PassSucceeds, MarksInv, MarksAreSimple

\* Nothing is published of a ledger that holds nothing.
LEMMA PublishesNothing ==
    ASSUME TypeOK, TypeOK', Faultless, MarksInv, LedgerGrows, HoursRead(Readings') = {},
           NEW marks, PassSucceeds(marks)
    PROVE  AllExact' /\ FormInv'
<1>1. HoursRead(Readings) = {} /\ HoursKnown(ledger') = {}
  BY OneDirection DEF LedgerGrows, TypeOK, Readings
<1>2. rows' = rows /\ memory' = memory
  BY <1>1 DEF PassSucceeds
<1> QED BY <1>1, <1>2 DEF AllExact, FormInv, MarksInv, NothingReadNothingKept, MemoryShape, BoundariesAreKnown

\* A pass is made for one of the marks.
LEMMA PassOfMark ==
    ASSUME Faultless, TypeOK', HoursRead(Readings') # {}, NEW marks, marks # {}, PassSucceeds(marks)
    PROVE  \E m \in marks : PassDone(m)
<1>1. HoursKnown(ledger') # {}
  BY OneDirection DEF TypeOK, Readings
<1> QED BY <1>1 DEF PassSucceeds, PassDone

\* Marks for everything leave everything exact.
LEMMA PublishesEverything ==
    ASSUME TypeOK, TypeOK', Faultless, MarksInv, LedgerGrows, now' = now,
           NEW marks \in SUBSET Requests, marks # {}, \A m \in marks : DirtyFrom(m) = {},
           PassSucceeds(marks)
    PROVE  AllExact' /\ FormInv'
<1>0. ledger' \in Ledgers
  BY DEF TypeOK
<1>1. CASE HoursRead(Readings') = {}
  BY <1>1, PublishesNothing
<1>2. CASE HoursRead(Readings') # {}
  <2>1. PICK m \in marks : PassDone(m)
    BY <1>2, PassOfMark
  <2>2. m \in Requests /\ DirtyFrom(m) = {}
    OBVIOUS
  <2> QED BY <1>0, <1>2, <2>1, <2>2, FullPassSettles, PassKeepsForm DEF FormInv
<1> QED BY <1>1, <1>2

\* The promises, the form and the marks are the invariant.
LEMMA SettledInv ==
    (RowsAreExact /\ CostsAreExact /\ NothingStale /\ TotalsAreExact /\ TakenBackIsPublished)'
      /\ FormInv' /\ MarksAreSimple' => MarksInv'
BY DEF FormInv, MarksInv

\* While a walk is going on nothing is promised.
LEMMA WalksPromiseNothing ==
    walks' # {} => (RowsAreExact /\ CostsAreExact /\ NothingStale /\ TotalsAreExact /\ TakenBackIsPublished)'
BY DEF RowsAreExact, CostsAreExact, NothingStale, TotalsAreExact, TakenBackIsPublished, Owed

\* The mark a start leaves has no dirty hour.
LEMMA EverythingIsFull == DirtyFrom(Everything) = {} /\ Everything \in Requests
BY DEF DirtyFrom, Everything, Requests

-----------------------------------------------------------------------------
(* The steps that publish.                                                 *)
LEMMA InitMarksInv == Init => MarksInv
<1> SUFFICES ASSUME Init PROVE MarksInv
  OBVIOUS
<1>1. pending = {Everything} /\ memory = NoMemory /\ poll = IdlePoll /\ rows.energy[Import] = <<>>
  BY ProjectorAssumption DEF Init
<1>2. HoursRead(Readings) = {}
  BY ProjectorAssumption DEF Init, Readings, HoursRead
<1>3. DOMAIN memory.baselines = {} /\ memory.inputs = {} /\ memory.calendar = {}
  BY <1>1 DEF NoMemory
<1>4. MarksAreSimple
  BY <1>1 DEF Init, MarksAreSimple
<1>5. rows.energy[Import] = [h \in DOMAIN rows.energy[Import] |-> rows.energy[Import][h]]
      /\ DOMAIN rows.energy[Import] = {}
  BY <1>1
<1>6. MemoryShape(memory, EarliestOf(ledger))
  BY <1>3 DEF MemoryShape
<1>7. RowsAreExact /\ CostsAreExact /\ NothingStale /\ TotalsAreExact /\ TakenBackIsPublished
  BY <1>1, <1>2, <1>3, <1>5 DEF RowsAreExact, CostsAreExact, NothingStale, TotalsAreExact, TakenBackIsPublished
<1> QED BY <1>3, <1>4, <1>5, <1>6, <1>7 DEF MarksInv, NothingReadNothingKept

\* What is marked while nothing or everything is.
LEMMA MarkedFrom ==
    ASSUME NEW changed \in SUBSET Hours, changed # {}, NEW deleted
    PROVE  /\ Marked({}, changed, deleted) = {[from |-> {Min(changed)}, reset |-> deleted]}
           /\ deleted # {} => \A m \in Marked({}, changed, deleted) : DirtyFrom(m) = {}
           /\ deleted = {} => DirtyFrom([from |-> {Min(changed)}, reset |-> deleted]) = {Min(changed)}
           /\ Min(changed) \in changed /\ Min(changed) \in Nat /\ \A h \in changed : Min(changed) <= h
<1>1. Marked({}, changed, deleted) = {[from |-> {Min(changed)}, reset |-> deleted]}
  BY DEF Marked
<1>2. changed \in SUBSET Nat
  BY HoursAreNatural
<1>3. Min(changed) \in changed /\ Min(changed) \in Nat /\ \A h \in changed : Min(changed) <= h
  BY <1>2, MinIsLeast
<1> QED BY <1>1, <1>3 DEF DirtyFrom

\* A poll that ends publishes what it changed.
LEMMA PollEndsInv ==
    ASSUME TypeOK, TypeOK', Faultless, MarksInv, PollEnds
    PROVE  MarksInv'
<1> DEFINE marks == Marked(pending, poll.changed, poll.deleted)
<1>1. ledger' = ledger /\ Readings' = Readings /\ now' = now /\ walks' = walks /\ poll' = IdlePoll
      /\ tariff' = tariff /\ LedgerGrows
  <2>1. ledger' = ledger /\ Readings' = Readings /\ now' = now /\ walks' = walks /\ poll' = IdlePoll
        /\ tariff' = tariff
    BY DEF PollEnds, Readings
  <2>2. HoursRead(Readings) # {} => EarliestOf(ledger) \in Nat
    BY OneDirection, Earliest DEF TypeOK, Readings
  <2> QED BY <2>1, <2>2 DEF LedgerGrows
<1>2. PassSucceeds(marks) /\ pending' = {}
      /\ spent' \in [answers : Nat, inputs : Nat, lost : Nat, stopped : Nat, failed : Nat]
  <2>1. Publishes(marks, 0)
    BY DEF PollEnds
  <2> HIDE DEF marks
  <2> QED BY <2>1, NoPassFails
<1>3. MarksAreSimple'
  BY <1>1, <1>2 DEF MarksAreSimple
<1>4. marks \in SUBSET Requests
  BY MarkedType DEF TypeOK
<1>5. ASSUME marks # {}, \A m \in marks : DirtyFrom(m) = {} PROVE MarksInv'
  <2> HIDE DEF marks
  <2> QED BY <1>1, <1>2, <1>3, <1>4, <1>5, PublishesEverything, AllExactIsEnough, SettledInv
<1>6. CASE pending # {}
  <2>1. pending = {Everything}
    BY <1>6 DEF MarksInv, MarksAreSimple
  <2>2. marks # {} /\ \A m \in marks : DirtyFrom(m) = {}
    BY <2>1, EverythingIsFull, EverythingStaysMarked
  <2> QED BY <1>5, <2>2
<1>7. CASE pending = {} /\ poll.changed = {}
  <2>1. marks = {} /\ poll' = poll
    BY <1>1, <1>7 DEF Marked, MarksInv, MarksAreSimple
  <2>2. rows' = rows /\ memory' = memory /\ pending' = pending
    BY <1>2, <1>7, <2>1 DEF PassSucceeds
  <2>3. \A h : Owed(h)' <=> Owed(h)
    BY <1>1, <2>1, <2>2 DEF Owed
  <2>4. (RowsAreExact /\ CostsAreExact /\ NothingStale /\ TotalsAreExact /\ TakenBackIsPublished)'
    BY <1>1, <2>1, <2>2, <2>3 DEF MarksInv, RowsAreExact, CostsAreExact, NothingStale, TotalsAreExact,
          TakenBackIsPublished, RowIsExact, CostRowIsExact, BoundariesAreKnown
  <2>5. FormInv'
    BY <1>1, <2>2 DEF MarksInv, FormInv, NothingReadNothingKept
  <2> QED BY <1>3, <2>4, <2>5, SettledInv
<1>8. CASE pending = {} /\ poll.changed # {} /\ poll.deleted # {}
  <2>1. marks # {} /\ \A m \in marks : DirtyFrom(m) = {}
    <3>1. poll.changed \in SUBSET Hours
      BY DEF TypeOK
    <3>2. \A m \in Marked({}, poll.changed, poll.deleted) : DirtyFrom(m) = {}
      BY <1>8, <3>1, MarkedFrom
    <3>3. Marked({}, poll.changed, poll.deleted) # {}
      BY <1>8 DEF Marked
    <3> QED BY <1>8, <3>2, <3>3
  <2> QED BY <1>5, <2>1
<1>9. CASE pending = {} /\ poll.changed # {} /\ poll.deleted = {}
  <2> DEFINE x == Min(poll.changed)
  <2> DEFINE m == [from |-> {x}, reset |-> {}]
  <2>1. marks = {m} /\ DirtyFrom(m) = {x} /\ x \in Nat /\ \A c \in poll.changed : x <= c
    <3>1. poll.changed \in SUBSET Hours /\ pending = {} /\ poll.changed # {} /\ poll.deleted = {}
      BY <1>9 DEF TypeOK
    <3>2. Marked({}, poll.changed, poll.deleted) = {[from |-> {x}, reset |-> poll.deleted]}
      BY <3>1, MarkedFrom
    <3>3. x \in Nat /\ \A c \in poll.changed : x <= c
      BY <3>1, MarkedFrom
    <3>4. DirtyFrom(m) = {x}
      BY DEF DirtyFrom
    <3> HIDE DEF x
    <3> QED BY <3>1, <3>2, <3>3, <3>4
  <2>2. m \in Requests
    BY <1>4, <2>1
  <2>3. CASE HoursRead(Readings') = {}
    BY <1>1, <1>2, <1>3, <2>3, PublishesNothing, AllExactIsEnough, SettledInv
  <2>4. CASE HoursRead(Readings') # {}
    <3>1. PassDone(m)
      <4> HIDE DEF m, marks
      <4> QED BY <1>2, <2>1, <2>4, PassOfMark
    <3>2. FormInv'
      <4> HIDE DEF m
      <4> QED BY <1>1, <2>2, <2>4, <3>1, PassKeepsForm DEF FormInv, TypeOK
    <3>3. TakenBackIsPublished'
      BY <1>1 DEF TakenBackIsPublished, IdlePoll
    <3>4. CASE walks # {}
      BY <1>1, <1>3, <3>2, <3>4, WalksPromiseNothing, SettledInv
    <3>5. CASE walks = {}
      <4>1. Ahead(x)
        <5>1. \A c \in poll.changed : c \in Int
          BY HoursAreNatural DEF TypeOK
        <5>2. ASSUME NEW h \in Int, h < x PROVE ~Owed(h)
          BY <1>9, <2>1, <3>5, <5>1, <5>2 DEF Owed
        <5> QED BY <1>1, <5>2 DEF Ahead
      <4>2. SilenceIsKnown(x)
        <5> SUFFICES ASSUME Silent(Readings', PeriodStart(tariff.calendar, x)),
                            memory.calendar = {tariff.calendar},
                            PeriodStart(tariff.calendar, x) \in DOMAIN memory.baselines,
                            NEW b \in Boundaries(tariff, now), PeriodStart(tariff.calendar, x) <= b
                     PROVE  b \in DOMAIN memory.baselines /\ TotalIsExact(memory, Readings', b)
          BY DEF SilenceIsKnown
        <5> DEFINE s == PeriodStart(tariff.calendar, x)
        <5>1. s \in Int /\ s <= x
          BY <2>1, PeriodOfTariff DEF TypeOK
        <5>2. \A c \in poll.changed : c \in Int
          BY HoursAreNatural DEF TypeOK
        <5>3. \A c \in poll.changed : c \notin HoursRead(Readings)
          <6> HIDE DEF s, x
          <6> QED BY <1>1, <2>1, <5>1, <5>2 DEF Silent, s
        <5>4. (\A a \in DOMAIN memory.baselines : TotalIsExact(memory, Readings, a)) /\ BoundariesAreKnown
          BY <1>9, <3>5, <5>3 DEF MarksInv, TakenBackIsPublished
        <5>5. b \in DOMAIN memory.baselines \/ b < EarliestOf(ledger)
          BY <5>4 DEF BoundariesAreKnown, Boundaries
        <5>6. EarliestOf(ledger) <= s
          BY DEF MarksInv, MemoryShape
        <5>7. EarliestOf(ledger) \in Nat /\ b \in Int
          BY <1>1, <2>4, OneDirection, Earliest, BoundariesType, ProjectorAssumption DEF TypeOK, Readings
        <5> QED BY <1>1, <5>1, <5>4, <5>5, <5>6, <5>7
      <4> HIDE DEF x, m
      <4>3. (RowsAreExact /\ CostsAreExact /\ NothingStale /\ TotalsAreExact)'
        BY <1>1, <1>9, <2>1, <2>2, <2>4, <3>1, <3>5, <4>1, <4>2, PartialPassSettles
      <4> QED BY <1>3, <3>2, <3>3, <4>3, SettledInv
    <3> QED BY <3>4, <3>5
  <2> QED BY <2>3, <2>4
<1> QED BY <1>6, <1>7, <1>8, <1>9

\* The worker stores a window and publishes it, whatever a poll has in hand.
LEMMA WorkerStoresInv ==
    ASSUME TypeOK, TypeOK', Faultless, MarksInv, NEW d \in Directions, WorkerStores(d)
    PROVE  MarksInv'
<1> DEFINE marks == Marked(pending, Changed, Deleted)
<1> DEFINE x == Min(Changed)
<1>1. /\ now' = now /\ walks' = walks /\ poll' = poll /\ tariff' = tariff
      /\ Stores(d, Windows) /\ Publishes(marks, 1)
  BY DEF WorkerStores
<1>2. /\ x \in Nat /\ \A h \in Changed : x <= h
      /\ \A h \in Hours : h < x => Readings'[h] = Readings[h]
      /\ Deleted = {} => HoursRead(Readings) \subseteq HoursRead(Readings') /\ Changed \subseteq HoursRead(Readings')
      /\ HoursRead(Readings') # {} /\ LedgerGrows
  BY <1>1, ChangesAre DEF LedgerGrows
<1>3. PassSucceeds(marks) /\ pending' = {}
      /\ spent' \in [answers : Nat, inputs : Nat, lost : Nat, stopped : Nat, failed : Nat]
  <2> HIDE DEF marks
  <2> QED BY <1>1, NoPassFails
<1>4. MarksAreSimple'
  BY <1>1, <1>3 DEF MarksAreSimple, MarksInv
<1>5. Changed \in SUBSET Hours /\ Changed # {} /\ Deleted \in SUBSET Directions
  BY <1>1, StoresType DEF TypeOK
<1>6. marks \in SUBSET Requests
  BY <1>5, MarkedType DEF TypeOK
<1>7. ASSUME marks # {}, \A m \in marks : DirtyFrom(m) = {} PROVE MarksInv'
  <2> HIDE DEF marks
  <2> QED BY <1>1, <1>2, <1>3, <1>4, <1>6, <1>7, PublishesEverything, AllExactIsEnough, SettledInv
<1>8. CASE pending # {}
  <2>1. pending = {Everything}
    BY <1>8 DEF MarksInv, MarksAreSimple
  <2>2. marks # {} /\ \A m \in marks : DirtyFrom(m) = {}
    BY <2>1, EverythingIsFull, EverythingStaysMarked
  <2> QED BY <1>7, <2>2
<1>9. CASE pending = {} /\ Deleted # {}
  <2>1. \A m \in Marked({}, Changed, Deleted) : DirtyFrom(m) = {}
    BY <1>5, <1>9, MarkedFrom
  <2>2. Marked({}, Changed, Deleted) # {}
    BY <1>5 DEF Marked
  <2> QED BY <1>7, <1>9, <2>1, <2>2
<1>10. CASE pending = {} /\ Deleted = {}
  <2> DEFINE m == [from |-> {x}, reset |-> {}]
  <2>1. marks = {m} /\ DirtyFrom(m) = {x}
    <3>1. Marked({}, Changed, Deleted) = {[from |-> {x}, reset |-> Deleted]}
      BY <1>5, MarkedFrom
    <3> QED BY <1>10, <3>1 DEF DirtyFrom
  <2>2. m \in Requests
    BY <1>6, <2>1
  <2>3. PassDone(m)
    <3> HIDE DEF m, marks
    <3> QED BY <1>2, <1>3, <2>1, PassOfMark
  <2>4. FormInv'
    <3> HIDE DEF m
    <3> QED BY <1>2, <2>2, <2>3, PassKeepsForm DEF FormInv, TypeOK
  <2>5. CASE walks # {}
    BY <1>1, <1>4, <2>4, <2>5, WalksPromiseNothing, SettledInv
  <2>6. CASE walks = {}
    <3>1. ~Silent(Readings', PeriodStart(tariff.calendar, x))
      <4>1. PeriodStart(tariff.calendar, x) \in Int /\ PeriodStart(tariff.calendar, x) <= x
        BY <1>2, PeriodOfTariff DEF TypeOK
      <4>2. x \in HoursRead(Readings')
        BY <1>2, <1>5, <1>10, MarkedFrom
      <4> HIDE DEF x
      <4> QED BY <1>2, <4>1, <4>2 DEF Silent
    <3>2. SilenceIsKnown(x)
      BY <3>1 DEF SilenceIsKnown
    <3>3. Ahead(x)
      BY <1>1, <1>2, <1>10 DEF Ahead, Owed
    <3>4. (RowsAreExact /\ CostsAreExact /\ NothingStale /\ TotalsAreExact)'
      <4> HIDE DEF x, m
      <4> QED BY <1>1, <1>2, <1>10, <2>1, <2>2, <2>3, <2>6, <3>2, <3>3, PartialPassSettles
    <3>5. TakenBackIsPublished'
      <4> SUFFICES ASSUME poll.changed # {}, poll.deleted = {},
                          \A c \in poll.changed : c \notin HoursRead(Readings')
                   PROVE  (\A b \in DOMAIN memory.baselines : TotalIsExact(memory, Readings, b))'
                          /\ BoundariesAreKnown'
        BY <1>1 DEF TakenBackIsPublished
      <4>1. \A c \in poll.changed : c \notin HoursRead(Readings)
        BY <1>2, <1>10
      <4>2. (\A b \in DOMAIN memory.baselines : TotalIsExact(memory, Readings, b)) /\ BoundariesAreKnown
        BY <1>10, <2>6, <4>1 DEF MarksInv, TakenBackIsPublished
      <4> HIDE DEF x, m
      <4> QED BY <1>1, <1>2, <2>1, <2>2, <2>3, <3>1, <4>2, PartialPassKeepsAll
    <3> QED BY <1>4, <2>4, <3>4, <3>5, SettledInv
  <2> QED BY <2>5, <2>6
<1> QED BY <1>8, <1>9, <1>10

\* A ledger that stays has grown, trivially.
LEMMA SameLedgerGrows ==
    ASSUME TypeOK, ledger' = ledger
    PROVE  LedgerGrows /\ Readings' = Readings
<1>1. HoursRead(Readings) # {} => EarliestOf(ledger) \in Nat
  <2>1. HoursRead(Readings) # {} => HoursKnown(ledger) # {}
    BY ProjectorAssumption DEF HoursKnown, Readings
  <2> QED BY <2>1, Earliest DEF TypeOK
<1> QED BY <1>1 DEF LedgerGrows, Readings

\* A tariff that changes is a pass over every hour of cost.
LEMMA RepricesInv ==
    ASSUME TypeOK, TypeOK', Faultless, MarksInv, Reprices
    PROVE  MarksInv'
<1> DEFINE m == [from |-> {now}, reset |-> {}]
<1> DEFINE marks == IF pending = {} THEN {m} ELSE pending
<1>1. /\ ledger' = ledger /\ now' = now /\ walks' = walks /\ poll' = poll /\ tariff' = tariff
      /\ Publishes(marks, 0) /\ Readings' = Readings /\ LedgerGrows
  BY SameLedgerGrows DEF Reprices
<1>2. PassSucceeds(marks) /\ pending' = {}
      /\ spent' \in [answers : Nat, inputs : Nat, lost : Nat, stopped : Nat, failed : Nat]
  <2> HIDE DEF marks
  <2> QED BY <1>1, NoPassFails
<1>3. MarksAreSimple'
  BY <1>1, <1>2 DEF MarksAreSimple, MarksInv
<1>4. CASE pending # {}
  <2>1. pending = {Everything}
    BY <1>4 DEF MarksInv, MarksAreSimple
  <2>2. marks = {Everything}
    BY <2>1
  <2> HIDE DEF marks
  <2>3. marks \in SUBSET Requests /\ marks # {} /\ \A q \in marks : DirtyFrom(q) = {}
    BY <2>2, EverythingIsFull
  <2> QED BY <1>1, <1>2, <1>3, <2>3, PublishesEverything, AllExactIsEnough, SettledInv
<1>5. CASE pending = {} /\ HoursRead(Readings') = {}
  BY <1>1, <1>2, <1>3, <1>5, PublishesNothing, AllExactIsEnough, SettledInv
<1>6. CASE pending = {} /\ HoursRead(Readings') # {}
  <2>1. now \in Nat /\ DirtyFrom(m) = {now} /\ m \in Requests
    <3>1. now \in Nat /\ now \in Hours \cup {LastHour + 1}
      BY ProjectorAssumption DEF TypeOK, Hours
    <3>2. {now} \in {{}} \cup {{h} : h \in Hours \cup {LastHour + 1}}
      BY <3>1
    <3> QED BY <3>1, <3>2 DEF Requests, DirtyFrom
  <2>2. PassDone(m)
    <3>1. marks = {m}
      BY <1>6
    <3> HIDE DEF m, marks
    <3> QED BY <1>2, <1>6, <3>1, PassOfMark
  <2>3. FormInv'
    <3> HIDE DEF m
    <3> QED BY <1>1, <1>6, <2>1, <2>2, PassKeepsForm DEF FormInv, TypeOK
  <2>4. CASE walks # {}
    BY <1>1, <1>3, <2>3, <2>4, WalksPromiseNothing, SettledInv
  <2>5. CASE walks = {}
    <3> DEFINE s == PeriodStart(tariff.calendar, now)
    <3>1. \A b \in Boundaries(tariff, now) : s <= b => b = s /\ b \in Int
      <4>1. s \in Int
        BY <2>1, PeriodOfTariff DEF TypeOK
      <4>2. Boundaries(tariff, now) \subseteq Int /\ \A b \in Boundaries(tariff, now) : b <= s
        BY <2>1, BoundariesType DEF TypeOK
      <4> QED BY <4>1, <4>2
    <3>2. \A b : Owed(b)' <=> Owed(b)
      BY <1>1, <1>2, <1>6 DEF Owed
    <3>3. SilenceIsKnown(now)
      <4> SUFFICES ASSUME s \in DOMAIN memory.baselines, NEW b, b = s
                   PROVE  b \in DOMAIN memory.baselines /\ (Owed(b - 1)' \/ TotalIsExact(memory, Readings', b))
        BY <3>1 DEF SilenceIsKnown
      <4>1. b \in DOMAIN memory.baselines
        OBVIOUS
      <4>2. Owed(b - 1) \/ TotalIsExact(memory, Readings, b)
        BY <4>1 DEF MarksInv, TotalsAreExact
      <4>3. Readings' = Readings
        BY <1>1
      <4> HIDE DEF s
      <4> QED BY <3>2, <4>1, <4>2, <4>3
    <3>4. Ahead(now)
      BY <1>1, <3>2 DEF Ahead
    <3>5. (RowsAreExact /\ CostsAreExact /\ NothingStale /\ TotalsAreExact)'
      <4> HIDE DEF m, s
      <4> QED BY <1>1, <1>6, <2>1, <2>2, <2>5, <3>3, <3>4, PartialPassSettles
    <3>6. TakenBackIsPublished'
      <4> SUFFICES ASSUME poll.changed # {}, poll.deleted = {},
                          \A c \in poll.changed : c \notin HoursRead(Readings)
                   PROVE  (\A b \in DOMAIN memory.baselines : TotalIsExact(memory, Readings, b))'
                          /\ BoundariesAreKnown'
        BY <1>1 DEF TakenBackIsPublished
      <4>1. (\A b \in DOMAIN memory.baselines : TotalIsExact(memory, Readings, b)) /\ BoundariesAreKnown
        BY <1>6, <2>5 DEF MarksInv, TakenBackIsPublished
      <4>2. s \in DOMAIN memory.baselines => \A b \in Boundaries(tariff, now) : s <= b =>
                 b \in DOMAIN memory.baselines /\ TotalIsExact(memory, Readings', b)
        BY <1>1, <3>1, <4>1
      <4> HIDE DEF m
      <4> QED BY <1>1, <1>6, <2>1, <2>2, <4>1, <4>2, PartialPassKeepsAll
    <3> QED BY <1>3, <2>3, <3>5, <3>6, SettledInv
  <2> QED BY <2>4, <2>5
<1> QED BY <1>4, <1>5, <1>6

\* The end of a walk publishes everything.
LEMMA WalkEndsInv ==
    ASSUME TypeOK, TypeOK', Faultless, MarksInv, NEW d \in Directions, WalkEnds(d)
    PROVE  MarksInv'
<1> DEFINE marks == MarkedReset(pending, d)
<1>1. now' = now /\ tariff' = tariff /\ poll' = poll
      /\ \/ ledger' = ledger /\ Publishes(marks, 0)
         \/ Stores(d, Windows) /\ Publishes(marks, 1)
  BY DEF WalkEnds
<1>2. LedgerGrows
  BY <1>1, SameLedgerGrows, ChangesAre DEF LedgerGrows
<1>3. marks \in SUBSET Requests
  BY MarkedResetType DEF TypeOK
<1>4. marks # {} /\ \A m \in marks : DirtyFrom(m) = {}
  BY DEF MarkedReset, DirtyFrom
<1> HIDE DEF marks
<1>5. PassSucceeds(marks) /\ pending' = {}
      /\ spent' \in [answers : Nat, inputs : Nat, lost : Nat, stopped : Nat, failed : Nat]
  BY <1>1, NoPassFails
<1>6. MarksAreSimple'
  BY <1>1, <1>5 DEF MarksAreSimple, MarksInv
<1> QED BY <1>1, <1>2, <1>3, <1>4, <1>5, <1>6, PublishesEverything, AllExactIsEnough, SettledInv

\* The ledger grows, and nothing is published.
LEMMA StoresQuietly ==
    ASSUME TypeOK, TypeOK', Faultless, MarksInv, NEW d \in Directions, NEW ws \in SUBSET Windows, Stores(d, ws),
           UNCHANGED <<rows, memory, pending>>
    PROVE  /\ FormInv'
           /\ \A x \in Nat : x = Min(Changed) =>
                /\ x \in Changed /\ \A h \in Int : h < x /\ ~Owed(h) /\ h \in HoursRead(Readings')
                                        => RowIsExact(h)' /\ CostRowIsExact(h)'
                /\ \A b \in DOMAIN memory.baselines : b <= x /\ ~Owed(b - 1) => TotalIsExact(memory, Readings', b)
<1> DEFINE x == Min(Changed)
<1>1. /\ x \in Nat /\ \A h \in Hours : h < x => Readings'[h] = Readings[h]
      /\ HoursRead(Readings') # {} /\ LedgerGrows /\ ledger' \in Ledgers
  BY ChangesAre DEF LedgerGrows, TypeOK
<1>2. x \in Changed
  <2>1. Changed # {} /\ Changed \in SUBSET Nat
    BY StoresType, HoursAreNatural DEF TypeOK
  <2> QED BY <2>1, MinIsLeast
<1>3. IsReadings(Readings) /\ IsReadings(Readings')
  BY OneDirection DEF TypeOK, Readings
<1>4. FormInv'
  <2>1. MemoryShape(memory, EarliestOf(ledger'))
    BY <1>1, MemoryOfLedger
  <2> QED BY <1>1, <2>1 DEF FormInv, MarksInv, NothingReadNothingKept
<1> HIDE DEF x
<1>5. \A t \in memory.inputs : t \in Tariffs
  BY InputsType DEF MarksInv, MemoryShape
<1>6. tariff \in Tariffs
  BY DEF TypeOK
<1>7. ASSUME NEW h \in Int, h < x, ~Owed(h), h \in HoursRead(Readings')
      PROVE  RowIsExact(h)' /\ CostRowIsExact(h)'
  <2>1. \A k \in Hours : k < x => Readings[k] = Readings'[k]
    BY <1>1
  <2>2. h \in HoursRead(Readings) /\ EnergyRows(Readings, 0, 0)[h] = EnergyRows(Readings', 0, 0)[h]
    BY <1>1, <1>3, <1>6, <1>7, <2>1, SameBelow
  <2>3. \A t \in memory.inputs : CostRows(Readings, t, 0, 0)[h] = CostRows(Readings', t, 0, 0)[h]
    BY <1>1, <1>3, <1>5, <1>7, <2>1, SameBelow
  <2>4. RowIsExact(h) /\ CostRowIsExact(h)
    BY <1>7, <2>2 DEF MarksInv, RowsAreExact, CostsAreExact
  <2>5. RowIsExact(h)'
    BY <2>2, <2>4 DEF RowIsExact
  <2>6. CostRowIsExact(h)'
    BY <2>3, <2>4 DEF CostRowIsExact
  <2> QED BY <2>5, <2>6
<1>8. ASSUME NEW b \in DOMAIN memory.baselines, b <= x, ~Owed(b - 1)
      PROVE  TotalIsExact(memory, Readings', b)
  <2>1. TotalIsExact(memory, Readings, b) /\ b \in Int
    BY <1>8 DEF MarksInv, TotalsAreExact, MemoryShape
  <2>2. x \in Int
    BY <1>1
  <2> QED BY <1>1, <1>8, <2>1, <2>2, TotalsBelow
<1> QED BY <1>2, <1>4, <1>7, <1>8 DEF x

\* A poll stores and has not published yet.
LEMMA PollReadsInv ==
    ASSUME TypeOK, TypeOK', Faultless, MarksInv, NEW d \in Directions, PollReads(d)
    PROVE  MarksInv'
<1> DEFINE x == Min(Changed)
<1>1. /\ Stores(d, RecentWindow) /\ UNCHANGED <<now, rows, memory, pending, tariff, walks>>
      /\ poll' = [reading |-> TRUE, changed |-> poll.changed \cup Changed, deleted |-> poll.deleted \cup Deleted]
      /\ spent' = [spent EXCEPT !.answers = @ + 1]
  BY DEF PollReads
<1>2. RecentWindow \in SUBSET Windows
  BY WindowsAreHours
<1>3. /\ FormInv' /\ x \in Nat /\ x \in Changed
      /\ \A h \in Int : h < x /\ ~Owed(h) /\ h \in HoursRead(Readings') => RowIsExact(h)' /\ CostRowIsExact(h)'
      /\ \A b \in DOMAIN memory.baselines : b <= x /\ ~Owed(b - 1) => TotalIsExact(memory, Readings', b)
  <2>1. x \in Nat
    BY <1>1, <1>2, ChangesAre
  <2> QED BY <1>1, <1>2, <2>1, StoresQuietly
<1>4. Deleted = {} => HoursRead(Readings) \subseteq HoursRead(Readings') /\ Changed \subseteq HoursRead(Readings')
  BY <1>1, <1>2, ChangesAre
<1> HIDE DEF x
<1>5. ASSUME NEW h \in Int, ~Owed(h)' PROVE h < x /\ ~Owed(h)
  BY <1>1, <1>3, <1>5 DEF Owed
<1>6. HoursRead(Readings') \subseteq Int
  BY OneDirection, HoursAreFinite DEF TypeOK, Readings
<1>7. RowsAreExact' /\ CostsAreExact'
  BY <1>3, <1>5, <1>6 DEF RowsAreExact, CostsAreExact
<1>8. TotalsAreExact'
  <2> SUFFICES ASSUME NEW b \in DOMAIN memory.baselines, ~Owed(b - 1)'
               PROVE  TotalIsExact(memory, Readings', b)
    BY <1>1 DEF TotalsAreExact
  <2>1. b \in Int
    BY DEF MarksInv, MemoryShape
  <2>2. b - 1 \in Int /\ b - 1 < x /\ ~Owed(b - 1)
    BY <1>5, <2>1
  <2> QED BY <1>3, <2>1, <2>2
<1>9. NothingStale'
  BY <1>1, <1>4 DEF NothingStale, MarksInv
<1>10. TakenBackIsPublished'
  BY <1>1, <1>3, <1>4 DEF TakenBackIsPublished
<1>11. MarksAreSimple'
  BY <1>1, <1>3 DEF MarksInv, MarksAreSimple
<1> QED BY <1>3, <1>7, <1>8, <1>9, <1>10, <1>11, SettledInv

\* A walk stores and publishes nothing until it ends.
LEMMA WalkStoresInv ==
    ASSUME TypeOK, TypeOK', Faultless, MarksInv, NEW d \in Directions, WalkStores(d)
    PROVE  MarksInv'
<1>1. /\ Stores(d, Windows) /\ UNCHANGED <<now, rows, memory, pending, tariff, poll, walks>> /\ d \in walks
      /\ spent' = [spent EXCEPT !.answers = @ + 1]
  BY DEF WalkStores
<1>2. FormInv'
  BY <1>1, StoresQuietly
<1>3. MarksAreSimple'
  BY <1>1 DEF MarksInv, MarksAreSimple
<1> QED BY <1>1, <1>2, <1>3, WalksPromiseNothing, SettledInv

\* The clock, the inputs of the cost and a walk that begins owe no pass less.
LEMMA QuietSteps ==
    ASSUME TypeOK, MarksInv, UNCHANGED <<ledger, rows, memory, pending, poll>>,
           walks' # {} \/ walks' = walks, now' = now \/ poll.changed = {},
           spent' \in [answers : Nat, inputs : Nat, lost : Nat, stopped : Nat, failed : Nat]
    PROVE  MarksInv'
<1>1. MarksAreSimple' /\ FormInv' /\ Readings' = Readings
  BY DEF MarksInv, MarksAreSimple, FormInv, NothingReadNothingKept, Readings
<1>2. CASE walks' # {}
  BY <1>1, <1>2, WalksPromiseNothing, SettledInv
<1>3. CASE walks' = walks
  <2>1. \A h : Owed(h)' <=> Owed(h)
    BY <1>3 DEF Owed
  <2>2. (RowsAreExact /\ CostsAreExact /\ NothingStale /\ TotalsAreExact)'
    BY <1>1, <1>3, <2>1 DEF MarksInv, RowsAreExact, CostsAreExact, NothingStale, TotalsAreExact,
          RowIsExact, CostRowIsExact
  <2>3. TakenBackIsPublished'
    BY <1>1, <1>3 DEF MarksInv, TakenBackIsPublished, BoundariesAreKnown
  <2> QED BY <1>1, <2>2, <2>3, SettledInv
<1> QED BY <1>2, <1>3

\* A restart forgets the memory and marks everything.
LEMMA RestartsInv ==
    ASSUME TypeOK, Faultless, MarksInv, Restarts
    PROVE  MarksInv'
<1>1. /\ memory' = NoMemory /\ pending' = {Everything} /\ poll' = IdlePoll
      /\ ledger' = ledger /\ rows' = rows /\ Readings' = Readings
      /\ spent' = [spent EXCEPT !["inputs"] = @ + 1]
  BY DEF Restarts, Readings, Spend
<1>2. (RowsAreExact /\ CostsAreExact /\ NothingStale /\ TotalsAreExact /\ TakenBackIsPublished)'
  BY <1>1 DEF RowsAreExact, CostsAreExact, NothingStale, TotalsAreExact, TakenBackIsPublished, Owed
<1>3. FormInv'
  BY <1>1 DEF FormInv, MarksInv, MemoryShape, NothingReadNothingKept, NoMemory
<1>4. MarksAreSimple'
  BY <1>1 DEF MarksInv, MarksAreSimple
<1> QED BY <1>2, <1>3, <1>4, SettledInv

\* Every step keeps the invariant, one case per action.
LEMMA NextMarksInv ==
    ASSUME TypeOK, TypeOK', Faultless, MarksInv, [Next]_vars
    PROVE  MarksInv'
<1> DEFINE Bounds == [answers : Nat, inputs : Nat, lost : Nat, stopped : Nat, failed : Nat]
<1>1. spent \in Bounds
  BY DEF MarksInv, MarksAreSimple
<1>2. CASE Tick
  <2>1. poll.changed = {}
    BY <1>2 DEF Tick, MarksInv, MarksAreSimple, IdlePoll
  <2> QED BY <1>1, <1>2, <2>1, QuietSteps DEF Tick
<1>3. CASE PollEnds
  BY <1>3, PollEndsInv
<1>4. ~PollAborts
  BY <1>1 DEF PollAborts, Spend, Faultless
<1>5. CASE PriceArrives
  <2>1. spent' \in Bounds
    BY <1>1, <1>5 DEF PriceArrives, Spend
  <2> QED BY <1>5, <2>1, QuietSteps DEF PriceArrives
<1>6. CASE Reprices
  BY <1>6, RepricesInv
<1>7. CASE CalendarMoves
  <2>1. spent' \in Bounds
    BY <1>1, <1>7 DEF CalendarMoves, Spend
  <2> QED BY <1>7, <2>1, QuietSteps DEF CalendarMoves
<1>8. CASE Restarts
  BY <1>8, RestartsInv
<1>9. ASSUME NEW d \in Directions, PollReads(d) PROVE MarksInv'
  BY <1>9, PollReadsInv
<1>10. ASSUME NEW d \in Directions, WorkerStores(d) PROVE MarksInv'
  BY <1>10, WorkerStoresInv
<1>11. ASSUME NEW d \in Directions PROVE ~WorkerStoresUnmarked(d)
  BY <1>1 DEF WorkerStoresUnmarked, Faultless
<1>12. ASSUME NEW d \in Directions, WalkBegins(d) PROVE MarksInv'
  <2>1. spent' \in Bounds
    BY <1>1, <1>12 DEF WalkBegins, Spend
  <2> QED BY <1>12, <2>1, QuietSteps DEF WalkBegins
<1>13. ASSUME NEW d \in Directions, WalkStores(d) PROVE MarksInv'
  BY <1>13, WalkStoresInv
<1>14. ASSUME NEW d \in Directions, WalkEnds(d) PROVE MarksInv'
  BY <1>14, WalkEndsInv
<1>15. ASSUME NEW d \in Directions PROVE ~WalkIsStopped(d)
  BY <1>1 DEF WalkIsStopped, Spend, Faultless
<1>16. CASE UNCHANGED vars
  BY <1>1, <1>16, QuietSteps DEF vars
<1> QED BY <1>2, <1>3, <1>4, <1>5, <1>6, <1>7, <1>8, <1>9, <1>10, <1>11, <1>12, <1>13, <1>14,
           <1>15, <1>16 DEF Next

\* Once every mark is served, the promises are the two properties.
LEMMA ServedIsExact ==
    ASSUME TypeOK, Faultless, MarksInv
    PROVE  EnergyIsExact /\ CostIsExact
<1> SUFFICES ASSUME AllMarksServed PROVE EnergyIsExact /\ CostIsExact
  BY DEF EnergyIsExact, CostIsExact
<1>1. poll.changed = {} /\ poll.deleted = {}
  BY DEF AllMarksServed, MarksInv, MarksAreSimple, IdlePoll
<1>2. \A h : ~Owed(h)
  BY <1>1 DEF Owed, AllMarksServed
<1>3. DOMAIN rows.energy[Import] = HoursRead(Readings)
      /\ \A h \in HoursRead(Readings) : rows.energy[Import][h] = EnergyRows(Readings, 0, 0)[h]
  BY <1>1, <1>2 DEF AllMarksServed, MarksInv, NothingStale, RowsAreExact, RowIsExact
<1>4. HoursRead(Readings) = {h \in HoursRead(Readings) : 0 <= h}
  BY OneDirection, HoursAreFinite DEF TypeOK, Readings
<1>5. rows.energy[Import] = WholeEnergy(Import)
  <2>1. rows.energy[Import] = [h \in HoursRead(Readings) |-> rows.energy[Import][h]]
    BY <1>3 DEF MarksInv
  <2>2. EnergyRows(Readings, 0, 0) = [h \in HoursRead(Readings) |-> EnergyRows(Readings, 0, 0)[h]]
    BY <1>4 DEF EnergyRows
  <2>3. rows.energy[Import] = EnergyRows(Readings, 0, 0)
    BY <1>3, <2>1, <2>2
  <2> QED BY <2>3 DEF WholeEnergy, Readings
<1>6. EnergyIsExact
  BY <1>5 DEF EnergyIsExact, Faultless
<1>7. CostIsExact
  <2> SUFFICES ASSUME CostIsCurrent, NEW h \in HoursRead(Readings)
               PROVE  h \in DOMAIN rows.cost /\ rows.cost[h] = WholeCost[h]
    BY DEF CostIsExact, Readings
  <2>1. tariff \in memory.inputs /\ IsPriceable(tariff)
    BY DEF CostIsCurrent, Inputs
  <2> QED BY <1>2, <2>1 DEF MarksInv, CostsAreExact, CostRowIsExact, WholeCost, Readings
<1> QED BY <1>6, <1>7

-----------------------------------------------------------------------------
\* Once nothing is marked and no poll or walk has anything in hand, the rows of
\* energy are those of a pass over the whole ledger, made at once: whatever the
\* order in which polls, the worker, walks, tariff changes and restarts came,
\* and whatever they resumed from (statistics_runtime.async_project,
\* statistics.project).
THEOREM PublishedEnergyIsExact ==
    ASSUME Faultless
    PROVE  Spec => []EnergyIsExact
<1>1. Init => MarksInv
  BY InitMarksInv
<1>2. MarksInv /\ TypeOK /\ TypeOK' /\ [Next]_vars => MarksInv'
  BY NextMarksInv
<1>3. TypeOK /\ MarksInv => EnergyIsExact
  BY ServedIsExact
<1> QED BY <1>1, <1>2, <1>3, MarksAreTyped, PTL DEF Spec

\* And, where the cost was last computed with the present tariff, every hour
\* read has the row of cost that a pass over the whole ledger gives it.
THEOREM PublishedCostIsExact ==
    ASSUME Faultless
    PROVE  Spec => []CostIsExact
<1>1. Init => MarksInv
  BY InitMarksInv
<1>2. MarksInv /\ TypeOK /\ TypeOK' /\ [Next]_vars => MarksInv'
  BY NextMarksInv
<1>3. TypeOK /\ MarksInv => CostIsExact
  BY ServedIsExact
<1> QED BY <1>1, <1>2, <1>3, MarksAreTyped, PTL DEF Spec
=============================================================================
