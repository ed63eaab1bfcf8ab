------------------------ MODULE TariffArchive_proofs ------------------------
(***************************************************************************)
(* What is proved of the archive of adders and of the prices it leads to:  *)
(* that one statement a window is kept and none forgotten, that every hour *)
(* is priced with what was stated of it, and every unit of a stepped       *)
(* tariff once.                                                            *)
(*                                                                         *)
(* The months and the statements come first, then tariffs as they are      *)
(* read, the billing periods and the steps, then the invariant and what it *)
(* says, and one step after the other.                                     *)
(***************************************************************************)
EXTENDS TariffArchive, Sums_proofs

-----------------------------------------------------------------------------
(* The months, and the windows of adders.                                  *)
\* There are two months or more, of a day or more each.
LEMMA MonthsAre ==
    /\ LastMonth \in Nat /\ LastMonth > 1 /\ Months = 1 .. LastMonth
    /\ \A m \in Months : MonthDays[m] \in Nat \ {0}
    /\ DayHours \in Nat \ {0}
<1>1. LastMonth \in Nat
  BY TariffQueryAssumption, FS_CardinalityType DEF LastMonth, Months
<1> QED BY <1>1, TariffQueryAssumption, ArchiveAssumption DEF LastMonth, Months

\* A month starts after the days of those before it.
LEMMA MonthStartIs ==
    ASSUME NEW m \in 1 .. LastMonth + 1
    PROVE  MonthStart[m] = DayHours * SumOver(MonthDays, 1 .. m - 1)
BY DEF MonthStart, SumOver, SumFunctionOnSet, FoldFunctionOnSet, MapThenSumSet

\* The days of a run of months add up to a number.
LEMMA MonthDaysSum ==
    ASSUME NEW m \in 1 .. LastMonth + 1, NEW k \in 1 .. m
    PROVE  /\ IsFiniteSet(k .. m - 1) /\ \A n \in k .. m - 1 : MonthDays[n] \in Nat \ {0}
           /\ SumOver(MonthDays, k .. m - 1) \in Nat
<1>1. m \in Int /\ k \in Int /\ k .. m - 1 \subseteq Months /\ IsFiniteSet(k .. m - 1)
  BY MonthsAre, FS_Interval
<1>2. \A n \in k .. m - 1 : MonthDays[n] \in Nat \ {0}
  BY <1>1, MonthsAre
<1> QED BY <1>1, <1>2, SumType

\* Months start one after the other.
LEMMA MonthsInOrder ==
    /\ \A m \in 1 .. LastMonth + 1 : MonthStart[m] \in Nat
    /\ \A m, n \in 1 .. LastMonth + 1 : m < n => MonthStart[m] < MonthStart[n]
<1>1. ASSUME NEW m \in 1 .. LastMonth + 1
      PROVE  MonthStart[m] \in Nat
  <2>1. SumOver(MonthDays, 1 .. m - 1) \in Nat
    BY MonthDaysSum, MonthsAre
  <2> QED BY <2>1, MonthStartIs, MonthsAre
<1>2. ASSUME NEW m \in 1 .. LastMonth + 1, NEW n \in 1 .. LastMonth + 1, m < n
      PROVE  MonthStart[m] < MonthStart[n]
  <2> DEFINE before == 1 .. m - 1
             after == m .. n - 1
  <2>1. IsFiniteSet(before) /\ IsFiniteSet(after) /\ before \cap after = {}
        /\ 1 .. n - 1 = before \cup after /\ m \in after
    BY <1>2, MonthDaysSum, MonthsAre
  <2>2. \A d \in before \cup after : MonthDays[d] \in Nat \ {0}
    BY <1>2, MonthDaysSum, MonthsAre
  <2>3. SumOver(MonthDays, 1 .. n - 1) = SumOver(MonthDays, before) + SumOver(MonthDays, after)
    <3> HIDE DEF before, after
    <3> QED BY <2>1, <2>2, SumOfUnion
  <2>4. SumOver(MonthDays, after) = MonthDays[m] + SumOver(MonthDays, after \ {m})
    <3> HIDE DEF before, after
    <3> QED BY <2>1, <2>2, SumWithout
  <2>5. SumOver(MonthDays, after \ {m}) \in Nat
    <3>1. IsFiniteSet(after \ {m}) /\ \A d \in after \ {m} : MonthDays[d] \in Nat
      <4> HIDE DEF before, after
      <4> QED BY <2>1, <2>2, FS_Subset
    <3> QED BY <3>1, SumType
  <2>6. SumOver(MonthDays, before) \in Nat /\ MonthDays[m] \in Nat \ {0}
    BY <2>1, <2>2, MonthDaysSum, MonthsAre
  <2>7. SumOver(MonthDays, 1 .. n - 1) > SumOver(MonthDays, before)
        /\ SumOver(MonthDays, 1 .. n - 1) \in Nat
    <3> HIDE DEF before, after
    <3> QED BY <2>3, <2>4, <2>5, <2>6
  <2>8. \A x, y \in Nat, d \in Nat \ {0} : x > y => d * x > d * y
    OBVIOUS
  <2> QED BY <2>6, <2>7, <2>8, MonthStartIs, MonthsAre
<1> QED BY <1>1, <1>2

\* The smaller of two numbers.
LEMMA MinOfTwo ==
    ASSUME NEW a \in Int, NEW b \in Int
    PROVE  Min({a, b}) = IF a <= b THEN a ELSE b
<1> DEFINE m == IF a <= b THEN a ELSE b
<1>1. m \in {a, b} /\ \A y \in {a, b} : m <= y
  OBVIOUS
<1>2. \A x \in {a, b} : (\A y \in {a, b} : x <= y) => x = m
  OBVIOUS
<1> HIDE DEF m
<1>3. Min({a, b}) = m
  BY <1>1, <1>2 DEF Min
<1> QED BY <1>3 DEF m

\* A window holds the month it is served in, and is one or two months long.
LEMMA WindowsAre ==
    ASSUME NEW kind \in Kinds, NEW m \in 2 .. LastMonth
    PROVE  LET w == WindowOf(kind, m)
           IN  /\ w[1] \in 2 .. LastMonth /\ w[2] \in 1 .. LastMonth + 1
               /\ w[1] <= m /\ m < w[2]
               /\ kind = "fuel" => w = <<m, m + 1>>
               /\ kind = "levy" => w[1] = m - (m % 2)
                                   /\ w[2] = IF w[1] + 2 <= LastMonth + 1 THEN w[1] + 2 ELSE LastMonth + 1
<1>1. m \in Nat /\ LastMonth \in Nat /\ m % 2 \in 0 .. 1 /\ m >= 2 /\ m <= LastMonth
  BY MonthsAre
<1>2. m - (m % 2) >= 2
  BY <1>1
<1> DEFINE first == m - (m % 2)
<1>3. first \in Int /\ first <= m /\ m < first + 2 /\ first >= 2
  BY <1>1, <1>2
<1> HIDE DEF first
<1>4. Min({first + 2, LastMonth + 1}) = IF first + 2 <= LastMonth + 1 THEN first + 2 ELSE LastMonth + 1
  BY <1>1, <1>3, MinOfTwo
<1>5. WindowOf(kind, m) = IF kind = "fuel" THEN <<m, m + 1>>
                          ELSE <<first, Min({first + 2, LastMonth + 1})>>
  BY DEF WindowOf, first
<1>6. CASE kind = "fuel"
  BY <1>1, <1>5, <1>6
<1>7. CASE kind = "levy"
  <2>1. first = m - (m % 2)
    BY DEF first
  <2> QED BY <1>1, <1>3, <1>4, <1>5, <1>7, <2>1
<1> QED BY <1>6, <1>7 DEF Kinds

\* Windows of one kind that share an hour are one window.
LEMMA WindowsKeepApart ==
    ASSUME NEW kind \in Kinds, NEW m \in 2 .. LastMonth, NEW n \in 2 .. LastMonth, NEW hour \in Int,
           MonthStart[WindowOf(kind, m)[1]] <= hour, hour < MonthStart[WindowOf(kind, m)[2]],
           MonthStart[WindowOf(kind, n)[1]] <= hour, hour < MonthStart[WindowOf(kind, n)[2]]
    PROVE  WindowOf(kind, m) = WindowOf(kind, n)
<1> DEFINE v == WindowOf(kind, m)
           w == WindowOf(kind, n)
<1>1. /\ v[1] \in 1 .. LastMonth + 1 /\ v[2] \in 1 .. LastMonth + 1
      /\ w[1] \in 1 .. LastMonth + 1 /\ w[2] \in 1 .. LastMonth + 1
  BY WindowsAre, MonthsAre
<1>2. v[1] < w[2] /\ w[1] < v[2]
  <2>1. ~(w[2] <= v[1]) /\ ~(v[2] <= w[1])
    <3>1. \A a, b \in 1 .. LastMonth + 1 : a <= b => MonthStart[a] <= MonthStart[b]
      BY MonthsInOrder, MonthsAre
    <3>2. \A a \in 1 .. LastMonth + 1 : MonthStart[a] \in Nat
      BY MonthsInOrder
    <3> QED BY <1>1, <3>1, <3>2
  <2> QED BY <1>1, <2>1, MonthsAre
<1>3. v = <<v[1], v[2]>> /\ w = <<w[1], w[2]>>
  BY DEF WindowOf
<1>4. CASE kind = "fuel"
  BY <1>2, <1>4, WindowsAre, MonthsAre
<1>5. CASE kind = "levy"
  <2>1. v[1] = m - (m % 2) /\ w[1] = n - (n % 2)
    BY <1>5, WindowsAre
  <2>2. v[2] = (IF v[1] + 2 <= LastMonth + 1 THEN v[1] + 2 ELSE LastMonth + 1)
        /\ w[2] = (IF w[1] + 2 <= LastMonth + 1 THEN w[1] + 2 ELSE LastMonth + 1)
    BY <1>5, WindowsAre
  <2>3. v[1] < w[1] + 2 /\ w[1] < v[1] + 2
    BY <1>1, <1>2, <2>2, MonthsAre
  <2>4. \E j, k \in Int : v[1] = 2 * j /\ w[1] = 2 * k
    <3>1. m = 2 * (m \div 2) + (m % 2) /\ n = 2 * (n \div 2) + (n % 2)
      BY MonthsAre
    <3> QED BY <2>1, <3>1, MonthsAre
  <2>5. v[1] = w[1]
    BY <1>1, <2>3, <2>4
  <2> QED BY <1>3, <2>2, <2>5
<1> QED BY <1>4, <1>5 DEF Kinds

-----------------------------------------------------------------------------
(* Statements: what the provider has said of a window.                     *)
Highest(kind, m) ==
    LET first == WindowOf(kind, m)[1]
    IN  Rates[kind][first] + IF <<kind, first>> \in restated THEN 1 ELSE 0
Stated(kind, m, price) ==
    [kind |-> kind, from |-> MonthStart[WindowOf(kind, m)[1]],
     to |-> MonthStart[WindowOf(kind, m)[2]], price |-> price]
IsStatement(r) ==
    \E kind \in Kinds, m \in 2 .. LastMonth :
        r = Stated(kind, m, r.price) /\ r.price \in Int /\ r.price <= Highest(kind, m)
Records == [kind : Kinds, from : Int, to : Int, price : Int]

OneEach(records) == IsFiniteSet(records) /\ \A r, s \in records : Key(r) = Key(s) => r = s
IsArchive(records) == OneEach(records) /\ \A r \in records : IsStatement(r)

\* A statement is a record, of hours that are not negative.
LEMMA StatementType ==
    ASSUME NEW r, IsStatement(r)
    PROVE  r \in Records /\ r.from >= 0
<1>1. PICK kind \in Kinds, m \in 2 .. LastMonth : r = Stated(kind, m, r.price) /\ r.price \in Int
  BY DEF IsStatement
<1>2. WindowOf(kind, m)[1] \in 1 .. LastMonth + 1 /\ WindowOf(kind, m)[2] \in 1 .. LastMonth + 1
  BY WindowsAre, MonthsAre
<1>3. MonthStart[WindowOf(kind, m)[1]] \in Nat /\ MonthStart[WindowOf(kind, m)[2]] \in Nat
  BY <1>2, MonthsInOrder
<1> QED BY <1>1, <1>3 DEF Stated, Records

\* A record is its window and its price.
LEMMA RecordIs ==
    ASSUME NEW r \in Records, NEW s \in Records, Key(r) = Key(s), r.price = s.price
    PROVE  r = s
BY DEF Records, Key

\* The last price of a window is a number.
LEMMA HighestType ==
    ASSUME NEW kind \in Kinds, NEW m \in 2 .. LastMonth
    PROVE  Highest(kind, m) \in Int
<1>1. WindowOf(kind, m)[1] \in Months
  BY WindowsAre, MonthsAre
<1>2. Rates[kind][WindowOf(kind, m)[1]] \in Nat
  BY <1>1, ArchiveAssumption
<1> QED BY <1>2 DEF Highest

\* What is served now is the latest statement of its window.
LEMMA ServedIs ==
    ASSUME month \in 2 .. LastMonth, NEW kind \in Kinds
    PROVE  /\ Served(kind) = Stated(kind, month, Highest(kind, month))
           /\ IsStatement(Served(kind))
<1>1. Served(kind) = Stated(kind, month, Highest(kind, month))
  BY DEF Served, Stated, Highest, Span
<1>2. Served(kind).price = Highest(kind, month)
  BY <1>1 DEF Stated
<1> QED BY <1>1, <1>2, HighestType DEF IsStatement

\* No statement of a window is higher than what is served for it.
LEMMA ServedIsLatest ==
    ASSUME month \in 2 .. LastMonth, NEW kind \in Kinds, NEW r, IsStatement(r), Key(r) = Key(Served(kind))
    PROVE  r.price <= Served(kind).price
<1>1. PICK k \in Kinds, m \in 2 .. LastMonth :
        r = Stated(k, m, r.price) /\ r.price \in Int /\ r.price <= Highest(k, m)
  BY DEF IsStatement
<1>2. k = kind /\ MonthStart[WindowOf(k, m)[1]] = MonthStart[WindowOf(kind, month)[1]]
  BY <1>1, ServedIs DEF Key, Stated
<1>3. WindowOf(k, m)[1] \in 1 .. LastMonth + 1 /\ WindowOf(kind, month)[1] \in 1 .. LastMonth + 1
  BY WindowsAre, MonthsAre
<1>4. WindowOf(k, m)[1] = WindowOf(kind, month)[1]
  BY <1>2, <1>3, MonthsInOrder, MonthsAre
<1>5. Highest(k, m) = Highest(kind, month)
  BY <1>2, <1>4 DEF Highest
<1> QED BY <1>1, <1>5, ServedIs DEF Stated

-----------------------------------------------------------------------------
(* Merging statements.                                                     *)
\* Merging keeps one statement a window.
LEMMA MergedIsArchive ==
    ASSUME NEW R, NEW N, IsArchive(R), IsArchive(N)
    PROVE  IsArchive(MergeObserved(R, N))
<1>1. IsFiniteSet(MergeObserved(R, N))
  BY FS_Subset, FS_Union DEF MergeObserved, IsArchive, OneEach
<1> QED BY <1>1 DEF MergeObserved, IsArchive, OneEach, KeysOf

\* One statement each, counted.
LEMMA OneEachIsOnePerWindow ==
    ASSUME NEW R, OneEach(R)
    PROVE  OnePerWindow(R)
<1> DEFINE f == [r \in R |-> Key(r)]
<1>1. f \in Bijection(R, KeysOf(R))
  <2>1. f \in [R -> KeysOf(R)] /\ \A r, s \in R : f[r] = f[s] => r = s
    BY DEF OneEach, KeysOf
  <2>2. \A k \in KeysOf(R) : \E r \in R : f[r] = k
    BY DEF KeysOf
  <2> HIDE DEF f
  <2> QED BY <2>1, <2>2 DEF Bijection, Injection, Surjection, IsInjective
<1>2. Cardinality(KeysOf(R)) = Cardinality(R)
  BY <1>1, FS_Bijection DEF OneEach, ExistsBijection
<1> QED BY <1>2 DEF OnePerWindow

\* No window is lost, and no price falls, from an older copy to a newer.
Under(older, newer) ==
    \A a \in older : \E b \in newer : Key(a) = Key(b) /\ a.price <= b.price

\* A copy is as new as itself.
LEMMA UnderItself == \A R : IsArchive(R) => Under(R, R)
BY StatementType DEF Under, IsArchive, Records

\* Newer than newer is newer.
LEMMA UnderIsTransitive ==
    ASSUME NEW Q, NEW R, NEW S, IsArchive(Q), IsArchive(R), IsArchive(S), Under(Q, R), Under(R, S)
    PROVE  Under(Q, S)
<1> SUFFICES ASSUME NEW q \in Q PROVE \E s \in S : Key(q) = Key(s) /\ q.price <= s.price
  BY DEF Under
<1>1. PICK r \in R : Key(q) = Key(r) /\ q.price <= r.price
  BY DEF Under
<1>2. PICK s \in S : Key(r) = Key(s) /\ r.price <= s.price
  BY DEF Under
<1>3. q.price \in Int /\ r.price \in Int /\ s.price \in Int
  BY StatementType DEF IsArchive, Records
<1> QED BY <1>1, <1>2, <1>3

\* Two copies that are each as new as the other are one.
LEMMA UnderEachOther ==
    ASSUME NEW R, NEW S, IsArchive(R), IsArchive(S), Under(R, S), Under(S, R)
    PROVE  R = S
<1>1. ASSUME NEW Q, NEW T, IsArchive(Q), IsArchive(T), Under(Q, T), Under(T, Q), NEW q \in Q
      PROVE  q \in T
  <2>1. PICK t \in T : Key(q) = Key(t) /\ q.price <= t.price
    BY <1>1 DEF Under
  <2>2. PICK u \in Q : Key(t) = Key(u) /\ t.price <= u.price
    BY <1>1 DEF Under
  <2>3. u = q
    BY <1>1, <2>1, <2>2 DEF IsArchive, OneEach
  <2>4. q \in Records /\ t \in Records
    BY <1>1, StatementType DEF IsArchive
  <2>5. q.price = t.price
    BY <2>1, <2>2, <2>3, <2>4 DEF Records
  <2> QED BY <2>1, <2>4, <2>5, RecordIs
<1> QED BY <1>1

\* Merging what is not outdated loses nothing and lowers nothing.
LEMMA MergedIsAbove ==
    ASSUME NEW R, NEW N, IsArchive(R), IsArchive(N),
           \A a \in N, r \in R : Key(r) = Key(a) => r.price <= a.price
    PROVE  Under(R, MergeObserved(R, N))
<1> SUFFICES ASSUME NEW r \in R
             PROVE  \E s \in MergeObserved(R, N) : Key(r) = Key(s) /\ r.price <= s.price
  BY DEF Under
<1>1. CASE Key(r) \in KeysOf(N)
  BY <1>1 DEF KeysOf, MergeObserved
<1>2. CASE Key(r) \notin KeysOf(N)
  BY <1>2, StatementType DEF MergeObserved, IsArchive, Records
<1> QED BY <1>1, <1>2

\* Merging what is there changes nothing.
LEMMA NothingNewToMerge ==
    ASSUME NEW R, NEW N, IsArchive(R), N \subseteq R
    PROVE  MergeObserved(R, N) = R
BY DEF MergeObserved, IsArchive, OneEach, KeysOf

-----------------------------------------------------------------------------
(* Tariffs as they are read.                                               *)
IsAdder(a, kind) == a = NoAdder \/ (a.kind = kind /\ IsStatement(a))
IsTimed(t) ==
    IsPriceable(t) /\ IsTimeOfUse(t) =>
        /\ IsKnown(AreaOf(t.scheme, t.area))
        /\ SlotNames(AreaOf(t.scheme, t.area)) \subseteq {b.slot : b \in t.bands}
        /\ \A b \in t.bands : b.price # 0 /\ b.from \in {Unstated} \cup 0 .. Forever
IsStepped(t) ==
    IsPriceable(t) /\ ~IsTimeOfUse(t) => \A hour \in Hours : IsLadder(StepsAt(t, hour))
IsTariff(t) ==
    /\ IsAdder(t.fuel, "fuel") /\ IsAdder(t.levy, "levy")
    /\ t.reason = "absent" => t.fuel = NoAdder /\ t.levy = NoAdder
    /\ IsTimed(t) /\ IsStepped(t)

\* The kinds of adder a supply point has at present, and their windows.
Adders(offer, now) ==
    LET source == SelectTariffSource(offer, now)
    IN  IF source.product = NoProduct THEN {} ELSE IF source.product.adjusted THEN Kinds ELSE {"levy"}
KeysNow(p) ==
    {Key(Stated(kind, month, 0)) : kind \in Adders(agreements[p], MonthStart[month])}

\* No tariff is a tariff without adders.
LEMMA NoTariffIsTariff == IsTariff(NoTariff) /\ Observed(NoTariff) = {} /\ NoTariff.reason = "absent"
BY DEF IsTariff, NoTariff, IsAdder, IsTimed, IsStepped, IsPriceable, IsTimeOfUse, Observed, LiveSchedule, None

\* What a tariff states of its adders is an archive.
LEMMA ObservedIs ==
    ASSUME NEW t, IsTariff(t)
    PROVE  /\ Observed(t) = {t.fuel, t.levy} \ {NoAdder}
           /\ IsArchive(Observed(t))
           /\ t.reason = "absent" => Observed(t) = {}
<1>1. Observed(t) = {t.fuel, t.levy} \ {NoAdder}
  <2>1. \A a : IsStatement(a) => a.from # Unstated
    BY StatementType DEF Unstated, Records
  <2> QED BY <2>1 DEF Observed, LiveSchedule, IsTariff, IsAdder
<1>2. IsFiniteSet(Observed(t))
  <2>1. IsFiniteSet({t.fuel}) /\ IsFiniteSet({t.levy})
    BY FS_Singleton
  <2>2. {t.fuel, t.levy} = {t.fuel} \cup {t.levy}
    OBVIOUS
  <2>3. IsFiniteSet({t.fuel, t.levy})
    BY <2>1, <2>2, FS_Union
  <2> QED BY <1>1, <2>3, FS_Subset
<1>3. \A a \in Observed(t) : IsStatement(a)
  BY <1>1 DEF IsTariff, IsAdder
<1>4. \A a, b \in Observed(t) : Key(a) = Key(b) => a = b
  <2>1. \A a \in Observed(t) : (a = t.fuel /\ a.kind = "fuel") \/ (a = t.levy /\ a.kind = "levy")
    BY <1>1 DEF IsTariff, IsAdder
  <2> QED BY <2>1 DEF Key
<1> QED BY <1>1, <1>2, <1>3, <1>4 DEF IsArchive, OneEach, IsTariff

\* The fields of a tariff, and what becomes of them.
Fields == {"reason", "steps", "bands", "scheme", "area", "estimate", "standing", "fuel", "levy"}
IsForm(t) == t = [field \in Fields |-> t[field]]

With(t, scheme, reason) == [t EXCEPT !.scheme = scheme, !.reason = reason]
\* The two fields a lookup of the scheme sets, and those it leaves.
LEMMA WithReason ==
    ASSUME NEW t, IsForm(t), NEW scheme, NEW reason, NEW u, u = With(t, scheme, reason)
    PROVE  /\ IsForm(u) /\ u.scheme = scheme /\ u.reason = reason
           /\ u.bands = t.bands /\ u.area = t.area /\ u.fuel = t.fuel /\ u.levy = t.levy
           /\ u.steps = t.steps
<1>1. u.scheme = scheme /\ u.reason = reason /\ u.bands = t.bands /\ u.area = t.area
      /\ u.steps = t.steps /\ u.fuel = t.fuel /\ u.levy = t.levy
  BY DEF IsForm, Fields, With
<1>2. IsForm(u)
  BY DEF IsForm, Fields, With
<1> QED BY <1>1, <1>2

\* A scheme is looked up, and no adder changes.
LEMMA Resolved ==
    ASSUME NEW t, IsForm(t), t.reason # "absent", NEW named
    PROVE  LET u == Resolve(t, named)
           IN  /\ IsForm(u) /\ u.reason # "absent" /\ u.bands = t.bands /\ u.steps = t.steps
               /\ t.bands = {} => u = t
               /\ u.fuel = t.fuel /\ u.levy = t.levy
               /\ u.bands # {} /\ u.reason = None =>
                    /\ IsKnown(AreaOf(u.scheme, u.area))
                    /\ SlotNames(AreaOf(u.scheme, u.area)) \subseteq {b.slot : b \in u.bands}
<1>1. CASE t.bands = {}
  BY <1>1 DEF Resolve
<1>2. CASE t.bands # {}
  <2> DEFINE scheme == IF named # None THEN named ELSE t.scheme
             area == AreaOf(scheme, t.area)
             ambiguous == \E a, b \in t.bands : a # b /\ a.slot = b.slot /\ Window(a) = Window(b)
             reason == IF ~IsKnown(area) THEN "scheme_unknown"
                       ELSE IF ~(SlotNames(area) \subseteq {b.slot : b \in t.bands})
                       THEN "bands_incomplete"
                       ELSE IF ambiguous THEN "bands_ambiguous" ELSE None
  <2>1. Resolve(t, named) = With(t, scheme, reason)
    BY <1>2 DEF Resolve, With
  <2>2. reason # "absent"
    BY DEF None
  <2>3. reason = None => IsKnown(area) /\ SlotNames(area) \subseteq {b.slot : b \in t.bands}
    BY DEF None
  <2> HIDE DEF scheme, reason
  <2> DEFINE u == Resolve(t, named)
  <2>4. /\ IsForm(u) /\ u.scheme = scheme /\ u.reason = reason
        /\ u.bands = t.bands /\ u.area = t.area /\ u.fuel = t.fuel /\ u.levy = t.levy
        /\ u.steps = t.steps
    <3>1. u = With(t, scheme, reason)
      BY <2>1
    <3> HIDE DEF u
    <3> QED BY <3>1, WithReason
  <2>5. u.reason # "absent" /\ (u.reason = None =>
            /\ IsKnown(AreaOf(u.scheme, u.area))
            /\ SlotNames(AreaOf(u.scheme, u.area)) \subseteq {b.slot : b \in u.bands})
    <3> HIDE DEF u
    <3> QED BY <2>2, <2>3, <2>4
  <2> QED BY <1>2, <2>4, <2>5
<1> QED BY <1>1, <1>2

\* The charges of an agreement are those of an offer.
IsProduct(product) ==
    /\ \A charge \in product.charges : charge.from \in {Unstated} \cup 0 .. Forever
    /\ (\A charge \in product.charges : charge.slot = None) /\ StepsOf(product) # {} =>
            \A hour \in Hours : IsLadder(GenerationAt(StepsOf(product), hour))

\* Bands carry a price, and the start of their charge.
LEMMA BandsAre ==
    ASSUME NEW product, IsProduct(product)
    PROVE  \A b \in BandsOf(product) : b.price # 0 /\ b.from \in {Unstated} \cup 0 .. Forever
BY DEF BandsOf, Priced, IsProduct

\* A product is parsed to a tariff with the adders in force.
LEMMA ParsedProduct ==
    ASSUME NEW source, IsProduct(source.product), NEW fuel, NEW levy
    PROVE  LET t == ParseProduct(source, fuel, levy)
           IN  /\ IsForm(t) /\ t.reason # "absent" /\ t.levy = levy
               /\ t.fuel = IF source.product.adjusted THEN fuel ELSE NoAdder
               /\ IsTimed(t) /\ IsStepped(t)
               /\ \A b \in t.bands : b.price # 0 /\ b.from \in {Unstated} \cup 0 .. Forever
<1> DEFINE product == source.product
           areas == {c.area : c \in product.charges} \ {None}
           timed == \E c \in product.charges : c.slot # None
           adder == IF product.adjusted THEN fuel ELSE NoAdder
           based == [NoTariff EXCEPT !.reason = None, !.estimate = source.estimate,
                      !.standing = product.standing, !.levy = levy, !.fuel = adder]
           area == IF areas = {} THEN None ELSE CHOOSE a \in areas : TRUE
           mixed == [based EXCEPT !.reason = "mixed_operator"]
           unsupported == [based EXCEPT !.reason = "unsupported_unit"]
           banded == [based EXCEPT !.bands = BandsOf(product), !.scheme = product.scheme, !.area = area]
           stepped == [based EXCEPT !.steps = StepsOf(product),
                           !.reason = IF StepsOf(product) = {} THEN "no_charges" ELSE None]
<1> DEFINE t == ParseProduct(source, fuel, levy)
<1>1. t = IF Cardinality(areas) > 1 THEN mixed
          ELSE IF \E c \in product.charges : ~c.consumption THEN unsupported
          ELSE IF timed THEN Resolve(banded, None) ELSE stepped
  BY DEF ParseProduct
<1>2. \A u \in {mixed, unsupported, stepped} :
        /\ IsForm(u) /\ u.reason # "absent" /\ u.levy = levy /\ u.fuel = adder /\ u.bands = {}
  <2>1. /\ mixed.reason # "absent" /\ mixed.levy = levy /\ mixed.fuel = adder /\ mixed.bands = {}
    BY DEF NoTariff
  <2>2. /\ unsupported.reason # "absent" /\ unsupported.levy = levy
        /\ unsupported.fuel = adder /\ unsupported.bands = {}
    BY DEF NoTariff
  <2>3. /\ stepped.reason # "absent" /\ stepped.levy = levy /\ stepped.fuel = adder /\ stepped.bands = {}
    BY DEF NoTariff, None
  <2>4. IsForm(mixed) /\ IsForm(unsupported) /\ IsForm(stepped)
    BY DEF NoTariff, IsForm, Fields
  <2> HIDE DEF mixed, unsupported, stepped
  <2> QED BY <2>1, <2>2, <2>3, <2>4
<1>8. mixed.reason # None /\ unsupported.reason # None
  BY DEF NoTariff, None
<1>9. /\ stepped.steps = StepsOf(product)
      /\ stepped.reason = IF StepsOf(product) = {} THEN "no_charges" ELSE None
  BY DEF NoTariff
<1>10. "no_charges" # None
  BY DEF None
<1>3. IsForm(banded) /\ banded.reason = None /\ banded.levy = levy /\ banded.fuel = adder
      /\ banded.bands = BandsOf(product) /\ banded.steps = {}
  <2>1. banded.reason = None /\ banded.levy = levy /\ banded.fuel = adder
        /\ banded.bands = BandsOf(product) /\ banded.steps = {}
    BY DEF NoTariff
  <2>2. IsForm(banded)
    BY DEF NoTariff, IsForm, Fields
  <2> QED BY <2>1, <2>2
<1>4. None # "absent"
  BY DEF None
<1> HIDE DEF mixed, unsupported, banded, stepped, adder
<1>5. CASE t = Resolve(banded, None)
  <2>1. /\ IsForm(t) /\ t.reason # "absent" /\ t.bands = banded.bands /\ t.steps = banded.steps
        /\ t.fuel = banded.fuel /\ t.levy = banded.levy
        /\ t.bands # {} /\ t.reason = None =>
             /\ IsKnown(AreaOf(t.scheme, t.area))
             /\ SlotNames(AreaOf(t.scheme, t.area)) \subseteq {b.slot : b \in t.bands}
    BY <1>3, <1>4, <1>5, Resolved
  <2>2. \A b \in t.bands : b.price # 0 /\ b.from \in {Unstated} \cup 0 .. Forever
    BY <1>3, <2>1, BandsAre
  <2> HIDE DEF t
  <2>3. IsTimed(t)
    BY <2>1, <2>2 DEF IsTimed, IsPriceable, IsTimeOfUse
  <2>4. IsStepped(t)
    BY <1>3, <2>1 DEF IsStepped, IsPriceable, IsTimeOfUse
  <2> QED BY <1>3, <2>1, <2>2, <2>3, <2>4 DEF adder, t
<1>6. CASE t \in {mixed, unsupported} \/ (t = stepped /\ ~timed)
  <2> HIDE DEF t
  <2>1. t.bands = {}
    BY <1>2, <1>6
  <2>2. IsTimed(t)
    BY <2>1 DEF IsTimed, IsTimeOfUse
  <2>3. IsStepped(t)
    <3>1. CASE t \in {mixed, unsupported}
      BY <1>8, <3>1 DEF IsStepped, IsPriceable
    <3>2. CASE t = stepped /\ ~timed
      <4>1. t.reason = None => StepsOf(product) # {} /\ t.steps = StepsOf(product)
        BY <1>9, <1>10, <3>2
      <4> QED BY <3>2, <4>1 DEF IsStepped, IsPriceable, IsProduct, StepsAt
    <3> QED BY <1>6, <3>1, <3>2
  <2> QED BY <1>2, <1>6, <2>1, <2>2, <2>3 DEF adder, t
<1> HIDE DEF t
<1>7. t = Resolve(banded, None) \/ t \in {mixed, unsupported} \/ (t = stepped /\ ~timed)
  BY <1>1
<1> QED BY <1>5, <1>6, <1>7 DEF t

\* The product of an offer, if there is one to choose.
LEMMA SelectedProduct ==
    ASSUME NEW offer \in Offers, NEW now
    PROVE  LET source == SelectTariffSource(offer, now)
           IN  source.product # NoProduct =>
                    \E a \in offer : source.product = a.product /\ IsProduct(a.product)
<1> DEFINE source == SelectTariffSource(offer, now)
           live == Live(offer, now)
           candidates == Candidates(offer)
           best == CHOOSE a \in live : \A other \in live : a.from >= other.from
           only == CHOOSE a \in candidates : TRUE
<1>1. source = IF live # {} THEN [NoSource EXCEPT !.product = best.product]
               ELSE IF Cardinality(candidates) = 1
               THEN [product |-> only.product, estimate |-> TRUE, several |-> FALSE]
               ELSE [NoSource EXCEPT !.several = candidates # {}]
  BY DEF SelectTariffSource
<1>2. source.product = IF live # {} THEN best.product
                       ELSE IF Cardinality(candidates) = 1 THEN only.product ELSE NoProduct
  BY <1>1 DEF NoSource
<1>3. live \subseteq offer /\ candidates \subseteq offer
  BY DEF Live, Candidates
<1>4. \A a \in offer : a.from \in {Unstated} \cup 0 .. Forever /\ IsProduct(a.product)
  <2> SUFFICES ASSUME NEW a \in offer
               PROVE  a.from \in {Unstated} \cup 0 .. Forever /\ IsProduct(a.product)
    OBVIOUS
  <2> DEFINE product == a.product
             timed == \E charge \in product.charges : charge.slot # None
  <2>1. /\ a.from \in {Unstated} \cup 0 .. Forever
        /\ \A charge \in product.charges : charge.from \in {Unstated} \cup 0 .. Forever
        /\ ~timed /\ StepsOf(product) # {} =>
                \A hour \in Hours : IsLadder(GenerationAt(StepsOf(product), hour))
    BY OffersAssumption
  <2>2. (\A charge \in product.charges : charge.slot = None) => ~timed
    OBVIOUS
  <2> HIDE DEF product, timed
  <2>3. IsProduct(product)
    BY <2>1, <2>2 DEF IsProduct
  <2> QED BY <2>1, <2>3 DEF product
<1>5. live # {} => best \in live
  <2> SUFFICES ASSUME live # {} PROVE \E a \in live : \A other \in live : a.from >= other.from
    OBVIOUS
  <2> DEFINE ages == {Forever - a.from : a \in live}
  <2>1. Forever \in Nat
    BY MonthsInOrder, MonthsAre DEF Forever
  <2>2. \A a \in live : a.from \in Int /\ a.from <= Forever
    BY <1>3, <1>4, <2>1 DEF Unstated
  <2>3. ages \in SUBSET Nat /\ ages # {}
    BY <2>1, <2>2
  <2>4. PICK n \in ages : \A k \in ages : n <= k
    BY <2>3, LeastNatural
  <2>5. PICK a \in live : n = Forever - a.from
    BY <2>4
  <2>6. \A other \in live : n <= Forever - other.from
    BY <2>4
  <2> HIDE DEF live, ages
  <2> QED BY <2>1, <2>2, <2>5, <2>6
<1>6. Cardinality(candidates) = 1 => only \in candidates
  <2>1. candidates = {} => Cardinality(candidates) = 0
    BY FS_EmptySet
  <2> QED BY <2>1
<1> HIDE DEF source, live, candidates, best, only
<1>7. source.product # NoProduct =>
        \E a \in offer : source.product = a.product /\ IsProduct(a.product)
  BY <1>2, <1>3, <1>4, <1>5, <1>6
<1> QED BY <1>7 DEF source

\* What is read of an offer: the adders it has, and bands for every hour.
LEMMA ParsedIs ==
    ASSUME NEW offer \in Offers, NEW now, NEW fuel, NEW levy, NEW summary,
           IsAdder(fuel, "fuel"), IsAdder(levy, "levy"), NoAdder \notin {fuel, levy}
    PROVE  LET t == Named(Parsed(offer, now, fuel, levy), summary)
           IN  /\ IsTariff(t)
               /\ t.fuel = IF "fuel" \in Adders(offer, now) THEN fuel ELSE NoAdder
               /\ t.levy = IF "levy" \in Adders(offer, now) THEN levy ELSE NoAdder
<1> DEFINE source == SelectTariffSource(offer, now)
           read == Parsed(offer, now, fuel, levy)
           t == Named(read, summary)
<1>1. CASE source.product = NoProduct
  <2>1. read = Refused("agreement_history") \/ read = Refused("agreement_lapsed") \/ read = NoTariff
    BY <1>1 DEF Parsed
  <2>2. /\ read.fuel = NoAdder /\ read.levy = NoAdder /\ read.bands = {}
        /\ read.reason # "scheme_unknown" /\ read.reason # None
    BY <2>1 DEF Refused, NoTariff, None
  <2>3. t = read
    BY <2>2 DEF Named
  <2>4. Adders(offer, now) = {}
    BY <1>1 DEF Adders
  <2> HIDE DEF t, read
  <2> QED BY <2>2, <2>3, <2>4 DEF IsTariff, IsAdder, IsTimed, IsStepped, IsPriceable, IsTimeOfUse, t, read
<1>2. CASE source.product # NoProduct
  <2>1. IsProduct(source.product)
    BY <1>2, SelectedProduct
  <2>2. read = ParseProduct(source, fuel, levy)
    BY <1>2 DEF Parsed
  <2>3. /\ IsForm(read) /\ read.reason # "absent" /\ read.levy = levy
        /\ read.fuel = IF source.product.adjusted THEN fuel ELSE NoAdder
        /\ IsTimed(read) /\ IsStepped(read)
        /\ \A b \in read.bands : b.price # 0 /\ b.from \in {Unstated} \cup 0 .. Forever
    <3> HIDE DEF source, read
    <3> QED BY <2>1, <2>2, ParsedProduct
  <2>4. t = read \/ t = Resolve(read, summary)
    BY DEF Named
  <2>5. t.reason # "absent" /\ t.fuel = read.fuel /\ t.levy = read.levy
        /\ t.bands = read.bands /\ IsTimed(t) /\ IsStepped(t)
    <3> HIDE DEF source, read
    <3>1. CASE t = read
      BY <2>3, <3>1
    <3>2. CASE t = Resolve(read, summary)
      <4>1. /\ t.reason # "absent" /\ t.bands = read.bands
            /\ read.bands = {} => t = read
            /\ t.fuel = read.fuel /\ t.levy = read.levy
            /\ t.bands # {} /\ t.reason = None =>
                 /\ IsKnown(AreaOf(t.scheme, t.area))
                 /\ SlotNames(AreaOf(t.scheme, t.area)) \subseteq {b.slot : b \in t.bands}
        BY <2>3, <3>2, Resolved
      <4> HIDE DEF t
      <4>2. IsTimed(t)
        BY <2>3, <4>1 DEF IsTimed, IsPriceable, IsTimeOfUse
      <4>3. IsStepped(t)
        <5>1. CASE read.bands = {}
          BY <2>3, <4>1, <5>1
        <5>2. CASE read.bands # {}
          BY <4>1, <5>2 DEF IsStepped, IsTimeOfUse
        <5> QED BY <5>1, <5>2
      <4> QED BY <4>1, <4>2, <4>3
    <3> QED BY <2>4, <3>1, <3>2
  <2>6. Adders(offer, now) = IF source.product.adjusted THEN Kinds ELSE {"levy"}
    BY <1>2 DEF Adders
  <2> HIDE DEF t, read, source
  <2>7. "levy" \in Adders(offer, now) /\ ("fuel" \in Adders(offer, now) <=> source.product.adjusted)
    BY <2>6 DEF Kinds
  <2> QED BY <2>3, <2>5, <2>7 DEF IsTariff, IsAdder, t, read
<1> QED BY <1>1, <1>2

-----------------------------------------------------------------------------
(* Bands have a price at every hour.                                       *)
\* An hour falls in one named slot of a known schedule.
LEMMA SlotIsNamed ==
    ASSUME NEW scheme, NEW area, IsKnown(AreaOf(scheme, area)), NEW hour \in Hours
    PROVE  LET known == AreaOf(scheme, area)
           IN  SlotAt(known, hour) # None /\ SlotAt(known, hour) \in SlotNames(known)
<1> DEFINE known == AreaOf(scheme, area)
           matched == {slot \in known.explicit : Covers(slot, hour)}
<1>1. known.remainder # None
  BY DEF IsKnown
<1>2. scheme \in DOMAIN Schemes /\ area \in DOMAIN Schemes[scheme] /\ known = Schemes[scheme][area]
  BY <1>1 DEF AreaOf
<1>3. \A slot \in known.explicit : slot.name # None
  BY <1>2, SchemesAssumption
<1>4. \A a, b \in matched : a = b
  BY <1>2, SchemesAssumption
<1> HIDE DEF known, matched
<1>5. ~(Cardinality(matched) > 1)
  <2>1. CASE matched = {}
    BY <2>1, FS_EmptySet
  <2>2. CASE matched # {}
    <3>1. PICK a \in matched : matched = {a}
      BY <1>4, <2>2
    <3> QED BY <3>1, FS_Singleton
  <2> QED BY <2>1, <2>2
<1>6. SlotAt(known, hour) = IF matched = {} THEN known.remainder
                            ELSE (CHOOSE slot \in matched : TRUE).name
  BY <1>5 DEF SlotAt, matched
<1>7. matched # {} => (CHOOSE slot \in matched : TRUE) \in matched
  OBVIOUS
<1>8. matched \subseteq known.explicit
  BY DEF matched
<1> QED BY <1>1, <1>3, <1>6, <1>7, <1>8 DEF SlotNames, known

\* Rates have a generation at every hour.
LEMMA GenerationIsOne ==
    ASSUME NEW rates, rates # {}, NEW hour \in Nat,
           \A r \in rates : r.from \in {Unstated} \cup 0 .. Forever
    PROVE  GenerationAt(rates, hour) # {} /\ GenerationAt(rates, hour) \subseteq rates
<1> DEFINE windows == {Window(r) : r \in rates}
           begun == {w \in windows : w[1] <= hour}
           covering == {w \in begun : hour < w[2]}
           earliest(set) == CHOOSE w \in set : \A other \in set : w[1] <= other[1]
           latest(set) == CHOOSE w \in set : \A other \in set : w[1] >= other[1]
           chosen == IF covering # {} THEN earliest(covering)
                     ELSE IF begun # {} THEN latest(begun) ELSE earliest(windows)
<1>1. \A w \in windows : w[1] \in Int /\ w[1] >= -1
  BY MonthsInOrder, MonthsAre DEF Window, Unstated, Forever
<1>2. ASSUME NEW set \in SUBSET windows, set # {}
      PROVE  earliest(set) \in set
  <2> SUFFICES \E w \in set : \A other \in set : w[1] <= other[1]
    OBVIOUS
  <2> DEFINE starts == {w[1] + 1 : w \in set}
  <2> HIDE DEF windows
  <2>1. starts \in SUBSET Nat /\ starts # {}
    BY <1>1, <1>2
  <2>2. PICK n \in starts : \A k \in starts : n <= k
    BY <2>1, LeastNatural
  <2>3. PICK w \in set : n = w[1] + 1
    BY <2>2
  <2>4. \A other \in set : n <= other[1] + 1
    BY <2>2
  <2> QED BY <1>1, <2>3, <2>4
<1>3. begun # {} => latest(begun) \in begun
  <2> SUFFICES ASSUME begun # {} PROVE \E w \in begun : \A other \in begun : w[1] >= other[1]
    OBVIOUS
  <2> DEFINE ages == {hour - w[1] : w \in begun}
  <2>0. \A w \in begun : w[1] \in Int /\ w[1] <= hour
    BY <1>1
  <2> HIDE DEF begun
  <2>1. ages \in SUBSET Nat /\ ages # {}
    BY <2>0
  <2>2. PICK n \in ages : \A k \in ages : n <= k
    BY <2>1, LeastNatural
  <2>3. PICK w \in begun : n = hour - w[1]
    BY <2>2
  <2>4. \A other \in begun : n <= hour - other[1]
    BY <2>2
  <2> QED BY <2>0, <2>3, <2>4
<1>4. windows # {}
  OBVIOUS
<1>5. chosen \in windows
  <2>1. covering \subseteq windows /\ begun \subseteq windows
    OBVIOUS
  <2> HIDE DEF windows, begun, covering, earliest, latest
  <2> QED BY <1>2, <1>3, <1>4, <2>1
<1>6. PICK r \in rates : Window(r) = chosen
  <2> HIDE DEF chosen
  <2> QED BY <1>5
<1>7. GenerationAt(rates, hour) = IF Cardinality(windows) <= 1 THEN rates
                                  ELSE {s \in rates : Window(s) = chosen}
  BY DEF GenerationAt
<1> HIDE DEF chosen, windows
<1> QED BY <1>6, <1>7

\* So a time-of-use tariff that passes parsing has a price at every hour.
LEMMA BandsArePriced ==
    ASSUME NEW t, IsTimed(t), IsPriceable(t), IsTimeOfUse(t), NEW hour \in Hours
    PROVE  BandPrice(t, hour) # 0
<1> DEFINE slot == SlotAt(AreaOf(t.scheme, t.area), hour)
           ours == {b \in t.bands : b.slot = slot}
<1>1. slot # None /\ slot \in SlotNames(AreaOf(t.scheme, t.area))
  BY SlotIsNamed DEF IsTimed
<1>2. slot \in {b.slot : b \in t.bands}
  BY <1>1 DEF IsTimed
<1>3. ours # {} /\ \A b \in ours : b.price # 0 /\ b.from \in {Unstated} \cup 0 .. Forever
  BY <1>2 DEF IsTimed
<1>4. hour \in Nat
  <2>1. MonthStart[2] \in Nat /\ Forever \in Nat
    BY MonthsInOrder, MonthsAre DEF Forever
  <2> QED BY <2>1 DEF Hours
<1> DEFINE now == GenerationAt(ours, hour)
<1>5. now # {} /\ now \subseteq ours
  <2> HIDE DEF ours
  <2> QED BY <1>3, <1>4, GenerationIsOne
<1>6. BandPrice(t, hour) = PriceForSlot(t, slot, hour)
  BY <1>1 DEF BandPrice
<1>7. PriceForSlot(t, slot, hour) = (CHOOSE b \in now : TRUE).price
  BY <1>5 DEF PriceForSlot
<1>8. (CHOOSE b \in now : TRUE) \in now
  <2> HIDE DEF now
  <2> QED BY <1>5
<1> HIDE DEF now, ours, slot
<1> QED BY <1>3, <1>5, <1>6, <1>7, <1>8

-----------------------------------------------------------------------------
(* Billing periods.                                                        *)

\* Division rounds down.
LEMMA DivisionBelow ==
    ASSUME NEW x \in Int, NEW D \in Nat \ {0}, NEW n \in Int
    PROVE  x \div D \in Int /\ (x \div D < n <=> x < D * n)
<1> DEFINE q == x \div D
<1>1. q \in Int /\ D * q <= x /\ x < D * q + D
  OBVIOUS
<1> HIDE DEF q
<1>2. CASE q < n
  <2>1. q + 1 <= n
    BY <1>1, <1>2
  <2>2. D * (q + 1) <= D * n
    BY <1>1, <2>1
  <2>3. D * (q + 1) = D * q + D
    BY <1>1
  <2> QED BY <1>1, <1>2, <2>2, <2>3 DEF q
<1>3. CASE n <= q
  <2>1. D * n <= D * q
    BY <1>1, <1>3
  <2> QED BY <1>1, <1>3, <2>1 DEF q
<1> QED BY <1>1, <1>2, <1>3

\* A month ends where the next begins.
LEMMA MonthIsLong ==
    ASSUME NEW m \in Months
    PROVE  MonthStart[m + 1] = MonthStart[m] + DayHours * MonthDays[m]
<1> DEFINE upto == 1 .. m
           before == 1 .. m - 1
<1>1. m \in 1 .. LastMonth + 1 /\ m + 1 \in 1 .. LastMonth + 1 /\ (m + 1) - 1 = m
  BY MonthsAre
<1>2. IsFiniteSet(upto) /\ \A d \in upto : MonthDays[d] \in Int
  <2>1. upto \subseteq Months /\ 1 \in Int /\ m \in Int
    BY <1>1, MonthsAre
  <2>2. IsFiniteSet(upto)
    BY <2>1, FS_Interval
  <2> QED BY <2>1, <2>2, MonthsAre
<1>3. m \in upto /\ upto \ {m} = before
  BY <1>1
<1>4. SumOver(MonthDays, upto) = MonthDays[m] + SumOver(MonthDays, before)
  <2> HIDE DEF upto, before
  <2> QED BY <1>2, <1>3, SumWithout
<1>5. SumOver(MonthDays, before) \in Nat
  BY <1>1, MonthDaysSum
<1>6. MonthStart[m + 1] = DayHours * SumOver(MonthDays, upto)
      /\ MonthStart[m] = DayHours * SumOver(MonthDays, before)
  BY <1>1, MonthStartIs
<1>7. MonthDays[m] \in Nat /\ DayHours \in Nat
  BY MonthsAre
<1> HIDE DEF upto, before
<1>8. \A d, a, b \in Nat : d * (a + b) = d * b + d * a
  OBVIOUS
<1> QED BY <1>4, <1>5, <1>6, <1>7, <1>8

\* The month of an hour holds it.
LEMMA MonthOfHour ==
    ASSUME NEW hour \in Hours
    PROVE  /\ hour \in Nat /\ MonthOf[hour] \in 2 .. LastMonth
           /\ MonthStart[MonthOf[hour]] <= hour /\ hour < MonthStart[MonthOf[hour] + 1]
<1>1. \A m \in 1 .. LastMonth + 1 : MonthStart[m] \in Nat
  BY MonthsInOrder
<1>2. hour \in Nat /\ MonthStart[2] <= hour /\ hour < MonthStart[LastMonth + 1]
  BY <1>1, MonthsAre DEF Hours, Forever
<1> DEFINE after == {m \in Months : hour < MonthStart[m + 1]}
<1>3. PICK m \in after : \A k \in after : m <= k
  <2>1. LastMonth \in after /\ after \in SUBSET Nat
    BY <1>2, MonthsAre
  <2> HIDE DEF after
  <2> QED BY <2>1, LeastNatural
<1>4. m \in Months /\ hour < MonthStart[m + 1] /\ m \in 1 .. LastMonth
  BY <1>3, MonthsAre
<1>5. m # 1
  BY <1>1, <1>2, <1>4, MonthsAre
<1>6. MonthStart[m] <= hour
  <2>1. m - 1 \in Months /\ m - 1 \notin after
    BY <1>3, <1>4, <1>5, MonthsAre
  <2>2. (m - 1) + 1 = m /\ m \in 1 .. LastMonth + 1
    BY <1>4, MonthsAre
  <2>3. ~(hour < MonthStart[m])
    BY <2>1, <2>2
  <2> QED BY <1>1, <1>2, <2>2, <2>3
<1>7. MonthOf[hour] \in Months /\ MonthStart[MonthOf[hour]] <= hour
      /\ hour < MonthStart[MonthOf[hour] + 1]
  BY <1>4, <1>6 DEF MonthOf
<1>8. MonthOf[hour] # 1
  BY <1>1, <1>2, <1>7, MonthsAre
<1> QED BY <1>2, <1>7, <1>8, MonthsAre

\* The hour a period may begin at in a month.
Begins(anchor, m) == MonthStart[m] + DayHours * (AnchorIn(anchor, m) - 1)

\* A period begins within its month, however short.
LEMMA BeginsInMonth ==
    ASSUME NEW anchor \in Anchors, NEW m \in Months
    PROVE  /\ AnchorIn(anchor, m) \in Nat \ {0}
           /\ Begins(anchor, m) \in Nat
           /\ MonthStart[m] <= Begins(anchor, m) /\ Begins(anchor, m) < MonthStart[m + 1]
<1> DEFINE day == AnchorIn(anchor, m)
<1>1. anchor \in Int /\ anchor >= 0 /\ MonthDays[m] \in Nat \ {0} /\ DayHours \in Nat \ {0}
  BY MonthsAre DEF Anchors
<1>2. day \in Nat \ {0} /\ day <= MonthDays[m]
  BY <1>1 DEF AnchorIn
<1> HIDE DEF day
<1>3. MonthStart[m] \in Nat
  BY MonthsInOrder, MonthsAre
<1> DEFINE length == DayHours * MonthDays[m]
           passed == DayHours * (day - 1)
<1>4. passed \in Nat /\ passed < length /\ length \in Nat
  <2>1. \A d \in Nat \ {0}, a, b \in Nat : a < b => d * a < d * b /\ d * a \in Nat /\ d * b \in Nat
    OBVIOUS
  <2>2. day - 1 \in Nat /\ day - 1 < MonthDays[m]
    BY <1>1, <1>2
  <2> QED BY <1>1, <2>1, <2>2
<1>5. Begins(anchor, m) = MonthStart[m] + passed
  BY DEF Begins, day
<1>6. MonthStart[m + 1] = MonthStart[m] + length
  BY MonthIsLong
<1> HIDE DEF length, passed
<1> QED BY <1>2, <1>3, <1>4, <1>5, <1>6 DEF day

\* The boundaries of the reference are those hours.
LEMMA BoundariesAre ==
    ASSUME NEW anchor \in Anchors
    PROVE  Boundaries[anchor] = {Begins(anchor, m) : m \in Months}
<1>1. anchor \in Int
  BY DEF Anchors
<1>2. ASSUME NEW m \in Months
      PROVE  (IF anchor = 0 THEN 1 ELSE Min({anchor, MonthDays[m]})) = AnchorIn(anchor, m)
  <2>1. Min({anchor, MonthDays[m]}) = IF anchor <= MonthDays[m] THEN anchor ELSE MonthDays[m]
    BY <1>1, MinOfTwo, MonthsAre
  <2>2. MonthDays[m] \in Int
    BY MonthsAre
  <2> QED BY <1>1, <2>1, <2>2 DEF AnchorIn
<1> QED BY <1>2 DEF Boundaries, Begins

\* A period begins at the last boundary.
LEMMA PeriodBegins ==
    ASSUME NEW anchor \in Anchors, NEW hour \in Hours
    PROVE  LET begun == PeriodStart[anchor][hour]
           IN  /\ begun \in Boundaries[anchor] /\ begun \in Nat /\ begun <= hour
               /\ \A b \in Boundaries[anchor] : b <= hour => b <= begun
<1> DEFINE month1 == MonthOf[hour]
           begun == IF DayIn[hour] < AnchorIn(anchor, month1) THEN month1 - 1 ELSE month1
<1>1. /\ hour \in Nat /\ month1 \in 2 .. LastMonth
      /\ MonthStart[month1] <= hour /\ hour < MonthStart[month1 + 1]
  BY MonthOfHour
<1> HIDE DEF month1
<1>2. month1 \in Months /\ month1 - 1 \in Months /\ (month1 - 1) + 1 = month1
      /\ month1 \in 1 .. LastMonth + 1 /\ month1 + 1 \in 1 .. LastMonth + 1
  BY <1>1, MonthsAre
<1>3. \A m \in 1 .. LastMonth + 1 : MonthStart[m] \in Nat
  BY MonthsInOrder
<1>4. DayIn[hour] < AnchorIn(anchor, month1) <=> hour < Begins(anchor, month1)
  <2> DEFINE x == hour - MonthStart[month1]
             n == AnchorIn(anchor, month1) - 1
  <2>1. x \in Int /\ n \in Int /\ DayHours \in Nat \ {0} /\ AnchorIn(anchor, month1) \in Nat
    <3>1. AnchorIn(anchor, month1) \in Nat /\ DayHours \in Nat \ {0}
      BY <1>2, BeginsInMonth, MonthsAre
    <3>2. MonthStart[month1] \in Nat
      BY <1>2, <1>3
    <3> QED BY <1>1, <3>1, <3>2
  <2>2. DayIn[hour] = x \div DayHours + 1
    BY DEF DayIn, month1
  <2>3. Begins(anchor, month1) = MonthStart[month1] + DayHours * n
    BY DEF Begins
  <2>4. x \div DayHours \in Int /\ (x \div DayHours < n <=> x < DayHours * n)
    <3> HIDE DEF x, n
    <3> QED BY <2>1, DivisionBelow
  <2>5. DayHours * n \in Int
    <3> HIDE DEF n
    <3> QED BY <2>1
  <2>6. hour < MonthStart[month1] + DayHours * n <=> x < DayHours * n
    <3> DEFINE d == DayHours * n
    <3> HIDE DEF d, n
    <3> QED BY <1>1, <1>2, <1>3, <2>5 DEF d
  <2>7. DayIn[hour] < AnchorIn(anchor, month1) <=> x \div DayHours < n
    <3> DEFINE q == x \div DayHours
    <3> HIDE DEF q
    <3> QED BY <2>1, <2>2, <2>4 DEF q
  <2> QED BY <2>3, <2>4, <2>6, <2>7
<1>5. PeriodStart[anchor][hour] = Begins(anchor, begun)
  BY DEF PeriodStart, Begins, month1
<1>6. begun \in Months /\ Begins(anchor, begun) <= hour
  <2>1. CASE hour < Begins(anchor, month1)
    <3>1. begun = month1 - 1
      BY <1>4, <2>1
    <3>2. Begins(anchor, begun) < MonthStart[month1] /\ Begins(anchor, begun) \in Nat
      BY <1>2, <3>1, BeginsInMonth
    <3> QED BY <1>1, <1>2, <1>3, <3>1, <3>2
  <2>2. CASE ~(hour < Begins(anchor, month1))
    <3>1. begun = month1
      BY <1>4, <2>2
    <3>2. Begins(anchor, month1) \in Nat
      BY <1>2, BeginsInMonth
    <3> QED BY <1>1, <1>2, <2>2, <3>1, <3>2
  <2> QED BY <2>1, <2>2
<1>7. ASSUME NEW m \in Months, Begins(anchor, m) <= hour
      PROVE  Begins(anchor, m) <= Begins(anchor, begun)
  <2>1. m \in 1 .. LastMonth /\ begun \in 1 .. LastMonth
    BY <1>6, MonthsAre
  <2>2. /\ Begins(anchor, m) \in Nat /\ Begins(anchor, begun) \in Nat
        /\ MonthStart[m] <= Begins(anchor, m)
        /\ Begins(anchor, m) < MonthStart[m + 1]
        /\ MonthStart[begun] <= Begins(anchor, begun)
    BY <1>6, BeginsInMonth
  <2>3. CASE m <= begun
    <3>1. CASE m = begun
      BY <2>2, <3>1
    <3>2. CASE m + 1 <= begun
      <4>1. MonthStart[m + 1] <= MonthStart[begun]
        <5>1. m + 1 \in 1 .. LastMonth + 1 /\ begun \in 1 .. LastMonth + 1
          BY <2>1, MonthsAre
        <5> HIDE DEF begun
        <5>2. m + 1 = begun \/ m + 1 < begun
          BY <2>1, <3>2
        <5> QED BY <1>3, <5>1, <5>2, MonthsInOrder
      <4>2. MonthStart[m + 1] \in Nat /\ MonthStart[begun] \in Nat
        BY <1>3, <2>1, MonthsAre
      <4> HIDE DEF begun
      <4> QED BY <2>2, <4>1, <4>2
    <3> HIDE DEF begun
    <3> QED BY <2>1, <2>3, <3>1, <3>2
  <2>4. CASE begun < m
    <3>1. m > month1 \/ (m = month1 /\ hour < Begins(anchor, month1))
      BY <1>1, <1>4, <2>1, <2>4
    <3>2. CASE m > month1
      <4>1. month1 + 1 \in 1 .. LastMonth + 1 /\ m \in 1 .. LastMonth + 1
            /\ (month1 + 1 = m \/ month1 + 1 < m)
        BY <1>1, <2>1, <3>2, MonthsAre
      <4>2. MonthStart[month1 + 1] <= MonthStart[m]
        BY <1>3, <4>1, MonthsInOrder
      <4>3. MonthStart[m] \in Nat /\ MonthStart[month1 + 1] \in Nat
        BY <1>3, <4>1
      <4> QED BY <1>1, <1>7, <2>2, <4>2, <4>3
    <3>3. CASE m = month1 /\ hour < Begins(anchor, month1)
      BY <1>1, <1>7, <2>2, <3>3
    <3> QED BY <3>1, <3>2, <3>3
  <2> HIDE DEF begun
  <2> QED BY <2>1, <2>3, <2>4
<1> HIDE DEF begun
<1>8. Begins(anchor, begun) \in Nat
  BY <1>6, BeginsInMonth
<1> QED BY <1>5, <1>6, <1>7, <1>8, BoundariesAre

\* The hours of a period so far, counted either way.
LEMMA SamePeriod ==
    ASSUME NEW anchor \in Anchors, NEW hour \in Hours, NEW H \in SUBSET Hours
    PROVE  LET begun == Max({b \in Boundaries[anchor] : b <= hour})
           IN  {h \in H : h < hour /\ PeriodStart[anchor][h] = PeriodStart[anchor][hour]}
               = {h \in H : begun <= h /\ h < hour}
<1> DEFINE start == PeriodStart[anchor][hour]
           past == {b \in Boundaries[anchor] : b <= hour}
<1>1. start \in past /\ start \in Nat /\ \A b \in past : b <= start
  BY PeriodBegins
<1>2. \A b \in past : b \in Nat
  BY BoundariesAre, BeginsInMonth
<1>3. Max(past) = start
  <2> HIDE DEF past, start
  <2>1. Max(past) \in past /\ \A b \in past : Max(past) >= b
    <3>1. \E x \in past : \A y \in past : x >= y
      BY <1>1, <1>2
    <3> QED BY <3>1 DEF Max
  <2> DEFINE last == Max(past)
  <2>2. last \in Nat /\ last <= start /\ last >= start
    <3> HIDE DEF last
    <3> QED BY <1>1, <1>2, <2>1 DEF last
  <2> HIDE DEF last
  <2>3. last = start
    BY <1>1, <2>2
  <2> QED BY <2>3 DEF last
<1> SUFFICES ASSUME NEW h \in H, h < hour
             PROVE  PeriodStart[anchor][h] = start <=> start <= h
  BY <1>3
<1> DEFINE mine == PeriodStart[anchor][h]
<1>4. h \in Hours /\ h \in Nat /\ hour \in Nat
  BY MonthOfHour
<1>5. mine \in Boundaries[anchor] /\ mine \in Nat /\ mine <= h
      /\ \A b \in Boundaries[anchor] : b <= h => b <= mine
  BY <1>4, PeriodBegins
<1>6. start \in Boundaries[anchor] /\ start <= hour
      /\ \A b \in Boundaries[anchor] : b <= hour => b <= start
  BY PeriodBegins
<1> HIDE DEF mine, start, past
<1>7. start <= h => mine = start
  BY <1>1, <1>4, <1>5, <1>6
<1> QED BY <1>5, <1>7 DEF mine

-----------------------------------------------------------------------------
(* Steps.                                                                  *)

\* The step a unit falls in.
IsStepOf(steps, position, s) ==
    /\ s \in steps /\ s.start <= position
    /\ \A t \in steps : t.start <= position => t.start <= s.start
StepOf(steps, position) ==
    CHOOSE s \in steps : s.start <= position
                         /\ \A t \in steps : t.start <= position => t.start <= s.start

\* Every unit falls in one step, and has its price.
LEMMA StepOfUnit ==
    ASSUME NEW steps, IsLadder(steps), NEW position \in Nat
    PROVE  /\ IsStepOf(steps, position, StepOf(steps, position))
           /\ \A s : IsStepOf(steps, position, s) => s = StepOf(steps, position)
           /\ UnitPrice(steps, position) = StepOf(steps, position).price
           /\ UnitPrice(steps, position) \in Nat
<1>1. \A s \in steps : s.start \in Nat /\ s.price \in Nat
  BY DEF IsLadder
<1>2. \E s \in steps : s.start = 0
  BY DEF IsLadder
<1> DEFINE below == {position - s.start : s \in {s \in steps : s.start <= position}}
<1>3. below \in SUBSET Nat /\ below # {}
  <2>1. PICK s \in steps : s.start = 0
    BY <1>2
  <2>2. s.start <= position /\ position - s.start \in below
    BY <2>1
  <2>3. \A n \in below : n \in Nat
    <3> SUFFICES ASSUME NEW s2 \in steps, s2.start <= position PROVE position - s2.start \in Nat
      OBVIOUS
    <3>1. s2.start \in Nat
      BY <1>1
    <3> QED BY <3>1
  <2> HIDE DEF below
  <2> QED BY <2>2, <2>3
<1>4. PICK n \in below : \A k \in below : n <= k
  BY <1>3, LeastNatural
<1>5. PICK s \in steps : s.start <= position /\ n = position - s.start
  BY <1>4
<1>6. \A t \in steps : t.start <= position => n <= position - t.start
  BY <1>4
<1> HIDE DEF below
<1>7. IsStepOf(steps, position, s)
  BY <1>1, <1>5, <1>6 DEF IsStepOf
<1>8. IsStepOf(steps, position, StepOf(steps, position))
  BY <1>7 DEF IsStepOf, StepOf
<1>9. ASSUME NEW t, IsStepOf(steps, position, t) PROVE t = StepOf(steps, position)
  <2> DEFINE u == StepOf(steps, position)
  <2>1. u \in steps /\ t \in steps /\ u.start <= t.start /\ t.start <= u.start
    BY <1>8, <1>9 DEF IsStepOf
  <2> HIDE DEF u
  <2>2. u.start = t.start
    BY <1>1, <2>1
  <2> QED BY <2>1, <2>2 DEF IsLadder, u
<1>10. UnitPrice(steps, position) = StepOf(steps, position).price
  BY DEF UnitPrice, StepOf
<1>11. StepOf(steps, position) \in steps
  BY <1>8 DEF IsStepOf
<1> QED BY <1>1, <1>8, <1>9, <1>10, <1>11

\* The marginal price is the price of the unit that comes next.
LEMMA MarginalIsUnitPrice ==
    ASSUME NEW steps, IsLadder(steps), NEW position \in Nat
    PROVE  MarginalPrice(steps, position) = UnitPrice(steps, position)
<1> DEFINE containing == {s \in steps : s.start <= position /\ position < s.end}
           a == StepOf(steps, position)
           highest == CHOOSE s \in steps : \A other \in steps : s.start >= other.start
<1>1. IsStepOf(steps, position, a) /\ UnitPrice(steps, position) = a.price
  BY StepOfUnit
<1>2. \A s \in steps : s.start \in Nat /\ s.end \in Nat /\ s.start < s.end
  BY DEF IsLadder
<1>3. \A s, t \in steps : /\ s.start = t.start => s = t
                          /\ s.start < t.start => s.end <= t.start /\ \E u \in steps : u.start = s.end
  BY DEF IsLadder
<1> HIDE DEF a
<1>4. a \in steps /\ a.start <= position /\ \A t \in steps : t.start <= position => t.start <= a.start
  BY <1>1 DEF IsStepOf
<1>5. MarginalPrice(steps, position) =
        IF steps = {} THEN 0 ELSE IF containing # {} THEN (CHOOSE s \in containing : TRUE).price
        ELSE highest.price
  BY DEF MarginalPrice
<1>6. \A s \in containing : s = a
  <2> SUFFICES ASSUME NEW s \in containing PROVE s = a
    OBVIOUS
  <2>1. s \in steps /\ s.start <= position /\ position < s.end /\ s.start <= a.start
    BY <1>4
  <2>2. ~(s.start < a.start)
    <3>1. s.start < a.start => s.end <= a.start
      BY <1>3, <1>4, <2>1
    <3> QED BY <1>2, <1>4, <2>1, <3>1
  <2>3. s.start = a.start
    BY <1>2, <1>4, <2>1, <2>2
  <2> QED BY <1>3, <1>4, <2>1, <2>3
<1>7. CASE containing # {}
  <2>1. (CHOOSE s \in containing : TRUE) \in containing
    BY <1>7
  <2> HIDE DEF containing
  <2>2. (CHOOSE s \in containing : TRUE) = a
    BY <1>6, <2>1
  <2> QED BY <1>1, <1>4, <1>5, <1>7, <2>2
<1>8. CASE containing = {}
  <2>1. a.end <= position
    BY <1>2, <1>4, <1>8
  <2>2. \A t \in steps : a.start >= t.start
    <3> SUFFICES ASSUME NEW t \in steps, a.start < t.start PROVE FALSE
      BY <1>2, <1>4
    <3>1. PICK u \in steps : u.start = a.end
      BY <1>3, <1>4
    <3> QED BY <1>2, <1>4, <2>1, <3>1
  <2>3. highest \in steps /\ \A other \in steps : highest.start >= other.start
    BY <1>4, <2>2
  <2> HIDE DEF highest
  <2>4. highest.start = a.start
    BY <1>2, <1>4, <2>2, <2>3
  <2>5. highest = a
    BY <1>3, <1>4, <2>3, <2>4
  <2> QED BY <1>1, <1>4, <1>5, <1>8, <2>5
<1> QED BY <1>7, <1>8

\* Units with no step beginning between them cost the same.
LEMMA SamePrice ==
    ASSUME NEW steps, IsLadder(steps), NEW low \in Nat, NEW high \in Nat, low <= high,
           \A s \in steps : ~(low < s.start /\ s.start <= high)
    PROVE  UnitPrice(steps, high) = UnitPrice(steps, low)
<1> DEFINE a == StepOf(steps, low)
           b == StepOf(steps, high)
<1>1. IsStepOf(steps, low, a) /\ UnitPrice(steps, low) = a.price
      /\ UnitPrice(steps, high) = b.price
      /\ \A s : IsStepOf(steps, high, s) => s = b
  BY StepOfUnit
<1>2. \A s \in steps : s.start \in Nat
  BY DEF IsLadder
<1> HIDE DEF a, b
<1>3. IsStepOf(steps, high, a)
  BY <1>1, <1>2 DEF IsStepOf
<1> QED BY <1>1, <1>3

\* The least of a set of numbers.
LEMMA MinIs ==
    ASSUME NEW S \in SUBSET Nat, S # {}
    PROVE  Min(S) \in S /\ \A x \in S : Min(S) <= x
<1>1. \E x \in S : \A y \in S : x <= y
  BY LeastNatural
<1> QED BY <1>1 DEF Min

\* An hour cut at the boundaries it crosses costs what its units cost.
LEMMA CutsAddUp ==
    ASSUME NEW steps, IsLadder(steps), NEW cumulative \in Nat, NEW kwh \in Nat
    PROVE  PriceAcrossSteps(steps, cumulative, kwh)
           = SumFunction([unit \in 0 .. kwh - 1 |-> UnitPrice(steps, cumulative + unit)])
<1> DEFINE ends == cumulative + kwh
           cuts == {cumulative} \cup {s.start : s \in {s \in steps : cumulative < s.start /\ s.start < ends}}
           later(cut) == {ends} \cup {c \in cuts : c > cut}
           EndOf(cut) == Min(later(cut))
           units == 0 .. kwh - 1
           price == [unit \in units |-> UnitPrice(steps, cumulative + unit)]
           part == [cut \in cuts |-> cut - cumulative .. EndOf(cut) - cumulative - 1]
           pieces == [cut \in cuts |-> (EndOf(cut) - cut) * MarginalPrice(steps, cut)]
<1>1. PriceAcrossSteps(steps, cumulative, kwh) = SumOver(pieces, cuts)
  BY DEF PriceAcrossSteps, SumFunction, SumOver
<1>2. SumFunction(price) = SumOver(price, units)
  BY DEF SumFunction, SumOver
<1>3. ends \in Nat /\ \A s \in steps : s.start \in Nat
  BY DEF IsLadder
<1>4. cumulative \in cuts /\ \A cut \in cuts : cut \in Nat /\ cumulative <= cut /\ cut <= ends
  BY <1>3
<1>5. IsFiniteSet(cuts)
  <2>1. cuts \subseteq cumulative .. ends /\ IsFiniteSet(cumulative .. ends)
    <3>1. cuts \subseteq cumulative .. ends
      <4> HIDE DEF cuts, ends
      <4> QED BY <1>3, <1>4
    <3>2. cumulative \in Int /\ ends \in Int
      BY <1>3
    <3> HIDE DEF cuts, ends
    <3>3. IsFiniteSet(cumulative .. ends)
      BY <3>2, FS_Interval
    <3> QED BY <3>1, <3>3
  <2> HIDE DEF cuts
  <2> QED BY <2>1, FS_Subset
<1>6. \A cut \in cuts : /\ EndOf(cut) \in later(cut) /\ \A x \in later(cut) : EndOf(cut) <= x
                        /\ EndOf(cut) \in Nat /\ cut <= EndOf(cut) /\ EndOf(cut) <= ends
  <2> SUFFICES ASSUME NEW cut \in cuts
               PROVE  /\ EndOf(cut) \in later(cut) /\ \A x \in later(cut) : EndOf(cut) <= x
                      /\ EndOf(cut) \in Nat /\ cut <= EndOf(cut) /\ EndOf(cut) <= ends
    OBVIOUS
  <2>1. later(cut) \in SUBSET Nat /\ ends \in later(cut) /\ \A x \in later(cut) : cut <= x
    <3>1. ends \in Nat /\ \A c \in cuts : c \in Nat /\ c <= ends
      BY <1>3, <1>4
    <3> HIDE DEF cuts, ends
    <3>2. \A x \in later(cut) : x \in Nat /\ cut <= x
      BY <3>1
    <3>3. ends \in later(cut)
      OBVIOUS
    <3> HIDE DEF later
    <3> QED BY <3>2, <3>3
  <2>2. EndOf(cut) \in later(cut) /\ \A x \in later(cut) : EndOf(cut) <= x
    <3> HIDE DEF later
    <3> QED BY <2>1, MinIs
  <2> HIDE DEF later
  <2> QED BY <2>1, <2>2
<1>7. \A s \in steps : cumulative < s.start /\ s.start < ends => s.start \in cuts
  OBVIOUS
<1> HIDE DEF cuts
<1>8. \A c \in cuts, d \in cuts : c < d => EndOf(c) <= d
  <2> SUFFICES ASSUME NEW c \in cuts, NEW d \in cuts, c < d PROVE EndOf(c) <= d
    OBVIOUS
  <2>1. d \in later(c)
    BY <1>4
  <2> QED BY <1>6, <2>1
<1>9. \A c, d \in cuts : c # d => part[c] \cap part[d] = {}
  <2> SUFFICES ASSUME NEW c \in cuts, NEW d \in cuts, c # d, NEW x \in part[c], x \in part[d]
               PROVE  FALSE
    OBVIOUS
  <2>1. x \in Int /\ c - cumulative <= x /\ x <= EndOf(c) - cumulative - 1
        /\ d - cumulative <= x /\ x <= EndOf(d) - cumulative - 1
    <3> HIDE DEF EndOf
    <3> QED OBVIOUS
  <2>2. EndOf(c) \in Nat /\ EndOf(d) \in Nat /\ c \in Nat /\ d \in Nat
    BY <1>4, <1>6
  <2>3. EndOf(c) <= d \/ EndOf(d) <= c
    <3>1. c < d \/ d < c
      BY <2>2
    <3> QED BY <1>8, <3>1
  <2> HIDE DEF EndOf, part
  <2> QED BY <2>1, <2>2, <2>3
<1>10. UNION {part[cut] : cut \in cuts} = units
  <2>1. ASSUME NEW cut \in cuts, NEW x \in part[cut] PROVE x \in units
    <3>1. x \in Int /\ cut - cumulative <= x /\ x <= EndOf(cut) - cumulative - 1
      <4> HIDE DEF EndOf
      <4> QED BY <2>1
    <3>2. EndOf(cut) \in Nat /\ EndOf(cut) <= ends /\ cut \in Nat /\ cumulative <= cut
      BY <1>4, <1>6
    <3> HIDE DEF EndOf
    <3> QED BY <3>1, <3>2
  <2>2. ASSUME NEW x \in units PROVE \E cut \in cuts : x \in part[cut]
    <3> DEFINE below == {x + cumulative - c : c \in {c \in cuts : c <= x + cumulative}}
    <3>1. x \in Nat /\ x <= kwh - 1
      BY <2>2
    <3>2. below \in SUBSET Nat /\ below # {}
      BY <1>4, <3>1
    <3>3. PICK n \in below : \A k \in below : n <= k
      BY <3>2, LeastNatural
    <3>4. PICK cut \in cuts : cut <= x + cumulative /\ n = x + cumulative - cut
      BY <3>3
    <3>5. \A c \in cuts : c <= x + cumulative => n <= x + cumulative - c
      BY <3>3
    <3> HIDE DEF below
    <3>6. EndOf(cut) \in later(cut) /\ EndOf(cut) \in Nat /\ cut \in Nat
      BY <1>4, <1>6
    <3>7. ~(EndOf(cut) <= x + cumulative)
      <4> SUFFICES ASSUME EndOf(cut) <= x + cumulative PROVE FALSE
        OBVIOUS
      <4>1. CASE EndOf(cut) = ends
        <5> HIDE DEF EndOf
        <5> QED BY <3>1, <4>1
      <4>2. CASE EndOf(cut) \in cuts /\ EndOf(cut) > cut
        <5>1. n <= x + cumulative - EndOf(cut)
          <6> HIDE DEF EndOf
          <6> QED BY <3>5, <4>2
        <5> HIDE DEF EndOf
        <5> QED BY <3>1, <3>4, <3>6, <4>2, <5>1
      <4> HIDE DEF EndOf
      <4> QED BY <3>6, <4>1, <4>2
    <3>8. x \in part[cut]
      <4> HIDE DEF EndOf
      <4> QED BY <3>1, <3>4, <3>6, <3>7
    <3> QED BY <3>8
  <2> HIDE DEF part, units
  <2> QED BY <2>1, <2>2
<1>11. \A cut \in cuts : IsFiniteSet(part[cut]) /\ Cardinality(part[cut]) = EndOf(cut) - cut
  <2> SUFFICES ASSUME NEW cut \in cuts
               PROVE  IsFiniteSet(part[cut]) /\ Cardinality(part[cut]) = EndOf(cut) - cut
    OBVIOUS
  <2>1. EndOf(cut) \in Nat /\ cut \in Nat /\ cut <= EndOf(cut)
    BY <1>4, <1>6
  <2> DEFINE a == cut - cumulative
             b == EndOf(cut) - cumulative - 1
  <2>2. a \in Int /\ b \in Int /\ (IF a > b THEN 0 ELSE b - a + 1) = EndOf(cut) - cut
    <3> HIDE DEF EndOf
    <3> QED BY <2>1
  <2>3. part[cut] = a .. b
    OBVIOUS
  <2> HIDE DEF a, b, part, EndOf
  <2>4. IsFiniteSet(a .. b) /\ Cardinality(a .. b) = IF a > b THEN 0 ELSE b - a + 1
    BY <2>2, FS_Interval
  <2> QED BY <2>2, <2>3, <2>4
<1>12. ASSUME NEW cut \in cuts
       PROVE  SumOver(price, part[cut]) = (EndOf(cut) - cut) * MarginalPrice(steps, cut)
  <2>1. EndOf(cut) \in Nat /\ cut \in Nat /\ cumulative <= cut /\ EndOf(cut) <= ends
        /\ \A x \in later(cut) : EndOf(cut) <= x
    BY <1>4, <1>6
  <2>2. MarginalPrice(steps, cut) = UnitPrice(steps, cut) /\ UnitPrice(steps, cut) \in Nat
    BY <2>1, MarginalIsUnitPrice, StepOfUnit
  <2>3. ASSUME NEW x \in part[cut] PROVE price[x] = UnitPrice(steps, cut)
    <3>1. x \in Int /\ cut - cumulative <= x /\ x <= EndOf(cut) - cumulative - 1
      <4> HIDE DEF EndOf
      <4> QED BY <2>3
    <3>2. x \in units /\ price[x] = UnitPrice(steps, cumulative + x)
      <4>1. x \in units
        <5> HIDE DEF EndOf
        <5> QED BY <2>1, <3>1
      <4> QED BY <4>1
    <3>3. cumulative + x \in Nat /\ cut <= cumulative + x /\ cumulative + x < EndOf(cut)
      <4> HIDE DEF EndOf
      <4> QED BY <2>1, <3>1
    <3>4. ASSUME NEW s \in steps, cut < s.start, s.start <= cumulative + x PROVE FALSE
      <4>1. s.start \in Nat /\ s.start < EndOf(cut)
        <5> HIDE DEF EndOf
        <5> QED BY <1>3, <2>1, <3>3, <3>4
      <4>2. cumulative < s.start /\ s.start < ends
        <5> HIDE DEF EndOf
        <5> QED BY <1>3, <2>1, <3>4, <4>1
      <4>3. s.start \in later(cut)
        BY <1>7, <3>4, <4>2
      <4>4. EndOf(cut) <= s.start
        BY <2>1, <4>3
      <4> HIDE DEF EndOf
      <4> QED BY <2>1, <4>1, <4>4
    <3>5. UnitPrice(steps, cumulative + x) = UnitPrice(steps, cut)
      BY <2>1, <3>3, <3>4, SamePrice
    <3> QED BY <3>2, <3>5
  <2> DEFINE v == UnitPrice(steps, cut)
  <2>4. SumOver(price, part[cut]) = Cardinality(part[cut]) * v
    <3> HIDE DEF v, part, price
    <3>1. v \in Int /\ \A x \in part[cut] : price[x] = v
      BY <2>2, <2>3 DEF v
    <3> QED BY <1>11, <3>1, SumOfEqual
  <2> QED BY <1>11, <2>2, <2>4
<1>13. SumOver(price, units) = SumOver(pieces, cuts)
  <2>1. \A cut \in cuts : \A x \in part[cut] : price[x] \in Int
    <3>1. \A x \in units : price[x] \in Nat
      <4> SUFFICES ASSUME NEW x \in units PROVE UnitPrice(steps, cumulative + x) \in Nat
        OBVIOUS
      <4>1. cumulative + x \in Nat
        OBVIOUS
      <4> QED BY <4>1, StepOfUnit
    <3>2. \A cut \in cuts : \A x \in part[cut] : x \in units
      <4> HIDE DEF part, units
      <4> QED BY <1>10
    <3> HIDE DEF part, units, price
    <3> QED BY <3>1, <3>2
  <2>2. \A cut \in cuts : IsFiniteSet(part[cut])
    BY <1>11
  <2>3. \A cut \in cuts : pieces[cut] = SumOver(price, part[cut])
    <3> HIDE DEF price, part, EndOf
    <3> QED BY <1>12
  <2> HIDE DEF EndOf, later, ends, price, part, units, pieces
  <2>4. \A x : x \in units <=> \E cut \in cuts : x \in part[cut]
    BY <1>10
  <2> QED BY <1>5, <1>9, <2>1, <2>2, <2>3, <2>4, SumOfParts
<1> HIDE DEF price, pieces, part, units
<1> QED BY <1>1, <1>2, <1>13 DEF price, units

\* What a period had consumed by an hour, counted either way, is a number.
LEMMA BeforeIs ==
    ASSUME NEW anchor \in Anchors, NEW kwh \in Profiles, NEW hour \in DOMAIN kwh
    PROVE  LET begun == Max({b \in Boundaries[anchor] : b <= hour})
           IN  /\ Before(kwh, anchor, hour) \in Nat
               /\ Before(kwh, anchor, hour)
                  = SumFunctionOnSet(kwh, {h \in DOMAIN kwh : begun <= h /\ h < hour})
<1> DEFINE H == DOMAIN kwh
           begun == Max({b \in Boundaries[anchor] : b <= hour})
           earlier == {h \in H : h < hour /\ PeriodStart[anchor][h] = PeriodStart[anchor][hour]}
<1>1. H \in SUBSET Hours /\ hour \in Hours /\ \A h \in H : kwh[h] \in Nat
  BY ProfilesAssumption
<1>2. earlier = {h \in H : begun <= h /\ h < hour}
  <2> HIDE DEF H
  <2> QED BY <1>1, SamePeriod
<1>3. Before(kwh, anchor, hour) = SumOver(kwh, earlier)
  BY DEF Before, SumOver
<1>4. SumFunctionOnSet(kwh, {h \in H : begun <= h /\ h < hour}) = SumOver(kwh, {h \in H : begun <= h /\ h < hour})
  BY DEF SumOver
<1>5. IsFiniteSet(earlier)
  <2>1. IsFiniteSet(Hours)
    <3>1. MonthStart[2] \in Int /\ Forever - 1 \in Int
      BY MonthsInOrder, MonthsAre, ArchiveAssumption DEF Forever
    <3> QED BY <3>1, FS_Interval DEF Hours
  <2>2. earlier \subseteq Hours
    BY <1>1
  <2> HIDE DEF earlier
  <2> QED BY <2>1, <2>2, FS_Subset
<1>6. \A h \in earlier : kwh[h] \in Nat
  BY <1>1
<1>7. SumOver(kwh, earlier) \in Nat
  <2> HIDE DEF earlier
  <2>1. \A h \in earlier : kwh[h] \in Int
    BY <1>6
  <2> QED BY <1>5, <1>6, <2>1, SumType
<1> HIDE DEF earlier, H, begun
<1> QED BY <1>2, <1>3, <1>4, <1>7 DEF H, begun

\* The price of an hour of a stepped tariff is the reference's.
LEMMA HourCosts ==
    ASSUME NEW steps, IsLadder(steps), NEW anchor \in Anchors, NEW kwh \in Profiles, NEW hour \in DOMAIN kwh
    PROVE  PriceAcrossSteps(steps, Before(kwh, anchor, hour), kwh[hour]) = CostOf(steps, anchor, kwh, hour)
<1> DEFINE before == Before(kwh, anchor, hour)
           begun == Max({b \in Boundaries[anchor] : b <= hour})
           units(n) == SumFunction([unit \in 0 .. kwh[hour] - 1 |-> UnitPrice(steps, n + unit)])
<1>1. before \in Nat
      /\ before = SumFunctionOnSet(kwh, {h \in DOMAIN kwh : begun <= h /\ h < hour})
  BY BeforeIs
<1>2. kwh[hour] \in Nat
  BY ProfilesAssumption
<1>3. CostOf(steps, anchor, kwh, hour)
      = units(SumFunctionOnSet(kwh, {h \in DOMAIN kwh : begun <= h /\ h < hour}))
  BY DEF CostOf
<1> HIDE DEF before, begun
<1>4. PriceAcrossSteps(steps, before, kwh[hour]) = units(before)
  BY <1>1, <1>2, CutsAddUp
<1>5. CostOf(steps, anchor, kwh, hour) = units(before)
  <2> HIDE DEF units
  <2> QED BY <1>1, <1>3
<1> QED BY <1>4, <1>5 DEF before

\* What is published of a stepped tariff is what its units cost.
LEMMA PublishedIs ==
    ASSUME NEW t, IsTariff(t), IsPriceable(t), ~IsTimeOfUse(t),
           NEW anchor \in Anchors, NEW kwh \in Profiles, NEW adders, NEW hour \in DOMAIN kwh
    PROVE  ProjectHourlyCost(t, anchor, adders, "import", kwh)[hour]
           = DayHours * (CostOf(StepsAt(t, hour), anchor, kwh, hour) + kwh[hour] * RateAt(adders, hour))
             + t.standing
<1>1. hour \in Hours
  BY ProfilesAssumption
<1>2. IsLadder(StepsAt(t, hour))
  BY <1>1 DEF IsTariff, IsStepped
<1>3. EnergyCost(t, anchor, kwh, hour) = CostOf(StepsAt(t, hour), anchor, kwh, hour)
  BY <1>2, HourCosts DEF EnergyCost
<1>4. Publishes(t, "import", kwh)
  BY DEF Publishes
<1>5. ProjectHourlyCost(t, anchor, adders, "import", kwh)[hour]
      = DayHours * (EnergyCost(t, anchor, kwh, hour) + kwh[hour] * RateAt(adders, hour)) + t.standing
  BY <1>4 DEF ProjectHourlyCost
<1> QED BY <1>3, <1>5

-----------------------------------------------------------------------------
(* The inductive invariant.                                                *)

\* What is known of a supply point's adders: file, late save and store.
Known(p) == file[p].records \cup late[p].records \cup store[p].records

\* An answer of this refresh: all that is in force, and nothing outdated.
Fresh(p, t) ==
    /\ KeysOf(Observed(t)) = KeysNow(p)
    /\ \A a \in Observed(t), x \in Known(p) : Key(x) = Key(a) => x.price <= a.price

\* The newer copy adds what is in force at present, at most.
Adds(p, newer, older) == \A b \in newer : b \in older \/ Key(b) \in KeysNow(p)

\* A store that is its file's, and a save to come of one that was.
IsLoaded(p) == store[p].state = "loaded" /\ p \notin escaped
Owes(p) == late[p].waiting /\ p \notin escaped
\* The copy that will be the file in the end.
Latest(p) == IF IsLoaded(p) THEN store[p].records
             ELSE IF late[p].waiting THEN late[p].records ELSE file[p].records

\* This refresh has filed the answer, or has it still to file.
Done(p) == refresh.step = "file" /\ p \notin refresh.left
Answered(p) == \/ refresh.step = "read" /\ p \notin refresh.left
               \/ refresh.step = "file" /\ p \in refresh.left

\* What a tariff states is in the store.
Kept(p, t) ==
    /\ t.reason # "absent" => store[p].state # "none"
    /\ IsLoaded(p) => Observed(t) \subseteq store[p].records

ArchiveShape ==
    /\ month \in 2 .. LastMonth /\ running \in BOOLEAN
    /\ agreements \in [Points -> Offers]
    /\ refresh.step \in {"idle", "read", "file", "reprice"} /\ refresh.left \subseteq Points
    /\ refresh = [step |-> refresh.step, left |-> refresh.left, got |-> refresh.got]
    /\ refresh.got = [p \in Points |-> refresh.got[p]] /\ data = [p \in Points |-> data[p]]
    /\ file \in [Points -> [exists : BOOLEAN, damaged : BOOLEAN, records : SUBSET Records]]
    /\ store \in [Points -> [state : {"none", "loaded", "quarantined", "unread"}, records : SUBSET Records,
                             pending : BOOLEAN]]
    /\ late \in [Points -> [waiting : BOOLEAN, records : SUBSET Records]]
    /\ filed \in [Points -> SUBSET Records] /\ escaped \subseteq Points
    /\ baseline \subseteq Baseline

FilesAreRead(p) ==
    /\ IsArchive(file[p].records) /\ IsArchive(late[p].records) /\ IsArchive(store[p].records)
    /\ \A r \in filed[p] : IsStatement(r)
    /\ ~file[p].exists => file[p] = NoFile
    /\ store[p].state \in {"none", "quarantined"} => store[p] \in {NoStore, Quarantined}
    /\ store[p].state = "unread" => p \in escaped
    /\ p \in escaped => filed[p] = {}
    /\ ~late[p].waiting => late[p] = NotLate
    /\ file[p].damaged => ~IsLoaded(p) /\ ~Owes(p)

CopiesAgree(p) ==
    /\ IsLoaded(p) =>
        /\ Under(file[p].records, store[p].records)
        /\ Adds(p, store[p].records, file[p].records)
        /\ ~store[p].pending => store[p].records = file[p].records
    /\ Owes(p) =>
        /\ Under(file[p].records, late[p].records)
        /\ Adds(p, late[p].records, file[p].records)
        /\ IsLoaded(p) => Under(late[p].records, store[p].records)
    /\ filed[p] \subseteq Latest(p)

AnswersAreFiled(p) ==
    /\ data[p].reason # "absent" => store[p].state # "none"
    /\ IF Done(p) THEN Kept(p, refresh.got[p]) ELSE Kept(p, data[p])
    /\ Answered(p) =>
        \/ refresh.got[p].reason = "absent"
        \/ refresh.got[p] = data[p]
        \/ Fresh(p, refresh.got[p])
    /\ refresh.step = "file" /\ p \in refresh.left => refresh.got[p].reason # "absent"

NothingOnceRemoved ==
    ~running => /\ refresh = Idle /\ data = NoData
                /\ \A p \in Points : store[p] = NoStore /\ filed[p] = {}

ArchiveInv ==
    /\ ArchiveShape /\ NothingOnceRemoved
    /\ \A p \in Points : FilesAreRead(p) /\ IsTariff(data[p]) /\ IsTariff(refresh.got[p])
    /\ running => \A p \in Points : CopiesAgree(p) /\ AnswersAreFiled(p)

-----------------------------------------------------------------------------
(* What the invariant says.                                                *)
\* The types and the one statement a window.
LEMMA InvIsTyped == ArchiveInv => TariffTypeOK
<1> SUFFICES ASSUME ArchiveInv PROVE TariffTypeOK
  OBVIOUS
<1>1. month \in Months
  BY MonthsAre DEF ArchiveInv, ArchiveShape
<1>2. ASSUME NEW p \in Points
      PROVE  /\ OnePerWindow(file[p].records) /\ OnePerWindow(store[p].records)
             /\ ~file[p].exists => file[p] = NoFile
             /\ store[p].state \in {"none", "loaded", "quarantined", "unread"}
             /\ store[p].state \in {"none", "quarantined"} => store[p] \in {NoStore, Quarantined}
             /\ store[p].state = "unread" => p \in escaped
             /\ p \in escaped => filed[p] = {}
             /\ late[p].waiting => OnePerWindow(late[p].records)
  <2>1. OneEach(file[p].records) /\ OneEach(store[p].records) /\ OneEach(late[p].records)
    BY DEF ArchiveInv, FilesAreRead, IsArchive
  <2>2. OnePerWindow(file[p].records) /\ OnePerWindow(store[p].records) /\ OnePerWindow(late[p].records)
    BY <2>1, OneEachIsOnePerWindow
  <2> QED BY <2>2 DEF ArchiveInv, FilesAreRead, ArchiveShape
<1> QED BY <1>1, <1>2 DEF TariffTypeOK, ArchiveInv, ArchiveShape

\* Two statements of one kind that apply to an hour are of one window.
LEMMA StatementsKeepApart ==
    ASSUME NEW r, NEW s, NEW hour \in Int,
           r.kind = s.kind, AppliesAt(r, hour), AppliesAt(s, hour),
           \E m \in 2 .. LastMonth : r.from = MonthStart[WindowOf(r.kind, m)[1]]
                                     /\ r.to = MonthStart[WindowOf(r.kind, m)[2]],
           \E m \in 2 .. LastMonth : s.from = MonthStart[WindowOf(s.kind, m)[1]]
                                     /\ s.to = MonthStart[WindowOf(s.kind, m)[2]],
           r.kind \in Kinds
    PROVE  Key(r) = Key(s)
<1>1. PICK m \in 2 .. LastMonth : r.from = MonthStart[WindowOf(r.kind, m)[1]]
                                  /\ r.to = MonthStart[WindowOf(r.kind, m)[2]]
  OBVIOUS
<1>2. PICK n \in 2 .. LastMonth : s.from = MonthStart[WindowOf(s.kind, n)[1]]
                                  /\ s.to = MonthStart[WindowOf(s.kind, n)[2]]
  OBVIOUS
<1>3. WindowOf(r.kind, m) = WindowOf(r.kind, n)
  BY <1>1, <1>2, WindowsKeepApart DEF AppliesAt
<1> QED BY <1>1, <1>2, <1>3 DEF Key

\* An hour only one record applies to has the price of that record.
LEMMA RateIsStated ==
    ASSUME NEW R, NEW r \in R, NEW hour \in r.from .. r.to - 1, r.from \in Int, r.to \in Int,
           \A s \in R : s.kind = r.kind /\ AppliesAt(s, hour) => s = r
    PROVE  RateOf(R, r.kind, hour) = r.price
<1> DEFINE ofKind == {s \in R : s.kind = r.kind}
           covering == {s \in ofKind : AppliesAt(s, hour)}
           last(set) == CHOOSE s \in set : \A t \in set : s.from >= t.from
<1>1. AppliesAt(r, hour)
  BY DEF AppliesAt
<1>2. covering = {r} /\ r \in ofKind
  BY <1>1
<1>3. last(covering) = r
  <2> HIDE DEF covering
  <2>1. \E s \in covering : \A t \in covering : s.from >= t.from
    BY <1>2
  <2>2. last(covering) \in covering
    BY <2>1
  <2> QED BY <1>2, <2>2
<1>4. RateOf(R, r.kind, hour) = last(covering).price
  BY <1>2 DEF RateOf
<1> QED BY <1>3, <1>4

\* What was filed is in the store, and nothing shipped covers its hours.
LEMMA InvIsPriced == ArchiveInv => ObservedRatesArePriced
<1> SUFFICES ASSUME ArchiveInv, NEW p \in Points, data[p].reason # "absent",
                    store[p].state # "quarantined", NEW r \in filed[p], NEW hour \in r.from .. r.to - 1
             PROVE  RateOf(PricedWith(p), r.kind, hour) = r.price
  BY DEF ObservedRatesArePriced
<1>1. running
  BY DEF ArchiveInv, NothingOnceRemoved
<1>2. IsLoaded(p)
  <2>1. store[p].state # "none"
    BY <1>1 DEF ArchiveInv, AnswersAreFiled
  <2>2. p \notin escaped /\ store[p].state # "unread"
    BY DEF ArchiveInv, FilesAreRead
  <2> QED BY <2>1, <2>2 DEF ArchiveInv, ArchiveShape, IsLoaded
<1>3. r \in store[p].records
  BY <1>1, <1>2 DEF ArchiveInv, CopiesAgree, Latest
<1> DEFINE tariff == data[p]
           absent == tariff.reason # "absent" /\ tariff.fuel = NoAdder
           shipped == {s \in BaselineFor(tariff) : absent => s.kind # "fuel"}
<1>4. AddersFor(p) = {s \in shipped : Key(s) \notin KeysOf(store[p].records)} \cup store[p].records
  BY DEF AddersFor, WithBaseline, MergeObserved
<1>5. PricedWith(p) = AddersFor(p)
  BY <1>3, <1>4 DEF PricedWith
<1>6. \A s \in store[p].records : IsStatement(s)
  BY DEF ArchiveInv, FilesAreRead, IsArchive
<1>7. \A s \in AddersFor(p) : s.kind \in Kinds /\
        \E m \in 2 .. LastMonth : s.from = MonthStart[WindowOf(s.kind, m)[1]]
                                  /\ s.to = MonthStart[WindowOf(s.kind, m)[2]]
  <2>1. \A s \in store[p].records : s.kind \in Kinds /\
          \E m \in 2 .. LastMonth : s.from = MonthStart[WindowOf(s.kind, m)[1]]
                                    /\ s.to = MonthStart[WindowOf(s.kind, m)[2]]
    BY <1>6 DEF IsStatement, Stated
  <2>2. \A s \in shipped : \E b \in Baseline : s.kind = b.kind /\ s.from = b.from /\ s.to = b.to
    BY DEF BaselineFor, ArchiveInv, ArchiveShape
  <2>3. \A s \in shipped : s.kind \in Kinds /\
          \E m \in 2 .. LastMonth : s.from = MonthStart[WindowOf(s.kind, m)[1]]
                                    /\ s.to = MonthStart[WindowOf(s.kind, m)[2]]
    <3> HIDE DEF shipped
    <3> QED BY <2>2, BaselineAssumption
  <2> HIDE DEF shipped
  <2> QED BY <1>4, <2>1, <2>3
<1>8. r \in Records
  BY <1>3, <1>6, StatementType
<1>9. hour \in Int /\ AppliesAt(r, hour)
  BY <1>8 DEF Records, AppliesAt
<1>10. ASSUME NEW s \in AddersFor(p), s.kind = r.kind, AppliesAt(s, hour)
       PROVE  s = r
  <2>1. r \in AddersFor(p)
    BY <1>3, <1>4
  <2>2. Key(s) = Key(r)
    <3> HIDE DEF shipped
    <3> QED BY <1>7, <1>9, <1>10, <2>1, StatementsKeepApart
  <2>3. s \in store[p].records
    BY <1>3, <1>4, <2>2 DEF KeysOf
  <2> QED BY <1>3, <2>2, <2>3 DEF ArchiveInv, FilesAreRead, IsArchive, OneEach
<1> HIDE DEF shipped
<1>11. r \in AddersFor(p)
  BY <1>3, <1>4
<1> QED BY <1>5, <1>8, <1>10, <1>11, RateIsStated DEF Records

\* Every tariff in use has passed parsing.
LEMMA InvIsComplete == ArchiveInv => EveryHourIsPriced
<1> SUFFICES ASSUME ArchiveInv, NEW p \in Points, IsPriceable(data[p])
             PROVE  Publishes(data[p], "import", [hour \in Hours |-> 1])
  BY DEF EveryHourIsPriced
<1>1. IsTimed(data[p])
  BY DEF ArchiveInv, IsTariff
<1>2. IsTimeOfUse(data[p]) => \A hour \in Hours : BandPrice(data[p], hour) # 0
  BY <1>1, BandsArePriced
<1> QED BY <1>2 DEF Publishes

\* And a stepped one has its ladder.
LEMMA InvIsCharged == ArchiveInv => UnitsAreChargedOnce
<1> SUFFICES ASSUME ArchiveInv, NEW p \in Points, IsPriceable(data[p]), ~IsTimeOfUse(data[p]),
                    NEW anchor \in Anchors, NEW kwh \in Profiles, NEW hour \in DOMAIN kwh
             PROVE  ProjectHourlyCost(data[p], anchor, PricedWith(p), "import", kwh)[hour]
                    = DayHours * (CostOf(StepsAt(data[p], hour), anchor, kwh, hour)
                                  + kwh[hour] * RateAt(PricedWith(p), hour)) + data[p].standing
  BY DEF UnitsAreChargedOnce
<1>1. IsTariff(data[p])
  BY DEF ArchiveInv
<1> QED BY <1>1, PublishedIs

-----------------------------------------------------------------------------
(* Statements stay statements, whatever the provider restates.             *)
\* A restatement raises the price, so what was stated before is still below it.
LEMMA StatementsStay ==
    ASSUME restated \subseteq restated'
    PROVE  \A r : IsStatement(r) => IsStatement(r)'
<1>1. ASSUME NEW kind \in Kinds, NEW m \in 2 .. LastMonth
      PROVE  Highest(kind, m) <= Highest(kind, m)' /\ Highest(kind, m) \in Int /\ Highest(kind, m)' \in Int
  <2>1. WindowOf(kind, m)[1] \in Months
    BY WindowsAre, MonthsAre
  <2>2. Rates[kind][WindowOf(kind, m)[1]] \in Nat
    BY <2>1, ArchiveAssumption
  <2> QED BY <2>2 DEF Highest
<1> SUFFICES ASSUME NEW r, IsStatement(r) PROVE IsStatement(r)'
  OBVIOUS
<1>2. PICK kind \in Kinds, m \in 2 .. LastMonth :
        r = Stated(kind, m, r.price) /\ r.price \in Int /\ r.price <= Highest(kind, m)
  BY DEF IsStatement
<1>3. r.price <= Highest(kind, m)'
  BY <1>1, <1>2
<1> QED BY <1>2, <1>3 DEF IsStatement

\* So do archives and tariffs.
LEMMA ArchivesStay ==
    ASSUME restated \subseteq restated'
    PROVE  /\ \A R : IsArchive(R) => IsArchive(R)'
           /\ \A t : IsTariff(t) => IsTariff(t)'
BY StatementsStay DEF IsArchive, IsTariff, IsAdder

\* What a step leaves as it is.
LEMMA FilesStay ==
    ASSUME NEW p, FilesAreRead(p), restated \subseteq restated',
           file'[p] = file[p], late'[p] = late[p], store'[p] = store[p], filed'[p] \subseteq filed[p],
           p \in escaped' <=> p \in escaped
    PROVE  FilesAreRead(p)'
BY ArchivesStay, StatementsStay DEF FilesAreRead, IsLoaded, Owes

\* Copies that do not change agree as before, within a month.
LEMMA CopiesStay ==
    ASSUME NEW p, CopiesAgree(p), UNCHANGED <<month, agreements>>,
           file'[p] = file[p], late'[p] = late[p], store'[p] = store[p], filed'[p] = filed[p],
           p \in escaped' <=> p \in escaped
    PROVE  CopiesAgree(p)'
<1>1. KeysNow(p)' = KeysNow(p)
  BY DEF KeysNow
<1> QED BY <1>1 DEF CopiesAgree, Adds, Latest, IsLoaded, Owes

\* An answer stays fresh while nothing else becomes known.
LEMMA FreshStays ==
    ASSUME NEW p, UNCHANGED <<month, agreements>>, Known(p)' \subseteq Known(p),
           NEW t, Fresh(p, t)
    PROVE  Fresh(p, t)'
<1>1. KeysNow(p)' = KeysNow(p)
  BY DEF KeysNow
<1> QED BY <1>1 DEF Fresh

\* And what was to be filed stays so.
LEMMA AnswersStay ==
    ASSUME NEW p, AnswersAreFiled(p), UNCHANGED <<month, agreements, refresh, data, escaped>>,
           store'[p].state = store[p].state, store'[p].records = store[p].records,
           Known(p)' \subseteq Known(p)
    PROVE  AnswersAreFiled(p)'
<1>1. \A t : Fresh(p, t) => Fresh(p, t)'
  BY FreshStays
<1>2. \A t : Kept(p, t) => Kept(p, t)'
  BY DEF Kept, IsLoaded
<1>3. IF Done(p) THEN Kept(p, refresh.got[p])' ELSE Kept(p, data[p])'
  BY <1>2 DEF AnswersAreFiled
<1> QED BY <1>1, <1>3 DEF AnswersAreFiled, Done, Answered

-----------------------------------------------------------------------------
(* The first state, and what the provider does.                            *)
\* Nothing is an archive.
LEMMA EmptyIsArchive == IsArchive({})
BY FS_EmptySet DEF IsArchive, OneEach

\* The first state satisfies the invariant.
LEMMA InitArchive == Init => ArchiveInv
<1> SUFFICES ASSUME Init PROVE ArchiveInv
  OBVIOUS
<1>1. ArchiveShape
  BY MonthsAre DEF Init, ArchiveShape, Idle, NoData, NoFile, NoStore, NotLate, NoTariff
<1>2. NothingOnceRemoved
  BY DEF Init, NothingOnceRemoved
<1>3. ASSUME NEW p \in Points PROVE FilesAreRead(p) /\ CopiesAgree(p)
  <2>1. file[p] = NoFile /\ store[p] = NoStore /\ late[p] = NotLate /\ filed[p] = {}
    BY DEF Init
  <2> QED BY <2>1, EmptyIsArchive
         DEF FilesAreRead, CopiesAgree, NoFile, NoStore, NotLate, IsLoaded, Owes, Quarantined, Init
<1>4. ASSUME NEW p \in Points
      PROVE  IsTariff(data[p]) /\ IsTariff(refresh.got[p]) /\ AnswersAreFiled(p)
  <2>1. data[p] = NoTariff /\ refresh.got[p] = NoTariff /\ refresh.step = "idle" /\ store[p] = NoStore
    BY DEF Init, NoData, Idle
  <2> QED BY <2>1, NoTariffIsTariff DEF AnswersAreFiled, Done, Answered, Kept, IsLoaded, NoStore
<1> QED BY <1>1, <1>2, <1>3, <1>4 DEF ArchiveInv

\* A month turns or agreements change only once the copies are one.
LEMMA ProviderInv ==
    ASSUME ArchiveInv, Tick \/ Restates \/ Switches
    PROVE  ArchiveInv'
<1>1. /\ UNCHANGED <<running, refresh, data, file, store, late, baseline, filed, escaped>>
      /\ restated \subseteq restated'
  BY DEF Tick, Restates, Switches
<1>2. \/ UNCHANGED <<month, agreements>>
      \/ Settled /\ month' \in 2 .. LastMonth /\ agreements' \in [Points -> Offers]
  <2>1. CASE Tick
    <3>1. month' \in 2 .. LastMonth
      BY <2>1, MonthsAre DEF Tick, ArchiveInv, ArchiveShape
    <3> QED BY <2>1, <3>1 DEF Tick, ArchiveInv, ArchiveShape
  <2>2. CASE Restates
    BY <2>2 DEF Restates
  <2>3. CASE Switches
    BY <2>3 DEF Switches, ArchiveInv, ArchiveShape
  <2> QED BY <2>1, <2>2, <2>3
<1>3. ArchiveShape'
  BY <1>1, <1>2 DEF ArchiveInv, ArchiveShape
<1>4. NothingOnceRemoved'
  BY <1>1 DEF ArchiveInv, NothingOnceRemoved
<1>5. ASSUME NEW p \in Points
      PROVE  FilesAreRead(p)' /\ IsTariff(data[p])' /\ IsTariff(refresh.got[p])'
  BY <1>1, FilesStay, ArchivesStay DEF ArchiveInv
<1>6. ASSUME running, NEW p \in Points PROVE CopiesAgree(p)' /\ AnswersAreFiled(p)'
  <2>1. CopiesAgree(p) /\ AnswersAreFiled(p)
    BY <1>6 DEF ArchiveInv
  <2>2. Known(p)' = Known(p)
    BY <1>1 DEF Known
  <2>3. CASE UNCHANGED <<month, agreements>>
    BY <1>1, <2>1, <2>2, <2>3, CopiesStay, AnswersStay
  <2>4. CASE Settled
    <3>1. ~store[p].pending /\ ~late[p].waiting /\ refresh.step \in {"idle", "reprice"}
      BY <2>4 DEF Settled
    <3>2. CopiesAgree(p)'
      BY <1>1, <2>1, <3>1 DEF CopiesAgree, Adds, Latest, IsLoaded, Owes
    <3>3. AnswersAreFiled(p)'
      BY <1>1, <2>1, <3>1 DEF AnswersAreFiled, Done, Answered, Kept, IsLoaded
    <3> QED BY <3>2, <3>3
  <2> QED BY <1>2, <2>3, <2>4
<1> QED BY <1>1, <1>3, <1>4, <1>5, <1>6 DEF ArchiveInv

-----------------------------------------------------------------------------
(* A refresh.                                                              *)
\* A step of the refresh touches no copy.
LEMMA RefreshShape ==
    ASSUME ArchiveInv, running, UNCHANGED <<provider, running, file, store, late, baseline, filed, escaped>>,
           refresh'.step \in {"idle", "read", "file", "reprice"}, refresh'.left \subseteq Points,
           refresh' = [step |-> refresh'.step, left |-> refresh'.left, got |-> refresh'.got],
           refresh'.got = [p \in Points |-> refresh'.got[p]], data' = [p \in Points |-> data'[p]],
           \A p \in Points : IsTariff(data'[p]) /\ IsTariff(refresh'.got[p]) /\ AnswersAreFiled(p)'
    PROVE  ArchiveInv'
<1>1. ArchiveShape' /\ NothingOnceRemoved'
  BY DEF ArchiveInv, ArchiveShape, NothingOnceRemoved, provider
<1>2. restated' = restated /\ UNCHANGED <<month, agreements>>
  BY DEF provider
<1>3. \A p \in Points : FilesAreRead(p)'
  BY <1>2, FilesStay DEF ArchiveInv
<1>4. \A p \in Points : CopiesAgree(p)'
  BY <1>2, CopiesStay DEF ArchiveInv
<1>5. \A p \in Points : IsTariff(data[p])' /\ IsTariff(refresh.got[p])'
  BY <1>2, ArchivesStay
<1> QED BY <1>1, <1>3, <1>4, <1>5 DEF ArchiveInv

\* A refresh begins.
LEMMA RefreshBeginsInv ==
    ASSUME ArchiveInv, RefreshBegins
    PROVE  ArchiveInv'
<1>1. /\ running /\ UNCHANGED <<provider, running, data, file, store, late, baseline, filed, escaped>>
      /\ refresh.step = "idle" /\ refresh'.step = "read" /\ refresh'.left = Points
      /\ refresh'.got = [p \in Points |-> NoTariff]
      /\ refresh' = [step |-> refresh'.step, left |-> refresh'.left, got |-> refresh'.got]
  BY DEF RefreshBegins, Idle
<1>2. ASSUME NEW p \in Points PROVE IsTariff(data'[p]) /\ IsTariff(refresh'.got[p]) /\ AnswersAreFiled(p)'
  <2>1. AnswersAreFiled(p) /\ IsTariff(data[p])
    BY <1>1 DEF ArchiveInv
  <2>2. AnswersAreFiled(p)'
    BY <1>1, <2>1 DEF AnswersAreFiled, Done, Answered, Kept, IsLoaded
  <2> QED BY <1>1, <2>1, <2>2, NoTariffIsTariff
<1>3. data' = [p \in Points |-> data'[p]]
  BY <1>1 DEF ArchiveInv, ArchiveShape
<1> QED BY <1>1, <1>2, <1>3, RefreshShape

\* A refresh stops.
LEMMA StopsInv ==
    ASSUME ArchiveInv, running, refresh.step \in {"read", "reprice"}, refresh' = Idle,
           UNCHANGED <<provider, running, data, file, store, late, baseline, filed, escaped>>
    PROVE  ArchiveInv'
<1>1. /\ refresh'.step = "idle" /\ refresh'.left = {} /\ refresh'.got = [p \in Points |-> NoTariff]
      /\ refresh' = [step |-> refresh'.step, left |-> refresh'.left, got |-> refresh'.got]
  BY DEF Idle
<1>2. ASSUME NEW p \in Points PROVE IsTariff(data'[p]) /\ IsTariff(refresh'.got[p]) /\ AnswersAreFiled(p)'
  <2>1. AnswersAreFiled(p) /\ IsTariff(data[p])
    BY DEF ArchiveInv
  <2>2. AnswersAreFiled(p)'
    BY <1>1, <2>1 DEF AnswersAreFiled, Done, Answered, Kept, IsLoaded
  <2> QED BY <1>1, <2>1, <2>2, NoTariffIsTariff
<1>3. data' = [p \in Points |-> data'[p]]
  BY DEF ArchiveInv, ArchiveShape
<1> QED BY <1>1, <1>2, <1>3, RefreshShape

\* An answer is taken up: none, the one before, or a fresh one.
LEMMA GotInv ==
    ASSUME ArchiveInv, running, refresh.step = "read", NEW p \in refresh.left, NEW t, IsTariff(t),
           t.reason = "absent" \/ t = data[p] \/ Fresh(p, t), Got(p, t),
           UNCHANGED <<provider, running, data, file, store, late, baseline, filed, escaped>>
    PROVE  ArchiveInv'
<1> DEFINE got == [refresh.got EXCEPT ![p] = t]
           left == refresh.left \ {p}
<1>1. /\ p \in Points /\ refresh.left \subseteq Points
      /\ refresh = [step |-> refresh.step, left |-> refresh.left, got |-> refresh.got]
      /\ refresh.got = [q \in Points |-> refresh.got[q]]
  BY DEF ArchiveInv, ArchiveShape
<1>2. got = [q \in Points |-> IF q = p THEN t ELSE refresh.got[q]]
  BY <1>1
<1>3. refresh' = IF left # {} THEN [step |-> "read", left |-> left, got |-> got]
                 ELSE [step |-> "file", got |-> got,
                       left |-> {q \in Points : got[q].reason # "absent"}]
  <2> DEFINE next == [refresh EXCEPT !.left = left, !.got = got]
  <2>1. next = [step |-> "read", left |-> left, got |-> got]
    <3> HIDE DEF left, got
    <3>1. DOMAIN refresh = {"step", "left", "got"}
      BY <1>1
    <3>2. next.step = "read" /\ next.left = left /\ next.got = got
          /\ next = [field \in {"step", "left", "got"} |-> next[field]]
      BY <3>1
    <3> HIDE DEF next
    <3> QED BY <3>2
  <2> QED BY <2>1 DEF Got
<1> HIDE DEF got
<1>4. /\ refresh'.got = got /\ refresh'.step \in {"read", "file"} /\ refresh'.left \subseteq Points
      /\ refresh' = [step |-> refresh'.step, left |-> refresh'.left, got |-> refresh'.got]
      /\ refresh'.step = "read" => refresh'.left = left
      /\ refresh'.step = "file" => left = {} /\ refresh'.left = {q \in Points : got[q].reason # "absent"}
  BY <1>1, <1>3
<1>5. refresh'.got = [q \in Points |-> refresh'.got[q]]
  BY <1>2, <1>4
<1>6. data' = [q \in Points |-> data'[q]]
  BY DEF ArchiveInv, ArchiveShape
<1>7. ASSUME NEW q \in Points
      PROVE  IsTariff(data'[q]) /\ IsTariff(refresh'.got[q]) /\ AnswersAreFiled(q)'
  <2>1. AnswersAreFiled(q) /\ IsTariff(data[q]) /\ IsTariff(refresh.got[q])
    BY DEF ArchiveInv
  <2>2. IsTariff(got[q]) /\ IsTariff(data'[q])
    BY <1>2, <2>1
  <2>3. Kept(q, data[q]) /\ (data[q].reason # "absent" => store[q].state # "none")
    BY <2>1 DEF AnswersAreFiled, Done
  <2>4. q \notin left => got[q].reason = "absent" \/ got[q] = data[q] \/ Fresh(q, got[q])
    BY <1>2, <2>1 DEF AnswersAreFiled, Answered
  <2>5. \A s : (Fresh(q, s) => Fresh(q, s)') /\ (Kept(q, s) => Kept(q, s)')
    <3>1. Known(q)' = Known(q) /\ KeysNow(q)' = KeysNow(q)
      BY DEF Known, KeysNow, provider
    <3> QED BY <3>1 DEF Fresh, Kept, IsLoaded
  <2>6. refresh'.got[q] = got[q] /\ data'[q] = data[q] /\ store'[q] = store[q]
    BY <1>4
  <2>7. CASE refresh'.step = "read"
    <3>1. Kept(q, data[q])'
      BY <2>3, <2>5, <2>6
    <3>2. q \notin left => \/ refresh'.got[q].reason = "absent"
                           \/ refresh'.got[q] = data'[q]
                           \/ Fresh(q, refresh.got[q])'
      BY <2>4, <2>5, <2>6
    <3> QED BY <1>4, <2>2, <2>3, <2>6, <2>7, <3>1, <3>2 DEF AnswersAreFiled, Done, Answered
  <2>8. CASE refresh'.step = "file"
    <3>1. Kept(q, data[q])'
      BY <2>3, <2>5, <2>6
    <3>2. \/ refresh'.got[q].reason = "absent"
          \/ refresh'.got[q] = data'[q]
          \/ Fresh(q, refresh.got[q])'
      BY <1>4, <2>4, <2>5, <2>6, <2>8
    <3>3. got[q].reason = "absent" => Kept(q, got[q])
      BY <2>2, ObservedIs DEF Kept
    <3>4. refresh'.got[q].reason = "absent" => Kept(q, refresh.got[q])'
      BY <2>5, <2>6, <3>3
    <3>5. q \in refresh'.left <=> refresh'.got[q].reason # "absent"
      BY <1>4, <2>8
    <3>6. Done(q)' => Kept(q, refresh.got[q])'
      BY <2>8, <3>4, <3>5 DEF Done
    <3>7. data'[q].reason # "absent" => store'[q].state # "none"
      BY <2>3, <2>6
    <3> QED BY <2>2, <2>6, <3>1, <3>2, <3>5, <3>6, <3>7 DEF AnswersAreFiled
  <2> QED BY <1>4, <2>2, <2>6, <2>7, <2>8
<1> QED BY <1>4, <1>5, <1>6, <1>7, RefreshShape

\* What is read is in force, and no older than anything known.
LEMMA ReadIsFresh ==
    ASSUME ArchiveInv, NEW p \in Points, NEW summary
    PROVE  LET t == Named(Parsed(agreements[p], MonthStart[month], Served("fuel"), Served("levy")), summary)
           IN  IsTariff(t) /\ Fresh(p, t)
<1> DEFINE offer == agreements[p]
           now == MonthStart[month]
           t == Named(Parsed(offer, now, Served("fuel"), Served("levy")), summary)
<1>1. offer \in Offers /\ month \in 2 .. LastMonth
  BY DEF ArchiveInv, ArchiveShape
<1>2. \A kind \in Kinds : /\ IsStatement(Served(kind)) /\ Served(kind).kind = kind
                          /\ Key(Served(kind)) = Key(Stated(kind, month, 0))
  BY <1>1, ServedIs DEF Stated, Key
<1>3. IsAdder(Served("fuel"), "fuel") /\ IsAdder(Served("levy"), "levy")
      /\ NoAdder \notin {Served("fuel"), Served("levy")}
  BY <1>2 DEF IsAdder, Kinds, NoAdder, None
<1>4. /\ IsTariff(t)
      /\ t.fuel = IF "fuel" \in Adders(offer, now) THEN Served("fuel") ELSE NoAdder
      /\ t.levy = IF "levy" \in Adders(offer, now) THEN Served("levy") ELSE NoAdder
  BY <1>1, <1>3, ParsedIs
<1>5. Adders(offer, now) \subseteq {"fuel", "levy"}
  BY DEF Adders, Kinds
<1> HIDE DEF t
<1>6. Observed(t) = {Served(kind) : kind \in Adders(offer, now)}
  BY <1>3, <1>4, <1>5, ObservedIs
<1>7. KeysOf(Observed(t)) = KeysNow(p)
  BY <1>2, <1>5, <1>6 DEF KeysOf, KeysNow, Kinds
<1>8. \A x \in Known(p) : IsStatement(x)
  BY DEF Known, ArchiveInv, FilesAreRead, IsArchive
<1>9. \A a \in Observed(t), x \in Known(p) : Key(x) = Key(a) => x.price <= a.price
  BY <1>1, <1>5, <1>6, <1>8, ServedIsLatest DEF Kinds
<1> QED BY <1>4, <1>7, <1>9 DEF Fresh, t

\* Each way a read can end.
LEMMA ReadsTariffInv ==
    ASSUME ArchiveInv, ReadsTariff
    PROVE  ArchiveInv'
<1>1. /\ refresh.step = "read" /\ refresh.left \subseteq Points
      /\ UNCHANGED <<provider, running, data, file, store, late, baseline, filed, escaped>>
  BY DEF ReadsTariff, ArchiveInv, ArchiveShape
<1>2. running
  BY <1>1 DEF ArchiveInv, NothingOnceRemoved, Idle
<1>3. PICK p \in refresh.left :
        \/ \E summary : Got(p, Named(Parsed(agreements[p], MonthStart[month], Served("fuel"),
                                            Served("levy")), summary))
        \/ Got(p, data[p])
        \/ Got(p, NoTariff)
        \/ refresh' = Idle
  BY DEF ReadsTariff
<1>4. CASE \E summary : Got(p, Named(Parsed(agreements[p], MonthStart[month], Served("fuel"),
                                            Served("levy")), summary))
  <2>1. PICK t : IsTariff(t) /\ Fresh(p, t) /\ Got(p, t)
    BY <1>1, <1>4, ReadIsFresh
  <2> QED BY <1>1, <1>2, <2>1, GotInv
<1>5. CASE Got(p, data[p])
  <2>1. IsTariff(data[p])
    BY <1>1 DEF ArchiveInv
  <2> QED BY <1>1, <1>2, <1>5, <2>1, GotInv
<1>6. CASE Got(p, NoTariff)
  BY <1>1, <1>2, <1>6, NoTariffIsTariff, GotInv
<1>7. CASE refresh' = Idle
  BY <1>1, <1>2, <1>7, StopsInv
<1> QED BY <1>3, <1>4, <1>5, <1>6, <1>7

\* The data is replaced once all of it is filed.
LEMMA RefreshEndsInv ==
    ASSUME ArchiveInv, RefreshEnds
    PROVE  ArchiveInv'
<1>1. /\ refresh.step = "file" /\ refresh.left = {} /\ data' = refresh.got
      /\ refresh'.step = "reprice" /\ refresh'.left = {}
      /\ refresh'.got = [p \in Points |-> NoTariff]
      /\ refresh' = [step |-> refresh'.step, left |-> refresh'.left, got |-> refresh'.got]
      /\ UNCHANGED <<provider, running, file, store, late, baseline, filed, escaped>>
  BY DEF RefreshEnds, Idle
<1>2. running
  BY <1>1 DEF ArchiveInv, NothingOnceRemoved, Idle
<1>3. ASSUME NEW p \in Points PROVE IsTariff(data'[p]) /\ IsTariff(refresh'.got[p]) /\ AnswersAreFiled(p)'
  <2>1. AnswersAreFiled(p) /\ IsTariff(refresh.got[p])
    BY <1>2 DEF ArchiveInv
  <2>2. Kept(p, refresh.got[p])
    BY <1>1, <2>1 DEF AnswersAreFiled, Done
  <2>3. AnswersAreFiled(p)'
    BY <1>1, <2>2 DEF AnswersAreFiled, Done, Answered, Kept, IsLoaded
  <2> QED BY <1>1, <2>1, <2>3, NoTariffIsTariff
<1>4. data' = [p \in Points |-> data'[p]]
  BY <1>1 DEF ArchiveInv, ArchiveShape
<1> QED BY <1>1, <1>2, <1>3, <1>4, RefreshShape

\* The listeners are done.
LEMMA RepricedInv ==
    ASSUME ArchiveInv, Repriced
    PROVE  ArchiveInv'
<1>1. running
  BY DEF Repriced, ArchiveInv, NothingOnceRemoved, Idle
<1> QED BY <1>1, StopsInv DEF Repriced

-----------------------------------------------------------------------------
(* The store: what is filed, saved, reloaded and removed.                  *)

\* A step that changes the copies of one supply point.
LEMMA OthersStay ==
    ASSUME ArchiveInv, running, UNCHANGED <<provider, running, refresh, data, escaped>>,
           NEW p \in Points, NEW q \in Points, q # p,
           file'[q] = file[q], store'[q] = store[q], late'[q] = late[q], filed'[q] = filed[q]
    PROVE  FilesAreRead(q)' /\ CopiesAgree(q)' /\ AnswersAreFiled(q)'
<1>1. FilesAreRead(q) /\ CopiesAgree(q) /\ AnswersAreFiled(q)
  BY DEF ArchiveInv
<1>2. restated' = restated /\ UNCHANGED <<month, agreements>>
  BY DEF provider
<1>3. Known(q)' = Known(q)
  BY DEF Known
<1> QED BY <1>1, <1>2, <1>3, FilesStay, CopiesStay, AnswersStay

\* Merging what is in force adds no other window.
LEMMA MergedAdds ==
    ASSUME NEW p, NEW R, NEW S, NEW N, Adds(p, R, S), KeysOf(N) \subseteq KeysNow(p)
    PROVE  Adds(p, MergeObserved(R, N), S)
BY DEF Adds, MergeObserved, KeysOf

\* An answer of now is filed in a store that holds what the file did.
LEMMA FreshIsFiled ==
    ASSUME NEW p \in Points, FilesAreRead(p), CopiesAgree(p), NEW t, IsTariff(t), Fresh(p, t),
           NEW base, IsArchive(base), base \subseteq Known(p),
           IF IsLoaded(p) THEN base = store[p].records ELSE base = file[p].records
    PROVE  LET new == MergeObserved(base, Observed(t))
           IN  /\ IsArchive(new) /\ Observed(t) \subseteq new
               /\ Under(file[p].records, new) /\ Adds(p, new, file[p].records)
               /\ Owes(p) => Under(late[p].records, new)
               /\ MergeObserved(filed[p], Observed(t)) \subseteq new
<1> DEFINE N == Observed(t)
           new == MergeObserved(base, N)
<1>1. IsArchive(N) /\ IsArchive(file[p].records) /\ IsArchive(late[p].records)
  BY ObservedIs DEF FilesAreRead
<1>2. KeysOf(N) = KeysNow(p)
      /\ \A a \in N, x \in Known(p) : Key(x) = Key(a) => x.price <= a.price
  BY DEF Fresh
<1> HIDE DEF N
<1>3. IsArchive(new) /\ Under(base, new) /\ N \subseteq new
  BY <1>1, <1>2, MergedIsArchive, MergedIsAbove DEF MergeObserved
<1>4. Under(file[p].records, base) /\ Adds(p, base, file[p].records)
  BY <1>1, UnderItself DEF CopiesAgree, Adds
<1>5. Under(file[p].records, new) /\ Adds(p, new, file[p].records)
  <2> HIDE DEF new
  <2>1. Under(file[p].records, new)
    BY <1>1, <1>3, <1>4, UnderIsTransitive
  <2>2. Adds(p, new, file[p].records)
    BY <1>2, <1>4, MergedAdds DEF new
  <2> QED BY <2>1, <2>2
<1>6. ASSUME Owes(p) PROVE Under(late[p].records, new)
  <2>1. CASE IsLoaded(p)
    <3>1. Under(late[p].records, base)
      BY <1>6, <2>1 DEF CopiesAgree
    <3> HIDE DEF new
    <3> QED BY <1>1, <1>3, <3>1, UnderIsTransitive
  <2>2. CASE ~IsLoaded(p)
    <3> SUFFICES ASSUME NEW l \in late[p].records
                 PROVE  \E n \in new : Key(l) = Key(n) /\ l.price <= n.price
      BY DEF Under
    <3>1. CASE l \in file[p].records
      BY <1>5, <3>1 DEF Under
    <3>2. CASE Key(l) \in KeysNow(p)
      <4>1. PICK a \in N : Key(a) = Key(l)
        BY <1>2, <3>2 DEF KeysOf
      <4> QED BY <1>2, <1>3, <4>1 DEF Known
    <3> QED BY <1>6, <3>1, <3>2 DEF CopiesAgree, Adds
  <2> QED BY <2>1, <2>2
<1>7. MergeObserved(filed[p], N) \subseteq new
  <2> SUFFICES ASSUME NEW f \in filed[p], Key(f) \notin KeysOf(N) PROVE f \in base
    BY DEF MergeObserved
  <2>1. f \in Latest(p)
    BY DEF CopiesAgree
  <2>2. p \notin escaped
    BY DEF FilesAreRead
  <2> QED BY <1>2, <2>1, <2>2 DEF Latest, CopiesAgree, Adds, Owes
<1> QED BY <1>3, <1>5, <1>6, <1>7 DEF N

-----------------------------------------------------------------------------
(* Filing.                                                                 *)
\* A store holds what it was given, and is to be saved if that is new.
LEMMA ReplacedIs ==
    ASSUME NEW l, NEW m, l.pending \in BOOLEAN, l.state # "quarantined",
           l = [state |-> l.state, records |-> l.records, pending |-> l.pending]
    PROVE  LET new == Replaced(l, m)
           IN  /\ new = [state |-> l.state, records |-> m, pending |-> new.pending]
               /\ new.records = m /\ new.pending \in BOOLEAN
               /\ ~new.pending => m = l.records /\ ~l.pending
<1> DEFINE next == [l EXCEPT !.records = m, !.pending = TRUE]
<1>1. CASE m = l.records
  <2>1. Replaced(l, m) = l
    BY <1>1 DEF Replaced
  <2> HIDE DEF next
  <2> QED BY <1>1, <2>1
<1>2. CASE m # l.records
  <2>1. DOMAIN l = {"state", "records", "pending"}
    OBVIOUS
  <2>2. next.state = l.state /\ next.records = m /\ next.pending = TRUE
        /\ next = [field \in {"state", "records", "pending"} |-> next[field]]
    BY <2>1
  <2>3. Replaced(l, m) = next
    BY <1>2 DEF Replaced
  <2> HIDE DEF next
  <2>4. next = [state |-> l.state, records |-> m, pending |-> TRUE]
    BY <2>2
  <2> QED BY <2>3, <2>4
<1> QED BY <1>1, <1>2

\* An answer is filed, or left where the store could not be read.
LEMMA FilesInv ==
    ASSUME ArchiveInv, Files
    PROVE  ArchiveInv'
<1>1. PICK p \in refresh.left, unreadable \in BOOLEAN :
        LET loaded == Loaded(p, unreadable)
            observed == Observed(refresh.got[p])
        IN  /\ refresh' = [refresh EXCEPT !.left = @ \ {p}]
            /\ unreadable => store[p].state = "none" /\ file[p].exists
            /\ store' = [store EXCEPT ![p] = Replaced(loaded, MergeObserved(loaded.records, observed))]
            /\ escaped' = IF store[p].state = "none" /\ ~late[p].waiting
                          THEN escaped \ {p} ELSE escaped
            /\ filed' = IF loaded.state = "quarantined" \/ p \in escaped' THEN filed
                        ELSE [filed EXCEPT ![p] = MergeObserved(@, observed)]
  BY DEF Files
<1> DEFINE t == refresh.got[p]
           loaded == Loaded(p, unreadable)
           observed == Observed(t)
           merged == MergeObserved(loaded.records, observed)
           new == Replaced(loaded, merged)
<1>2. /\ refresh.step = "file" /\ p \in Points /\ UNCHANGED <<provider, running, data, file, late, baseline>>
  BY DEF Files, ArchiveInv, ArchiveShape
<1>3. running
  BY <1>2 DEF ArchiveInv, NothingOnceRemoved, Idle
<1>4. /\ ArchiveShape /\ FilesAreRead(p) /\ CopiesAgree(p) /\ AnswersAreFiled(p)
      /\ IsTariff(data[p]) /\ IsTariff(t) /\ t.reason # "absent"
  BY <1>2, <1>3 DEF ArchiveInv, AnswersAreFiled
<1>5. /\ store' = [store EXCEPT ![p] = new]
      /\ escaped' = IF store[p].state = "none" /\ ~late[p].waiting
                    THEN escaped \ {p} ELSE escaped
      /\ filed' = IF loaded.state = "quarantined" \/ p \in escaped' THEN filed
                  ELSE [filed EXCEPT ![p] = MergeObserved(@, observed)]
  BY <1>1
<1>6. refresh'.step = "file" /\ refresh'.left = refresh.left \ {p} /\ refresh'.got = refresh.got
      /\ refresh' = [step |-> refresh'.step, left |-> refresh'.left, got |-> refresh'.got]
  <2>1. refresh = [step |-> refresh.step, left |-> refresh.left, got |-> refresh.got]
    BY <1>4 DEF ArchiveShape
  <2>2. refresh' = [refresh EXCEPT !.left = refresh.left \ {p}]
    BY <1>1
  <2>3. refresh' = [step |-> "file", left |-> refresh.left \ {p}, got |-> refresh.got]
    BY <1>2, <2>1, <2>2
  <2> QED BY <2>3
<1>7. IsArchive(observed)
  BY <1>4, ObservedIs
<1>8. t = data[p] \/ Fresh(p, t)
  BY <1>2, <1>4 DEF AnswersAreFiled, Answered
<1>9. ~Done(p) /\ Kept(p, data[p])
  BY <1>2, <1>4 DEF AnswersAreFiled, Done
<1>10. /\ store[p] = [state |-> store[p].state, records |-> store[p].records, pending |-> store[p].pending]
       /\ store[p].state \in {"none", "loaded", "quarantined", "unread"} /\ store[p].pending \in BOOLEAN
       /\ IsArchive(file[p].records) /\ IsArchive(store[p].records)
  BY <1>2, <1>4 DEF ArchiveShape, FilesAreRead
<1>11. \/ loaded = Quarantined /\ ~IsLoaded(p)
       \/ /\ loaded.state \in {"loaded", "unread"} /\ loaded.pending \in BOOLEAN
          /\ loaded = [state |-> loaded.state, records |-> loaded.records, pending |-> loaded.pending]
          /\ \/ store[p].state # "none" /\ loaded = store[p]
             \/ /\ store[p].state = "none" /\ loaded.state = "loaded" /\ ~file[p].damaged
                /\ loaded.records = file[p].records /\ ~loaded.pending
  <2>1. CASE store[p].state = "none" /\ (file[p].damaged \/ unreadable)
    BY <2>1 DEF Loaded, IsLoaded
  <2>2. CASE store[p].state = "none" /\ ~(file[p].damaged \/ unreadable)
    <3>1. loaded = [NoStore EXCEPT !.state = "loaded", !.records = file[p].records]
      BY <2>2 DEF Loaded
    <3>2. loaded.state = "loaded" /\ loaded.records = file[p].records /\ loaded.pending = FALSE
          /\ loaded = [field \in {"state", "records", "pending"} |-> loaded[field]]
      BY <3>1 DEF NoStore
    <3> HIDE DEF loaded
    <3> QED BY <2>2, <3>2
  <2>3. CASE store[p].state # "none"
    <3>1. loaded = store[p]
      BY <2>3 DEF Loaded
    <3>2. store[p].state = "quarantined" => store[p] = Quarantined
      BY <1>4 DEF FilesAreRead, NoStore
    <3> HIDE DEF loaded
    <3> QED BY <1>10, <2>3, <3>1, <3>2 DEF IsLoaded, Quarantined, NoStore
  <2> QED BY <2>1, <2>2, <2>3
<1> DEFINE Filed ==
        /\ new = [state |-> "loaded", records |-> new.records, pending |-> new.pending]
        /\ new.pending \in BOOLEAN /\ IsArchive(new.records) /\ ~file[p].damaged
        /\ Under(file[p].records, new.records) /\ Adds(p, new.records, file[p].records)
        /\ ~new.pending => new.records = file[p].records
        /\ late[p].waiting => Under(late[p].records, new.records)
        /\ observed \subseteq new.records /\ filed'[p] \subseteq new.records
    Refused1 == new = Quarantined /\ filed'[p] = filed[p] /\ ~IsLoaded(p)
    Outside ==
        /\ p \in escaped /\ p \in escaped' /\ filed' = filed
        /\ new = [state |-> new.state, records |-> new.records, pending |-> new.pending]
        /\ new.state \in {"loaded", "unread"} /\ new.pending \in BOOLEAN /\ IsArchive(new.records)
<1>12. Refused1 \/ (p \notin escaped' /\ Filed) \/ Outside
  <2> HIDE DEF t
  <2>1. CASE loaded = Quarantined
    <3>1. loaded.state = "quarantined"
      BY <2>1 DEF Quarantined, NoStore
    <3>2. new = loaded /\ filed' = filed
      BY <1>5, <3>1 DEF Replaced
    <3>3. ~IsLoaded(p)
      BY <1>11, <3>1
    <3> QED BY <2>1, <3>2, <3>3
  <2>2. CASE loaded # Quarantined
    <3>1. loaded.state # "quarantined" /\ IsArchive(loaded.records)
      BY <1>10, <1>11, <2>2
    <3> HIDE DEF loaded
    <3>2. /\ new = [state |-> loaded.state, records |-> merged, pending |-> new.pending]
          /\ new.records = merged /\ new.pending \in BOOLEAN
          /\ ~new.pending => merged = loaded.records /\ ~loaded.pending
      <4> HIDE DEF merged
      <4> QED BY <1>11, <2>2, <3>1, ReplacedIs
    <3>3. IsArchive(merged)
      BY <1>7, <3>1, MergedIsArchive
    <3>4. CASE p \in escaped'
      <4>1. p \in escaped /\ filed' = filed
        BY <1>5, <3>4
      <4>2. new.state = loaded.state
        BY <3>2
      <4> HIDE DEF new, merged
      <4> QED BY <1>11, <2>2, <3>2, <3>3, <3>4, <4>1, <4>2
    <3>5. CASE p \notin escaped'
      <4>1. (store[p].state = "none" /\ ~late[p].waiting) \/ p \notin escaped
        BY <1>5, <3>5
      <4>2. store[p].state # "none" => IsLoaded(p) /\ loaded = store[p]
        BY <1>4, <1>11, <2>2, <4>1 DEF IsLoaded, FilesAreRead
      <4>3. loaded.state = "loaded" /\ ~file[p].damaged
        BY <1>4, <1>11, <2>2, <4>2 DEF IsLoaded, FilesAreRead
      <4>4. filed'[p] = MergeObserved(filed[p], observed)
        BY <1>2, <1>4, <1>5, <3>1, <3>5 DEF ArchiveShape
      <4>5. late[p].waiting => Owes(p)
        BY <1>4, <3>5, <4>1 DEF Owes, IsLoaded
      <4>6. CASE Fresh(p, t)
        <5>1. loaded.records \subseteq Known(p)
          BY <1>11, <2>2 DEF Known
        <5>2. IF IsLoaded(p) THEN loaded.records = store[p].records ELSE loaded.records = file[p].records
          BY <1>11, <2>2, <4>2 DEF IsLoaded
        <5>3. /\ IsArchive(merged) /\ observed \subseteq merged
              /\ Under(file[p].records, merged) /\ Adds(p, merged, file[p].records)
              /\ Owes(p) => Under(late[p].records, merged)
              /\ MergeObserved(filed[p], observed) \subseteq merged
          BY <1>2, <1>4, <3>1, <4>6, <5>1, <5>2, FreshIsFiled
        <5>4. ~new.pending => merged = file[p].records
          BY <1>4, <1>11, <2>2, <3>2, <4>2 DEF CopiesAgree
        <5> HIDE DEF new, merged, observed
        <5> QED BY <3>2, <3>5, <4>3, <4>4, <4>5, <5>3, <5>4
      <4>7. CASE t = data[p]
        <5>1. store[p].state # "none"
          BY <1>4, <4>7 DEF AnswersAreFiled
        <5>2. IsLoaded(p) /\ loaded = store[p]
          BY <4>2, <5>1
        <5>3. observed \subseteq store[p].records
          BY <1>9, <4>7, <5>2 DEF Kept
        <5>4. merged = loaded.records
          BY <1>10, <5>2, <5>3, NothingNewToMerge
        <5>5. new = store[p]
          BY <5>2, <5>4 DEF Replaced
        <5>6. MergeObserved(filed[p], observed) \subseteq store[p].records
          BY <1>4, <5>2, <5>3 DEF CopiesAgree, Latest, MergeObserved
        <5> HIDE DEF new, merged, observed
        <5> QED BY <1>4, <1>10, <3>2, <3>5, <4>3, <4>4, <4>5, <5>2, <5>3, <5>5, <5>6 DEF CopiesAgree
      <4> QED BY <1>8, <4>6, <4>7
    <3> QED BY <3>4, <3>5
  <2> QED BY <2>1, <2>2
<1> HIDE DEF loaded, observed, merged, new
<1>13. /\ store'[p] = new /\ file'[p] = file[p] /\ late'[p] = late[p]
       /\ \A q \in Points : q # p => /\ store'[q] = store[q] /\ filed'[q] = filed[q]
                                     /\ q \in escaped' <=> q \in escaped
       /\ escaped' \subseteq escaped
  BY <1>2, <1>4, <1>5 DEF ArchiveShape
<1>14. restated' = restated /\ UNCHANGED <<month, agreements>> /\ KeysNow(p)' = KeysNow(p)
  BY <1>2 DEF provider, KeysNow
<1>15. store'[p] \in [state : {"none", "loaded", "quarantined", "unread"}, records : SUBSET Records,
                      pending : BOOLEAN]
       /\ filed'[p] \in SUBSET Records
  <2>1. CASE Filed
    <3>1. \A r \in new.records : r \in Records
      BY <2>1, StatementType DEF IsArchive
    <3> QED BY <1>13, <2>1, <3>1
  <2>2. CASE Refused1
    BY <1>2, <1>4, <1>13, <2>2 DEF Quarantined, NoStore, ArchiveShape
  <2>3. CASE Outside
    <3>1. \A r \in new.records : r \in Records
      BY <2>3, StatementType DEF IsArchive
    <3>2. filed'[p] \in SUBSET Records
      BY <1>2, <1>4, <2>3 DEF ArchiveShape
    <3> QED BY <1>13, <2>3, <3>1, <3>2
  <2> QED BY <1>12, <2>1, <2>2, <2>3
<1>16. ArchiveShape'
  <2>1. store' \in [Points -> [state : {"none", "loaded", "quarantined", "unread"},
                               records : SUBSET Records, pending : BOOLEAN]]
    BY <1>2, <1>4, <1>5, <1>13, <1>15 DEF ArchiveShape
  <2>2. filed' \in [Points -> SUBSET Records] /\ escaped' \subseteq Points
    BY <1>2, <1>4, <1>5, <1>13, <1>15 DEF ArchiveShape
  <2> QED BY <1>2, <1>4, <1>6, <1>14, <2>1, <2>2 DEF ArchiveShape, provider
<1>17. FilesAreRead(p)'
  <2>1. IsArchive(store'[p].records)
    BY <1>12, <1>13, EmptyIsArchive DEF Quarantined, NoStore
  <2>2. /\ \A r \in filed'[p] : IsStatement(r)
        /\ p \in escaped' => filed'[p] = {}
    BY <1>4, <1>12, <1>13 DEF IsArchive, FilesAreRead
  <2>3. /\ store'[p].state \in {"none", "quarantined"} => store'[p] \in {NoStore, Quarantined}
        /\ store'[p].state = "unread" => p \in escaped'
    BY <1>12, <1>13 DEF Quarantined, NoStore
  <2>4. file'[p].damaged => ~IsLoaded(p)' /\ ~Owes(p)'
    BY <1>4, <1>5, <1>12, <1>13 DEF FilesAreRead, IsLoaded, Owes, Quarantined, NoStore
  <2> QED BY <1>4, <1>13, <1>14, <2>1, <2>2, <2>3, <2>4, ArchivesStay, StatementsStay DEF FilesAreRead
<1>18. CopiesAgree(p)'
  <2>1. CASE Outside
    <3>1. ~IsLoaded(p)' /\ ~Owes(p)' /\ filed'[p] = {}
      BY <1>4, <2>1 DEF IsLoaded, Owes, FilesAreRead
    <3> QED BY <3>1 DEF CopiesAgree
  <2>2. CASE p \notin escaped' /\ Filed
    <3>1. IsLoaded(p)' /\ store'[p] = new
      BY <1>13, <2>2 DEF IsLoaded
    <3>2. late[p].waiting => p \notin escaped
      BY <1>5, <2>2
    <3> QED BY <1>4, <1>13, <1>14, <2>2, <3>1, <3>2 DEF CopiesAgree, Adds, Latest, Owes
  <2>3. CASE Refused1
    <3>1. ~IsLoaded(p)' /\ filed'[p] = filed[p]
      BY <1>13, <2>3 DEF IsLoaded, Quarantined, NoStore
    <3>2. Owes(p)' => Owes(p)
      BY <1>5, <1>13 DEF Owes
    <3>3. Latest(p)' = Latest(p)
      BY <1>13, <2>3, <3>1 DEF Latest
    <3> QED BY <1>4, <1>13, <1>14, <3>1, <3>2, <3>3 DEF CopiesAgree, Adds
  <2> QED BY <1>12, <2>1, <2>2, <2>3
<1>19. AnswersAreFiled(p)'
  <2>1. Done(p)' /\ ~Answered(p)' /\ p \notin refresh'.left
    BY <1>6 DEF Done, Answered
  <2>2. store'[p].state # "none"
    BY <1>12, <1>13 DEF Quarantined, NoStore
  <2>3. IsLoaded(p)' => Observed(refresh.got[p]) \subseteq store'[p].records
    BY <1>12, <1>13 DEF IsLoaded, Quarantined, NoStore, observed, t
  <2>4. Kept(p, refresh.got[p])'
    BY <1>6, <2>2, <2>3 DEF Kept
  <2> QED BY <2>1, <2>2, <2>4 DEF AnswersAreFiled
<1>20. ASSUME NEW q \in Points, q # p
       PROVE  FilesAreRead(q)' /\ CopiesAgree(q)' /\ AnswersAreFiled(q)'
  <2>1. FilesAreRead(q) /\ CopiesAgree(q) /\ AnswersAreFiled(q)
    BY <1>3 DEF ArchiveInv
  <2>2. Known(q)' = Known(q) /\ KeysNow(q)' = KeysNow(q)
    BY <1>2, <1>13, <1>14, <1>20 DEF Known, KeysNow
  <2>3. FilesAreRead(q)' /\ CopiesAgree(q)'
    BY <1>2, <1>13, <1>14, <1>20, <2>1, FilesStay, CopiesStay
  <2>4. \A s : Fresh(q, s) => Fresh(q, s)'
    BY <1>14, <2>2, FreshStays
  <2>5. q \in refresh'.left <=> q \in refresh.left
    BY <1>6, <1>20
  <2>6. AnswersAreFiled(q)'
    BY <1>2, <1>6, <1>13, <1>20, <2>1, <2>4, <2>5 DEF AnswersAreFiled, Done, Answered, Kept, IsLoaded
  <2> QED BY <2>3, <2>6
<1>21. \A q \in Points : IsTariff(data[q])' /\ IsTariff(refresh.got[q])'
  BY <1>2, <1>6, <1>14, ArchivesStay DEF ArchiveInv
<1>22. NothingOnceRemoved'
  BY <1>2, <1>3 DEF NothingOnceRemoved
<1> QED BY <1>16, <1>17, <1>18, <1>19, <1>20, <1>21, <1>22 DEF ArchiveInv

\* A load fails: the store is none of the file's, and the refresh is over.
LEMMA LoadFailsInv ==
    ASSUME ArchiveInv, LoadFails
    PROVE  ArchiveInv'
<1>1. PICK p \in refresh.left :
        /\ store[p].state = "none"
        /\ store' = [store EXCEPT ![p] = Unread]
        /\ escaped' = escaped \cup {p} \cup {q \in Points \ refresh.left : refresh.got[q] # data[q]}
        /\ filed' = [q \in Points |-> IF q \in escaped' THEN {} ELSE filed[q]]
  BY DEF LoadFails
<1>2. /\ refresh.step = "file" /\ refresh' = Idle /\ p \in Points
      /\ UNCHANGED <<provider, running, data, file, late, baseline>>
  BY DEF LoadFails, ArchiveInv, ArchiveShape
<1>3. running /\ ArchiveShape
  BY <1>2 DEF ArchiveInv, NothingOnceRemoved, Idle
<1>4. /\ refresh'.step = "idle" /\ refresh'.left = {} /\ refresh'.got = [q \in Points |-> NoTariff]
      /\ refresh' = [step |-> refresh'.step, left |-> refresh'.left, got |-> refresh'.got]
  BY <1>2 DEF Idle
<1>5. restated' = restated /\ UNCHANGED <<month, agreements>>
  BY <1>2 DEF provider
<1>6. /\ store'[p] = Unread /\ Unread.state = "unread" /\ Unread.records = {}
      /\ Unread \in [state : {"none", "loaded", "quarantined", "unread"}, records : SUBSET Records,
                     pending : BOOLEAN]
      /\ \A q \in Points : q # p => store'[q] = store[q]
      /\ \A q \in Points : q \in escaped' => filed'[q] = {}
      /\ \A q \in Points : q \notin escaped' => q \notin escaped /\ q # p /\ filed'[q] = filed[q]
  BY <1>1, <1>2, <1>3 DEF ArchiveShape, Unread, NoStore
<1>7. ArchiveShape'
  <2>1. store' \in [Points -> [state : {"none", "loaded", "quarantined", "unread"},
                               records : SUBSET Records, pending : BOOLEAN]]
    BY <1>1, <1>2, <1>3, <1>6 DEF ArchiveShape
  <2>2. filed' \in [Points -> SUBSET Records] /\ escaped' \subseteq Points
    BY <1>1, <1>2, <1>3 DEF ArchiveShape
  <2> QED BY <1>2, <1>3, <1>4, <1>5, <2>1, <2>2 DEF ArchiveShape
<1>8. ASSUME NEW q \in Points PROVE FilesAreRead(q)' /\ CopiesAgree(q)' /\ AnswersAreFiled(q)'
  <2>1. FilesAreRead(q) /\ CopiesAgree(q) /\ AnswersAreFiled(q)
    BY <1>3 DEF ArchiveInv
  <2>2. IsLoaded(q)' => IsLoaded(q) /\ q # p
    BY <1>6 DEF IsLoaded
  <2>3. Owes(q)' => Owes(q)
    BY <1>2, <1>6 DEF Owes
  <2>4. FilesAreRead(q)'
    <3>1. /\ \A R : IsArchive(R) => IsArchive(R)'
          /\ \A r : IsStatement(r) => IsStatement(r)'
      BY <1>5, ArchivesStay, StatementsStay
    <3>2. IsArchive(store'[q].records) /\ filed'[q] \subseteq filed[q]
      <4>1. filed'[q] \subseteq filed[q]
        BY <1>6
      <4>2. IsArchive(store'[q].records)
        BY <1>6, <2>1, EmptyIsArchive DEF FilesAreRead
      <4> QED BY <4>1, <4>2
    <3>3. q = p => q \in escaped'
      BY <1>6
    <3>4. /\ store'[q].state \in {"none", "quarantined"} => store'[q] \in {NoStore, Quarantined}
          /\ store'[q].state = "unread" => q \in escaped'
      BY <1>6, <2>1, <3>3 DEF FilesAreRead
    <3> QED BY <1>2, <1>6, <2>1, <2>2, <2>3, <3>1, <3>2, <3>4 DEF FilesAreRead
  <2>5. CopiesAgree(q)'
    <3>1. CASE q \in escaped'
      BY <1>6, <3>1 DEF CopiesAgree, IsLoaded, Owes
    <3>2. CASE q \notin escaped'
      BY <1>2, <1>5, <1>6, <2>1, <3>2, CopiesStay
    <3> QED BY <3>1, <3>2
  <2>6. AnswersAreFiled(q)'
    <3>1. data[q].reason # "absent" => store'[q].state # "none"
      BY <1>6, <2>1 DEF AnswersAreFiled
    <3>2. IsLoaded(q)' => Observed(data[q]) \subseteq store'[q].records
      <4> SUFFICES ASSUME IsLoaded(q)' PROVE Observed(data[q]) \subseteq store[q].records
        BY <1>6, <2>2
      <4>1. q \in refresh.left \/ refresh.got[q] = data[q]
        BY <1>1 DEF IsLoaded
      <4> QED BY <1>2, <2>1, <2>2, <4>1 DEF AnswersAreFiled, Done, Kept
    <3>3. Kept(q, data[q])'
      BY <1>2, <3>1, <3>2 DEF Kept
    <3> QED BY <1>2, <1>4, <3>1, <3>3 DEF AnswersAreFiled, Done, Answered
  <2> QED BY <2>4, <2>5, <2>6
<1>9. \A q \in Points : IsTariff(data[q])' /\ IsTariff(refresh.got[q])'
  BY <1>2, <1>4, <1>5, ArchivesStay, NoTariffIsTariff DEF ArchiveInv
<1>10. NothingOnceRemoved'
  BY <1>2, <1>3 DEF NothingOnceRemoved
<1> QED BY <1>7, <1>8, <1>9, <1>10 DEF ArchiveInv

-----------------------------------------------------------------------------
(* Saves, and what happens to one file.                                    *)

\* A step about the copies of one supply point.
LEMMA OneCopyInv ==
    ASSUME ArchiveInv, UNCHANGED <<provider, running, refresh, data, baseline, escaped>>, NEW p \in Points,
           file' \in [Points -> [exists : BOOLEAN, damaged : BOOLEAN, records : SUBSET Records]],
           store' \in [Points -> [state : {"none", "loaded", "quarantined", "unread"},
                                  records : SUBSET Records, pending : BOOLEAN]],
           late' \in [Points -> [waiting : BOOLEAN, records : SUBSET Records]],
           filed' \in [Points -> SUBSET Records],
           \A q \in Points : q # p => /\ file'[q] = file[q] /\ store'[q] = store[q]
                                      /\ late'[q] = late[q] /\ filed'[q] = filed[q],
           FilesAreRead(p)', running => CopiesAgree(p)' /\ AnswersAreFiled(p)',
           ~running => store'[p] = NoStore /\ filed'[p] = {}
    PROVE  ArchiveInv'
<1>1. restated' = restated /\ UNCHANGED <<month, agreements>>
  BY DEF provider
<1>2. ArchiveShape'
  BY <1>1 DEF ArchiveInv, ArchiveShape
<1>3. NothingOnceRemoved'
  BY DEF ArchiveInv, NothingOnceRemoved
<1>4. \A q \in Points : FilesAreRead(q)'
  <2> SUFFICES ASSUME NEW q \in Points, q # p PROVE FilesAreRead(q)'
    OBVIOUS
  <2> QED BY <1>1, FilesStay DEF ArchiveInv
<1>5. ASSUME running, NEW q \in Points PROVE CopiesAgree(q)' /\ AnswersAreFiled(q)'
  <2>1. CASE q = p
    BY <1>5, <2>1
  <2>2. CASE q # p
    BY <1>5, <2>2, OthersStay
  <2> QED BY <2>1, <2>2
<1>6. \A q \in Points : IsTariff(data[q])' /\ IsTariff(refresh.got[q])'
  BY <1>1, ArchivesStay DEF ArchiveInv
<1> QED BY <1>2, <1>3, <1>4, <1>5, <1>6 DEF ArchiveInv

\* A store with a save to come is loaded, or its load has failed.
LEMMA PendingIsLoaded ==
    ASSUME ArchiveInv, NEW p \in Points, store[p].pending
    PROVE  store[p].state \in {"loaded", "unread"} /\ running /\ (p \notin escaped => IsLoaded(p))
<1>1. store[p] \notin {NoStore, Quarantined}
  BY DEF NoStore, Quarantined
<1>2. store[p].state \in {"none", "loaded", "quarantined", "unread"}
  BY DEF ArchiveInv, ArchiveShape
<1> QED BY <1>1, <1>2 DEF ArchiveInv, FilesAreRead, NothingOnceRemoved, IsLoaded

\* The delayed save: the file is the store.
LEMMA SavesInv ==
    ASSUME ArchiveInv, Saves
    PROVE  ArchiveInv'
<1>1. PICK p \in Points :
        /\ store[p].pending /\ ~late[p].waiting
        /\ file' = [file EXCEPT ![p] = Written(store[p].records)]
        /\ store' = [store EXCEPT ![p].pending = FALSE]
  BY DEF Saves
<1>2. UNCHANGED <<provider, running, refresh, data, late, baseline, filed, escaped>>
  BY DEF Saves
<1>3. store[p].state \in {"loaded", "unread"} /\ running /\ (p \notin escaped => IsLoaded(p))
  BY <1>1, PendingIsLoaded
<1>4. ArchiveShape /\ FilesAreRead(p) /\ CopiesAgree(p) /\ AnswersAreFiled(p)
  BY <1>3 DEF ArchiveInv
<1>5. /\ file'[p] = [exists |-> TRUE, damaged |-> FALSE, records |-> store[p].records]
      /\ \A q \in Points : q # p => file'[q] = file[q] /\ store'[q] = store[q]
  BY <1>1, <1>4 DEF Written, ArchiveShape
<1>6. store[p] \in [state : {"none", "loaded", "quarantined", "unread"}, records : SUBSET Records, pending : BOOLEAN]
  BY <1>4 DEF ArchiveShape
<1>7. store'[p] = [store[p] EXCEPT !.pending = FALSE]
  BY <1>1, <1>4 DEF ArchiveShape
<1>8. /\ store'[p].state = store[p].state /\ store'[p].records = store[p].records
      /\ ~store'[p].pending
      /\ store'[p] \in [state : {"none", "loaded", "quarantined", "unread"}, records : SUBSET Records, pending : BOOLEAN]
  BY <1>6, <1>7
<1>9. /\ store' \in [Points -> [state : {"none", "loaded", "quarantined", "unread"},
                                records : SUBSET Records, pending : BOOLEAN]]
      /\ file' \in [Points -> [exists : BOOLEAN, damaged : BOOLEAN, records : SUBSET Records]]
  <2>1. store' \in [Points -> [state : {"none", "loaded", "quarantined", "unread"},
                               records : SUBSET Records, pending : BOOLEAN]]
    BY <1>1, <1>4, <1>5, <1>8 DEF ArchiveShape
  <2>2. file'[p] \in [exists : BOOLEAN, damaged : BOOLEAN, records : SUBSET Records]
    BY <1>5, <1>6
  <2>3. file' \in [Points -> [exists : BOOLEAN, damaged : BOOLEAN, records : SUBSET Records]]
    BY <1>1, <1>4, <1>5, <2>2 DEF ArchiveShape
  <2> QED BY <2>1, <2>3
<1>10. restated' = restated /\ UNCHANGED <<month, agreements>>
  BY <1>2 DEF provider
<1>11. FilesAreRead(p)'
  <2>1. \A R : IsArchive(R) => IsArchive(R)'
    BY <1>10, ArchivesStay
  <2>2. \A r : IsStatement(r) => IsStatement(r)'
    BY <1>10, StatementsStay
  <2>3. ~Owes(p)'
    BY <1>1, <1>2 DEF Owes
  <2> QED BY <1>2, <1>3, <1>4, <1>5, <1>8, <2>1, <2>2, <2>3 DEF FilesAreRead
<1>12. CopiesAgree(p)'
  <2> SUFFICES ASSUME p \notin escaped PROVE CopiesAgree(p)'
    BY <1>2, <1>4 DEF CopiesAgree, FilesAreRead, IsLoaded, Owes
  <2>1. Under(store[p].records, store[p].records)
    BY <1>4, UnderItself DEF FilesAreRead
  <2>2. filed[p] \subseteq store[p].records
    BY <1>3, <1>4 DEF CopiesAgree, Latest
  <2>3. Under(file[p].records, store[p].records)'
    BY <1>5, <1>8, <2>1
  <2>4. Adds(p, store[p].records, file[p].records)'
    BY <1>5, <1>8 DEF Adds
  <2>5. IsLoaded(p)' /\ ~Owes(p)'
    BY <1>1, <1>2, <1>3, <1>8 DEF IsLoaded, Owes
  <2> QED BY <1>1, <1>2, <1>5, <1>8, <2>2, <2>3, <2>4, <2>5 DEF CopiesAgree, Latest
<1>13. AnswersAreFiled(p)'
  <2>1. Known(p)' \subseteq Known(p)
    BY <1>2, <1>5, <1>8 DEF Known
  <2>2. store'[p].state = store[p].state /\ store'[p].records = store[p].records
    BY <1>8
  <2> QED BY <1>2, <1>4, <1>10, <2>1, <2>2, AnswersStay
<1>14. late' \in [Points -> [waiting : BOOLEAN, records : SUBSET Records]]
       /\ filed' \in [Points -> SUBSET Records]
  BY <1>2, <1>4 DEF ArchiveShape
<1> QED BY <1>2, <1>3, <1>5, <1>9, <1>11, <1>12, <1>13, <1>14, OneCopyInv

\* The save of an unloaded store: no older than the file, no newer than the store.
LEMMA LateSavesInv ==
    ASSUME ArchiveInv, LateSaves
    PROVE  ArchiveInv'
<1>1. PICK p \in Points :
        /\ late[p].waiting
        /\ file' = [file EXCEPT ![p] = Written(late[p].records)]
        /\ late' = [late EXCEPT ![p] = NotLate]
  BY DEF LateSaves
<1>2. UNCHANGED <<provider, running, refresh, data, store, baseline, filed, escaped>>
  BY DEF LateSaves
<1>3. ArchiveShape /\ FilesAreRead(p)
  BY DEF ArchiveInv
<1>4. /\ file'[p] = [exists |-> TRUE, damaged |-> FALSE, records |-> late[p].records]
      /\ late'[p] = NotLate
      /\ \A q \in Points : q # p => file'[q] = file[q] /\ late'[q] = late[q]
  BY <1>1, <1>3 DEF Written, ArchiveShape
<1>5. late[p] \in [waiting : BOOLEAN, records : SUBSET Records]
      /\ NotLate \in [waiting : BOOLEAN, records : SUBSET Records]
  BY <1>3 DEF ArchiveShape, NotLate
<1>6. /\ late' \in [Points -> [waiting : BOOLEAN, records : SUBSET Records]]
      /\ file' \in [Points -> [exists : BOOLEAN, damaged : BOOLEAN, records : SUBSET Records]]
  <2>1. late' \in [Points -> [waiting : BOOLEAN, records : SUBSET Records]]
    BY <1>1, <1>3, <1>4, <1>5 DEF ArchiveShape
  <2>2. file'[p] \in [exists : BOOLEAN, damaged : BOOLEAN, records : SUBSET Records]
    BY <1>4, <1>5
  <2>3. file' \in [Points -> [exists : BOOLEAN, damaged : BOOLEAN, records : SUBSET Records]]
    BY <1>1, <1>3, <1>4, <2>2 DEF ArchiveShape
  <2> QED BY <2>1, <2>3
<1>7. restated' = restated /\ UNCHANGED <<month, agreements>>
  BY <1>2 DEF provider
<1>8. FilesAreRead(p)'
  <2>1. \A R : IsArchive(R) => IsArchive(R)'
    BY <1>7, ArchivesStay
  <2>2. \A r : IsStatement(r) => IsStatement(r)'
    BY <1>7, StatementsStay
  <2>3. late'[p].records = {}
    BY <1>4 DEF NotLate
  <2> QED BY <1>2, <1>3, <1>4, <2>1, <2>2, <2>3, EmptyIsArchive DEF FilesAreRead
<1>9. ASSUME running, p \notin escaped PROVE CopiesAgree(p)'
  <2>1. CopiesAgree(p) /\ Owes(p)
    BY <1>1, <1>9 DEF ArchiveInv, Owes
  <2>2. /\ Under(file[p].records, late[p].records)
        /\ IsLoaded(p) => Under(late[p].records, store[p].records)
    BY <1>1, <2>1 DEF CopiesAgree
  <2>3. /\ IsArchive(file[p].records) /\ IsArchive(late[p].records) /\ IsArchive(store[p].records)
    BY <1>3 DEF FilesAreRead
  <2>4. ASSUME IsLoaded(p), NEW b \in store[p].records, Key(b) \notin KeysNow(p)
        PROVE  b \in late[p].records
    <3>1. b \in file[p].records
      BY <2>1, <2>4 DEF CopiesAgree, Adds
    <3>2. PICK c \in late[p].records : Key(b) = Key(c) /\ b.price <= c.price
      BY <2>2, <3>1 DEF Under
    <3>3. PICK d \in store[p].records : Key(c) = Key(d) /\ c.price <= d.price
      BY <2>2, <2>4 DEF Under
    <3>4. d = b
      BY <2>3, <3>2, <3>3 DEF IsArchive, OneEach
    <3>5. b \in Records /\ c \in Records
      BY <2>3, <3>1, StatementType DEF IsArchive
    <3>6. b.price = c.price
      BY <3>2, <3>3, <3>4, <3>5 DEF Records
    <3> QED BY <3>2, <3>5, <3>6, RecordIs
  <2>5. IsLoaded(p) /\ ~store[p].pending => store[p].records = late[p].records
    <3> SUFFICES ASSUME IsLoaded(p), ~store[p].pending PROVE store[p].records = late[p].records
      OBVIOUS
    <3>1. store[p].records = file[p].records
      BY <2>1 DEF CopiesAgree
    <3> QED BY <2>2, <2>3, <3>1, UnderEachOther
  <2>6. KeysNow(p)' = KeysNow(p)
    BY <1>7 DEF KeysNow
  <2>7. CopiesAgree(p)'
    <3>1. ~late'[p].waiting /\ ~Owes(p)'
      BY <1>4 DEF NotLate, Owes
    <3>2. filed[p] \subseteq Latest(p)
      BY <2>1 DEF CopiesAgree
    <3>3. filed'[p] \subseteq Latest(p)'
      BY <1>1, <1>2, <1>4, <3>1, <3>2 DEF Latest, IsLoaded
    <3>4. IsLoaded(p)' => Adds(p, store[p].records, file[p].records)'
      BY <1>2, <1>4, <2>4, <2>6 DEF Adds, IsLoaded
    <3>5. IsLoaded(p)' => Under(file[p].records, store[p].records)'
      BY <1>2, <1>4, <2>2 DEF IsLoaded
    <3>6. IsLoaded(p)' /\ ~store'[p].pending => store'[p].records = file'[p].records
      BY <1>2, <1>4, <2>5 DEF IsLoaded
    <3> QED BY <3>1, <3>3, <3>4, <3>5, <3>6 DEF CopiesAgree
  <2> QED BY <2>7
<1>10. running => CopiesAgree(p)' /\ AnswersAreFiled(p)'
  <2> SUFFICES ASSUME running PROVE CopiesAgree(p)' /\ AnswersAreFiled(p)'
    OBVIOUS
  <2>1. p \in escaped => CopiesAgree(p)'
    BY <1>2, <1>3 DEF CopiesAgree, FilesAreRead, IsLoaded, Owes
  <2>2. Known(p)' \subseteq Known(p)
    BY <1>2, <1>4 DEF Known, NotLate
  <2>3. AnswersAreFiled(p)'
    BY <1>2, <1>7, <2>2, AnswersStay DEF ArchiveInv
  <2> QED BY <1>9, <2>1, <2>3
<1>11. store' \in [Points -> [state : {"none", "loaded", "quarantined", "unread"},
                              records : SUBSET Records, pending : BOOLEAN]]
       /\ filed' \in [Points -> SUBSET Records]
  BY <1>2, <1>3 DEF ArchiveShape
<1>12. ~running => store'[p] = NoStore /\ filed'[p] = {}
  BY <1>2 DEF ArchiveInv, NothingOnceRemoved
<1>13. \A q \in Points : q # p => /\ file'[q] = file[q] /\ store'[q] = store[q]
                                  /\ late'[q] = late[q] /\ filed'[q] = filed[q]
  BY <1>2, <1>4
<1> QED BY <1>2, <1>6, <1>8, <1>10, <1>11, <1>12, <1>13, OneCopyInv

\* A file is damaged while nobody holds a copy.
LEMMA DamagesInv ==
    ASSUME ArchiveInv, Damages
    PROVE  ArchiveInv'
<1>1. PICK p \in Points :
        /\ file[p].exists /\ store[p].state = "none" /\ ~late[p].waiting
        /\ file' = [file EXCEPT ![p].damaged = TRUE]
        /\ filed' = [filed EXCEPT ![p] = {}]
  BY DEF Damages
<1>2. UNCHANGED <<provider, running, refresh, data, store, late, baseline, escaped>>
  BY DEF Damages
<1>3. ArchiveShape /\ FilesAreRead(p)
  BY DEF ArchiveInv
<1>4. file[p] \in [exists : BOOLEAN, damaged : BOOLEAN, records : SUBSET Records]
  BY <1>3 DEF ArchiveShape
<1>5. file'[p] = [file[p] EXCEPT !.damaged = TRUE]
  BY <1>1, <1>3 DEF ArchiveShape
<1>6. /\ file'[p].exists /\ file'[p].damaged /\ file'[p].records = file[p].records
      /\ file'[p] \in [exists : BOOLEAN, damaged : BOOLEAN, records : SUBSET Records]
  BY <1>1, <1>4, <1>5
<1>7. filed'[p] = {}
      /\ \A q \in Points : q # p => file'[q] = file[q] /\ filed'[q] = filed[q]
  BY <1>1, <1>3 DEF ArchiveShape
<1>8. /\ file' \in [Points -> [exists : BOOLEAN, damaged : BOOLEAN, records : SUBSET Records]]
      /\ filed' \in [Points -> SUBSET Records]
  BY <1>1, <1>3, <1>6, <1>7 DEF ArchiveShape
<1>9. restated' = restated /\ UNCHANGED <<month, agreements>>
  BY <1>2 DEF provider
<1>10. ~IsLoaded(p) /\ ~IsLoaded(p)' /\ ~Owes(p)'
  BY <1>1, <1>2 DEF IsLoaded, Owes
<1>11. FilesAreRead(p)'
  <2>1. \A R : IsArchive(R) => IsArchive(R)'
    BY <1>9, ArchivesStay
  <2> QED BY <1>1, <1>2, <1>3, <1>6, <1>7, <1>10, <2>1 DEF FilesAreRead
<1>12. running => CopiesAgree(p)'
  BY <1>1, <1>2, <1>7, <1>10 DEF CopiesAgree
<1>13. running => AnswersAreFiled(p)'
  <2> SUFFICES ASSUME running PROVE AnswersAreFiled(p)'
    OBVIOUS
  <2>1. AnswersAreFiled(p)
    BY DEF ArchiveInv
  <2>2. Known(p)' \subseteq Known(p)
    BY <1>2, <1>6 DEF Known
  <2> QED BY <1>2, <1>9, <2>1, <2>2, AnswersStay
<1>14. ~running => store'[p] = NoStore
  BY <1>2 DEF ArchiveInv, NothingOnceRemoved
<1>15. \A q \in Points : q # p => /\ file'[q] = file[q] /\ store'[q] = store[q]
                                  /\ late'[q] = late[q] /\ filed'[q] = filed[q]
  BY <1>2, <1>7
<1>16. store' \in [Points -> [state : {"none", "loaded", "quarantined", "unread"},
                              records : SUBSET Records, pending : BOOLEAN]]
       /\ late' \in [Points -> [waiting : BOOLEAN, records : SUBSET Records]]
  BY <1>2, <1>3 DEF ArchiveShape
<1> QED BY <1>2, <1>7, <1>8, <1>11, <1>12, <1>13, <1>14, <1>15, <1>16, OneCopyInv

-----------------------------------------------------------------------------
(* The entry is unloaded.                                                  *)
\* Nothing is loaded, and the copies that are left agree.
LEMMA UnloadedInv ==
    ASSUME ArchiveInv, running, Unloaded, UNCHANGED <<provider, baseline, escaped>>, running' \in BOOLEAN,
           file' \in [Points -> [exists : BOOLEAN, damaged : BOOLEAN, records : SUBSET Records]],
           late' \in [Points -> [waiting : BOOLEAN, records : SUBSET Records]],
           filed' \in [Points -> SUBSET Records],
           \A p \in Points : /\ IsArchive(file'[p].records) /\ IsArchive(late'[p].records)
                             /\ \A r \in filed'[p] : IsStatement(r)
                             /\ ~file'[p].exists => file'[p] = NoFile
                             /\ ~late'[p].waiting => late'[p] = NotLate
                             /\ file'[p].damaged => ~Owes(p)'
                             /\ p \in escaped => filed'[p] = {},
           running' => \A p \in Points : CopiesAgree(p)',
           ~running' => \A p \in Points : filed'[p] = {}
    PROVE  ArchiveInv'
<1>1. /\ refresh' = Idle /\ data' = NoData /\ store' = [p \in Points |-> NoStore]
      /\ refresh'.step = "idle" /\ refresh'.left = {} /\ refresh'.got = [p \in Points |-> NoTariff]
      /\ refresh' = [step |-> refresh'.step, left |-> refresh'.left, got |-> refresh'.got]
  BY DEF Unloaded, Idle
<1>2. restated' = restated /\ UNCHANGED <<month, agreements>>
  BY DEF provider
<1>3. \A p \in Points : store'[p] = NoStore /\ data'[p] = NoTariff /\ refresh'.got[p] = NoTariff
  BY <1>1 DEF NoData
<1>4. ArchiveShape'
  BY <1>1, <1>2 DEF ArchiveInv, ArchiveShape, NoStore, NoData
<1>5. NothingOnceRemoved'
  BY <1>1, <1>3 DEF NothingOnceRemoved
<1>6. \A R : IsArchive(R) => IsArchive(R)'
  BY <1>2, ArchivesStay
<1>7. \A p \in Points : FilesAreRead(p)'
  <2>1. \A r : IsStatement(r) => IsStatement(r)'
    BY <1>2, StatementsStay
  <2>2. \A p \in Points : store'[p].records = {} /\ store'[p].state = "none" /\ ~IsLoaded(p)'
    BY <1>3 DEF NoStore, IsLoaded
  <2>3. ASSUME NEW p \in Points PROVE FilesAreRead(p)'
    BY <1>3, <1>6, <2>1, <2>2, EmptyIsArchive DEF FilesAreRead
  <2> QED BY <2>3
<1>8. \A p \in Points : IsTariff(data[p])' /\ IsTariff(refresh.got[p])'
  <2>1. \A t : IsTariff(t) => IsTariff(t)'
    BY <1>2, ArchivesStay
  <2> QED BY <1>3, <2>1, NoTariffIsTariff
<1>9. \A p \in Points : AnswersAreFiled(p)'
  BY <1>1, <1>3 DEF AnswersAreFiled, Done, Answered, Kept, IsLoaded, NoStore, NoTariff
<1> QED BY <1>4, <1>5, <1>7, <1>8, <1>9 DEF ArchiveInv

\* What the store had still to write is written late.
LEMMA LateIsArchive ==
    ASSUME ArchiveInv, NEW p \in Points,
           late' = [q \in Points |-> IF store[q].pending
                                     THEN [waiting |-> TRUE, records |-> store[q].records]
                                     ELSE late[q]]
    PROVE  /\ late' \in [Points -> [waiting : BOOLEAN, records : SUBSET Records]]
           /\ IsArchive(late'[p].records)
           /\ ~late'[p].waiting => late'[p] = NotLate
           /\ file[p].damaged /\ p \notin escaped => ~late'[p].waiting
<1>1. \A q \in Points : store[q].records \in SUBSET Records
                        /\ late[q] \in [waiting : BOOLEAN, records : SUBSET Records]
  BY DEF ArchiveInv, ArchiveShape
<1>2. late' \in [Points -> [waiting : BOOLEAN, records : SUBSET Records]]
  BY <1>1
<1>3. FilesAreRead(p) /\ (store[p].pending /\ p \notin escaped => IsLoaded(p))
  BY PendingIsLoaded DEF ArchiveInv
<1>4. late'[p] = IF store[p].pending THEN [waiting |-> TRUE, records |-> store[p].records] ELSE late[p]
  OBVIOUS
<1> QED BY <1>2, <1>3, <1>4 DEF FilesAreRead, Owes

\* A reload: what the store had still to write is the latest copy.
LEMMA ReloadsInv ==
    ASSUME ArchiveInv, Reloads
    PROVE  ArchiveInv'
<1>1. /\ running /\ Unloaded /\ UNCHANGED <<provider, running, file, baseline, filed, escaped>>
      /\ late' = [p \in Points |-> IF store[p].pending
                                   THEN [waiting |-> TRUE, records |-> store[p].records]
                                   ELSE late[p]]
  BY DEF Reloads
<1>2. restated' = restated /\ UNCHANGED <<month, agreements>>
  BY <1>1 DEF provider
<1>3. ASSUME NEW p \in Points PROVE CopiesAgree(p)'
  <2>1. FilesAreRead(p) /\ CopiesAgree(p)
    BY <1>1 DEF ArchiveInv
  <2>2. ~IsLoaded(p)'
    BY <1>1 DEF Unloaded, IsLoaded, NoStore
  <2> SUFFICES ASSUME p \notin escaped PROVE CopiesAgree(p)'
    BY <1>1, <2>1, <2>2 DEF CopiesAgree, FilesAreRead, Owes
  <2>3. KeysNow(p)' = KeysNow(p) /\ file'[p] = file[p] /\ filed'[p] = filed[p]
    BY <1>1, <1>2 DEF KeysNow
  <2>4. CASE store[p].pending
    <3>1. late'[p] = [waiting |-> TRUE, records |-> store[p].records] /\ IsLoaded(p)
      BY <1>1, <2>4, PendingIsLoaded
    <3>2. filed'[p] \subseteq Latest(p)'
      BY <2>1, <2>2, <2>3, <3>1 DEF CopiesAgree, Latest
    <3>3. Under(file[p].records, late[p].records)' /\ Adds(p, late[p].records, file[p].records)'
      BY <2>1, <2>3, <3>1 DEF CopiesAgree, Adds
    <3> QED BY <2>2, <3>2, <3>3 DEF CopiesAgree
  <2>5. CASE ~store[p].pending
    <3>1. late'[p] = late[p]
      BY <1>1, <2>5
    <3>2. late[p].waiting => Under(file[p].records, late[p].records)'
                             /\ Adds(p, late[p].records, file[p].records)'
      BY <2>1, <2>3, <3>1 DEF CopiesAgree, Adds, Owes
    <3>3. late[p].waiting /\ IsLoaded(p) => late[p].records = store[p].records
      <4> SUFFICES ASSUME late[p].waiting, IsLoaded(p) PROVE late[p].records = store[p].records
        OBVIOUS
      <4>1. /\ Under(file[p].records, late[p].records) /\ Under(late[p].records, store[p].records)
            /\ store[p].records = file[p].records
        BY <2>1, <2>5 DEF CopiesAgree, Owes
      <4>2. IsArchive(late[p].records) /\ IsArchive(store[p].records)
        BY <2>1 DEF FilesAreRead
      <4> QED BY <4>1, <4>2, UnderEachOther
    <3>4. IsLoaded(p) => store[p].records = file[p].records
      BY <2>1, <2>5 DEF CopiesAgree
    <3>5. filed[p] \subseteq Latest(p)
      BY <2>1 DEF CopiesAgree
    <3>6. Latest(p)' = Latest(p)
      BY <2>2, <2>3, <3>1, <3>3, <3>4 DEF Latest
    <3> QED BY <2>2, <2>3, <3>1, <3>2, <3>5, <3>6 DEF CopiesAgree, Owes
  <2> QED BY <2>4, <2>5
<1>4. \A p \in Points : /\ late' \in [Points -> [waiting : BOOLEAN, records : SUBSET Records]]
                        /\ IsArchive(late'[p].records)
                        /\ ~late'[p].waiting => late'[p] = NotLate
                        /\ file[p].damaged /\ p \notin escaped => ~late'[p].waiting
  <2> SUFFICES ASSUME NEW p \in Points
               PROVE  /\ late' \in [Points -> [waiting : BOOLEAN, records : SUBSET Records]]
                      /\ IsArchive(late'[p].records)
                      /\ ~late'[p].waiting => late'[p] = NotLate
                      /\ file[p].damaged /\ p \notin escaped => ~late'[p].waiting
    OBVIOUS
  <2> QED BY <1>1, LateIsArchive
<1>5. \A p \in Points : /\ IsArchive(file'[p].records) /\ IsArchive(late'[p].records)
                        /\ \A r \in filed'[p] : IsStatement(r)
                        /\ ~file'[p].exists => file'[p] = NoFile
                        /\ ~late'[p].waiting => late'[p] = NotLate
                        /\ file'[p].damaged => ~Owes(p)'
                        /\ p \in escaped => filed'[p] = {}
  BY <1>1, <1>4 DEF ArchiveInv, FilesAreRead, Owes
<1>6. file' \in [Points -> [exists : BOOLEAN, damaged : BOOLEAN, records : SUBSET Records]]
      /\ filed' \in [Points -> SUBSET Records]
  BY <1>1 DEF ArchiveInv, ArchiveShape
<1>7. late' \in [Points -> [waiting : BOOLEAN, records : SUBSET Records]]
  <2>1. \A p \in Points : store[p].records \in SUBSET Records
                          /\ late[p] \in [waiting : BOOLEAN, records : SUBSET Records]
    BY DEF ArchiveInv, ArchiveShape
  <2> QED BY <1>1, <2>1
<1>8. running' \in BOOLEAN /\ running'
  BY <1>1
<1> QED BY <1>1, <1>3, <1>5, <1>6, <1>7, <1>8, UnloadedInv

\* A crash: the file is all there is.
LEMMA CrashesInv ==
    ASSUME ArchiveInv, Crashes
    PROVE  ArchiveInv'
<1>1. /\ running /\ Unloaded /\ UNCHANGED <<provider, running, file, baseline, escaped>>
      /\ late' = [p \in Points |-> NotLate]
      /\ filed' = [p \in Points |-> filed[p] \cap file[p].records]
  BY DEF Crashes
<1>2. \A p \in Points : /\ late'[p] = NotLate /\ ~late'[p].waiting /\ late'[p].records = {}
                        /\ filed'[p] \subseteq filed[p] /\ filed'[p] \subseteq file'[p].records
  BY <1>1 DEF NotLate
<1>3. \A p \in Points : CopiesAgree(p)'
  <2>1. \A p \in Points : ~IsLoaded(p)' /\ ~Owes(p)'
    BY <1>1, <1>2 DEF Unloaded, IsLoaded, NoStore, Owes
  <2> QED BY <1>2, <2>1 DEF CopiesAgree, Latest
<1>4. \A p \in Points : /\ IsArchive(file'[p].records) /\ IsArchive(late'[p].records)
                        /\ \A r \in filed'[p] : IsStatement(r)
                        /\ ~file'[p].exists => file'[p] = NoFile
                        /\ ~late'[p].waiting => late'[p] = NotLate
                        /\ file'[p].damaged => ~Owes(p)'
                        /\ p \in escaped => filed'[p] = {}
  <2>1. \A p \in Points : FilesAreRead(p)
    BY DEF ArchiveInv
  <2> QED BY <1>1, <1>2, <2>1, EmptyIsArchive DEF FilesAreRead, Owes
<1>5. /\ file' \in [Points -> [exists : BOOLEAN, damaged : BOOLEAN, records : SUBSET Records]]
      /\ filed' \in [Points -> SUBSET Records]
  BY <1>1 DEF ArchiveInv, ArchiveShape
<1>6. late' \in [Points -> [waiting : BOOLEAN, records : SUBSET Records]]
  BY <1>1 DEF NotLate
<1>7. running' \in BOOLEAN /\ running'
  BY <1>1
<1> QED BY <1>1, <1>3, <1>4, <1>5, <1>6, <1>7, UnloadedInv

\* The entry is removed.
LEMMA RemovesInv ==
    ASSUME ArchiveInv, Removes
    PROVE  ArchiveInv'
<1>1. /\ running /\ ~running' /\ running' \in BOOLEAN /\ Unloaded
      /\ UNCHANGED <<provider, baseline, escaped>>
      /\ file' = [p \in Points |-> NoFile] /\ filed' = [p \in Points |-> {}]
      /\ late' = [p \in Points |-> IF store[p].pending
                                   THEN [waiting |-> TRUE, records |-> store[p].records]
                                   ELSE late[p]]
  BY DEF Removes
<1>2. \A p \in Points : /\ file'[p] = NoFile /\ filed'[p] = {}
                        /\ file'[p].records = {} /\ ~file'[p].damaged
  BY <1>1 DEF NoFile
<1>3. \A p \in Points : IsArchive(late'[p].records) /\ (~late'[p].waiting => late'[p] = NotLate)
  <2> SUFFICES ASSUME NEW p \in Points
               PROVE  IsArchive(late'[p].records) /\ (~late'[p].waiting => late'[p] = NotLate)
    OBVIOUS
  <2> QED BY <1>1, LateIsArchive
<1>4. \A p \in Points : /\ IsArchive(file'[p].records) /\ IsArchive(late'[p].records)
                        /\ \A r \in filed'[p] : IsStatement(r)
                        /\ ~file'[p].exists => file'[p] = NoFile
                        /\ ~late'[p].waiting => late'[p] = NotLate
                        /\ file'[p].damaged => ~Owes(p)'
                        /\ p \in escaped => filed'[p] = {}
  BY <1>2, <1>3, EmptyIsArchive
<1>5. /\ file' \in [Points -> [exists : BOOLEAN, damaged : BOOLEAN, records : SUBSET Records]]
      /\ filed' \in [Points -> SUBSET Records]
  BY <1>1 DEF NoFile
<1>6. late' \in [Points -> [waiting : BOOLEAN, records : SUBSET Records]]
  <2>1. \A p \in Points : store[p].records \in SUBSET Records
                          /\ late[p] \in [waiting : BOOLEAN, records : SUBSET Records]
    BY DEF ArchiveInv, ArchiveShape
  <2> QED BY <1>1, <2>1
<1> QED BY <1>1, <1>2, <1>4, <1>5, <1>6, UnloadedInv

\* Every step keeps the invariant, one case per action.
LEMMA NextArchive == ArchiveInv /\ [Next]_vars => ArchiveInv'
<1> SUFFICES ASSUME ArchiveInv, [Next]_vars PROVE ArchiveInv'
  OBVIOUS
<1>1. CASE Tick \/ Restates \/ Switches
  BY <1>1, ProviderInv
<1>2. CASE RefreshBegins
  BY <1>2, RefreshBeginsInv
<1>3. CASE ReadsTariff
  BY <1>3, ReadsTariffInv
<1>4. CASE Files
  BY <1>4, FilesInv
<1>5. CASE RefreshEnds
  BY <1>5, RefreshEndsInv
<1>6. CASE Repriced
  BY <1>6, RepricedInv
<1>7. CASE Saves
  BY <1>7, SavesInv
<1>8. CASE LateSaves
  BY <1>8, LateSavesInv
<1>9. CASE Reloads
  BY <1>9, ReloadsInv
<1>10. CASE Crashes
  BY <1>10, CrashesInv
<1>11. CASE Damages
  BY <1>11, DamagesInv
<1>12. CASE Removes
  BY <1>12, RemovesInv
<1>13. CASE LoadFails
  BY <1>13, LoadFailsInv
<1>14. CASE UNCHANGED vars
  <2>1. UNCHANGED <<month, restated, agreements, running, refresh, data, file, store, late, baseline,
                    filed, escaped>>
    BY <1>14 DEF vars
  <2>2. ArchiveShape' /\ NothingOnceRemoved'
    BY <2>1 DEF ArchiveInv, ArchiveShape, NothingOnceRemoved
  <2>3. \A p \in Points : FilesAreRead(p)' /\ IsTariff(data[p])' /\ IsTariff(refresh.got[p])'
    BY <2>1, FilesStay, ArchivesStay DEF ArchiveInv
  <2>4. ASSUME running, NEW p \in Points PROVE CopiesAgree(p)' /\ AnswersAreFiled(p)'
    <3>1. Known(p)' \subseteq Known(p)
      BY <2>1 DEF Known
    <3> QED BY <2>1, <2>4, <3>1, CopiesStay, AnswersStay DEF ArchiveInv
  <2> QED BY <2>1, <2>2, <2>3, <2>4 DEF ArchiveInv
<1> QED BY <1>1, <1>2, <1>3, <1>4, <1>5, <1>6, <1>7, <1>8, <1>9, <1>10, <1>11, <1>12, <1>13,
           <1>14 DEF Next

-----------------------------------------------------------------------------
(* What is proved.                                                         *)

\* File, store and late save never disagree but by what is in force at
\* present, and what a refresh has read is filed before it is used
\* (tariff_history_store.py, commercial_coordinator.py).
THEOREM ArchiveIsKept == Spec => []ArchiveInv
<1>1. Init => ArchiveInv
  BY InitArchive
<1>2. ArchiveInv /\ [Next]_vars => ArchiveInv'
  BY NextArchive
<1> QED BY <1>1, <1>2, PTL DEF Spec

\* The archive keeps one record a window, in the file, in the store and in a
\* save that is late (merge_observed).
THEOREM TariffsAreTyped == Spec => []TariffTypeOK
BY ArchiveIsKept, InvIsTyped, PTL

\* Whenever there is a tariff to price with, every hour of a window that was
\* filed is priced with the last statement about it (adders_for, rate_at): over
\* any number of refreshes, restatements, reloads, crashes and damaged files.
THEOREM FiledRatesArePriced == Spec => []ObservedRatesArePriced
BY ArchiveIsKept, InvIsPriced, PTL

\* The branch of project_hourly_cost that finds no price is unreachable: a
\* time-of-use tariff that passes parsing prices every hour.
THEOREM HoursArePriced == Spec => []EveryHourIsPriced
BY ArchiveIsKept, InvIsComplete, PTL

\* What is published for a stepped tariff is the price of its units one by one,
\* whatever the reading day, the steps and the consumption (project_hourly_cost,
\* _price_across_steps, BillingPeriodCalendar).
THEOREM UnitsAreCharged == Spec => []UnitsAreChargedOnce
BY ArchiveIsKept, InvIsCharged, PTL

\* What a write may do to a file.
Remembers(p) ==
    /\ KeysOf(file[p].records) \subseteq KeysOf(file'[p].records)
    /\ file[p].damaged => file'[p] = file[p]

\* A newer copy has every window of the older.
LEMMA UnderKeepsKeys ==
    ASSUME NEW R, NEW S, Under(R, S)
    PROVE  KeysOf(R) \subseteq KeysOf(S)
BY DEF Under, KeysOf

\* A save writes a newer copy, and nothing writes a damaged file.
LEMMA StepRemembers ==
    ASSUME ArchiveInv, Next, running', NEW p \in Points \ escaped
    PROVE  Remembers(p)
<1>1. CASE Saves
  <2>1. PICK q \in Points : /\ store[q].pending
                            /\ file' = [file EXCEPT ![q] = Written(store[q].records)]
    BY <1>1 DEF Saves
  <2>2. CASE p = q
    <3>1. IsLoaded(p) /\ running
      BY <2>1, <2>2, PendingIsLoaded
    <3>2. Under(file[p].records, store[p].records) /\ ~file[p].damaged
      BY <3>1 DEF ArchiveInv, CopiesAgree, FilesAreRead
    <3>3. file'[p].records = store[p].records
      BY <2>1, <2>2 DEF Written, ArchiveInv, ArchiveShape
    <3> QED BY <3>2, <3>3, UnderKeepsKeys DEF Remembers
  <2>3. CASE p # q
    BY <2>1, <2>3 DEF Remembers, ArchiveInv, ArchiveShape
  <2> QED BY <2>2, <2>3
<1>2. CASE LateSaves
  <2>1. PICK q \in Points : /\ late[q].waiting
                            /\ file' = [file EXCEPT ![q] = Written(late[q].records)]
    BY <1>2 DEF LateSaves
  <2>2. running
    BY <1>2 DEF LateSaves
  <2>3. CASE p = q
    <3>1. Under(file[p].records, late[p].records) /\ ~file[p].damaged
      BY <2>1, <2>2, <2>3 DEF ArchiveInv, CopiesAgree, FilesAreRead, Owes
    <3>2. file'[p].records = late[p].records
      BY <2>1, <2>3 DEF Written, ArchiveInv, ArchiveShape
    <3> QED BY <3>1, <3>2, UnderKeepsKeys DEF Remembers
  <2>4. CASE p # q
    BY <2>1, <2>4 DEF Remembers, ArchiveInv, ArchiveShape
  <2> QED BY <2>3, <2>4
<1>3. CASE Damages
  <2>1. PICK q \in Points : ~file[q].damaged /\ file' = [file EXCEPT ![q].damaged = TRUE]
    BY <1>3 DEF Damages
  <2>2. file[q] \in [exists : BOOLEAN, damaged : BOOLEAN, records : SUBSET Records]
    BY DEF ArchiveInv, ArchiveShape
  <2>3. CASE p = q
    <3>1. file'[p].records = file[p].records /\ ~file[p].damaged
      BY <2>1, <2>2, <2>3 DEF ArchiveInv, ArchiveShape
    <3> QED BY <3>1 DEF Remembers
  <2>4. CASE p # q
    BY <2>1, <2>4 DEF Remembers, ArchiveInv, ArchiveShape
  <2> QED BY <2>3, <2>4
<1>4. CASE UNCHANGED file
  BY <1>4 DEF Remembers
<1> QED BY <1>1, <1>2, <1>3, <1>4
       DEF Next, Tick, Restates, Switches, RefreshBegins, ReadsTariff, Files, LoadFails, RefreshEnds,
           Repriced, Reloads, Crashes, Removes

\* Until the entry is removed no write drops a window from a file or touches
\* one that was found damaged (async_replace, the delayed saves), with as many
\* supply points, refreshes, reloads and crashes as there may be.  Only a load
\* that fails with another exception than async_load expects takes it away,
\* from its own supply point and those left with data older than their store,
\* until their file is opened again.
THEOREM WindowsAreKept == Spec => NothingIsForgotten
<1>1. ArchiveInv /\ [Next]_vars
      => [running' => \A p \in Points \ escaped :
            /\ KeysOf(file[p].records) \subseteq KeysOf(file'[p].records)
            /\ file[p].damaged => file'[p] = file[p]]_vars
  BY StepRemembers DEF Remembers
<1> QED BY <1>1, ArchiveIsKept, PTL DEF Spec, NothingIsForgotten
=============================================================================
