-------------------------- MODULE SyncPacing_proofs --------------------------
(***************************************************************************)
(* The pacing of SyncPacing, proved for any directions, windows, limits    *)
(* and delays: a spent window rests, a rate limit holds every window, and  *)
(* an outage takes no sensor away.                                         *)
(***************************************************************************)
EXTENDS SyncPacing, TLAPS

-----------------------------------------------------------------------------
(* Maxima and minima of two numbers.                                       *)
LEMMA MaxOfTwo ==
    ASSUME NEW a \in Int, NEW b \in Int
    PROVE  Max({a, b}) = IF a >= b THEN a ELSE b
<1> DEFINE m == IF a >= b THEN a ELSE b
           Largest(x) == x \in {a, b} /\ \A y \in {a, b} : x >= y
<1>1. m \in {a, b} /\ \A y \in {a, b} : m >= y
  OBVIOUS
<1>2. \A x \in {a, b} : (\A y \in {a, b} : x >= y) => x = m
  OBVIOUS
<1> HIDE DEF m
<1>3. Max({a, b}) = m
  BY <1>1, <1>2 DEF Max
<1> QED BY <1>3 DEF m

LEMMA MinOfTwo ==
    ASSUME NEW a \in Int, NEW b \in Int
    PROVE  Min({a, b}) = IF a <= b THEN a ELSE b
<1> DEFINE m == IF a <= b THEN a ELSE b
<1>1. m \in {a, b} /\ \A y \in {a, b} : m <= y
  OBVIOUS
<1>2. \A x \in {a, b} : (\A y \in {a, b} : x <= y) => x = m
  OBVIOUS
<1> HIDE DEF m
<1>3. Min({a, b}) = m
  BY <1>1, <1>2 DEF Min
<1> QED BY <1>3 DEF m

-----------------------------------------------------------------------------
(* The invariant.  Both counts of a window agree and only a window that is *)
(* queued or in flight has one; what it rests, the controller holds.       *)
Statuses == [queryable : BOOLEAN, error : {"none"} \cup Faults, from : Int, to : Int]

PacingTypes ==
    /\ now \in Int
    /\ queue \subseteq Scopes /\ active \in Scopes \cup {NoScope}
    /\ attempts \in [Scopes -> Nat] /\ held \in [Scopes -> Nat] /\ barrier \in Nat
    /\ streak \in [Scopes -> Nat] /\ rest \in [Scopes -> Nat] /\ quiet \in Nat
    /\ status \in [Dirs -> Statuses]

Counted(s) ==
    /\ streak[s] = attempts[s] /\ attempts[s] < MaxAttempts
    /\ attempts[s] > 0 \/ rest[s] > 0 => s \in queue \cup {active}
    /\ rest[s] <= held[s]

PacingInv == PacingTypes /\ (\A s \in Scopes : Counted(s)) /\ quiet <= barrier

LEMMA WindowsAreSpans ==
    /\ \A s \in Scopes : s[2] \in Int \X Int /\ s[1] \in Dirs
    /\ NoScope \notin Scopes
    /\ Planned \in Int
<1>1. \A w \in Range(Windows) : w \in Int \X Int /\ w[1] < w[2]
  <2>1. \A i \in DOMAIN Windows : Windows[i] \in Int \X Int
    BY PacingAssumption
  <2> QED BY <2>1, PacingAssumption DEF Range
<1>2. NoScope \notin Scopes
  <2>1. SUFFICES ASSUME NoScope \in Scopes PROVE FALSE
    OBVIOUS
  <2>2. <<0, 0>> \in Range(Windows)
    BY <2>1 DEF NoScope, Scopes
  <2>3. <<0, 0>>[1] < <<0, 0>>[2]
    BY <1>1, <2>2
  <2> QED BY <2>3
<1>3. Planned \in Int
  BY PacingAssumption DEF Planned
<1> QED BY <1>1, <1>2, <1>3 DEF Scopes

\* Time takes as much from what a window rests as from what holds it.
LEMMA TimePasses ==
    \A m, n \in Nat : m <= n => /\ Less(m) \in Nat /\ Less(m) <= Less(n)
                                /\ (Less(m) > 0 => m > 0)
BY DEF Less

-----------------------------------------------------------------------------
(* The steps of the queue and of the controller.                           *)
LEMMA InitPacing == Init => PacingInv
<1> SUFFICES ASSUME Init PROVE PacingInv
  OBVIOUS
<1>1. PacingTypes
  BY WindowsAreSpans DEF Init, PacingTypes, Statuses, Unread
<1>2. \A s \in Scopes : Counted(s)
  BY PacingAssumption DEF Init, Counted
<1> QED BY <1>1, <1>2 DEF PacingInv, Init

LEMMA TickKeepsPace == ASSUME PacingInv, Tick PROVE PacingInv'
<1>1. /\ \A s \in Scopes : held'[s] = Less(held[s]) /\ rest'[s] = Less(rest[s])
      /\ barrier' = Less(barrier) /\ quiet' = Less(quiet)
      /\ UNCHANGED <<queue, active, attempts, status, streak>>
  BY DEF Tick
<1>2. now' \in Int
  <2>1. now + 1 \in Int /\ Horizon \in Int
    BY PacingAssumption DEF PacingInv, PacingTypes
  <2> QED BY <2>1, MinOfTwo DEF Tick
<1>3. held' \in [Scopes -> Nat] /\ rest' \in [Scopes -> Nat]
      /\ barrier' \in Nat /\ quiet' \in Nat /\ quiet' <= barrier'
  BY TimePasses DEF Tick, PacingInv, PacingTypes
<1>4. ASSUME NEW s \in Scopes PROVE Counted(s)'
  <2>1. Counted(s) /\ rest[s] \in Nat /\ held[s] \in Nat
    BY DEF PacingInv, PacingTypes
  <2>2. rest'[s] <= held'[s] /\ (rest'[s] > 0 => rest[s] > 0)
    BY <1>1, <2>1, TimePasses DEF Counted
  <2> QED BY <1>1, <2>1, <2>2 DEF Counted
<1> QED BY <1>1, <1>2, <1>3, <1>4 DEF PacingInv, PacingTypes

LEMMA TakingKeepsPace == ASSUME PacingInv, Takes PROVE PacingInv'
<1>1. PICK scope \in Available(queue) : active' = scope /\ queue' = queue \ {scope}
  BY DEF Takes
<1>2. scope \in queue /\ scope \in Scopes /\ active = NoScope
      /\ UNCHANGED <<now, controller, status, history>>
  BY <1>1 DEF Takes, Available, PacingInv, PacingTypes
<1>3. PacingTypes'
  BY <1>1, <1>2 DEF PacingInv, PacingTypes, controller, history
<1>4. ASSUME NEW s \in Scopes PROVE Counted(s)'
  <2>1. Counted(s) /\ s # active
    BY <1>2, WindowsAreSpans DEF PacingInv
  <2>2. s \in queue \cup {active} => s \in queue' \cup {active'}
    BY <1>1, <2>1
  <2> QED BY <1>2, <2>1, <2>2 DEF Counted, controller, history
<1> QED BY <1>2, <1>3, <1>4 DEF PacingInv, controller, history

\* Forgetting a window that is neither queued nor in flight.
LEMMA ForgettingTypes ==
    ASSUME PacingTypes, NEW scopes, Forgotten(scopes)
    PROVE  /\ attempts' \in [Scopes -> Nat] /\ held' \in [Scopes -> Nat]
           /\ \A s \in Scopes : s \in scopes => attempts'[s] = 0 /\ held'[s] = 0
           /\ \A s \in Scopes : s \notin scopes => /\ attempts'[s] = attempts[s]
                                                   /\ held'[s] = held[s]
BY DEF Forgotten, PacingTypes

LEMMA SettlingKeepsPace ==
    ASSUME PacingInv, active \in Scopes, active' = NoScope, Forgotten({active}),
           streak' = [streak EXCEPT ![active] = 0], rest' = [rest EXCEPT ![active] = 0],
           UNCHANGED <<now, queue, barrier, quiet>>, status' \in [Dirs -> Statuses]
    PROVE  PacingInv'
<1>1. /\ attempts' \in [Scopes -> Nat] /\ held' \in [Scopes -> Nat]
      /\ attempts'[active] = 0 /\ held'[active] = 0
      /\ \A s \in Scopes \ {active} : attempts'[s] = attempts[s] /\ held'[s] = held[s]
  BY ForgettingTypes DEF PacingInv
<1>2. PacingTypes'
  BY <1>1 DEF PacingInv, PacingTypes
<1>3. ASSUME NEW s \in Scopes PROVE Counted(s)'
  <2>1. Counted(s) /\ streak \in [Scopes -> Nat] /\ rest \in [Scopes -> Nat]
    BY DEF PacingInv, PacingTypes
  <2>2. CASE s = active
    BY <1>1, <2>1, <2>2, PacingAssumption DEF Counted
  <2>3. CASE s # active
    BY <1>1, <2>1, <2>3 DEF Counted
  <2> QED BY <2>2, <2>3
<1> QED BY <1>2, <1>3 DEF PacingInv

LEMMA RestartsKeepPace == ASSUME PacingInv, Restarts PROVE PacingInv'
<1>1. attempts' \in [Scopes -> Nat] /\ held' \in [Scopes -> Nat]
      /\ \A s \in Scopes : attempts'[s] = 0 /\ held'[s] = 0
  BY ForgettingTypes DEF PacingInv, Restarts
<1>2. PacingTypes'
  BY <1>1 DEF Restarts, PacingInv, PacingTypes, Statuses, Unread
<1>3. \A s \in Scopes : Counted(s)'
  BY <1>1, PacingAssumption DEF Restarts, Counted
<1> QED BY <1>2, <1>3 DEF PacingInv, Restarts

-----------------------------------------------------------------------------
(* A transient failure.  The count starts again as the window goes to rest *)
(* and the entry is held for as long as the provider stated.               *)
LEMMA DelaysAreShort ==
    ASSUME NEW stated \in Int, NEW delay \in Delays(stated), -1 <= stated
    PROVE  /\ delay \in 0 .. MaxBackoff
           /\ Min({stated, MaxBackoff}) \in Int
           /\ Min({stated, MaxBackoff}) <= delay
<1>1. MaxBackoff \in Nat
  BY PacingAssumption
<1>2. Min({stated, MaxBackoff}) = IF stated <= MaxBackoff THEN stated ELSE MaxBackoff
  BY <1>1, MinOfTwo
<1>3. CASE stated >= 0
  BY <1>1, <1>2, <1>3 DEF Delays
<1>4. CASE stated < 0
  BY <1>1, <1>2, <1>4 DEF Delays
<1> QED BY <1>3, <1>4

LEMMA RequeuingKeepsPace == ASSUME PacingInv, Requeues PROVE PacingInv'
<1>1. PICK class \in Faults \cap Requeued, stated \in -1 .. MaxBackoff + 1 :
        /\ \E delay \in Delays(stated) : RecordTransient(active, class, delay)
        /\ quiet' = IF class = "rate_limit"
                    THEN Max({quiet, Min({stated, MaxBackoff})}) ELSE quiet
        /\ LET whole == streak[active] + 1 = MaxAttempts
           IN  /\ streak' = [streak EXCEPT ![active] = IF whole THEN 0 ELSE @ + 1]
               /\ rest' = [rest EXCEPT ![active] = IF whole THEN Defer ELSE 0]
  BY Zenon DEF Requeues
<1>2. PICK delay \in Delays(stated) : RecordTransient(active, class, delay)
  BY <1>1
<1> DEFINE last == attempts[active] + 1 >= MaxAttempts
           wait == IF last THEN Defer ELSE delay
           stating == Min({stated, MaxBackoff})
<1>3. /\ active \in Scopes /\ active' = NoScope /\ queue' = queue \cup {active}
      /\ UNCHANGED <<now, status>> /\ Counted(active) /\ PacingTypes
      /\ MaxAttempts \in Nat \ {0, 1} /\ Defer \in Nat /\ MaxBackoff \in Nat
      /\ MaxBackoff <= Defer
  <2>1. active # NoScope /\ active' = NoScope /\ queue' = queue \cup {active}
        /\ UNCHANGED <<now, status>>
    BY DEF Requeues
  <2>2. PacingTypes /\ active \in Scopes /\ Counted(active)
    BY <2>1 DEF PacingInv, PacingTypes
  <2> QED BY <2>1, <2>2, PacingAssumption
<1>4. delay \in 0 .. MaxBackoff /\ stating \in Int /\ stating <= delay
  <2>1. stated \in Int /\ -1 <= stated
    BY <1>1, <1>3
  <2> QED BY <1>2, <2>1, DelaysAreShort
<1>5. wait \in Nat /\ stating <= wait /\ (last => wait = Defer)
  BY <1>3, <1>4
<1>6. last <=> streak[active] + 1 = MaxAttempts
  BY <1>3 DEF Counted, PacingTypes
<1>7. /\ attempts' = [attempts EXCEPT ![active] = IF last THEN 0 ELSE @ + 1]
      /\ held' = [held EXCEPT ![active] = wait]
      /\ barrier' = IF class = "rate_limit" THEN Max({barrier, wait}) ELSE barrier
  BY <1>2 DEF RecordTransient, Barrier
<1> HIDE DEF wait, stating
<1>8. barrier' \in Nat /\ quiet' \in Nat /\ quiet' <= barrier'
  <2>1. barrier \in Nat /\ quiet \in Nat /\ quiet <= barrier
    BY DEF PacingInv, PacingTypes
  <2>2. Max({barrier, wait}) = IF barrier >= wait THEN barrier ELSE wait
    BY <1>5, <2>1, MaxOfTwo
  <2>3. Max({quiet, stating}) = IF quiet >= stating THEN quiet ELSE stating
    BY <1>4, <2>1, MaxOfTwo
  <2>4. quiet' = IF class = "rate_limit" THEN Max({quiet, stating}) ELSE quiet
    BY <1>1 DEF stating
  <2> QED BY <1>4, <1>5, <1>7, <2>1, <2>2, <2>3, <2>4
<1>9. PacingTypes'
  <2>1. attempts' \in [Scopes -> Nat] /\ held' \in [Scopes -> Nat]
    BY <1>3, <1>5, <1>7 DEF PacingTypes
  <2>2. streak' \in [Scopes -> Nat] /\ rest' \in [Scopes -> Nat]
    BY <1>1, <1>3 DEF PacingTypes
  <2> QED BY <1>3, <1>8, <2>1, <2>2 DEF PacingTypes
<1>10. ASSUME NEW s \in Scopes PROVE Counted(s)'
  <2>1. Counted(s) /\ PacingTypes
    BY DEF PacingInv
  <2>2. CASE s = active
    <3>1. /\ attempts'[s] = IF last THEN 0 ELSE attempts[s] + 1
          /\ streak'[s] = IF last THEN 0 ELSE streak[s] + 1
          /\ held'[s] = wait /\ rest'[s] = IF last THEN Defer ELSE 0
      BY <1>1, <1>3, <1>6, <1>7, <2>2 DEF PacingTypes
    <3>2. attempts[s] \in Nat /\ streak[s] = attempts[s] /\ s \in queue'
      BY <1>3, <2>1, <2>2 DEF Counted, PacingTypes
    <3> QED BY <1>3, <1>5, <2>2, <3>1, <3>2 DEF Counted
  <2>3. CASE s # active
    BY <1>1, <1>3, <1>7, <2>1, <2>3 DEF Counted, PacingTypes
  <2> QED BY <2>2, <2>3
<1> QED BY <1>8, <1>9, <1>10 DEF PacingInv

-----------------------------------------------------------------------------
(* The statuses.  What a success, a failure and a poll make of them.       *)
LEMMA SuccessIsTyped ==
    ASSUME NEW s \in Statuses, NEW window \in Int \X Int
    PROVE  Succeeded(s, window) \in Statuses /\ Succeeded(s, window).queryable = TRUE
<1>1. /\ Min({s.from, window[1]}) \in Int /\ Max({s.to, window[2]}) \in Int
  BY MinOfTwo, MaxOfTwo DEF Statuses
<1> QED BY <1>1 DEF Succeeded, Statuses

LEMMA FailureIsTyped ==
    ASSUME NEW s \in Statuses, NEW class \in Faults
    PROVE  /\ Failed(s, class) \in Statuses /\ Failed(s, class).error = class
           /\ class \in Shared => Failed(s, class).queryable = s.queryable
BY DEF Failed, Statuses

\* An error of a direction's own costs it its place, an outage does not.
StatusStep(s, n) ==
    n \in Statuses /\ (s.queryable /\ ~n.queryable => n = Unread \/ n.error \notin Requeued)

LEMMA SuccessSteps ==
    ASSUME NEW s \in Statuses, NEW window \in Int \X Int
    PROVE  StatusStep(s, Succeeded(s, window))
BY SuccessIsTyped DEF StatusStep

LEMMA FailureSteps ==
    ASSUME NEW s \in Statuses, NEW read \in Statuses, s.queryable => read.queryable,
           NEW class \in Faults, class \notin Storage
    PROVE  StatusStep(s, Failed(read, class))
BY FailureIsTyped DEF StatusStep, Requeued

LEMMA PollSteps ==
    ASSUME PacingTypes, NEW outcome \in [Dirs -> {"ok"} \cup Faults], NEW d \in Dirs
    PROVE  StatusStep(status[d], Polled(outcome)[d])
<1> DEFINE tried == Tried(outcome)
           ending == {outcome[e] : e \in tried} \cap (Condemning \cup Shared)
           read == IF d \in tried /\ outcome[d] = "ok"
                   THEN Succeeded(status[d], PollWindow) ELSE status[d]
           class == CHOOSE c \in ending : TRUE
<1>1. status[d] \in Statuses /\ StatusStep(status[d], status[d])
  BY DEF PacingTypes, StatusStep
<1>2. PollWindow \in Int \X Int
  <2>1. now \in Int /\ now - Overlap \in Int
    BY PacingAssumption DEF PacingTypes
  <2> QED BY <2>1, MaxOfTwo DEF PollWindow
<1>3. /\ read \in Statuses /\ StatusStep(status[d], read)
      /\ status[d].queryable => read.queryable
  BY <1>1, <1>2, SuccessIsTyped, SuccessSteps
<1>4. tried \subseteq Dirs
  BY DEF Tried, Dirs, Range
<1>5. ending \subseteq Faults \ Storage
  BY <1>4 DEF Condemning, Shared, Storage
<1>6. Polled(outcome)[d] =
        IF ending \cap Condemning # {} THEN Failed(read, class)
        ELSE IF d \in tried
        THEN IF outcome[d] \in {"ok"} \cup Storage THEN read ELSE Failed(read, outcome[d])
        ELSE IF ending # {} THEN Failed(read, class) ELSE read
  BY DEF Polled
<1>7. ending # {} => class \in ending
  OBVIOUS
<1> HIDE DEF read, ending, tried, class
<1>8. CASE ending # {} /\ Polled(outcome)[d] = Failed(read, class)
  BY <1>1, <1>3, <1>5, <1>7, <1>8, FailureSteps
<1>9. CASE Polled(outcome)[d] = read
  BY <1>3, <1>9
<1>10. CASE outcome[d] \notin {"ok"} \cup Storage /\ Polled(outcome)[d] = Failed(read, outcome[d])
  BY <1>1, <1>3, <1>10, FailureSteps
<1> QED BY <1>6, <1>8, <1>9, <1>10

LEMMA PollKeepsPace ==
    ASSUME PacingInv, Poll
    PROVE  PacingInv' /\ \A d \in Dirs : StatusStep(status[d], status'[d])
<1>1. PICK outcome \in [Dirs -> {"ok"} \cup Faults], day \in BOOLEAN :
        LET statuses == Polled(outcome)
            queued == queue \cup Owed(statuses, Forgiven(statuses, day))
        IN  /\ status' = statuses
            /\ \/ UNCHANGED <<controller, queue>>
               \/ queue' = queued /\ Forgotten(Scopes \ Kept(queued)) /\ UNCHANGED barrier
  BY DEF Poll
<1>2. UNCHANGED <<now, active, streak, rest, quiet>> /\ PacingTypes
  BY DEF Poll, history, PacingInv
<1>3. \A d \in Dirs : StatusStep(status[d], status'[d])
  BY <1>1, <1>2, PollSteps
<1>4. status' \in [Dirs -> Statuses]
  BY <1>1, <1>3 DEF StatusStep, Polled
<1>5. CASE UNCHANGED <<controller, queue>>
  <2>1. PacingTypes'
    BY <1>2, <1>4, <1>5 DEF PacingTypes, controller
  <2>2. \A s \in Scopes : Counted(s)'
    BY <1>2, <1>5 DEF PacingInv, Counted, controller
  <2> QED BY <1>2, <1>3, <1>5, <2>1, <2>2 DEF PacingInv, controller
<1>6. ASSUME NEW queued, queued \subseteq Scopes, queue \subseteq queued, queue' = queued,
             Forgotten(Scopes \ Kept(queued)), barrier' = barrier
      PROVE  PacingInv'
  <2>1. /\ attempts' \in [Scopes -> Nat] /\ held' \in [Scopes -> Nat]
        /\ \A s \in Scopes : s \notin queued \cup {active} => attempts'[s] = 0 /\ held'[s] = 0
        /\ \A s \in queued \cup {active} : s \in Scopes =>
              attempts'[s] = attempts[s] /\ held'[s] = held[s]
    BY <1>2, <1>6, ForgettingTypes DEF Kept
  <2>2. PacingTypes'
    BY <1>2, <1>4, <1>6, <2>1 DEF PacingTypes
  <2>3. ASSUME NEW s \in Scopes PROVE Counted(s)'
    <3>1. Counted(s) /\ streak[s] \in Nat /\ rest[s] \in Nat
      BY <1>2 DEF PacingInv, PacingTypes
    <3>2. CASE s \in queued \cup {active}
      BY <1>2, <1>6, <2>1, <3>1, <3>2 DEF Counted
    <3>3. CASE s \notin queued \cup {active}
      <4>1. attempts[s] = 0 /\ rest[s] = 0
        BY <1>2, <1>6, <3>1, <3>3 DEF Counted, PacingTypes
      <4> QED BY <1>2, <2>1, <3>1, <3>3, <4>1, PacingAssumption DEF Counted
    <3> QED BY <3>2, <3>3
  <2> QED BY <1>2, <1>6, <2>2, <2>3 DEF PacingInv
<1>7. \A statuses, checkpoint : queue \cup Owed(statuses, checkpoint) \subseteq Scopes
  BY <1>2 DEF Owed, PacingTypes
<1> QED BY <1>1, <1>3, <1>5, <1>6, <1>7

\* The worker's own answers.
LEMMA AnswersKeepPace ==
    ASSUME PacingInv, Answered \/ Refused
    PROVE  PacingInv' /\ \A d \in Dirs : StatusStep(status[d], status'[d])
<1>1. /\ active \in Scopes /\ active' = NoScope /\ UNCHANGED <<now, queue, barrier, quiet>>
      /\ Forgotten({active})
      /\ streak' = [streak EXCEPT ![active] = 0] /\ rest' = [rest EXCEPT ![active] = 0]
  BY DEF Answered, Refused, Settles
<1>2. active[1] \in Dirs /\ active[2] \in Int \X Int /\ status \in [Dirs -> Statuses]
  BY <1>1, WindowsAreSpans DEF PacingInv, PacingTypes
<1>3. \/ status' = [status EXCEPT ![active[1]] = Succeeded(@, active[2])]
      \/ \E class \in Faults \ Requeued :
            status' = [status EXCEPT ![active[1]] = Failed(@, class)]
  BY DEF Answered, Refused, Settles
<1>4. \A d \in Dirs : StatusStep(status[d], status'[d])
  <2>1. \A d \in Dirs : StatusStep(status[d], status[d])
    BY <1>2 DEF StatusStep
  <2>2. CASE status' = [status EXCEPT ![active[1]] = Succeeded(@, active[2])]
    BY <1>2, <2>1, <2>2, SuccessSteps
  <2>3. ASSUME NEW class \in Faults \ Requeued,
               status' = [status EXCEPT ![active[1]] = Failed(@, class)]
        PROVE  \A d \in Dirs : StatusStep(status[d], status'[d])
    <3>1. class \in Faults /\ class \notin Storage
      BY <2>3 DEF Requeued
    <3>2. StatusStep(status[active[1]], Failed(status[active[1]], class))
      BY <1>2, <3>1, FailureSteps
    <3> QED BY <1>2, <2>1, <2>3, <3>2
  <2> QED BY <1>3, <2>2, <2>3
<1>5. status' \in [Dirs -> Statuses]
  BY <1>2, <1>3, <1>4 DEF StatusStep
<1> QED BY <1>1, <1>4, <1>5, SettlingKeepsPace

-----------------------------------------------------------------------------
(* Every step.                                                             *)
LEMMA NextKeepsPace == ASSUME PacingInv, Next PROVE PacingInv'
BY TickKeepsPace, PollKeepsPace, TakingKeepsPace, AnswersKeepPace, RequeuingKeepsPace,
   RestartsKeepPace
DEF Next

LEMMA StutteringKeepsPace == ASSUME PacingInv, UNCHANGED vars PROVE PacingInv'
BY DEF vars, controller, history, PacingInv, PacingTypes, Counted

\* Counts, rests and the barrier agree with what really happened to a window.
THEOREM PacingHolds == Spec => []PacingInv
<1>1. PacingInv /\ [Next]_vars => PacingInv'
  BY NextKeepsPace, StutteringKeepsPace
<1> QED BY <1>1, InitPacing, PTL DEF Spec

\* What is asked for was available: not held, and not behind the barrier.
LEMMA OnlyTheReadyAreAsked ==
    ASSUME PacingInv, [Next]_vars, NEW s \in Scopes, IsAsked(s)
    PROVE  rest[s] = 0 /\ quiet = 0
<1>1. s # NoScope /\ active' = s /\ active # s
  BY WindowsAreSpans DEF IsAsked
<1>2. Takes
  BY <1>1 DEF Next, vars, Tick, Poll, Answered, Refused, Requeues, Restarts
<1>3. Effective(s) = 0
  BY <1>1, <1>2 DEF Takes, Available
<1>4. /\ barrier \in Nat /\ held[s] \in Nat /\ rest[s] \in Nat /\ quiet \in Nat
      /\ rest[s] <= held[s] /\ quiet <= barrier
  BY DEF PacingInv, PacingTypes, Counted
<1>5. Max({barrier, held[s]}) = IF barrier >= held[s] THEN barrier ELSE held[s]
  BY <1>4, MaxOfTwo
<1> QED BY <1>3, <1>4, <1>5 DEF Effective

\* A window whose requests failed as often as they may rests for as long as
\* it was deferred, whatever polls, prunes and other failures come between.
THEOREM SpentWindowsRest == Spec => RetriesRest
<1>1. PacingInv /\ [Next]_vars => [\A s \in Scopes : IsAsked(s) => rest[s] = 0]_vars
  BY OnlyTheReadyAreAsked
<1> QED BY <1>1, PacingHolds, PTL DEF Spec, RetriesRest

\* While a delay the provider stated lasts, no window of any direction is
\* asked for.
THEOREM RateLimitsAreShared == Spec => RateLimitsHoldEverything
<1>1. PacingInv /\ [Next]_vars => [\A s \in Scopes : IsAsked(s) => quiet = 0]_vars
  BY OnlyTheReadyAreAsked
<1> QED BY <1>1, PacingHolds, PTL DEF Spec, RateLimitsHoldEverything

\* A direction that could be read stops being so only over an answer.
THEOREM SensorsOutliveOutages == Spec => OutagesKeepSensors
<1>1. ASSUME PacingInv, [Next]_vars, NEW d \in Dirs, status[d].queryable,
             ~status'[d].queryable
      PROVE  status'[d] = Unread \/ status'[d].error \notin Requeued
  <2>1. CASE Poll \/ Answered \/ Refused
    BY <1>1, <2>1, PollKeepsPace, AnswersKeepPace DEF StatusStep
  <2>2. CASE Restarts
    BY <2>2 DEF Restarts
  <2>3. CASE Tick \/ Takes \/ Requeues \/ UNCHANGED vars
    BY <1>1, <2>3 DEF Tick, Takes, Requeues, vars
  <2> QED BY <1>1, <2>1, <2>2, <2>3 DEF Next
<1>2. PacingInv /\ [Next]_vars =>
        [\A d \in Dirs : status[d].queryable /\ ~status'[d].queryable =>
            status'[d] = Unread \/ status'[d].error \notin Requeued]_vars
  BY <1>1
<1> QED BY <1>2, PacingHolds, PTL DEF Spec, OutagesKeepSensors
=============================================================================
