-------------------------- MODULE SchedulerProofs --------------------------
(***************************************************************************)
(* For every interval and every sequence of poll times: no due time fires  *)
(* twice or early, and only times that have passed are skipped.  The same  *)
(* when the scheduler is the clock of a SelEngine, whose bars and targets  *)
(* come between the polls.  And for every history of bars the account      *)
(* holds what the ranking at the latest event asked for.                   *)
(***************************************************************************)
EXTENDS SelSchedule, DataProofs

\* The division that stands for the loop of next_due.
LEMMA CatchUpPassesNow ==
  ASSUME NEW next \in Int, NEW now \in Int, next <= now
  PROVE  /\ CatchUp(next, now) \in Int
         /\ now < CatchUp(next, now)
         /\ CatchUp(next, now) <= now + Interval
         /\ (CatchUp(next, now) - next) % Interval = 0
<1> DEFINE late == now - next
           q == late \div Interval
           r == late % Interval
<1>1. /\ q \in Int /\ r \in Int /\ Interval \in Int
      /\ late = Interval * q + r /\ 0 <= r /\ r < Interval
  BY IntervalAssumption
<1>2. CatchUp(next, now) = next + (q + 1) * Interval
  BY DEF CatchUp
<1>3. (q + 1) * Interval = Interval * q + Interval
  BY <1>1
<1>4. CatchUp(next, now) = now - r + Interval
  BY <1>1, <1>2, <1>3
<1>5. ((q + 1) * Interval) % Interval = 0
  BY <1>1, IntervalAssumption
<1>. QED BY <1>1, <1>2, <1>4, <1>5

LEMMA MultiplesAdd ==
  ASSUME NEW a \in Int, NEW b \in Int, a % Interval = 0, b % Interval = 0
  PROVE  (a + b) % Interval = 0
<1>1. Interval \in Int /\ Interval > 0
  BY IntervalAssumption
<1>2. a = Interval * (a \div Interval) /\ b = Interval * (b \div Interval)
  BY <1>1
<1>3. a + b = Interval * ((a \div Interval) + (b \div Interval))
  BY <1>1, <1>2
<1> DEFINE k == (a \div Interval) + (b \div Interval)
<1>4. k \in Int
  BY <1>1
<1>5. a + b = k * Interval
  BY <1>1, <1>3, <1>4
<1> HIDE DEF k
<1>6. (k * Interval) % Interval = 0
  BY <1>1, <1>4
<1>. QED BY <1>5, <1>6

\* The next due time lies within one interval after the latest event.
NextIsNear ==
  fired # <<>> => /\ fired[Len(fired)].ts < next_fire[1]
                  /\ next_fire[1] <= fired[Len(fired)].ts + Interval

\* The inductive invariant.
SInv == TypeOK /\ FiresOnce /\ SkipsOnlyThePast /\ StaysOnGrid /\ NextIsNear

Events == [ts : PollTimes, fire_time : Int]

\* What an event at now for the due time due, after which next is due, must
\* satisfy to keep the invariant.
LEMMA FiringKeeps ==
  ASSUME SInv, NEW now \in PollTimes, NEW due \in Int, NEW next \in Int,
         fired' = Append(fired, [ts |-> now, fire_time |-> due]),
         next_fire' = Some(next),
         due <= now, now < next, next <= now + Interval,
         (next - due) % Interval = 0,
         IF fired = <<>> THEN due = now ELSE due = next_fire[1]
  PROVE  SInv'
<1> DEFINE event == [ts |-> now, fire_time |-> due]
           n == Len(fired)
<1>1. /\ fired \in Seq(Events) /\ n \in Nat /\ event \in Events
      /\ now \in Int /\ Interval \in Nat \ {0}
  BY PollTimesAssumption, IntervalAssumption DEF SInv, TypeOK, Events
<1>2. /\ fired' \in Seq(Events)
      /\ fired' # <<>>
      /\ Len(fired') = n + 1
      /\ \A i \in 1..n : fired'[i] = fired[i]
      /\ fired'[n + 1] = event
  BY <1>1, AppendProperties
<1>3. next_fire'[1] = next /\ next_fire' # None /\ next_fire' \in Seq(Int) /\ Len(next_fire') = 1
  BY DEF Some, None
<1>4. \A i \in 1..n : fired[i].ts \in Int /\ fired[i].fire_time \in Int
  <2> SUFFICES ASSUME NEW i \in 1..n
               PROVE  fired[i].ts \in Int /\ fired[i].fire_time \in Int
    OBVIOUS
  <2>1. fired[i] \in Events
    BY <1>1, ElementOfSeq
  <2>. QED BY <2>1, PollTimesAssumption DEF Events
<1>5. n > 0 => due = next_fire[1]
  BY <1>1
<1> HIDE DEF n
<1>6. TypeOK'
  BY <1>2, <1>3 DEF TypeOK, Events
<1>7. FiresOnce'
  <2>1. \A i \in 1..n : /\ fired[i].fire_time <= fired[i].ts
                        /\ fired[i].ts < due
                        /\ fired[i].fire_time < due
    BY <1>1, <1>4, <1>5 DEF SInv, FiresOnce, n
  <2>2. \A i \in 1..n + 1 : /\ fired'[i].fire_time <= fired'[i].ts
                            /\ fired'[i].ts < next
    BY <1>1, <1>2, <1>4, <2>1
  <2>3. ASSUME NEW i \in 1..n + 1, NEW j \in 1..n + 1, i < j
        PROVE  fired'[i].fire_time < fired'[j].fire_time
    <3>1. CASE j = n + 1
      BY <1>1, <1>2, <2>1, <2>3, <3>1
    <3>2. CASE j < n + 1
      <4>1. i \in 1..n /\ j \in 1..n
        BY <1>1, <2>3, <3>2
      <4>2. fired[i].fire_time < fired[j].fire_time
        BY <2>3, <4>1 DEF SInv, FiresOnce, n
      <4>. QED BY <1>2, <4>1, <4>2
    <3>3. j = n + 1 \/ j < n + 1
      <4>1. n \in Nat
        BY <1>1
      <4>. QED BY <4>1
    <3>. QED BY <3>1, <3>2, <3>3
  <2>. QED BY <1>2, <1>3, <2>2, <2>3 DEF FiresOnce
<1>8. SkipsOnlyThePast'
  <2> SUFFICES ASSUME NEW i \in 2..n + 1
               PROVE  /\ fired'[i].fire_time > fired'[i - 1].ts
                      /\ fired'[i].fire_time <= fired'[i - 1].ts + Interval
    BY <1>2 DEF SkipsOnlyThePast
  <2>1. CASE i = n + 1
    <3>1. n > 0 /\ i - 1 = n /\ n \in 1..n
      BY <1>1, <2>1
    <3>2. fired[n].ts < next_fire[1] /\ next_fire[1] <= fired[n].ts + Interval
      BY <1>1, <3>1 DEF SInv, NextIsNear, n
    <3>. QED BY <1>2, <1>5, <2>1, <3>1, <3>2
  <2>2. CASE i < n + 1
    <3>1. i \in 2..n /\ i \in 1..n /\ i - 1 \in 1..n
      BY <1>1, <2>2
    <3>2. /\ fired[i].fire_time > fired[i - 1].ts
          /\ fired[i].fire_time <= fired[i - 1].ts + Interval
      BY <3>1 DEF SInv, SkipsOnlyThePast, n
    <3>3. fired'[i] = fired[i] /\ fired'[i - 1] = fired[i - 1]
      BY <1>2, <3>1
    <3>. QED BY <3>2, <3>3
  <2>3. i = n + 1 \/ i < n + 1
    <3>1. n \in Nat
      BY <1>1
    <3>. QED BY <3>1
  <2>. QED BY <2>1, <2>2, <2>3
<1>9. StaysOnGrid'
  <2>1. CASE n = 0
    <3>1. due = now /\ Len(fired') = 1 /\ fired'[1] = event
      BY <1>1, <1>2, <2>1 DEF n
    <3>2. (due - now) % Interval = 0 /\ (next - now) % Interval = 0
      BY <1>1, <3>1
    <3>. QED BY <1>3, <3>1, <3>2 DEF StaysOnGrid
  <2>2. CASE n > 0
    <3> DEFINE first == fired[1].ts
    <3>1. first \in Int /\ fired'[1] = fired[1]
      BY <1>1, <1>2, <1>4, <2>2
    <3>2. /\ (due - first) % Interval = 0
          /\ \A i \in 1..n : (fired[i].fire_time - first) % Interval = 0
      BY <1>1, <1>5, <2>2 DEF SInv, StaysOnGrid, n
    <3>3. (next - first) % Interval = 0
      <4>1. (next - due) + (due - first) = next - first
        BY <3>1
      <4>2. next - due \in Int /\ due - first \in Int
        BY <3>1
      <4>. QED BY ZenonT(60), <3>2, <4>1, <4>2, MultiplesAdd
    <3> HIDE DEF first
    <3>4. \A i \in 1..n + 1 : (fired'[i].fire_time - first) % Interval = 0
      BY <1>1, <1>2, <3>2
    <3>. QED BY <1>2, <1>3, <3>1, <3>3, <3>4 DEF StaysOnGrid, first
  <2>. QED BY <1>1, <2>1, <2>2
<1>10. NextIsNear'
  BY <1>1, <1>2, <1>3 DEF NextIsNear
<1>. QED BY <1>6, <1>7, <1>8, <1>9, <1>10 DEF SInv

LEMMA InitHolds == Init => SInv
BY DEF Init, SInv, TypeOK, FiresOnce, SkipsOnlyThePast, StaysOnGrid, NextIsNear, None

LEMMA StepHolds ==
  ASSUME SInv, [Next]_vars
  PROVE  SInv'
<1>1. ASSUME NEW now \in PollTimes, FireFirst(now)
      PROVE  SInv'
  <2>1. fired = <<>> /\ now \in Int
    BY <1>1, PollTimesAssumption DEF SInv, TypeOK, FireFirst
  <2>2. /\ now + Interval \in Int /\ now < now + Interval
        /\ ((now + Interval) - now) % Interval = 0
    BY <2>1, IntervalAssumption
  <2>. QED BY <1>1, <2>1, <2>2, FiringKeeps DEF FireFirst
<1>2. ASSUME NEW now \in PollTimes, FireDue(now)
      PROVE  SInv'
  <2> DEFINE due == next_fire[1]
             next == CatchUp(due, now)
  <2>1. fired # <<>> /\ now \in Int /\ due \in Int /\ due <= now
    BY <1>2, PollTimesAssumption, ElementOfSeq DEF SInv, TypeOK, FireDue, IsSome, None
  <2>2. /\ next \in Int /\ now < next /\ next <= now + Interval
        /\ (next - due) % Interval = 0
    BY <2>1, CatchUpPassesNow
  <2> HIDE DEF next
  <2>3. /\ fired' = Append(fired, [ts |-> now, fire_time |-> due])
        /\ next_fire' = Some(next)
    BY <1>2 DEF FireDue, next
  <2>. QED BY <2>1, <2>2, <2>3, FiringKeeps
<1>3. CASE UNCHANGED vars
  BY <1>3 DEF vars, SInv, TypeOK, FiresOnce, SkipsOnlyThePast, StaysOnGrid, NextIsNear
<1>. QED BY <1>1, <1>2, <1>3 DEF Next, NextDue, NotDue

THEOREM Invariance == Spec => []SInv
<1>. QED BY InitHolds, StepHolds, PTL DEF Spec

\* No due time fires twice or early, also when the clock goes back.
THEOREM FiringCorrectness == Spec => []FiresOnce
<1>1. SInv => FiresOnce
  BY DEF SInv
<1>. QED BY <1>1, Invariance, PTL

\* Due times never drift off the grid that the first poll set.
THEOREM GridCorrectness == Spec => []StaysOnGrid
<1>1. SInv => StaysOnGrid
  BY DEF SInv
<1>. QED BY <1>1, Invariance, PTL

\* A late poll skips only due times that have passed.
THEOREM SkippingCorrectness == Spec => []SkipsOnlyThePast
<1>1. SInv => SkipsOnlyThePast
  BY DEF SInv
<1>. QED BY <1>1, Invariance, PTL
-----------------------------------------------------------------------------
\* As the clock of a SelEngine the scheduler behaves as it does alone: only a
\* poll that comes between two events of the engine changes it.
LEMMA RunStep == [RunNext]_runVars => [Next]_vars
<1>1. ASSUME NEW now \in PollTimes, Poll(now)
      PROVE  Next
  BY <1>1 DEF Poll, Next
<1>. QED BY <1>1 DEF RunNext, Arrive, runVars

THEOREM RunCorrectness == RunSpec => Spec
<1>1. RunInit => Init
  BY DEF RunInit
<1>. QED BY <1>1, RunStep, PTL DEF RunSpec, Spec
-----------------------------------------------------------------------------
\* What the cache holds of a symbol: its last closes.
IsWindow(q, closes) ==
  /\ q \in Seq(Elements(q))
  /\ Len(q) = IF Len(closes) > MaxBars THEN MaxBars ELSE Len(closes)
  /\ \A k \in 1..Len(q) : q[k].close = closes[Len(closes) - Len(q) + k]

\* The tail of a sequence.
LEMMA LastBars ==
  ASSUME NEW S, NEW q \in Seq(S), NEW n \in Nat, n > 0
  PROVE  /\ LastN(q, n) \in Seq(S)
         /\ Len(LastN(q, n)) = IF Len(q) > n THEN n ELSE Len(q)
         /\ \A k \in 1..Len(LastN(q, n)) :
              LastN(q, n)[k] = q[Len(q) - Len(LastN(q, n)) + k]
<1> DEFINE len == Len(q)
           from == IF len > n THEN len - n + 1 ELSE 1
           t == SubSeq(q, from, len)
<1>1. len \in Nat /\ \A k \in 1..len : q[k] \in S
  BY LenProperties, ElementOfSeq
<1>2. /\ from \in 1..(len + 1) /\ len - from + 1 = IF len > n THEN n ELSE len
      /\ \A k \in from..len : k \in 1..len
  BY <1>1
<1> HIDE DEF len, from
<1>3. \A k \in from..len : q[k] \in S
  BY <1>1, <1>2
<1>4. /\ t \in Seq(S)
      /\ Len(t) = IF from <= len THEN len - from + 1 ELSE 0
      /\ \A k \in 1..len - from + 1 : t[k] = q[from + k - 1]
  BY <1>1, <1>2, <1>3, SubSeqProperties
<1>5. Len(t) = len - from + 1 /\ \A k \in 1..Len(t) : from + k - 1 = len - Len(t) + k
  BY <1>1, <1>2, <1>4
<1>6. \A k \in 1..Len(t) : t[k] = q[len - Len(t) + k]
  BY <1>4, <1>5
<1>7. LastN(q, n) = t
  BY DEF LastN, from, len
<1> HIDE DEF t
<1>. QED BY <1>2, <1>4, <1>5, <1>6, <1>7 DEF len

\* A bar moves the window by one.
LEMMA WindowMoves ==
  ASSUME NEW old \in Seq(Closes), NEW q, IsWindow(q, old), NEW kline, kline.close \in Closes
  PROVE  IsWindow(LastN(Append(q, kline), MaxBars), Append(old, kline.close))
<1> DEFINE new == Append(old, kline.close)
           length == Len(old)
           S == Elements(q) \cup {kline}
           p == Append(q, kline)
           w == LastN(p, MaxBars)
<1>1. MaxBars \in Nat /\ MaxBars > 0
  BY LookbackAssumption, MaxBarsAssumption
<1>2. /\ length \in Nat /\ Len(new) = length + 1 /\ new[length + 1] = kline.close
      /\ \A k \in 1..length : new[k] = old[k]
  BY LenProperties, AppendProperties
<1>3. /\ q \in Seq(Elements(q)) /\ Len(q) \in Nat
      /\ Len(q) = IF length > MaxBars THEN MaxBars ELSE length
      /\ \A k \in 1..Len(q) : q[k].close = old[length - Len(q) + k]
  BY LenProperties DEF IsWindow
<1>4. /\ p \in Seq(S) /\ Len(p) = Len(q) + 1
      /\ \A k \in 1..Len(q) : p[k] = q[k]
      /\ p[Len(q) + 1] = kline
  <2>1. q \in Seq(S) /\ kline \in S
    BY <1>3, SeqMonotonic
  <2> HIDE DEF S
  <2>. QED BY <2>1, AppendProperties
<1> HIDE DEF S, p, new
<1>5. /\ w \in Seq(S) /\ Len(w) \in Nat
      /\ Len(w) = IF Len(p) > MaxBars THEN MaxBars ELSE Len(p)
      /\ \A k \in 1..Len(w) : w[k] = p[Len(p) - Len(w) + k]
  BY <1>1, <1>4, LastBars, LenProperties
<1> HIDE DEF w
<1>6. Len(w) = IF Len(new) > MaxBars THEN MaxBars ELSE Len(new)
  BY <1>1, <1>2, <1>3, <1>4, <1>5
<1>7. /\ Len(p) = Len(q) + 1 /\ Len(w) <= Len(p)
      /\ Len(new) - Len(w) = length - Len(q) + Len(p) - Len(w)
      /\ Len(q) \in Nat /\ Len(w) \in Nat /\ length \in Nat
  <2>1. Len(q) \in Nat /\ Len(w) \in Nat /\ length \in Nat /\ Len(p) = Len(q) + 1
    BY <1>2, <1>3, <1>4, <1>5
  <2>2. Len(w) = IF Len(p) > MaxBars THEN MaxBars ELSE Len(p)
    BY <1>5
  <2>3. Len(w) <= Len(p)
    BY ONLY <1>1, <2>1, <2>2
  <2>4. Len(new) = length + 1
    BY <1>2
  <2>5. Len(new) - Len(w) = length - Len(q) + Len(p) - Len(w)
    BY ONLY <2>1, <2>4
  <2>. QED BY <2>1, <2>3, <2>5
<1>8. ASSUME NEW k \in 1..Len(w)
      PROVE  w[k].close = new[Len(new) - Len(w) + k]
  <2> DEFINE m == Len(p) - Len(w) + k
  <2>1. m \in 1..Len(q) + 1 /\ w[k] = p[m]
    <3>1. m \in 1..Len(q) + 1
      BY ONLY <1>7, k \in 1..Len(w)
    <3>. QED BY <1>5, <3>1
  <2>2. CASE m = Len(q) + 1
    <3>1. Len(new) - Len(w) + k = length + 1
      BY <1>2, <1>3, <1>4, <1>5, <2>2
    <3>. QED BY <1>2, <1>4, <2>1, <2>2, <3>1
  <2>3. CASE m \in 1..Len(q)
    <3>1. Len(new) - Len(w) + k = length - Len(q) + m
      BY <1>7
    <3>2. length - Len(q) + m \in 1..length
      <4>1. Len(q) <= length
        BY <1>1, <1>3
      <4>. QED BY ONLY <1>7, <2>3, <4>1
    <3> HIDE DEF m
    <3>3. p[m] = q[m] /\ q[m].close = old[length - Len(q) + m]
      BY <1>3, <1>4, <2>3
    <3>4. new[length - Len(q) + m] = old[length - Len(q) + m]
      BY <1>2, <3>2
    <3>. QED BY <2>1, <3>1, <3>3, <3>4
  <2> HIDE DEF m
  <2>. QED BY <1>3, <2>1, <2>2, <2>3
<1>9. w \in Seq(Elements(w))
  BY <1>5, ElementsOfSeq
<1>. QED BY <1>6, <1>8, <1>9 DEF IsWindow, w, p, new

\* What the strategy reads: the close of the lookback and the last one.
LEMMA WindowIs ==
  ASSUME NEW s \in Symbols, NEW closes \in Seq(Closes),
         IsWindow(Cached(bars, <<s, BarInterval>>), closes)
  PROVE  /\ Len(Window(s)) = LookbackBars + 1 <=> Len(closes) > LookbackBars
         /\ Len(closes) > LookbackBars =>
              /\ First(s) = Past(closes) /\ Latest(s) = Last(closes)
              /\ Past(closes) \in Closes /\ Last(closes) \in Closes
<1> DEFINE q == Cached(bars, <<s, BarInterval>>)
           l == LookbackBars + 1
           w == LastN(q, l)
           n == Len(closes)
<1>1. l \in Nat /\ l > 1 /\ MaxBars \in Nat /\ MaxBars >= l /\ n \in Nat
      /\ l = LookbackBars + 1 /\ LookbackBars \in Nat
  BY LookbackAssumption, MaxBarsAssumption, LenProperties
<1>2. /\ q \in Seq(Elements(q)) /\ Len(q) \in Nat
      /\ Len(q) = IF n > MaxBars THEN MaxBars ELSE n
      /\ \A k \in 1..Len(q) : q[k].close = closes[n - Len(q) + k]
  BY LenProperties DEF IsWindow
<1> DEFINE S == Elements(q)
<1> HIDE DEF q, l, S
<1>3. /\ w \in Seq(S) /\ Len(w) \in Nat
      /\ Len(w) = IF Len(q) > l THEN l ELSE Len(q)
      /\ \A k \in 1..Len(w) : w[k] = q[Len(q) - Len(w) + k]
  <2>1. q \in Seq(S) /\ l \in Nat /\ l > 0
    BY <1>1, <1>2 DEF S
  <2>. QED BY <2>1, LastBars, LenProperties
<1>4. Window(s) = w
  BY DEF Window, RecentBars, q, l
<1> HIDE DEF w, n
<1>5. Len(w) = l <=> n > LookbackBars
  <2> DEFINE x == Len(q)
             y == Len(w)
  <2>1. /\ x = IF n > MaxBars THEN MaxBars ELSE n
        /\ y = IF x > l THEN l ELSE x
    BY <1>2, <1>3
  <2>2. /\ l \in Nat /\ MaxBars \in Nat /\ MaxBars >= l /\ n \in Nat
        /\ l = LookbackBars + 1 /\ LookbackBars \in Nat
    BY <1>1
  <2> HIDE DEF x, y
  <2>3. y = l <=> n > LookbackBars
    BY ONLY <2>1, <2>2
  <2>. QED BY <2>3 DEF y
<1>6. ASSUME n > LookbackBars
      PROVE  /\ First(s) = Past(closes) /\ Latest(s) = Last(closes)
             /\ Past(closes) \in Closes /\ Last(closes) \in Closes
  <2>1. /\ Len(w) = l /\ Len(q) >= l /\ Len(q) <= n
        /\ w # <<>>
    BY <1>1, <1>2, <1>3, <1>6
  <2>2. Head(w) = w[1] /\ Last(w) = w[l]
    <3>1. Head(w) = w[1]
      BY <1>3, <2>1
    <3>. QED BY <2>1, <3>1 DEF Last
  <2>3. /\ 1 \in 1..Len(w) /\ l \in 1..Len(w)
        /\ Len(q) - l + 1 \in 1..Len(q) /\ Len(q) - l + l = Len(q) /\ Len(q) \in 1..Len(q)
        /\ n - Len(q) + (Len(q) - l + 1) = n - LookbackBars /\ n - Len(q) + Len(q) = n
        /\ n - LookbackBars \in 1..n /\ n \in 1..n
    BY <1>1, <1>2, <2>1
  <2>4. w[1] = q[Len(q) - l + 1] /\ w[l] = q[Len(q)]
    BY <1>3, <2>1, <2>3
  <2>5. w[1].close = closes[n - LookbackBars] /\ w[l].close = closes[n]
    BY <1>2, <2>3, <2>4
  <2>6. Past(closes) = closes[n - LookbackBars] /\ Last(closes) = closes[n]
    BY DEF Past, Last, n
  <2>7. closes[n - LookbackBars] \in Closes /\ closes[n] \in Closes
    BY <2>3, ElementOfSeq DEF n
  <2>. QED BY <1>4, <2>2, <2>5, <2>6, <2>7 DEF First, Latest
<1>. QED BY <1>4, <1>5, <1>6 DEF l, n

\* What has been reported once the targets at the places in T are filled.
Reported(map, q, T) ==
  [s \in DOMAIN map \cup {q[n].symbol : n \in T} |->
     IF \E n \in T : q[n].symbol = s
     THEN q[CHOOSE n \in T : q[n].symbol = s].target_qty
     ELSE map[s]]

\* No two of the targets at the places in T are for one symbol.
Distinct(q, T) == \A m, n \in T : q[m].symbol = q[n].symbol => m = n

\* One target more, of another symbol.
LEMMA ReportedNext ==
  ASSUME NEW map, NEW q, NEW T, NEW x, x \in T, Distinct(q, T)
  PROVE  Reported(map, q, T) = SetPosition(Reported(map, q, T \ {x}), q[x])
<1> DEFINE R == T \ {x}
           sym == q[x].symbol
           before == Reported(map, q, R)
           D == DOMAIN map \cup {q[n].symbol : n \in T}
           value(s) == IF \E n \in T : q[n].symbol = s
                       THEN q[CHOOSE n \in T : q[n].symbol = s].target_qty ELSE map[s]
           next(s) == IF s = sym THEN q[x].target_qty ELSE before[s]
<1>1. DOMAIN before = DOMAIN map \cup {q[n].symbol : n \in R}
  BY DEF Reported
<1>2. DOMAIN before \cup {sym} = D
  <2>1. T = R \cup {x}
    OBVIOUS
  <2>. QED BY <1>1, <2>1
<1>3. ASSUME NEW s \in D PROVE value(s) = next(s)
  <2>1. CASE s = sym
    <3>1. (CHOOSE n \in T : q[n].symbol = s) = x
      BY <2>1 DEF Distinct
    <3>. QED BY <2>1, <3>1
  <2>2. CASE s # sym
    <3>1. \A n : n \in T /\ q[n].symbol = s <=> n \in R /\ q[n].symbol = s
      BY <2>2
    <3>2. (CHOOSE n \in T : q[n].symbol = s) = (CHOOSE n \in R : q[n].symbol = s)
      BY <3>1
    <3>3. s \in DOMAIN before
      BY <1>2, <2>2
    <3>4. before[s] = IF \E n \in R : q[n].symbol = s
                      THEN q[CHOOSE n \in R : q[n].symbol = s].target_qty ELSE map[s]
      BY <1>1, <3>3 DEF Reported
    <3>5. (\E n \in T : q[n].symbol = s) <=> \E n \in R : q[n].symbol = s
      BY <3>1
    <3>. QED BY <2>2, <3>2, <3>4, <3>5
  <2>. QED BY <2>1, <2>2
<1>4. Reported(map, q, T) = [s \in D |-> value(s)]
  BY DEF Reported
<1>5. SetPosition(before, q[x]) = [s \in DOMAIN before \cup {sym} |-> next(s)]
  BY DEF SetPosition, Insert
<1> HIDE DEF D, value, next, before, sym
<1>6. SetPosition(before, q[x]) = [s \in D |-> next(s)]
  BY <1>2, <1>5
<1>7. [s \in D |-> value(s)] = [s \in D |-> next(s)]
  BY <1>3
<1>. QED BY <1>4, <1>6, <1>7 DEF before

\* A map is a function.
IsMap(map) == map = [s \in DOMAIN map |-> map[s]]

\* The positions after every target of a queue is filled, one for a symbol.
LEMMA SettleIs ==
  ASSUME NEW map, IsMap(map), NEW q, NEW c \in Nat, q \in Seq(Elements(q)), Len(q) = c,
         Distinct(q, 1..c)
  PROVE  FoldLeft(SetPosition, map, q) = Reported(map, q, 1..c)
<1> DEFINE D == 1..c
           iterates(h) ==
             h = [T \in SUBSET D |->
                    IF T = {} THEN map ELSE SetPosition(h[T \ {Max(T)}], q[Max(T)])]
           iter == CHOOSE h : iterates(h)
           g == [T \in SUBSET D |-> Reported(map, q, T)]
<1>1. FoldLeft(SetPosition, map, q) = iter[D]
  <2>1. DOMAIN q = D
    BY LenProperties
  <2>. QED BY <2>1 DEF FoldLeft, MapThenFoldSet
<1>2. Reported(map, q, {}) = map
  BY DEF Reported, IsMap
<1>3. ASSUME NEW T \in SUBSET D, T # {}
      PROVE  Reported(map, q, T) = SetPosition(Reported(map, q, T \ {Max(T)}), q[Max(T)])
  <2> DEFINE x == Max(T)
  <2>1. x \in T
    <3>1. T \subseteq Int /\ T # {} /\ c \in Int /\ \A y \in T : y <= c
      BY <1>3
    <3>. QED BY ONLY <3>1, MaxOfBounded
  <2>2. Distinct(q, T)
    BY DEF Distinct
  <2> HIDE DEF x
  <2>3. Reported(map, q, T) = SetPosition(Reported(map, q, T \ {x}), q[x])
    BY ONLY <2>1, <2>2, ReportedNext
  <2>. QED BY <2>3 DEF x
<1>4. iterates(g)
  <2>1. ASSUME NEW T \in SUBSET D
        PROVE  Reported(map, q, T)
                 = IF T = {} THEN map ELSE SetPosition(g[T \ {Max(T)}], q[Max(T)])
    BY <1>2, <1>3
  <2>. QED BY <2>1
<1>5. iterates(iter)
  <2> HIDE DEF iterates, g
  <2>. QED BY <1>4
<1>6. \A T \in SUBSET D :
        iter[T] = IF T = {} THEN map ELSE SetPosition(iter[T \ {Max(T)}], q[Max(T)])
  <2> HIDE DEF iter
  <2>. QED BY <1>5
<1> HIDE DEF iter
<1>7. ASSUME NEW k \in 1..c
      PROVE  iter[1..k] = SetPosition(iter[1..(k - 1)], q[k])
  <2>0. /\ 1..k \in SUBSET (1..c) /\ k \in 1..k /\ (1..k) \ {k} = 1..(k - 1)
        /\ 1..k \subseteq Int /\ \A y \in 1..k : y <= k
    OBVIOUS
  <2> DEFINE T == 1..k
             R == 1..(k - 1)
  <2>1. /\ T \in SUBSET D /\ k \in T /\ T \ {k} = R /\ T # {}
        /\ T \subseteq Int /\ \A y \in T : y <= k
    BY <2>0
  <2> HIDE DEF T, R, D
  <2>2. Max(T) = k
    BY <2>1, MaxIs
  <2>. QED BY <1>6, <2>1, <2>2 DEF T, R
<1>8. ASSUME NEW k \in 1..c
      PROVE  Reported(map, q, 1..k) = SetPosition(Reported(map, q, 1..(k - 1)), q[k])
  <2>1. k \in 1..k /\ (1..k) \ {k} = 1..(k - 1)
        /\ Distinct(q, 1..k)
    BY DEF Distinct
  <2>. QED BY <2>1, ReportedNext
<1> DEFINE S == {k \in Nat : k <= c => iter[1..k] = Reported(map, q, 1..k)}
<1>9. 0 \in S
  <2>1. 1..0 = {} /\ {} \in SUBSET D
    OBVIOUS
  <2>2. iter[{}] = map
    BY <1>6, <2>1
  <2>. QED BY <1>2, <2>1, <2>2
<1>10. ASSUME NEW k \in Nat, k \in S PROVE k + 1 \in S
  <2> SUFFICES ASSUME k + 1 <= c PROVE iter[1..(k + 1)] = Reported(map, q, 1..(k + 1))
    OBVIOUS
  <2>1. k + 1 \in 1..c /\ (k + 1) - 1 = k
    OBVIOUS
  <2>2. iter[1..k] = Reported(map, q, 1..k)
    BY <1>10
  <2>3. /\ iter[1..(k + 1)] = SetPosition(iter[1..k], q[k + 1])
        /\ Reported(map, q, 1..(k + 1)) = SetPosition(Reported(map, q, 1..k), q[k + 1])
    <3> DEFINE l == k + 1
    <3>1. l \in 1..c /\ l - 1 = k
      BY <2>1
    <3> HIDE DEF l
    <3>2. /\ iter[1..l] = SetPosition(iter[1..(l - 1)], q[l])
          /\ Reported(map, q, 1..l) = SetPosition(Reported(map, q, 1..(l - 1)), q[l])
      BY <1>7, <1>8, <3>1
    <3>. QED BY <3>1, <3>2 DEF l
  <2>. QED BY <2>2, <2>3
<1>11. c \in S
  <2> HIDE DEF S
  <2>. QED BY <1>9, <1>10, InductNat
<1>. QED BY <1>1, <1>11

\* Which holds for every symbol what its target asks for, or what it held.
LEMMA HeldAfter ==
  ASSUME NEW map, IsMap(map), NEW q, NEW c \in Nat, q \in Seq(Elements(q)), Len(q) = c,
         Distinct(q, 1..c)
  PROVE  LET after == FoldLeft(SetPosition, map, q)
         IN  /\ IsMap(after)
             /\ \A n \in 1..c : Held(after, q[n].symbol) = q[n].target_qty
             /\ \A s : (\A n \in 1..c : q[n].symbol # s) => Held(after, s) = Held(map, s)
<1> DEFINE D == 1..c
           after == Reported(map, q, D)
<1>1. FoldLeft(SetPosition, map, q) = after
  BY SettleIs
<1>2. IsMap(after) /\ DOMAIN after = DOMAIN map \cup {q[n].symbol : n \in D}
  BY DEF Reported, IsMap
<1>3. ASSUME NEW n \in D PROVE Held(after, q[n].symbol) = q[n].target_qty
  <2> DEFINE s == q[n].symbol
  <2>1. (CHOOSE m \in D : q[m].symbol = s) = n
    BY DEF Distinct
  <2>2. s \in DOMAIN after
    BY <1>2
  <2>3. after[s] = q[n].target_qty
    BY <2>1 DEF Reported
  <2> HIDE DEF after, s
  <2>. QED BY <2>2, <2>3 DEF Held, Get, UnwrapOr, IsSome, Some, None, s
<1>4. ASSUME NEW s, \A n \in D : q[n].symbol # s
      PROVE  Held(after, s) = Held(map, s)
  <2>1. s \in DOMAIN after <=> s \in DOMAIN map
    BY <1>2, <1>4
  <2>2. s \in DOMAIN map => after[s] = map[s]
    BY <1>4 DEF Reported
  <2> HIDE DEF after
  <2>. QED BY <2>1, <2>2 DEF Held, Get
<1> HIDE DEF after
<1>. QED BY <1>1, <1>2, <1>3, <1>4
-----------------------------------------------------------------------------
\* Scores order the scored places, which are finitely many.
LEMMA ScoresOrder ==
  ASSUME \A n \in Scored : IsDecimal(Score(SymbolList[n]))
  PROVE  IsOrder([n \in Scored |-> Ahead(n)], Scored) /\ IsFiniteSet(Scored)
<1> DEFINE D == Scored
           sc == [n \in D |-> Score(SymbolList[n])]
           before == [n \in D |-> Ahead(n)]
<1>1. D \subseteq 1..Len(SymbolList) /\ Len(SymbolList) \in Nat
  BY LookbackAssumption, LenProperties DEF Scored
<1>2. IsFiniteSet(D) /\ D \subseteq Int
  <2>1. IsFiniteSet(1..Len(SymbolList)) /\ 1..Len(SymbolList) \subseteq Int
    BY <1>1, FS_Interval
  <2>. QED BY <1>1, <2>1, FS_Subset
<1>3. \A n \in D : IsDecimal(sc[n])
  OBVIOUS
<1>4. \A n \in D : \A m : m \in before[n] <=>
        m \in D /\ (~AtMost(sc[m], sc[n]) \/ (sc[m] = sc[n] /\ m < n))
  BY DEF Ahead
<1>5. before \in [D -> SUBSET D]
  BY DEF Ahead
<1> HIDE DEF sc, before, D
<1>6. \A n \in D : n \notin before[n]
  <2> SUFFICES ASSUME NEW n \in D PROVE n \notin before[n]
    OBVIOUS
  <2>1. AtMost(sc[n], sc[n])
    BY <1>3, AtMostOrders
  <2>2. ~(n < n)
    BY <1>2
  <2>. QED BY <1>4, <2>1, <2>2
<1>7. ASSUME NEW n \in D, NEW m \in before[n] PROVE before[m] \subseteq before[n]
  <2> SUFFICES ASSUME NEW l \in before[m] PROVE l \in before[n]
    OBVIOUS
  <2>1. m \in D /\ (~AtMost(sc[m], sc[n]) \/ (sc[m] = sc[n] /\ m < n))
    BY <1>4, <1>7
  <2>2. l \in D /\ (~AtMost(sc[l], sc[m]) \/ (sc[l] = sc[m] /\ l < m))
    BY <1>4, <2>1
  <2> DEFINE a == sc[l]
             b == sc[m]
             c == sc[n]
  <2>3. IsDecimal(a) /\ IsDecimal(b) /\ IsDecimal(c)
    BY <1>3, <2>1, <2>2
  <2>4. l < m /\ m < n => l < n
    <3>1. l \in Int /\ m \in Int /\ n \in Int
      BY <1>2, <2>1, <2>2
    <3>. QED BY ONLY <3>1
  <2>5. ~AtMost(a, b) => AtMost(b, a)
    BY <2>3, AtMostTotal
  <2>6. ~AtMost(b, c) => AtMost(c, b)
    BY <2>3, AtMostTotal
  <2>7. AtMost(a, c) /\ AtMost(c, b) => AtMost(a, b)
    BY <2>3, AtMostOrders
  <2>8. AtMost(b, a) /\ AtMost(a, c) => AtMost(b, c)
    BY <2>3, AtMostOrders
  <2>9. ~AtMost(a, c) \/ (a = c /\ l < n)
    <3> HIDE DEF a, b, c
    <3>1. (~AtMost(a, b) \/ (a = b /\ l < m)) /\ (~AtMost(b, c) \/ (b = c /\ m < n))
      BY <2>1, <2>2 DEF a, b, c
    <3>. QED BY <2>4, <2>5, <2>6, <2>7, <2>8, <3>1, Zenon
  <2>. QED BY <1>4, <2>2, <2>9
<1>8. ASSUME NEW m \in D, NEW n \in D PROVE m = n \/ m \in before[n] \/ n \in before[m]
  <2>1. m \in Int /\ n \in Int
    BY <1>2
  <2>2. m = n \/ m < n \/ n < m
    BY <2>1
  <2>3. AtMost(sc[m], sc[n]) /\ AtMost(sc[n], sc[m]) => sc[m] = sc[n]
    BY <1>3, AtMostTotal
  <2>. QED BY <1>4, <2>2, <2>3
<1>9. IsOrder(before, D)
  BY <1>5, <1>6, <1>7, <1>8 DEF IsOrder
<1>. QED BY <1>2, <1>9 DEF before, D

\* The ranking names every scored symbol once, better scores first.
RanksAs(place) ==
  LET c == Cardinality(Scored)
  IN  /\ c \in Nat /\ DOMAIN Ranked = 1..c /\ Len(Ranked) = c
      /\ place \in Bijection(1..c, Scored)
      /\ \A k \in 1..c : Ranked[k] = SymbolList[place[k]]
      /\ \A k, l \in 1..c :
           l < k => AtMost(Score(SymbolList[place[k]]), Score(SymbolList[place[l]]))

\* Such places exist, because the scores order the scored places.
LEMMA RankedIs ==
  ASSUME \A n \in Scored : IsDecimal(Score(SymbolList[n]))
  PROVE  \E place : RanksAs(place)
<1> DEFINE D == Scored
           before == [n \in D |-> Ahead(n)]
           c == Cardinality(D)
           place == [k \in 1..c |-> CHOOSE n \in D : Cardinality(before[n]) = k - 1]
<1>1. IsOrder(before, D) /\ IsFiniteSet(D)
  BY ScoresOrder
<1>2. c \in Nat
  BY <1>1, FS_CardinalityType
<1>3. /\ place \in Bijection(1..c, D)
      /\ \A k, l \in 1..c : l < k => place[l] \in before[place[k]]
  <2> HIDE DEF before, D
  <2>. QED BY <1>1, PlacesByRank
<1>4. \A k \in 1..c : place[k] = CHOOSE n \in D : Cardinality(Ahead(n)) = k - 1
  <2> SUFFICES ASSUME NEW k \in 1..c
               PROVE  place[k] = CHOOSE n \in D : Cardinality(Ahead(n)) = k - 1
    OBVIOUS
  <2>1. \A n : n \in D /\ Cardinality(before[n]) = k - 1 <=> n \in D /\ Cardinality(Ahead(n)) = k - 1
    OBVIOUS
  <2>2. (CHOOSE n \in D : Cardinality(before[n]) = k - 1)
          = CHOOSE n \in D : Cardinality(Ahead(n)) = k - 1
    BY <2>1
  <2>. QED BY <2>2
<1>5. Ranked = [k \in 1..c |-> SymbolList[CHOOSE n \in D : Cardinality(Ahead(n)) = k - 1]]
  BY DEF Ranked
<1>6. ASSUME NEW k \in 1..c, NEW l \in 1..c, l < k
      PROVE  AtMost(Score(SymbolList[place[k]]), Score(SymbolList[place[l]]))
  <2> DEFINE m == place[l]
             n == place[k]
  <2>1. m \in before[n] /\ m \in D /\ n \in D
    <3> DEFINE K == 1..c
    <3>1. k \in K /\ l \in K /\ place \in Bijection(K, D)
      BY <1>3
    <3>2. place[l] \in before[place[k]]
      BY <1>3, <1>6
    <3> HIDE DEF place, before, K
    <3>3. \A x \in K : place[x] \in D
      BY <3>1, Fun_BijectionProperties
    <3>. QED BY <3>1, <3>2, <3>3
  <2> HIDE DEF m, n
  <2>2. \/ ~AtMost(Score(SymbolList[m]), Score(SymbolList[n]))
        \/ Score(SymbolList[m]) = Score(SymbolList[n])
    BY <2>1 DEF Ahead
  <2>3. IsDecimal(Score(SymbolList[m])) /\ IsDecimal(Score(SymbolList[n]))
    BY <2>1
  <2>4. AtMost(Score(SymbolList[n]), Score(SymbolList[m]))
    BY <2>2, <2>3, AtMostTotal, AtMostOrders
  <2>. QED BY <2>4 DEF m, n
<1>7. DOMAIN Ranked = 1..c /\ Len(Ranked) = c /\ \A k \in 1..c : Ranked[k] = SymbolList[place[k]]
  <2> HIDE DEF place, c
  <2>1. DOMAIN Ranked = 1..c /\ Len(Ranked) = c
    BY <1>2, <1>5
  <2>. QED BY <1>4, <1>5, <2>1
<1> HIDE DEF place
<1>8. RanksAs(place)
  BY <1>2, <1>3, <1>6, <1>7 DEF RanksAs
<1>. QED BY <1>8

\* A leg is worth its notional.
LEMMA LegIs ==
  ASSUME NEW p, IsDecimal(p), p[1] > 0
  PROVE  LET leg == NotionalPerLeg // p
         IN  /\ IsDecimal(leg) /\ Sign(leg) = 1 /\ Sign(Negate[leg]) = -1 /\ Sign(Zero) = 0
             /\ leg ** p = NotionalPerLeg ** Dec(1)
             /\ Negate[leg] ** p = NotionalPerLeg ** Dec(-1)
             /\ Zero ** p = NotionalPerLeg ** Dec(0)
<1> DEFINE N == NotionalPerLeg
           leg == N // p
           m == Dec(-1)
<1>1. IsDecimal(N) /\ N[1] > 0
  BY PricesAssumption
<1>2. IsDecimal(leg) /\ leg ** p = N /\ IsDecimal(m) /\ IsDecimal(Zero)
  BY <1>1, DecimalClosed, DecimalTimes, FractionOfInt DEF Zero
<1>3. leg[1] > 0
  <2>1. PICK n1 \in Int, n2 \in Int : n1 > 0 /\ n2 > 0 /\ N[1] = n1 /\ N[2] = n2
    BY <1>1, DecimalParts
  <2>2. PICK p1 \in Int, p2 \in Int : p1 > 0 /\ p2 > 0 /\ p[1] = p1 /\ p[2] = p2
    BY DecimalParts
  <2>3. leg = Fraction(n1 * p2, n2 * p1)
    BY <1>1, <2>1, <2>2 DEF //, Over, IsDecimal
  <2>4. n1 * p2 > 0 /\ n2 * p1 > 0 /\ n1 * p2 \in Int /\ n2 * p1 \in Int
    BY <2>1, <2>2
  <2>5. leg[1] \in Int /\ leg[1] >= 0
    BY <2>3, <2>4, FractionSign
  <2>6. leg # Zero
    <3>1. Zero ** p = Zero
      BY <1>2, DecimalTimes
    <3>2. N # Zero
      BY <1>1, ZeroIs
    <3>. QED BY <1>2, <3>1, <3>2
  <2>7. leg[1] # 0
    BY <1>2, <2>6, ZeroIs
  <2>. QED BY <2>5, <2>7
<1> HIDE DEF leg, N, m
<1>4. leg[1] \in Int /\ leg \in Pairs
  BY <1>2 DEF IsDecimal, Pairs
<1>5. Sign(leg) = 1
  BY <1>3, <1>4 DEF Sign, Signum
<1>6. Sign(Negate[leg]) = -1
  <2>1. Negate[leg][1] = -leg[1]
    BY <1>4 DEF Negate
  <2>. QED BY <1>3, <1>4, <2>1 DEF Sign, Signum
<1>7. Sign(Zero) = 0
  BY DEF Sign, Signum, Zero, Dec
<1>8. Negate[leg] ** p = N ** m
  <2>1. Negate[leg] = leg ** m
    BY <1>2, DecimalTimes DEF m
  <2>2. (leg ** m) ** p = leg ** (m ** p) /\ m ** p = p ** m /\ (leg ** p) ** m = leg ** (p ** m)
    BY <1>2, DecimalTimes
  <2>. QED BY <1>2, <2>1, <2>2
<1>9. Zero ** p = Zero /\ N ** Dec(0) = Zero /\ N ** Dec(1) = N
  <2>1. Zero ** p = p ** Zero /\ p ** Zero = Zero
    BY <1>2, DecimalTimes
  <2>2. N ** Dec(0) = Zero
    BY <1>1, TimesDec
  <2>3. N ** Dec(1) = N
    BY <1>1, DecimalTimes
  <2>. QED BY <2>1, <2>2, <2>3
<1>. QED BY <1>2, <1>5, <1>6, <1>7, <1>8, <1>9 DEF leg, N, m

\* The cache holds the last closes of every symbol.
SeenInv ==
  /\ seen \in [Symbols -> Seq(Closes)]
  /\ \A s \in Symbols : IsWindow(Cached(bars, <<s, BarInterval>>), seen[s])

\* What is scored is what the history ranks, by its closes.
LEMMA ScoredIs ==
  ASSUME SeenInv, NEW s \in Symbols
  PROVE  /\ IsScored(s) <=> IsRanked(seen[s])
         /\ IsRanked(seen[s]) =>
              /\ Latest(s) = Last(seen[s]) /\ First(s) = Past(seen[s])
              /\ IsDecimal(Latest(s)) /\ Latest(s)[1] > 0
              /\ IsDecimal(First(s)) /\ First(s)[1] > 0
              /\ IsDecimal(Score(s))
<1> DEFINE closes == seen[s]
<1>1. closes \in Seq(Closes) /\ IsWindow(Cached(bars, <<s, BarInterval>>), closes)
  BY DEF SeenInv
<1> HIDE DEF closes
<1>2. /\ Len(Window(s)) = LookbackBars + 1 <=> Len(closes) > LookbackBars
      /\ Len(closes) > LookbackBars =>
           /\ First(s) = Past(closes) /\ Latest(s) = Last(closes)
           /\ Past(closes) \in Closes /\ Last(closes) \in Closes
  BY <1>1, WindowIs
<1>3. IsScored(s) <=> IsRanked(closes)
  BY <1>2 DEF IsScored, IsRanked
<1>4. ASSUME IsRanked(closes)
      PROVE  /\ Latest(s) = Last(closes) /\ First(s) = Past(closes)
             /\ IsDecimal(Latest(s)) /\ Latest(s)[1] > 0
             /\ IsDecimal(First(s)) /\ First(s)[1] > 0
             /\ IsDecimal(Score(s))
  <2> DEFINE a == Latest(s)
             b == First(s)
  <2>1. a = Last(closes) /\ b = Past(closes) /\ a \in Closes /\ b \in Closes /\ a # Zero /\ b # Zero
    BY <1>2, <1>4 DEF IsRanked
  <2> HIDE DEF a, b
  <2>2. IsDecimal(a) /\ a[1] >= 0 /\ IsDecimal(b) /\ b[1] >= 0
    BY <2>1, PricesAssumption
  <2>3. a[1] \in Int /\ a[1] # 0 /\ b[1] \in Int /\ b[1] # 0
    BY <2>1, <2>2, ZeroIs, DecimalParts
  <2>4. IsDecimal(a // b)
    BY <2>2, <2>3, DecimalClosed
  <2>5. IsDecimal((a // b) -- Dec(1))
    BY <2>4, LessOnePlusOne
  <2>. QED BY <2>1, <2>2, <2>3, <2>5 DEF Score, a, b
<1>. QED BY <1>3, <1>4 DEF closes

\* Which side a rank is on, of c.
SideOf(k, c) == IF k > c - ShortCount THEN -1 ELSE IF k <= LongCount THEN 1 ELSE 0

\* A better rank is never on a lower side.
LEMMA SidesFall ==
  ASSUME NEW c \in Nat, NEW k \in 1..c, NEW l \in 1..c, k <= l
  PROVE  SideOf(k, c) >= SideOf(l, c)
<1>1. LongCount \in Nat /\ ShortCount \in Nat
  BY LookbackAssumption
<1>. QED BY <1>1 DEF SideOf

\* What the ranking gives the symbol at a rank.
LEMMA LegOf ==
  ASSUME SeenInv, NEW place, RanksAs(place), NEW k \in 1..Cardinality(Scored)
  PROVE  LET s == Ranked[k]
         IN  /\ s \in Symbols /\ s \in Range(SymbolList) /\ IsRanked(seen[s])
             /\ Sign(LegQty(k)) = SideOf(k, Cardinality(Scored))
             /\ LegQty(k) ** Last(seen[s]) = NotionalPerLeg ** Dec(Sign(LegQty(k)))
<1> DEFINE c == Cardinality(Scored)
           s == Ranked[k]
           n == place[k]
           p == Latest(s)
           leg == NotionalPerLeg // p
<1>1. c \in Nat /\ Len(Ranked) = c /\ s = SymbolList[n] /\ n \in Scored
  <2> DEFINE K == 1..c
  <2>1. c \in Nat /\ Len(Ranked) = c /\ s = SymbolList[n] /\ place \in Bijection(K, Scored) /\ k \in K
    BY DEF RanksAs
  <2> HIDE DEF K, c
  <2>2. \A x \in K : place[x] \in Scored
    BY <2>1, Fun_BijectionProperties
  <2>. QED BY <2>1, <2>2
<1>2. s \in Symbols /\ s \in Range(SymbolList) /\ IsScored(s)
  <2>1. n \in 1..Len(SymbolList) /\ IsScored(SymbolList[n])
    BY <1>1 DEF Scored
  <2>2. SymbolList \in Seq(Symbols)
    BY LookbackAssumption
  <2>3. SymbolList[n] \in Symbols /\ n \in DOMAIN SymbolList
    BY <2>1, <2>2, ElementOfSeq, LenProperties
  <2>. QED BY <1>1, <2>1, <2>3 DEF Range
<1>3. IsRanked(seen[s]) /\ p = Last(seen[s]) /\ IsDecimal(p) /\ p[1] > 0
  <2> HIDE DEF s
  <2>. QED BY <1>2, ScoredIs
<1>4. LegQty(k) = IF k > c - ShortCount THEN Negate[leg] ELSE IF k <= LongCount THEN leg ELSE Zero
  BY <1>1 DEF LegQty
<1> HIDE DEF s, c, n, leg, p
<1>5. /\ Sign(leg) = 1 /\ Sign(Negate[leg]) = -1 /\ Sign(Zero) = 0
      /\ leg ** p = NotionalPerLeg ** Dec(1)
      /\ Negate[leg] ** p = NotionalPerLeg ** Dec(-1)
      /\ Zero ** p = NotionalPerLeg ** Dec(0)
  BY <1>3, LegIs DEF leg
<1>6. Sign(LegQty(k)) = SideOf(k, c)
  BY <1>4, <1>5 DEF SideOf
<1>7. LegQty(k) ** p = NotionalPerLeg ** Dec(Sign(LegQty(k)))
  BY <1>4, <1>5
<1>. QED BY <1>2, <1>3, <1>6, <1>7 DEF s, c

\* The symbols that a history ranks.
RankedIn(history) == {s \in Range(SymbolList) : IsRanked(history[s])}

\* The list names symbols.
LEMMA ListIs ==
  /\ Range(SymbolList) = {SymbolList[n] : n \in 1..Len(SymbolList)}
  /\ Range(SymbolList) \subseteq Symbols
<1>1. SymbolList \in Seq(Symbols)
  BY LookbackAssumption
<1>2. DOMAIN SymbolList = 1..Len(SymbolList) /\ \A n \in 1..Len(SymbolList) : SymbolList[n] \in Symbols
  BY <1>1, LenProperties, ElementOfSeq
<1>. QED BY <1>2 DEF Range

\* Every symbol that the history ranks has one rank.
LEMMA RanksAreSymbols ==
  ASSUME SeenInv, NEW place, RanksAs(place)
  PROVE  LET c == Cardinality(Scored)
         IN  [k \in 1..c |-> Ranked[k]] \in Bijection(1..c, RankedIn(seen))
<1> DEFINE c == Cardinality(Scored)
           K == 1..c
           S == RankedIn(seen)
           f == [k \in K |-> Ranked[k]]
<1>1. /\ place \in Bijection(K, Scored)
      /\ \A k \in K : Ranked[k] = SymbolList[place[k]]
  BY DEF RanksAs
<1>2. \A k \in K : Ranked[k] \in S
  BY LegOf DEF RankedIn
<1> HIDE DEF K, c
<1>3. /\ \A k \in K : place[k] \in Scored
      /\ \A k, l \in K : place[k] = place[l] => k = l
      /\ \A n \in Scored : \E k \in K : place[k] = n
  BY <1>1, Fun_BijectionProperties
<1>4. ASSUME NEW k \in K, NEW l \in K, Ranked[k] = Ranked[l] PROVE k = l
  <2>1. place[k] \in 1..Len(SymbolList) /\ place[l] \in 1..Len(SymbolList)
    BY <1>3 DEF Scored
  <2>2. SymbolList[place[k]] = SymbolList[place[l]]
    BY <1>1, <1>4
  <2>3. place[k] = place[l]
    BY <2>1, <2>2, LookbackAssumption
  <2>. QED BY <1>3, <2>3
<1>5. ASSUME NEW s \in S PROVE \E k \in K : Ranked[k] = s
  <2>1. s \in Symbols /\ IsRanked(seen[s])
    BY ListIs DEF RankedIn
  <2>2. IsScored(s)
    BY <2>1, ScoredIs
  <2>3. PICK n \in 1..Len(SymbolList) : SymbolList[n] = s
    BY ListIs DEF RankedIn
  <2>4. n \in Scored
    BY <2>2, <2>3 DEF Scored
  <2>5. PICK k \in K : place[k] = n
    BY <1>3, <2>4
  <2>. QED BY <1>1, <2>3, <2>5
<1> HIDE DEF S
<1>6. f \in [K -> S] /\ (\A k, l \in K : f[k] = f[l] => k = l) /\ \A s \in S : \E k \in K : f[k] = s
  <2>1. f \in [K -> S]
    BY <1>2
  <2>2. \A k \in K : f[k] = Ranked[k]
    OBVIOUS
  <2> HIDE DEF f
  <2>. QED BY <1>4, <1>5, <2>1, <2>2
<1>7. f \in Bijection(K, S)
  <2> HIDE DEF f
  <2>. QED BY <1>6, Fun_IsBij
<1>. QED BY <1>7 DEF K, c, S

\* Of two ranked symbols the one whose close rose more ranks first.
LEMMA RanksByRise ==
  ASSUME SeenInv, NEW place, RanksAs(place),
         NEW k \in 1..Cardinality(Scored), NEW l \in 1..Cardinality(Scored), l < k
  PROVE  LET s == Ranked[k]
             t == Ranked[l]
         IN  AtMost(Last(seen[s]) ** Past(seen[t]), Last(seen[t]) ** Past(seen[s]))
<1> DEFINE s == Ranked[k]
           t == Ranked[l]
<1>1. AtMost(Score(s), Score(t))
  BY DEF RanksAs
<1>2. s \in Symbols /\ IsRanked(seen[s]) /\ t \in Symbols /\ IsRanked(seen[t])
  BY LegOf
<1> HIDE DEF s, t
<1> DEFINE ls == Latest(s)
           fs == First(s)
           lt == Latest(t)
           ft == First(t)
<1>3. /\ ls = Last(seen[s]) /\ fs = Past(seen[s]) /\ lt = Last(seen[t]) /\ ft = Past(seen[t])
      /\ IsDecimal(ls) /\ IsDecimal(fs) /\ IsDecimal(lt) /\ IsDecimal(ft)
      /\ fs[1] > 0 /\ ft[1] > 0
  BY <1>2, ScoredIs
<1>4. AtMost((ls // fs) -- Dec(1), (lt // ft) -- Dec(1))
  BY <1>1 DEF Score
<1> HIDE DEF ls, fs, lt, ft
<1>5. IsDecimal(ls // fs) /\ IsDecimal(lt // ft)
  <2>1. fs[1] # 0 /\ ft[1] # 0
    BY <1>3, DecimalParts
  <2>. QED BY <1>3, <2>1, DecimalClosed
<1>6. AtMost(ls // fs, lt // ft)
  BY <1>4, <1>5, LessOneCompare
<1>7. AtMost(ls ** ft, lt ** fs)
  BY <1>3, <1>6, QuotientsCross
<1>. QED BY <1>3, <1>7 DEF s, t

\* Every score is a decimal.
LEMMA ScoredScores ==
  ASSUME SeenInv
  PROVE  \A n \in Scored : IsDecimal(Score(SymbolList[n]))
<1> SUFFICES ASSUME NEW n \in Scored PROVE IsDecimal(Score(SymbolList[n]))
  OBVIOUS
<1> DEFINE s == SymbolList[n]
<1>1. s \in Symbols /\ IsScored(s)
  BY ListIs DEF Scored
<1> HIDE DEF s
<1>2. IsDecimal(Score(s))
  BY <1>1, ScoredIs
<1>. QED BY <1>2 DEF s

\* The targets that a ranking asks for, one for a rank.
AsksFor(q) ==
  /\ q \in Seq(Elements(q)) /\ Len(q) = Cardinality(Scored)
  /\ \A k \in 1..Cardinality(Scored) :
       q[k].symbol = Ranked[k] /\ q[k].target_qty = LegQty(k)

\* As many legs on each side as asked for, when there are as many symbols.
LEMMA LegsOnASide ==
  ASSUME NEW c \in Nat, NEW S, NEW f \in Bijection(1..c, S), NEW side,
         \A k \in 1..c : side[f[k]] = SideOf(k, c), c >= LongCount + ShortCount
  PROVE  /\ Cardinality({s \in S : side[s] > 0}) = LongCount
         /\ Cardinality({s \in S : side[s] < 0}) = ShortCount
<1> DEFINE K == 1..c
           L == {s \in S : side[s] > 0}
           R == {s \in S : side[s] < 0}
           one == 1
           from == c - ShortCount + 1
<1>1. LongCount \in Nat /\ ShortCount \in Nat
  BY LookbackAssumption
<1>2. /\ \A k \in K : f[k] \in S
      /\ \A s \in S : \E k \in K : f[k] = s
  BY Fun_BijectionProperties
<1>3. /\ one..LongCount \subseteq 1..c /\ from..c \subseteq 1..c
      /\ one <= LongCount + 1 /\ one \in Int /\ LongCount \in Int
      /\ from <= c + 1 /\ from \in Int
      /\ LongCount - one + 1 = LongCount /\ c - from + 1 = ShortCount
      /\ \A k \in K : /\ SideOf(k, c) > 0 <=> k \in one..LongCount
                      /\ SideOf(k, c) < 0 <=> k \in from..c
  BY <1>1 DEF SideOf
<1>4. L = ImageOf(f, one..LongCount)
  BY <1>2, <1>3 DEF ImageOf
<1>5. R = ImageOf(f, from..c)
  BY <1>2, <1>3 DEF ImageOf
<1> HIDE DEF L, R, from, one
<1>6. Cardinality(L) = LongCount
  <2> DEFINE to == LongCount
  <2>1. /\ one \in Int /\ to \in Int /\ one..to \subseteq 1..c /\ one <= to + 1
        /\ c \in Nat /\ f \in Bijection(1..c, S)
    BY <1>3
  <2>2. L = ImageOf(f, one..to) /\ to - one + 1 = LongCount
    BY <1>3, <1>4
  <2> HIDE DEF to
  <2>3. Cardinality(ImageOf(f, one..to)) = to - one + 1
    BY ONLY <2>1, ImageSize
  <2>. QED BY <2>2, <2>3
<1>7. Cardinality(R) = ShortCount
  <2>1. Cardinality(R) = c - from + 1
    BY <1>1, <1>3, <1>5, ImageSize
  <2>. QED BY <1>3, <2>1
<1>. QED BY <1>6, <1>7 DEF L, R

\* An account that fills what a ranking asks for follows the ranking.
LEMMA RankingHolds ==
  ASSUME SeenInv, NEW map, IsMap(map), NEW q, AsksFor(q)
  PROVE  /\ Distinct(q, 1..Len(q))
         /\ FollowsRanking(FoldLeft(SetPosition, map, q), [seen |-> seen, positions |-> map])
<1>1. PICK place : RanksAs(place)
  BY ScoredScores, RankedIs
<1> DEFINE c == Cardinality(Scored)
           K == 1..c
           S == RankedIn(seen)
           f == [k \in K |-> Ranked[k]]
           after == FoldLeft(SetPosition, map, q)
           side(s) == Sign(Held(after, s))
<1>2. c \in Nat /\ f \in Bijection(K, S)
  BY <1>1, RanksAreSymbols DEF RanksAs
<1>3. /\ \A k \in K : Ranked[k] \in S
      /\ \A k, l \in K : Ranked[k] = Ranked[l] => k = l
      /\ \A s \in S : \E k \in K : Ranked[k] = s
  <2>1. \A k \in K : f[k] = Ranked[k]
    OBVIOUS
  <2> HIDE DEF f, K
  <2>. QED BY <1>2, <2>1, Fun_BijectionProperties
<1>4. /\ q \in Seq(Elements(q)) /\ Len(q) = c
      /\ \A k \in K : q[k].symbol = Ranked[k] /\ q[k].target_qty = LegQty(k)
  BY DEF AsksFor
<1>5. Distinct(q, K)
  BY <1>3, <1>4 DEF Distinct
<1> HIDE DEF S
<1>6. /\ \A k \in K : Held(after, q[k].symbol) = q[k].target_qty
      /\ \A s : (\A k \in K : q[k].symbol # s) => Held(after, s) = Held(map, s)
  <2>1. IsMap(map) /\ c \in Nat /\ q \in Seq(Elements(q)) /\ Len(q) = c /\ Distinct(q, 1..c)
    BY <1>2, <1>4, <1>5
  <2> HIDE DEF c
  <2>. QED BY ONLY <2>1, HeldAfter
<1> HIDE DEF after
<1>7. \A k \in K : Held(after, Ranked[k]) = LegQty(k)
  BY <1>4, <1>6
<1>8. \A k \in K : side(Ranked[k]) = SideOf(k, c)
  BY <1>1, <1>7, LegOf
<1>9. ASSUME NEW s \in Symbols \ S PROVE Held(after, s) = Held(map, s)
  BY <1>3, <1>4, <1>6, <1>9
<1>10. ASSUME NEW s \in S
       PROVE  Held(after, s) ** Last(seen[s]) = NotionalPerLeg ** Dec(side(s))
  <2>1. PICK k \in K : Ranked[k] = s
    BY <1>3
  <2>2. LegQty(k) ** Last(seen[Ranked[k]]) = NotionalPerLeg ** Dec(Sign(LegQty(k)))
    BY <1>1, LegOf
  <2>. QED BY <1>7, <2>1, <2>2
<1>11. ASSUME NEW s \in S, NEW t \in S,
              ~AtMost(Last(seen[s]) ** Past(seen[t]), Last(seen[t]) ** Past(seen[s]))
       PROVE  side(s) >= side(t)
  <2>1. PICK k \in K : Ranked[k] = s
    BY <1>3
  <2>2. PICK l \in K : Ranked[l] = t
    BY <1>3
  <2>3. ~(l < k)
    BY <1>1, <1>11, <2>1, <2>2, RanksByRise
  <2>4. side(s) = SideOf(k, c) /\ side(t) = SideOf(l, c)
    BY <1>8, <2>1, <2>2
  <2>5. SideOf(k, c) >= SideOf(l, c)
    <3>1. k <= l
      <4>1. k \in Int /\ l \in Int
        BY <1>2
      <4>. QED BY ONLY <2>3, <4>1
    <3> HIDE DEF c
    <3>. QED BY <1>2, <3>1, SidesFall
  <2>. QED BY ONLY <2>4, <2>5
<1>12. Cardinality(S) = c
  <2>1. IsFiniteSet(K) /\ Cardinality(K) = c
    BY <1>2, FS_Interval
  <2>2. ExistsBijection(K, S)
    BY <1>2 DEF ExistsBijection
  <2> HIDE DEF K, c
  <2>. QED BY <2>1, <2>2, FS_Bijection
<1>13. ASSUME c >= LongCount + ShortCount
       PROVE  /\ Cardinality({s \in S : side(s) > 0}) = LongCount
              /\ Cardinality({s \in S : side(s) < 0}) = ShortCount
  <2> DEFINE sides == [s \in S |-> side(s)]
  <2>1. \A k \in K : sides[f[k]] = SideOf(k, c)
    BY <1>3, <1>8
  <2>2. /\ {s \in S : side(s) > 0} = {s \in S : sides[s] > 0}
        /\ {s \in S : side(s) < 0} = {s \in S : sides[s] < 0}
    OBVIOUS
  <2> HIDE DEF f, c, side, sides
  <2>3. /\ Cardinality({s \in S : sides[s] > 0}) = LongCount
        /\ Cardinality({s \in S : sides[s] < 0}) = ShortCount
    BY <1>2, <1>13, <2>1, LegsOnASide
  <2>. QED BY <2>2, <2>3
<1>14. S = {s \in Range(SymbolList) : IsRanked(seen[s])}
  BY DEF S, RankedIn
<1>15. FollowsRanking(after, [seen |-> seen, positions |-> map])
  <2> DEFINE then == [seen |-> seen, positions |-> map]
  <2>1. then.seen = seen /\ then.positions = map
    OBVIOUS
  <2> HIDE DEF then, c, K
  <2>. QED BY <1>9, <1>10, <1>11, <1>12, <1>13, <1>14, <2>1 DEF FollowsRanking
<1>. QED BY <1>4, <1>5, <1>15 DEF after
-----------------------------------------------------------------------------
\* The positions once the queued targets are filled.
Settled == FoldLeft(SetPosition, positions, targets)

\* The inductive invariant: once the targets of the latest event are filled
\* the account follows the ranking.
RankInv ==
  /\ SeenInv
  /\ IsMap(positions)
  /\ phase # "drain" => targets = <<>>
  /\ targets \in Seq(Elements(targets)) /\ Distinct(targets, 1..Len(targets))
  /\ fired # <<>> => FollowsRanking(Settled, ranked)

LEMMA NoTargets ==
  <<>> \in Seq(Elements(<<>>)) /\ Len(<<>>) = 0 /\ Distinct(<<>>, 1..Len(<<>>))
BY EmptySeq DEF Distinct

LEMMA NothingToSettle ==
  ASSUME NEW map, IsMap(map)
  PROVE  FoldLeft(SetPosition, map, <<>>) = map
<1> DEFINE q == <<>>
           c == 0
<1>1. q \in Seq(Elements(q)) /\ Len(q) = c /\ c \in Nat /\ Distinct(q, 1..c)
  BY NoTargets
<1>2. 1..c = {} /\ Reported(map, q, {}) = map
  BY DEF Reported, IsMap
<1> HIDE DEF q, c
<1>3. FoldLeft(SetPosition, map, q) = Reported(map, q, 1..c)
  BY <1>1, SettleIs
<1>. QED BY <1>2, <1>3 DEF q

LEMMA RankInvInit == RunInit => RankInv
<1> SUFFICES ASSUME RunInit PROVE RankInv
  OBVIOUS
<1>1. SeenInv
  <2>1. seen = [s \in Symbols |-> <<>>] /\ bars = EmptyMap
    BY DEF RunInit, SelInit, EngineInit
  <2>2. \A s \in Symbols : Cached(bars, <<s, BarInterval>>) = <<>>
    BY <2>1 DEF Cached, EmptyMap
  <2>3. IsWindow(<<>>, <<>>)
    BY NoTargets, MaxBarsAssumption DEF IsWindow
  <2>4. <<>> \in Seq(Closes)
    OBVIOUS
  <2>. QED BY <2>1, <2>2, <2>3, <2>4 DEF SeenInv
<1>2. positions = EmptyMap /\ targets = <<>> /\ fired = <<>>
  BY DEF RunInit, SelInit, EngineInit, Init
<1>3. IsMap(positions)
  BY <1>2 DEF IsMap, EmptyMap
<1>. QED BY <1>1, <1>2, <1>3, NoTargets DEF RankInv

\* What a callback that sets no targets leaves.
LEMMA SilentCallback ==
  ASSUME NEW now, NEW reaction, reaction.targets = <<>>, targets = <<>>, Callback(now, reaction)
  PROVE  targets' = <<>>
<1>1. targets' = <<>> \o [n \in 1..0 |-> Stamp(now, reaction.targets[n])]
  BY NoTargets DEF Callback
<1>2. [n \in 1..0 |-> Stamp(now, reaction.targets[n])] = <<>>
  OBVIOUS
<1>. QED BY <1>1, <1>2

\* A bar is appended to the history of its symbol and to its series.
LEMMA ArriveKeeps ==
  ASSUME RankInv, NEW symbol \in Symbols, NEW close \in Closes, Arrive(symbol, close)
  PROVE  RankInv'
<1> DEFINE kline == [symbol |-> symbol, interval |-> BarInterval,
                     close_time |-> Len(seen[symbol]) + 1, close |-> close]
           key(s) == <<s, BarInterval>>
<1>1. /\ phase = "event" /\ phase' = "drain"
      /\ seen' = [seen EXCEPT ![symbol] = Append(@, close)]
      /\ OnKline(kline, Silent)
      /\ UNCHANGED <<fired, ranked>>
  BY DEF Arrive, Bar, vars
<1>2. /\ bars' = PushBar(bars, kline) /\ positions' = positions
      /\ IF BarKey(kline) \in bar_keys THEN Callback(kline.close_time, Silent)
         ELSE UNCHANGED <<bar_keys, targets>>
  BY <1>1 DEF OnKline
<1>3. targets = <<>>
  BY <1>1 DEF RankInv
<1>4. targets' = <<>>
  <2>1. Silent.targets = <<>>
    BY DEF Silent
  <2>. QED BY <1>2, <1>3, <2>1, SilentCallback
<1>5. seen \in [Symbols -> Seq(Closes)]
      /\ \A s \in Symbols : IsWindow(Cached(bars, key(s)), seen[s])
  BY DEF RankInv, SeenInv
<1>6. seen' \in [Symbols -> Seq(Closes)]
  <2>1. Append(seen[symbol], close) \in Seq(Closes)
    BY <1>5, AppendProperties
  <2>. QED BY <1>1, <1>5, <2>1
<1>7. ASSUME NEW s \in Symbols PROVE IsWindow(Cached(bars', key(s)), seen'[s])
  <2>1. BarKey(kline) = key(symbol) /\ kline.close = close
    BY DEF BarKey
  <2> HIDE DEF kline
  <2>2. bars' = Insert(bars, key(symbol), LastN(Append(Cached(bars, key(symbol)), kline), MaxBars))
    BY <1>2, <2>1 DEF PushBar
  <2>3. CASE s = symbol
    <3>1. Cached(bars', key(s)) = LastN(Append(Cached(bars, key(s)), kline), MaxBars)
      BY <2>2, <2>3 DEF Cached, Insert
    <3>2. seen'[s] = Append(seen[s], kline.close)
      BY <1>1, <1>5, <2>1, <2>3
    <3> DEFINE q == Cached(bars, key(s))
               old == seen[s]
    <3>3. old \in Seq(Closes) /\ IsWindow(q, old) /\ kline.close \in Closes
      BY <1>5, <2>1
    <3> HIDE DEF q, old
    <3>4. IsWindow(LastN(Append(q, kline), MaxBars), Append(old, kline.close))
      BY <3>3, WindowMoves
    <3>. QED BY <3>1, <3>2, <3>4 DEF q, old
  <2>4. CASE s # symbol
    <3>1. key(s) # key(symbol)
      BY <2>4
    <3>2. Cached(bars', key(s)) = Cached(bars, key(s))
      BY <2>2, <3>1 DEF Cached, Insert
    <3>3. seen'[s] = seen[s]
      BY <1>1, <1>5, <2>4
    <3>. QED BY <1>5, <3>2, <3>3
  <2>. QED BY <2>3, <2>4
<1>8. SeenInv'
  BY <1>6, <1>7 DEF SeenInv
<1>9. Settled' = Settled
  BY <1>2, <1>3, <1>4 DEF Settled
<1>10. FollowsRanking(Settled, ranked)' = FollowsRanking(Settled, ranked)
  BY <1>1, <1>9 DEF FollowsRanking
<1>. QED BY <1>1, <1>2, <1>4, <1>8, <1>10, NoTargets DEF RankInv, IsMap

LEMMA RankInvStutters ==
  ASSUME RankInv, seen' = seen, bars' = bars, positions' = positions, targets' = targets,
         phase' = phase, ranked' = ranked, fired' = fired
  PROVE  RankInv'
<1>1. SeenInv'
  BY DEF RankInv, SeenInv, Cached
<1>2. FollowsRanking(Settled, ranked)' = FollowsRanking(Settled, ranked)
  BY DEF FollowsRanking, Settled
<1>. QED BY <1>1, <1>2 DEF RankInv, IsMap, Distinct

\* What an event of the scheduler asks for is the ranking of the history.
LEMMA RebalanceAsks ==
  ASSUME RankInv, NEW event, targets = <<>>, OnSchedule(event, Rebalance)
  PROVE  AsksFor(targets')
<1> DEFINE c == Cardinality(Scored)
           asked(n) == [symbol |-> Ranked[n], target_qty |-> LegQty(n),
                        signal_price |-> Some(Latest(Ranked[n]))]
           list == Rebalance.targets
           q == [n \in 1..c |-> Stamp(event.ts, list[n])]
<1>1. c \in Nat /\ Len(Ranked) = c
  <2>1. \A n \in Scored : IsDecimal(Score(SymbolList[n]))
    BY ScoredScores DEF RankInv
  <2>. QED BY <2>1, RankedIs DEF RanksAs
<1>2. list = [n \in 1..c |-> asked(n)]
  BY <1>1 DEF Rebalance, Silent
<1> HIDE DEF list, c
<1>3. Len(list) = c /\ \A n \in 1..c : list[n] = asked(n)
  BY <1>1, <1>2
<1>4. targets' = <<>> \o q
  BY <1>3 DEF OnSchedule, Callback, list
<1>5. q \in Seq(Elements(q)) /\ Len(q) = c
  <2>1. Len(q) = c
    BY <1>1
  <2>2. \A n \in 1..c : q[n] \in Elements(q)
    BY <2>1 DEF Elements
  <2>3. q = [n \in 1..c |-> q[n]]
    OBVIOUS
  <2> HIDE DEF q
  <2>. QED BY <1>1, <2>1, <2>2, <2>3, IsASeq
<1>6. targets' = q
  <2> HIDE DEF q
  <2>. QED BY <1>4, <1>5, ConcatEmptySeq
<1>7. \A k \in 1..c : q[k].symbol = Ranked[k] /\ q[k].target_qty = LegQty(k)
  BY <1>3 DEF Stamp
<1> HIDE DEF q
<1>. QED BY <1>5, <1>6, <1>7 DEF AsksFor, c

LEMMA PollKeeps ==
  ASSUME RankInv, NEW now \in PollTimes, Poll(now)
  PROVE  RankInv'
<1>1. phase = "event" /\ targets = <<>>
  BY DEF Poll, RankInv
<1>2. CASE fired' # fired
  <2>1. /\ OnSchedule(Last(fired'), Rebalance) /\ phase' = "drain" /\ seen' = seen
        /\ ranked' = [seen |-> seen, positions |-> positions]
    BY <1>2 DEF Poll, Schedule
  <2>2. positions' = positions /\ bars' = bars
    BY <2>1 DEF OnSchedule
  <2>3. AsksFor(targets')
    BY <1>1, <2>1, RebalanceAsks
  <2>4. SeenInv /\ IsMap(positions)
    BY DEF RankInv
  <2> DEFINE q == targets'
  <2>5. /\ Distinct(q, 1..Len(q)) /\ q \in Seq(Elements(q))
        /\ FollowsRanking(FoldLeft(SetPosition, positions, q),
                          [seen |-> seen, positions |-> positions])
    <3>1. AsksFor(q)
      BY <2>3
    <3> HIDE DEF q
    <3>. QED BY <2>4, <3>1, RankingHolds DEF AsksFor
  <2>6. FollowsRanking(Settled, ranked)'
    BY <2>1, <2>2, <2>5 DEF Settled, FollowsRanking
  <2>7. SeenInv' /\ IsMap(positions)'
    BY <2>1, <2>2, <2>4 DEF SeenInv, IsMap, Cached
  <2>. QED BY <2>1, <2>5, <2>6, <2>7 DEF RankInv
<1>3. CASE fired' = fired
  <2>1. UNCHANGED <<selVars, ranked>>
    BY <1>3 DEF Poll
  <2>2. /\ seen' = seen /\ bars' = bars /\ positions' = positions /\ targets' = targets
        /\ phase' = phase /\ ranked' = ranked
    BY <2>1 DEF selVars, engineVars
  <2>. QED BY <1>3, <2>2, RankInvStutters
<1>. QED BY <1>2, <1>3

LEMMA StartKeeps ==
  ASSUME RankInv, Start, UNCHANGED <<vars, ranked>>
  PROVE  RankInv'
<1>1. /\ phase = "initialize" /\ seen' = seen /\ bars' = bars /\ positions' = positions
      /\ Callback(Now, OnInit) /\ ranked' = ranked /\ fired' = fired
  BY DEF Start, Initialize, vars
<1>2. targets = <<>>
  BY <1>1 DEF RankInv
<1>3. OnInit.targets = <<>>
  BY DEF OnInit, Silent
<1>4. targets' = <<>>
  BY <1>1, <1>2, <1>3, SilentCallback
<1>5. SeenInv'
  BY <1>1 DEF RankInv, SeenInv, Cached
<1>6. FollowsRanking(Settled, ranked)' = FollowsRanking(Settled, ranked)
  BY <1>1, <1>2, <1>4 DEF FollowsRanking, Settled
<1>. QED BY <1>1, <1>4, <1>5, <1>6, NoTargets DEF RankInv, IsMap

\* The targets are filled, and nothing is left of them.
LEMMA SettleKeeps ==
  ASSUME RankInv, Settle, UNCHANGED <<vars, ranked>>
  PROVE  RankInv'
<1>1. /\ targets' = <<>> /\ positions' = Settled /\ seen' = seen /\ bars' = bars
      /\ ranked' = ranked /\ fired' = fired
  BY DEF Settle, DrainTargets, Settled, vars
<1>2. IsMap(positions')
  <2> DEFINE c == Len(targets)
  <2>1. /\ IsMap(positions) /\ targets \in Seq(Elements(targets)) /\ c \in Nat
        /\ Distinct(targets, 1..c)
    BY LenProperties DEF RankInv
  <2> HIDE DEF c
  <2>2. Len(targets) = c
    BY DEF c
  <2>3. IsMap(FoldLeft(SetPosition, positions, targets))
    BY <2>1, <2>2, HeldAfter
  <2>. QED BY <1>1, <2>3 DEF Settled
<1>3. Settled' = Settled
  <2>1. FoldLeft(SetPosition, positions', <<>>) = positions'
    BY <1>2, NothingToSettle
  <2>2. Settled' = FoldLeft(SetPosition, positions', <<>>)
    BY <1>1 DEF Settled
  <2>. QED BY <1>1, <2>1, <2>2
<1>4. SeenInv'
  BY <1>1 DEF RankInv, SeenInv, Cached
<1>5. FollowsRanking(Settled, ranked)' = FollowsRanking(Settled, ranked)
  BY <1>1, <1>3 DEF FollowsRanking
<1>6. IsMap(positions)'
  BY <1>2 DEF IsMap
<1>. QED BY <1>1, <1>4, <1>5, <1>6, NoTargets DEF RankInv

LEMMA RankInvNext ==
  ASSUME RankInv, [RunNext]_runVars
  PROVE  RankInv'
<1>1. CASE Start /\ UNCHANGED <<vars, ranked>>
  BY <1>1, StartKeeps
<1>2. ASSUME NEW s \in Symbols, NEW c \in Closes, Arrive(s, c)
      PROVE  RankInv'
  BY <1>2, ArriveKeeps
<1>3. ASSUME NEW now \in PollTimes, Poll(now)
      PROVE  RankInv'
  BY <1>3, PollKeeps
<1>4. CASE Settle /\ UNCHANGED <<vars, ranked>>
  BY <1>4, SettleKeeps
<1>5. CASE UNCHANGED runVars
  <2>1. /\ seen' = seen /\ bars' = bars /\ positions' = positions /\ targets' = targets
        /\ phase' = phase /\ ranked' = ranked /\ fired' = fired
    BY <1>5 DEF runVars, vars, selVars, engineVars
  <2>. QED BY <2>1, RankInvStutters
<1>. QED BY <1>1, <1>2, <1>3, <1>4, <1>5 DEF RunNext

\* Between two events of the scheduler the account holds what the ranking at
\* the first of them asked for.
THEOREM RankingCorrectness == RunSpec => []HoldsLatestRanking
<1>1. RunInit => RankInv
  BY RankInvInit
<1>2. RankInv /\ [RunNext]_runVars => RankInv'
  BY RankInvNext
<1>3. RankInv => HoldsLatestRanking
  <2> SUFFICES ASSUME RankInv, phase = "event", fired # <<>>
               PROVE  FollowsRanking(positions, ranked)
    BY DEF HoldsLatestRanking
  <2>1. targets = <<>> /\ IsMap(positions) /\ FollowsRanking(Settled, ranked)
    BY DEF RankInv
  <2>2. Settled = positions
    BY <2>1, NothingToSettle DEF Settled
  <2>. QED BY <2>1, <2>2
<1>. QED BY <1>1, <1>2, <1>3, PTL DEF RunSpec
=============================================================================
