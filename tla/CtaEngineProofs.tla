-------------------------- MODULE CtaEngineProofs --------------------------
(***************************************************************************)
(* For every strategy, every event stream and every cache limit: the       *)
(* engine's state is well-typed, its bar cache is the recent window of     *)
(* what arrived, and it delivers every target once.                        *)
(***************************************************************************)
EXTENDS CtaEngineHistory, SequenceTheorems, TLAPS
-----------------------------------------------------------------------------
\* A window is the tail of its sequence, of the length asked for unless the
\* sequence is shorter.
LEMMA LastNShape ==
  ASSUME NEW S, NEW s \in Seq(S), NEW n \in Nat
  PROVE  /\ LastN(s, n) \in Seq(S)
         /\ Len(LastN(s, n)) = IF Len(s) > n THEN n ELSE Len(s)
         /\ \A i \in 1..Len(LastN(s, n)) : LastN(s, n)[i] = s[i + Len(s) - Len(LastN(s, n))]
<1> DEFINE from == IF Len(s) > n THEN Len(s) - n + 1 ELSE 1
           t == SubSeq(s, from, Len(s))
<1>1. /\ Len(s) \in Nat /\ from \in Int /\ from >= 1 /\ from <= Len(s) + 1
      /\ Len(s) - from + 1 = IF Len(s) > n THEN n ELSE Len(s)
  OBVIOUS
<1>2. \A i \in from..Len(s) : s[i] \in S
  BY <1>1, ElementOfSeq
<1>3. /\ t \in Seq(S)
      /\ Len(t) = IF from <= Len(s) THEN Len(s) - from + 1 ELSE 0
      /\ \A i \in 1..Len(s) - from + 1 : t[i] = s[from + i - 1]
  <2> HIDE DEF from
  <2>. QED BY <1>1, <1>2, SubSeqProperties
<1>4. LastN(s, n) = t
  BY DEF LastN
<1> HIDE DEF t, from
<1>5. Len(t) = Len(s) - from + 1
  BY <1>1, <1>3
<1>6. ASSUME NEW i \in 1..Len(t)
      PROVE  t[i] = s[i + Len(s) - Len(t)]
  <2>1. i \in 1..Len(s) - from + 1 /\ from + i - 1 = i + Len(s) - Len(t)
    BY <1>1, <1>5
  <2>. QED BY <1>3, <2>1
<1>. QED BY <1>1, <1>3, <1>4, <1>5, <1>6

\* A window of n elements does not depend on what an earlier window of n
\* elements dropped: this is why popping on every push is enough.
LEMMA LastNAppend ==
  ASSUME NEW S, NEW s \in Seq(S), NEW x \in S, NEW n \in Nat
  PROVE  LastN(Append(LastN(s, n), x), n) = LastN(Append(s, x), n)
<1> DEFINE w == LastN(s, n)
<1>1. /\ w \in Seq(S)
      /\ Len(w) = IF Len(s) > n THEN n ELSE Len(s)
      /\ \A i \in 1..Len(w) : w[i] = s[i + Len(s) - Len(w)]
  BY LastNShape
<1> HIDE DEF w
<1>2. /\ Append(w, x) \in Seq(S)
      /\ Len(Append(w, x)) = Len(w) + 1
      /\ \A i \in 1..Len(w) : Append(w, x)[i] = w[i]
      /\ Append(w, x)[Len(w) + 1] = x
  BY <1>1, AppendProperties
<1>3. /\ Append(s, x) \in Seq(S)
      /\ Len(Append(s, x)) = Len(s) + 1
      /\ \A i \in 1..Len(s) : Append(s, x)[i] = s[i]
      /\ Append(s, x)[Len(s) + 1] = x
  BY AppendProperties
<1> DEFINE wx == Append(w, x)
           sx == Append(s, x)
<1> HIDE DEF wx, sx
<1>4. /\ LastN(wx, n) \in Seq(S)
      /\ Len(LastN(wx, n)) = IF Len(wx) > n THEN n ELSE Len(wx)
      /\ \A i \in 1..Len(LastN(wx, n)) : LastN(wx, n)[i] = wx[i + Len(wx) - Len(LastN(wx, n))]
  BY <1>2, LastNShape DEF wx
<1>5. /\ LastN(sx, n) \in Seq(S)
      /\ Len(LastN(sx, n)) = IF Len(sx) > n THEN n ELSE Len(sx)
      /\ \A i \in 1..Len(LastN(sx, n)) : LastN(sx, n)[i] = sx[i + Len(sx) - Len(LastN(sx, n))]
  BY <1>3, LastNShape DEF sx
<1>6. PICK a \in Nat, b \in Nat :
        a = Len(s) /\ b = Len(w) /\ b = IF a > n THEN n ELSE a
  BY <1>1
<1>7. PICK k \in Nat :
        /\ k = Len(LastN(wx, n)) /\ k = Len(LastN(sx, n))
        /\ k = IF a + 1 > n THEN n ELSE a + 1
  BY <1>2, <1>3, <1>4, <1>5, <1>6 DEF wx, sx
<1>8. b = IF a > n THEN n ELSE a
  BY <1>6
<1>9. k = IF a + 1 > n THEN n ELSE a + 1
  BY <1>7
<1>10. ASSUME NEW i \in 1..k
      PROVE  LastN(wx, n)[i] = LastN(sx, n)[i]
  <2>1. /\ i = k => i + b + 1 - k = b + 1 /\ i + a + 1 - k = a + 1
        /\ i # k => /\ i + b + 1 - k \in 1..b
                    /\ i + a + 1 - k \in 1..a
                    /\ (i + b + 1 - k) + a - b = i + a + 1 - k
    BY <1>8, <1>9
  <2>2. LastN(wx, n)[i] = wx[i + b + 1 - k]
    <3>1. i \in 1..Len(LastN(wx, n)) /\ Len(wx) = b + 1 /\ Len(LastN(wx, n)) = k
      BY <1>2, <1>6, <1>7 DEF wx
    <3>2. LastN(wx, n)[i] = wx[i + Len(wx) - Len(LastN(wx, n))]
      BY <1>4, <3>1
    <3>3. i + Len(wx) - Len(LastN(wx, n)) = i + b + 1 - k
      BY <3>1
    <3>. QED BY <3>2, <3>3
  <2>3. LastN(sx, n)[i] = sx[i + a + 1 - k]
    <3>1. i \in 1..Len(LastN(sx, n)) /\ Len(sx) = a + 1 /\ Len(LastN(sx, n)) = k
      BY <1>3, <1>6, <1>7 DEF sx
    <3>2. LastN(sx, n)[i] = sx[i + Len(sx) - Len(LastN(sx, n))]
      BY <1>5, <3>1
    <3>3. i + Len(sx) - Len(LastN(sx, n)) = i + a + 1 - k
      BY <3>1
    <3>. QED BY <3>2, <3>3
  <2>4. CASE i = k
    BY <1>2, <1>3, <1>6, <2>1, <2>2, <2>3, <2>4 DEF wx, sx
  <2>5. CASE i # k
    <3> DEFINE j == i + b + 1 - k
    <3>1. wx[j] = w[j] /\ w[j] = s[j + a - b]
      BY <1>1, <1>2, <1>6, <2>1, <2>5 DEF wx
    <3>2. sx[i + a + 1 - k] = s[i + a + 1 - k]
      BY <1>3, <1>6, <2>1, <2>5 DEF sx
    <3>. QED BY <2>1, <2>2, <2>3, <2>5, <3>1, <3>2
  <2>. QED BY <2>4, <2>5
<1>11. LastN(wx, n) = LastN(sx, n)
  BY <1>4, <1>5, <1>7, <1>10, SeqEqual
<1>. QED BY <1>11 DEF wx, sx, w

\* The end of a window is the end of the whole sequence: recent_bars on the
\* cache answers as recent_bars on the history would.
LEMMA LastNOfLastN ==
  ASSUME NEW S, NEW s \in Seq(S), NEW m \in Nat, NEW n \in 0..m
  PROVE  LastN(LastN(s, m), n) = LastN(s, n)
<1> DEFINE w == LastN(s, m)
<1>1. /\ w \in Seq(S)
      /\ Len(w) = IF Len(s) > m THEN m ELSE Len(s)
      /\ \A i \in 1..Len(w) : w[i] = s[i + Len(s) - Len(w)]
  BY LastNShape
<1> HIDE DEF w
<1>0. n \in Nat /\ n <= m
  OBVIOUS
<1>2. /\ LastN(w, n) \in Seq(S)
      /\ Len(LastN(w, n)) = IF Len(w) > n THEN n ELSE Len(w)
      /\ \A i \in 1..Len(LastN(w, n)) : LastN(w, n)[i] = w[i + Len(w) - Len(LastN(w, n))]
  BY <1>0, <1>1, LastNShape
<1>3. /\ LastN(s, n) \in Seq(S)
      /\ Len(LastN(s, n)) = IF Len(s) > n THEN n ELSE Len(s)
      /\ \A i \in 1..Len(LastN(s, n)) : LastN(s, n)[i] = s[i + Len(s) - Len(LastN(s, n))]
  BY <1>0, LastNShape
<1>4. PICK a \in Nat, b \in Nat :
        a = Len(s) /\ b = Len(w) /\ b = IF a > m THEN m ELSE a
  BY <1>1
<1>5. PICK k \in Nat :
        /\ k = Len(LastN(w, n)) /\ k = Len(LastN(s, n))
        /\ k = IF b > n THEN n ELSE b
  <2>1. b = IF a > m THEN m ELSE a
    BY <1>4
  <2>2. (IF a > n THEN n ELSE a) = IF b > n THEN n ELSE b
    BY <1>0, <2>1
  <2>3. (IF b > n THEN n ELSE b) \in Nat
    BY <1>0
  <2>. QED BY <1>2, <1>3, <1>4, <2>2, <2>3
<1>6. b <= a /\ k <= b
  <2>1. b = IF a > m THEN m ELSE a
    BY <1>4
  <2>2. k = IF b > n THEN n ELSE b
    BY <1>5
  <2>. QED BY <2>1, <2>2
<1>7. ASSUME NEW i \in 1..k
      PROVE  LastN(w, n)[i] = LastN(s, n)[i]
  <2> DEFINE j == i + b - k
  <2>1. j \in 1..b /\ j + a - b = i + a - k
    BY <1>6
  <2>2. LastN(w, n)[i] = w[j]
    BY <1>2, <1>4, <1>5
  <2>3. w[j] = s[j + a - b]
    BY <1>1, <1>4, <2>1
  <2>4. LastN(s, n)[i] = s[i + a - k]
    BY <1>3, <1>4, <1>5
  <2>. QED BY <2>1, <2>2, <2>3, <2>4
<1>8. LastN(w, n) = LastN(s, n)
  BY <1>2, <1>3, <1>5, <1>7, SeqEqual
<1>. QED BY <1>8 DEF w

\* Inserting into a map changes the answer for the inserted key only.
LEMMA GetInsert ==
  ASSUME NEW map, NEW key, NEW value, NEW other
  PROVE  Get(Insert(map, key, value), other) =
           IF other = key THEN Some(value) ELSE Get(map, other)
BY DEF Get, Insert

LEMMA CachedInsert ==
  ASSUME NEW map, NEW key, NEW value, NEW other
  PROVE  Cached(Insert(map, key, value), other) =
           IF other = key THEN value ELSE Cached(map, other)
BY DEF Cached, Insert
-----------------------------------------------------------------------------
Klines == {e.kline : e \in {d \in Events : IsBar(d)}}
KlinesOf(key) == {k \in Klines : BarKey(k) = key}

\* What the engine's map and the history hold of each series is a sequence
\* of that series' bars.
SeriesOK ==
  \A key \in BarKeys :
    /\ Cached(seen, key) \in Seq(KlinesOf(key))
    /\ Cached(bars, key) \in Seq(KlinesOf(key))

QueuesOK ==
  /\ emitted \in Seq(Emission)
  /\ delivered \in Seq(TargetPositions)

\* The inductive invariant.
HInv == TypeOK /\ SeriesOK /\ QueuesOK /\ CacheIsRecentWindow /\ TargetsDeliveredOnce

\* What was asked for in two queues, one after the other, is what was asked
\* for in the first and then in the second.
LEMMA RequestedConcat ==
  ASSUME NEW s \in Seq(TargetPositions), NEW t \in Seq(TargetPositions)
  PROVE  /\ Requested(s) \in Seq(Emission)
         /\ Requested(s \o t) = Requested(s) \o Requested(t)
<1> DEFINE u == s \o t
<1>1. /\ u \in Seq(TargetPositions)
      /\ Len(u) = Len(s) + Len(t)
      /\ \A i \in 1..Len(s) + Len(t) : u[i] = IF i <= Len(s) THEN s[i] ELSE t[i - Len(s)]
  BY ConcatProperties
<1> HIDE DEF u
<1>2. \A q \in Seq(TargetPositions) :
        /\ Requested(q) \in Seq(Emission)
        /\ Len(Requested(q)) = Len(q)
  <2> SUFFICES ASSUME NEW q \in Seq(TargetPositions)
               PROVE  Requested(q) \in Seq(Emission) /\ Len(Requested(q)) = Len(q)
    OBVIOUS
  <2>1. Len(q) \in Nat /\ \A i \in 1..Len(q) : q[i] \in TargetPositions
    BY ElementOfSeq
  <2>2. ASSUME NEW i \in 1..Len(q)
        PROVE  [ts |-> q[i].ts, symbol |-> q[i].symbol, target_qty |-> q[i].target_qty,
                signal_price |-> q[i].signal_price] \in Emission
    BY <2>1 DEF TargetPositions, Emission
  <2>. QED BY <2>1, <2>2 DEF Requested
<1>3. Len(s) \in Nat /\ Len(t) \in Nat
  OBVIOUS
<1> DEFINE r == Requested(s) \o Requested(t)
<1>4. /\ r \in Seq(Emission)
      /\ Len(r) = Len(s) + Len(t)
      /\ \A i \in 1..Len(s) + Len(t) :
           r[i] = IF i <= Len(s) THEN Requested(s)[i] ELSE Requested(t)[i - Len(s)]
  <2>1. /\ Requested(s) \in Seq(Emission) /\ Len(Requested(s)) = Len(s)
        /\ Requested(t) \in Seq(Emission) /\ Len(Requested(t)) = Len(t)
    BY <1>2
  <2> DEFINE rs == Requested(s)
             rt == Requested(t)
  <2>2. rs \in Seq(Emission) /\ rt \in Seq(Emission)
    BY <2>1
  <2> HIDE DEF rs, rt
  <2>3. /\ rs \o rt \in Seq(Emission)
        /\ Len(rs \o rt) = Len(rs) + Len(rt)
        /\ \A i \in 1..Len(rs) + Len(rt) :
             (rs \o rt)[i] = IF i <= Len(rs) THEN rs[i] ELSE rt[i - Len(rs)]
    BY <2>2, ConcatProperties
  <2>. QED BY <2>1, <2>3 DEF rs, rt
<1> HIDE DEF r
<1>5. ASSUME NEW i \in 1..Len(s) + Len(t)
      PROVE  Requested(u)[i] = r[i]
  <2>1. i \in 1..Len(u)
    BY <1>1
  <2>2. CASE i <= Len(s)
    <3>1. i \in 1..Len(s) /\ u[i] = s[i] /\ r[i] = Requested(s)[i]
      BY <1>1, <1>3, <1>4, <2>2
    <3>. QED BY <2>1, <3>1 DEF Requested
  <2>3. CASE ~(i <= Len(s))
    <3>1. i - Len(s) \in 1..Len(t) /\ u[i] = t[i - Len(s)] /\ r[i] = Requested(t)[i - Len(s)]
      BY <1>1, <1>3, <1>4, <2>3
    <3>. QED BY <2>1, <3>1 DEF Requested
  <2>. QED BY <2>2, <2>3
<1>6. Requested(u) = r
  <2>1. Requested(u) \in Seq(Emission) /\ Len(Requested(u)) = Len(s) + Len(t)
    BY <1>1, <1>2
  <2>. QED BY <1>4, <1>5, <2>1, SeqEqual
<1>. QED BY <1>2, <1>6 DEF u, r

LEMMA PositionIsInt ==
  ASSUME TypeOK, NEW s \in Symbols
  PROVE  Position(s) \in Int
BY DEF TypeOK, Position, Get, UnwrapOr, IsSome, Some, None

\* A callback appends what it asks for as well-formed targets, and subscribes to known series.
LEMMA CallbackAppends ==
  ASSUME TypeOK, NEW now \in Int, NEW r \in Reactions, Callback(now, r)
  PROVE  /\ \E new \in Seq(TargetPositions) :
              targets' = targets \o new /\ Requested(new) = Emitted(now, r)
         /\ tick_symbols' \subseteq Symbols
         /\ bar_keys' \subseteq BarKeys
<1> DEFINE new == [i \in 1..Len(r.targets) |-> Stamp(now, r.targets[i])]
<1>1. IsReaction(r)
  BY ReactionsAssumption
<1>2. r.targets \in Seq(Requests) /\ Len(r.targets) \in Nat
  BY <1>1 DEF IsReaction
<1>3. ASSUME NEW i \in 1..Len(r.targets)
      PROVE  Stamp(now, r.targets[i]) \in TargetPositions
  <2>1. r.targets[i] \in Requests
    BY <1>2, ElementOfSeq
  <2>2. Position(r.targets[i].symbol) \in Int
    BY <2>1, PositionIsInt DEF Requests
  <2>3. Some(Position(r.targets[i].symbol)) \in Option(Int)
    BY <2>2 DEF Some, Option
  <2>. QED BY <2>1, <2>3 DEF Stamp, TargetPositions, Requests
<1>4. new \in Seq(TargetPositions)
  BY <1>2, <1>3
<1>5. targets' = targets \o new
  BY DEF Callback
<1>6. /\ tick_symbols' \subseteq Symbols
      /\ bar_keys' \subseteq BarKeys
  BY <1>1 DEF Callback, IsReaction, TypeOK, BarKeys
<1>7. Requested(new) = Emitted(now, r)
  <2>1. Len(new) = Len(r.targets)
    BY <1>2
  <2>2. ASSUME NEW i \in 1..Len(r.targets)
        PROVE  /\ new[i].ts = now /\ new[i].symbol = r.targets[i].symbol
               /\ new[i].target_qty = r.targets[i].target_qty
               /\ new[i].signal_price = r.targets[i].signal_price
    BY DEF Stamp
  <2> HIDE DEF new
  <2>. QED BY <2>1, <2>2 DEF Requested, Emitted
<1>. QED BY <1>4, <1>5, <1>6, <1>7

\* What OnEvent does to the queue of targets, whether or not it dispatches.
LEMMA OnEventAppends ==
  ASSUME TypeOK, NEW e \in Events, NEW r \in Reactions, OnEvent(e, r)
  PROVE  /\ \E new \in Seq(TargetPositions) :
              /\ targets' = targets \o new
              /\ Requested(new) = (IF Dispatched(e) THEN Emitted(CallbackTime(e), r) ELSE <<>>)
         /\ tick_symbols' \subseteq Symbols
         /\ bar_keys' \subseteq BarKeys
         /\ positions' = positions
         /\ bars' = IF IsBar(e) THEN PushBar(bars, e.kline) ELSE bars
<1>1. IsEvent(e)
  BY EventsAssumption
<1>2. /\ targets \in Seq(TargetPositions)
      /\ tick_symbols \subseteq Symbols
      /\ bar_keys \subseteq BarKeys
  BY DEF TypeOK
<1>3. /\ <<>> \in Seq(TargetPositions) /\ targets = targets \o <<>>
      /\ Requested(<<>>) = <<>>
  BY <1>2, ConcatEmptySeq DEF Requested
<1>4. CASE OnTick(e, r)
  <2>1. /\ e.tick.ts_event \in Int /\ e.type = "tick" /\ ~IsBar(e)
        /\ CallbackTime(e) = e.tick.ts_event
        /\ Dispatched(e) <=> e.tick.symbol \in tick_symbols
    BY <1>1, <1>4 DEF OnTick, IsEvent, IsBar, CallbackTime, Dispatched
  <2>2. CASE Dispatched(e)
    <3>1. Callback(e.tick.ts_event, r) /\ positions' = positions /\ bars' = bars
      BY <1>4, <2>1, <2>2 DEF OnTick
    <3>. QED BY <2>1, <2>2, <3>1, CallbackAppends
  <2>3. CASE ~Dispatched(e)
    <3>1. UNCHANGED <<tick_symbols, bar_keys, targets, positions, bars>>
      BY <1>4, <2>1, <2>3 DEF OnTick, subscriptions
    <3>. QED BY <1>2, <1>3, <2>1, <2>3, <3>1
  <2>. QED BY <2>2, <2>3
<1>5. CASE OnKline(e, r)
  <2>1. /\ e.kline.close_time \in Int /\ IsBar(e)
        /\ CallbackTime(e) = e.kline.close_time
        /\ Dispatched(e) <=> BarKey(e.kline) \in bar_keys
    BY <1>1, <1>5 DEF OnKline, IsEvent, IsBar, CallbackTime, Dispatched
  <2>2. CASE Dispatched(e)
    <3>1. /\ Callback(e.kline.close_time, r) /\ positions' = positions
          /\ bars' = PushBar(bars, e.kline)
      BY <1>5, <2>1, <2>2 DEF OnKline
    <3>. QED BY <2>1, <2>2, <3>1, CallbackAppends
  <2>3. CASE ~Dispatched(e)
    <3>1. /\ UNCHANGED <<tick_symbols, bar_keys, targets, positions>>
          /\ bars' = PushBar(bars, e.kline)
      BY <1>5, <2>1, <2>3 DEF OnKline, subscriptions
    <3>. QED BY <1>2, <1>3, <2>1, <2>3, <3>1
  <2>. QED BY <2>2, <2>3
<1>6. CASE OnSchedule(e, r)
  <2>1. /\ e.event.ts \in Int /\ ~IsBar(e) /\ Dispatched(e)
        /\ CallbackTime(e) = e.event.ts
    BY <1>1, <1>6 DEF OnSchedule, IsEvent, IsBar, CallbackTime, Dispatched
  <2>2. Callback(e.event.ts, r) /\ positions' = positions /\ bars' = bars
    BY <1>6 DEF OnSchedule
  <2>. QED BY <2>1, <2>2, CallbackAppends
<1>7. CASE Ignore(e)
  <2>1. UNCHANGED <<tick_symbols, bar_keys, targets, positions, bars>>
    BY <1>7 DEF Ignore, vars, subscriptions
  <2>2. ~IsBar(e) /\ ~Dispatched(e)
    BY <1>7 DEF Ignore, IsBar, Dispatched
  <2>. QED BY <1>2, <1>3, <2>1, <2>2
<1>. QED BY <1>4, <1>5, <1>6, <1>7 DEF OnEvent

\* A pushed bar keeps every series a window of its history.
LEMMA PushBarKeepsWindow ==
  ASSUME SeriesOK, CacheIsRecentWindow, NEW e \in Events, IsBar(e),
         bars' = PushBar(bars, e.kline),
         seen' = Insert(seen, BarKey(e.kline), Append(Cached(seen, BarKey(e.kline)), e.kline))
  PROVE  SeriesOK' /\ CacheIsRecentWindow'
<1> DEFINE k == e.kline
           at == BarKey(k)
<1>1. IsEvent(e)
  BY EventsAssumption
<1>2. k \in Klines /\ at \in BarKeys /\ k \in KlinesOf(at)
  BY <1>1 DEF Klines, KlinesOf, BarKeys, BarKey, IsEvent, IsBar
<1>3. ASSUME NEW key \in BarKeys
      PROVE  /\ Cached(seen', key) \in Seq(KlinesOf(key))
             /\ Cached(bars', key) \in Seq(KlinesOf(key))
             /\ Cached(bars', key) = LastN(Cached(seen', key), MaxBars)
  <2>1. /\ Cached(seen, key) \in Seq(KlinesOf(key))
        /\ Cached(bars, key) \in Seq(KlinesOf(key))
        /\ Cached(bars, key) = LastN(Cached(seen, key), MaxBars)
    BY DEF SeriesOK, CacheIsRecentWindow
  <2>2. CASE key # at
    <3>1. Cached(seen', key) = Cached(seen, key) /\ Cached(bars', key) = Cached(bars, key)
      BY <2>2, CachedInsert DEF PushBar
    <3>. QED BY <2>1, <3>1
  <2>3. CASE key = at
    <3>1. /\ Cached(seen', key) = Append(Cached(seen, key), k)
          /\ Cached(bars', key) = LastN(Append(Cached(bars, key), k), MaxBars)
      <4> DEFINE longer == Append(Cached(seen, at), k)
      <4>1. seen' = Insert(seen, at, longer)
        OBVIOUS
      <4>2. Cached(seen', at) = longer
        <5> HIDE DEF at, longer
        <5>. QED BY <4>1, CachedInsert
      <4>3. Cached(bars', at) = LastN(Append(Cached(bars, at), k), MaxBars)
        BY CachedInsert DEF PushBar
      <4>. QED BY <2>3, <4>2, <4>3
    <3>2. /\ Append(Cached(seen, key), k) \in Seq(KlinesOf(key))
          /\ Append(Cached(bars, key), k) \in Seq(KlinesOf(key))
      BY <1>2, <2>1, <2>3, AppendProperties
    <3>3. LastN(Append(Cached(bars, key), k), MaxBars) \in Seq(KlinesOf(key))
      BY <3>2, LastNShape, MaxBarsAssumption
    <3>4. LastN(Append(Cached(bars, key), k), MaxBars)
            = LastN(Append(Cached(seen, key), k), MaxBars)
      BY <1>2, <2>1, <2>3, LastNAppend, MaxBarsAssumption
    <3>. QED BY <3>1, <3>2, <3>3, <3>4
  <2>. QED BY <2>2, <2>3
<1>. QED BY <1>3 DEF SeriesOK, CacheIsRecentWindow

\* The series part of the type invariant follows from the other parts.
LEMMA WindowsAreTyped ==
  ASSUME NEW cache, NEW past, DOMAIN cache \subseteq BarKeys,
         \A key \in BarKeys : /\ Cached(past, key) \in Seq(KlinesOf(key))
                              /\ Cached(cache, key) \in Seq(KlinesOf(key))
                              /\ Cached(cache, key) = LastN(Cached(past, key), MaxBars)
  PROVE  \A key \in DOMAIN cache :
           /\ Len(cache[key]) <= MaxBars
           /\ \A n \in 1..Len(cache[key]) : BarKey(cache[key][n]) = key
<1> SUFFICES ASSUME NEW key \in DOMAIN cache
             PROVE  /\ Len(cache[key]) <= MaxBars
                    /\ \A n \in 1..Len(cache[key]) : BarKey(cache[key][n]) = key
  OBVIOUS
<1>1. key \in BarKeys /\ Cached(cache, key) = cache[key]
  BY DEF Cached
<1>2. /\ cache[key] \in Seq(KlinesOf(key))
      /\ Cached(past, key) \in Seq(KlinesOf(key))
      /\ cache[key] = LastN(Cached(past, key), MaxBars)
  BY <1>1
<1>3. Len(cache[key]) <= MaxBars
  <2>1. Len(LastN(Cached(past, key), MaxBars)) =
          IF Len(Cached(past, key)) > MaxBars THEN MaxBars ELSE Len(Cached(past, key))
    BY <1>2, LastNShape, MaxBarsAssumption
  <2>2. Len(Cached(past, key)) \in Nat
    BY <1>2
  <2>. QED BY <1>2, <2>1, <2>2, MaxBarsAssumption
<1>4. \A n \in 1..Len(cache[key]) : cache[key][n] \in KlinesOf(key)
  BY <1>2, ElementOfSeq
<1>. QED BY <1>3, <1>4 DEF KlinesOf

LEMMA InitHolds == HInit => HInv
<1> SUFFICES ASSUME HInit PROVE HInv
  OBVIOUS
<1> USE DEF HInit, Init
<1>1. TypeOK
  BY DEF TypeOK, EmptyMap
<1>2. \A key \in BarKeys : Cached(seen, key) = <<>> /\ Cached(bars, key) = <<>>
  BY DEF Cached, EmptyMap
<1>3. SeriesOK
  <2>1. \A key \in BarKeys : <<>> \in Seq(KlinesOf(key))
    OBVIOUS
  <2>. QED BY <1>2, <2>1 DEF SeriesOK
<1>4. LastN(<<>>, MaxBars) = <<>>
  BY SubSeqEmpty, MaxBarsAssumption DEF LastN
<1>5. CacheIsRecentWindow
  BY <1>2, <1>4 DEF CacheIsRecentWindow
<1>6. QueuesOK /\ TargetsDeliveredOnce
  <2>1. <<>> \o <<>> = <<>> /\ Requested(<<>>) = <<>>
    BY ConcatEmptySeq DEF Requested
  <2>. QED BY <2>1 DEF QueuesOK, TargetsDeliveredOnce
<1>. QED BY <1>1, <1>3, <1>5, <1>6 DEF HInv

\* What a callback asks for joins the history as its targets join the queue.
LEMMA EmissionIsRecorded ==
  ASSUME TypeOK, QueuesOK, TargetsDeliveredOnce,
         NEW new \in Seq(TargetPositions), targets' = targets \o new,
         emitted' = emitted \o Requested(new), delivered' = delivered
  PROVE  QueuesOK' /\ TargetsDeliveredOnce' /\ targets' \in Seq(TargetPositions)
<1>1. targets \in Seq(TargetPositions) /\ delivered \in Seq(TargetPositions)
  BY DEF TypeOK, QueuesOK
<1>2. emitted' = Requested(delivered \o targets) \o Requested(new)
  BY DEF TargetsDeliveredOnce
<1>3. Requested(delivered \o targets) \o Requested(new)
        = Requested((delivered \o targets) \o new)
  <2> DEFINE d == delivered \o targets
  <2>1. d \in Seq(TargetPositions)
    BY <1>1, ConcatProperties
  <2> HIDE DEF d
  <2>2. Requested(d \o new) = Requested(d) \o Requested(new)
    BY <2>1, RequestedConcat
  <2>. QED BY <2>2 DEF d
<1>4. (delivered \o targets) \o new = delivered \o (targets \o new)
  <2> DEFINE d == delivered
             t == targets
  <2>1. d \in Seq(TargetPositions) /\ t \in Seq(TargetPositions)
    BY <1>1
  <2> HIDE DEF d, t
  <2>2. (d \o t) \o new = d \o (t \o new)
    BY <2>1, ConcatAssociative
  <2>. QED BY <2>2 DEF d, t
<1>5. emitted' \in Seq(Emission) /\ targets' \in Seq(TargetPositions)
  BY <1>1, RequestedConcat, ConcatProperties DEF QueuesOK
<1>6. emitted' = Requested(delivered \o (targets \o new))
  BY <1>2, <1>3, <1>4, Zenon
<1>. QED BY <1>1, <1>5, <1>6 DEF QueuesOK, TargetsDeliveredOnce

LEMMA InitializeKeeps ==
  ASSUME HInv, NEW r \in Reactions, HInitialize(r)
  PROVE  HInv'
<1> USE DEF HInv
<1>1. Callback(InitTime, r) /\ positions' = positions /\ bars' = bars /\ seen' = seen
  BY DEF HInitialize, Initialize
<1>2. /\ \E new \in Seq(TargetPositions) :
           targets' = targets \o new /\ Requested(new) = Emitted(InitTime, r)
      /\ tick_symbols' \subseteq Symbols
      /\ bar_keys' \subseteq BarKeys
  BY <1>1, CallbackAppends, TimeAssumption
<1>3. QueuesOK' /\ TargetsDeliveredOnce' /\ targets' \in Seq(TargetPositions)
  BY <1>2, EmissionIsRecorded DEF HInitialize
<1>4. TypeOK'
  BY <1>1, <1>2, <1>3 DEF TypeOK
<1>5. SeriesOK' /\ CacheIsRecentWindow'
  BY <1>1 DEF SeriesOK, CacheIsRecentWindow
<1>. QED BY <1>3, <1>4, <1>5

LEMMA OnEventKeeps ==
  ASSUME HInv, NEW e \in Events, NEW r \in Reactions, HOnEvent(e, r)
  PROVE  HInv'
<1> USE DEF HInv
<1>1. /\ \E new \in Seq(TargetPositions) :
           /\ targets' = targets \o new
           /\ Requested(new) = (IF Dispatched(e) THEN Emitted(CallbackTime(e), r) ELSE <<>>)
      /\ tick_symbols' \subseteq Symbols
      /\ bar_keys' \subseteq BarKeys
      /\ positions' = positions
      /\ bars' = IF IsBar(e) THEN PushBar(bars, e.kline) ELSE bars
  BY OnEventAppends DEF HOnEvent
<1>2. QueuesOK' /\ TargetsDeliveredOnce' /\ targets' \in Seq(TargetPositions)
  BY <1>1, EmissionIsRecorded DEF HOnEvent
<1>3. SeriesOK' /\ CacheIsRecentWindow'
  <2>1. CASE IsBar(e)
    BY <1>1, <2>1, PushBarKeepsWindow DEF HOnEvent
  <2>2. CASE ~IsBar(e)
    BY <1>1, <2>2 DEF HOnEvent, SeriesOK, CacheIsRecentWindow
  <2>. QED BY <2>1, <2>2
<1>4. DOMAIN bars' \subseteq BarKeys
  <2>1. CASE IsBar(e)
    <3>1. IsEvent(e)
      BY EventsAssumption
    <3>2. BarKey(e.kline) \in BarKeys
      BY <2>1, <3>1 DEF IsEvent, IsBar, BarKey, BarKeys
    <3>. QED BY <1>1, <2>1, <3>2 DEF PushBar, Insert, TypeOK
  <2>2. CASE ~IsBar(e)
    BY <1>1, <2>2 DEF TypeOK
  <2>. QED BY <2>1, <2>2
<1>5. \A key \in DOMAIN bars' :
        /\ Len(bars'[key]) <= MaxBars
        /\ \A n \in 1..Len(bars'[key]) : BarKey(bars'[key][n]) = key
  BY <1>3, <1>4, WindowsAreTyped DEF SeriesOK, CacheIsRecentWindow
<1>6. TypeOK'
  BY <1>1, <1>2, <1>4, <1>5 DEF TypeOK
<1>. QED BY <1>2, <1>3, <1>6

LEMMA DrainKeeps ==
  ASSUME HInv, HDrainTargets
  PROVE  HInv'
<1> USE DEF HInv, HDrainTargets, DrainTargets, subscriptions
<1>1. /\ targets \in Seq(TargetPositions) /\ delivered \in Seq(TargetPositions)
      /\ emitted = Requested(delivered \o targets)
  BY DEF TypeOK, QueuesOK, TargetsDeliveredOnce
<1>2. targets' = <<>> /\ emitted' = emitted /\ delivered' = delivered \o targets
  OBVIOUS
<1>3. delivered' \in Seq(TargetPositions)
  BY <1>1, <1>2, ConcatProperties
<1>4. delivered' \o <<>> = delivered'
  BY <1>3, ConcatEmptySeq
<1>5. QueuesOK' /\ TargetsDeliveredOnce'
  BY <1>1, <1>2, <1>3, <1>4 DEF QueuesOK, TargetsDeliveredOnce
<1>6. TypeOK' /\ SeriesOK' /\ CacheIsRecentWindow'
  BY DEF TypeOK, SeriesOK, CacheIsRecentWindow
<1>. QED BY <1>5, <1>6

LEMMA SetPositionKeeps ==
  ASSUME HInv, NEW s \in Symbols, NEW q \in Fills, HSetPosition(s, q)
  PROVE  HInv'
<1> USE DEF HInv, HSetPosition, SetPosition, subscriptions, history
<1>1. /\ DOMAIN positions' \subseteq Symbols
      /\ \A t \in DOMAIN positions' : positions'[t] \in Int
  BY TimeAssumption DEF TypeOK, Insert
<1>2. UNCHANGED <<bars, tick_symbols, bar_keys, targets, seen, emitted, delivered>>
  OBVIOUS
<1>3. TypeOK'
  BY <1>1, <1>2 DEF TypeOK
<1>4. SeriesOK' /\ CacheIsRecentWindow' /\ QueuesOK' /\ TargetsDeliveredOnce'
  BY <1>2 DEF SeriesOK, CacheIsRecentWindow, QueuesOK, TargetsDeliveredOnce
<1>. QED BY <1>3, <1>4

LEMMA StepHolds ==
  ASSUME HInv, [HNext]_hvars
  PROVE  HInv'
<1>1. ASSUME NEW r \in Reactions, HInitialize(r)
      PROVE  HInv'
  BY <1>1, InitializeKeeps
<1>2. ASSUME NEW e \in Events, NEW r \in Reactions, HOnEvent(e, r)
      PROVE  HInv'
  BY <1>2, OnEventKeeps
<1>3. CASE HDrainTargets
  BY <1>3, DrainKeeps
<1>4. ASSUME NEW s \in Symbols, NEW q \in Fills, HSetPosition(s, q)
      PROVE  HInv'
  BY <1>4, SetPositionKeeps
<1>5. CASE UNCHANGED hvars
  <2>1. UNCHANGED <<positions, bars, tick_symbols, bar_keys, targets, seen, emitted, delivered>>
    BY <1>5 DEF hvars, vars, subscriptions, history
  <2>. QED BY <2>1 DEF HInv, TypeOK, SeriesOK, QueuesOK, CacheIsRecentWindow,
                       TargetsDeliveredOnce
<1>. QED BY <1>1, <1>2, <1>3, <1>4, <1>5 DEF HNext

THEOREM Invariance == HSpec => []HInv
<1>. QED BY InitHolds, StepHolds, PTL DEF HSpec

\* The engine's state is well-typed and no series of the cache outgrows
\* max_bars_per_series, whatever the strategy and the events.
THEOREM TypeCorrectness == HSpec => []TypeOK
<1>1. HInv => TypeOK
  BY DEF HInv
<1>. QED BY <1>1, Invariance, PTL

\* push_bar keeps, for every series and every limit, exactly the most recent
\* bars in the order they arrived.
THEOREM CacheCorrectness == HSpec => []CacheIsRecentWindow
<1>1. HInv => CacheIsRecentWindow
  BY DEF HInv
<1>. QED BY <1>1, Invariance, PTL

\* recent_bars answers from the bounded cache as it would from the whole
\* history, for every count up to the limit.
THEOREM RecentBarsCorrectness == HSpec => []RecentBarsAreExact
<1>1. HInv => RecentBarsAreExact
  <2> SUFFICES ASSUME HInv, NEW key \in BarKeys, NEW n \in 0..MaxBars
               PROVE  RecentBars(bars, key, n) = LastN(Cached(seen, key), n)
    BY DEF RecentBarsAreExact
  <2>1. /\ Cached(seen, key) \in Seq(KlinesOf(key))
        /\ Cached(bars, key) = LastN(Cached(seen, key), MaxBars)
    BY DEF HInv, SeriesOK, CacheIsRecentWindow
  <2>2. LastN(LastN(Cached(seen, key), MaxBars), n) = LastN(Cached(seen, key), n)
    BY <2>1, LastNOfLastN, MaxBarsAssumption
  <2>. QED BY <2>1, <2>2 DEF RecentBars
<1>. QED BY <1>1, Invariance, PTL

\* Every target a callback asks for is drained once, in order and with the
\* time of its callback, whatever the order of callbacks, failures and drains.
THEOREM DeliveryCorrectness == HSpec => []TargetsDeliveredOnce
<1>1. HInv => TargetsDeliveredOnce
  BY DEF HInv
<1>. QED BY <1>1, Invariance, PTL
=============================================================================
