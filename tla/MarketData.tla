----------------------------- MODULE MarketData -----------------------------
(***************************************************************************)
(* wt-market: a BinanceWsReader that turns the messages of a websocket     *)
(* connection into market events, and the REST klines a caller asks for    *)
(* beside it.  A connection keeps the order of its messages; it may break  *)
(* and lose those under way, or be closed by the exchange, and the caller  *)
(* connects again.  A caller may also drop a call of next_event that has   *)
(* not returned.  Payloads have the field names of the wire.               *)
(*                                                                         *)
(*   payload  [e |-> "kline", s, t, T, c, x]   open and close time, close, *)
(*                                             whether it is final         *)
(*            [e |-> "aggTrade", s, T, p]      time and price              *)
(*            [e |-> "bookTicker", s, E, T, b] times, Options, and the bid *)
(*            [e |-> "other"]                  anything that does not      *)
(*                                             parse as one of these; a    *)
(*                                             trade that parses is like   *)
(*                                             an aggTrade                 *)
(***************************************************************************)
EXTENDS EventTime

CONSTANTS
  Streams,      \* the streams connected to: [e, s]
  Interval,     \* the interval of the kline streams
  QuoteTimes,   \* which of the times E and T the quotes of a symbol have: a
                \* function from symbols to subsets of {"E", "T"}
  Lags,         \* how many ms before the end of the open bar the exchange dates
                \* a trade or a quote that it publishes; negative for after it
  Limit,        \* the most rows a REST answer has
  MaxItems,     \* bound on the number of payloads published
  MaxWire,      \* bound on the number of messages under way
  MaxConnects   \* bound on the number of connections

ASSUME StreamsAssumption == \A stream \in Streams : stream.e \in {"kline", "aggTrade", "bookTicker"}

ASSUME BoundsAssumption ==
  Lags \subseteq Int /\ Limit \in Nat /\ MaxItems \in Nat /\ MaxWire \in Nat /\ MaxConnects \in Nat

VARIABLES
  published,  \* the exchange: every payload published, in order
  conn,       \* "none", "live", or "over" when no further message will come
  wire,       \* the messages under way: [type, item], item the number of
              \* payloads published when it was sent
  call,       \* next_event: "idle", "awaiting", or "ended" by Ok(None)
  connects,   \* number of connections made
  received,   \* history: what next_event made of the payloads it was given,
              \* [conn, item, event], event None for an error
  backfill    \* Option, the latest REST answer: [conn, symbol, rows]

reader == <<conn, wire, call, connects, received>>
vars == <<published, reader, backfill>>

Init ==
  /\ published = <<>>
  /\ conn = "none"
  /\ wire = <<>>
  /\ call = "idle"
  /\ connects = 0
  /\ received = <<>>
  /\ backfill = None
-----------------------------------------------------------------------------
\* Milliseconds of the exchange to the nanoseconds of wt-core.
MsToNs(ms) == ms * 1000000

\* Mutant: the time of a bar is that of its opening.
IntoKlineOpening(p) ==
  [symbol |-> p.s, interval |-> Interval, open_time |-> MsToNs(p.t), close_time |-> MsToNs(p.t),
   close |-> p.c, is_final |-> p.x]

IntoKline(p) ==
  [symbol |-> p.s, interval |-> Interval, open_time |-> MsToNs(p.t), close_time |-> MsToNs(p.T),
   close |-> p.c, is_final |-> p.x]

IntoTick(p) == [symbol |-> p.s, ts_event |-> MsToNs(p.T), price |-> p.p]

\* A book ticker without any time is at time zero.
IntoBookTicker(p) ==
  [symbol |-> p.s, ts_event |-> MsToNs(UnwrapOr(p.E, UnwrapOr(p.T, 0))), bid_price |-> p.b]

\* Mutant: every kline counts as closed.
ParseAllClosed(p) ==
  CASE p.e = "aggTrade" -> Some([type |-> "tick", tick |-> IntoTick(p)])
    [] p.e = "kline" -> Some([type |-> "bar_closed", kline |-> IntoKline(p)])
    [] p.e = "bookTicker" -> Some([type |-> "book_ticker", book_ticker |-> IntoBookTicker(p)])
    [] OTHER -> None

\* parse_ws_market_event, None for an error.
ParseEvent(p) ==
  CASE p.e = "aggTrade" -> Some([type |-> "tick", tick |-> IntoTick(p)])
    [] p.e = "kline" ->
         Some([type |-> IF p.x THEN "bar_closed" ELSE "kline", kline |-> IntoKline(p)])
    [] p.e = "bookTicker" -> Some([type |-> "book_ticker", book_ticker |-> IntoBookTicker(p)])
    [] OTHER -> None
-----------------------------------------------------------------------------
\* The caller's call; it waits until Read answers it.
NextEvent ==
  /\ conn # "none" /\ call = "idle"
  /\ call' = "awaiting"
  /\ UNCHANGED <<published, conn, wire, connects, received, backfill>>

\* Text and binary messages are parsed alike, and an error is returned too.
ReadData ==
  /\ Head(wire).type = "data"
  /\ received' = Append(received,
       [conn |-> connects, item |-> Head(wire).item,
        event |-> ParseEvent(published[Head(wire).item])])
  /\ call' = "idle"

\* Mutant: a ping ends the stream.
PingEnds ==
  /\ Head(wire).type = "ping"
  /\ call' = "ended"
  /\ UNCHANGED received

\* Ping and Pong: the loop goes round.
ReadPing ==
  /\ Head(wire).type = "ping"
  /\ UNCHANGED <<call, received>>

ReadClose ==
  /\ Head(wire).type = "close"
  /\ call' = "ended"
  /\ UNCHANGED received

\* The transport's error is returned once; after it the stream has ended.
ReadError ==
  /\ Head(wire).type = "error"
  /\ call' = "idle"
  /\ UNCHANGED received

\* One round of the loop of next_event.
Read ==
  /\ call = "awaiting"
  /\ \/ /\ wire # <<>>
        /\ wire' = Tail(wire)
        /\ ReadData \/ ReadPing \/ ReadClose \/ ReadError
     \/ /\ wire = <<>> /\ conn = "over"
        /\ call' = "ended"
        /\ UNCHANGED <<wire, received>>
  /\ UNCHANGED <<published, conn, connects, backfill>>

\* Mutant: a message is taken before the call can be dropped, and lost with it.
DropCallLosing ==
  /\ call = "awaiting"
  /\ call' = "idle"
  /\ wire' = IF wire = <<>> THEN wire ELSE Tail(wire)
  /\ UNCHANGED <<published, conn, connects, received, backfill>>

\* The caller drops the future, as in a select or a timeout.
DropCall ==
  /\ call = "awaiting"
  /\ call' = "idle"
  /\ UNCHANGED <<published, conn, wire, connects, received, backfill>>

\* connect_combined_stream, when the last connection is over, whether or not
\* its messages have been read: a reader of its own.
Connect ==
  /\ connects < MaxConnects /\ conn # "live" /\ call # "awaiting"
  /\ conn' = "live"
  /\ wire' = <<>>
  /\ call' = "idle"
  /\ connects' = connects + 1
  /\ UNCHANGED <<published, received, backfill>>
-----------------------------------------------------------------------------
\* The exchange.  The bars of a symbol are numbered and a bar closes once.
BarMs == 2

IsKlineOf(p, symbol) == p.e = "kline" /\ p.s = symbol

\* The places of the payloads of a symbol that close a bar.
Finals(symbol) ==
  {n \in 1..Len(published) : IsKlineOf(published[n], symbol) /\ published[n].x}

\* The open time of the bar of a symbol that is open.
Opens(symbol) == Cardinality(Finals(symbol)) * BarMs

\* Trades and quotes come at any moment of the open bar, and some when the bar
\* they are of has closed or before the open one does.
Moments(symbol) == {t \in {Opens(symbol) + BarMs - 1 - lag : lag \in Lags} : t >= 0}

\* What a stream has published before.
Earlier(stream) ==
  {n \in 1..Len(published) : published[n].e = stream.e /\ published[n].s = stream.s}

\* A trade is not before an earlier one of its symbol, nor is a quote, whose
\* event is not before its transaction.
Trades(stream) ==
  {[e |-> "aggTrade", s |-> stream.s, T |-> T, p |-> Len(published) + 1] :
     T \in {t \in Moments(stream.s) : \A n \in Earlier(stream) : published[n].T <= t}}

Quotes(stream) ==
  LET field(name, time) == IF name \in QuoteTimes[stream.s] THEN Some(time) ELSE None
  IN  {[e |-> "bookTicker", s |-> stream.s, E |-> field("E", times[1]),
        T |-> field("T", times[2]), b |-> Len(published) + 1] :
         times \in {pair \in Moments(stream.s) \X Moments(stream.s) :
                     /\ pair[2] <= pair[1]
                     /\ \A n \in Earlier(stream) :
                          /\ UnwrapOr(published[n].E, 0) <= pair[1]
                          /\ UnwrapOr(published[n].T, 0) <= pair[2]}}

Payloads(stream) ==
  CASE stream.e = "kline" ->
         {[e |-> "kline", s |-> stream.s, t |-> Opens(stream.s),
           T |-> Opens(stream.s) + BarMs - 1, c |-> Len(published) + 1, x |-> x] :
            x \in BOOLEAN}
    [] stream.e = "aggTrade" -> Trades(stream)
    [] stream.e = "bookTicker" -> Quotes(stream)

Send(type) == wire' = Append(wire, [type |-> type, item |-> Len(published')])

Publish ==
  /\ Len(published) < MaxItems
  /\ \E item \in (UNION {Payloads(stream) : stream \in Streams}) \cup {[e |-> "other"]} :
       published' = Append(published, item)
  /\ IF conn = "live" THEN Len(wire) < MaxWire /\ Send("data") ELSE UNCHANGED wire
  /\ UNCHANGED <<conn, call, connects, received, backfill>>

\* One at a time.
Ping ==
  /\ conn = "live" /\ Len(wire) < MaxWire
  /\ \A n \in 1..Len(wire) : wire[n].type # "ping"
  /\ UNCHANGED published
  /\ Send("ping")
  /\ UNCHANGED <<conn, call, connects, received, backfill>>

Close ==
  /\ conn = "live"
  /\ conn' = "over"
  /\ UNCHANGED published
  /\ Send("close")
  /\ UNCHANGED <<call, connects, received, backfill>>

\* Any of the latest messages are lost.
Break ==
  /\ conn = "live"
  /\ conn' = "over"
  /\ \E n \in 0..Len(wire) :
       wire' = Append(SubSeq(wire, 1, n), [type |-> "error", item |-> Len(published)])
  /\ UNCHANGED <<published, call, connects, received, backfill>>

\* The rows of a REST answer: the bars of a symbol, each with its latest close,
\* the last one still open if the exchange has begun it.
BarsOf(symbol) ==
  LET klines == {n \in 1..Len(published) : IsKlineOf(published[n], symbol)}
      latest == {n \in klines : \A m \in klines : m > n => published[m].t # published[n].t}
      asked  == {n \in latest : Cardinality({m \in latest : m > n}) < Limit}
  IN  Chosen(published, asked)

\* Mutant: the open time is read from the place of the close time.
FromRowShifted(row) == [IntoKline(row) EXCEPT !.open_time = MsToNs(row.T), !.is_final = TRUE]

\* RestKlineRow::into_kline: a row does not say whether it is final.
FromRow(row) == [IntoKline(row) EXCEPT !.is_final = TRUE]

\* klines: the answer of one moment; one that fails changes nothing.  Callers
\* are bounded to one answer for each connection, while it lasts.
Klines(symbol) ==
  /\ conn = "live" /\ (backfill # None => backfill[1].conn # connects)
  /\ backfill' = Some([conn |-> connects, symbol |-> symbol,
       rows |-> [n \in 1..Len(BarsOf(symbol)) |-> FromRow(BarsOf(symbol)[n])]])
  /\ UNCHANGED <<published, reader>>
-----------------------------------------------------------------------------
Next ==
  \/ NextEvent
  \/ Read
  \/ DropCall
  \/ Connect
  \/ Publish
  \/ Ping
  \/ Close
  \/ Break
  \/ \E stream \in Streams : stream.e = "kline" /\ Klines(stream.s)

Spec == Init /\ [][Next]_vars

\* The caller keeps asking, and calls that it drops again and again are polled
\* now and then: a message that has arrived is then read.  Nothing is assumed
\* of the exchange, nor that the caller connects again.
FairSpec == Spec /\ WF_vars(NextEvent) /\ SF_vars(Read)
-----------------------------------------------------------------------------
Learned(event) ==
  IF event = None THEN None
  ELSE CASE event[1].type \in {"kline", "bar_closed"} ->
              Some([symbol |-> event[1].kline.symbol, price |-> event[1].kline.close,
                    what |-> IF event[1].type = "kline" THEN "open bar" ELSE "closed bar"])
         [] event[1].type = "book_ticker" ->
              Some([symbol |-> event[1].book_ticker.symbol, what |-> "quote",
                    price |-> event[1].book_ticker.bid_price])
         [] event[1].type = "tick" ->
              Some([symbol |-> event[1].tick.symbol, what |-> "trade",
                    price |-> event[1].tick.price])

F == INSTANCE Feed WITH
  learned <- [n \in 1..Len(received) |-> Learned(received[n].event)],
  at <- IF received = <<>> THEN 0 ELSE Last(received).item,
  gap <- received = <<>> \/ Last(received).conn # connects

\* next_event gives its callers what Feed promises, whatever calls they drop
\* and whatever the connections do: nothing twice, out of order or for what it
\* is not, and nothing missed while a connection lasts.
ImplementsFeed == F!Spec

Got(n) == received[n].event[1]
IsBar(n) == received[n].event # None /\ Got(n).type \in {"kline", "bar_closed"}

\* Once next_event has given a bar as closed it gives neither that bar nor an
\* earlier one of the symbol again, also when it was reading another
\* connection: the engines' caches count on it.
BarsCloseOnce ==
  \A m, n \in 1..Len(received) :
    /\ m < n /\ IsBar(m) /\ IsBar(n)
    /\ Got(m).type = "bar_closed" /\ Got(n).kline.symbol = Got(m).kline.symbol
    => Got(n).kline.open_time > Got(m).kline.open_time

\* The closed bars of an answer of klines and of the connection it was asked
\* on, those of the connection in place of the rows of the same bar.
Merged ==
  LET asked  == backfill[1]
      symbol == asked.symbol
      live == {Got(n).kline : n \in {n \in 1..Len(received) :
                 /\ received[n].conn = connects /\ IsBar(n)
                 /\ Got(n).type = "bar_closed" /\ Got(n).kline.symbol = symbol}}
  IN  live \cup {row \in ToSet(asked.rows) : \A k \in live : k.open_time # row.open_time}

\* A caller that connects, then asks for klines and lets closed bars replace
\* the rows of the same bar has, once it has read what is under way, every bar
\* closed since the first row, with the close it closed at; what is not closed
\* is the last bar, although klines calls every row final.
MergeIsExact ==
  conn = "live" /\ wire = <<>> /\ backfill # None /\ backfill[1].conn = connects =>
    LET rows   == backfill[1].rows
        finals == {IntoKline(published[n]) : n \in Finals(backfill[1].symbol)}
    IN  rows # <<>> =>
          /\ \A k \in finals : k.open_time >= Head(rows).open_time => k \in Merged
          /\ \A k \in Merged \ finals : \A other \in Merged : other.open_time <= k.open_time

IsOf(stream, event) ==
  CASE stream.e = "kline" ->
         event.type \in {"kline", "bar_closed"} /\ event.kline.symbol = stream.s
    [] stream.e = "aggTrade" -> event.type = "tick" /\ event.tick.symbol = stream.s
    [] stream.e = "bookTicker" ->
         event.type = "book_ticker" /\ event.book_ticker.symbol = stream.s

\* Everything received, sorted by its times as a replay does.  Each stream stays
\* in the order it was received in: a bar's open states before its close, and
\* the quotes without a time, all of which the replay puts first.  And a
\* closed bar comes when its time is over, whenever it and the trades arrived:
\* after its symbol's trades of before the bar's last moment, before those of
\* after its end.
ReplayKeepsOrder ==
  LET events == [n \in 1..Len(received) |-> received[n].event[1]]
      given  == Chosen(events, {n \in 1..Len(received) : received[n].event # None})
      replay == StableSort(given)
      only(stream, seq) == Chosen(seq, {n \in 1..Len(seq) : IsOf(stream, seq[n])})
  IN  /\ \A stream \in Streams : only(stream, replay) = only(stream, given)
      /\ \A m, n \in 1..Len(replay) :
           /\ replay[m].type = "bar_closed" /\ replay[n].type = "tick"
           /\ replay[m].kline.symbol = replay[n].tick.symbol
           => LET opens == replay[m].kline.open_time
                  time  == replay[n].tick.ts_event
              IN  /\ time < opens + MsToNs(BarMs - 1) => n < m
                  /\ time >= opens + MsToNs(BarMs) => m < n

\* What has arrived on a connection is read or lost with it: neither pings nor
\* dropped calls nor unreadable payloads keep the caller from it.
ArrivedIsRead ==
  \A n \in 1..MaxItems :
    (\E m \in 1..Len(wire) : wire[m] = [type |-> "data", item |-> n])
      ~> (\A m \in 1..Len(wire) : wire[m] # [type |-> "data", item |-> n])
=============================================================================
