----------------------------- MODULE EventTime -----------------------------
(***************************************************************************)
(* The time of a market event and the order in which a replay takes a      *)
(* collection of them.                                                     *)
(***************************************************************************)
EXTENDS Option, SequencesExt

\* Mutant: a bar counts from its opening.
EventTsOpening(event) ==
  CASE event.type = "tick" -> event.tick.ts_event
    [] event.type \in {"kline", "bar_closed"} -> event.kline.open_time
    [] event.type = "book_ticker" -> event.book_ticker.ts_event
    [] event.type \in {"schedule", "session"} -> event.event.ts

EventTs(event) ==
  CASE event.type = "tick" -> event.tick.ts_event
    [] event.type \in {"kline", "bar_closed"} -> event.kline.close_time
    [] event.type = "book_ticker" -> event.book_ticker.ts_event
    [] event.type \in {"schedule", "session"} -> event.event.ts

\* Mutant: the events are not sorted.
Unsorted(seq) == seq

\* The elements of a sequence that come before its n-th one when it is sorted:
\* sort_by_key is stable, events of one time keep the order they came in.
Before(seq, n) ==
  {m \in 1..Len(seq) :
     \/ EventTs(seq[m]) < EventTs(seq[n])
     \/ EventTs(seq[m]) = EventTs(seq[n]) /\ m < n}

StableSort(seq) ==
  [k \in 1..Len(seq) |->
     seq[CHOOSE n \in 1..Len(seq) : Cardinality(Before(seq, n)) = k - 1]]
=============================================================================
