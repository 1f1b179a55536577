----------------------------- MODULE KlineScan -----------------------------
(***************************************************************************)
(* scan_klines of wt-storage: which rows of a file of klines a reader asks *)
(* for.  A filter has the arguments after the path: a set of symbols, and  *)
(* an interval, a start and an end, Options.                               *)
(***************************************************************************)
EXTENDS Option

\* Mutant: the end of the window is part of it.
MatchesThroughEnd(filter, row) ==
  /\ filter.symbols = {} \/ row.symbol \in filter.symbols
  /\ IsSome(filter.interval) => row.interval = filter.interval[1]
  /\ IsSome(filter.start) => row.open_time >= filter.start[1]
  /\ IsSome(filter.end) => row.open_time <= filter.end[1]

\* No symbols are all symbols; the window is open at its end.
Matches(filter, row) ==
  /\ filter.symbols = {} \/ row.symbol \in filter.symbols
  /\ IsSome(filter.interval) => row.interval = filter.interval[1]
  /\ IsSome(filter.start) => row.open_time >= filter.start[1]
  /\ IsSome(filter.end) => row.open_time < filter.end[1]

ScanKlines(filter, rows) == Chosen(rows, {n \in 1..Len(rows) : Matches(filter, rows[n])})
=============================================================================
