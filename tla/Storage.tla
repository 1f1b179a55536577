------------------------------ MODULE Storage ------------------------------
(***************************************************************************)
(* wt-storage: batches of klines written to partition files and read back  *)
(* with filters.  A recorder writes and another process, such as the       *)
(* backtest CLI, reads: neither takes a lock, and write_ipc truncates the  *)
(* file it replaces before it writes.  The writer may fail or be killed at *)
(* any point.  A read takes time from the opening of the file to its rows, *)
(* and a write of the same file in between may leave it with anything.     *)
(* What a process has written survives it; a loss of power is not          *)
(* modelled, nor is a batch of ticks, which has the same operations and no *)
(* way back to Tick.                                                       *)
(***************************************************************************)
EXTENDS KlineScan

CONSTANTS
  Partitions,  \* the values of PartitionPath a writer uses
  Batches,     \* the sequences of klines it writes
  Filters,     \* the arguments of scan_klines after the path
  Exact        \* closes below it survive a conversion to f64 and back

\* A partition has the fields of PartitionPath, the interval an Option.
ASSUME PartitionsAssumption ==
  \A p \in Partitions :
    /\ p = [data_kind |-> p.data_kind, interval |-> p.interval, date |-> p.date,
            symbol |-> p.symbol, part |-> p.part]
    /\ p.interval \in {None, Some(p.interval[1])}

\* A batch is a sequence of klines.
ASSUME BatchesAssumption ==
  \A b \in Batches :
    /\ b \in Seq({b[n] : n \in 1..Len(b)})
    /\ \A n \in 1..Len(b) :
         /\ b[n] = [symbol |-> b[n].symbol, interval |-> b[n].interval,
                    open_time |-> b[n].open_time, close |-> b[n].close]
         /\ b[n].open_time \in Int

\* A filter has the fields Matches reads.
ASSUME FiltersAssumption ==
  \A f \in Filters :
    /\ f = [symbols |-> f.symbols, interval |-> f.interval, start |-> f.start, end |-> f.end]
    /\ \A bound \in {f.start, f.end} : IsSome(bound) => bound[1] \in Int

\* Closes are integers in units of the last place and have at most one digit
\* more than survive.
ASSUME ExactAssumption ==
  /\ Exact \in Nat \ {0}
  /\ \A b \in Batches : \A n \in 1..Len(b) : b[n].close \in 0..(10 * Exact - 1)

VARIABLES
  files,    \* map from path to [rows, whole]
  writing,  \* Option, the write_feather under way: [partition, items, truncated]
  reading,  \* Option, the read_klines_ipc under way or just returned:
            \* [partition, filter, phase, result], the result an Option; the
            \* phase is "lazy", "open" or, once a write has changed the open
            \* file, "torn"
  saved     \* history: map from partition to the last write that truncated
            \* its file, [items, finished]

vars == <<files, writing, reading, saved>>

Init ==
  /\ files = EmptyMap
  /\ writing = None
  /\ reading = None
  /\ saved = EmptyMap
-----------------------------------------------------------------------------
\* Mutant: the interval is left out of the path.
ToPathWithoutInterval(partition) ==
  <<partition.data_kind, partition.date, partition.symbol, partition.part>>

ToPath(partition) ==
  <<partition.data_kind>> \o partition.interval \o
    <<partition.date, partition.symbol, partition.part>>

\* A close after decimal_to_f64 and required_decimal: the nearest number that
\* f64 keeps.
Stored(close) == IF close < Exact THEN close ELSE 10 * ((close + 5) \div 10)

ToDataframe(items) == [n \in 1..Len(items) |-> [items[n] EXCEPT !.close = Stored(@)]]

\* An open file changes under its reader when it is truncated or written.
Disturbed(path) ==
  IF /\ IsSome(reading) /\ reading[1].result = None
     /\ reading[1].phase = "open" /\ ToPath(reading[1].partition) = path
  THEN Some([reading[1] EXCEPT !.phase = "torn"])
  ELSE reading

WriteFeather(partition, items) ==
  /\ writing = None
  /\ writing' = Some([partition |-> partition, items |-> items, truncated |-> FALSE])
  /\ UNCHANGED <<files, reading, saved>>

\* Mutant: an earlier file is opened and kept.
CreateFileKeeping ==
  /\ IsSome(writing) /\ ~writing[1].truncated
  /\ LET w == writing[1]
         old == UnwrapOr(Get(files, ToPath(w.partition)), [rows |-> <<>>, whole |-> FALSE])
     IN  /\ files' = Insert(files, ToPath(w.partition), old)
         /\ saved' = Insert(saved, w.partition, [items |-> w.items, finished |-> FALSE])
         /\ reading' = Disturbed(ToPath(w.partition))
         /\ writing' = Some([w EXCEPT !.truncated = TRUE])

\* File::create, after the directories are there: nothing is left of an
\* earlier file.
CreateFile ==
  /\ IsSome(writing) /\ ~writing[1].truncated
  /\ LET w == writing[1]
     IN  /\ files' = Insert(files, ToPath(w.partition), [rows |-> <<>>, whole |-> FALSE])
         /\ saved' = Insert(saved, w.partition, [items |-> w.items, finished |-> FALSE])
         /\ reading' = Disturbed(ToPath(w.partition))
         /\ writing' = Some([w EXCEPT !.truncated = TRUE])

\* IpcWriter::finish: the footer comes last and makes the file readable.
FinishFile ==
  /\ IsSome(writing) /\ writing[1].truncated
  /\ LET w == writing[1]
     IN  /\ files' = Insert(files, ToPath(w.partition),
                            [rows |-> ToDataframe(w.items), whole |-> TRUE])
         /\ saved' = Insert(saved, w.partition, [items |-> w.items, finished |-> TRUE])
         /\ reading' = Disturbed(ToPath(w.partition))
  /\ writing' = None

\* An error of the file system, or the end of the process.
FailWrite ==
  /\ IsSome(writing)
  /\ writing' = None
  /\ UNCHANGED <<files, reading, saved>>
-----------------------------------------------------------------------------
\* An error, or the end of the process that reads.
Failed == [ok |-> FALSE, rows |-> <<>>]

\* scan_ipc: a missing file is an error at once, the rest is lazy.
Scan(partition, filter) ==
  /\ ~(IsSome(reading) /\ reading[1].result = None)
  /\ reading' = Some([partition |-> partition, filter |-> filter, phase |-> "lazy",
                      result |-> IF ToPath(partition) \in DOMAIN files THEN None
                                                                       ELSE Some(Failed)])
  /\ UNCHANGED <<files, writing, saved>>

\* collect opens the file as it is by now and starts to read.
OpenFile ==
  /\ IsSome(reading) /\ reading[1].result = None /\ reading[1].phase = "lazy"
  /\ reading' = Some([reading[1] EXCEPT !.phase = "open"])
  /\ UNCHANGED <<files, writing, saved>>

Return(result) ==
  /\ reading' = Some([reading[1] EXCEPT !.result = Some(result)])
  /\ UNCHANGED <<files, writing, saved>>

\* The read comes to its end with no write in between: without a footer the
\* file is not readable.
Collect ==
  /\ IsSome(reading) /\ reading[1].result = None /\ reading[1].phase = "open"
  /\ LET file == files[ToPath(reading[1].partition)]
     IN  Return(IF file.whole
                THEN [ok |-> TRUE, rows |-> ScanKlines(reading[1].filter, file.rows)]
                ELSE Failed)

\* Rows of one batch with some of another's in their places.
Mixed(items, others, places) ==
  [n \in 1..Len(items) |-> IF n \in places /\ n <= Len(others) THEN others[n] ELSE items[n]]

\* The read comes to its end with a write in between: it fails, or it returns
\* rows of before and after.
CollectTorn ==
  /\ IsSome(reading) /\ reading[1].result = None /\ reading[1].phase = "torn"
  /\ \/ Return(Failed)
     \/ \E items, others \in Batches : \E places \in SUBSET (1..Len(items)) :
          LET rows == ToDataframe(Mixed(items, others, places))
          IN  Return([ok |-> TRUE, rows |-> ScanKlines(reading[1].filter, rows)])

Next ==
  \/ \E p \in Partitions, b \in Batches : WriteFeather(p, b)
  \/ CreateFile
  \/ FinishFile
  \/ FailWrite
  \/ \E p \in Partitions, f \in Filters : Scan(p, f)
  \/ OpenFile
  \/ Collect
  \/ CollectTorn

Spec == Init /\ [][Next]_vars
-----------------------------------------------------------------------------
\* A file's contents as of the write it comes from, or what is missing.
Contents(partition) == Get(files, ToPath(partition))

\* Partitions never share a file: whatever is written to one of them, the
\* others keep what they hold, also when the write fails half way.
OthersUntouched ==
  [][ \A p \in Partitions :
        Contents(p)' # Contents(p) => IsSome(writing) /\ writing[1].partition = p ]_vars

\* Rows that are the wanted ones in order: closes come back as they were as far
\* as f64 keeps them, the others within half a unit of the last digit kept.
SameRows(rows, wanted) ==
  /\ Len(rows) = Len(wanted)
  /\ \A n \in 1..Len(rows) :
       /\ [rows[n] EXCEPT !.close = 0] = [wanted[n] EXCEPT !.close = 0]
       /\ IF wanted[n].close < Exact
          THEN rows[n].close = wanted[n].close
          ELSE rows[n].close - wanted[n].close \in -5..5

\* A read whose file no write changes between its opening and its end is of
\* the batch last written to the partition: if that write has finished it
\* returns exactly the matching rows, complete and in order, never rows of an
\* older batch, and if the write has failed half way or is still under way it
\* fails.  A write that comes in between leaves the read no promise at all.
ReadsLastBatch ==
  [][ Collect =>
        LET r    == reading'[1]
            last == saved[r.partition]
        IN  /\ r.partition \in DOMAIN saved
            /\ r.result[1].ok <=> last.finished
            /\ last.finished =>
                 SameRows(r.result[1].rows, ScanKlines(r.filter, last.items)) ]_vars

\* The pairs of filters that differ in their windows alone, the second window
\* starting where the first one ends.
AdjacentWindows ==
  {pair \in Filters \X Filters :
     LET first == pair[1]
         second == pair[2]
     IN  /\ IsSome(first.start) /\ IsSome(first.end) /\ IsSome(second.end)
         /\ first.end = second.start
         /\ first.start[1] <= first.end[1] /\ second.start[1] <= second.end[1]
         /\ first.symbols = second.symbols /\ first.interval = second.interval}

\* Reading a span window by window, as a caller does that splits a long
\* backtest, reads every bar of it once: windows that meet neither share a
\* bar nor miss one.
WindowsMeet ==
  \A p \in DOMAIN files : \A pair \in AdjacentWindows :
    LET count(filter) == Len(ScanKlines(filter, files[p].rows))
        span == [pair[1] EXCEPT !.end = pair[2].end]
    IN  count(pair[1]) + count(pair[2]) = count(span)
=============================================================================
