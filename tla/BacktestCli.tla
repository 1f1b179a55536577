---------------------------- MODULE BacktestCli ----------------------------
(***************************************************************************)
(* wt-backtest-cli: one run of the command line.  It checks its            *)
(* configuration, reads the closed bars of a window from a file, replays   *)
(* them to the moving-average cross and leaves the metrics of the result   *)
(* in metrics.json, where an earlier run may have left its own.  Any call  *)
(* of the file system may fail, and the process may end between any two.   *)
(*                                                                         *)
(* An invocation is the command's arguments [strategy, input], Options,    *)
(* its configuration [mode, cta, sel, backtest, input_path, start_ts,      *)
(* end_ts, rates], where cta, sel and backtest say which sections there    *)
(* are and rates whether the fees are finite numbers, and the files there  *)
(* are, a map from paths to rows.  The sections that describe the strategy *)
(* and the account are the constants of MaCross.                           *)
(***************************************************************************)
EXTENDS MaCross, KlineScan

CONSTANT Invocations  \* what the command may be called with: [args, config, files]

VARIABLES
  call,     \* the invocation
  stage,    \* "launch", "load", "run", "report", "write", "print" or "exited"
  success,  \* whether the run exited with Ok
  metrics   \* metrics.json, an Option of one of the contents below

cli == <<call, stage, success, metrics>>
cliVars == <<vars, cli>>

Rp == INSTANCE Metrics WITH
        Qtys <- {}, Prices <- {}, MaxTrades <- 0, MaxMarks <- 0, MaxSteps <- 0

\* What an earlier run left, a file that ends in the middle, and a summary.
Earlier == [kind |-> "earlier"]
Cut == [kind |-> "cut"]
Whole(summary) == [kind |-> "whole", summary |-> summary]

CliInit ==
  /\ Init
  /\ call \in Invocations
  /\ stage = "launch"
  /\ success = FALSE
  /\ metrics \in {None, Some(Earlier)}
-----------------------------------------------------------------------------
DefaultStrategy(config) ==
  CASE config.cta -> "cta-ma-cross"
    [] ~config.cta /\ config.sel -> "sel-momentum"
    [] OTHER -> "none"

\* Mutant: the configured path comes before the argument.
ConfiguredPath(args, config) ==
  IF IsSome(config.input_path) THEN config.input_path ELSE args.input

InputPath(args, config) ==
  IF IsSome(args.input) THEN args.input ELSE config.input_path

\* What main and run_cta_ma_cross ask for before they read anything.
IsRunnable(args, config) ==
  /\ config.mode = "backtest"
  /\ UnwrapOr(args.strategy, DefaultStrategy(config)) = "cta-ma-cross"
  /\ config.cta
  /\ config.backtest
  /\ IsSome(InputPath(args, config))

Exit(ok) == stage' = "exited" /\ success' = ok

Launch ==
  /\ stage = "launch"
  /\ IF IsRunnable(call.args, call.config)
     THEN stage' = "load" /\ UNCHANGED success
     ELSE Exit(FALSE)
  /\ UNCHANGED <<vars, call, metrics>>

BarClosedEvents(klines) ==
  [n \in 1..Len(klines) |-> [type |-> "bar_closed", kline |-> klines[n]]]

\* read_klines_ipc, the check for an empty window, backtest_config.
Load ==
  /\ stage = "load"
  /\ LET path   == InputPath(call.args, call.config)[1]
         filter == [symbols |-> {Symbol}, interval |-> Some(Interval),
                    start |-> call.config.start_ts, end |-> call.config.end_ts]
         klines == IF path \in DOMAIN call.files THEN ScanKlines(filter, call.files[path])
                                                 ELSE <<>>
     IN  IF klines # <<>> /\ call.config.rates
         THEN stage' = "run" /\ events' = BarClosedEvents(klines) /\ UNCHANGED success
         ELSE Exit(FALSE) /\ UNCHANGED events
  /\ UNCHANGED <<engine, portfolio, pc, i, pending, last_prices, error, call, metrics>>

Run ==
  /\ stage = "run"
  /\ MaNext
  /\ UNCHANGED cli

Return ==
  /\ stage = "run"
  /\ pc \in {"done", "failed"}
  /\ IF pc = "done" THEN stage' = "report" /\ UNCHANGED success ELSE Exit(FALSE)
  /\ UNCHANGED <<vars, call, metrics>>

\* create_dir_all, and fs::write up to where the file is truncated.
OpenReport ==
  /\ stage = "report"
  /\ metrics' = Some(Cut)
  /\ stage' = "write"
  /\ UNCHANGED <<vars, call, success>>

WriteReport ==
  /\ stage = "write"
  /\ metrics' = Some(Whole(Rp!MetricsSummary))
  /\ stage' = "print"
  /\ UNCHANGED <<vars, call, success>>

\* The lines printed at the end, and Ok.
Announce ==
  /\ stage = "print"
  /\ Exit(TRUE)
  /\ UNCHANGED <<vars, call, metrics>>

\* The file system refuses, a line cannot be printed, or the process is killed.
Fail ==
  /\ stage # "exited"
  /\ Exit(FALSE)
  /\ UNCHANGED <<vars, call, metrics>>

CliNext ==
  \/ Launch
  \/ Load
  \/ Run
  \/ Return
  \/ OpenReport
  \/ WriteReport
  \/ Announce
  \/ Fail

CliSpec == CliInit /\ [][CliNext]_cliVars
-----------------------------------------------------------------------------
\* The closes of the closed bars that the window of the configuration has in
\* the file the command was told to read, in order of time.
WindowCloses ==
  LET input == call.args.input
      path  == IF input = None THEN call.config.input_path[1] ELSE input[1]
      rows  == UnwrapOr(Get(call.files, path), <<>>)
      inWindow(row) ==
        /\ row.symbol = Symbol /\ row.interval = Interval /\ row.is_final
        /\ \A start \in ToSet(call.config.start_ts) : start <= row.open_time
        /\ \A end \in ToSet(call.config.end_ts) : row.open_time < end
      earlier(a, b) == a.close_time < b.close_time
      sorted == SortSeq(SelectSeq(rows, inWindow), earlier)
  IN  [n \in 1..Len(sorted) |-> sorted[n].close]

\* The bars at which the averages change sides, against the last side taken.
Turns(closes) ==
  LET side(m) == Sign(Gap(closes, m))
      turn(taken, m) ==
        IF side(m) \in {0, side(m - 1)} \/ (taken # <<>> /\ side(m) = side(Last(taken)))
        THEN taken ELSE Append(taken, m)
  IN  FoldLeft(turn, <<>>, [n \in 1..(Len(closes) - Slow) |-> Slow + n])

\* A run that exits with success leaves the metrics of exactly its window: a
\* trade for every change of sides of the averages over its closed bars, and
\* the fees of those trades.  Whole metrics of a run are those of its window
\* also when it fails after it wrote them, and an earlier report is touched by
\* a run only once its backtest has ended well.
ReportIsOfWindow ==
  /\ stage = "exited" /\ success => IsSome(metrics) /\ metrics[1].kind = "whole"
  /\ IsSome(metrics) /\ metrics[1].kind # "earlier" => pc = "done"
  /\ IsSome(metrics) /\ metrics[1].kind = "whole" =>
       LET closes == WindowCloses
           turns  == Turns(closes)
           size(n) == Dec(IF n = 1 THEN Abs(TargetQty) ELSE 2 * Abs(TargetQty))
           side(n) == IF Signum(TargetQty) * Sign(Gap(closes, turns[n])) > 0
                      THEN "Buy" ELSE "Sell"
           fee(n) == FeeRate ** (size(n) ** Pf!ApplySlippage(closes[turns[n]], side(n)))
       IN  /\ metrics[1].summary.trade_count = Len(turns)
           /\ metrics[1].summary.fee_total =
                FoldLeft(LAMBDA sum, n : sum ++ fee(n), Zero, [n \in 1..Len(turns) |-> n])
=============================================================================
