------------------------------- MODULE Intent -------------------------------
(***************************************************************************)
(* What a backtest promises to a strategy, with no engine, queue or fills: *)
(* the account holds what the strategy last asked for, at once, and every  *)
(* equity point is taken of that account.  A failure ends the run.         *)
(***************************************************************************)
EXTENDS SequencesExt

CONSTANTS Symbols, Reactions

VARIABLES
  wanted,     \* the quantity last asked for of every symbol
  snapshots,  \* what was held at every equity point
  over        \* no more callbacks

intentVars == <<wanted, snapshots, over>>

IntentInit ==
  /\ wanted = [s \in Symbols |-> 0]
  /\ snapshots = <<>>
  /\ over = FALSE

\* Of several targets for one symbol the last one counts.
After(quantities, targets) ==
  [s \in Symbols |->
     LET asked == {n \in 1..Len(targets) : targets[n].symbol = s}
     IN  IF asked = {} THEN quantities[s] ELSE targets[Max(asked)].target_qty]

Decide(r) ==
  /\ ~over
  /\ wanted' = After(wanted, r.targets)
  /\ over' = ~r.ok
  /\ UNCHANGED snapshots

Snapshot ==
  /\ ~over
  /\ snapshots' = Append(snapshots, wanted)
  /\ UNCHANGED <<wanted, over>>

Stop ==
  /\ over' = TRUE
  /\ UNCHANGED <<wanted, snapshots>>

IntentNext == (\E r \in Reactions : Decide(r)) \/ Snapshot \/ Stop

Spec == IntentInit /\ [][IntentNext]_intentVars
=============================================================================
