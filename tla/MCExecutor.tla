----------------------------- MODULE MCExecutor -----------------------------
(***************************************************************************)
(* Executor with a step that divides no target, a minimum quantity and a   *)
(* minimum notional that some orders miss, and targets on both sides.      *)
(***************************************************************************)
EXTENDS Executor

MCRules ==
  { [min_qty |-> 0, step_size |-> 3, min_notional |-> 0],
    [min_qty |-> 4, step_size |-> 2, min_notional |-> 50] }

MCTargets == {-7, 0, 8}
=============================================================================
