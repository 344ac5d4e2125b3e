----------------------------- MODULE MCValidation -----------------------------
(***************************************************************************)
(* A model validated on every data set of a few rows, at the default       *)
(* payout, threshold and limits: what DEMO_ALLOWED does not guarantee.     *)
(***************************************************************************)
EXTENDS Validation

CONSTANT MaxRows   \* bound: feature rows

VARIABLE rows

\* A low close before which the model buys, a high one at which it sells, and a
\* low one at which it holds.
Market ==
  {[close |-> 1, ema9 |-> 5, ema21 |-> 3, rsi |-> 60, macd |-> 1, atr |-> 2, adx |-> 20, up |-> 70],
   [close |-> 2, ema9 |-> 5, ema21 |-> 3, rsi |-> 60, macd |-> 1, atr |-> 2, adx |-> 20, up |-> 30],
   [close |-> 1, ema9 |-> 5, ema21 |-> 3, rsi |-> 60, macd |-> 1, atr |-> 2, adx |-> 20, up |-> 50]}

MCInit == rows = <<>>

MCNext == Len(rows) < MaxRows /\ \E row \in Market : rows' = Append(rows, row)

MCSpec == MCInit /\ [][MCNext]_rows

\* The folds with both labels to train on: the others are skipped.
Fitted ==
  {start \in FoldStarts(Len(rows)) :
     \E i, j \in WalkFold(start, 1).train : Labels(rows, 1)[i + 1] # Labels(rows, 1)[j + 1]}

\* Of a model that is DEMO_ALLOWED the folds' average win rate is above the
\* breakeven of its payout (ValidationReportBuilder._recommend): two per mille
\* are more than the average can have lost by rounding.
DemoBeatsBreakeven ==
  Validate(rows, Fitted, FALSE, 600, FALSE) = "DEMO_ALLOWED" =>
    (Summary(WalkForward(rows, Fitted)).wins + 2) * (100 + PayoutPercent) > 100000
=============================================================================
