---------------------------- MODULE RiskManager ----------------------------
(***************************************************************************)
(* The in-memory risk state of one trading process, and the two brokers'   *)
(* arithmetic on a stake (app/risk/risk_manager.py, PaperBroker and        *)
(* DemoStubBroker).                                                        *)
(*                                                                         *)
(* The code computes with floats; money is an integer number of units      *)
(* here.  A positive float times a positive rate is positive, so products  *)
(* round up: a stake or a prize never vanishes by rounding.                *)
(***************************************************************************)
EXTENDS Integers

CONSTANTS
  InitialBalance,      \* settings.INITIAL_BALANCE
  RiskPerMille,        \* settings.RISK_PER_TRADE, in thousandths
  PayoutPercent,       \* settings.PAYOUT, in hundredths
  MaxConsecutiveLosses,\* settings.MAX_CONSECUTIVE_LOSSES
  DailyLossPerMille    \* settings.MAX_DAILY_LOSS, in thousandths

\* The ranges config.py gives these settings.
ASSUME RiskAssumption ==
  /\ InitialBalance \in Nat
  /\ RiskPerMille \in 0..20
  /\ PayoutPercent \in Nat \ {0}
  /\ MaxConsecutiveLosses \in Nat
  /\ DailyLossPerMille \in 0..100

CeilDiv(a, b) == (a + b - 1) \div b

RiskState == [balance : Int, initial : Int, dailyPnl : Int, losses : Nat]

\* RiskManager.__init__ of a fresh process.
FreshRisk ==
  [balance |-> InitialBalance, initial |-> InitialBalance, dailyPnl |-> 0, losses |-> 0]

\* __init__ caps the configured rate at 1%.
RiskRate == IF RiskPerMille < 10 THEN RiskPerMille ELSE 10

MutCanTradeStrict(r) ==
  /\ r.losses <= MaxConsecutiveLosses
  /\ 1000 * r.dailyPnl > -(r.initial * DailyLossPerMille)
  /\ r.balance > 0

MutCanTradeNoDailyLimit(r) ==
  /\ r.losses < MaxConsecutiveLosses
  /\ r.balance > 0

CanTrade(r) ==
  /\ r.losses < MaxConsecutiveLosses
  /\ 1000 * r.dailyPnl > -(r.initial * DailyLossPerMille)
  /\ r.balance > 0

PositionSize(r) ==
  IF CanTrade(r) THEN CeilDiv(r.balance * RiskRate, 1000) ELSE 0

\* A loss extends the streak; any other profit, zero included, ends it.
RegisterResult(r, profit) ==
  [r EXCEPT !.balance  = @ + profit,
            !.dailyPnl = @ + profit,
            !.losses   = IF profit < 0 THEN @ + 1 ELSE 0]

\* What a resolved stake brings: the payout rate, or the stake lost.
Profit(amount, won) ==
  IF won THEN CeilDiv(amount * PayoutPercent, 100) ELSE -amount
=============================================================================
