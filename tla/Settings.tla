------------------------------- MODULE Settings -------------------------------
(***************************************************************************)
(* The configuration the daily cycle runs under (config.py: Settings and   *)
(* RiskLimits), and the symbols it runs over.                              *)
(*                                                                         *)
(* Money is counted in cents, rates and probabilities in percent.  A price *)
(* is Decimal(str(float)) and need not be a whole number of cents: prices, *)
(* and what is computed from them without rounding, are counted in units   *)
(* of which Scale make a cent.  A ticker is its place in the alphabet, so  *)
(* that a tie between scores, which the code breaks on the ticker's name,  *)
(* is < on numbers.                                                        *)
(***************************************************************************)
EXTENDS Integers, FiniteSets

CONSTANTS
    Tickers,          \* every symbol that can be researched, held or priced
    Scale,            \* units of price in a cent
    NSessions,        \* bound: market sessions 1..NSessions take place
    InitialCapital,   \* initial_capital
    Fee,              \* the execution engine's fee per trade
    Threshold,        \* model_probability_threshold
    MaxPositions,     \* risk.maximum_open_positions
    MaxWeight,        \* risk.maximum_position_percent
    MaxNotional,      \* risk.maximum_position_notional
    CashReserve,      \* risk.minimum_cash_reserve
    StopLoss,         \* risk.stop_loss_percent
    TakeProfit        \* risk.take_profit_percent; 0 when it is not set

ASSUME SettingsAssumption ==
    /\ Tickers \subseteq Nat
    /\ IsFiniteSet(Tickers)
    /\ Scale \in Nat \ {0}
    /\ NSessions \in Nat
    /\ InitialCapital \in Nat \ {0}
    /\ Fee \in Nat
    /\ Threshold \in 1..100
    /\ MaxPositions \in Nat
    /\ MaxWeight \in Nat
    /\ MaxNotional \in Nat
    /\ CashReserve \in Nat
    /\ StopLoss \in 1..99
    /\ TakeProfit \in Nat

Sessions == 1..NSessions

Lesser(a, b) == IF a <= b THEN a ELSE b

Greater(a, b) == IF a >= b THEN a ELSE b
===============================================================================
