------------------------------ MODULE Allocation ------------------------------
(***************************************************************************)
(* CapitalAllocationPolicy (allocation.py): from the model's probabilities *)
(* and the portfolio's value to a target notional for each selected        *)
(* ticker.  A pure function of its arguments; the daily cycle calls it     *)
(* once per run.                                                           *)
(*                                                                         *)
(* A score of 0 is a ticker the signal service returned no probability     *)
(* for.  The portfolio's value is in units of price, a target in cents.    *)
(***************************************************************************)
EXTENDS Settings, Functions

\* Mutant: whatever was scored is bought.
QualifiedUnfiltered(scores) == {t \in Tickers : scores[t] > 0}

Qualified(scores) == {t \in Tickers : scores[t] >= Threshold}

\* The order of the policy's list: best score first, then alphabetical.
Precedes(scores, t, u) ==
    \/ scores[t] > scores[u]
    \/ scores[t] = scores[u] /\ t < u

\* The first MaxPositions of the qualified tickers.
Selected(scores) ==
    {t \in Qualified(scores) :
        Cardinality({u \in Qualified(scores) : Precedes(scores, u, t)})
            < MaxPositions}

Investable(value) == Greater(0, value - Scale * CashReserve)

ScoreTotal(scores) == SumFunctionOnSet(scores, Selected(scores))

\* The notional a selected ticker should reach: its share of the investable
\* value by score, capped by weight and by notional, rounded down to a cent.
Target(scores, value, t) ==
    Lesser((Investable(value) * scores[t]) \div (ScoreTotal(scores) * Scale),
           Lesser((Investable(value) * MaxWeight) \div (100 * Scale), MaxNotional))

Targets(scores, value) ==
    [t \in Selected(scores) |-> Target(scores, value, t)]
===============================================================================
