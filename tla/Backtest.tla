------------------------------- MODULE Backtest -------------------------------
(***************************************************************************)
(* run_backtest (backtesting.py): ranked signals bought at the next        *)
(* session's open and sold at the close HoldingSessions rows after the     *)
(* signal.  A pure function of the signals and the prices.                 *)
(*                                                                         *)
(* prices[t] is a function from the sessions the ticker has a row for to   *)
(* [open, close, volume]; scores[t][d] is the signal of a session, 0 for   *)
(* none.  Sessions and amounts are whole numbers, rates are in hundredths  *)
(* (VolumePercent) or ten-thousandths (SlippageBps), and the arithmetic is *)
(* exact where the code's is in floating point.  The report's drawdown,    *)
(* hit rate and benchmark are left out.                                    *)
(***************************************************************************)
EXTENDS Integers, FiniteSets, Functions

CONSTANTS ScoreThreshold, BacktestPositions, HoldingSessions, SlippageBps,
          Commission, VolumePercent, StartingCash

ASSUME BacktestAssumption ==
    /\ {ScoreThreshold, BacktestPositions, HoldingSessions, StartingCash}
         \subseteq Nat \ {0}
    /\ {SlippageBps, Commission, VolumePercent} \subseteq Nat

\* groupby("Ticker").shift(-n): the session n rows after d, if there is one.
HasShifted(bars, d, n) ==
    Cardinality({e \in DOMAIN bars : e > d}) >= n

Shifted(bars, d, n) ==
    CHOOSE e \in DOMAIN bars :
        e >= d /\ Cardinality({f \in DOMAIN bars : d < f /\ f <= e}) = n

\* Mutant: every signal above the threshold is bought.
CandidatesUncapped(scores, d) ==
    {t \in DOMAIN scores : scores[t][d] >= ScoreThreshold}

\* The best of a session's signals; equal scores keep the order of the input.
Candidates(scores, d) ==
    LET eligible == {t \in DOMAIN scores : scores[t][d] >= ScoreThreshold}
    IN  {t \in eligible :
           Cardinality({u \in eligible :
                          \/ scores[u][d] > scores[t][d]
                          \/ scores[u][d] = scores[t][d] /\ u < t})
             < BacktestPositions}

\* A candidate is priced when it has a row of its session and of both others.
Executable(bars, d) ==
    /\ d \in DOMAIN bars
    /\ HasShifted(bars, d, 1)
    /\ HasShifted(bars, d, HoldingSessions)

\* Mutant: the signal's own session is the entry.
EntryOfSameSession(bars, d) == d

Entry(bars, d) == Shifted(bars, d, 1)
Exit(bars, d) == Shifted(bars, d, HoldingSessions)

\* Price times 10 000, slippage included.
EntryCost(bars, d) == bars[Entry(bars, d)].open * (10000 + SlippageBps)
ExitProceeds(bars, d) == bars[Exit(bars, d)].close * (10000 - SlippageBps)

Quantity(bars, d) ==
    LET affordable == (StartingCash * 10000)
                        \div (BacktestPositions * EntryCost(bars, d))
        tradable == (bars[Entry(bars, d)].volume * VolumePercent) \div 100
    IN  IF affordable < tradable THEN affordable ELSE tradable

Profit(bars, d) ==
    Quantity(bars, d) * (ExitProceeds(bars, d) - EntryCost(bars, d))
      - 2 * Commission * 10000

TradesOf(scores, prices, t, d) ==
    [ticker |-> t, session |-> d, enters |-> Entry(prices[t], d),
     exits |-> Exit(prices[t], d), quantity |-> Quantity(prices[t], d),
     notional |-> Quantity(prices[t], d) * EntryCost(prices[t], d),
     profit |-> Profit(prices[t], d)]

\* The signals that can be executed, whatever quantity comes out.
Signals(scores, prices, sessions) ==
    {s \in (DOMAIN scores) \X sessions :
        /\ s[1] \in Candidates(scores, s[2])
        /\ Executable(prices[s[1]], s[2])}

\* {} is the error "No executable next-session trades" when no signal has a
\* price; a report of no trades is an answer.
RunBacktest(scores, prices, sessions) ==
    LET priced == Signals(scores, prices, sessions)
        trades == {TradesOf(scores, prices, s[1], s[2]) : s \in priced}
    IN  [error |-> priced = {},
         trades |-> {r \in trades : r.quantity > 0}]
===============================================================================
