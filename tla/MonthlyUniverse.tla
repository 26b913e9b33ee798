---------------------------- MODULE MonthlyUniverse ----------------------------
(***************************************************************************)
(* What monthly research promises the rest of the system: there is one     *)
(* active universe, of exactly UniverseSize tickers; it is replaced as a   *)
(* whole, for the same month or a later one, and once there is one there   *)
(* is always one.  The daily cycle (PersistUniverse in DailyMarketCycle)   *)
(* relies on no more than this.                                            *)
(***************************************************************************)
EXTENDS Naturals, FiniteSets

CONSTANTS
    NPeriods,         \* months, in calendar order; 0 is before the first
    Symbols,          \* the tickers research may propose
    UniverseSize

VARIABLES
    month,            \* the month the active universe was researched for
    universe          \* its tickers

monthlyVars == <<month, universe>>

Init == month = 0 /\ universe = {}

Publish ==
    /\ month' \in 1..NPeriods
    /\ month' >= month
    /\ universe' \in SUBSET Symbols
    /\ Cardinality(universe') = UniverseSize

Spec == Init /\ [][Publish]_monthlyVars
===============================================================================
