-------------------------------- MODULE MCDaily -------------------------------
(***************************************************************************)
(* Small instances of the daily cycle for TLC.                             *)
(***************************************************************************)
EXTENDS DailyProperties, TLC

\* Research drops ticker 1, or takes it in again.
Rotation == {{1, 2}, {2}}

\* Research replaces the whole universe.
Turnover == {{1}, {2}}

NothingHeld == [t \in Tickers |-> NoPosition]

\* An earlier run bought one share of ticker 1 and failed.
OneShareHeld == [NothingHeld EXCEPT ![1] = [quantity |-> 1, basis |-> 8]]

\* The same for an odd number of cents, so that a sale may round its proceeds
\* and its profit apart.
OddShareHeld == [NothingHeld EXCEPT ![1] = [quantity |-> 1, basis |-> 9]]

ProcSymmetry == Permutations(Procs)
===============================================================================
