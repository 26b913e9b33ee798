--------------------------------- MODULE ReadApi --------------------------------
(***************************************************************************)
(* What the read-only API (api_server.py) answers about the ledger.  A     *)
(* request is one or two queries on a connection opened with mode=ro, so   *)
(* it is a function of the tables and never a step of the system.          *)
(*                                                                         *)
(* simulated_trades has one row per row of trade_decisions, inserted in    *)
(* the same transaction, so the set decisions stands for both tables.      *)
(***************************************************************************)
EXTENDS Ledger

\* The side column of a decision's trade, as the daily cycle passes it to
\* execute.
TradeSide(kind) == IF kind = "MODEL_ENTRY" THEN "BUY" ELSE "SELL"

\* _DECISION_SIDE.
DecisionSides ==
    [kind \in {"MODEL_ENTRY", "STOP_LOSS_EXIT", "UNIVERSE_REMOVAL"} |->
        IF kind = "MODEL_ENTRY" THEN "BUY" ELSE "SELL"]

\* _decision_side: the cycle stores no side in the metadata, and a kind that
\* is not in the table is its own side.
DecisionSide(kind) ==
    IF kind \in DOMAIN DecisionSides THEN DecisionSides[kind] ELSE kind

\* GET /api/trades and GET /api/decisions, with a limit that holds all rows.
ApiTrades == {[decision |-> d, side |-> TradeSide(d.kind)] : d \in decisions}

ApiDecisions == {[decision |-> d, side |-> DecisionSide(d.kind)] : d \in decisions}
===============================================================================
