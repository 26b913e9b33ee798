--------------------------- MODULE DailyProperties ----------------------------
(***************************************************************************)
(* What the daily cycle must keep true.                                    *)
(***************************************************************************)
EXTENDS DailyMarketCycle, ReadApi

(***************************************************************************)
(* Types: of the database's tables, and of each process's locals.          *)
(***************************************************************************)
Order == [ticker : Tickers \cup {0}, kind : Kinds, cost : Int, cash : Int,
          realized : Int, position : Position]

Job == [session : Sessions \cup {0},
        members : SUBSET Tickers,
        quotes : [Tickers -> Nat],
        scores : [Tickers -> 0..100],
        held : [Tickers -> Position],
        targets : [Tickers -> Int],
        toExit : SUBSET Tickers,
        toBuy : SUBSET Tickers,
        cash : Int,
        order : Order,
        valuation : Valuation]

DeliveredBatch == [session : Sessions, status : {"completed"}, snapshot : Valuation,
                   trades : SUBSET Decision, evidence : SUBSET Analyses]

Labels == {"idle", "claim", "replayed"} \cup InTry \cup Raised

\* Every variable holds a value of the kind its table column or local has.
TypeOK ==
    /\ cash \in Int
    /\ realized \in Int
    /\ peak \in Int
    /\ positions \in [Tickers -> Position]
    /\ decisions \subseteq Decision
    /\ snapshots \in [Sessions -> Valuation]
    /\ runs \in [Sessions -> RunStatuses]
    /\ evidence \in [Sessions -> SUBSET Analyses]
    /\ batches \in [Sessions -> {"none", "pending", "dead_letter", "exported"}]
    /\ delivered \in Seq(DeliveredBatch)
    /\ universe \subseteq Tickers
    /\ today \in 0..NSessions
    /\ pc \in [Procs -> Labels]
    /\ job \in [Procs -> Job]

-------------------------------------------------------------------------------
(***************************************************************************)
(* Claims.                                                                 *)
(***************************************************************************)

\* However invocations overlap, two of them never work on the same session,
\* and a session being worked on is marked running (UNIQUE(run_type,
\* market_session) in storage.py, the insert at the head of run).
SessionsExclusive ==
    /\ \A p \in Procs : Working(p) => runs[job[p].session] = "running"
    /\ \A p, q \in Procs :
        (p # q /\ Working(p) /\ Working(q)) => job[p].session # job[q].session

\* A run marked completed is accounted for: its session has a snapshot, what
\* it bought has the scores and the sizing it was bought for on record, and the
\* ERP took a batch with exactly the snapshot, decisions and analyses the
\* database holds (daily.py exports before it marks the run, erp_integration.py
\* marks the batch after the ERP took it).  Nothing makes a run store an
\* analysis of which it has no rows: benchmarks may be missing.
CompletedIsAccountedFor ==
    \A s \in Completed :
        /\ s \in Snapshotted
        /\ (\E d \in DecisionsOf(s) : d.kind = "MODEL_ENTRY")
               => {"model_signals", "capital_allocations"} \subseteq evidence[s]
        /\ batches[s] = "exported"
        /\ \E i \in DOMAIN delivered : delivered[i] = Batch(s)

\* The ERP never holds two batches of a session, and no stale one: even if the
\* run then failed or was killed, the ledger's snapshot, decisions and analyses
\* of the session stay the ones the batch carries.  Of the run's status nothing
\* is claimed: every batch says completed, and the ledger may go on to call the
\* run failed, or running for ever (erp_integration.py's lost answers).
ErpAgreesWithLedger ==
    /\ \A i, j \in DOMAIN delivered :
        delivered[i].session = delivered[j].session => i = j
    /\ \A i \in DOMAIN delivered :
        LET batch == delivered[i]
        IN  /\ batch.snapshot = snapshots[batch.session]
            /\ batch.trades = DecisionsOf(batch.session)
            /\ batch.evidence = evidence[batch.session]

\* The three together, as one specification: whatever overlaps, fails or is
\* killed, every session goes through the life SessionBook describes.
StatusOf(run) ==
    CASE run = "none" -> "new"
      [] run = "running" -> "open"
      [] OTHER -> run

Status == [s \in Sessions |-> StatusOf(runs[s])]

Published == [i \in DOMAIN delivered |->
                [session |-> delivered[i].session, trades |-> delivered[i].trades]]

SB == INSTANCE SessionBook WITH
        status <- Status, traded <- decisions, published <- Published

ImplementsSessionBook == SB!Spec

-------------------------------------------------------------------------------
(***************************************************************************)
(* Money.                                                                  *)
(***************************************************************************)

\* Cash plus the cost of what is held is the capital plus the profits taken, up
\* to a cent per sale: execute rounds the proceeds and the profit of a sale each
\* by itself.  No purchase, and no run that dies between two trades, creates or
\* loses anything.
Sales == {d \in decisions : d.kind # "MODEL_ENTRY"}

Imbalance == cash + SumFunction(CostBasis) - InitialCapital - realized

BooksBalance == Imbalance \in -Cardinality(Sales)..Cardinality(Sales)

\* The simulated account never borrows.
CashNeverNegative == cash >= 0

\* What Plan decided can be carried out: no trade is turned down for lack of
\* cash or shares, and no holding is met without a price, so a run fails only
\* through the outside world.
PlansAreExecutable == \A p \in Procs : pc[p] \notin {"rejected", "unpriced"}

\* Each snapshot's daily profit is measured from the snapshot of the latest
\* earlier session, so that the profits of all sessions add up to the total.
ProfitTelescopes ==
    \A s \in Snapshotted :
        snapshots[s].pnl =
            snapshots[s].total - PreviousTotal({r \in Snapshotted : r < s})

\* The peak is the highest total ever recorded, the initial capital included.
PeakIsMaximum ==
    /\ \A s \in Snapshotted : snapshots[s].total <= peak
    /\ peak = Scale * InitialCapital \/ \E s \in Snapshotted : snapshots[s].total = peak

-------------------------------------------------------------------------------
(***************************************************************************)
(* Decisions.                                                              *)
(***************************************************************************)

Valuing == {"postSnapshot", "export", "pack", "send", "unsent", "sent",
            "complete"}

\* When a run values the portfolio, everything still held is in the universe
\* it read and scored at or above the threshold: nothing the model or monthly
\* research gave up is left behind.
OnlyEndorsedHoldings ==
    \A p \in Procs : pc[p] \in Valuing =>
        \A t \in Held : t \in job[p].members /\ job[p].scores[t] >= Threshold

\* In one session a ticker is sold for one reason at most, and what left
\* because of its score or of research is not bought back.
DecisionsCohere ==
    \A d, e \in decisions :
        (d.session = e.session /\ d.ticker = e.ticker /\ d.kind # e.kind)
            => /\ "MODEL_ENTRY" \in {d.kind, e.kind}
               /\ {d.kind, e.kind} \cap {"SIGNAL_EXIT", "UNIVERSE_REMOVAL"} = {}

-------------------------------------------------------------------------------
(***************************************************************************)
(* What the documents say and the code does not do.                        *)
(***************************************************************************)

\* README: an invocation exits without creating anything when the session is
\* already complete.  So one that stands aside for another run's row does it
\* for a completed run.
ReplaysOnlyCompleted ==
    \A p \in Procs : pc[p] = "replayed" => runs[job[p].session] = "completed"

\* risk_management.md: the policy applies the cash reserve.  So a purchase
\* never takes the cash below it.
PurchasesLeaveReserve ==
    \A p \in Procs : pc[p] = "postBuy" => job[p].order.cash >= CashReserve

\* risk_management.md: the policy applies the maximum number of positions.
\* So a purchase never leaves more of them than that.
PositionsWithinLimit ==
    \A p \in Procs : pc[p] \in Valuing => Cardinality(Held) <= MaxPositions

\* README: /api/decisions returns the trade decisions with their side.  So the
\* side of a decision is that of its trade in /api/trades.
ApiSidesAgree == ApiDecisions = ApiTrades

-------------------------------------------------------------------------------
(***************************************************************************)
(* Progress.                                                               *)
(***************************************************************************)

\* Every invocation comes to an end: no loop of run goes on for ever and no
\* step waits for another process.
InvocationsEnd == \A p \in Procs : (pc[p] # "idle") ~> (pc[p] = "idle")
===============================================================================
