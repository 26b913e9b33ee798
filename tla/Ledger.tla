-------------------------------- MODULE Ledger --------------------------------
(***************************************************************************)
(* The simulated portfolio (simulation.py over the SQLite tables           *)
(* portfolio_state, positions, trade_decisions and portfolio_snapshots).   *)
(*                                                                         *)
(* SimulatedExecutionEngine.execute reads the cash, the realized total and *)
(* the position OUTSIDE its transaction, computes the new absolute values, *)
(* and writes them inside one: an order below is what the method computed  *)
(* from its reads, and PostOrder is the transaction that writes it.        *)
(* Snapshots are made the same way, so a valuation is split likewise.      *)
(* Both methods first look for their own row and return it if it is there: *)
(* the daily cycle never meets one, because a session has one run and a    *)
(* run makes each of its decisions once.                                   *)
(*                                                                         *)
(* Cash and profit are in cents: what a trade moves is rounded half to     *)
(* even from the exact product of quantity and price, the proceeds of a    *)
(* sale and its profit each by themselves.  What a snapshot values is not  *)
(* rounded, and is in units of price.  A position keeps its cost basis,    *)
(* quantity times average cost, which is what the average is computed      *)
(* from; selling part of a position takes the same part of its basis, cut  *)
(* to a cent.                                                              *)
(*                                                                         *)
(* A definition marked "Mutant" is the one after it with a bug in it.  The *)
(* model does not use it: it shows that a property would notice.           *)
(***************************************************************************)
EXTENDS Settings, Functions

CONSTANT
    Opening           \* the positions the first modelled session starts from

Position == [quantity : Nat, basis : Int]

NoPosition == [quantity |-> 0, basis |-> 0]

OpeningCost == SumFunction([t \in Tickers |-> Opening[t].basis])

ASSUME OpeningAssumption ==
    /\ Opening \in [Tickers -> Position]
    /\ OpeningCost <= InitialCapital

VARIABLES
    cash,             \* portfolio_state.cash
    realized,         \* portfolio_state.realized_pnl
    peak,             \* portfolio_state.portfolio_peak
    positions,        \* ticker -> its row of positions; no shares is no row
    decisions,        \* trade_decisions, each with its simulated_trades row
    snapshots         \* session -> its portfolio_snapshots row

ledgerVars == <<cash, realized, peak, positions, decisions, snapshots>>

Kinds == {"STOP_LOSS_EXIT", "UNIVERSE_REMOVAL", "TAKE_PROFIT_EXIT",
          "SIGNAL_EXIT", "MODEL_ENTRY"}

\* The idempotency key of a decision.  The run of the key is left out: a
\* session has at most one run.
Decision == [session : Sessions, ticker : Tickers, kind : Kinds]

Valuation == [total : Int, pnl : Int, peak : Int]

\* A recorded peak is at least the initial capital: 0 is no row.
NoSnapshot == [total |-> 0, pnl |-> 0, peak |-> 0]

Held == {t \in Tickers : positions[t].quantity > 0}

CostBasis == [t \in Tickers |-> positions[t].basis]

MarketValue(quotes) ==
    SumFunction([t \in Tickers |-> positions[t].quantity * quotes[t]])

\* quantize(Decimal("0.01")) of n / d cents.
HalfEven(n, d) ==
    LET q == n \div d
        r == 2 * (n % d)
    IN  IF r > d \/ (r = d /\ q % 2 = 1) THEN q + 1 ELSE q

\* StopLossPolicy.  The stop price is quantized to a cent, the price is not.
StopPrice(position) ==
    HalfEven(position.basis * (100 - StopLoss), position.quantity * 100)

Breached(position, price) == price <= Scale * StopPrice(position)

TookProfit(position, price) ==
    /\ TakeProfit > 0
    /\ price * position.quantity * 100
            >= Scale * position.basis * (100 + TakeProfit)

-------------------------------------------------------------------------------

\* A new portfolio (every position empty), or one an earlier run bought into
\* before it failed.
LedgerInit ==
    /\ cash = InitialCapital - OpeningCost
    /\ realized = 0
    /\ peak = Scale * InitialCapital
    /\ positions = Opening
    /\ decisions = {}
    /\ snapshots = [s \in Sessions |-> NoSnapshot]

\* What execute takes quantity shares at this price to be worth.
Notional(quantity, price) == HalfEven(quantity * price, Scale)

\* Mutant: no purchase is turned down.
AffordableUnchecked(quantity, price) == TRUE

\* execute rejects a BUY that costs more than the cash it read, and a SELL of
\* more shares than the position it read.
Affordable(quantity, price) == Notional(quantity, price) + Fee <= cash

Sellable(ticker, quantity) == quantity <= positions[ticker].quantity

\* Mutants: a purchase that takes shares away; one that forgets what the
\* shares held before had cost.
BoughtShort(old, quantity, cost) ==
    [quantity |-> old.quantity - quantity, basis |-> old.basis + cost]

BoughtAtLastCost(old, quantity, cost) ==
    [quantity |-> old.quantity + quantity, basis |-> cost]

\* A position after a purchase: its average cost is what all of it cost.
Bought(old, quantity, cost) ==
    [quantity |-> old.quantity + quantity, basis |-> old.basis + cost]

BuyOrder(ticker, quantity, price) ==
    [ticker |-> ticker,
     kind |-> "MODEL_ENTRY",
     cost |-> Notional(quantity, price) + Fee,
     cash |-> cash - (Notional(quantity, price) + Fee),
     realized |-> realized,
     position |-> Bought(positions[ticker], quantity,
                         Notional(quantity, price) + Fee)]

\* What selling shares that cost basis earns: rounded once, from the exact
\* difference.
Gain(quantity, price, basis) ==
    HalfEven(quantity * price - Scale * (basis + Fee), Scale)

SellOrder(ticker, quantity, price, kind) ==
    LET old == positions[ticker]
        sold == (old.basis * quantity) \div old.quantity
    IN  [ticker |-> ticker,
         kind |-> kind,
         cost |-> Fee - Notional(quantity, price),
         cash |-> cash - (Fee - Notional(quantity, price)),
         realized |-> realized + Gain(quantity, price, sold),
         position |-> [quantity |-> old.quantity - quantity,
                       basis |-> old.basis - sold]]

\* The transaction of execute: the decision, the position, the portfolio row
\* and the trade, all with the values computed before it began.
PostOrder(session, order) ==
    /\ decisions' = decisions \cup
            {[session |-> session, ticker |-> order.ticker, kind |-> order.kind]}
    /\ positions' = [positions EXCEPT ![order.ticker] = order.position]
    /\ cash' = order.cash
    /\ realized' = order.realized
    /\ UNCHANGED <<peak, snapshots>>

\* The row before this one is the one of the latest session on record.
Snapshotted == {s \in Sessions : snapshots[s].peak > 0}

PreviousTotal(recorded) ==
    IF recorded = {} THEN Scale * InitialCapital
    ELSE snapshots[CHOOSE s \in recorded : \A r \in recorded : r <= s].total

\* Mutants: a profit measured from the start; a peak that is forgotten.
ValuedSinceInception(quotes) ==
    LET total == Scale * cash + MarketValue(quotes)
    IN  [total |-> total,
         pnl |-> total - Scale * InitialCapital,
         peak |-> Greater(peak, total)]

ValuedLatestPeak(quotes) ==
    LET total == Scale * cash + MarketValue(quotes)
    IN  [total |-> total,
         pnl |-> total - PreviousTotal(Snapshotted),
         peak |-> Greater(Scale * InitialCapital, total)]

\* What snapshot computes from its reads, and the transaction that writes it.
Valued(quotes) ==
    LET total == Scale * cash + MarketValue(quotes)
    IN  [total |-> total,
         pnl |-> total - PreviousTotal(Snapshotted),
         peak |-> Greater(peak, total)]

PostSnapshot(session, valuation) ==
    /\ peak' = valuation.peak
    /\ snapshots' = [snapshots EXCEPT ![session] = valuation]
    /\ UNCHANGED <<cash, realized, positions, decisions>>
===============================================================================
