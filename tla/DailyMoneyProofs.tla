--------------------------- MODULE DailyMoneyProofs ---------------------------
(***************************************************************************)
(* Money: the account never borrows, however invocations overlap; and if   *)
(* they do not overlap, its books balance to a cent for every sale, and no *)
(* planned trade is turned down.                                           *)
(***************************************************************************)
EXTENDS DailyClaimProofs, FiniteSetTheorems

Trading == {"postExit", "postBuy"}

\* Nobody is about to write a negative cash balance.
CashInv ==
    /\ CashNeverNegative
    /\ \A p \in Procs : pc[p] \in Trading => job[p].order.cash >= 0

\* Without overlap, at most one process has left "idle".
Alone == \A p, q \in Procs : p # q => pc[p] = "idle" \/ pc[q] = "idle"

\* What writing an order adds to Imbalance.
Change(order) ==
    order.cash + order.position.basis - order.realized
        - (cash + positions[order.ticker].basis - realized)

\* A purchase is exact, and the roundings of a sale are at most a cent apart.
OrderBalances(p) ==
    /\ pc[p] = "postBuy" => Change(job[p].order) = 0
    /\ pc[p] = "postExit" => Change(job[p].order) \in -1..1

\* What is still to be sold has no decision in the session yet.
SellsOnce(p) ==
    LET j == job[p]
    IN  /\ pc[p] \in {"exit", "postExit"} =>
            \A t \in j.toExit, d \in DecisionsOf(j.session) : d.ticker # t
        /\ pc[p] = "postExit" => j.order.ticker \in j.toExit

\* What the plan still relies on: prices for whatever is held or traded, the
\* shares that are to be sold, and the loop's own count of the cash.
PlanHolds(p) ==
    /\ pc[p] \in {"plan", "exit", "buy"} \cup Trading => AllPriced(job[p])
    /\ pc[p] \in Trading => job[p].quotes[job[p].order.ticker] > 0
    /\ pc[p] \in {"exit", "postExit"} =>
        \A t \in job[p].toExit : job[p].held[t].quantity <= positions[t].quantity
    /\ pc[p] \in {"buy", "postBuy"} => job[p].cash = cash
    /\ pc[p] = "postBuy" => job[p].order.cash = cash - job[p].order.cost

SerialInv ==
    /\ Alone
    /\ BooksBalance
    /\ IsFiniteSet(decisions)
    /\ \A p \in Procs : OrderBalances(p) /\ SellsOnce(p)
    /\ PlansAreExecutable
    /\ \A p \in Procs : PlanHolds(p)

-------------------------------------------------------------------------------
(***************************************************************************)
(* Arithmetic and frames.                                                  *)
(***************************************************************************)

\* As many shares as a balance divided by their price cost no more than it.
LEMMA DivisionPays ==
    ASSUME NEW c \in Int, NEW b \in Nat, b > 0, NEW a \in Int, a <= c \div b
    PROVE  a * b <= c
OBVIOUS

\* Multiples of a positive number compare as what is multiplied.
LEMMA Multiples ==
    ASSUME NEW d \in Nat \ {0}, NEW a \in Int, NEW b \in Int,
           2 * (d * a) <= 2 * (d * b) + d
    PROVE  a <= b
<1> SUFFICES ASSUME a >= b + 1 PROVE FALSE
  OBVIOUS
<1>1. d * a >= d * (b + 1)
  OBVIOUS
<1>2. d * (b + 1) = d * b + d
  OBVIOUS
<1>3. d * a \in Int /\ d * b \in Int
  OBVIOUS
<1>4. QED
  BY <1>1, <1>2, <1>3

\* Rounding does not exceed a whole number of cents that pays, nor fall below
\* nothing.
LEMMA RoundedPays ==
    ASSUME NEW n \in Int, NEW d \in Nat \ {0}
    PROVE  /\ \A c \in Int : n <= d * c => HalfEven(n, d) <= c
           /\ n >= 0 => HalfEven(n, d) >= 0
<1> DEFINE h == HalfEven(n, d)
<1>1. h \in Int /\ 2 * (d * h) <= 2 * n + d /\ 2 * n <= 2 * (d * h) + d
  BY Rounding
<1> HIDE DEF h
<1>2. d * h \in Int
  BY <1>1
<1>3. ASSUME NEW c \in Int, n <= d * c PROVE h <= c
  <2>1. d * c \in Int
    OBVIOUS
  <2>2. 2 * (d * h) <= 2 * (d * c) + d
    BY <1>1, <1>2, <1>3, <2>1
  <2>3. QED
    BY <1>1, <2>2, Multiples
<1>4. ASSUME n >= 0 PROVE h >= 0
  <2>1. 2 * (d * 0) <= 2 * (d * h) + d
    BY <1>1, <1>2, <1>4
  <2>2. QED
    BY <1>1, <2>1, Multiples
<1>5. QED
  BY <1>3, <1>4 DEF h

\* The proceeds of a sale less its cost, and its profit, which are rounded each
\* by themselves, are at most a cent apart.
LEMMA RoundedApart ==
    ASSUME NEW n \in Int, NEW d \in Nat \ {0}, NEW c \in Int
    PROVE  HalfEven(n, d) - c - HalfEven(n - d * c, d) \in -1..1
<1> DEFINE h == HalfEven(n, d)
           m == n - d * c
           g == HalfEven(m, d)
           k == h - c - g
<1>1. d * c \in Int /\ m \in Int
  OBVIOUS
<1>2. h \in Int /\ 2 * (d * h) <= 2 * n + d /\ 2 * n <= 2 * (d * h) + d
  BY Rounding
<1>3. g \in Int /\ 2 * (d * g) <= 2 * m + d /\ 2 * m <= 2 * (d * g) + d
  <2> HIDE DEF m
  <2>1. QED
    BY <1>1, Rounding
<1> HIDE DEF h, g
<1>4. /\ k \in Int /\ d * h \in Int /\ d * g \in Int /\ d * k \in Int
      /\ d * k = d * h - d * c - d * g
  BY <1>2, <1>3
<1>5. 2 * (d * k) <= 2 * d /\ -(2 * d) <= 2 * (d * k)
  BY <1>1, <1>2, <1>3, <1>4
<1>6. d * 1 = d /\ d * (-1) = -d
  OBVIOUS
<1> HIDE DEF m, k
<1>7. k <= 1 /\ -1 <= k
  <2>1. 2 * (d * k) <= 2 * (d * 1) + d /\ 2 * (d * (-1)) <= 2 * (d * k) + d
    BY <1>4, <1>5, <1>6
  <2>2. QED
    BY <1>4, <2>1, Multiples
<1>8. k \in -1..1
  BY <1>4, <1>7
<1>9. QED
  BY <1>8 DEF k, g, m, h

\* The number of shares to buy.
LEMMA BuyQuantityType ==
    ASSUME TypeInv, NEW p \in Procs, NEW t \in Tickers, pc[p] = "buy",
           IsNextBuy(job[p], t)
    PROVE  /\ BuyQuantity(job[p], t) \in Nat /\ job[p].quotes[t] \in Nat \ {0}
           /\ BuyQuantity(job[p], t) * job[p].quotes[t] \in Int
           /\ BuyQuantity(job[p], t) * job[p].quotes[t] <= Scale * job[p].cash
<1> DEFINE q == BuyQuantity(job[p], t)
           price == job[p].quotes[t]
           money == Scale * job[p].cash
           worth == Scale * job[p].targets[t]
<1>1. price \in Nat /\ price > 0 /\ job[p].targets[t] \in Int
      /\ job[p].cash \in Int /\ job[p].held[t].quantity \in Int /\ q > 0
  BY DEF Job, Position, IsNextBuy, Wanted, TypeInv, TypeOK, LocalsOK, Sound
<1>2. money \in Int /\ worth \in Int
  BY <1>1, SettingsAssumption
<1>3. q = Lesser(worth \div price - job[p].held[t].quantity, money \div price)
  BY DEF BuyQuantity
<1> HIDE DEF q, price, money, worth
<1>4. money \div price \in Int /\ worth \div price \in Int
  BY <1>1, <1>2
<1>5. q \in Nat /\ q <= money \div price
  BY <1>1, <1>3, <1>4 DEF Lesser
<1>6. q * price <= money
  BY <1>1, <1>2, <1>5, DivisionPays
<1>7. QED
  BY <1>1, <1>5, <1>6 DEF q, price, money

\* Only the transactions of trades move money or shares, and only preparing a
\* trade leads to one.
LEMMA TradeChanges ==
    ASSUME TypeInv, NEW p \in Procs, Begin(p) \/ Run(p) \/ Crash(p)
    PROVE  /\ \/ PostExit(p) \/ PostBuy(p)
              \/ UNCHANGED <<cash, realized, positions>>
           /\ pc'[p] \in Trading =>
                \E t \in Tickers : PrepareExit(p, t) \/ PrepareBuy(p, t)
<1> USE DEF ledgerVars, Trading
<1>1. pc \in [Procs -> Labels]
  BY DEF TypeInv, TypeOK
<1>2. CASE Begin(p) \/ Crash(p) \/ Claim(p) \/ Replay(p) \/ Leave(p)
  BY <1>1, <1>2 DEF Begin, Crash, Claim, Replay, Leave
<1>3. CASE Fetch(p) \/ Plan(p) \/ PlanUnpriced(p)
  BY <1>1, <1>3 DEF Fetch, Plan, PlanUnpriced
<1>4. CASE \E t \in Tickers : \/ PrepareExit(p, t) \/ RejectExit(p, t)
                              \/ PrepareBuy(p, t) \/ RejectBuy(p, t)
  BY <1>1, <1>4 DEF PrepareExit, RejectExit, PrepareBuy, RejectBuy
<1>5. CASE \/ PostExit(p) \/ PostBuy(p) \/ StartBuying(p)
           \/ PrepareSnapshot(p) \/ SnapshotUnpriced(p) \/ RecordSnapshot(p)
  BY <1>1, <1>5 DEF PostExit, PostBuy, StartBuying, PrepareSnapshot,
                    SnapshotUnpriced, RecordSnapshot, PostSnapshot
<1>6. CASE \/ Benchmarks(p) \/ SavePending(p)
           \/ Send(p) \/ SendUnanswered(p) \/ SendFails(p)
           \/ DeadLetter(p) \/ MarkExported(p) \/ Complete(p)
           \/ StepRaises(p) \/ FailRun(p)
  BY <1>1, <1>6 DEF Benchmarks, SavePending, Send, SendUnanswered, SendFails,
                    DeadLetter, MarkExported, Complete, StepRaises, FailRun
<1>7. QED
  BY <1>2, <1>3, <1>4, <1>5, <1>6 DEF Run

-------------------------------------------------------------------------------
(***************************************************************************)
(* The account never borrows.                                              *)
(***************************************************************************)

\* Initially, and after every step.
LEMMA CashInit == Init => CashInv
<1> SUFFICES ASSUME Init PROVE CashInv
  OBVIOUS
<1>1. [t \in Tickers |-> Opening[t].basis] \in [Tickers -> Int]
  BY OpeningAssumption DEF Position
<1>2. OpeningCost \in Int
  BY <1>1, TickerSum DEF OpeningCost
<1>3. QED
  BY <1>2, OpeningAssumption, SettingsAssumption
  DEF Init, LedgerInit, CashInv, CashNeverNegative, Trading

\* No step writes a negative balance, whoever else is writing.
LEMMA CashStep == TypeInv /\ CashInv /\ [Next]_vars => CashInv'
<1> SUFFICES ASSUME TypeInv, CashInv, [Next]_vars PROVE CashInv'
  OBVIOUS
<1>1. ASSUME NEW p \in Procs, Begin(p) \/ Run(p) \/ Crash(p) PROVE CashInv'
  <2>1. cash' >= 0
    <3>1. CASE PostExit(p) \/ PostBuy(p)
      <4>1. pc[p] \in Trading /\ cash' = job[p].order.cash
        BY <3>1 DEF PostExit, PostBuy, PostOrder, Trading
      <4>2. QED
        BY <4>1 DEF CashInv
    <3>2. CASE UNCHANGED cash
      BY <3>2 DEF CashInv, CashNeverNegative
    <3>3. QED
      BY <1>1, <3>1, <3>2, TradeChanges
  <2>2. ASSUME NEW q \in Procs \ {p}, pc'[q] \in Trading
        PROVE  job'[q].order.cash >= 0
    BY <1>1, <2>2, OthersStay DEF CashInv
  <2>3. ASSUME pc'[p] \in Trading
        PROVE  job'[p].order.cash >= 0
    <3>1. /\ job[p] \in Job /\ cash \in Int /\ cash >= 0 /\ Fee = 0
          /\ job[p].quotes \in [Tickers -> Nat]
          /\ job[p].held \in [Tickers -> Position]
          /\ job \in [Procs -> Job]
      BY DailyAssumption DEF TypeInv, TypeOK, Job, CashInv, CashNeverNegative
    <3>2. PICK t \in Tickers : PrepareExit(p, t) \/ PrepareBuy(p, t)
      BY <1>1, <2>3, TradeChanges
    <3>3. CASE PrepareExit(p, t)
      <4> DEFINE q == job[p].held[t].quantity
                 price == job[p].quotes[t]
      <4>1. job'[p].order.cash = cash - (Fee - Notional(q, price))
        BY <3>1, <3>3 DEF PrepareExit, SellOrder, Job
      <4>2. q \in Nat /\ price \in Nat
        BY <3>1 DEF Position
      <4> HIDE DEF q, price
      <4>3. q * price >= 0 /\ q * price \in Int
        BY <4>2
      <4>4. Notional(q, price) >= 0 /\ Notional(q, price) \in Int
        BY <4>2, <4>3, RoundedPays, NotionalType, SettingsAssumption DEF Notional
      <4>5. QED
        BY <3>1, <4>1, <4>4
    <3>4. CASE PrepareBuy(p, t)
      <4> DEFINE q == BuyQuantity(job[p], t)
                 price == job[p].quotes[t]
      <4>1. job'[p].order.cash = cash - (Notional(q, price) + Fee)
        BY <3>1, <3>4 DEF PrepareBuy, BuyOrder, Job
      <4>2. Notional(q, price) + Fee <= cash
        BY <3>4 DEF PrepareBuy, Affordable
      <4>3. q \in Nat /\ price \in Nat
        BY <3>4, BuyQuantityType DEF PrepareBuy
      <4> HIDE DEF q, price
      <4>4. Notional(q, price) \in Int
        BY <4>3, NotionalType
      <4>5. QED
        BY <3>1, <4>1, <4>2, <4>4
    <3>5. QED
      BY <3>2, <3>3, <3>4
  <2>4. QED
    BY <2>1, <2>2, <2>3 DEF CashInv, CashNeverNegative
<1>2. CASE SessionCloses \/ PersistUniverse \/ UNCHANGED vars
  BY <1>2 DEF SessionCloses, PersistUniverse, vars, ledgerVars, CashInv,
              CashNeverNegative
<1>3. QED
  BY <1>1, <1>2 DEF Next

\* The simulated account never borrows, overlap or not: execute checks the
\* cost of a purchase against the cash it read, and writes what is left of
\* that cash.
THEOREM CashStaysPositive == Spec => []CashNeverNegative
<1>1. CashInv => CashNeverNegative
  BY DEF CashInv
<1>2. QED
  BY <1>1, TypeInvariant, CashInit, CashStep, PTL DEF Spec

-------------------------------------------------------------------------------
(***************************************************************************)
(* Without overlap: the books balance and the plans are carried out.       *)
(***************************************************************************)

\* While a process takes a step, the others are idle and stay so.
LEMMA OthersIdle ==
    ASSUME Serialized, TypeInv, Alone, NEW p \in Procs,
           Begin(p) \/ Run(p) \/ Crash(p)
    PROVE  /\ \A q \in Procs \ {p} : pc'[q] = "idle"
           /\ Alone'
<1>1. \A q \in Procs \ {p} : pc'[q] = pc[q]
  BY OthersStay
<1>2. \A q \in Procs \ {p} : pc[q] = "idle"
  <2>1. CASE Begin(p)
    BY <2>1 DEF Begin
  <2>2. CASE Run(p) \/ Crash(p)
    <3>1. pc[p] # "idle"
      BY <2>2 DEF Run, Crash, Claim, Replay, Leave, Fetch, Plan, PlanUnpriced,
         PrepareExit, RejectExit, PostExit, StartBuying, PrepareBuy, RejectBuy,
         PostBuy, PrepareSnapshot, SnapshotUnpriced, RecordSnapshot,
         Benchmarks, SavePending, Send, SendUnanswered, SendFails, DeadLetter,
         MarkExported, Complete, StepRaises, FailRun, InTry, Raised
    <3>2. QED
      BY <3>1 DEF Alone
  <2>3. QED
    BY <2>1, <2>2
<1>3. QED
  BY <1>1, <1>2 DEF Alone

\* Writing an order changes the imbalance by what the order is off.
LEMMA BooksStep ==
    ASSUME TypeInv, NEW order \in Order, NEW session,
           order.ticker \in Tickers, PostOrder(session, order)
    PROVE  /\ Imbalance \in Int /\ Change(order) \in Int
           /\ Imbalance' = Imbalance + Change(order)
<1>1. /\ cash \in Int /\ realized \in Int /\ positions \in [Tickers -> Position]
      /\ order.cash \in Int /\ order.realized \in Int /\ order.position \in Position
      /\ order.position.basis \in Int /\ InitialCapital \in Int
      /\ IsFiniteSet(Tickers)
  BY SettingsAssumption DEF TypeInv, TypeOK, Order, Position
<1>2. CostBasis \in [Tickers -> Int]
  BY <1>1 DEF CostBasis, Position
<1>3. CostBasis' = [CostBasis EXCEPT ![order.ticker] = order.position.basis]
  BY <1>1 DEF PostOrder, CostBasis
<1>4. SumFunctionOnSet(CostBasis', Tickers) =
        SumFunctionOnSet(CostBasis, Tickers) + order.position.basis
            - CostBasis[order.ticker]
  <2> DEFINE f == CostBasis
             F == CostBasis'
  <2>1. /\ f \in [Tickers -> Int] /\ F \in [Tickers -> Int]
        /\ \A x \in Tickers : x # order.ticker => F[x] = f[x]
        /\ F[order.ticker] = order.position.basis
    BY <1>1, <1>2, <1>3
  <2> HIDE DEF f, F
  <2>2. SumFunctionOnSet(F, Tickers) = SumFunctionOnSet(f, Tickers)
            + F[order.ticker] - f[order.ticker]
    BY <1>1, <2>1, SumChange
  <2>3. QED
    BY <2>1, <2>2 DEF f, F
<1>5. /\ SumFunction(CostBasis) = SumFunctionOnSet(CostBasis, Tickers)
      /\ SumFunction(CostBasis)' = SumFunctionOnSet(CostBasis', Tickers)
  BY DEF SumFunction, CostBasis
<1>6. SumFunction(CostBasis) \in Int
  BY <1>2, TickerSum
<1>7. CostBasis[order.ticker] = positions[order.ticker].basis
      /\ CostBasis[order.ticker] \in Int
  BY <1>2 DEF CostBasis
<1>8. cash' = order.cash /\ realized' = order.realized
  BY DEF PostOrder
<1> DEFINE before == SumFunction(CostBasis)
           after == SumFunction(CostBasis)'
           basis == positions[order.ticker].basis
           new == order.position.basis
<1>9. /\ after = before + new - basis
      /\ before \in Int /\ basis \in Int /\ new \in Int
  BY <1>1, <1>4, <1>5, <1>6, <1>7
<1>10. /\ Imbalance = cash + before - InitialCapital - realized
       /\ Imbalance' = order.cash + after - InitialCapital - order.realized
       /\ Change(order) = order.cash + new - order.realized - (cash + basis - realized)
  BY <1>8 DEF Imbalance, Change
<1> HIDE DEF before, after, basis, new
<1>11. QED
  BY <1>1, <1>9, <1>10

\* A sale, or a purchase, keeps the books balanced.
LEMMA BalanceStep ==
    ASSUME Inv, ReasonInv, SerialInv, NEW p \in Procs, PostExit(p) \/ PostBuy(p)
    PROVE  BooksBalance' /\ IsFiniteSet(decisions')
<1> DEFINE o == job[p].order
           d == [session |-> job[p].session, ticker |-> o.ticker, kind |-> o.kind]
           n == Cardinality(Sales)
<1>1. /\ PostOrder(job[p].session, o) /\ TypeInv
      /\ pc[p] \in {"postExit", "postBuy"}
      /\ o \in Order /\ o.ticker \in Tickers
  BY DEF PostExit, PostBuy, Inv, TypeInv, TypeOK, LocalsOK, Sound, Job
<1>2. decisions' = decisions \cup {d}
  BY <1>1, DecisionAdded
<1>3. IsFiniteSet(decisions')
  BY <1>2, FS_AddElement DEF SerialInv
<1>4. IsFiniteSet(Sales) /\ n \in Nat
  <2>1. Sales \subseteq decisions
    BY DEF Sales
  <2>2. QED
    BY <2>1, FS_Subset, FS_CardinalityType DEF SerialInv
<1>5. /\ Imbalance \in Int /\ Change(o) \in Int
      /\ Imbalance' = Imbalance + Change(o)
  <2> HIDE DEF o
  <2>1. QED
    BY <1>1, BooksStep
<1>6. Imbalance \in -n..n
  BY DEF SerialInv, BooksBalance
<1>7. CASE pc[p] = "postExit"
  <2>1. o.kind # "MODEL_ENTRY"
    BY <1>7 DEF Inv, ClaimInv, StageOK
  <2>2. d \notin decisions
    <3>1. SUFFICES ASSUME d \in decisions PROVE FALSE
      OBVIOUS
    <3>2. d \in DecisionsOf(job[p].session) /\ d.ticker = o.ticker
      BY <3>1 DEF DecisionsOf
    <3>3. QED
      BY <1>7, <3>2 DEF SerialInv, SellsOnce
  <2>3. Sales' = Sales \cup {d} /\ d \notin Sales
    <3>1. d.kind # "MODEL_ENTRY"
      BY <2>1
    <3> HIDE DEF d
    <3>2. QED
      BY <1>2, <2>2, <3>1 DEF Sales
  <2>4. Cardinality(Sales') = n + 1
    <3> HIDE DEF d
    <3>1. QED
      BY <1>4, <2>3, FS_AddElement
  <2>5. Change(o) \in -1..1
    BY <1>7 DEF SerialInv, OrderBalances
  <2> HIDE DEF o, n
  <2>6. Imbalance' \in -(n + 1)..(n + 1)
    BY <1>4, <1>5, <1>6, <2>5
  <2>7. QED
    BY <1>3, <2>4, <2>6 DEF BooksBalance
<1>8. CASE pc[p] = "postBuy"
  <2>1. o.kind = "MODEL_ENTRY"
    BY <1>8 DEF ReasonInv, ReasonOK
  <2>2. Sales' = Sales
    <3>1. d.kind = "MODEL_ENTRY"
      BY <2>1
    <3> HIDE DEF d
    <3>2. QED
      BY <1>2, <3>1 DEF Sales
  <2>3. Change(o) = 0
    BY <1>8 DEF SerialInv, OrderBalances
  <2> HIDE DEF o
  <2>4. Imbalance' = Imbalance
    BY <1>5, <2>3
  <2>5. QED
    BY <1>3, <1>6, <2>2, <2>4 DEF BooksBalance
<1>9. QED
  BY <1>1, <1>7, <1>8

\* The orders execute prepares balance.
LEMMA OrdersBalance ==
    ASSUME TypeInv, NEW p \in Procs, NEW t \in Tickers,
           PrepareExit(p, t) \/ PrepareBuy(p, t)
    PROVE  OrderBalances(p)'
<1>1. /\ cash \in Int /\ realized \in Int /\ positions[t] \in Position
      /\ positions[t].basis \in Int /\ positions[t].quantity \in Nat
      /\ job[p] \in Job /\ job \in [Procs -> Job] /\ pc \in [Procs -> Labels]
      /\ job[p].quotes[t] \in Nat /\ job[p].held[t].quantity \in Nat /\ Fee \in Int
  <2>1. /\ cash \in Int /\ realized \in Int /\ positions[t] \in Position
        /\ job[p] \in Job /\ job \in [Procs -> Job] /\ pc \in [Procs -> Labels]
    BY DEF TypeInv, TypeOK
  <2>2. job[p].quotes[t] \in Nat /\ job[p].held[t] \in Position
    BY <2>1 DEF Job
  <2>3. QED
    BY <2>1, <2>2, SettingsAssumption DEF Position
<1>2. UNCHANGED <<cash, realized, positions>>
  BY DEF PrepareExit, PrepareBuy, ledgerVars
<1>3. CASE PrepareExit(p, t)
  <2> DEFINE q == job[p].held[t].quantity
             price == job[p].quotes[t]
             sold == (positions[t].basis * q) \div positions[t].quantity
             N == Notional(q, price)
             G == Gain(q, price, sold)
  <2>1. job'[p].order = SellOrder(t, q, price, ExitKind(job[p], t))
    BY <1>1, <1>3 DEF PrepareExit, Job
  <2>2. /\ job'[p].order.ticker = t
        /\ job'[p].order.cash = cash - (Fee - N)
        /\ job'[p].order.realized = realized + G
        /\ job'[p].order.position.basis = positions[t].basis - sold
    BY <2>1 DEF SellOrder
  <2>3. sold \in Int
    <3>1. q > 0 /\ q <= positions[t].quantity
      BY <1>3 DEF PrepareExit, Sellable, TypeInv, LocalsOK, Sound
    <3>2. positions[t].quantity > 0
      BY <1>1, <3>1
    <3>3. QED
      BY <1>1, <3>2
  <2>4. pc'[p] = "postExit" /\ q \in Nat /\ price \in Nat
    BY <1>1, <1>3 DEF PrepareExit
  <2> HIDE DEF sold, q, price
  <2>5. N \in Int /\ G \in Int
    BY <2>3, <2>4, NotionalType
  <2>6. N - (sold + Fee) - G \in -1..1
    <3>1. q * price \in Int /\ Scale \in Nat \ {0} /\ sold + Fee \in Int
      BY <1>1, <2>3, <2>4, SettingsAssumption
    <3>2. QED
      BY <3>1, RoundedApart DEF Notional, Gain
  <2> HIDE DEF N, G
  <2>7. Change(job[p].order)' = N - (sold + Fee) - G
    BY <1>1, <1>2, <2>2, <2>3, <2>5 DEF Change
  <2>8. QED
    BY <2>4, <2>6, <2>7 DEF OrderBalances
<1>4. CASE PrepareBuy(p, t)
  <2> DEFINE q == BuyQuantity(job[p], t)
             cost == Notional(q, job[p].quotes[t]) + Fee
  <2>1. job'[p].order = BuyOrder(t, q, job[p].quotes[t]) /\ pc'[p] = "postBuy"
    BY <1>1, <1>4 DEF PrepareBuy, Job
  <2>2. /\ job'[p].order.ticker = t
        /\ job'[p].order.cash = cash - cost
        /\ job'[p].order.realized = realized
        /\ job'[p].order.position.basis = positions[t].basis + cost
    BY <2>1 DEF BuyOrder, Bought
  <2>3. cost \in Int
    <3>1. q \in Nat
      BY <1>4, BuyQuantityType DEF PrepareBuy
    <3> HIDE DEF q
    <3>2. QED
      BY <1>1, <3>1, NotionalType
  <2> HIDE DEF cost
  <2>4. Change(job[p].order)' = 0
    BY <1>1, <1>2, <2>2, <2>3 DEF Change
  <2>5. QED
    BY <2>1, <2>4 DEF OrderBalances
<1>5. QED
  BY <1>3, <1>4

\* A process's own steps: it decides on each exit once.
LEMMA SellsOnceStep ==
    ASSUME TypeInv, NEW p \in Procs, ReasonOK(p), SellsOnce(p),
           Begin(p) \/ Run(p) \/ Crash(p)
    PROVE  SellsOnce(p)'
<1> USE DEF ledgerVars
<1>1. /\ pc \in [Procs -> Labels] /\ job \in [Procs -> Job] /\ job[p] \in Job
  BY DEF TypeInv, TypeOK
<1>2. CASE Plan(p)
  <2>1. PICK targets, toExit, toBuy :
          job' = [job EXCEPT ![p] = [job[p] EXCEPT !.held = positions,
                  !.targets = targets, !.toExit = toExit, !.toBuy = toBuy]]
    BY <1>2 DEF Plan
  <2>2. job'[p].session = job[p].session
    BY <1>1, <2>1 DEF Job
  <2>3. /\ pc[p] = "plan" /\ pc'[p] = "exit" /\ UNCHANGED decisions
    BY <1>1, <1>2 DEF Plan
  <2>4. {d \in decisions' : d.session = job'[p].session} = {}
    BY <2>2, <2>3 DEF ReasonOK, DecisionsOf
  <2>5. QED
    BY <2>3, <2>4 DEF SellsOnce, DecisionsOf
<1>3. CASE \E t \in Tickers : PrepareExit(p, t)
  <2>1. PICK t \in Tickers : PrepareExit(p, t)
    BY <1>3
  <2>2. /\ job'[p].session = job[p].session /\ job'[p].toExit = job[p].toExit
        /\ job'[p].order.ticker = t /\ t \in job[p].toExit
        /\ pc[p] = "exit" /\ UNCHANGED decisions
    BY <1>1, <2>1 DEF PrepareExit, SellOrder, Job
  <2>3. QED
    BY <2>2 DEF SellsOnce, DecisionsOf
<1>4. CASE PostExit(p)
  <2> DEFINE u == job[p].order.ticker
             s == job[p].session
  <2>1. /\ job'[p].session = s /\ job'[p].toExit = job[p].toExit \ {u}
        /\ pc[p] = "postExit" /\ pc'[p] = "exit"
    BY <1>1, <1>4 DEF PostExit, Job
  <2>2. \A d \in decisions' : d.session = s => d \in DecisionsOf(s) \/ d.ticker = u
    BY <1>4 DEF PostExit, PostOrder, DecisionsOf
  <2>3. QED
    BY <2>1, <2>2 DEF SellsOnce, DecisionsOf
<1>5. CASE pc'[p] \notin {"exit", "postExit"}
  BY <1>5 DEF SellsOnce
<1>6. CASE \/ Begin(p) \/ Crash(p) \/ Claim(p) \/ Replay(p) \/ Leave(p)
           \/ Fetch(p) \/ PlanUnpriced(p) \/ StartBuying(p) \/ PostBuy(p)
           \/ PrepareSnapshot(p) \/ SnapshotUnpriced(p)
           \/ RecordSnapshot(p) \/ Benchmarks(p) \/ SavePending(p)
           \/ Send(p) \/ SendUnanswered(p)
           \/ SendFails(p) \/ DeadLetter(p) \/ MarkExported(p) \/ Complete(p)
           \/ StepRaises(p) \/ FailRun(p)
           \/ \E t \in Tickers : RejectExit(p, t) \/ PrepareBuy(p, t) \/ RejectBuy(p, t)
  <2>1. pc'[p] \notin {"exit", "postExit"}
    BY <1>1, <1>6 DEF Begin, Crash, Claim, Replay, Leave, Fetch, PlanUnpriced,
       StartBuying, PostBuy, PrepareSnapshot, SnapshotUnpriced, RecordSnapshot,
       Benchmarks, SavePending, Send, SendUnanswered, SendFails, DeadLetter,
       MarkExported, Complete, StepRaises, FailRun, RejectExit, PrepareBuy,
       RejectBuy
  <2>2. QED
    BY <1>5, <2>1
<1>7. QED
  BY <1>2, <1>3, <1>4, <1>6 DEF Run

\* While a plan holds, none of its trades is turned down, and no holding is
\* without a price.
LEMMA NothingTurnedDown ==
    ASSUME TypeInv, NEW p \in Procs, PlanHolds(p)
    PROVE  /\ ~PlanUnpriced(p) /\ ~SnapshotUnpriced(p)
           /\ \A t \in Tickers : ~RejectExit(p, t) /\ ~RejectBuy(p, t)
<1>1. ~PlanUnpriced(p) /\ ~SnapshotUnpriced(p)
  BY DEF PlanHolds, PlanUnpriced, SnapshotUnpriced
<1>2. \A t \in Tickers : ~RejectExit(p, t)
  BY DEF PlanHolds, RejectExit, Sellable
<1>3. ASSUME NEW t \in Tickers, RejectBuy(p, t) PROVE FALSE
  <2> DEFINE q == BuyQuantity(job[p], t)
             price == job[p].quotes[t]
  <2>1. cash \in Int /\ Fee = 0 /\ job[p].cash = cash
    BY <1>3, DailyAssumption DEF RejectBuy, PlanHolds, TypeInv, TypeOK
  <2>2. q * price \in Int /\ q * price <= Scale * cash /\ q \in Nat /\ price \in Nat
    BY <1>3, <2>1, BuyQuantityType DEF RejectBuy
  <2>3. ~Affordable(q, price)
    BY <1>3 DEF RejectBuy
  <2> HIDE DEF q, price
  <2>4. Notional(q, price) <= cash /\ Notional(q, price) \in Int
    BY <2>1, <2>2, RoundedPays, NotionalType, SettingsAssumption DEF Notional
  <2>5. QED
    BY <2>1, <2>3, <2>4 DEF Affordable
<1>4. QED
  BY <1>1, <1>2, <1>3

\* A process's own steps keep what its plan relies on.
LEMMA PlanStep ==
    ASSUME TypeInv, NEW p \in Procs, PlanHolds(p), Begin(p) \/ Run(p) \/ Crash(p)
    PROVE  PlanHolds(p)'
<1> USE DEF ledgerVars, Trading
<1>1. /\ pc \in [Procs -> Labels] /\ job \in [Procs -> Job] /\ job[p] \in Job
      /\ positions \in [Tickers -> Position] /\ cash \in Int
      /\ Sound(pc[p], job[p])
  BY DEF TypeInv, TypeOK, LocalsOK
<1>2. CASE Fetch(p)
  <2>1. PICK q \in [job[p].members \cup Held -> Prices] :
          job'[p].quotes = [t \in Tickers |-> IF t \in DOMAIN q THEN q[t] ELSE 0]
    <3>1. PICK q \in [job[p].members \cup Held -> Prices] : \E scores :
            job' = [job EXCEPT
              ![p].quotes = [t \in Tickers |-> IF t \in DOMAIN q THEN q[t] ELSE 0],
              ![p].scores = scores]
      BY <1>2 DEF Fetch
    <3> DEFINE quotes == [t \in Tickers |-> IF t \in DOMAIN q THEN q[t] ELSE 0]
    <3> HIDE DEF quotes
    <3>2. job'[p].quotes = quotes
      BY <1>1, <3>1 DEF Job, quotes
    <3>3. QED
      BY <3>2 DEF quotes
  <2>2. \A t \in Held : t \in Tickers /\ t \in DOMAIN q /\ q[t] \in Nat \ {0}
    <3>1. Held \subseteq Tickers /\ Held \subseteq DOMAIN q
      BY DEF Held
    <3>2. \A t \in DOMAIN q : q[t] \in Prices
      OBVIOUS
    <3>3. Prices \subseteq Nat \ {0}
      BY DailyAssumption
    <3>4. QED
      BY <3>1, <3>2, <3>3
  <2>3. Held' = Held /\ pc'[p] = "plan"
    BY <1>1, <1>2 DEF Fetch, Held
  <2>4. AllPriced(job[p])'
    BY <2>1, <2>2, <2>3 DEF AllPriced
  <2>5. QED
    BY <2>3, <2>4 DEF PlanHolds
<1>3. CASE Plan(p)
  <2>1. /\ job'[p].quotes = job[p].quotes
        /\ job'[p].held = positions
        /\ UNCHANGED <<positions, cash>>
        /\ pc[p] = "plan" /\ pc'[p] = "exit"
        /\ job'[p] \in Job
    BY <1>1, <1>3, PlanTypeStep DEF Plan, Job, TypeInv, TypeOK
  <2>2. Held' = Held
    BY <2>1 DEF Held
  <2>3. AllPriced(job[p])'
    BY <2>1, <2>2 DEF AllPriced, PlanHolds
  <2>4. \A t \in job'[p].toExit : positions[t].quantity <= positions'[t].quantity
    BY <1>1, <2>1 DEF Job, Position
  <2>5. QED
    BY <2>1, <2>3, <2>4 DEF PlanHolds
<1>4. CASE \E t \in Tickers : PrepareExit(p, t)
  <2>1. PICK t \in Tickers : PrepareExit(p, t)
    BY <1>4
  <2>2. /\ job'[p].quotes = job[p].quotes /\ job'[p].held = job[p].held
        /\ job'[p].toExit = job[p].toExit /\ job'[p].order.ticker = t
        /\ UNCHANGED <<positions, cash>>
        /\ pc[p] = "exit" /\ pc'[p] = "postExit" /\ t \in job[p].toExit
    BY <1>1, <2>1 DEF PrepareExit, SellOrder, Job
  <2>3. t \in Held
    BY <1>1, <2>2 DEF Held, Sound, PlanHolds, Job, Position
  <2>4. Held' = Held
    BY <2>2 DEF Held
  <2>5. QED
    BY <2>2, <2>3, <2>4 DEF PlanHolds, AllPriced
<1>5. CASE PostExit(p) \/ PostBuy(p)
  <2> DEFINE o == job[p].order
  <2>1. /\ positions' = [positions EXCEPT ![o.ticker] = o.position]
        /\ cash' = o.cash
        /\ job'[p].quotes = job[p].quotes
        /\ pc[p] \in Trading
        /\ o.ticker \in Tickers
    BY <1>1, <1>5 DEF PostExit, PostBuy, PostOrder, Job, Sound
  <2>2. Held' \subseteq Held \cup {o.ticker}
    BY <1>1, <2>1 DEF Held
  <2>3. AllPriced(job[p])'
    BY <2>1, <2>2 DEF AllPriced, PlanHolds
  <2>4. CASE PostExit(p)
    <3>1. /\ job'[p].toExit = job[p].toExit \ {o.ticker}
          /\ job'[p].held = job[p].held
          /\ pc[p] = "postExit" /\ pc'[p] = "exit"
      BY <1>1, <2>4 DEF PostExit, Job
    <3>2. job[p].toExit \subseteq Tickers
      BY <1>1 DEF Job
    <3>3. \A t \in job'[p].toExit : job'[p].held[t].quantity <= positions'[t].quantity
      BY <1>1, <2>1, <3>1, <3>2 DEF PlanHolds
    <3>4. QED
      BY <2>3, <3>1, <3>3 DEF PlanHolds
  <2>5. CASE PostBuy(p)
    <3>1. /\ job'[p].cash = job[p].cash - o.cost
          /\ pc[p] = "postBuy" /\ pc'[p] = "buy"
      BY <1>1, <2>5 DEF PostBuy, Job
    <3>2. job'[p].cash = cash'
      BY <2>1, <3>1 DEF PlanHolds
    <3>3. QED
      BY <2>3, <3>1, <3>2 DEF PlanHolds
  <2>6. QED
    BY <1>5, <2>4, <2>5
<1>6. CASE StartBuying(p)
  <2>1. /\ job'[p].quotes = job[p].quotes /\ job'[p].cash = cash
        /\ UNCHANGED <<positions, cash>>
        /\ pc[p] = "exit" /\ pc'[p] = "buy"
    BY <1>1, <1>6 DEF StartBuying, Job
  <2>2. Held' = Held
    BY <2>1 DEF Held
  <2>3. QED
    BY <2>1, <2>2 DEF PlanHolds, AllPriced
<1>7. CASE \E t \in Tickers : PrepareBuy(p, t)
  <2>1. PICK t \in Tickers : PrepareBuy(p, t)
    BY <1>7
  <2>2. /\ job'[p].quotes = job[p].quotes /\ job'[p].cash = job[p].cash
        /\ job'[p].order.ticker = t
        /\ job'[p].order.cash = cash - job'[p].order.cost
        /\ UNCHANGED <<positions, cash>>
        /\ pc[p] = "buy" /\ pc'[p] = "postBuy" /\ t \in job[p].toBuy
    BY <1>1, <2>1 DEF PrepareBuy, IsNextBuy, Wanted, BuyOrder, Job
  <2>3. job[p].quotes[t] > 0
    BY <1>1, <2>2 DEF Sound
  <2>4. Held' = Held
    BY <2>2 DEF Held
  <2>5. QED
    BY <2>2, <2>3, <2>4 DEF PlanHolds, AllPriced
<1>8. CASE pc'[p] \notin {"plan", "exit", "buy"} \cup Trading
  BY <1>8 DEF PlanHolds
<1>9. CASE \/ Begin(p) \/ Crash(p) \/ Claim(p) \/ Replay(p) \/ Leave(p)
           \/ PlanUnpriced(p) \/ PrepareSnapshot(p) \/ SnapshotUnpriced(p)
           \/ RecordSnapshot(p) \/ Benchmarks(p) \/ SavePending(p)
           \/ Send(p) \/ SendUnanswered(p)
           \/ SendFails(p) \/ DeadLetter(p) \/ MarkExported(p) \/ Complete(p)
           \/ StepRaises(p) \/ FailRun(p)
           \/ \E t \in Tickers : RejectExit(p, t) \/ RejectBuy(p, t)
  <2>1. pc'[p] \notin {"plan", "exit", "buy"} \cup Trading
    BY <1>1, <1>9 DEF Begin, Crash, Claim, Replay, Leave, PlanUnpriced,
       PrepareSnapshot, SnapshotUnpriced, RecordSnapshot, Benchmarks,
       SavePending, Send,
       SendUnanswered, SendFails, DeadLetter, MarkExported, Complete,
       StepRaises, FailRun, RejectExit, RejectBuy
  <2>2. QED
    BY <1>8, <2>1
<1>10. QED
  BY <1>2, <1>3, <1>4, <1>5, <1>6, <1>7, <1>9 DEF Run

\* The first state balances.
LEMMA SerialInit == Init => SerialInv
<1> SUFFICES ASSUME Init PROVE SerialInv
  OBVIOUS
<1>1. \A p \in Procs : pc[p] = "idle"
  BY DEF Init
<1>2. BooksBalance
  <2>1. [t \in Tickers |-> Opening[t].basis] \in [Tickers -> Int]
    BY OpeningAssumption DEF Position
  <2>2. OpeningCost \in Int
    BY <2>1, TickerSum DEF OpeningCost
  <2>3. cash = InitialCapital - OpeningCost /\ realized = 0
        /\ SumFunction(CostBasis) = OpeningCost
    BY DEF Init, LedgerInit, CostBasis, OpeningCost
  <2>4. Imbalance = 0
    BY <2>2, <2>3, SettingsAssumption DEF Imbalance
  <2>5. Cardinality(Sales) = 0
    BY FS_EmptySet DEF Init, LedgerInit, Sales
  <2>6. QED
    BY <2>4, <2>5 DEF BooksBalance
<1>3. IsFiniteSet(decisions)
  BY FS_EmptySet DEF Init, LedgerInit
<1>4. QED
  BY <1>1, <1>2, <1>3 DEF SerialInv, Alone, Trading, OrderBalances, SellsOnce,
                          PlansAreExecutable, PlanHolds

\* Every step keeps the invariant.
LEMMA SerialStep ==
    ASSUME Serialized, Inv, ReasonInv, SerialInv, [Next]_vars
    PROVE  SerialInv'
<1> USE DEF SerialInv
<1>0. TypeInv
  BY DEF Inv
<1>1. ASSUME NEW p \in Procs, Begin(p) \/ Run(p) \/ Crash(p) PROVE SerialInv'
  <2>1. Alone' /\ \A q \in Procs \ {p} : pc'[q] = "idle"
    BY <1>0, <1>1, OthersIdle
  <2>2. BooksBalance' /\ IsFiniteSet(decisions')
    <3>1. CASE PostExit(p) \/ PostBuy(p)
      BY <3>1, BalanceStep
    <3>2. CASE ~(PostExit(p) \/ PostBuy(p))
      <4>1. UNCHANGED <<cash, realized, positions>>
        BY <1>0, <1>1, <3>2, TradeChanges
      <4>2. UNCHANGED decisions
        BY <1>0, <1>1, <3>2, BookChanges
        DEF Claim, Send, SendUnanswered, Complete, FailRun, ledgerVars
      <4>3. QED
        BY <4>1, <4>2 DEF BooksBalance, Imbalance, Sales, CostBasis
    <3>3. QED
      BY <3>1, <3>2
  <2>3. \A q \in Procs : OrderBalances(q)' /\ SellsOnce(q)'
    <3>1. OrderBalances(p)'
      <4>1. CASE pc'[p] \in Trading
        BY <1>0, <1>1, <4>1, TradeChanges, OrdersBalance
      <4>2. CASE pc'[p] \notin Trading
        BY <4>2 DEF OrderBalances, Trading
      <4>3. QED
        BY <4>1, <4>2
    <3>2. SellsOnce(p)'
      BY <1>0, <1>1, SellsOnceStep DEF ReasonInv
    <3>3. QED
      BY <2>1, <3>1, <3>2 DEF OrderBalances, SellsOnce
  <2>4. \A q \in Procs : PlanHolds(q)'
    <3>1. PlanHolds(p)'
      BY <1>0, <1>1, PlanStep
    <3>2. \A q \in Procs \ {p} : PlanHolds(q)'
      BY <2>1 DEF PlanHolds, Trading
    <3>3. QED
      BY <3>1, <3>2
  <2>5. PlansAreExecutable'
    <3>1. pc \in [Procs -> Labels] /\ pc[p] \notin {"rejected", "unpriced"}
      BY <1>0 DEF TypeInv, TypeOK, PlansAreExecutable
    <3>2. pc'[p] \notin {"rejected", "unpriced"}
      <4>1. CASE Begin(p) \/ Crash(p) \/ Claim(p) \/ Replay(p) \/ Leave(p)
        BY <3>1, <4>1 DEF Begin, Crash, Claim, Replay, Leave
      <4>2. CASE Fetch(p) \/ Plan(p)
        BY <3>1, <4>2 DEF Fetch, Plan
      <4>3. CASE \E t \in Tickers : PrepareExit(p, t) \/ PrepareBuy(p, t)
        BY <3>1, <4>3 DEF PrepareExit, PrepareBuy
      <4>4. CASE \/ PostExit(p) \/ PostBuy(p) \/ StartBuying(p)
                 \/ PrepareSnapshot(p) \/ RecordSnapshot(p)
        BY <3>1, <4>4 DEF PostExit, PostBuy, StartBuying, PrepareSnapshot,
                          RecordSnapshot
      <4>5. CASE \/ Benchmarks(p) \/ SavePending(p) \/ Send(p) \/ SendUnanswered(p)
                 \/ SendFails(p) \/ DeadLetter(p) \/ MarkExported(p)
                 \/ Complete(p) \/ StepRaises(p) \/ FailRun(p)
        BY <3>1, <4>5 DEF Benchmarks, SavePending, Send, SendUnanswered, SendFails,
                          DeadLetter, MarkExported, Complete, StepRaises, FailRun
      <4>6. QED
        BY <1>0, <1>1, <4>1, <4>2, <4>3, <4>4, <4>5, NothingTurnedDown DEF Run
    <3>3. QED
      BY <2>1, <3>2 DEF PlansAreExecutable
  <2>6. QED
    BY <2>1, <2>2, <2>3, <2>4, <2>5
<1>2. CASE SessionCloses \/ PersistUniverse \/ UNCHANGED vars
  <2>1. UNCHANGED <<cash, realized, positions, decisions, pc, job>>
    BY <1>2 DEF SessionCloses, PersistUniverse, vars, ledgerVars
  <2>2. /\ Imbalance' = Imbalance /\ Sales' = Sales
        /\ \A s : DecisionsOf(s)' = DecisionsOf(s)
        /\ \A order : Change(order)' = Change(order)
        /\ Held' = Held
    BY <2>1 DEF Imbalance, CostBasis, Sales, DecisionsOf, Change, Held
  <2>3. BooksBalance' /\ IsFiniteSet(decisions')
    BY <2>1, <2>2 DEF BooksBalance
  <2>4. \A q \in Procs : OrderBalances(q)' /\ SellsOnce(q)' /\ PlanHolds(q)'
    BY <2>1, <2>2 DEF OrderBalances, Change, SellsOnce, DecisionsOf, PlanHolds,
                      AllPriced
  <2>5. Alone' /\ PlansAreExecutable'
    BY <2>1 DEF Alone, PlansAreExecutable
  <2>6. QED
    BY <2>3, <2>4, <2>5
<1>3. QED
  BY <1>1, <1>2 DEF Next

\* SerialInv is invariant when invocations do not overlap.
LEMMA SerialInvariant == ASSUME Serialized PROVE Spec => []SerialInv
<1>1. Inv /\ ReasonInv /\ SerialInv /\ [Next]_vars => SerialInv'
  BY SerialStep
<1>2. QED
  BY <1>1, ClaimsInvariant, ReasonInvariant, SerialInit, PTL DEF Spec

\* Without overlap, cash and cost add up to capital and profit, but for a cent
\* per sale, after every trade: execute's absolute writes, of values computed
\* before its transaction began, never lose one.
THEOREM BooksAlwaysBalance == ASSUME Serialized PROVE Spec => []BooksBalance
<1>1. SerialInv => BooksBalance
  BY DEF SerialInv
<1>2. QED
  BY <1>1, SerialInvariant, PTL

\* Without overlap, nothing the run decided is turned down by the execution
\* engine, and no holding it values is without a price.
THEOREM PlansExecute == ASSUME Serialized PROVE Spec => []PlansAreExecutable
<1>1. SerialInv => PlansAreExecutable
  BY DEF SerialInv
<1>2. QED
  BY <1>1, SerialInvariant, PTL

-------------------------------------------------------------------------------
(***************************************************************************)
(* Without overlap: nothing that was given up is left behind.              *)
(***************************************************************************)

\* In the universe the run read, and scored well enough to be bought.
Endorsed(j, t) == t \in j.members /\ j.scores[t] >= Threshold

\* While a run sells, it knows the whole quantity of what is to go, and what
\* is to stay is endorsed; from its purchases on, all that is held is.
KeptOK(p) ==
    /\ pc[p] \in {"exit", "postExit"} =>
        /\ \A t \in job[p].toExit : job[p].held[t].quantity = positions[t].quantity
        /\ \A t \in Held \ job[p].toExit : Endorsed(job[p], t)
    /\ pc[p] = "postExit" => /\ job[p].order.position.quantity = 0
                             /\ job[p].order.ticker \in job[p].toExit
    /\ pc[p] \in {"buy", "postBuy"} \cup Valuing =>
        \A t \in Held : Endorsed(job[p], t)
    /\ pc[p] = "postBuy" => Endorsed(job[p], job[p].order.ticker)

KeptInv == \A p \in Procs : KeptOK(p)

\* A plan sells whatever it does not endorse.
LEMMA KeptIsEndorsed ==
    ASSUME NEW j \in Job, NEW t \in Tickers, ExitKind(j, t) = "NONE"
    PROVE  Endorsed(j, t)
<1>1. t \in j.members /\ ~(j.scores[t] < Threshold)
  BY DEF ExitKind
<1>2. j.scores[t] \in Int /\ Threshold \in Int
  <2>1. j.scores[t] \in 0..100
    BY DEF Job
  <2>2. QED
    BY <2>1, SettingsAssumption
<1>3. QED
  BY <1>1, <1>2 DEF Endorsed

\* A process's own steps.
LEMMA KeptStep ==
    ASSUME TypeInv, NEW p \in Procs, KeptOK(p), ReasonOK(p), TypeInv',
           Begin(p) \/ Run(p) \/ Crash(p)
    PROVE  KeptOK(p)'
<1> USE DEF ledgerVars
<1>1. /\ pc \in [Procs -> Labels] /\ job \in [Procs -> Job] /\ job[p] \in Job
      /\ job'[p] \in Job
      /\ positions \in [Tickers -> Position]
      /\ Sound(pc[p], job[p])
  BY DEF TypeInv, TypeOK, LocalsOK
<1>2. CASE Plan(p)
  <2> DEFINE seen == [job[p] EXCEPT !.held = positions]
             toExit == {t \in Held : ExitKind(seen, t) # "NONE"}
             k == job'[p]
  <2>1. PICK targets, toBuy : job' = [job EXCEPT ![p] = [seen EXCEPT
            !.targets = targets, !.toExit = toExit, !.toBuy = toBuy]]
    BY <1>2 DEF Plan
  <2>2. /\ pc'[p] = "exit" /\ UNCHANGED positions
    BY <1>1, <1>2 DEF Plan
  <2>3. seen \in Job /\ seen.members = job[p].members /\ seen.scores = job[p].scores
    BY <1>1 DEF Job
  <2> HIDE DEF seen, toExit
  <2>4. /\ k.members = seen.members /\ k.scores = seen.scores
        /\ k.held = seen.held /\ k.toExit = toExit
    BY <1>1, <2>1, <2>3 DEF Job
  <2>5. seen.held = positions
    BY <1>1 DEF seen, Job
  <2>6. \A t \in toExit : k.held[t].quantity = positions'[t].quantity
    BY <2>2, <2>4, <2>5
  <2>7. ASSUME NEW t \in Held \ toExit PROVE Endorsed(k, t)
    <3>1. t \in Tickers /\ ExitKind(seen, t) = "NONE"
      BY DEF toExit, Held
    <3>2. Endorsed(seen, t)
      BY <2>3, <3>1, KeptIsEndorsed
    <3>3. QED
      BY <2>4, <3>2 DEF Endorsed
  <2>8. Held' = Held
    BY <2>2 DEF Held
  <2>9. QED
    BY <2>2, <2>4, <2>6, <2>7, <2>8 DEF KeptOK, Endorsed, Valuing
<1>3. CASE \E t \in Tickers : PrepareExit(p, t)
  <2>1. PICK t \in Tickers : PrepareExit(p, t)
    BY <1>3
  <2> DEFINE j == job[p]
             k == job'[p]
  <2>2. /\ k.held = j.held /\ k.members = j.members /\ k.scores = j.scores
        /\ k.toExit = j.toExit /\ k.order.ticker = t
        /\ k.order.position.quantity = positions[t].quantity - j.held[t].quantity
        /\ pc[p] = "exit" /\ pc'[p] = "postExit" /\ t \in j.toExit
        /\ UNCHANGED positions
    BY <1>1, <2>1 DEF PrepareExit, SellOrder, Job
  <2>3. j.held[t].quantity = positions[t].quantity /\ positions[t].quantity \in Nat
    BY <1>1, <2>2 DEF KeptOK, Position
  <2>4. k.order.position.quantity = 0
    BY <2>2, <2>3
  <2>5. Held' = Held
    BY <2>2 DEF Held
  <2>6. QED
    BY <2>2, <2>4, <2>5 DEF KeptOK, Endorsed, Valuing
<1>4. CASE PostExit(p)
  <2> DEFINE j == job[p]
             k == job'[p]
             u == job[p].order.ticker
  <2>1. /\ k.held = j.held /\ k.members = j.members /\ k.scores = j.scores
        /\ k.toExit = j.toExit \ {u}
        /\ pc[p] = "postExit" /\ pc'[p] = "exit"
    BY <1>1, <1>4 DEF PostExit, Job
  <2>2. /\ positions' = [positions EXCEPT ![u] = j.order.position]
        /\ u \in Tickers /\ j.toExit \subseteq Tickers
    BY <1>1, <1>4, <2>1 DEF PostExit, PostOrder, Sound, Job
  <2>3. j.order.position.quantity = 0
    BY <2>1 DEF KeptOK
  <2>4. Held' \subseteq Held \ {u}
    BY <1>1, <2>2, <2>3 DEF Held
  <2>5. \A t \in k.toExit : k.held[t].quantity = positions'[t].quantity
    BY <1>1, <2>1, <2>2 DEF KeptOK
  <2>6. \A t \in Held' \ k.toExit : Endorsed(k, t)
    BY <2>1, <2>4 DEF KeptOK, Endorsed
  <2>7. QED
    BY <2>1, <2>5, <2>6 DEF KeptOK, Endorsed, Valuing
<1>5. CASE StartBuying(p)
  <2>1. /\ job'[p].members = job[p].members /\ job'[p].scores = job[p].scores
        /\ job[p].toExit = {} /\ pc[p] = "exit" /\ pc'[p] = "buy"
        /\ UNCHANGED positions
    BY <1>1, <1>5 DEF StartBuying, Job
  <2>2. Held' = Held
    BY <2>1 DEF Held
  <2>3. QED
    BY <2>1, <2>2 DEF KeptOK, Endorsed, Valuing
<1>6. CASE \E t \in Tickers : PrepareBuy(p, t)
  <2>1. PICK t \in Tickers : PrepareBuy(p, t)
    BY <1>6
  <2>2. /\ job'[p].members = job[p].members /\ job'[p].scores = job[p].scores
        /\ job'[p].order.ticker = t /\ t \in job[p].toBuy
        /\ pc[p] = "buy" /\ pc'[p] = "postBuy"
        /\ UNCHANGED positions
    BY <1>1, <2>1 DEF PrepareBuy, IsNextBuy, Wanted, BuyOrder, Job
  <2>3. Endorsed(job[p], t)
    BY <1>1, <2>2 DEF ReasonOK, Endorsed, Sound
  <2>4. Held' = Held
    BY <2>2 DEF Held
  <2>5. QED
    BY <2>2, <2>3, <2>4 DEF KeptOK, Endorsed, Valuing
<1>7. CASE PostBuy(p)
  <2> DEFINE u == job[p].order.ticker
  <2>1. /\ job'[p].members = job[p].members /\ job'[p].scores = job[p].scores
        /\ pc[p] = "postBuy" /\ pc'[p] = "buy"
        /\ positions' = [positions EXCEPT ![u] = job[p].order.position]
    BY <1>1, <1>7 DEF PostBuy, PostOrder, Job
  <2>2. Held' \subseteq Held \cup {u}
    BY <1>1, <2>1 DEF Held
  <2>3. QED
    BY <2>1, <2>2 DEF KeptOK, Endorsed, Valuing
<1>8. CASE \/ PrepareSnapshot(p) \/ RecordSnapshot(p) \/ Benchmarks(p)
           \/ SavePending(p) \/ Send(p) \/ SendUnanswered(p) \/ SendFails(p)
           \/ MarkExported(p)
  <2>1. /\ job'[p].members = job[p].members /\ job'[p].scores = job[p].scores
        /\ UNCHANGED positions
        /\ pc[p] \in {"buy"} \cup Valuing /\ pc'[p] \in Valuing
    BY <1>1, <1>8 DEF PrepareSnapshot, RecordSnapshot, PostSnapshot, Benchmarks,
       SavePending, Send, SendUnanswered, SendFails, MarkExported, Valuing, Job
  <2>2. Held' = Held
    BY <2>1 DEF Held
  <2>3. QED
    BY <2>1, <2>2 DEF KeptOK, Endorsed, Valuing
<1>9. CASE \/ Begin(p) \/ Crash(p) \/ Claim(p) \/ Replay(p) \/ Leave(p)
           \/ Fetch(p) \/ PlanUnpriced(p) \/ SnapshotUnpriced(p)
           \/ DeadLetter(p) \/ Complete(p) \/ StepRaises(p) \/ FailRun(p)
           \/ \E t \in Tickers : RejectExit(p, t) \/ RejectBuy(p, t)
  <2>1. pc'[p] \notin {"exit", "postExit", "buy", "postBuy"} \cup Valuing
    BY <1>1, <1>9 DEF Begin, Crash, Claim, Replay, Leave, Fetch, PlanUnpriced,
       SnapshotUnpriced, DeadLetter, Complete, StepRaises, FailRun, RejectExit,
       RejectBuy, Valuing
  <2>2. QED
    BY <2>1 DEF KeptOK
<1>10. QED
  BY <1>2, <1>3, <1>4, <1>5, <1>6, <1>7, <1>8, <1>9 DEF Run

\* Every step keeps it, when nobody else trades.
LEMMA KeptInvStep ==
    ASSUME Serialized, Inv, SerialInv, ReasonInv, KeptInv, [Next]_vars
    PROVE  KeptInv'
<1>1. TypeInv /\ TypeInv' /\ Alone
  BY TypeStep DEF Inv, SerialInv
<1>2. ASSUME NEW p \in Procs, Begin(p) \/ Run(p) \/ Crash(p) PROVE KeptInv'
  <2>1. KeptOK(p)'
    BY <1>1, <1>2, KeptStep DEF KeptInv, ReasonInv
  <2>2. \A q \in Procs \ {p} : pc'[q] = "idle"
    BY <1>1, <1>2, OthersIdle
  <2>3. \A q \in Procs \ {p} : KeptOK(q)'
    BY <2>2 DEF KeptOK, Valuing
  <2>4. QED
    BY <2>1, <2>3 DEF KeptInv
<1>3. CASE SessionCloses \/ PersistUniverse \/ UNCHANGED vars
  <2>1. UNCHANGED <<positions, pc, job>>
    BY <1>3 DEF SessionCloses, PersistUniverse, vars, ledgerVars
  <2>2. QED
    BY <2>1 DEF KeptInv, KeptOK, Held, Endorsed
<1>4. QED
  BY <1>2, <1>3 DEF Next

\* Without overlap, whatever a run still holds when it values the portfolio is
\* in its universe and scored at or above the threshold.
THEOREM HoldingsEndorsed == ASSUME Serialized PROVE Spec => []OnlyEndorsedHoldings
<1>1. Init => KeptInv
  BY DEF Init, KeptInv, KeptOK, Valuing
<1>2. Inv /\ SerialInv /\ ReasonInv /\ KeptInv /\ [Next]_vars => KeptInv'
  BY KeptInvStep
<1>3. KeptInv => OnlyEndorsedHoldings
  BY DEF KeptInv, KeptOK, Endorsed, OnlyEndorsedHoldings
<1>4. QED
  BY <1>1, <1>2, <1>3, SerialInvariant, ClaimsInvariant, ReasonInvariant, PTL
  DEF Spec

-------------------------------------------------------------------------------
(***************************************************************************)
(* Without overlap: the snapshots' peak and daily profits.                 *)
(***************************************************************************)

\* Labels before the snapshot of the session is recorded.
Unvalued == {"fetch", "plan", "exit", "postExit", "buy", "postBuy",
             "postSnapshot"}

\* A session on record had a run, it is recorded once, and what is about to be
\* recorded is what the ledger is worth now.
SnapshotOK(p) ==
    /\ pc[p] \in Unvalued => job[p].session \notin Snapshotted
    /\ pc[p] = "postSnapshot" => job[p].valuation = Valued(job[p].quotes)

PeakInv ==
    /\ \A s \in Snapshotted : runs[s] # "none"
    /\ \A p \in Procs : SnapshotOK(p)
    /\ PeakIsMaximum

\* If Yahoo is never behind, sessions are recorded in their order.
SequenceInv ==
    /\ \A s \in Snapshotted : s <= today
    /\ \A p \in Procs : pc[p] # "idle" =>
        /\ job[p].session <= today
        /\ \A s \in Snapshotted : s <= job[p].session
    /\ ProfitTelescopes

\* The latest of a set of sessions, as PreviousTotal picks it.
LatestOf(recorded) == CHOOSE s \in recorded : \A r \in recorded : r <= s

\* It is one of them.
LEMMA LatestIsOne ==
    ASSUME NEW R \in SUBSET Sessions, R # {}
    PROVE  LatestOf(R) \in R
BY LatestExists DEF LatestOf

\* The snapshot a run records is new, and the other rows stay.
LEMMA RecordChanges ==
    ASSUME Inv, PeakInv, NEW p \in Procs, RecordSnapshot(p)
    PROVE  LET s == job[p].session
               v == job[p].valuation
           IN  /\ s \in Sessions /\ s \notin Snapshotted
               /\ Snapshotted' = Snapshotted \cup {s}
               /\ snapshots'[s] = v /\ peak' = v.peak
               /\ \A r \in Sessions \ {s} : snapshots'[r] = snapshots[r]
               /\ v = Valued(job[p].quotes)
               /\ runs[s] = "running" /\ UNCHANGED <<runs, today, job>>
<1> DEFINE s == job[p].session
           v == job[p].valuation
<1>1. /\ pc[p] = "postSnapshot"
      /\ peak' = v.peak /\ snapshots' = [snapshots EXCEPT ![s] = v]
      /\ UNCHANGED <<runs, today, job>>
  BY DEF RecordSnapshot, PostSnapshot
<1>2. /\ s \in Sessions /\ v.peak > 0 /\ runs[s] = "running"
      /\ snapshots \in [Sessions -> Valuation]
  BY <1>1 DEF Inv, ClaimInv, StageOK, SessionsExclusive, Working, InTry,
              TypeInv, TypeOK, LocalsOK, Sound
<1>3. s \notin Snapshotted /\ v = Valued(job[p].quotes)
  BY <1>1 DEF PeakInv, SnapshotOK, Unvalued
<1> HIDE DEF s, v
<1>4. /\ snapshots'[s] = v
      /\ \A r \in Sessions \ {s} : snapshots'[r] = snapshots[r]
  BY <1>1, <1>2
<1>5. Snapshotted' = Snapshotted \cup {s}
  BY <1>2, <1>4 DEF Snapshotted
<1>6. QED
  BY <1>1, <1>2, <1>3, <1>4, <1>5 DEF s, v

\* Only RecordSnapshot writes snapshots and the peak.
LEMMA SnapshotChanges ==
    ASSUME NEW p \in Procs, Begin(p) \/ Run(p) \/ Crash(p)
    PROVE  RecordSnapshot(p) \/ UNCHANGED <<snapshots, peak>>
<1> USE DEF ledgerVars
<1>1. CASE Begin(p) \/ Crash(p) \/ Claim(p) \/ Replay(p) \/ Leave(p)
  BY <1>1 DEF Begin, Crash, Claim, Replay, Leave
<1>2. CASE Fetch(p) \/ Plan(p) \/ PlanUnpriced(p)
  BY <1>2 DEF Fetch, Plan, PlanUnpriced
<1>3. CASE \E t \in Tickers : \/ PrepareExit(p, t) \/ RejectExit(p, t)
                              \/ PrepareBuy(p, t) \/ RejectBuy(p, t)
  BY <1>3 DEF PrepareExit, RejectExit, PrepareBuy, RejectBuy
<1>4. CASE PostExit(p) \/ PostBuy(p)
  BY <1>4 DEF PostExit, PostBuy, PostOrder
<1>5. CASE \/ StartBuying(p) \/ PrepareSnapshot(p) \/ SnapshotUnpriced(p)
           \/ Benchmarks(p) \/ SavePending(p) \/ Send(p) \/ SendUnanswered(p)
           \/ SendFails(p) \/ DeadLetter(p) \/ MarkExported(p) \/ Complete(p)
           \/ StepRaises(p) \/ FailRun(p)
  BY <1>5 DEF StartBuying, PrepareSnapshot, SnapshotUnpriced, Benchmarks,
     SavePending, Send, SendUnanswered, SendFails, DeadLetter, MarkExported,
     Complete, StepRaises, FailRun
<1>6. QED
  BY <1>1, <1>2, <1>3, <1>4, <1>5 DEF Run

\* A label before the snapshot is reached by claiming or from another one.
LEMMA UnvaluedBefore ==
    ASSUME TypeInv, NEW p \in Procs, Begin(p) \/ Run(p) \/ Crash(p),
           pc'[p] \in Unvalued
    PROVE  /\ Claim(p) \/ pc[p] \in Unvalued
           /\ pc'[p] = "postSnapshot" => PrepareSnapshot(p)
           /\ ~RecordSnapshot(p)
<1> USE DEF Unvalued
<1>1. pc \in [Procs -> Labels]
  BY DEF TypeInv, TypeOK
<1>2. CASE Begin(p) \/ Crash(p) \/ Claim(p) \/ Replay(p) \/ Leave(p)
  BY <1>1, <1>2 DEF Begin, Crash, Claim, Replay, Leave, RecordSnapshot
<1>3. CASE Fetch(p) \/ Plan(p) \/ PlanUnpriced(p)
  BY <1>1, <1>3 DEF Fetch, Plan, PlanUnpriced, RecordSnapshot
<1>4. CASE \E t \in Tickers : \/ PrepareExit(p, t) \/ RejectExit(p, t)
                              \/ PrepareBuy(p, t) \/ RejectBuy(p, t)
  BY <1>1, <1>4 DEF PrepareExit, RejectExit, PrepareBuy, RejectBuy, RecordSnapshot
<1>5. CASE \/ PostExit(p) \/ PostBuy(p) \/ StartBuying(p) \/ PrepareSnapshot(p)
  BY <1>1, <1>5 DEF PostExit, PostBuy, StartBuying, PrepareSnapshot, RecordSnapshot
<1>6. CASE \/ SnapshotUnpriced(p) \/ RecordSnapshot(p)
           \/ Benchmarks(p) \/ SavePending(p) \/ Send(p) \/ SendUnanswered(p)
           \/ SendFails(p) \/ DeadLetter(p) \/ MarkExported(p) \/ Complete(p)
           \/ StepRaises(p) \/ FailRun(p)
  BY <1>1, <1>6 DEF SnapshotUnpriced, RecordSnapshot, Benchmarks,
     SavePending, Send, SendUnanswered, SendFails, DeadLetter, MarkExported,
     Complete, StepRaises, FailRun
<1>7. QED
  BY <1>2, <1>3, <1>4, <1>5, <1>6 DEF Run

\* A run's status never goes back to none.
LEMMA RunsStay ==
    ASSUME TypeInv, NEW p \in Procs, Begin(p) \/ Run(p) \/ Crash(p)
    PROVE  \A s \in Sessions : runs[s] # "none" => runs'[s] # "none"
<1>1. CASE Claim(p) \/ Complete(p) \/ FailRun(p)
  BY <1>1 DEF Claim, Complete, FailRun, TypeInv, TypeOK
<1>2. CASE UNCHANGED runs
  BY <1>2
<1>3. QED
  BY <1>1, <1>2, StatusChanges

\* What is about to be recorded, after a process's own step.
LEMMA SnapshotStep ==
    ASSUME Inv, PeakInv, NEW p \in Procs, Begin(p) \/ Run(p) \/ Crash(p)
    PROVE  SnapshotOK(p)'
<1>1. /\ TypeInv /\ pc \in [Procs -> Labels] /\ job \in [Procs -> Job]
      /\ job[p] \in Job /\ SnapshotOK(p)
  BY DEF Inv, TypeInv, TypeOK, PeakInv
<1>2. CASE pc'[p] \notin Unvalued
  BY <1>2 DEF SnapshotOK, Unvalued
<1>3. CASE pc'[p] \in Unvalued
  <2>1. /\ Claim(p) \/ pc[p] \in Unvalued
        /\ pc'[p] = "postSnapshot" => PrepareSnapshot(p)
        /\ ~RecordSnapshot(p)
    BY <1>1, <1>3, UnvaluedBefore
  <2>2. UNCHANGED <<snapshots, peak>>
    BY <2>1, SnapshotChanges
  <2>3. Snapshotted' = Snapshotted
    BY <2>2 DEF Snapshotted
  <2>4. job'[p].session = job[p].session
    BY <1>1, <1>3, OthersStay DEF Working, InTry, Unvalued
  <2>5. job[p].session \notin Snapshotted
    <3>1. CASE Claim(p)
      BY <3>1 DEF Claim, PeakInv
    <3>2. CASE pc[p] \in Unvalued
      BY <1>1, <3>2 DEF SnapshotOK
    <3>3. QED
      BY <2>1, <3>1, <3>2
  <2>6. pc'[p] = "postSnapshot" => job'[p].valuation = Valued(job[p].quotes)'
    <3>1. SUFFICES ASSUME PrepareSnapshot(p)
                   PROVE  job'[p].valuation = Valued(job[p].quotes)'
      BY <2>1
    <3>2. /\ job'[p].valuation = Valued(job[p].quotes)
          /\ job'[p].quotes = job[p].quotes
          /\ UNCHANGED ledgerVars
      BY <1>1, <3>1 DEF PrepareSnapshot, Job
    <3>3. QED
      BY <3>2 DEF ledgerVars, Valued, MarketValue, PreviousTotal, Snapshotted
  <2>7. QED
    BY <2>3, <2>4, <2>5, <2>6 DEF SnapshotOK
<1>4. QED
  BY <1>2, <1>3

\* The peak after a step of one process.
LEMMA MaximumStep ==
    ASSUME Inv, PeakInv, NEW p \in Procs, Begin(p) \/ Run(p) \/ Crash(p)
    PROVE  PeakIsMaximum'
<1>1. CASE RecordSnapshot(p)
  <2> DEFINE s == job[p].session
             v == job[p].valuation
             total == Scale * cash + MarketValue(job[p].quotes)
  <2>1. /\ s \in Sessions /\ s \notin Snapshotted
        /\ Snapshotted' = Snapshotted \cup {s}
        /\ snapshots'[s] = v /\ peak' = v.peak
        /\ \A r \in Sessions \ {s} : snapshots'[r] = snapshots[r]
        /\ v = Valued(job[p].quotes)
    BY <1>1, RecordChanges
  <2>2. v.total = total /\ v.peak = Greater(peak, total)
    BY <2>1 DEF Valued
  <2>3. /\ peak \in Int /\ total \in Int
        /\ \A r \in Snapshotted : r \in Sessions /\ snapshots[r].total \in Int
    <3>1. /\ cash \in Int /\ peak \in Int /\ positions \in [Tickers -> Position]
          /\ snapshots \in [Sessions -> Valuation]
          /\ job[p].quotes \in [Tickers -> Nat]
      BY DEF Inv, TypeInv, TypeOK, Job
    <3>2. MarketValue(job[p].quotes) \in Int /\ Scale * cash \in Int
      BY <3>1, MarketValueType, SettingsAssumption
    <3>3. QED
      BY <3>1, <3>2 DEF Snapshotted, Valuation
  <2> HIDE DEF s, v, total
  <2>4. PeakIsMaximum
    BY DEF PeakInv
  <2>5. peak' >= peak /\ peak' >= total /\ peak' \in {peak, total}
    BY <2>1, <2>2, <2>3 DEF Greater
  <2>6. \A r \in Snapshotted : snapshots'[r] = snapshots[r]
    BY <2>1, <2>3
  <2>7. \A r \in Snapshotted' : snapshots'[r].total <= peak'
    BY <2>1, <2>2, <2>3, <2>4, <2>5, <2>6 DEF PeakIsMaximum
  <2>8. peak' = Scale * InitialCapital \/ \E r \in Snapshotted' : snapshots'[r].total = peak'
    <3>1. CASE peak' = peak
      BY <2>1, <2>4, <2>6, <3>1 DEF PeakIsMaximum
    <3>2. CASE peak' = total
      BY <2>1, <2>2, <3>2
    <3>3. QED
      BY <2>5, <3>1, <3>2
  <2>9. QED
    BY <2>7, <2>8 DEF PeakIsMaximum
<1>2. CASE UNCHANGED <<snapshots, peak>>
  BY <1>2 DEF PeakInv, PeakIsMaximum, Snapshotted
<1>3. QED
  BY <1>1, <1>2, SnapshotChanges

\* Every step keeps the invariant, when nobody else trades.
LEMMA PeakInvStep ==
    ASSUME Serialized, Inv, SerialInv, PeakInv, [Next]_vars
    PROVE  PeakInv'
<1>1. TypeInv /\ Alone
  BY DEF Inv, SerialInv
<1>2. ASSUME NEW p \in Procs, Begin(p) \/ Run(p) \/ Crash(p) PROVE PeakInv'
  <2>1. \A q \in Procs : SnapshotOK(q)'
    <3>1. SnapshotOK(p)'
      BY <1>2, SnapshotStep
    <3>2. \A q \in Procs \ {p} : pc'[q] = "idle"
      BY <1>1, <1>2, OthersIdle
    <3>3. \A q \in Procs \ {p} : SnapshotOK(q)'
      BY <3>2 DEF SnapshotOK, Unvalued
    <3>4. QED
      BY <3>1, <3>3
  <2>2. \A s \in Snapshotted' : s \in Sessions /\ runs[s] # "none"
    <3>1. \A s \in Snapshotted : s \in Sessions /\ runs[s] # "none"
      BY DEF PeakInv, Snapshotted
    <3>2. CASE RecordSnapshot(p)
      <4>1. /\ Snapshotted' = Snapshotted \cup {job[p].session}
            /\ job[p].session \in Sessions /\ runs[job[p].session] = "running"
        BY <3>2, RecordChanges
      <4>2. QED
        BY <3>1, <4>1
    <3>3. CASE UNCHANGED snapshots
      BY <3>1, <3>3 DEF Snapshotted
    <3>4. QED
      BY <1>2, <3>2, <3>3, SnapshotChanges
  <2>3. \A s \in Snapshotted' : runs'[s] # "none"
    BY <1>1, <1>2, <2>2, RunsStay
  <2>4. PeakIsMaximum'
    BY <1>2, MaximumStep
  <2>5. QED
    BY <2>1, <2>3, <2>4 DEF PeakInv
<1>3. CASE SessionCloses \/ PersistUniverse \/ UNCHANGED vars
  <2>1. UNCHANGED <<ledgerVars, runs, pc, job>>
    BY <1>3 DEF SessionCloses, PersistUniverse, vars, ledgerVars
  <2>2. QED
    BY <2>1 DEF PeakInv, SnapshotOK, PeakIsMaximum, Snapshotted, Valued,
                MarketValue, PreviousTotal, ledgerVars
<1>4. QED
  BY <1>2, <1>3 DEF Next

\* PeakInv is invariant when invocations do not overlap.
LEMMA PeakInvariant == ASSUME Serialized PROVE Spec => []PeakInv
<1>1. Init => PeakInv
  <2> SUFFICES ASSUME Init PROVE PeakInv
    OBVIOUS
  <2>1. /\ snapshots = [s \in Sessions |-> NoSnapshot] /\ peak = Scale * InitialCapital
        /\ \A p \in Procs : pc[p] = "idle"
    BY DEF Init, LedgerInit
  <2>2. Snapshotted = {}
    BY <2>1 DEF Snapshotted, NoSnapshot
  <2>3. QED
    BY <2>1, <2>2 DEF PeakInv, SnapshotOK, Unvalued, PeakIsMaximum
<1>2. Inv /\ SerialInv /\ PeakInv /\ [Next]_vars => PeakInv'
  BY PeakInvStep
<1>3. QED
  BY <1>1, <1>2, SerialInvariant, ClaimsInvariant, PTL DEF Spec

\* Without overlap, the peak is the highest total on record: no snapshot is
\* made from a peak that another one has raised since.
THEOREM PeakIsHighest == ASSUME Serialized PROVE Spec => []PeakIsMaximum
<1>1. PeakInv => PeakIsMaximum
  BY DEF PeakInv
<1>2. QED
  BY <1>1, PeakInvariant, PTL

\* The profits after a session later than all those on record is recorded.
LEMMA ProfitStep ==
    ASSUME Inv, PeakInv, SequenceInv, NEW p \in Procs, RecordSnapshot(p)
    PROVE  ProfitTelescopes'
<1> DEFINE s == job[p].session
           v == job[p].valuation
           old == Snapshotted
           Before(r) == {q \in old : q < r}
<1>1. /\ s \in Sessions /\ s \notin old
      /\ Snapshotted' = old \cup {s}
      /\ snapshots'[s] = v
      /\ \A r \in Sessions \ {s} : snapshots'[r] = snapshots[r]
      /\ v = Valued(job[p].quotes)
  BY RecordChanges
<1>2. old \subseteq Sessions /\ \A r \in old : r < s
  <2>1. \A r \in old : r <= s /\ r # s
    BY <1>1 DEF RecordSnapshot, SequenceInv
  <2>2. old \subseteq Sessions
    BY DEF Snapshotted
  <2>3. QED
    BY <1>1, <2>1, <2>2, SettingsAssumption DEF Sessions
<1>3. \A R : PreviousTotal(R) = IF R = {} THEN Scale * InitialCapital
                                ELSE snapshots[LatestOf(R)].total
  BY DEF PreviousTotal, LatestOf
<1>4. ProfitTelescopes
  BY DEF SequenceInv
<1>5. \A r \in old : snapshots[r].pnl = snapshots[r].total - PreviousTotal(Before(r))
  BY <1>4 DEF ProfitTelescopes
<1>6. v.pnl = v.total - PreviousTotal(old)
  BY <1>1 DEF Valued
<1> HIDE DEF s, v, old
<1> DEFINE Total(R) == IF R = {} THEN Scale * InitialCapital
                       ELSE snapshots'[LatestOf(R)].total
<1>7. ASSUME NEW R \in SUBSET old PROVE Total(R) = PreviousTotal(R)
  <2>1. CASE R = {}
    BY <1>3, <2>1
  <2>2. CASE R # {}
    <3>1. LatestOf(R) \in R
      BY <1>2, <2>2, LatestIsOne
    <3>2. snapshots'[LatestOf(R)] = snapshots[LatestOf(R)]
      BY <1>1, <1>2, <3>1
    <3>3. QED
      BY <1>3, <2>2, <3>2
  <2>3. QED
    BY <2>1, <2>2
<1>8. ASSUME NEW r \in old \cup {s}
      PROVE  snapshots'[r].pnl = snapshots'[r].total - Total({q \in old \cup {s} : q < r})
  <2>1. CASE r \in old
    <3>1. r \in Sessions /\ s \in Sessions /\ r < s
      BY <1>1, <1>2, <2>1
    <3>2. ~(s < r)
      BY <3>1, SettingsAssumption DEF Sessions
    <3>3. {q \in old \cup {s} : q < r} = Before(r)
      BY <3>2
    <3>4. Before(r) \in SUBSET old
      OBVIOUS
    <3>5. snapshots'[r] = snapshots[r]
      BY <1>1, <1>2, <2>1
    <3> HIDE DEF Before, Total
    <3>6. QED
      BY <1>5, <1>7, <2>1, <3>3, <3>4, <3>5
  <2>2. CASE r = s
    <3>1. ~(s < s)
      BY <1>1, SettingsAssumption DEF Sessions
    <3>2. {q \in old \cup {s} : q < s} = old
      BY <1>2, <3>1
    <3> HIDE DEF Total
    <3>3. QED
      BY <1>1, <1>6, <1>7, <2>2, <3>2
  <2>3. QED
    BY <2>1, <2>2
<1>9. ProfitTelescopes' <=>
        \A r \in Snapshotted' : snapshots'[r].pnl =
            snapshots'[r].total - Total({q \in Snapshotted' : q < r})
  BY DEF ProfitTelescopes, PreviousTotal, LatestOf
<1> HIDE DEF Total
<1>10. QED
  BY <1>1, <1>8, <1>9

\* A process's session stays the one it began with, which was the newest.
LEMMA SessionStep ==
    ASSUME TypeInv, Lag = 0, NEW p \in Procs, Begin(p) \/ Run(p) \/ Crash(p),
           pc'[p] # "idle"
    PROVE  \/ Begin(p) /\ job'[p].session = today
           \/ pc[p] # "idle" /\ job'[p].session = job[p].session
<1>1. /\ pc \in [Procs -> Labels] /\ job \in [Procs -> Job] /\ job[p] \in Job
      /\ today \in Nat
  BY SettingsAssumption DEF TypeInv, TypeOK
<1>2. CASE Begin(p)
  <2>1. PICK s \in (today - Lag)..today : job' = [job EXCEPT ![p] =
                [NoJob EXCEPT !.session = s, !.members = universe]]
    BY <1>2 DEF Begin
  <2>2. s = today
    BY <1>1, <2>1
  <2>3. job'[p].session = s
    BY <1>1, <2>1 DEF NoJob
  <2>4. QED
    BY <1>2, <2>2, <2>3
<1>3. CASE Crash(p) \/ Leave(p) \/ Complete(p) \/ FailRun(p)
  BY <1>1, <1>3 DEF Crash, Leave, Complete, FailRun
<1>4. CASE Replay(p)
  BY <1>1, <1>4 DEF Replay
<1>5. CASE Working(p)'
  BY <1>2, <1>5, OthersStay
<1>6. CASE Run(p) /\ ~Working(p)'
  <2>1. /\ pc' \in [Procs -> Labels]
        /\ pc'[p] \in {"claim", "replayed"}
    BY <1>6, TypeStep DEF Working, Labels, TypeInv, TypeOK, Next
  <2>2. QED
    BY <1>1, <1>3, <1>4, <1>6, <2>1 DEF Run, Claim, Fetch, Plan, PlanUnpriced,
       PrepareExit, RejectExit, PostExit, StartBuying, PrepareBuy, RejectBuy,
       PostBuy, PrepareSnapshot, SnapshotUnpriced, RecordSnapshot, Benchmarks,
       SavePending, Send, SendUnanswered, SendFails, DeadLetter, MarkExported,
       StepRaises
<1>7. QED
  BY <1>2, <1>3, <1>5, <1>6

\* Every step keeps the sessions in their order.
LEMMA SequenceStep ==
    ASSUME Serialized, Lag = 0, Inv, SerialInv, PeakInv, SequenceInv, [Next]_vars
    PROVE  SequenceInv'
<1>1. /\ TypeInv /\ TypeInv' /\ Alone /\ today \in Nat
      /\ Snapshotted \subseteq Sessions /\ Sessions \subseteq Nat
  <2>1. TypeInv /\ TypeInv' /\ Alone
    BY TypeStep DEF Inv, SerialInv
  <2>2. today \in Nat
    BY <2>1, SettingsAssumption DEF TypeInv, TypeOK
  <2>3. QED
    BY <2>1, <2>2, SettingsAssumption DEF Snapshotted, Sessions
<1>2. ASSUME NEW p \in Procs, Begin(p) \/ Run(p) \/ Crash(p) PROVE SequenceInv'
  <2>1. \A q \in Procs \ {p} : pc'[q] = "idle"
    BY <1>1, <1>2, OthersIdle
  <2>2. UNCHANGED today
    BY <1>2 DEF Begin, Run, Crash, Claim, Replay, Leave, Fetch, Plan, PlanUnpriced,
       PrepareExit, RejectExit, PostExit, StartBuying, PrepareBuy, RejectBuy,
       PostBuy, PrepareSnapshot, SnapshotUnpriced, RecordSnapshot, Benchmarks,
       SavePending, Send, SendUnanswered, SendFails, DeadLetter, MarkExported,
       Complete, StepRaises, FailRun
  <2>3. CASE RecordSnapshot(p)
    <3>1. /\ Snapshotted' = Snapshotted \cup {job[p].session}
          /\ job[p].session \in Sessions /\ UNCHANGED job
      BY <2>3, RecordChanges DEF RecordSnapshot
    <3>2. /\ job[p].session <= today
          /\ \A s \in Snapshotted : s <= job[p].session
      BY <2>3 DEF SequenceInv, RecordSnapshot
    <3>3. ProfitTelescopes'
      BY <2>3, ProfitStep
    <3>4. ASSUME NEW s \in Snapshotted'
          PROVE  s <= today /\ s <= job[p].session
      <4>1. CASE s = job[p].session
        <5>1. job[p].session \in Nat
          BY <1>1, <3>1
        <5>2. QED
          BY <3>2, <4>1, <5>1
      <4>2. CASE s \in Snapshotted
        <5>1. \A r \in Snapshotted : r <= today
          BY DEF SequenceInv
        <5>2. QED
          BY <3>2, <4>2, <5>1
      <4>3. QED
        BY <3>1, <4>1, <4>2
    <3>5. QED
      BY <2>1, <2>2, <3>1, <3>2, <3>3, <3>4 DEF SequenceInv
  <2>4. CASE UNCHANGED <<snapshots, peak>>
    <3>1. Snapshotted' = Snapshotted
      BY <2>4 DEF Snapshotted
    <3>2. ProfitTelescopes'
      BY <2>4, <3>1 DEF SequenceInv, ProfitTelescopes, PreviousTotal
    <3>3. ASSUME pc'[p] # "idle"
          PROVE  /\ job'[p].session <= today
                 /\ \A s \in Snapshotted : s <= job'[p].session
      BY <1>1, <1>2, <3>3, SessionStep DEF SequenceInv
    <3>4. QED
      BY <2>1, <2>2, <3>1, <3>2, <3>3 DEF SequenceInv
  <2>5. QED
    BY <1>2, <2>3, <2>4, SnapshotChanges
<1>3. CASE SessionCloses
  <2>1. today' = today + 1 /\ UNCHANGED <<snapshots, pc, job>>
    BY <1>3 DEF SessionCloses, ledgerVars
  <2>2. Snapshotted' = Snapshotted
    BY <2>1 DEF Snapshotted
  <2>3. ProfitTelescopes'
    BY <2>1, <2>2 DEF SequenceInv, ProfitTelescopes, PreviousTotal
  <2>4. ASSUME NEW q \in Procs, pc'[q] # "idle"
        PROVE  job'[q].session <= today' /\ \A s \in Snapshotted : s <= job'[q].session
    <3>1. pc[q] # "idle" /\ job'[q] = job[q]
      BY <2>1, <2>4
    <3>2. job[q].session \in Nat
      BY <1>1, <3>1 DEF TypeInv, LocalsOK, Sound
    <3>3. job[q].session <= today /\ \A s \in Snapshotted : s <= job[q].session
      BY <3>1 DEF SequenceInv
    <3>4. QED
      BY <1>1, <2>1, <3>1, <3>2, <3>3
  <2>5. \A s \in Snapshotted : s <= today'
    BY <1>1, <2>1 DEF SequenceInv
  <2>6. QED
    BY <2>2, <2>3, <2>4, <2>5 DEF SequenceInv
<1>4. CASE PersistUniverse \/ UNCHANGED vars
  BY <1>4 DEF PersistUniverse, vars, ledgerVars, SequenceInv, Snapshotted,
              ProfitTelescopes, PreviousTotal
<1>5. QED
  BY <1>2, <1>3, <1>4 DEF Next

\* Without overlap, and if Yahoo always knows the latest session, each daily
\* profit is measured from the snapshot of the latest earlier session: the row
\* snapshot looks up by date is the one that came before.
THEOREM ProfitsTelescope ==
    ASSUME Serialized, Lag = 0 PROVE Spec => []ProfitTelescopes
<1>1. Init => SequenceInv
  <2> SUFFICES ASSUME Init PROVE SequenceInv
    OBVIOUS
  <2>1. snapshots = [s \in Sessions |-> NoSnapshot] /\ \A p \in Procs : pc[p] = "idle"
    BY DEF Init, LedgerInit
  <2>2. Snapshotted = {}
    BY <2>1 DEF Snapshotted, NoSnapshot
  <2>3. QED
    BY <2>1, <2>2 DEF SequenceInv, ProfitTelescopes
<1>2. Inv /\ SerialInv /\ PeakInv /\ SequenceInv /\ [Next]_vars => SequenceInv'
  BY SequenceStep
<1>3. SequenceInv => ProfitTelescopes
  BY DEF SequenceInv
<1>4. QED
  BY <1>1, <1>2, <1>3, SerialInvariant, ClaimsInvariant, PeakInvariant, PTL DEF Spec
===============================================================================
