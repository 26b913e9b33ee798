---------------------------- MODULE DailyTypeProofs ---------------------------
(***************************************************************************)
(* Type correctness of the daily cycle, for every configuration.  The      *)
(* proofs about its behaviour, in other modules, start from here.          *)
(***************************************************************************)
EXTENDS DailyProperties, SumTheorems

Unplanned == {"idle", "claim", "replayed", "fetch", "plan"}

\* What the steps of one invocation rely on, over the types: a job has a
\* session, an order ready to be posted has a ticker, what has a score has a
\* quote, only what scored is bought, and only what is held is sold, for a
\* reason.
Sound(label, j) ==
    /\ label # "idle" => j.session \in Sessions
    /\ label \in {"postExit", "postBuy"} => j.order.ticker \in Tickers
    /\ label \in Unplanned => j.toBuy = {} /\ j.toExit = {}
    /\ \A t \in Tickers : j.scores[t] > 0 => j.quotes[t] > 0
    /\ \A t \in j.toBuy : j.scores[t] > 0
    /\ \A t \in j.toExit : j.held[t].quantity > 0 /\ ExitKind(j, t) # "NONE"

LocalsOK(p) == Sound(pc[p], job[p])

TypeInv == TypeOK /\ \A p \in Procs : LocalsOK(p)

-------------------------------------------------------------------------------
(***************************************************************************)
(* The operators of the ledger and of the allocation.                      *)
(***************************************************************************)

\* The sum of an integer function over all tickers is an integer.
LEMMA TickerSum ==
    ASSUME NEW f \in [Tickers -> Int]
    PROVE  SumFunction(f) \in Int
<1>1. IsFiniteSet(Tickers)
  BY SettingsAssumption
<1>2. DOMAIN f = Tickers
  OBVIOUS
<1>3. QED
  BY <1>1, <1>2, SumUnfolds DEF SumFunction

\* Rounding half to even gives an integer, at most half a unit away.
LEMMA Rounding ==
    ASSUME NEW n \in Int, NEW d \in Nat \ {0}
    PROVE  /\ HalfEven(n, d) \in Int
           /\ 2 * (d * HalfEven(n, d)) <= 2 * n + d
           /\ 2 * n <= 2 * (d * HalfEven(n, d)) + d
<1> DEFINE q == n \div d
           m == n % d
           up == HalfEven(n, d) = q + 1 /\ 2 * m >= d
           down == HalfEven(n, d) = q /\ 2 * m <= d
<1>1. q \in Int /\ m \in 0..(d - 1) /\ n = d * q + m
  OBVIOUS
<1>2. up \/ down
  <2> HIDE DEF q, m
  <2>1. HalfEven(n, d) =
            IF 2 * m > d \/ (2 * m = d /\ q % 2 = 1) THEN q + 1 ELSE q
    BY DEF HalfEven, q, m
  <2>2. QED
    BY <1>1, <2>1
<1> HIDE DEF q, m
<1>3. d * (q + 1) = d * q + d /\ d * q \in Int
  BY <1>1
<1>4. CASE up
  <2>1. d * HalfEven(n, d) = d * q + d
    BY <1>3, <1>4
  <2>2. QED
    BY <1>1, <1>3, <1>4, <2>1
<1>5. CASE down
  <2>1. d * HalfEven(n, d) = d * q
    BY <1>5
  <2>2. QED
    BY <1>1, <1>3, <1>5, <2>1
<1>6. QED
  BY <1>2, <1>4, <1>5

\* What a trade moves, and what it earns, is a whole number of cents.
LEMMA NotionalType ==
    ASSUME NEW quantity \in Nat, NEW price \in Nat, NEW basis \in Int
    PROVE  Notional(quantity, price) \in Int /\ Gain(quantity, price, basis) \in Int
<1>1. quantity * price \in Int /\ Scale \in Nat \ {0} /\ Fee \in Int
  BY SettingsAssumption
<1>2. quantity * price - Scale * (basis + Fee) \in Int
  BY <1>1
<1>3. QED
  BY <1>1, <1>2, Rounding DEF Notional, Gain

\* The market value of the positions is an integer.
LEMMA MarketValueType ==
    ASSUME positions \in [Tickers -> Position], NEW quotes \in [Tickers -> Nat]
    PROVE  MarketValue(quotes) \in Int
<1>1. [t \in Tickers |-> positions[t].quantity * quotes[t]] \in [Tickers -> Int]
  BY DEF Position
<1>2. QED
  BY <1>1, TickerSum DEF MarketValue

\* Every target is an amount of money: the scores it is divided by add up to
\* more than 0, because whatever is selected passed a positive threshold.
LEMMA TargetsType ==
    ASSUME NEW scores \in [Tickers -> 0..100], NEW value \in Int
    PROVE  /\ Targets(scores, value) \in [Selected(scores) -> Int]
           /\ Selected(scores) \subseteq Tickers
           /\ \A t \in Selected(scores) : scores[t] > 0
<1>1. /\ Selected(scores) \subseteq Tickers
      /\ \A t \in Selected(scores) : scores[t] > 0
  BY SettingsAssumption DEF Selected, Qualified
<1>2. ASSUME NEW t \in Selected(scores)
      PROVE  Target(scores, value, t) \in Int
  <2>1. ScoreTotal(scores) \in Int
    <3>1. IsFiniteSet(Tickers) /\ scores \in [Tickers -> Int]
      BY SettingsAssumption
    <3>2. QED
      BY <1>1, <3>1, SumUnfolds DEF ScoreTotal
  <2>2. ScoreTotal(scores) > 0
    <3>1. scores \in [Tickers -> Nat]
      OBVIOUS
    <3>2. SumFunctionOnSet(scores, Selected(scores)) >= scores[t]
      BY <3>1, <1>1, SettingsAssumption, SumBound
    <3>3. QED
      BY <3>2, <2>1, <1>1 DEF ScoreTotal
  <2>3. Investable(value) \in Int
    BY SettingsAssumption DEF Investable, Greater
  <2>4. Investable(value) * scores[t] \in Int
    BY <2>3, <1>1
  <2>5. (Investable(value) * scores[t]) \div (ScoreTotal(scores) * Scale) \in Int
    <3>1. ScoreTotal(scores) * Scale \in Nat \ {0}
      BY <2>1, <2>2, SettingsAssumption
    <3>2. QED
      BY <2>4, <3>1
  <2>6. (Investable(value) * MaxWeight) \div (100 * Scale) \in Int
    <3>1. 100 * Scale \in Nat \ {0} /\ Investable(value) * MaxWeight \in Int
      BY <2>3, SettingsAssumption
    <3>2. QED
      BY <3>1
  <2>7. QED
    BY <2>5, <2>6, SettingsAssumption DEF Target, Lesser
<1>3. QED
  BY <1>1, <1>2 DEF Targets

\* Among sessions on record there is a latest one.
LEMMA LatestExists ==
    ASSUME NEW R \in SUBSET Sessions, R # {}
    PROVE  \E s \in R : \A r \in R : r <= s
<1> DEFINE Back == {NSessions - s : s \in R}
<1>1. Back \in SUBSET Nat /\ Back # {}
  <2>1. \A s \in R : NSessions - s \in Nat
    BY SettingsAssumption DEF Sessions
  <2>2. PICK s \in R : TRUE
    OBVIOUS
  <2>3. NSessions - s \in Back
    BY <2>2
  <2>4. Back \in SUBSET Nat
    BY <2>1
  <2>5. QED
    BY <2>3, <2>4
<1> HIDE DEF Back
<1>2. PICK b \in Back : \A c \in Back : b <= c
  BY <1>1, LeastNatural
<1>3. PICK s \in R : b = NSessions - s
  BY <1>2 DEF Back
<1>4. ASSUME NEW r \in R PROVE r <= s
  <2>1. NSessions - s <= NSessions - r
    BY <1>2, <1>3 DEF Back
  <2>2. QED
    BY <2>1, SettingsAssumption DEF Sessions
<1>5. QED
  BY <1>4

\* A valuation is a row of integers.
LEMMA ValuationType ==
    ASSUME cash \in Int, peak \in Int, positions \in [Tickers -> Position],
           snapshots \in [Sessions -> Valuation], NEW quotes \in [Tickers -> Nat]
    PROVE  Valued(quotes) \in Valuation
<1>1. MarketValue(quotes) \in Int
  BY MarketValueType
<1>2. PreviousTotal(Snapshotted) \in Int
  <2>1. CASE Snapshotted = {}
    <3>1. Scale * InitialCapital \in Int
      BY SettingsAssumption
    <3>2. QED
      BY <2>1, <3>1 DEF PreviousTotal
  <2>2. CASE Snapshotted # {}
    <3>1. Snapshotted \in SUBSET Sessions
      BY DEF Snapshotted
    <3>2. \E s \in Snapshotted : \A r \in Snapshotted : r <= s
      BY <2>2, <3>1, LatestExists
    <3> DEFINE latest == CHOOSE s \in Snapshotted : \A r \in Snapshotted : r <= s
    <3>3. latest \in Sessions
      BY <3>1, <3>2
    <3> HIDE DEF latest
    <3>4. snapshots[latest].total \in Int
      BY <3>3 DEF Valuation
    <3>5. QED
      BY <2>2, <3>4 DEF PreviousTotal, latest
  <2>3. QED
    BY <2>1, <2>2
<1>3. Scale * cash \in Int
  BY SettingsAssumption
<1>4. QED
  BY <1>1, <1>2, <1>3 DEF Valued, Valuation, Greater

\* The orders execute prepares are well formed.
LEMMA BuyOrderType ==
    ASSUME cash \in Int, realized \in Int, positions \in [Tickers -> Position],
           NEW t \in Tickers, NEW quantity \in Nat, NEW price \in Nat
    PROVE  BuyOrder(t, quantity, price) \in Order
<1>1. Notional(quantity, price) \in Int /\ Notional(quantity, price) + Fee \in Int
  BY NotionalType, SettingsAssumption
<1>2. QED
  BY <1>1 DEF BuyOrder, Bought, Order, Position, Kinds

\* A sale of shares that are there is an order: its quotients have no zero below.
LEMMA SellOrderType ==
    ASSUME cash \in Int, realized \in Int, positions \in [Tickers -> Position],
           NEW t \in Tickers, NEW quantity \in Nat, NEW price \in Nat,
           NEW kind \in Kinds,
           quantity > 0, Sellable(t, quantity)
    PROVE  SellOrder(t, quantity, price, kind) \in Order
<1> DEFINE old == positions[t]
<1>1. /\ old.quantity \in Nat
      /\ old.quantity > 0
      /\ old.quantity - quantity \in Nat
      /\ old.basis \in Int
  BY DEF Position, Sellable
<1> HIDE DEF old
<1>2. Fee - Notional(quantity, price) \in Int
  BY NotionalType, SettingsAssumption
<1> DEFINE sold == (old.basis * quantity) \div old.quantity
<1>3. sold \in Int
  BY <1>1
<1> HIDE DEF sold
<1>4. Gain(quantity, price, sold) \in Int
  BY <1>3, NotionalType
<1>5. QED
  BY <1>1, <1>2, <1>3, <1>4 DEF SellOrder, Order, Position, old, sold

\* The analyses on record after a loop that may have stored rows.
LEMMA RecordedIs ==
    ASSUME TypeOK, NEW s \in Sessions, NEW analysis \in Analyses, NEW any \in BOOLEAN
    PROVE  /\ Recorded(s, analysis, any) \in [Sessions -> SUBSET Analyses]
           /\ \A r \in Sessions : evidence[r] \subseteq Recorded(s, analysis, any)[r]
           /\ \A r \in Sessions : r # s => Recorded(s, analysis, any)[r] = evidence[r]
           /\ any => analysis \in Recorded(s, analysis, any)[s]
<1>1. evidence \in [Sessions -> SUBSET Analyses]
  BY DEF TypeOK
<1>2. CASE any
  <2>1. Recorded(s, analysis, any) = [evidence EXCEPT ![s] = @ \cup {analysis}]
    BY <1>2 DEF Recorded
  <2>2. QED
    BY <1>1, <2>1
<1>3. CASE ~any
  <2>1. Recorded(s, analysis, any) = [evidence EXCEPT ![s] = @]
    BY <1>3 DEF Recorded
  <2>2. QED
    BY <1>1, <1>3, <2>1
<1>4. QED
  BY <1>2, <1>3

\* What is packed for the ERP is a batch.
LEMMA BatchType ==
    ASSUME TypeOK, NEW s \in Sessions
    PROVE  Batch(s) \in DeliveredBatch
BY DEF TypeOK, Batch, DeliveredBatch, DecisionsOf

-------------------------------------------------------------------------------
(***************************************************************************)
(* Initially, and after a step.                                            *)
(***************************************************************************)

\* A job that has not begun is well formed.
LEMMA NoJobOK == NoJob \in Job
BY DEF Job, NoJob, NoOrder, NoPosition, NoSnapshot, Position, Valuation, Order,
       Kinds

\* The first state has the types.
LEMMA TypeInit == Init => TypeInv
<1> SUFFICES ASSUME Init PROVE TypeInv
  OBVIOUS
<1> USE DEF Init, LedgerInit
<1>1. cash \in Int /\ realized \in Int /\ peak \in Int
  <2>1. [t \in Tickers |-> Opening[t].basis] \in [Tickers -> Int]
    BY OpeningAssumption DEF Position
  <2>2. OpeningCost \in Int
    BY <2>1, TickerSum DEF OpeningCost
  <2>3. Scale * InitialCapital \in Int
    BY SettingsAssumption
  <2>4. QED
    BY <2>2, <2>3, SettingsAssumption
<1>2. positions \in [Tickers -> Position] /\ snapshots \in [Sessions -> Valuation]
  BY OpeningAssumption DEF NoSnapshot, Valuation
<1>3. job \in [Procs -> Job]
  BY NoJobOK
<1>4. TypeOK
  BY <1>1, <1>2, <1>3, SettingsAssumption
  DEF TypeOK, RunStatuses, Labels
<1>5. \A p \in Procs : LocalsOK(p)
  BY DEF LocalsOK, Sound, NoJob
<1>6. QED
  BY <1>4, <1>5 DEF TypeInv

\* A process whose own label and locals are well formed after a step that
\* changes nobody else's keeps all of them well formed.
LEMMA LocalStep ==
    ASSUME TypeInv, NEW p \in Procs, NEW label \in Labels, NEW locals \in Job,
           Sound(label, locals),
           pc' = [pc EXCEPT ![p] = label],
           job' = [job EXCEPT ![p] = locals]
    PROVE  /\ pc' \in [Procs -> Labels]
           /\ job' \in [Procs -> Job]
           /\ \A q \in Procs : LocalsOK(q)'
<1>1. pc' \in [Procs -> Labels] /\ job' \in [Procs -> Job]
  BY DEF TypeInv, TypeOK
<1>2. ASSUME NEW q \in Procs PROVE LocalsOK(q)'
  <2>1. CASE q = p
    <3>1. pc'[q] = label /\ job'[q] = locals
      BY <2>1 DEF TypeInv, TypeOK
    <3>2. QED
      BY <3>1 DEF LocalsOK
  <2>2. CASE q # p
    <3>1. pc'[q] = pc[q] /\ job'[q] = job[q]
      BY <2>2 DEF TypeInv, TypeOK
    <3>2. LocalsOK(q)
      BY DEF TypeInv
    <3>3. QED
      BY <3>1, <3>2 DEF LocalsOK
  <2>3. QED
    BY <2>1, <2>2
<1>3. QED
  BY <1>1, <1>2

-------------------------------------------------------------------------------
(***************************************************************************)
(* Every step keeps the types.                                             *)
(***************************************************************************)

\* The steps of the world around the cycle leave the processes alone.
LEMMA WorldTypeStep ==
    ASSUME TypeInv, SessionCloses \/ PersistUniverse
    PROVE  TypeInv'
<1>1. \A p \in Procs : LocalsOK(p)'
  BY DEF TypeInv, LocalsOK, SessionCloses, PersistUniverse
<1>2. today' \in 0..NSessions
  BY SettingsAssumption DEF SessionCloses, PersistUniverse, TypeInv, TypeOK
<1>3. universe' \subseteq Tickers
  <2>1. Universes \subseteq SUBSET Tickers
    BY DailyAssumption
  <2>2. QED
    BY <2>1 DEF SessionCloses, PersistUniverse, TypeInv, TypeOK
<1>4. UNCHANGED <<ledgerVars, runs, evidence, batches, delivered, pc, job>>
  BY DEF SessionCloses, PersistUniverse
<1>5. TypeOK'
  BY <1>2, <1>3, <1>4 DEF TypeInv, TypeOK, ledgerVars
<1>6. QED
  BY <1>1, <1>5 DEF TypeInv

\* A step of process p that leaves the ledger alone keeps the types if the
\* other tables and the process's own label and locals keep theirs.
LEMMA LocalTypeStep ==
    ASSUME TypeInv, NEW p \in Procs, NEW label \in Labels, NEW locals \in Job,
           Sound(label, locals),
           pc' = [pc EXCEPT ![p] = label],
           job' = [job EXCEPT ![p] = locals],
           UNCHANGED <<ledgerVars, universe, today>>,
           runs' \in [Sessions -> RunStatuses],
           evidence' \in [Sessions -> SUBSET Analyses],
           batches' \in [Sessions -> {"none", "pending", "dead_letter", "exported"}],
           delivered' \in Seq(DeliveredBatch)
    PROVE  TypeInv'
<1>1. /\ pc' \in [Procs -> Labels]
      /\ job' \in [Procs -> Job]
      /\ \A q \in Procs : LocalsOK(q)'
  BY LocalStep
<1>2. QED
  BY <1>1 DEF TypeInv, TypeOK, ledgerVars

\* Claiming a session, or standing aside.
LEMMA ClaimTypeStep ==
    ASSUME TypeInv, NEW p \in Procs, Begin(p) \/ Claim(p) \/ Replay(p) \/ Leave(p)
    PROVE  TypeInv'
<1>1. job[p] \in Job /\ Sound(pc[p], job[p]) /\ job = [job EXCEPT ![p] = job[p]]
  BY DEF TypeInv, TypeOK, LocalsOK
<1>2. CASE Begin(p)
  <2>1. PICK s \in Sessions :
          job' = [job EXCEPT ![p] = [NoJob EXCEPT !.session = s, !.members = universe]]
    BY <1>2 DEF Begin
  <2> DEFINE locals == [NoJob EXCEPT !.session = s, !.members = universe]
  <2>2. locals \in Job
    BY NoJobOK DEF TypeInv, TypeOK, Job
  <2>3. Sound("claim", locals)
    BY DEF Sound, NoJob
  <2> HIDE DEF locals
  <2>4. /\ job' = [job EXCEPT ![p] = locals]
        /\ pc' = [pc EXCEPT ![p] = "claim"]
        /\ "claim" \in Labels
    BY <2>1, <1>2 DEF Begin, locals, Labels
  <2>5. QED
    BY <2>2, <2>3, <2>4, <1>2, LocalTypeStep DEF Begin, TypeInv, TypeOK
<1>3. CASE Claim(p)
  <2>1. Sound("fetch", job[p]) /\ "fetch" \in Labels
    BY <1>1, <1>3 DEF Sound, Claim, Unplanned, Labels, InTry
  <2>2. runs' \in [Sessions -> RunStatuses]
    BY <1>3 DEF Claim, TypeInv, TypeOK, RunStatuses
  <2>3. QED
    BY <1>1, <1>3, <2>1, <2>2, LocalTypeStep DEF Claim, TypeInv, TypeOK
<1>4. CASE Replay(p)
  <2>1. Sound("replayed", job[p]) /\ "replayed" \in Labels
    BY <1>1, <1>4 DEF Sound, Replay, Unplanned, Labels
  <2>2. QED
    BY <1>1, <1>4, <2>1, LocalTypeStep DEF Replay, TypeInv, TypeOK
<1>5. CASE Leave(p)
  <2>1. Sound("idle", NoJob) /\ "idle" \in Labels
    BY DEF Sound, NoJob, Labels
  <2>2. QED
    BY <1>5, <2>1, NoJobOK, LocalTypeStep DEF Leave, TypeInv, TypeOK
<1>6. QED
  BY <1>2, <1>3, <1>4, <1>5

\* Pricing, scoring and planning.
LEMMA PlanTypeStep ==
    ASSUME TypeInv, NEW p \in Procs, Fetch(p) \/ Plan(p) \/ PlanUnpriced(p)
    PROVE  TypeInv'
<1>1. job[p] \in Job /\ Sound(pc[p], job[p]) /\ job = [job EXCEPT ![p] = job[p]]
  BY DEF TypeInv, TypeOK, LocalsOK
<1>2. CASE Fetch(p)
  <2>1. PICK q \in [job[p].members \cup Held -> Prices],
             c \in [job[p].members -> Scores] :
          job' = [job EXCEPT
            ![p].quotes = [t \in Tickers |-> IF t \in DOMAIN q THEN q[t] ELSE 0],
            ![p].scores = [t \in Tickers |-> IF t \in DOMAIN c THEN c[t] ELSE 0]]
    BY <1>2 DEF Fetch
  <2> DEFINE quotes == [t \in Tickers |-> IF t \in DOMAIN q THEN q[t] ELSE 0]
             scores == [t \in Tickers |-> IF t \in DOMAIN c THEN c[t] ELSE 0]
             locals == [job[p] EXCEPT !.quotes = quotes, !.scores = scores]
  <2>2. /\ \A t \in DOMAIN q : q[t] \in Nat \ {0}
        /\ \A t \in DOMAIN c : c[t] \in 0..100
        /\ DOMAIN c \subseteq DOMAIN q
    <3>1. /\ \A t \in DOMAIN q : q[t] \in Prices
          /\ \A t \in DOMAIN c : c[t] \in Scores
      OBVIOUS
    <3>2. Prices \subseteq Nat \ {0} /\ Scores \subseteq 0..100
      BY DailyAssumption
    <3>3. QED
      BY <3>1, <3>2
  <2>3. /\ quotes \in [Tickers -> Nat]
        /\ scores \in [Tickers -> 0..100]
        /\ \A t \in Tickers : scores[t] > 0 => quotes[t] > 0
    <3>1. \A t \in Tickers : quotes[t] \in Nat /\ scores[t] \in 0..100
      BY <2>2
    <3>2. \A t \in Tickers : scores[t] > 0 => quotes[t] > 0
      BY <2>2
    <3>3. QED
      BY <3>1, <3>2
  <2>4. job' = [job EXCEPT ![p] = locals]
    BY <1>1, <2>1 DEF TypeInv, TypeOK
  <2> HIDE DEF quotes, scores
  <2>5. locals \in Job
    BY <1>1, <2>3 DEF Job
  <2>6. Sound("plan", locals)
    BY <1>1, <1>2, <2>3 DEF Job, Fetch, Sound, Unplanned
  <2> HIDE DEF locals
  <2>7. "plan" \in Labels
    BY DEF Labels, InTry
  <2>8. evidence' \in [Sessions -> SUBSET Analyses]
    <3>1. PICK any \in BOOLEAN :
            evidence' = Recorded(job[p].session, "model_signals", any)
      BY <1>2 DEF Fetch
    <3>2. job[p].session \in Sessions
      BY <1>1, <1>2 DEF Fetch, Sound
    <3>3. QED
      BY <3>1, <3>2, RecordedIs DEF TypeInv, Analyses
  <2>9. QED
    BY <1>2, <2>4, <2>5, <2>6, <2>7, <2>8, LocalTypeStep
    DEF Fetch, TypeInv, TypeOK
<1>3. CASE Plan(p)
  <2> DEFINE value == Scale * cash + MarketValue(job[p].quotes)
             chosen == Targets(job[p].scores, value)
             seen == [job[p] EXCEPT !.held = positions]
             targets == [t \in Tickers |-> IF t \in DOMAIN chosen THEN chosen[t] ELSE 0]
             toExit == {t \in Held : ExitKind(seen, t) # "NONE"}
             locals == [seen EXCEPT !.targets = targets, !.toExit = toExit,
                                    !.toBuy = DOMAIN chosen]
  <2>1. value \in Int
    <3>1. job[p].quotes \in [Tickers -> Nat]
      BY <1>1 DEF Job
    <3>2. MarketValue(job[p].quotes) \in Int
      BY <3>1, MarketValueType DEF TypeInv, TypeOK
    <3>3. Scale * cash \in Int
      BY SettingsAssumption DEF TypeInv, TypeOK
    <3>4. QED
      BY <3>2, <3>3
  <2>2. /\ chosen \in [Selected(job[p].scores) -> Int]
        /\ Selected(job[p].scores) \subseteq Tickers
        /\ \A t \in Selected(job[p].scores) : job[p].scores[t] > 0
    <3> HIDE DEF value
    <3>1. QED
      BY <1>1, <2>1, TargetsType DEF Job
  <2>3. /\ job' = [job EXCEPT ![p] = locals]
        /\ pc' = [pc EXCEPT ![p] = "exit"]
        /\ evidence' = Recorded(job[p].session, "capital_allocations",
                                DOMAIN chosen # {})
        /\ UNCHANGED <<ledgerVars, runs, batches, delivered, universe, today>>
        /\ pc[p] = "plan"
    BY <1>3 DEF Plan
  <2>4. targets \in [Tickers -> Int]
    <3> HIDE DEF chosen
    <3>1. QED
      BY <2>2
  <2>5. toExit \subseteq Tickers /\ \A t \in toExit : positions[t].quantity > 0
    BY DEF Held
  <2>6. \A t \in toExit : ExitKind(seen, t) # "NONE"
    OBVIOUS
  <2> HIDE DEF value, chosen, targets, toExit
  <2>7. \A t \in toExit : ExitKind(locals, t) # "NONE"
    <3>1. /\ locals.held = seen.held /\ locals.quotes = seen.quotes
          /\ locals.scores = seen.scores /\ locals.members = seen.members
      BY <1>1 DEF Job
    <3> HIDE DEF locals, seen
    <3>2. QED
      BY <2>6, <3>1 DEF ExitKind
  <2>8. positions \in [Tickers -> Position]
    BY DEF TypeInv, TypeOK
  <2>9. locals \in Job
    BY <1>1, <2>2, <2>4, <2>5, <2>8 DEF Job
  <2>10. Sound("exit", locals)
    BY <1>1, <2>2, <2>3, <2>5, <2>7 DEF Job, Sound, Unplanned
  <2> HIDE DEF locals
  <2>11. evidence' \in [Sessions -> SUBSET Analyses]
    <3>1. job[p].session \in Sessions /\ (DOMAIN chosen # {}) \in BOOLEAN
      BY <1>1, <2>3 DEF Sound
    <3>2. QED
      BY <2>3, <3>1, RecordedIs DEF TypeInv, Analyses
  <2>12. "exit" \in Labels
    BY DEF Labels, InTry
  <2>13. QED
    BY <2>3, <2>9, <2>10, <2>11, <2>12, LocalTypeStep DEF TypeInv, TypeOK
<1>4. CASE PlanUnpriced(p)
  <2>1. Sound("unpriced", job[p]) /\ "unpriced" \in Labels
    BY <1>1, <1>4 DEF Sound, PlanUnpriced, Unplanned, Labels, Raised
  <2>2. QED
    BY <1>1, <1>4, <2>1, LocalTypeStep DEF PlanUnpriced, TypeInv, TypeOK
<1>5. QED
  BY <1>2, <1>3, <1>4

\* Preparing a trade, or being turned down.
LEMMA PrepareTypeStep ==
    ASSUME TypeInv, NEW p \in Procs, NEW t \in Tickers,
           \/ PrepareExit(p, t) \/ RejectExit(p, t)
           \/ PrepareBuy(p, t) \/ RejectBuy(p, t)
    PROVE  TypeInv'
<1>1. job[p] \in Job /\ Sound(pc[p], job[p]) /\ job = [job EXCEPT ![p] = job[p]]
  BY DEF TypeInv, TypeOK, LocalsOK
<1>2. /\ cash \in Int /\ realized \in Int /\ positions \in [Tickers -> Position]
      /\ job[p].quotes[t] \in Nat /\ job[p].held[t].quantity \in Nat
      /\ job[p].cash \in Int /\ job[p].targets[t] \in Int
  BY <1>1 DEF TypeInv, TypeOK, Job, Position
<1>3. CASE PrepareExit(p, t)
  <2> DEFINE order == SellOrder(t, job[p].held[t].quantity, job[p].quotes[t],
                                ExitKind(job[p], t))
             locals == [job[p] EXCEPT !.order = order]
  <2>1. /\ t \in job[p].toExit
        /\ Sellable(t, job[p].held[t].quantity)
        /\ job' = [job EXCEPT ![p] = locals]
        /\ pc' = [pc EXCEPT ![p] = "postExit"]
    BY <1>3 DEF PrepareExit
  <2>2. ExitKind(job[p], t) \in Kinds /\ job[p].held[t].quantity > 0
    BY <1>1, <2>1 DEF Sound, ExitKind, Kinds
  <2>3. order \in Order
    BY <1>2, <2>1, <2>2, SellOrderType
  <2>4. order.ticker = t
    BY DEF SellOrder
  <2> HIDE DEF order
  <2>5. locals \in Job
    BY <1>1, <2>3 DEF Job
  <2>6. Sound("postExit", locals)
    BY <1>1, <1>3, <2>4 DEF Job, PrepareExit, Sound, Unplanned, ExitKind
  <2> HIDE DEF locals
  <2>7. "postExit" \in Labels
    BY DEF Labels, InTry
  <2>8. QED
    BY <1>3, <2>1, <2>5, <2>6, <2>7, LocalTypeStep DEF PrepareExit, TypeInv, TypeOK
<1>4. CASE PrepareBuy(p, t)
  <2> DEFINE order == BuyOrder(t, BuyQuantity(job[p], t), job[p].quotes[t])
             locals == [job[p] EXCEPT !.order = order]
  <2>1. /\ t \in job[p].toBuy
        /\ BuyQuantity(job[p], t) > 0
        /\ job' = [job EXCEPT ![p] = locals]
        /\ pc' = [pc EXCEPT ![p] = "postBuy"]
    BY <1>4 DEF PrepareBuy, IsNextBuy, Wanted
  <2>2. job[p].quotes[t] > 0
    BY <1>1, <2>1 DEF Sound
  <2>3. BuyQuantity(job[p], t) \in Nat
    <3>1. /\ Scale \in Nat \ {0} /\ job[p].targets[t] \in Int /\ job[p].cash \in Int
          /\ job[p].quotes[t] \in Nat /\ job[p].held[t].quantity \in Int
      BY <1>2, SettingsAssumption DEF Job, Position
    <3>2. Scale * job[p].targets[t] \in Int /\ Scale * job[p].cash \in Int
      BY <3>1
    <3>3. /\ (Scale * job[p].targets[t]) \div job[p].quotes[t] \in Int
          /\ (Scale * job[p].cash) \div job[p].quotes[t] \in Int
      BY <2>2, <3>1, <3>2
    <3>4. BuyQuantity(job[p], t) \in Int
      BY <3>1, <3>3 DEF BuyQuantity, Lesser
    <3>5. QED
      BY <2>1, <3>4
  <2>4. order \in Order
    BY <1>2, <2>3, BuyOrderType
  <2>5. order.ticker = t
    BY DEF BuyOrder
  <2> HIDE DEF order
  <2>6. locals \in Job
    BY <1>1, <2>4 DEF Job
  <2>7. Sound("postBuy", locals)
    BY <1>1, <1>4, <2>5 DEF Job, PrepareBuy, Sound, Unplanned, ExitKind
  <2> HIDE DEF locals
  <2>8. "postBuy" \in Labels
    BY DEF Labels, InTry
  <2>9. QED
    BY <1>4, <2>1, <2>6, <2>7, <2>8, LocalTypeStep DEF PrepareBuy, TypeInv, TypeOK
<1>5. CASE RejectExit(p, t) \/ RejectBuy(p, t)
  <2>1. Sound("rejected", job[p]) /\ "rejected" \in Labels
    BY <1>1, <1>5 DEF Sound, RejectExit, RejectBuy, Unplanned, Labels, Raised
  <2>2. QED
    BY <1>1, <1>5, <2>1, LocalTypeStep DEF RejectExit, RejectBuy, TypeInv, TypeOK
<1>6. QED
  BY <1>3, <1>4, <1>5

\* Starting to buy, valuing the portfolio, or finding no price for a holding.
LEMMA ReadTypeStep ==
    ASSUME TypeInv, NEW p \in Procs,
           StartBuying(p) \/ PrepareSnapshot(p) \/ SnapshotUnpriced(p)
    PROVE  TypeInv'
<1>1. job[p] \in Job /\ Sound(pc[p], job[p]) /\ job = [job EXCEPT ![p] = job[p]]
  BY DEF TypeInv, TypeOK, LocalsOK
<1>2. /\ cash \in Int /\ peak \in Int /\ positions \in [Tickers -> Position]
      /\ snapshots \in [Sessions -> Valuation] /\ job[p].quotes \in [Tickers -> Nat]
  BY <1>1 DEF TypeInv, TypeOK, Job
<1>3. CASE StartBuying(p)
  <2> DEFINE locals == [job[p] EXCEPT !.held = positions, !.cash = cash]
  <2>1. job' = [job EXCEPT ![p] = locals]
    BY <1>3 DEF StartBuying
  <2>2. locals \in Job
    BY <1>1, <1>2 DEF Job
  <2>3. Sound("buy", locals)
    BY <1>1, <1>3 DEF Job, StartBuying, Sound, Unplanned
  <2> HIDE DEF locals
  <2>4. "buy" \in Labels
    BY DEF Labels, InTry
  <2>5. QED
    BY <1>3, <2>1, <2>2, <2>3, <2>4, LocalTypeStep DEF StartBuying, TypeInv, TypeOK
<1>4. CASE PrepareSnapshot(p)
  <2> DEFINE locals == [job[p] EXCEPT !.valuation = Valued(job[p].quotes)]
  <2>1. job' = [job EXCEPT ![p] = locals]
    BY <1>4 DEF PrepareSnapshot
  <2>2. Valued(job[p].quotes) \in Valuation
    BY <1>2, ValuationType
  <2>3. locals \in Job
    BY <1>1, <2>2 DEF Job
  <2>4. Sound("postSnapshot", locals)
    BY <1>1, <1>4 DEF Job, PrepareSnapshot, Sound, Unplanned, ExitKind
  <2> HIDE DEF locals
  <2>5. "postSnapshot" \in Labels
    BY DEF Labels, InTry
  <2>6. QED
    BY <1>4, <2>1, <2>3, <2>4, <2>5, LocalTypeStep
    DEF PrepareSnapshot, TypeInv, TypeOK
<1>5. CASE SnapshotUnpriced(p)
  <2>1. Sound("unpriced", job[p]) /\ "unpriced" \in Labels
    BY <1>1, <1>5 DEF Sound, SnapshotUnpriced, Unplanned, Labels, Raised
  <2>2. QED
    BY <1>1, <1>5, <2>1, LocalTypeStep DEF SnapshotUnpriced, TypeInv, TypeOK
<1>6. QED
  BY <1>3, <1>4, <1>5

\* The transactions on the ledger.
LEMMA PostTypeStep ==
    ASSUME TypeInv, NEW p \in Procs,
           PostExit(p) \/ PostBuy(p) \/ RecordSnapshot(p)
    PROVE  TypeInv'
<1>1. /\ job[p] \in Job /\ Sound(pc[p], job[p])
      /\ job = [job EXCEPT ![p] = job[p]]
      /\ job[p].order \in Order
      /\ job[p].session \in Sessions
  BY DEF TypeInv, TypeOK, LocalsOK, Sound, PostExit, PostBuy, RecordSnapshot, Job
<1>2. ASSUME job[p].order.ticker \in Tickers, job[p].order.kind \in Kinds,
             PostOrder(job[p].session, job[p].order)
      PROVE  /\ cash' \in Int /\ realized' \in Int /\ peak' \in Int
             /\ positions' \in [Tickers -> Position]
             /\ decisions' \subseteq Decision
             /\ snapshots' \in [Sessions -> Valuation]
  BY <1>1, <1>2 DEF PostOrder, Order, Decision, TypeInv, TypeOK
<1>3. NoOrder \in Order
  BY NoJobOK DEF NoJob, Job
<1>4. CASE PostExit(p)
  <2> DEFINE locals == [job[p] EXCEPT !.toExit = @ \ {job[p].order.ticker},
                                      !.order = NoOrder]
  <2>1. job' = [job EXCEPT ![p] = locals]
    BY <1>4 DEF PostExit
  <2>2. locals \in Job
    BY <1>1, <1>3 DEF Job
  <2>3. Sound("exit", locals)
    BY <1>1, <1>4 DEF Job, PostExit, Sound, Unplanned, ExitKind
  <2> HIDE DEF locals
  <2>4. /\ pc' \in [Procs -> Labels]
        /\ job' \in [Procs -> Job]
        /\ \A q \in Procs : LocalsOK(q)'
    <3>1. "exit" \in Labels /\ pc' = [pc EXCEPT ![p] = "exit"]
      BY <1>4 DEF Labels, InTry, PostExit
    <3>2. QED
      BY <2>1, <2>2, <2>3, <3>1, LocalStep
  <2>5. job[p].order.ticker \in Tickers /\ job[p].order.kind \in Kinds
    BY <1>1, <1>4 DEF PostExit, Sound, Order
  <2>6. QED
    BY <1>2, <1>4, <2>4, <2>5 DEF PostExit, TypeInv, TypeOK
<1>5. CASE PostBuy(p)
  <2> DEFINE locals == [job[p] EXCEPT !.toBuy = @ \ {job[p].order.ticker},
                                      !.cash = @ - job[p].order.cost,
                                      !.order = NoOrder]
  <2>1. job' = [job EXCEPT ![p] = locals]
    BY <1>5 DEF PostBuy
  <2>2. locals \in Job
    <3>1. job[p].cash - job[p].order.cost \in Int
      BY <1>1 DEF Job, Order
    <3>2. QED
      BY <1>1, <1>3, <3>1 DEF Job
  <2>3. Sound("buy", locals)
    BY <1>1, <1>5 DEF Job, PostBuy, Sound, Unplanned, ExitKind
  <2> HIDE DEF locals
  <2>4. /\ pc' \in [Procs -> Labels]
        /\ job' \in [Procs -> Job]
        /\ \A q \in Procs : LocalsOK(q)'
    <3>1. "buy" \in Labels /\ pc' = [pc EXCEPT ![p] = "buy"]
      BY <1>5 DEF Labels, InTry, PostBuy
    <3>2. QED
      BY <2>1, <2>2, <2>3, <3>1, LocalStep
  <2>5. job[p].order.ticker \in Tickers /\ job[p].order.kind \in Kinds
    BY <1>1, <1>5 DEF PostBuy, Sound, Order
  <2>6. QED
    BY <1>2, <1>5, <2>4, <2>5 DEF PostBuy, TypeInv, TypeOK
<1>6. CASE RecordSnapshot(p)
  <2>1. /\ pc' \in [Procs -> Labels]
        /\ job' \in [Procs -> Job]
        /\ \A q \in Procs : LocalsOK(q)'
    <3>1. /\ "export" \in Labels /\ Sound("export", job[p])
          /\ pc' = [pc EXCEPT ![p] = "export"] /\ job' = [job EXCEPT ![p] = job[p]]
      BY <1>1, <1>6 DEF Labels, InTry, RecordSnapshot, Sound, Unplanned
    <3>2. QED
      BY <1>1, <3>1, LocalStep
  <2>2. /\ peak' \in Int
        /\ snapshots' \in [Sessions -> Valuation]
        /\ UNCHANGED <<cash, realized, positions, decisions>>
    BY <1>1, <1>6 DEF RecordSnapshot, PostSnapshot, Job, Valuation, TypeInv, TypeOK
  <2>3. QED
    BY <1>6, <2>1, <2>2 DEF RecordSnapshot, TypeInv, TypeOK
<1>7. QED
  BY <1>4, <1>5, <1>6

\* Exporting, completing and failing.
LEMMA EndTypeStep ==
    ASSUME TypeInv, NEW p \in Procs,
           \/ Benchmarks(p) \/ SavePending(p)
           \/ Send(p) \/ SendUnanswered(p) \/ SendFails(p)
           \/ DeadLetter(p) \/ MarkExported(p) \/ Complete(p)
           \/ StepRaises(p) \/ FailRun(p) \/ Crash(p)
    PROVE  TypeInv'
<1>1. job[p] \in Job /\ Sound(pc[p], job[p]) /\ job = [job EXCEPT ![p] = job[p]]
  BY DEF TypeInv, TypeOK, LocalsOK
<1>2. pc[p] # "idle" => job[p].session \in Sessions
  BY <1>1 DEF Sound
<1>3. CASE \/ Benchmarks(p) \/ SavePending(p)
           \/ Send(p) \/ SendUnanswered(p) \/ SendFails(p)
           \/ DeadLetter(p) \/ MarkExported(p) \/ StepRaises(p)
  <2>1. /\ pc[p] \notin Unplanned \/ pc[p] \in {"fetch", "plan"}
        /\ pc[p] # "idle"
        /\ UNCHANGED <<ledgerVars, runs, universe, today>>
    BY <1>3 DEF Benchmarks, SavePending, Send, SendUnanswered, SendFails,
                    DeadLetter, MarkExported, StepRaises, InTry, Unplanned
  <2>2. PICK label \in {"pack", "send", "sent", "unsent", "fault", "complete"} :
          pc' = [pc EXCEPT ![p] = label]
    BY <1>3 DEF Benchmarks, SavePending, Send, SendUnanswered, SendFails,
                    DeadLetter, MarkExported, StepRaises
  <2>3. job' = [job EXCEPT ![p] = job[p]]
    BY <1>1, <1>3 DEF Benchmarks, SavePending, Send, SendUnanswered, SendFails,
                    DeadLetter, MarkExported, StepRaises
  <2>4. Sound(label, job[p]) /\ label \in Labels
    BY <1>1, <2>1 DEF Sound, Unplanned, Labels, InTry, Raised
  <2>5. evidence' \in [Sessions -> SUBSET Analyses]
    <3>1. CASE Benchmarks(p)
      <4>1. PICK any \in Benchmarked :
              evidence' = Recorded(job[p].session, "benchmark_snapshots", any)
        BY <3>1 DEF Benchmarks
      <4>2. any \in BOOLEAN /\ job[p].session \in Sessions
        BY <1>2, <2>1, DailyAssumption
      <4>3. QED
        BY <4>1, <4>2, RecordedIs DEF TypeInv, Analyses
    <3>2. CASE ~Benchmarks(p)
      BY <1>3, <3>2 DEF SavePending, Send, SendUnanswered, SendFails,
                    DeadLetter, MarkExported, StepRaises, TypeInv, TypeOK
    <3>3. QED
      BY <3>1, <3>2
  <2>6. batches' \in [Sessions -> {"none", "pending", "dead_letter", "exported"}]
    BY <1>3 DEF Benchmarks, SavePending, Send, SendUnanswered, SendFails,
                    DeadLetter, MarkExported, StepRaises, TypeInv, TypeOK
  <2>7. delivered' \in Seq(DeliveredBatch)
    <3>1. delivered' = delivered \/ delivered' = Append(delivered, Batch(job[p].session))
      BY <1>3 DEF Benchmarks, SavePending, Send, SendUnanswered, SendFails,
                  DeadLetter, MarkExported, StepRaises
    <3>2. delivered \in Seq(DeliveredBatch)
      BY DEF TypeInv, TypeOK
    <3>3. Batch(job[p].session) \in DeliveredBatch
      BY <1>2, <2>1, BatchType DEF TypeInv
    <3>4. QED
      BY <3>1, <3>2, <3>3
  <2>8. runs' \in [Sessions -> RunStatuses]
    BY <2>1 DEF TypeInv, TypeOK
  <2>9. QED
    BY <1>1, <2>1, <2>2, <2>3, <2>4, <2>5, <2>6, <2>7, <2>8, LocalTypeStep
<1>4. CASE Complete(p) \/ FailRun(p) \/ Crash(p)
  <2>1. Sound("idle", NoJob) /\ "idle" \in Labels
    BY DEF Sound, NoJob, Labels
  <2>2. runs' \in [Sessions -> RunStatuses]
    BY <1>4 DEF Complete, FailRun, Crash, TypeInv, TypeOK, RunStatuses
  <2>3. QED
    BY <1>4, <2>1, <2>2, NoJobOK, LocalTypeStep
    DEF Complete, FailRun, Crash, TypeInv, TypeOK
<1>5. QED
  BY <1>3, <1>4

\* Every step keeps the types, whichever action it is.
LEMMA TypeStep == TypeInv /\ [Next]_vars => TypeInv'
<1> SUFFICES ASSUME TypeInv, [Next]_vars PROVE TypeInv'
  OBVIOUS
<1>1. CASE UNCHANGED vars
  BY <1>1 DEF vars, TypeInv, TypeOK, LocalsOK
<1>2. CASE SessionCloses \/ PersistUniverse
  BY <1>2, WorldTypeStep
<1>3. ASSUME NEW p \in Procs, Begin(p) \/ Run(p) \/ Crash(p) PROVE TypeInv'
  <2>1. CASE \/ Begin(p) \/ Claim(p) \/ Replay(p) \/ Leave(p)
    BY <2>1, ClaimTypeStep
  <2>2. CASE Fetch(p) \/ Plan(p) \/ PlanUnpriced(p)
    BY <2>2, PlanTypeStep
  <2>3. CASE \E t \in Tickers : \/ PrepareExit(p, t) \/ RejectExit(p, t)
                                \/ PrepareBuy(p, t) \/ RejectBuy(p, t)
    BY <2>3, PrepareTypeStep
  <2>4. CASE StartBuying(p) \/ PrepareSnapshot(p) \/ SnapshotUnpriced(p)
    BY <2>4, ReadTypeStep
  <2>5. CASE PostExit(p) \/ PostBuy(p) \/ RecordSnapshot(p)
    BY <2>5, PostTypeStep
  <2>6. CASE \/ Benchmarks(p) \/ SavePending(p)
             \/ Send(p) \/ SendUnanswered(p) \/ SendFails(p)
             \/ DeadLetter(p) \/ MarkExported(p) \/ Complete(p)
             \/ StepRaises(p) \/ FailRun(p) \/ Crash(p)
    BY <2>6, EndTypeStep
  <2>7. QED
    BY <1>3, <2>1, <2>2, <2>3, <2>4, <2>5, <2>6 DEF Run
<1>4. QED
  BY <1>1, <1>2, <1>3 DEF Next

\* TypeInv, which the other proofs start from, is invariant.
THEOREM TypeInvariant == Spec => []TypeInv
BY TypeInit, TypeStep, PTL DEF Spec

\* Every table column and every local of every process keeps its kind of
\* value, in any configuration and with any number of processes.
THEOREM TypeCorrect == Spec => []TypeOK
<1>1. TypeInv => TypeOK
  BY DEF TypeInv
<1>2. QED
  BY <1>1, TypeInvariant, PTL
===============================================================================
