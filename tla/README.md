# Stock trading pipeline: models, checks and proofs

TLA+ modules for the simulated, AI-researched trading pipeline in this repository: its daily cycle over
the ledger, the run table and the ERP; monthly research; the market-data service and its cache; the
workflows that carry the database from run to run; and the pure algorithms beside them (universe policy,
training data, backtest). They ask what sessions, overlapping invocations, failing steps, lost answers and killed
processes do to it. TLC checks the properties on small instances; TLAPS proves all of them but liveness for
every configuration.

Paths below are relative to the repository; `ts/` abbreviates `src/trading_system/`.

## The system

| Part | State it keeps | Operations | Talks to |
|---|---|---|---|
| Daily cycle, `ts/daily.py` | `strategy_runs`, `model_signals`, `capital_allocations`, `benchmark_snapshots`, report files | `run` | all of the parts below |
| Simulated execution, `ts/simulation.py` | `portfolio_state`, `positions`, `trade_decisions`, `simulated_trades`, `portfolio_snapshots` | `execute`, `snapshot`, `state`, `positions` | storage |
| Capital allocation, `ts/allocation.py` | none | `allocate` | none |
| ERP export, `ts/erp_integration.py` | `records` of type `erp_export_batch`, outbox and dead-letter files | `build_batch`, `export`, two transports | storage, the ERP |
| Storage, `ts/storage.py` | the SQLite database, one connection per process | autocommitting statements, `BEGIN IMMEDIATE` transactions | - |
| Monthly research, `ts/research.py` | `universe_runs`, `universe_members`, `research_sources` | `run`, `validate`, `persist` | LLM, market data, storage |
| Market data, `ts/market_data.py` | a Parquet cache | `history`, `latest`, `completed_session`, `update_cache` | Yahoo |
| Model signals, `ts/signals.py`, `ts/features.py` | none | `probabilities` | the model artifact |
| Command line, `ts/cli.py` | none | one command per process | all of the above |
| Scheduled workflows, `.github/workflows/` | the database as an artifact | daily, monthly, manual | the command line |
| Read-only API, `ts/api_server.py` | none | five read endpoints | the database |
| Universe policy, `ts/universe.py` | none | `evaluate` | none |
| Training, `src/agents/train_xgboost.py`, `ts/features.py`, `ts/modeling.py` | model files and metadata | load, label, split, train, pick | files |
| Research script, `src/agents/research_agents.py`, `src/agents/download_market_data.py` | the universe file | ask, format, save; download | LLM, Yahoo |
| Backtesting, `ts/backtesting.py` | none | `run_backtest` | none |
| Paper-trading stack: `ts/orchestration.py`, `execution.py`, `approvals.py`, `brokers.py`, `risk.py`, `portfolio.py`, `decisioning.py`, `reconciliation.py` | - | - | cannot be imported at this commit |
| News, prompts, support modules | - | - | external services, formats, logs |

What is hard in it:

* **Concurrency.** Two `run-eod` processes may share a database (schedule, manual dispatch, shell).
  Only the `UNIQUE(run_type, market_session)` row stands between them. `execute` and `snapshot` read
  outside their transaction and write absolute values inside it.
* **Failure.** `run` writes in about a dozen separate commits. Any step may raise, and the process
  may be killed, between any two of them. A row left by a failed run blocks its session for ever.
* **Delivery.** The batch is stored, sent, marked and only then is the run completed; the ERP's answer
  may be lost after the ERP took the batch.
* **Staleness.** The session, the prices, the scores, the holdings and the cash of one run are read at
  different moments; the universe may be replaced in between. The cache is read, merged and replaced; the restored
  database may be older than what the ERP has.
* **Repetition.** Yahoo is asked again with a backoff, the LLM is asked to repair its answer, a forced
  research run replaces a universe that somebody else may have replaced meanwhile.
* **Boundaries.** Whole shares, cents, half-even rounding, a cash reserve and a position limit that
  apply to targets and not to holdings.

What makes each part correct:

* Daily cycle: one run per session; a completed run is fully recorded and exported; what must be sold
  is sold; every invocation ends.
* Ledger: books balance to the cents that rounding may cost; no borrowing; profits of the sessions add up; the peak is the maximum.
* Allocation: targets within weight, notional and the investable value; the plan can be carried out.
* ERP export: what the ERP was told of a session stays true of the ledger (except that the run was completed), at most
  one batch per session.
* Research: one active universe per period, always valid, never lost by a failed replacement.
* Market data: a symbol is priced or reported unavailable, a session was recent when it was asked for, retries are
  bounded, the cache loses no row.
* Workflows: the state that is restored is the latest; it has no session twice and none that failed.
* API: the side of a decision is the side of its trade.
* Universe policy, universe file, training data, backtest: limits hold on the result although they are tested on
  the way; what is saved is read back the same; no label reaches the validation window; a trade can be carried out.

## The modules

| Module | What it is |
|---|---|
| `Settings` | the configuration as CONSTANTS, with `SettingsAssumption` for what the code validates or needs |
| `Allocation` | `CapitalAllocationPolicy.allocate` as operators: qualified, selected, target |
| `Ledger` | the portfolio tables, and what `execute` and `snapshot` read, compute, reject and write |
| `DailyMarketCycle` | `DailyMarketCycle.run`: processes, the claim, every step of a run, its failures; `Spec`, `FairSpec` |
| `DailyProperties` | the type invariant and what the cycle must keep true |
| `MCDaily` | the small instances |
| `SessionBook` | what the cycle promises: each session has one life, a book that grows only while it is open, one publication |
| `ReadApi` | the side `/api/decisions` and `/api/trades` serve |
| `MonthlyUniverse` | what research promises: a whole universe, of a month that never goes back |
| `UniverseResearch` | `research-universe`: `run`, `validate`, repair, `persist`, the export of the stored universe, kills |
| `ResearchProperties`, `MCResearch` | its properties and instance |
| `MarketData` | `history` with batches and retries, `latest`, `completed_session`, `update_cache` with its temporary file |
| `MarketProperties`, `MCMarket` | its properties and instance |
| `Workflows` | the daily, monthly and manual workflow, their artifacts and the ERP |
| `WorkflowProperties`, `MCWorkflows` | its properties and instances |
| `UniversePolicy` | `UniversePolicy.evaluate` as operators |
| `UniverseFile` | the answers of the research script's formatting calls, and the universe file |
| `TrainingData` | cleaning, labels, chronological split, production refit, picks |
| `Backtest` | `run_backtest` up to the trades |
| `Offline` | one request to one of these tools, and its result |
| `OfflineProperties`, `MCOffline` | what the tools promise, and small requests |
| `SumTheorems` | what the proofs share: sums, least and greatest numbers, loops step by step, ranks in a total order |
| `DailyTypeProofs` | type correctness of the daily cycle |
| `DailyClaimProofs` | claims, completion and the ERP; the refinement of `SessionBook`; the reasons of decisions |
| `DailyMoneyProofs` | cash, books, plans, what is kept, the peak and the profits |
| `ResearchProofs` | the universes of a month, the ERP, and the refinement of `MonthlyUniverse` |
| `MarketProofs` | no ticker suppressed, recent sessions, a cache that is whole and improves |
| `WorkflowProofs` | the uploaded databases are one history, no session twice, retryable, and the ERP has it |
| `OfflineProofs` | everything `OfflineProperties` says of the pure tools |

`DailyMarketCycle` extends `Allocation` and `Ledger`, which extend `Settings`; `DailyProperties` instantiates
`SessionBook` and extends `ReadApi`; `ResearchProperties` instantiates `MonthlyUniverse`; `Offline` extends the four
modules of the pure tools. Each proof module extends the properties it is about, and so does each MC module.
The components are joined by what they leave each other: `Workflows` takes one run of the cycle as one action whose
outcomes (skipped, completed, failed before or after the ERP had the batch) are the ones `SessionBook` allows, and the
cycle takes research as the replacement of the universe that `MonthlyUniverse` allows.

### How the model corresponds to the code: the daily cycle

A process is a shell or a job that invokes `run-eod` again and again; `pc[p]` is where its invocation
is in `run` and `job[p]` holds that invocation's Python locals, which a kill erases. All else is durable.

| Variable | In the code |
|---|---|
| `cash`, `realized`, `peak` | the row of `portfolio_state` |
| `positions` | `positions`; no shares is no row; `basis` is quantity times average cost |
| `decisions` | `trade_decisions`, each with its row of `simulated_trades` |
| `snapshots` | `portfolio_snapshots` by session |
| `runs` | status of the session's row in `strategy_runs` |
| `evidence` | of which analyses the session's run has stored rows |
| `batches` | status of the session's `erp_export_batch` record |
| `delivered` | the batches the ERP has accepted, in order, with the status, snapshot, decisions and analyses they carry |
| `universe` | members of the latest completed universe |
| `today` | the newest completed market session |

| Action | Lines of `ts/daily.py` (unless named) |
|---|---|
| `Begin`, `Claim`, `Replay`, `Leave` | 48-83 |
| `Fetch` | 84-116: holdings, prices, scores, signal rows |
| `Plan`, `PlanUnpriced` | 117-149: sizing, allocation rows, and which holdings will be sold |
| `PrepareExit`, `RejectExit`, `PostExit` | 150-227; `execute` up to its transaction, its rejection, its transaction |
| `StartBuying`, `PrepareBuy`, `RejectBuy`, `PostBuy` | 228-260 |
| `PrepareSnapshot`, `SnapshotUnpriced`, `RecordSnapshot` | 261-264, `ts/simulation.py` 186-241 |
| `Benchmarks` | 265 and 377-398 |
| `SavePending`, `Send`, `SendUnanswered`, `SendFails`, `DeadLetter`, `MarkExported` | 281-360, `ts/erp_integration.py` 89-134 |
| `Complete` | 361-368 |
| `StepRaises`, `FailRun` | any exception in the try block; 369-375 |
| `Crash` | the process is killed |
| `SessionCloses`, `PersistUniverse` | the market, and monthly research |

One action makes at most one write that others can see. Abstractions that matter:

* Cash and profits are in cents, rates and scores in percent, a ticker is its alphabetical place (the tie-break). A price
  is `Decimal(str(float))`, not a whole number of cents: prices and what is valued with them are in units of which
  `Scale` make a cent. `execute` rounds half to even where the code does: the value of a trade (`Notional`,
  `ts/simulation.py:107`) and the profit of a sale (`Gain`, line 125), each by itself. A snapshot is not rounded.
* An analysis whose loop has no rows to insert is not stored: no allocations when no score qualifies, no benchmark rows
  when `history` lost the batch they are in (`ts/daily.py:383`) although `latest` priced them (`Benchmarked`).
* The average cost is kept as the integer cost of the whole position, so the 28-digit quotient of the
  code is not modelled. A sale of part of a position takes a rounded part of that cost; the cycle
  itself only sells whole positions unless invocations overlap.
* Two queries in a row (`state()` then `positions()`) are one read, and the rows one loop inserts into
  one table are one write.
* The fee is 0, the default that `DailyMarketCycle` leaves in place (`DailyAssumption`). `Ledger` keeps it.
* A score of 0 stands for a member without feature rows as well, of which no signal is stored; the threshold is positive.
* Exporting is always configured: `cli.py` passes an exporter to every `run-eod`.
* The benchmarks' prices are left out of the quotes: nothing but the benchmark rows uses them, and one
  that is unavailable makes `Fetch` raise as any other.
* `ReadApi` gives the side each endpoint would serve for a stored decision and its trade; the other endpoints return
  rows as they are.

`SessionBook` sees `status` (a session is open while its row is running, and new without one), `traded`
(`decisions`) and `published` (`delivered`). A kill is a stutter: the session stays open for ever.

### Monthly research

`pc[p]` is where an invocation of `research-universe` is and `job[p]` its locals; `rows` is `universe_runs` with its
members, `batches` and `delivered` the export of a universe.

| Action | In the code |
|---|---|
| `Begin` | `ts/research.py` `run` up to the first question: the existing row, the force flag |
| `Accept`, `Repair`, `GiveUp` | the repair loop: an answer passes `validate`, is refused and asked again, or was the last |
| `Persist`, `PersistConflict` | `persist`: supersede and insert in one transaction; `UNIQUE` refuses the second of two |
| `ExportPending`, `Send`, `SendFails`, `DeadLetter`, `MarkExported`, `Report` | `ts/cli.py` `research-universe` after `run`; `export` |
| `Crash` | the process is killed |

An answer of the model is a list of stocks with rank and tags, one for every reason to refuse it and two valid
ones; `Valid` is `validate` with the configured tagging policy. What is said about the companies is left out.

### Market data

`day` is the calendar. Yahoo has per ticker a number of adjustments so far, and answers with any part of the rows asked for: it
may lag behind the calendar or leave days out, and `normalize` drops rows one by one, not tickers. A row of a frame or a file is the
adjustment it was downloaded with, 0 when there is none. `asked` is the date `latest` reads before its download and
measures the age of a price from.

| Action | In `ts/market_data.py` |
|---|---|
| `Begin` | the arguments of `latest` (`Question`, with its date and window) or `update_cache` (`Update`) |
| `Download`, `Retry`, `BatchFails`, `HistoryEnds`, `Raises` | the batch loop of `history`, its retries, its except clause and what follows the loop |
| `Answers` | `latest`, `completed_session` |
| `ReadCache`, `OpenTemp`, `WriteTemp`, `Replace` | `update_cache` |
| `DayPasses`, `Adjust`, `Crash` | the market, a split or dividend, a kill |

### Workflows

A database is what makes a difference to the next workflow: the sessions it completed in order (which stand for their
trades), the sessions it holds an unfinished row of, and its universe.

| Action | In `.github/workflows/` |
|---|---|
| `StartDaily` | `daily-market-cycle.yml`, by its schedule or called by `manual-strategy-run.yml`, under its concurrency group |
| `Restore`, `NothingToRestore` | the restore step, `daily-market-cycle.yml` 34-47 |
| `EodSkips`, `EodCompletes` | the step `run-eod` (`ts/daily.py` 47-83 and what follows) for any session Yahoo may name, up to `Lag` old |
| `EodFails`, `EodRaises` | `run-eod` fails with its session claimed, leaving the row, before or after the ERP had the batch; or before the claim |
| `JobFails` | the job ends without the upload; the runner's disk is gone |
| `Upload`, `UploadFails` | the upload step, which runs only if `run-eod` succeeded |
| `StartMonthly`, `UploadMonthly`, `MonthlyFails` | `monthly-research.yml`, which restores nothing |

### The pure tools

`Offline` picks a request and answers it: candidates for `evaluate`, the answers the LLM gave to the
research script, rows of a file, a panel of sessions for training, prices and scores for the backtest. The results are
the operators of the four modules. A ticker's spelling is a string that `Spelling` maps to what the code makes of it
(strip and uppercase), `Upper` to what the downloader does (uppercase only). Backtest prices are in
ten-thousandths, with slippage, commission, volume limit and per-position budget rounded as the code does.

A loop of `evaluate` is the function of its states: `Passed[n]` is what has passed after n candidates, `Accepted[n]` what
has been admitted after n of the order. `Arranged` sorts a set by the number of elements before each, which for the
code's key (confidence, then ticker) is Python's `sorted`: tickers that passed are different, so there are no ties.

## What is checked

| Run | Instance | Properties | States, time |
|---|---|---|---|
| `serial` | 1 process, 2 sessions, tickers 1 and 2, prices of 15 and 21 half-cents, scores 40 and 60 around a threshold of 50, capital 40, reserve 4, notional cap 32, stop loss 10 %, take profit 20 %, universe {1,2} or {2}, one share of cost 9 held at the start, benchmarks there or not | `TypeOK`, `CompletedIsAccountedFor`, `BooksBalance`, `PlansAreExecutable`, `ProfitTelescopes`, `PeakIsMaximum`, `OnlyEndorsedHoldings`, `DecisionsCohere` | 2.5 million, under 2 min |
| `overlap` | 2 symmetric processes, not serialized, price of 15 half-cents, score 60, capital 9, universe {1} or {2} | `SessionsExclusive`, `ErpAgreesWithLedger`, `CashNeverNegative`, `ImplementsSessionBook` | 1.3 million, about 2 min |
| `live` | 2 processes, 1 ticker, Yahoo up to one session behind, weak fairness | `InvocationsEnd` | 161 thousand, under 1 min |
| `months` | 2 overlapping commands, 2 months, 2 stocks of 3, 2 attempts, 10 answers of the LLM, 3 invocations | `TypeOK`, `OneChainPerMonth`, `ErpUniversesAreStored`, `ReportedIsDelivered`, `ImplementsMonthlyUniverse`, `ResearchEnds` | 653 thousand, over 2 min |
| `cache` | 1 client, 3 tickers in batches of 2, 2 attempts, 2 days, 2 adjustments, prices stale after a day | `TypeOK`, `NothingSuppressed`, `SessionIsRecent`, `CacheIsWhole`, `CacheOnlyImproves`, `CommandsEnd` | 441 thousand, over 1 min |
| `history` | 2 runners, 3 sessions, 2 universes, 6 workflow runs of any trigger, failing anywhere, Yahoo up to one session behind | `TypeOK`, `DailyHistoryIsOneChain`, `UploadedIsDelivered`, `NoSessionTwice`, `FailedSessionsCanBeRetried` | 486 thousand, under 1 min |
| `offline` | 115 thousand requests: 5 candidates, 8 sessions, 2 tickers, 2 formatting attempts, files of 3 rows | `EveryCandidateDecided`, `SectorShareHolds`, `CategoryCapsHold`, `UniverseFileIsComplete`, `CompleteRowsSurvive`, `NoLabelLeaks`, `NoPickIsTrainedOn`, `BacktestIsExecutable` | 115 thousand, under 1 min |
| `replay`, `reserve`, `limit`, `sides` | as `serial`, with prices of 8 and 10 cents and a parameter changed | four of the divergences below | found in seconds |
| `rerun` | 1 runner, 2 sessions, 4 workflow runs, nothing fails | the fifth | found in seconds |

* `BooksBalance`: cash plus the cost of the holdings is the capital plus the realized profit, up to a cent per sale.
  Exactly it is not: a share that cost 9 cents and is sold for 10.5 brings 10 cents of cash and a profit of 2, for both are
  rounded half to even. TLC finds such a sale at once when the property asks for equality.
* `PlansAreExecutable`: the engine turns no planned trade down and no holding lacks a price.
* `ProfitTelescopes`: the daily profits add up to the total, across failed and killed runs.
* `PeakIsMaximum`: the stored peak is the highest total on record.
* `OnlyEndorsedHoldings`: what is still held at the snapshot is in the universe the run read, at or above the
  threshold. Research may replace the universe at any moment.
* `DecisionsCohere`: one reason to sell a ticker per session, and no purchase of what its score or
  research made the run sell. (A stop-loss or take-profit exit MAY be bought back in the same run: the set
  `exited` is filled and never read. The property allows what the code does.)
* `CompletedIsAccountedFor`: a completed session has its snapshot, the scores and the sizing of what it bought, and a batch at the
  ERP with exactly what the database holds. It need not have benchmark rows, nor allocations if it bought nothing.
* `SessionsExclusive`, `CashNeverNegative`: one run per session, and no borrowing, under every interleaving of reads and
  writes. (Overlapping runs do lose each other's debits; see `Serialized` below.)
* `ErpAgreesWithLedger`: at most one batch per session at the ERP, and the snapshot, decisions and analyses it carries are the
  ledger's for ever after, even after lost answers, kills and failures. Its status, always "completed", is not claimed to be.
* `InvocationsEnd`: no loop for ever, no waiting for another process.
* `ImplementsSessionBook`: whatever overlaps, fails or is killed, the rest of the system sees sessions that open once,
  trade while open, publish once, and end as completed (after publishing) or failed.

Research:

* `OneChainPerMonth`: of the universes of a month only the last is current, and every one but the first was meant as a
  replacement; a forced replacement decides minutes before it writes.
* `ErpUniversesAreStored`, `ReportedIsDelivered`: the ERP and the success message never speak of a universe the database
  does not have, also when another command supersedes it on the way.
* `ImplementsMonthlyUniverse`: the active universe changes whole, never back to an earlier month, never to nothing.
* `ResearchEnds`: the repair loop is bounded.

Market data:

* `NothingSuppressed`: no ticker is lost between batches, retries and the except clause.
* `SessionIsRecent`: the session the cycle claims is the benchmark's newest bar downloaded, and was not stale on the day it was
  asked for; no session means no such bar. How old it is when a long download is over is not claimed.
* `CacheIsWhole`, `CacheOnlyImproves`: a kill leaves a file that can be read, and a partial download neither loses a row nor
  puts back an older one.

Workflows: `DailyHistoryIsOneChain`, `UploadedIsDelivered`, `NoSessionTwice` and `FailedSessionsCanBeRetried` together say that
the state a run starts from is one history which the ERP has in full, which has no session twice, and in which a failed session does not
block itself. (Within one database it does: see `replay`. A failed run leaves the row on its runner, and only that the runner's
database is not uploaded makes the session retryable.) That the sessions are in order is not claimed: behind a Yahoo that lags, an
older session is run after a newer one (`ts/daily.py:49` compares for equality).

Pure tools:

* `EveryCandidateDecided`: every proposed ticker is accepted once or rejected with a reason, and a full universe turned
  nobody away in favour of somebody less confident. A ticker proposed twice may be both; the property allows it.
* `SectorShareHolds`: tested on the way, the share still holds at the end for sectors with a symbol after the second. The first
  two symbols are exempt in the code, and removals for the category mix may push a share over the limit.
* `CategoryCapsHold`: no maximum or target is exceeded after the removals. A category may fall under its minimum.
* `UniverseFileIsComplete`: what the research script saves has the right number of different tickers for all its readers.
* `CompleteRowsSurvive`: cleaning keeps, for each ticker and session, the last complete row exactly once.
* `NoLabelLeaks`: the embargo does what the docstring at `src/agents/train_xgboost.py:356` says, for a ticker that
  misses no later session. One that does (a halt) labels further ahead than the embargo, because the embargo
  counts dates of all tickers and the label rows of one.
* `NoPickIsTrainedOn`: the refitted model never scores a row it was trained on.
* `BacktestIsExecutable`: entry after signal, exit after entry, volume and cash respected. The budget is per signal session:
  positions of overlapping holding periods may together exceed the cash.

### Why these bounds

Two sessions are the least with an "earlier" and a "later" snapshot, and with a session skipped after a
failure. Two tickers make the order of trades, the split of the capital and a universe that drops one
of them matter. Prices of 7.5 and 10.5 cents are such that a share bought at 10.5 is stopped out at 7.5 and
one bought at 7.5 takes its profit at 10.5 (20 %), and that a purchase of an odd number of shares, and its sale, lie half-way between
two cents. Scores lie on both sides of the threshold. The share held at the start is what an earlier failed run left, so that the
first session already has something to sell, and its cost is odd, so that the two roundings of its sale differ. In `overlap` prices
do not move: its properties are about who may do what, and two processes at every read and write are enough for a lost update, a
double claim and a stale sale; a capital of 9 pays for one share only, so that two purchases cannot both be paid.

In `months`, two commands and two months are the least for a conflict, a lost replacement and a month that goes
back; a third invocation replaces a replacement; two attempts have one repair; each answer fails `validate` for one reason.
In `cache`, three tickers in batches of two are a full batch and a rest, so that one can fail and the other not; a download may
begin on one day and end on the next, one day old is stale, and two adjustments make a merge of old and new rows matter.
Updates ask from the second day, which keeps the instance small; the theorems hold for any first day. In `history`, three sessions make a middle one that can be skipped,
an answer one session behind can come back to it, and six runs are research, three sessions, one failure and one rerun; the theorems below hold for all numbers. In `offline`,
five candidates pass the two exempt symbols and a limit of four; eight sessions hold training, embargo and
validation of a horizon of two with room to miss one; two attempts are a refusal and a second answer, and a third answer is one too many; three rows of a file are a good
one, a broken copy and another ticker.

The configurations say `CHECK_DEADLOCK FALSE` because the system really may stop: after the last session, month,
day or request there is nothing more to do.

### Assumptions on the environment

* `Serialized`: in `serial`, and in the theorems that name it, an invocation begins when none is under way. The
  workflow's `concurrency` group with `cancel-in-progress: false` gives this to the scheduled cycle. Commands
  started by hand against the same database are not covered by it, and with them `BooksBalance` does NOT
  hold: both processes read the cash, both write it. That is why the overlapping runs claim less.
* `Lag = 0` in `serial` and `overlap`, and in `ProfitsTelescope` alone of the theorems: Yahoo's newest session is the real one. `live` and `history` let it
  lag by one. If it may lag, the guard at
  `ts/daily.py:49`, an equality, lets an older session run after a newer one, and `ProfitTelescopes` does
  not hold.
* Fairness (`FairSpec`): weak fairness of `Run(p)`, the steps an invocation makes by itself. A running
  Python process is scheduled, and its calls to Yahoo and the ERP have timeouts or bounded retries. Nothing is assumed of kills,
  closings, research or of anybody invoking the command. `UniverseResearch` and `MarketData` assume the same of a running
  command, and no more: their `Begin`, `Crash` and the market have no fairness. `Workflows` and `Offline` need none.
* Market data: one update of the cache at a time (`[]OneUpdate` in the theorems), which the workflows give it. Two updates share
  one temporary file name. Any number of commands may ask for prices meanwhile, and each update may ask from another day.
  `completed_session` takes the newest bar to be of a finished session: during the trading day Yahoo also gives one that is not.
* Workflows: all runs are of one branch, as the concurrency group is per `github.ref`, and artifacts are younger than
  the 95 days they are kept. Research always starts from an empty database, and its universe reaches the daily workflow only
  while that has no success of its own: a universe researched later is never restored.

### Where a document and the code differ

* `replay`: `README.md:51-53` says an invocation exits without creating anything "if that session is already
  complete". The code (`ts/daily.py:71-82`) does it for any row of the session, also a failed one or one left running
  by a kill: such a session is never processed.
* `reserve`: `docs/risk_management.md:3-4` says the policy applies the cash reserve. It does for the
  targets, but a holding over its target is never reduced, so that purchases are paid from the reserve.
* `limit`: the same sentence names the maximum of positions. It limits the selection; a qualified holding that is
  not selected any more is kept beside the new one.
* `rerun`: `README.md:51-53` and `docs/operations_runbook.md:11-12` promise no second batch for a session. State is restored from
  the workflow file's own runs; a run started through `manual-strategy-run.yml` is listed under that file, so the
  scheduled run after it starts from the state before it, trades the session again and sends another batch.
* `sides`: `README.md:111` says `/api/decisions` gives the side. The table at `ts/api_server.py:206` lacks `TAKE_PROFIT_EXIT` and
  `SIGNAL_EXIT`, which the cycle writes: they are served with the decision type as their side.

Met on the way and not turned into a run, because nothing states the contrary precisely enough: `update_cache` drops
the list of unavailable tickers; after a split the cache may hold rows of one ticker adjusted before it beside rows adjusted after it, if the
newer download lacked single days (`normalize` drops rows one by one) or began later; after a lost answer the ERP has a `STRATEGY_RUN`
event that says completed, while the ledger calls the run failed, or running if it was killed; a run may complete without benchmark rows
(`ts/daily.py:383`); `/api/universe` orders by `created_at`, which overlapping or back-dated research may have out of
order; the score of a ticker may come from an older row than today's (`ts/signals.py:26`); `run-eod` loads the
artifact it is given, while the approvals of `ModelRegistry` are asked by no command; a row without a ticker
becomes the ticker `NAN` in training; the backtest's drawdown ignores a loss from the start.

## What is proved

For all tickers, capitals, limits, prices, scores and universes, any number of processes, sessions, runners and workflow runs:

| Theorem | Says | Assumes |
|---|---|---|
| `DailyTypeProofs!TypeCorrect` | `Spec => []TypeOK` | - |
| `DailyClaimProofs!ExclusiveClaims` | `[]SessionsExclusive` | - |
| `DailyClaimProofs!CompletionAccounted` | `[]CompletedIsAccountedFor` | - |
| `DailyClaimProofs!ErpAgreement` | `[]ErpAgreesWithLedger` | - |
| `DailyMoneyProofs!CashStaysPositive` | `[]CashNeverNegative` | - |
| `DailyMoneyProofs!BooksAlwaysBalance` | `[]BooksBalance` | `Serialized` |
| `DailyMoneyProofs!PlansExecute` | `[]PlansAreExecutable` | `Serialized` |
| `WorkflowProofs!WorkflowTypes` | `Spec => []TypeOK` | - |
| `WorkflowProofs!OneHistory` | `[]DailyHistoryIsOneChain` | - |
| `WorkflowProofs!UploadsDelivered` | `[]UploadedIsDelivered` | - |
| `WorkflowProofs!SessionsOnce` | `[]NoSessionTwice` | - |
| `WorkflowProofs!RetriesPossible` | `[]FailedSessionsCanBeRetried` | - |
| `DailyClaimProofs!SessionLife` | `ImplementsSessionBook`: the cycle refines `SessionBook` | - |
| `DailyClaimProofs!CoherentDecisions` | `[]DecisionsCohere` | - |
| `DailyMoneyProofs!HoldingsEndorsed` | `[]OnlyEndorsedHoldings` | `Serialized` |
| `DailyMoneyProofs!PeakIsHighest` | `[]PeakIsMaximum` | `Serialized` |
| `DailyMoneyProofs!ProfitsTelescope` | `[]ProfitTelescopes` | `Serialized`, `Lag = 0` |
| `ResearchProofs!ResearchTypes` | `Spec => []TypeOK` | - |
| `ResearchProofs!OneChain` | `[]OneChainPerMonth` | - |
| `ResearchProofs!ErpHasStored` | `[]ErpUniversesAreStored` | - |
| `ResearchProofs!ReportsAreTrue` | `[]ReportedIsDelivered` | - |
| `ResearchProofs!ActiveUniverse` | `ImplementsMonthlyUniverse`: research refines `MonthlyUniverse` | - |
| `MarketProofs!MarketTypes` | `Spec => []TypeOK` | - |
| `MarketProofs!NoneSuppressed` | `[]NothingSuppressed` | - |
| `MarketProofs!RecentSession` | `[]SessionIsRecent` | - |
| `MarketProofs!WholeCache` | `[]CacheIsWhole` | `[]OneUpdate` |
| `MarketProofs!CacheImproves` | `CacheOnlyImproves`, an action property | `[]OneUpdate` |
| `OfflineProofs!LabelsDoNotLeak` | `Spec => []NoLabelLeaks` | - |
| `OfflineProofs!PicksAreNew` | `[]NoPickIsTrainedOn` | - |
| `OfflineProofs!LastCompleteRow` | `[]CompleteRowsSurvive` | - |
| `OfflineProofs!CompleteUniverseFile` | `[]UniverseFileIsComplete` | - |
| `OfflineProofs!BacktestExecutes` | `[]BacktestIsExecutable` | - |
| `OfflineProofs!CapsHold` | `[]CategoryCapsHold` | - |
| `OfflineProofs!ShareOfEverySector` | `[]SectorShareHolds` | - |
| `OfflineProofs!PolicyDecides` | `[]EveryCandidateDecided` | - |

Besides the hypotheses of the table they rest on the assumptions of each component on its constants, which TLC evaluates in
its runs: `SettingsAssumption`, `OpeningAssumption` and `DailyAssumption`; `ResearchAssumption`; `MarketAssumption`;
`WorkflowAssumption`; `PolicyAssumption`, `SpellingAssumption`, `TrainingAssumption`, `BacktestAssumption` and `RequestAssumption`.
Two of these go beyond ranges. `PolicyAssumption` takes category limits to be natural numbers: the settings do not
validate them, and a negative maximum is one no universe could meet. `RequestAssumption` gives the requests the shapes their
callers build, and the backtest positive opening prices, by which it divides.

The arguments:

* **Types.** `TypeInv` adds to `TypeOK` what a step relies on (`Sound`): a job has a session once it has begun, a
  prepared order a ticker, what is scored a quote, what will be sold a quantity and a reason. Without it the quotients
  in `Target`, `BuyQuantity` and `SellOrder` could be divisions by zero, and types would not be inductive.
  `TargetsType` shows that the scores a target is divided by add up to more than 0, from `SumBound`.
* **Claims.** `ClaimInv` says for every label what has been stored by then (`StageOK`), that a batch at the
  ERP is the only one of its session and what the ledger holds of it (`DeliveredOK`), and that what was bought has its scores
  and sizing on record (`EntriesGrounded`): a ticker is only bought if it qualified, and then there was a row to store. The heart is `OtherSessionsStay`: a step writes rows of
  its own session only. With `SessionsExclusive` nobody else writes them, so what the label says stays true;
  and once the batch is at the ERP its process makes no more decisions.
* **Cash.** `CashInv`: nobody is about to write a negative balance. A purchase is checked against the cash it read
  and writes what is left of that cash, so it holds with overlap, too.
* **Books.** `SerialInv` says that a prepared purchase changes the imbalance of what is stored now by nothing and a sale by a cent at most
  (`OrderBalances`), which only holds while nobody else trades (`Alone`), that what is still to be sold has no decision yet, so that
  a sale counts as one more (`SellsOnce`), and that the plan's prices, shares and cash are still the ledger's (`PlanHolds`).
  `RoundedApart` is the arithmetic of the two roundings of a sale; `RoundedPays` says that rounding cannot make a purchase dearer than
  a whole number of cents that pays for it, which is why no order is turned down. `SumChange` gives the sum of the costs after one position has changed.
* **A session's life.** The refinement of `SessionBook` needs from `ClaimInv` that whoever writes a decision, sends a batch or
  ends a run holds the session's open row: then claim, trade, send, completion and failure are its actions and everything
  else leaves `Status`, `decisions` and `Published` alone.
* **Reasons.** `ReasonInv` keeps, of a run that sells, that every decision of its session has the reason its locals
  still give (`ExitKind`), and of one that buys, that whatever left for its score or research scores below the threshold. It needs no
  `Serialized`: a session's decisions are its run's own.
* **Holdings, peak and profits.** These hold without overlap only, and rest on `SerialInv`. `KeptInv`: what a run will not sell
  is endorsed, and what it sells leaves in full. `PeakInv`: a valuation still agrees with the tables when it is recorded, and its session is not
  on record. `SequenceInv` adds that no session on record is later than the one at work, which is where `Lag = 0` is
  needed: without it an older session is valued after a newer one and measured from the wrong row.
* **Research.** Of each job, `Inv` says which row and batch it has by its label (`StageOK`), that no two export the same batch
  (`OwnBatches`), and that a month once researched always has one current row (`RowsOK`, `OneChainPerMonth`). `PersistStep` is the heart:
  the transaction supersedes every earlier row of its month, so nothing a job read minutes before can matter. `ActiveIsLatest`
  identifies the active row, from which each step is a publication or a stutter.
* **Market data**, in two layers. `Inv`: the batches that are done have noted every ticker of theirs, those to come no one, and no
  row `latest` has is later than its question. `CacheInv`, with one update at a time: what is in hand is never older than the file.
* **Workflows.** `WorkflowInv` adds to the properties what the runs in progress hold: at most one daily run (`OneDaily`), a
  database on every runner that has not failed, with no session twice and none unfinished, and all of it at the ERP (`Kept`), which
  continues every uploaded one (`Continues`). Of the database of a failed runner it says nothing: that one has an unfinished session. `RestoredContinues` is the heart: the last success of the daily workflow extends all of them, because they
  are a chain; with none there is nothing to continue. Without `OneDaily`, two runs that restored the same database would
  each upload a continuation of it that is none of the other's.
* **Pure tools.** Steps do not change a request, so `Answers` (the answer is the operator applied to the request) is the invariant.
  *Labels*: the window of an unbroken ticker ends within its horizon (`WindowEndsBefore`), and between a training and a validation date lie
  as many dates as the embargo (`EmbargoLies`). *Backtest*: `TradeInOrder`; at most `BacktestPositions` tickers are picked in a session (`CandidatesFew`, from
  `RankedFew`), each within its part of the cash (`PurchaseFits`, `PlacesFit`), added up by `SumAtMost`. *Policy*:
  `HistoryExists` gives the loops their states and `StepByStep` their invariants, `RankedOnce` makes `Arranged` a sort. The share survives
  because other sectors only dilute it (`ShareStays`), the caps because a removal lowers every count (`TagsFall`), and a full universe stays full
  (`FullStays`), so it turns away only those after the ones it took.

The inductive invariants were checked by TLC on the instances above before they were relied on.

What the proof attempts found:

* `BooksBalance` as an equation cannot be proved of the two roundings of a sale; what can be, a cent for each sale, is what the property now says.
* No hypothesis on Yahoo's lag is needed for one history in the workflows, nor for no session twice; order of sessions is what a lag breaks.
* `UniverseFileIsComplete` spoke of every answer, while the script stops asking after its last attempt: a usable answer beyond it
  is not "passed over". The property now says so, and the instance has such an answer.
* The order of admission, the replacement of a ticker's reasons and the loops of `evaluate` were folds that no prover can
  look into. They are now functions over the steps; TLC found the old and the new answers the same on every policy request.

Only model-checked: `InvocationsEnd`, `ResearchEnds` and `CommandsEnd`. Liveness under fairness needs ENABLED, which the prover does
not handle. Two induction principles that the library states with an operator parameter are replaced by lemmas over
sets (`StepByStep`, `HistoryExists`); no module here declares a RECURSIVE operator.

## Plan

Done: the daily cycle with its abstract `SessionBook`, research with its abstract `MonthlyUniverse`, market data, workflows, the pure
tools, and a theorem for every property of the passing runs but the three of liveness. What is left:

1. Weaker hypotheses where the proof shows that they are not needed in full: `ProfitTelescopes` needs sessions recorded in
   order rather than `Lag = 0`.
2. Stronger statements from the invariants already proved: what one step may never do to a completed session, to an uploaded
   database or to a superseded universe, as action properties.
3. Shorter proofs where two of them say the same of different components.

## Not modelled

* The paper-trading stack: its files import records that `types.py` no longer defines, so none can be loaded. `ts/news.py` is used by
  it alone.
* Numerical training, features and prediction: a score is any number. `ModelRegistry` and `generate_signals` are reached by no
  command at this commit. `build_ai_infra_candidate_pool` is called by nothing; `ts/ai_feedback_loop.py` matches keywords and
  writes text that no decision depends on.
* The statistics of a backtest report, prompts, loading and merging of settings: text and arithmetic without state.
* `/health`, `/api/portfolio`, `/api/positions`, `/api/universe`: rows as they are. Two queries of one request may see two moments of a
  running cycle, and no document promises otherwise.
* Hashes, signatures, log and report formats: data the properties do not tell apart. The HMAC is part of a batch and does not decide any step.
* `run_locks`, `kill_switch` and `idempotency_keys` in `ts/storage.py`: nothing in the live path calls them.
