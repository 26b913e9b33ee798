--------------------------- MODULE DailyMarketCycle ---------------------------
(***************************************************************************)
(* DailyMarketCycle.run (daily.py): one invocation claims the latest       *)
(* completed market session in strategy_runs, prices and scores the active *)
(* universe, sells what must be sold, buys towards the allocation's        *)
(* targets, records the authoritative snapshot, exports one signed batch   *)
(* to the ERP and marks the run completed.                                 *)
(*                                                                         *)
(* A process is one invocation of the command line after another, over one *)
(* durable database.  Each action is what the code does between two points *)
(* where another process can be seen, or a kill can leave a trace: every   *)
(* statement outside a transaction commits by itself.  Two queries in a    *)
(* row are one read, the rows of one table that a loop inserts are one     *)
(* write, and an action makes at most one write.                           *)
(***************************************************************************)
EXTENDS Allocation, Ledger, Sequences

CONSTANTS
    Procs,            \* the processes that may invoke run-eod
    Serialized,       \* TRUE: invocations never overlap (one scheduler)
    Lag,              \* bound: how many sessions Yahoo's answer may be behind
    Universes,        \* the universes monthly research may persist
    Prices, Scores,   \* prices Yahoo may quote, in units; the model's scores
    Benchmarked       \* whether history may have, or lack, a benchmark's rows

ASSUME DailyAssumption ==
    /\ Serialized \in BOOLEAN
    /\ Lag \in Nat
    /\ Fee = 0                   \* the cycle leaves the engine's default
    /\ Universes \subseteq (SUBSET Tickers) \ {{}}
    /\ Prices \subseteq Nat \ {0}
    /\ Scores \subseteq 0..100
    /\ Benchmarked \subseteq BOOLEAN

VARIABLES
    runs,             \* session -> status of its row of strategy_runs
    evidence,         \* session -> the analyses its run has stored rows of
    batches,          \* session -> status of its row of erp_export_batch
    delivered,        \* the batches the ERP has accepted, in order
    universe,         \* members of the active universe; {} before research
    today,            \* the latest session whose close has been published
    pc, job           \* where each process is, and its local variables

vars == <<cash, realized, peak, positions, decisions, snapshots, runs, evidence,
          batches, delivered, universe, today, pc, job>>

NoOrder == [ticker |-> 0, kind |-> "MODEL_ENTRY", cost |-> 0, cash |-> 0,
            realized |-> 0, position |-> NoPosition]

NoJob == [session |-> 0,
          members |-> {},
          quotes |-> [t \in Tickers |-> 0],
          scores |-> [t \in Tickers |-> 0],
          held |-> [t \in Tickers |-> NoPosition],
          targets |-> [t \in Tickers |-> 0],
          toExit |-> {},
          toBuy |-> {},
          cash |-> 0,
          order |-> NoOrder,
          valuation |-> NoSnapshot]

\* Labels inside the try block, where an exception marks the run failed.
InTry == {"fetch", "plan", "exit", "postExit", "buy", "postBuy", "postSnapshot",
          "export", "pack", "send", "unsent", "sent", "complete"}

\* An exception is on its way to the except clause of run.
Raised == {"rejected", "unpriced", "fault"}

Working(p) == pc[p] \in InTry \cup Raised

RunStatuses == {"none", "running", "completed", "failed"}

Analyses == {"model_signals", "capital_allocations", "benchmark_snapshots"}

Completed == {s \in Sessions : runs[s] = "completed"}

LastCompleted ==
    IF Completed = {} THEN 0 ELSE CHOOSE s \in Completed : \A r \in Completed : r <= s

Init ==
    /\ LedgerInit
    /\ runs = [s \in Sessions |-> "none"]
    /\ evidence = [s \in Sessions |-> {}]
    /\ batches = [s \in Sessions |-> "none"]
    /\ delivered = <<>>
    /\ universe = {}
    /\ today = 0
    /\ pc = [p \in Procs |-> "idle"]
    /\ job = [p \in Procs |-> NoJob]

-------------------------------------------------------------------------------
(***************************************************************************)
(* The world around the cycle.                                             *)
(***************************************************************************)

\* A market session closes.
SessionCloses ==
    /\ today < NSessions
    /\ today' = today + 1
    /\ UNCHANGED <<ledgerVars, runs, evidence, batches, delivered, universe, pc,
                   job>>

\* Monthly research persists a new universe, which becomes the active one.
PersistUniverse ==
    /\ universe' \in Universes \ {universe}
    /\ UNCHANGED <<ledgerVars, runs, evidence, batches, delivered, today, pc, job>>

-------------------------------------------------------------------------------
(***************************************************************************)
(* Claiming a session.                                                     *)
(***************************************************************************)

\* The invocation reads the newest session Yahoo knows, the last completed
\* one, and the active universe.  It exits at once, writing nothing, when the
\* two sessions are equal, and raises when there is no universe.
Begin(p) ==
    /\ pc[p] = "idle"
    /\ Serialized => \A q \in Procs : pc[q] = "idle"
    /\ universe # {}
    /\ \E s \in (today - Lag)..today :
        /\ s \in Sessions
        /\ s # LastCompleted
        /\ job' = [job EXCEPT ![p] =
                [NoJob EXCEPT !.session = s, !.members = universe]]
    /\ pc' = [pc EXCEPT ![p] = "claim"]
    /\ UNCHANGED <<ledgerVars, runs, evidence, batches, delivered, universe, today>>

\* Mutants: an insert that replaces the row; one that takes a failed run over.
ClaimReplacing(p) ==
    /\ pc[p] = "claim"
    /\ runs' = [runs EXCEPT ![job[p].session] = "running"]
    /\ pc' = [pc EXCEPT ![p] = "fetch"]
    /\ UNCHANGED <<ledgerVars, evidence, batches, delivered, universe, today, job>>

ClaimFailed(p) ==
    /\ ClaimReplacing(p)
    /\ runs[job[p].session] \in {"none", "failed"}

\* The row is UNIQUE(run_type, market_session): the insert is the claim.
Claim(p) ==
    /\ pc[p] = "claim"
    /\ runs[job[p].session] = "none"
    /\ runs' = [runs EXCEPT ![job[p].session] = "running"]
    /\ pc' = [pc EXCEPT ![p] = "fetch"]
    /\ UNCHANGED <<ledgerVars, evidence, batches, delivered, universe, today, job>>

\* The insert fails because the session has a run, in whatever status: the
\* invocation reports that status and exits normally.
Replay(p) ==
    /\ pc[p] = "claim"
    /\ runs[job[p].session] # "none"
    /\ pc' = [pc EXCEPT ![p] = "replayed"]
    /\ UNCHANGED <<ledgerVars, runs, evidence, batches, delivered, universe, today,
                   job>>

Leave(p) ==
    /\ pc[p] = "replayed"
    /\ pc' = [pc EXCEPT ![p] = "idle"]
    /\ job' = [job EXCEPT ![p] = NoJob]
    /\ UNCHANGED <<ledgerVars, runs, evidence, batches, delivered, universe, today>>

-------------------------------------------------------------------------------
(***************************************************************************)
(* Pricing, scoring and planning.                                          *)
(***************************************************************************)

\* A loop that inserts the rows of an analysis stores nothing if there are none.
Recorded(s, analysis, any) ==
    [evidence EXCEPT ![s] = IF any THEN @ \cup {analysis} ELSE @]

\* Quotes are asked for the members and for what is held at this moment; a
\* symbol Yahoo cannot price makes the whole step raise (see StepRaises).  The
\* scores there are are stored as the run's signals: history may lack a member
\* whose price latest has, and then nothing is known of it.
Fetch(p) ==
    /\ pc[p] = "fetch"
    /\ \E q \in [job[p].members \cup Held -> Prices], c \in [job[p].members -> Scores] :
        /\ job' = [job EXCEPT
            ![p].quotes = [t \in Tickers |-> IF t \in DOMAIN q THEN q[t] ELSE 0],
            ![p].scores = [t \in Tickers |-> IF t \in DOMAIN c THEN c[t] ELSE 0]]
        /\ evidence' = Recorded(job[p].session, "model_signals",
                                \E t \in DOMAIN c : c[t] > 0)
    /\ pc' = [pc EXCEPT ![p] = "plan"]
    /\ UNCHANGED <<ledgerVars, runs, batches, delivered, universe, today>>

\* Mutant: what research dropped is kept while its score is good.
ExitKindOfMembers(j, t) ==
    IF Breached(j.held[t], j.quotes[t]) THEN "STOP_LOSS_EXIT"
    ELSE IF TookProfit(j.held[t], j.quotes[t]) THEN "TAKE_PROFIT_EXIT"
    ELSE IF t \in j.members /\ j.scores[t] < Threshold THEN "SIGNAL_EXIT"
    ELSE "NONE"

\* Which rule, in the code's order, makes the run sell a holding; "NONE" if
\* it stays.
ExitKind(j, t) ==
    IF Breached(j.held[t], j.quotes[t]) THEN "STOP_LOSS_EXIT"
    ELSE IF t \notin j.members THEN "UNIVERSE_REMOVAL"
    ELSE IF TookProfit(j.held[t], j.quotes[t]) THEN "TAKE_PROFIT_EXIT"
    ELSE IF j.scores[t] < Threshold THEN "SIGNAL_EXIT"
    ELSE "NONE"

AllPriced(j) == \A t \in Held : j.quotes[t] > 0

\* Reads cash and positions, sizes the portfolio, and stores the allocations, if
\* a score qualifies; everything the run will sell follows from here.
Plan(p) ==
    LET value == Scale * cash + MarketValue(job[p].quotes)
        chosen == Targets(job[p].scores, value)
        seen == [job[p] EXCEPT !.held = positions]
    IN  /\ pc[p] = "plan"
        /\ AllPriced(job[p])
        /\ evidence' = Recorded(job[p].session, "capital_allocations",
                                DOMAIN chosen # {})
        /\ job' = [job EXCEPT ![p] = [seen EXCEPT
                !.targets = [t \in Tickers |-> IF t \in DOMAIN chosen
                                               THEN chosen[t] ELSE 0],
                !.toExit = {t \in Held : ExitKind(seen, t) # "NONE"},
                !.toBuy = DOMAIN chosen]]
        /\ pc' = [pc EXCEPT ![p] = "exit"]
        /\ UNCHANGED <<ledgerVars, runs, batches, delivered, universe, today>>

\* A holding that appeared after the quotes were asked has no price.
PlanUnpriced(p) ==
    /\ pc[p] = "plan"
    /\ ~AllPriced(job[p])
    /\ pc' = [pc EXCEPT ![p] = "unpriced"]
    /\ UNCHANGED <<ledgerVars, runs, evidence, batches, delivered, universe, today,
                   job>>

-------------------------------------------------------------------------------
(***************************************************************************)
(* Selling.  Every exit sells the whole quantity seen by Plan, whatever    *)
(* the order in which SQLite returned the rows.  Each trade reads the      *)
(* ledger (Prepare) and then writes it (Post).                             *)
(***************************************************************************)

PrepareExit(p, t) ==
    /\ pc[p] = "exit"
    /\ t \in job[p].toExit
    /\ Sellable(t, job[p].held[t].quantity)
    /\ job' = [job EXCEPT ![p].order =
            SellOrder(t, job[p].held[t].quantity, job[p].quotes[t],
                      ExitKind(job[p], t))]
    /\ pc' = [pc EXCEPT ![p] = "postExit"]
    /\ UNCHANGED <<ledgerVars, runs, evidence, batches, delivered, universe, today>>

RejectExit(p, t) ==
    /\ pc[p] = "exit"
    /\ t \in job[p].toExit
    /\ ~Sellable(t, job[p].held[t].quantity)
    /\ pc' = [pc EXCEPT ![p] = "rejected"]
    /\ UNCHANGED <<ledgerVars, runs, evidence, batches, delivered, universe, today,
                   job>>

PostExit(p) ==
    /\ pc[p] = "postExit"
    /\ PostOrder(job[p].session, job[p].order)
    /\ job' = [job EXCEPT ![p].toExit = @ \ {job[p].order.ticker},
                          ![p].order = NoOrder]
    /\ pc' = [pc EXCEPT ![p] = "exit"]
    /\ UNCHANGED <<runs, evidence, batches, delivered, universe, today>>

-------------------------------------------------------------------------------
(***************************************************************************)
(* Buying.  Positions and cash are read again once, before the loop; the   *)
(* loop then keeps its own count of the cash.                              *)
(***************************************************************************)

StartBuying(p) ==
    /\ pc[p] = "exit"
    /\ job[p].toExit = {}
    /\ job' = [job EXCEPT ![p].held = positions, ![p].cash = cash]
    /\ pc' = [pc EXCEPT ![p] = "buy"]
    /\ UNCHANGED <<ledgerVars, runs, evidence, batches, delivered, universe, today>>

\* Mutant: the cash is not looked at.
BuyQuantityUncapped(j, t) ==
    (Scale * j.targets[t]) \div j.quotes[t] - j.held[t].quantity

\* Whole shares towards the target, and no more than the cash pays for.
BuyQuantity(j, t) ==
    Lesser((Scale * j.targets[t]) \div j.quotes[t] - j.held[t].quantity,
           (Scale * j.cash) \div j.quotes[t])

Wanted(j) == {t \in j.toBuy : BuyQuantity(j, t) > 0}

\* The allocations come best score first, and the loop passes over those
\* there is nothing to buy of.
IsNextBuy(j, t) ==
    /\ t \in Wanted(j)
    /\ \A u \in Wanted(j) \ {t} : Precedes(j.scores, t, u)

PrepareBuy(p, t) ==
    /\ pc[p] = "buy"
    /\ IsNextBuy(job[p], t)
    /\ Affordable(BuyQuantity(job[p], t), job[p].quotes[t])
    /\ job' = [job EXCEPT ![p].order =
            BuyOrder(t, BuyQuantity(job[p], t), job[p].quotes[t])]
    /\ pc' = [pc EXCEPT ![p] = "postBuy"]
    /\ UNCHANGED <<ledgerVars, runs, evidence, batches, delivered, universe, today>>

RejectBuy(p, t) ==
    /\ pc[p] = "buy"
    /\ IsNextBuy(job[p], t)
    /\ ~Affordable(BuyQuantity(job[p], t), job[p].quotes[t])
    /\ pc' = [pc EXCEPT ![p] = "rejected"]
    /\ UNCHANGED <<ledgerVars, runs, evidence, batches, delivered, universe, today,
                   job>>

PostBuy(p) ==
    /\ pc[p] = "postBuy"
    /\ PostOrder(job[p].session, job[p].order)
    /\ job' = [job EXCEPT ![p].toBuy = @ \ {job[p].order.ticker},
                          ![p].cash = @ - job[p].order.cost,
                          ![p].order = NoOrder]
    /\ pc' = [pc EXCEPT ![p] = "buy"]
    /\ UNCHANGED <<runs, evidence, batches, delivered, universe, today>>

-------------------------------------------------------------------------------
(***************************************************************************)
(* The authoritative snapshot of the session.                              *)
(***************************************************************************)

PrepareSnapshot(p) ==
    /\ pc[p] = "buy"
    /\ Wanted(job[p]) = {}
    /\ AllPriced(job[p])
    /\ job' = [job EXCEPT ![p].valuation = Valued(job[p].quotes)]
    /\ pc' = [pc EXCEPT ![p] = "postSnapshot"]
    /\ UNCHANGED <<ledgerVars, runs, evidence, batches, delivered, universe, today>>

SnapshotUnpriced(p) ==
    /\ pc[p] = "buy"
    /\ Wanted(job[p]) = {}
    /\ ~AllPriced(job[p])
    /\ pc' = [pc EXCEPT ![p] = "unpriced"]
    /\ UNCHANGED <<ledgerVars, runs, evidence, batches, delivered, universe, today,
                   job>>

RecordSnapshot(p) ==
    /\ pc[p] = "postSnapshot"
    /\ PostSnapshot(job[p].session, job[p].valuation)
    /\ pc' = [pc EXCEPT ![p] = "export"]
    /\ UNCHANGED <<runs, evidence, batches, delivered, universe, today, job>>

-------------------------------------------------------------------------------
(***************************************************************************)
(* The ERP batch (ERPExportService.export), and the end of the run.        *)
(***************************************************************************)

DecisionsOf(s) == {d \in decisions : d.session = s}

\* What build_batch packs: the summary of the run, which says completed before
\* the run is, the snapshot, and the rows stored under the run.  Two batches
\* are never the same one, so what the ERP took is a sequence.
Batch(s) == [session |-> s, status |-> "completed", snapshot |-> snapshots[s],
             trades |-> DecisionsOf(s), evidence |-> evidence[s]]

\* A benchmark that history has no rows of is passed over, although latest
\* priced it.
Benchmarks(p) ==
    /\ pc[p] = "export"
    /\ \E any \in Benchmarked :
        evidence' = Recorded(job[p].session, "benchmark_snapshots", any)
    /\ pc' = [pc EXCEPT ![p] = "pack"]
    /\ UNCHANGED <<ledgerVars, runs, batches, delivered, universe, today, job>>

\* Builds the batch and saves it before sending.
SavePending(p) ==
    /\ pc[p] = "pack"
    /\ batches' = [batches EXCEPT ![job[p].session] = "pending"]
    /\ pc' = [pc EXCEPT ![p] = "send"]
    /\ UNCHANGED <<ledgerVars, runs, evidence, delivered, universe, today, job>>

\* The ERP takes the batch and its answer arrives.
Send(p) ==
    /\ pc[p] = "send"
    /\ delivered' = Append(delivered, Batch(job[p].session))
    /\ pc' = [pc EXCEPT ![p] = "sent"]
    /\ UNCHANGED <<ledgerVars, runs, evidence, batches, universe, today, job>>

\* The ERP takes the batch, but the answer is lost, late or unreadable.
SendUnanswered(p) ==
    /\ pc[p] = "send"
    /\ delivered' = Append(delivered, Batch(job[p].session))
    /\ pc' = [pc EXCEPT ![p] = "unsent"]
    /\ UNCHANGED <<ledgerVars, runs, evidence, batches, universe, today, job>>

\* Mutant: the transport's error is swallowed.
SendFailsSilently(p) ==
    /\ pc[p] = "send"
    /\ pc' = [pc EXCEPT ![p] = "sent"]
    /\ UNCHANGED <<ledgerVars, runs, evidence, batches, delivered, universe, today,
                   job>>

\* The batch never gets there.
SendFails(p) ==
    /\ pc[p] = "send"
    /\ pc' = [pc EXCEPT ![p] = "unsent"]
    /\ UNCHANGED <<ledgerVars, runs, evidence, batches, delivered, universe, today,
                   job>>

\* Mutant: the dead letter is sent again, and again.
DeadLetterResent(p) ==
    /\ pc[p] = "unsent"
    /\ batches' = [batches EXCEPT ![job[p].session] = "dead_letter"]
    /\ pc' = [pc EXCEPT ![p] = "send"]
    /\ UNCHANGED <<ledgerVars, runs, evidence, delivered, universe, today, job>>

\* The batch is kept in the dead-letter directory and the exception goes on.
DeadLetter(p) ==
    /\ pc[p] = "unsent"
    /\ batches' = [batches EXCEPT ![job[p].session] = "dead_letter"]
    /\ pc' = [pc EXCEPT ![p] = "fault"]
    /\ UNCHANGED <<ledgerVars, runs, evidence, delivered, universe, today, job>>

MarkExported(p) ==
    /\ pc[p] = "sent"
    /\ batches' = [batches EXCEPT ![job[p].session] = "exported"]
    /\ pc' = [pc EXCEPT ![p] = "complete"]
    /\ UNCHANGED <<ledgerVars, runs, evidence, delivered, universe, today, job>>

\* Writes the report file and marks the run completed.
Complete(p) ==
    /\ pc[p] = "complete"
    /\ runs' = [runs EXCEPT ![job[p].session] = "completed"]
    /\ pc' = [pc EXCEPT ![p] = "idle"]
    /\ job' = [job EXCEPT ![p] = NoJob]
    /\ UNCHANGED <<ledgerVars, evidence, batches, delivered, universe, today>>

-------------------------------------------------------------------------------
(***************************************************************************)
(* Failure.                                                                *)
(***************************************************************************)

\* Anything in the try block may raise: Yahoo's data is unavailable, the model
\* cannot be read, the database is busy, the disk is full.  What the step
\* would have written in its transaction is rolled back.
StepRaises(p) ==
    /\ pc[p] \in InTry \ {"send"}
    /\ pc' = [pc EXCEPT ![p] = "fault"]
    /\ UNCHANGED <<ledgerVars, runs, evidence, batches, delivered, universe, today,
                   job>>

\* The except clause.
FailRun(p) ==
    /\ pc[p] \in Raised
    /\ runs' = [runs EXCEPT ![job[p].session] = "failed"]
    /\ pc' = [pc EXCEPT ![p] = "idle"]
    /\ job' = [job EXCEPT ![p] = NoJob]
    /\ UNCHANGED <<ledgerVars, evidence, batches, delivered, universe, today>>

\* The process is killed; only what was committed is left.
Crash(p) ==
    /\ pc[p] # "idle"
    /\ pc' = [pc EXCEPT ![p] = "idle"]
    /\ job' = [job EXCEPT ![p] = NoJob]
    /\ UNCHANGED <<ledgerVars, runs, evidence, batches, delivered, universe, today>>

-------------------------------------------------------------------------------

\* What an invocation does by itself once it has begun.
Run(p) ==
    \/ Claim(p) \/ Replay(p) \/ Leave(p)
    \/ Fetch(p) \/ Plan(p) \/ PlanUnpriced(p)
    \/ \E t \in Tickers : PrepareExit(p, t) \/ RejectExit(p, t)
    \/ PostExit(p)
    \/ StartBuying(p)
    \/ \E t \in Tickers : PrepareBuy(p, t) \/ RejectBuy(p, t)
    \/ PostBuy(p)
    \/ PrepareSnapshot(p) \/ SnapshotUnpriced(p) \/ RecordSnapshot(p)
    \/ Benchmarks(p) \/ SavePending(p)
    \/ Send(p) \/ SendUnanswered(p) \/ SendFails(p)
    \/ DeadLetter(p) \/ MarkExported(p) \/ Complete(p)
    \/ StepRaises(p) \/ FailRun(p)

Next ==
    \/ SessionCloses
    \/ PersistUniverse
    \/ \E p \in Procs : Begin(p) \/ Run(p) \/ Crash(p)

Spec == Init /\ [][Next]_vars

\* An invocation that is not killed runs on to its end; when sessions close,
\* when research is done and whether anyone invokes the command is up to the
\* world.
FairSpec == Spec /\ \A p \in Procs : WF_vars(Run(p))
===============================================================================
