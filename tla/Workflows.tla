-------------------------------- MODULE Workflows -------------------------------
(***************************************************************************)
(* The scheduled workflows (.github/workflows).  A runner starts with an   *)
(* empty disk: daily-market-cycle.yml restores the database from the       *)
(* artifact of an earlier workflow run, runs run-eod on it and uploads it  *)
(* again, if every step before succeeded.  monthly-research.yml restores   *)
(* nothing.  manual-strategy-run.yml calls the daily workflow, but the     *)
(* workflow run, and so its artifact, is listed under the caller's name.   *)
(* The ERP is the only thing that lasts by itself.                         *)
(*                                                                         *)
(* A database is reduced to what the workflows make differ: the sessions   *)
(* it completed, in order, which stand for all its trades and snapshots;   *)
(* the sessions whose row of strategy_runs is not completed; and the       *)
(* universe.  What happens within run-eod is DailyMarketCycle's subject.   *)
(***************************************************************************)
EXTENDS Integers, SequencesExt

CONSTANTS
    Runners,          \* bound: the daily workflow runs that could be in progress
    NSessions,        \* bound: sessions that close
    NUniverses,       \* bound: universes researched
    NRuns,            \* bound: workflow runs started
    Lag,              \* bound: how many sessions Yahoo's answer may be behind
    Triggers,         \* how the daily workflow is started
    Failing           \* whether a step of a workflow may fail

ASSUME WorkflowAssumption ==
    /\ NSessions \in Nat /\ NUniverses \in Nat /\ NRuns \in Nat
    /\ Lag \in Nat
    /\ Triggers \subseteq {"daily-market-cycle", "manual-strategy-run"}
    /\ Failing \in BOOLEAN

VARIABLES
    today,            \* the latest session that closed
    researched,       \* universes researched so far
    started,          \* workflow runs started so far
    successes,        \* the successful workflow runs with their artifact, in order
    erp,              \* the session batches the ERP has accepted, in order
    daily,            \* the daily workflow in progress on each runner
    monthly           \* the research workflow in progress, at most one

workflowVars == <<today, researched, started, successes, erp, daily, monthly>>

Sessions == 1..NSessions

Database == [book : Seq(Sessions), unfinished : SUBSET Sessions, universe : 0..NUniverses]
EmptyDatabase == [book |-> <<>>, unfinished |-> {}, universe |-> 0]

\* The workflow name under which a success is listed.
Names == {"daily-market-cycle", "manual-strategy-run", "monthly-research"}
Success == [workflow : Names, db : Database]

\* A batch of a session, with everything the portfolio did up to it.
ErpBatch == [session : Sessions, book : Seq(Sessions)]

NoDaily == [step |-> "none", workflow |-> "daily-market-cycle", db |-> EmptyDatabase]
NoMonthly == [step |-> "none", db |-> EmptyDatabase]

Init ==
    /\ today = 0 /\ researched = 0 /\ started = 0
    /\ successes = <<>>
    /\ erp = <<>>
    /\ daily = [r \in Runners |-> NoDaily]
    /\ monthly = NoMonthly

SessionCloses ==
    /\ today < NSessions
    /\ today' = today + 1
    /\ UNCHANGED <<researched, started, successes, erp, daily, monthly>>

\* Mutant: no concurrency group.
StartDailyConcurrently(r, trigger) ==
    /\ daily[r].step = "none"
    /\ started < NRuns /\ today > 0
    /\ started' = started + 1
    /\ daily' = [daily EXCEPT ![r] = [NoDaily EXCEPT !.step = "restore", !.workflow = trigger]]
    /\ UNCHANGED <<today, researched, successes, erp, monthly>>

\* concurrency: one run of the group at a time; the called workflow brings
\* its group along.
StartDaily(r, trigger) ==
    /\ \A q \in Runners : daily[q].step = "none"
    /\ started < NRuns /\ today > 0
    /\ started' = started + 1
    /\ daily' = [daily EXCEPT ![r] = [NoDaily EXCEPT !.step = "restore", !.workflow = trigger]]
    /\ UNCHANGED <<today, researched, successes, erp, monthly>>

LatestOf(workflow) ==
    SelectLastInSeq(successes, LAMBDA s : s.workflow = workflow)

\* Mutants: state is taken from the latest success of any workflow; from the
\* research workflow first.
RestorableOfAny == Len(successes)

RestorableOfMonthly ==
    IF LatestOf("monthly-research") > 0 THEN LatestOf("monthly-research")
    ELSE LatestOf("daily-market-cycle")

\* The run whose artifact is downloaded: the latest success of the daily
\* workflow, and of the research workflow only if there is none; 0 is none.
Restorable ==
    IF LatestOf("daily-market-cycle") > 0 THEN LatestOf("daily-market-cycle")
    ELSE LatestOf("monthly-research")

Restore(r) ==
    /\ daily[r].step = "restore"
    /\ Restorable > 0
    /\ daily' = [daily EXCEPT ![r].step = "eod", ![r].db = successes[Restorable].db]
    /\ UNCHANGED <<today, researched, started, successes, erp, monthly>>

\* "No monthly research state artifact exists": the job fails.
NothingToRestore(r) ==
    /\ daily[r].step = "restore"
    /\ Restorable = 0
    /\ daily' = [daily EXCEPT ![r] = NoDaily]
    /\ UNCHANGED <<today, researched, started, successes, erp, monthly>>

Processed(db) == Range(db.book) \cup db.unfinished

\* What completed_session may answer: Yahoo's newest bar is one of the latest
\* sessions, or is too old or missing, which is None, here 0.
Answers == {0} \cup {s \in Sessions : s \in (today - Lag)..today}

\* run-eod has no session, or finds it in its database, and exits with 0.
EodSkips(r) ==
    /\ daily[r].step = "eod"
    /\ \E s \in Answers : s = 0 \/ s \in Processed(daily[r].db)
    /\ daily' = [daily EXCEPT ![r].step = "upload"]
    /\ UNCHANGED <<today, researched, started, successes, erp, monthly>>

\* Mutant: the session is dated by the day of the run, which is after its close.
RanOnTheDayAfter(db, session) == [db EXCEPT !.book = Append(@, session + 1)]

Ran(db, session) == [db EXCEPT !.book = Append(@, session)]

BatchFor(db, session) == [session |-> session, book |-> Append(db.book, session)]

\* The sessions that run-eod may take as new.  One that closed before the last
\* one it completed is new as well, if the database has no row of it.
Unprocessed(r) == {s \in Answers : s > 0 /\ s \notin Processed(daily[r].db)}

\* Mutant: the session is run whether the database has it or not.
EodCompletesAgain(r) ==
    /\ daily[r].step = "eod"
    /\ \E s \in Answers \ {0} :
        /\ erp' = Append(erp, BatchFor(daily[r].db, s))
        /\ daily' = [daily EXCEPT ![r].step = "upload", ![r].db = Ran(@, s)]
    /\ UNCHANGED <<today, researched, started, successes, monthly>>

\* Mutant: the cycle completes although its batch was not accepted.
EodCompletesUnsent(r) ==
    /\ daily[r].step = "eod"
    /\ \E s \in Unprocessed(r) :
        daily' = [daily EXCEPT ![r].step = "upload", ![r].db = Ran(@, s)]
    /\ UNCHANGED <<today, researched, started, successes, erp, monthly>>

\* run-eod trades the session, the ERP accepts its batch, the run completes.
EodCompletes(r) ==
    /\ daily[r].step = "eod"
    /\ \E s \in Unprocessed(r) :
        /\ erp' = Append(erp, BatchFor(daily[r].db, s))
        /\ daily' = [daily EXCEPT ![r].step = "upload", ![r].db = Ran(@, s)]
    /\ UNCHANGED <<today, researched, started, successes, monthly>>

\* completed_session raises, or a step before it fails.
EodRaises(r) ==
    /\ Failing
    /\ daily[r].step = "eod"
    /\ daily' = [daily EXCEPT ![r].step = "failed"]
    /\ UNCHANGED <<today, researched, started, successes, erp, monthly>>

\* run-eod fails, is killed or runs into the time limit with a session claimed,
\* before the ERP took the batch or after.  The runner's database then has the
\* session's row, which stops every later run of that session on it.
EodFails(r) ==
    /\ Failing
    /\ daily[r].step = "eod"
    /\ \E s \in Unprocessed(r) :
        /\ erp' \in {erp, Append(erp, BatchFor(daily[r].db, s))}
        /\ daily' = [daily EXCEPT ![r].step = "failed", ![r].db.unfinished = @ \cup {s}]
    /\ UNCHANGED <<today, researched, started, successes, monthly>>

\* The job fails without the upload, which has no condition of its own.  The
\* runner and its database, outbox and dead letters are gone.
JobFails(r) ==
    /\ daily[r].step = "failed"
    /\ daily' = [daily EXCEPT ![r] = NoDaily]
    /\ UNCHANGED <<today, researched, started, successes, erp, monthly>>

\* Mutant: the state is uploaded whatever happened (if: always()).
UploadAlways(r) ==
    /\ daily[r].step \in {"upload", "failed"}
    /\ successes' = Append(successes, [workflow |-> daily[r].workflow, db |-> daily[r].db])
    /\ daily' = [daily EXCEPT ![r] = NoDaily]
    /\ UNCHANGED <<today, researched, started, erp, monthly>>

Upload(r) ==
    /\ daily[r].step = "upload"
    /\ successes' = Append(successes, [workflow |-> daily[r].workflow, db |-> daily[r].db])
    /\ daily' = [daily EXCEPT ![r] = NoDaily]
    /\ UNCHANGED <<today, researched, started, erp, monthly>>

UploadFails(r) ==
    /\ Failing
    /\ daily[r].step = "upload"
    /\ daily' = [daily EXCEPT ![r] = NoDaily]
    /\ UNCHANGED <<today, researched, started, successes, erp, monthly>>

\* research-universe finds no row in a new database, forced or not.
StartMonthly ==
    /\ monthly.step = "none"
    /\ started < NRuns /\ researched < NUniverses
    /\ started' = started + 1
    /\ researched' = researched + 1
    /\ monthly' = [step |-> "upload",
                   db |-> [EmptyDatabase EXCEPT !.universe = researched + 1]]
    /\ UNCHANGED <<today, successes, erp, daily>>

UploadMonthly ==
    /\ monthly.step = "upload"
    /\ successes' = Append(successes, [workflow |-> "monthly-research", db |-> monthly.db])
    /\ monthly' = NoMonthly
    /\ UNCHANGED <<today, researched, started, erp, daily>>

\* Research, its export, update-market-data or the upload fails.
MonthlyFails ==
    /\ Failing
    /\ monthly.step = "upload"
    /\ monthly' = NoMonthly
    /\ UNCHANGED <<today, researched, started, successes, erp, daily>>

Next ==
    \/ SessionCloses
    \/ \E r \in Runners :
        \/ \E trigger \in Triggers : StartDaily(r, trigger)
        \/ Restore(r) \/ NothingToRestore(r)
        \/ EodSkips(r) \/ EodCompletes(r)
        \/ EodRaises(r) \/ EodFails(r) \/ JobFails(r)
        \/ Upload(r) \/ UploadFails(r)
    \/ StartMonthly \/ UploadMonthly \/ MonthlyFails

Spec == Init /\ [][Next]_workflowVars
===============================================================================
