--------------------------- MODULE WorkflowProperties ---------------------------
(***************************************************************************)
(* What the workflows keep true, and what they do not.                     *)
(***************************************************************************)
EXTENDS Workflows

\* Every variable holds a value of its kind.
TypeOK ==
    /\ today \in 0..NSessions
    /\ researched \in 0..NUniverses
    /\ started \in 0..NRuns
    /\ successes \in Seq(Success)
    /\ erp \in Seq(ErpBatch)
    /\ daily \in [Runners -> [step : {"none", "restore", "eod", "failed", "upload"},
                              workflow : Names, db : Database]]
    /\ monthly \in [step : {"none", "upload"}, db : Database]

\* The databases the daily workflow uploaded form one history: each continues
\* the one before it, whatever was started by hand, researched, lost or failed
\* in between (the restore step with the concurrency group).
DailyHistoryIsOneChain ==
    \A i, j \in DOMAIN successes :
        /\ i < j
        /\ successes[i].workflow = "daily-market-cycle"
        /\ successes[j].workflow = "daily-market-cycle"
        => IsPrefix(successes[i].db.book, successes[j].db.book)

\* Whatever state the next run may start from, the ERP has every session of
\* it, with exactly the trades this state holds (the upload comes after
\* run-eod, which completes after its batch was accepted).
UploadedIsDelivered ==
    \A i \in DOMAIN successes : \A n \in DOMAIN successes[i].db.book :
        [session |-> successes[i].db.book[n], book |-> SubSeq(successes[i].db.book, 1, n)]
            \in Range(erp)

\* No state trades a session twice, however Yahoo's answers jump back and forth
\* between sessions: the guard at the start of run compares with the last
\* completed session only, the unique row of strategy_runs stops the others.
\* That the sessions are in order is not said: behind a lagging Yahoo they are
\* not.
NoSessionTwice ==
    \A i \in DOMAIN successes :
        LET book == successes[i].db.book
        IN  \A m, n \in DOMAIN book : book[m] = book[n] => m = n

\* A session whose run failed is not given up.  Its row stays in the runner's
\* database, where run-eod would take it for a replay, but in no database that a
\* later run can restore (the upload step runs only if run-eod succeeded).
FailedSessionsCanBeRetried ==
    \A i \in DOMAIN successes :
        Processed(successes[i].db) = Range(successes[i].db.book)

\* README: if the session is already complete, run-eod exits without creating
\* ERP events.  So the ERP gets one batch of a session at most.
OneBatchPerSession ==
    \A i, j \in DOMAIN erp : erp[i].session = erp[j].session => i = j
===============================================================================
