---------------------------- MODULE MarketProperties ----------------------------
(***************************************************************************)
(* What the market-data service must keep true.                            *)
(***************************************************************************)
EXTENDS MarketData

Labels == {"idle", "download", "raised", "answer", "merge", "write", "writing",
           "replace"}

Job == [purpose : {"none", "cache", "latest"}, size : 0..NTickers, asked : Days,
        start : Days, next : Nat, attempt : 0..(MaxRetries - 1), frame : [Bars -> Nat],
        missing : SUBSET Tickers]

\* Every variable holds a value of the kind its file, column or local has.
TypeOK ==
    /\ day \in Days
    /\ adjustment \in [Tickers -> Nat]
    /\ cache \in File /\ temp \in File
    /\ pc \in [Clients -> Labels]
    /\ job \in [Clients -> Job]

\* No batch is suppressed: when history returns, every requested ticker has
\* rows or is listed as unavailable, none has both, and there is at least one
\* row (the docstring of the class; the batch loop and its except clause).
NothingSuppressed ==
    \A c \in Clients : pc[c] \in {"answer", "merge"} =>
        /\ job[c].frame # NoBars
        /\ \A t \in Requested(job[c]) :
            (SessionsOf(job[c].frame, t) = {}) <=> (t \in job[c].missing)

\* The session the daily cycle would claim is the benchmark's newest bar among
\* those downloaded, and lies at most StaleAfter days before the day on which
\* the prices were asked for, which is read before the download (latest: today,
\* history, age).  An older bar, or a benchmark that could not be had, gives no
\* session.  How old the session is once the download is over, is not said.
SessionIsRecent ==
    \A c \in Clients : pc[c] = "answer" =>
        \A t \in Requested(job[c]) :
            LET s == CompletedSession(Answer(c)[t])
                asked == job[c].asked
                bars == SessionsOf(job[c].frame, t)
            IN  /\ s > 0 => /\ s \in bars /\ \A d \in bars : d <= s
                            /\ s \in (asked - StaleAfter)..asked
                /\ s = 0 => t \in job[c].missing \/ \A d \in bars : d < asked - StaleAfter
                /\ t \in job[c].missing => s = 0

\* The parquet file can be read at any moment: an update that is killed
\* leaves the old file or the new one (to_parquet to a temporary file, which
\* then replaces the destination).  One update at a time is assumed.
CacheIsWhole == cache.state # "torn"

\* An update loses no row and puts back no older adjustment, whatever part of
\* the download failed.
CacheOnlyImproves == [][\A b \in Bars : cache.bars[b] <= cache'.bars[b]]_cache

\* Every command comes to an end, however often Yahoo fails.
CommandsEnd == \A c \in Clients : (pc[c] # "idle") ~> (pc[c] = "idle")
===============================================================================
