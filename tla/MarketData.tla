------------------------------- MODULE MarketData -------------------------------
(***************************************************************************)
(* YahooFinanceMarketDataService (market_data.py): history downloads the   *)
(* requested tickers batch by batch, each with retries; latest reduces a   *)
(* history to one price per ticker; update_cache merges a history into the *)
(* parquet file.                                                           *)
(*                                                                         *)
(* A process is one command after another, update-market-data or a request *)
(* for latest prices.  Yahoo is outside: it knows at most a bar per ticker *)
(* and day, late or never, and, since prices are asked for adjusted, a     *)
(* split or dividend changes every bar the ticker ever had.  A bar         *)
(* therefore is the number of the adjustment it was downloaded under, 0    *)
(* for no bar.                                                             *)
(***************************************************************************)
EXTENDS Integers, FiniteSets, Functions

CONSTANTS
    Clients,          \* the processes that use the service
    NTickers,         \* tickers 1..NTickers, in the order they are requested
    NDays,            \* bound: days on which a bar may appear
    NAdjustments,     \* bound: adjustments of all tickers together
    BatchSize,        \* yahoo_batch_size
    MaxRetries,       \* yahoo_max_retries
    Starts,           \* the first days update-market-data is given
    Window,           \* days that latest looks back: 14
    StaleAfter        \* days after which a price is stale: 4

Tickers == 1..NTickers
Days == 1..NDays
Bars == Tickers \X Days

ASSUME MarketAssumption ==
    /\ NTickers \in Nat \ {0} /\ NDays \in Nat \ {0} /\ NAdjustments \in Nat
    /\ BatchSize \in Nat \ {0} /\ MaxRetries \in Nat \ {0}
    /\ Starts \subseteq Days
    /\ Window \in Nat /\ StaleAfter \in Nat

VARIABLES
    day,              \* the calendar
    adjustment,       \* Yahoo's: how often each ticker's prices were adjusted
    cache,            \* daily_ohlcv.parquet
    temp,             \* daily_ohlcv.parquet.tmp
    pc, job           \* where each process is, and its local variables

marketVars == <<day, adjustment, cache, temp, pc, job>>

NoBars == [b \in Bars |-> 0]

\* A file: not there, being written (or left half written), or whole.
File == [state : {"absent", "torn", "whole"}, bars : [Bars -> Nat]]
Absent == [state |-> "absent", bars |-> NoBars]
Torn == [state |-> "torn", bars |-> NoBars]
Whole(bars) == [state |-> "whole", bars |-> bars]

\* asked is the date latest read when it was called; attempt counts the failed
\* downloads of the batch; missing is failures.
NoJob == [purpose |-> "none", size |-> 0, asked |-> 1, start |-> 1, next |-> 1,
          attempt |-> 0, frame |-> NoBars, missing |-> {}]

Init ==
    /\ day = 1
    /\ adjustment = [t \in Tickers |-> 1]
    /\ cache = Absent
    /\ temp = Absent
    /\ pc = [c \in Clients |-> "idle"]
    /\ job = [c \in Clients |-> NoJob]

Goto(c, label) == pc' = [pc EXCEPT ![c] = label]
Ends(c) == Goto(c, "idle") /\ job' = [job EXCEPT ![c] = NoJob]

-------------------------------------------------------------------------------
(***************************************************************************)
(* The calendar and Yahoo.                                                 *)
(***************************************************************************)

DayPasses ==
    /\ day < NDays
    /\ day' = day + 1
    /\ UNCHANGED <<adjustment, cache, temp, pc, job>>

Adjust(t) ==
    /\ SumFunction(adjustment) < NTickers + NAdjustments
    /\ adjustment' = [adjustment EXCEPT ![t] = @ + 1]
    /\ UNCHANGED <<day, cache, temp, pc, job>>

-------------------------------------------------------------------------------
(***************************************************************************)
(* history and _retry_download.                                            *)
(***************************************************************************)

Update(n, s) == [NoJob EXCEPT !.purpose = "cache", !.size = n, !.start = s]

\* latest dates its question before the download, however long that takes.
Question(n) ==
    [NoJob EXCEPT !.purpose = "latest", !.size = n, !.asked = day,
                  !.start = IF day > Window THEN day - Window ELSE 1]

Begin(c) ==
    /\ pc[c] = "idle"
    /\ \E n \in Tickers :
        \E request \in {Question(n)} \cup {Update(n, s) : s \in Starts} :
            job' = [job EXCEPT ![c] = request]
    /\ Goto(c, "download")
    /\ UNCHANGED <<day, adjustment, cache, temp>>

Requested(j) == 1..j.size

\* The batch at offset next - 1.
BatchOf(j) == {t \in Requested(j) : j.next <= t /\ t < j.next + BatchSize}

Downloaded(j) == j.next > j.size

\* Mutant: what a batch did not return is not noted.
BatchDoneUnnoted(j, got) ==
    [j EXCEPT !.next = @ + BatchSize, !.attempt = 0,
              !.frame = [b \in Bars |->
                  IF b \in got THEN adjustment[b[1]] ELSE @[b]]]

\* The batch is over: the rows there are join the frame, and the tickers without
\* any join the failures.
BatchDone(j, got) ==
    [j EXCEPT !.next = @ + BatchSize, !.attempt = 0,
              !.frame = [b \in Bars |->
                  IF b \in got THEN adjustment[b[1]] ELSE @[b]],
              !.missing = @ \cup (BatchOf(j) \ {b[1] : b \in got})]

\* The last day that is asked for: update_cache leaves it open.
LastDay(j) == IF j.purpose = "latest" THEN j.asked ELSE day

Wanted(j) == {b \in Bars : b[1] \in BatchOf(j) /\ b[2] \in j.start..LastDay(j)}

\* normalize: the rows of a response that can be used.  Yahoo may lag or leave a
\* day out, a column shape or a number may be unreadable, and dropna drops row by
\* row; it never makes a row that was not asked for.
Normalized(j) == SUBSET Wanted(j)

\* A non-empty response.
Download(c) ==
    /\ pc[c] = "download" /\ ~Downloaded(job[c])
    /\ \E got \in Normalized(job[c]) :
        job' = [job EXCEPT ![c] = BatchDone(@, got)]
    /\ UNCHANGED <<day, adjustment, cache, temp, pc>>

\* Mutant: the attempts are not counted.
RetryForever(c) ==
    /\ pc[c] = "download" /\ ~Downloaded(job[c])
    /\ job' = [job EXCEPT ![c].attempt = (@ + 1) % MaxRetries]
    /\ UNCHANGED <<day, adjustment, cache, temp, pc>>

\* Mutant: one attempt too many.
RetryOnceMore(c) ==
    /\ pc[c] = "download" /\ ~Downloaded(job[c])
    /\ job[c].attempt < MaxRetries
    /\ job' = [job EXCEPT ![c].attempt = @ + 1]
    /\ UNCHANGED <<day, adjustment, cache, temp, pc>>

\* The downloader raises or returns nothing, and is asked again.
Retry(c) ==
    /\ pc[c] = "download" /\ ~Downloaded(job[c])
    /\ job[c].attempt + 1 < MaxRetries
    /\ job' = [job EXCEPT ![c].attempt = @ + 1]
    /\ UNCHANGED <<day, adjustment, cache, temp, pc>>

OnlyBatch(j) == BatchOf(j) = Requested(j)

\* The last attempt failed.  That raises only if there is no other batch.
BatchFails(c) ==
    /\ pc[c] = "download" /\ ~Downloaded(job[c])
    /\ job[c].attempt + 1 = MaxRetries
    /\ IF OnlyBatch(job[c])
       THEN Goto(c, "raised") /\ UNCHANGED job
       ELSE job' = [job EXCEPT ![c] = BatchDone(@, {})] /\ UNCHANGED pc
    /\ UNCHANGED <<day, adjustment, cache, temp>>

\* Mutant: an empty result is a result.
HistoryEndsAlways(c) ==
    /\ pc[c] = "download" /\ Downloaded(job[c])
    /\ Goto(c, IF job[c].purpose = "cache" THEN "merge" ELSE "answer")
    /\ UNCHANGED <<day, adjustment, cache, temp, job>>

\* All batches are done; no usable row at all raises.
HistoryEnds(c) ==
    /\ pc[c] = "download" /\ Downloaded(job[c])
    /\ Goto(c, IF job[c].frame = NoBars THEN "raised"
               ELSE IF job[c].purpose = "cache" THEN "merge" ELSE "answer")
    /\ UNCHANGED <<day, adjustment, cache, temp, job>>

\* The exception reaches the caller, and the command exits with it.
Raises(c) ==
    /\ pc[c] = "raised"
    /\ Ends(c)
    /\ UNCHANGED <<day, adjustment, cache, temp>>

-------------------------------------------------------------------------------
(***************************************************************************)
(* latest and completed_session.                                           *)
(***************************************************************************)

SessionsOf(frame, t) == {d \in Days : frame[<<t, d>>] > 0}

Unavailable == [session |-> 0, available |-> FALSE, stale |-> TRUE]

\* The last row of a ticker, and whether it is too old for a question of that
\* day.
Latest(frame, t, asked) ==
    IF SessionsOf(frame, t) = {} THEN Unavailable
    ELSE LET last == CHOOSE d \in SessionsOf(frame, t) :
                        \A e \in SessionsOf(frame, t) : e <= d
         IN  [session |-> last, available |-> TRUE, stale |-> asked - last > StaleAfter]

\* Mutant: any price will do.
CompletedSessionOfAny(point) == point.session

\* What completed_session makes of the benchmark's price; 0 is None.
CompletedSession(point) ==
    IF point.available /\ ~point.stale THEN point.session ELSE 0

Answer(c) == [t \in Requested(job[c]) |-> Latest(job[c].frame, t, job[c].asked)]

Answers(c) ==
    /\ pc[c] = "answer"
    /\ Ends(c)
    /\ UNCHANGED <<day, adjustment, cache, temp>>

-------------------------------------------------------------------------------
(***************************************************************************)
(* update_cache.                                                           *)
(***************************************************************************)

\* Mutant: the rows already there are left out.
MergedNewOnly(old, new) == new

\* drop_duplicates(["Date", "Ticker"], keep="last") of the old rows followed by
\* the new ones.
Merged(old, new) == [b \in Bars |-> IF new[b] > 0 THEN new[b] ELSE old[b]]

\* Reads the file if it is there.  A file that is not whole cannot be read.
ReadCache(c) ==
    /\ pc[c] = "merge"
    /\ IF cache.state = "torn"
       THEN Goto(c, "raised") /\ UNCHANGED job
       ELSE /\ job' = [job EXCEPT ![c].frame = Merged(cache.bars, @)]
            /\ Goto(c, "write")
    /\ UNCHANGED <<day, adjustment, cache, temp>>

\* Mutant: the rows are written to the destination itself.
OpenDestination(c) ==
    /\ pc[c] = "write"
    /\ cache' = Torn
    /\ temp' = Torn
    /\ Goto(c, "writing")
    /\ UNCHANGED <<day, adjustment, job>>

\* Opens, and by that empties, the temporary file; both updates use one name.
OpenTemp(c) ==
    /\ pc[c] = "write"
    /\ temp' = Torn
    /\ Goto(c, "writing")
    /\ UNCHANGED <<day, adjustment, cache, job>>

WriteTemp(c) ==
    /\ pc[c] = "writing"
    /\ temp' = Whole(job[c].frame)
    /\ Goto(c, "replace")
    /\ UNCHANGED <<day, adjustment, cache, job>>

Replace(c) ==
    /\ pc[c] = "replace"
    /\ IF temp.state = "absent"
       THEN UNCHANGED <<cache, temp>>
       ELSE cache' = temp /\ temp' = Absent
    /\ Ends(c)
    /\ UNCHANGED <<day, adjustment>>

\* The process is killed, or a write raises.
Crash(c) ==
    /\ pc[c] # "idle"
    /\ Ends(c)
    /\ UNCHANGED <<day, adjustment, cache, temp>>

-------------------------------------------------------------------------------

Run(c) ==
    \/ Download(c) \/ Retry(c) \/ BatchFails(c) \/ HistoryEnds(c) \/ Raises(c)
    \/ Answers(c)
    \/ ReadCache(c) \/ OpenTemp(c) \/ WriteTemp(c) \/ Replace(c)

Next ==
    \/ DayPasses
    \/ \E t \in Tickers : Adjust(t)
    \/ \E c \in Clients : Begin(c) \/ Run(c) \/ Crash(c)

\* Yahoo answers, fails or times out; a command that is not killed runs on.
Spec == Init /\ [][Next]_marketVars /\ \A c \in Clients : WF_marketVars(Run(c))
===============================================================================
