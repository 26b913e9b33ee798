------------------------------ MODULE MarketProofs ------------------------------
(***************************************************************************)
(* The market-data service, for any number of processes, tickers, days and *)
(* adjustments: no batch is suppressed, and a session was recent on the    *)
(* day it was asked for; and, when updates run one at a time, the parquet  *)
(* file is always whole, loses no row and gets no older one back.          *)
(***************************************************************************)
EXTENDS MarketProperties, SumTheorems, TLAPS

\* At most one process is updating the file; any number may ask for prices.
OneUpdate ==
    \A c, d \in Clients :
        job[c].purpose = "cache" /\ job[d].purpose = "cache" => c = d

(***************************************************************************)
(* The inductive invariants.                                               *)
(***************************************************************************)

Updating == {"merge", "write", "writing", "replace"}

\* What a process has by the time it is at its label.  No row is later than the
\* question, the batches done have noted every ticker, and the batches to come
\* have left no trace.
JobOK(c) ==
    /\ pc[c] # "idle" =>
          job[c].purpose # "none" /\ job[c].size \in Tickers
    /\ pc[c] \in Updating => job[c].purpose = "cache"
    /\ pc[c] = "answer" => job[c].purpose = "latest"
    /\ job[c].purpose = "latest" => \A b \in Bars :
          job[c].frame[b] > 0 => b[2] <= job[c].asked
    /\ pc[c] \in {"download", "answer", "merge"} => \A t \in Requested(job[c]) :
          IF t < job[c].next
          THEN (SessionsOf(job[c].frame, t) = {}) <=> (t \in job[c].missing)
          ELSE SessionsOf(job[c].frame, t) = {} /\ t \notin job[c].missing
    /\ pc[c] \in {"answer", "merge"} => Downloaded(job[c]) /\ job[c].frame # NoBars

Inv ==
    /\ TypeOK
    /\ \A t \in Tickers : adjustment[t] > 0
    /\ \A c \in Clients : JobOK(c)

\* No bar is newer than Yahoo's adjustment.
Current(bars) == \A b \in Bars : bars[b] <= adjustment[b[1]]

\* Rows that are there in new are not older than in old.
NotOlder(old, new) == \A b \in Bars : new[b] > 0 => old[b] <= new[b]

\* What an update that is the only one has in hand.
UpdateOK(c) ==
    /\ Current(job[c].frame)
    /\ pc[c] \in {"download", "merge"} => NotOlder(cache.bars, job[c].frame)
    /\ pc[c] \in {"write", "writing", "replace"} =>
          \A b \in Bars : cache.bars[b] <= job[c].frame[b]
    /\ pc[c] = "replace" => temp = Whole(job[c].frame)

CacheInv ==
    /\ CacheIsWhole
    /\ Current(cache.bars)
    /\ \A c \in Clients : job[c].purpose = "cache" => UpdateOK(c)

-------------------------------------------------------------------------------
(***************************************************************************)
(* What the steps do to the process that takes them.                       *)
(***************************************************************************)

\* The other processes, whose locals a step of c leaves alone.
Others(c) == \A d \in Clients : d # c => pc'[d] = pc[d] /\ job'[d] = job[d]

\* The empty job and the empty frame have their types.
LEMMA NoJobIsJob == MarketAssumption => NoJob \in Job /\ NoBars \in [Bars -> Nat]
<1> SUFFICES ASSUME MarketAssumption PROVE NoJob \in Job /\ NoBars \in [Bars -> Nat]
    OBVIOUS
<1>1. NoBars \in [Bars -> Nat]
      BY DEF NoBars
<1>2. 0 \in 0..NTickers /\ 1 \in Days /\ 0 \in 0..(MaxRetries - 1)
      BY DEF MarketAssumption, Days
<1> QED BY <1>1, <1>2 DEF NoJob, Job

\* The requested tickers of a command are tickers.
LEMMA BatchIsTickers ==
    ASSUME NEW j \in Job
    PROVE  Requested(j) \subseteq Tickers /\ BatchOf(j) \subseteq Requested(j)
BY MarketAssumption DEF Requested, BatchOf, Tickers, Job, MarketAssumption

\* The tickers that rows are of.
Of(rows) == {b[1] : b \in rows}

\* The rows of a response are of the batch, and of days asked for.
LEMMA RowsOfBatch ==
    ASSUME NEW j \in Job, NEW got \in Normalized(j)
    PROVE  /\ Of(got) \in SUBSET BatchOf(j)
           /\ \A b \in got : b \in Bars /\ b[2] \in j.start..LastDay(j)
BY DEF Normalized, Wanted, Of

\* A batch that is over, column by column.
LEMMA BatchDoneIs ==
    ASSUME TypeOK, NEW j \in Job, NEW got \in Normalized(j)
    PROVE  /\ BatchDone(j, got) \in Job
           /\ BatchDone(j, got).purpose = j.purpose
           /\ BatchDone(j, got).size = j.size
           /\ BatchDone(j, got).asked = j.asked
           /\ BatchDone(j, got).next = j.next + BatchSize
           /\ BatchDone(j, got).missing = j.missing \cup (BatchOf(j) \ Of(got))
           /\ \A b \in Bars : BatchDone(j, got).frame[b] =
                  IF b \in got THEN adjustment[b[1]] ELSE j.frame[b]
<1> DEFINE rows == [b \in Bars |-> IF b \in got THEN adjustment[b[1]] ELSE j.frame[b]]
           gone == j.missing \cup (BatchOf(j) \ Of(got))
<1>1. rows \in [Bars -> Nat]
  <2>1. \A b \in Bars : b[1] \in Tickers
        BY DEF Bars
  <2>2. j.frame \in [Bars -> Nat] /\ adjustment \in [Tickers -> Nat]
        BY DEF Job, TypeOK
  <2> QED BY <2>1, <2>2
<1>2. gone \in SUBSET Tickers
      BY BatchIsTickers DEF Job
<1>3. j.next + BatchSize \in Nat /\ 0 \in 0..(MaxRetries - 1)
      BY MarketAssumption DEF MarketAssumption, Job
<1>4. BatchDone(j, got) = [j EXCEPT !.next = j.next + BatchSize, !.attempt = 0,
                                    !.frame = rows, !.missing = gone]
      BY DEF BatchDone, Of
<1>5. \A b \in Bars : rows[b] = IF b \in got THEN adjustment[b[1]] ELSE j.frame[b]
      OBVIOUS
<1> HIDE DEF rows, gone
<1>6. /\ BatchDone(j, got) \in Job
      /\ BatchDone(j, got).purpose = j.purpose
      /\ BatchDone(j, got).size = j.size
      /\ BatchDone(j, got).asked = j.asked
      /\ BatchDone(j, got).next = j.next + BatchSize
      /\ BatchDone(j, got).missing = gone
      /\ BatchDone(j, got).frame = rows
      BY <1>1, <1>2, <1>3, <1>4 DEF Job
<1> QED BY <1>5, <1>6 DEF gone

\* A command begins.
LEMMA BeginDoes ==
    ASSUME TypeOK, NEW c \in Clients, Begin(c)
    PROVE  /\ Others(c) /\ UNCHANGED <<day, adjustment, cache, temp>>
           /\ pc'[c] = "download" /\ pc' \in [Clients -> Labels]
           /\ job' \in [Clients -> Job]
           /\ job'[c].purpose \in {"cache", "latest"}
           /\ job'[c].size \in Tickers
           /\ job'[c].next = 1 /\ job'[c].frame = NoBars /\ job'[c].missing = {}
<1> DEFINE Fits(j) ==
       /\ j \in Job /\ j.purpose \in {"cache", "latest"} /\ j.size \in Tickers
       /\ j.next = 1 /\ j.frame = NoBars /\ j.missing = {}
<1>1. PICK n \in Tickers :
          \E request \in {Question(n)} \cup {Update(n, s) : s \in Starts} :
              job' = [job EXCEPT ![c] = request]
      BY DEF Begin
<1>8. PICK j \in {Question(n)} \cup {Update(n, s) : s \in Starts} :
          job' = [job EXCEPT ![c] = j]
      BY <1>1
<1>2. NoJob \in Job /\ NoJob.next = 1 /\ NoJob.frame = NoBars /\ NoJob.missing = {}
      BY NoJobIsJob, MarketAssumption DEF NoJob
<1>3. Fits(j)
  <2>1. n \in 0..NTickers
        BY MarketAssumption DEF MarketAssumption, Tickers
  <2>2. CASE j = Question(n)
    <3> DEFINE first == IF day > Window THEN day - Window ELSE 1
    <3>1. day \in Days /\ first \in Days
          BY MarketAssumption DEF MarketAssumption, TypeOK, Days
    <3> HIDE DEF first
    <3>2. j = [NoJob EXCEPT !.purpose = "latest", !.size = n, !.asked = day, !.start = first]
          BY <2>2 DEF Question, first
    <3> QED BY <1>2, <2>1, <3>1, <3>2 DEF Job
  <2>3. CASE \E s \in Starts : j = Update(n, s)
    <3>1. PICK s \in Starts : j = Update(n, s)
          BY <2>3
    <3>2. s \in Days
          BY MarketAssumption DEF MarketAssumption
    <3> QED BY <1>2, <2>1, <3>1, <3>2 DEF Job, Update
  <2> QED BY <2>2, <2>3
<1>4. job' = [job EXCEPT ![c] = j] /\ job \in [Clients -> Job]
      BY <1>8 DEF TypeOK
<1>5. /\ job' \in [Clients -> Job] /\ job'[c] = j
      /\ \A d \in Clients : d # c => job'[d] = job[d]
      BY <1>3, <1>4
<1>6. /\ pc'[c] = "download" /\ pc' \in [Clients -> Labels]
      /\ \A d \in Clients : d # c => pc'[d] = pc[d]
      BY DEF Begin, Goto, TypeOK, Labels
<1>7. UNCHANGED <<day, adjustment, cache, temp>>
      BY DEF Begin
<1> QED BY <1>3, <1>5, <1>6, <1>7 DEF Others

\* A batch is over: downloaded, or given up with another one to come.
LEMMA BatchOver ==
    ASSUME TypeOK, NEW c \in Clients, NEW got \in Normalized(job[c]),
           job' = [job EXCEPT ![c] = BatchDone(@, got)],
           UNCHANGED <<day, adjustment, cache, temp, pc>>
    PROVE  Others(c) /\ job' \in [Clients -> Job] /\ job'[c] = BatchDone(job[c], got)
<1>1. job[c] \in Job /\ job \in [Clients -> Job]
      BY DEF TypeOK
<1>2. BatchDone(job[c], got) \in Job
      BY <1>1, BatchDoneIs
<1> QED BY <1>1, <1>2 DEF Others

\* Another attempt.
LEMMA RetryDoes ==
    ASSUME TypeOK, NEW c \in Clients, Retry(c)
    PROVE  /\ Others(c) /\ UNCHANGED <<day, adjustment, cache, temp, pc>>
           /\ job' \in [Clients -> Job]
           /\ job'[c].purpose = job[c].purpose
           /\ job'[c].size = job[c].size /\ job'[c].asked = job[c].asked
           /\ job'[c].next = job[c].next /\ job'[c].frame = job[c].frame
           /\ job'[c].missing = job[c].missing
<1> DEFINE j == [job[c] EXCEPT !.attempt = @ + 1]
<1>1. job[c] \in Job /\ job \in [Clients -> Job]
      BY DEF TypeOK
<1>2. job[c].attempt + 1 \in 0..(MaxRetries - 1)
      BY <1>1, MarketAssumption DEF Retry, Job, MarketAssumption
<1>3. /\ j \in Job /\ j.purpose = job[c].purpose /\ j.size = job[c].size
      /\ j.asked = job[c].asked /\ j.next = job[c].next
      /\ j.frame = job[c].frame /\ j.missing = job[c].missing
      BY <1>1, <1>2 DEF Job
<1>4. job' = [job EXCEPT ![c] = j] /\ UNCHANGED <<day, adjustment, cache, temp, pc>>
      BY DEF Retry
<1> HIDE DEF j
<1> QED BY <1>1, <1>3, <1>4 DEF Others

\* The control of a process moves and its locals stay.
LEMMA GotoDoes ==
    ASSUME TypeOK, NEW c \in Clients, NEW l \in Labels, Goto(c, l), UNCHANGED job
    PROVE  /\ Others(c) /\ pc' \in [Clients -> Labels] /\ job' \in [Clients -> Job]
           /\ pc'[c] = l /\ job'[c] = job[c]
BY DEF TypeOK, Goto, Others

\* A command ends, as it should or not.
LEMMA EndsDoes ==
    ASSUME TypeOK, NEW c \in Clients, Ends(c)
    PROVE  /\ Others(c) /\ pc' \in [Clients -> Labels] /\ job' \in [Clients -> Job]
           /\ pc'[c] = "idle" /\ job'[c] = NoJob
<1>1. NoJob \in Job /\ "idle" \in Labels
      BY NoJobIsJob, MarketAssumption DEF Labels
<1> QED BY <1>1 DEF Ends, Goto, TypeOK, Others

\* The old rows are read and the new ones laid over them.
LEMMA ReadDoes ==
    ASSUME TypeOK, NEW c \in Clients, ReadCache(c), cache.state # "torn"
    PROVE  /\ Others(c) /\ UNCHANGED <<day, adjustment, cache, temp>>
           /\ pc' \in [Clients -> Labels] /\ pc'[c] = "write"
           /\ job' \in [Clients -> Job]
           /\ job'[c].purpose = job[c].purpose
           /\ job'[c].size = job[c].size /\ job'[c].asked = job[c].asked
           /\ \A b \in Bars : job'[c].frame[b] =
                  IF job[c].frame[b] > 0 THEN job[c].frame[b] ELSE cache.bars[b]
<1> DEFINE m == Merged(cache.bars, job[c].frame)
           j == [job[c] EXCEPT !.frame = m]
<1>1. /\ job[c] \in Job /\ job \in [Clients -> Job]
      /\ job[c].frame \in [Bars -> Nat] /\ cache.bars \in [Bars -> Nat]
      BY DEF TypeOK, Job, File
<1>2. /\ m \in [Bars -> Nat]
      /\ \A b \in Bars : m[b] =
             IF job[c].frame[b] > 0 THEN job[c].frame[b] ELSE cache.bars[b]
      BY <1>1 DEF Merged
<1>3. job' = [job EXCEPT ![c] = j] /\ Goto(c, "write")
      BY DEF ReadCache
<1> HIDE DEF m
<1>4. /\ j \in Job /\ j.purpose = job[c].purpose /\ j.size = job[c].size
      /\ j.asked = job[c].asked /\ j.frame = m
      BY <1>1, <1>2 DEF Job
<1> HIDE DEF j
<1>5. /\ job' \in [Clients -> Job] /\ job'[c] = j
      /\ \A d \in Clients : d # c => job'[d] = job[d]
      BY <1>1, <1>3, <1>4
<1>6. /\ pc'[c] = "write" /\ pc' \in [Clients -> Labels]
      /\ \A d \in Clients : d # c => pc'[d] = pc[d]
      BY <1>3 DEF Goto, TypeOK, Labels
<1>7. UNCHANGED <<day, adjustment, cache, temp>>
      BY DEF ReadCache
<1> QED BY <1>2, <1>4, <1>5, <1>6, <1>7 DEF Others

\* A whole file is one, and so is an empty one.
LEMMA Files ==
    ASSUME NEW bars \in [Bars -> Nat]
    PROVE  /\ Whole(bars) \in File /\ Whole(bars).state = "whole"
           /\ Whole(bars).bars = bars
           /\ Torn \in File /\ Absent \in File
           /\ Absent.state = "absent" /\ Absent.bars = NoBars
BY NoJobIsJob, MarketAssumption DEF Whole, Torn, Absent, File

-------------------------------------------------------------------------------
(***************************************************************************)
(* Types, and what history returns.                                        *)
(***************************************************************************)

\* JobOK survives in a process that a step does not touch.
LEMMA OthersOK ==
    ASSUME Inv, NEW c \in Clients, Others(c), JobOK(c)'
    PROVE  \A d \in Clients : JobOK(d)'
<1> SUFFICES ASSUME NEW d \in Clients, d # c PROVE JobOK(d)'
    OBVIOUS
<1>1. JobOK(d) /\ pc'[d] = pc[d] /\ job'[d] = job[d]
      BY DEF Inv, Others
<1> QED BY <1>1 DEF JobOK, Requested, Downloaded

\* A download leaves a row of every ticker it got, and none of any other.
LEMMA BatchNotes ==
    ASSUME Inv, NEW j \in Job, NEW got \in Normalized(j), NEW t \in Requested(j),
           IF t < j.next THEN (SessionsOf(j.frame, t) = {}) <=> (t \in j.missing)
           ELSE SessionsOf(j.frame, t) = {} /\ t \notin j.missing
    PROVE  LET k == BatchDone(j, got)
           IN  IF t < k.next THEN (SessionsOf(k.frame, t) = {}) <=> (t \in k.missing)
               ELSE SessionsOf(k.frame, t) = {} /\ t \notin k.missing
<1> DEFINE k == BatchDone(j, got)
<1>1. /\ k.next = j.next + BatchSize
      /\ k.missing = j.missing \cup (BatchOf(j) \ Of(got))
      /\ \A b \in Bars : k.frame[b] = IF b \in got THEN adjustment[b[1]] ELSE j.frame[b]
      BY BatchDoneIs DEF Inv
<1>2. Of(got) \subseteq BatchOf(j) /\ t \in Tickers /\ t \in Nat
      BY BatchIsTickers, RowsOfBatch DEF Requested, Job
<1>3. /\ j.next \in Nat /\ BatchSize \in Nat \ {0}
      /\ t \in BatchOf(j) <=> j.next <= t /\ t < j.next + BatchSize
      BY MarketAssumption DEF BatchOf, Job, MarketAssumption
<1> HIDE DEF k
<1>4. \A d \in Days : k.frame[<<t, d>>] =
          IF <<t, d>> \in got THEN adjustment[t] ELSE j.frame[<<t, d>>]
      BY <1>1, <1>2 DEF Bars
<1>5. CASE t \in Of(got)
  <2>1. PICK b \in got : b[1] = t
        BY <1>5 DEF Of
  <2>2. b[2] \in Days /\ b = <<t, b[2]>>
        BY <2>1, RowsOfBatch DEF Bars
  <2>3. k.frame[<<t, b[2]>>] > 0
        BY <1>2, <1>4, <2>1, <2>2 DEF Inv
  <2>4. SessionsOf(k.frame, t) # {}
        BY <2>2, <2>3 DEF SessionsOf
  <2>5. t \notin k.missing /\ t < k.next
        BY <1>1, <1>2, <1>3, <1>5
  <2> QED BY <2>4, <2>5 DEF k
<1>6. CASE t \notin Of(got)
  <2>1. SessionsOf(k.frame, t) = SessionsOf(j.frame, t)
    <3>1. \A d \in Days : <<t, d>> \notin got
          BY <1>6 DEF Of
    <3> QED BY <1>4, <3>1 DEF SessionsOf
  <2>2. CASE t \in BatchOf(j)
        BY <1>1, <1>2, <1>3, <1>6, <2>1, <2>2 DEF k
  <2>3. CASE t \notin BatchOf(j)
        BY <1>1, <1>2, <1>3, <1>6, <2>1, <2>3 DEF k
  <2> QED BY <2>2, <2>3
<1> QED BY <1>5, <1>6

\* A batch that is over leaves a process that is downloading in order.
LEMMA BatchKeepsInv ==
    ASSUME Inv, NEW c \in Clients, pc[c] = "download", NEW got \in Normalized(job[c]),
           job' = [job EXCEPT ![c] = BatchDone(@, got)],
           UNCHANGED <<day, adjustment, cache, temp, pc>>
    PROVE  Inv'
<1> DEFINE j == job[c]
           k == BatchDone(j, got)
<1>1. j \in Job /\ TypeOK /\ JobOK(c)
      BY DEF Inv, TypeOK
<1>2. Others(c) /\ job' \in [Clients -> Job] /\ job'[c] = k
      BY <1>1, BatchOver
<1>3. k \in Job /\ k.purpose = j.purpose /\ k.size = j.size /\ k.asked = j.asked
      BY <1>1, BatchDoneIs
<1>4. \A t \in Requested(j) :
          IF t < k.next THEN (SessionsOf(k.frame, t) = {}) <=> (t \in k.missing)
          ELSE SessionsOf(k.frame, t) = {} /\ t \notin k.missing
  <2> SUFFICES ASSUME NEW t \in Requested(j)
               PROVE  IF t < k.next
                      THEN (SessionsOf(k.frame, t) = {}) <=> (t \in k.missing)
                      ELSE SessionsOf(k.frame, t) = {} /\ t \notin k.missing
      OBVIOUS
  <2>1. IF t < j.next THEN (SessionsOf(j.frame, t) = {}) <=> (t \in j.missing)
        ELSE SessionsOf(j.frame, t) = {} /\ t \notin j.missing
        BY <1>1 DEF JobOK
  <2> QED BY <1>1, <2>1, BatchNotes
<1> HIDE DEF k
<1>5. Requested(k) = Requested(j)
      BY <1>3 DEF Requested
<1>6. ASSUME k.purpose = "latest", NEW b \in Bars, k.frame[b] > 0
      PROVE  b[2] <= k.asked
  <2>1. k.frame[b] = IF b \in got THEN adjustment[b[1]] ELSE j.frame[b]
        BY <1>1, BatchDoneIs DEF k
  <2>2. CASE b \in got
    <3>1. b[2] \in j.start..j.asked
          BY <1>1, <1>3, <1>6, <2>2, RowsOfBatch DEF LastDay
    <3> QED BY <1>3, <3>1
  <2>3. CASE b \notin got
        BY <1>1, <1>3, <1>6, <2>1, <2>3 DEF JobOK
  <2> QED BY <2>2, <2>3
<1>8. JobOK(c)'
  <2>1. pc'[c] = "download" /\ job'[c] = k
        BY <1>2
  <2> QED BY <1>1, <1>3, <1>4, <1>5, <1>6, <2>1 DEF JobOK, Requested, Updating
<1>7. TypeOK'
      BY <1>1, <1>2 DEF TypeOK
<1> QED BY <1>2, <1>7, <1>8, OthersOK DEF Inv

\* At first nothing has been requested.
LEMMA InvHoldsAtFirst == Init => Inv
<1> SUFFICES ASSUME Init PROVE Inv
    OBVIOUS
<1>1. TypeOK
  <2>1. day \in Days /\ adjustment \in [Tickers -> Nat] /\ Absent \in File
        BY Files, NoJobIsJob, MarketAssumption DEF Init, Days, MarketAssumption
  <2> QED BY <2>1, NoJobIsJob, MarketAssumption DEF Init, TypeOK, Labels
<1>2. \A t \in Tickers : adjustment[t] > 0
      BY DEF Init
<1>3. \A c \in Clients : JobOK(c)
      BY DEF Init, JobOK, Updating, NoJob
<1> QED BY <1>1, <1>2, <1>3 DEF Inv

\* Every step keeps the invariant.
LEMMA StepKeepsInv == Inv /\ [Next]_marketVars => Inv'
<1> SUFFICES ASSUME Inv, [Next]_marketVars PROVE Inv'
    OBVIOUS
<1> USE DEF Inv
<1>1. TypeOK
      OBVIOUS
<1>2. CASE DayPasses
  <2>1. day' \in Days
        BY <1>1, <1>2, MarketAssumption DEF DayPasses, TypeOK, Days, MarketAssumption
  <2>2. TypeOK'
        BY <1>1, <1>2, <2>1 DEF DayPasses, TypeOK
  <2> QED BY <1>2, <2>2 DEF DayPasses, JobOK, Requested, Downloaded
<1>3. CASE \E t \in Tickers : Adjust(t)
  <2>1. PICK t \in Tickers : Adjust(t)
        BY <1>3
  <2>2. adjustment' \in [Tickers -> Nat] /\ \A u \in Tickers : adjustment'[u] > 0
        BY <1>1, <2>1 DEF Adjust, TypeOK
  <2>3. TypeOK'
        BY <1>1, <2>1, <2>2 DEF Adjust, TypeOK
  <2> QED BY <2>1, <2>2, <2>3 DEF Adjust, JobOK, Requested, Downloaded
<1>4. ASSUME NEW c \in Clients, Begin(c) PROVE Inv'
  <2>1. /\ Others(c) /\ UNCHANGED <<day, adjustment, cache, temp>>
        /\ pc'[c] = "download" /\ pc' \in [Clients -> Labels]
        /\ job' \in [Clients -> Job]
        /\ job'[c].purpose \in {"cache", "latest"}
        /\ job'[c].size \in Tickers
        /\ job'[c].next = 1 /\ job'[c].frame = NoBars /\ job'[c].missing = {}
        BY <1>1, <1>4, BeginDoes
  <2>2. TypeOK'
        BY <1>1, <2>1 DEF TypeOK
  <2>3. /\ \A t \in Tickers : SessionsOf(NoBars, t) = {}
        /\ \A b \in Bars : ~(NoBars[b] > 0)
        BY DEF SessionsOf, NoBars, Bars
  <2>4. \A t \in Requested(job'[c]) : t \in Tickers /\ ~(t < 1)
        BY <2>1, BatchIsTickers DEF Tickers
  <2>5. JobOK(c)'
        BY <2>1, <2>3, <2>4 DEF JobOK, Requested, Updating
  <2> QED BY <2>1, <2>2, <2>5, OthersOK
<1>5. ASSUME NEW c \in Clients, Download(c) PROVE Inv'
  <2>1. pc[c] = "download"
        BY <1>5 DEF Download
  <2>2. PICK got \in Normalized(job[c]) : job' = [job EXCEPT ![c] = BatchDone(@, got)]
        BY <1>5 DEF Download
  <2> QED BY <1>5, <2>1, <2>2, BatchKeepsInv DEF Download
<1>6. ASSUME NEW c \in Clients, Retry(c) PROVE Inv'
  <2>1. /\ Others(c) /\ UNCHANGED <<day, adjustment, cache, temp, pc>>
        /\ job' \in [Clients -> Job]
        /\ job'[c].purpose = job[c].purpose
        /\ job'[c].size = job[c].size /\ job'[c].asked = job[c].asked
        /\ job'[c].next = job[c].next /\ job'[c].frame = job[c].frame
        /\ job'[c].missing = job[c].missing
        BY <1>1, <1>6, RetryDoes
  <2>2. TypeOK'
        BY <1>1, <2>1 DEF TypeOK
  <2>3. JobOK(c)'
        BY <2>1 DEF JobOK, Requested, Downloaded
  <2> QED BY <2>1, <2>2, <2>3, OthersOK
<1>7. ASSUME NEW c \in Clients, BatchFails(c) PROVE Inv'
  <2>1. CASE OnlyBatch(job[c])
    <3>1. "raised" \in Labels /\ Goto(c, "raised") /\ UNCHANGED job
          BY <1>7, <2>1 DEF BatchFails, Labels
    <3>2. /\ Others(c) /\ pc' \in [Clients -> Labels] /\ job' \in [Clients -> Job]
          /\ pc'[c] = "raised" /\ job'[c] = job[c]
          BY <1>1, <3>1, GotoDoes
    <3>3. TypeOK'
          BY <1>1, <1>7, <3>2 DEF TypeOK, BatchFails
    <3>4. JobOK(c)'
      <4>1. pc[c] # "idle" /\ JobOK(c)
            BY <1>7 DEF BatchFails
      <4> QED BY <3>2, <4>1 DEF JobOK, Updating
    <3> QED BY <1>7, <3>2, <3>3, <3>4, OthersOK DEF BatchFails
  <2>2. CASE ~OnlyBatch(job[c])
    <3>1. {} \in Normalized(job[c]) /\ pc[c] = "download"
          BY <1>7 DEF Normalized, BatchFails
    <3>2. /\ job' = [job EXCEPT ![c] = BatchDone(@, {})]
          /\ UNCHANGED <<day, adjustment, cache, temp, pc>>
          BY <1>7, <2>2 DEF BatchFails
    <3> QED BY <3>1, <3>2, BatchKeepsInv
  <2> QED BY <2>1, <2>2
<1>8. ASSUME NEW c \in Clients, HistoryEnds(c) PROVE Inv'
  <2> DEFINE l == IF job[c].frame = NoBars THEN "raised"
                  ELSE IF job[c].purpose = "cache" THEN "merge" ELSE "answer"
  <2>1. l \in Labels /\ Goto(c, l) /\ UNCHANGED job
        BY <1>8 DEF HistoryEnds, Labels
  <2>2. /\ Others(c) /\ pc' \in [Clients -> Labels] /\ job' \in [Clients -> Job]
        /\ pc'[c] = l /\ job'[c] = job[c]
        BY <1>1, <2>1, GotoDoes
  <2>3. TypeOK'
        BY <1>1, <1>8, <2>2 DEF TypeOK, HistoryEnds
  <2>4. JobOK(c)'
    <3>1. pc[c] = "download" /\ Downloaded(job[c]) /\ JobOK(c)
          BY <1>8 DEF HistoryEnds
    <3>2. job[c].purpose \in {"cache", "latest"}
          BY <1>1, <3>1 DEF JobOK, TypeOK, Job
    <3>3. l = "answer" => job[c].purpose = "latest"
          BY <3>2
    <3>4. l \in {"raised", "merge", "answer"} /\ (l = "merge" => job[c].purpose = "cache")
             /\ (l # "raised" => job[c].frame # NoBars)
          OBVIOUS
    <3> HIDE DEF l
    <3> QED BY <2>2, <3>1, <3>3, <3>4 DEF JobOK, Updating, Requested, Downloaded
  <2> QED BY <1>8, <2>2, <2>3, <2>4, OthersOK DEF HistoryEnds
<1>9. ASSUME NEW c \in Clients, Ends(c), UNCHANGED <<day, adjustment>>,
             cache' \in File, temp' \in File
      PROVE  Inv'
  <2>1. /\ Others(c) /\ pc' \in [Clients -> Labels] /\ job' \in [Clients -> Job]
        /\ pc'[c] = "idle" /\ job'[c] = NoJob
        BY <1>1, <1>9, EndsDoes
  <2>2. TypeOK'
        BY <1>1, <1>9, <2>1 DEF TypeOK
  <2>3. JobOK(c)'
        BY <2>1 DEF JobOK, Updating, NoJob
  <2> QED BY <1>9, <2>1, <2>2, <2>3, OthersOK
<1>10. ASSUME NEW c \in Clients, ReadCache(c) PROVE Inv'
  <2>1. pc[c] = "merge" /\ JobOK(c)
        BY <1>10 DEF ReadCache
  <2>2. CASE cache.state = "torn"
    <3>1. "raised" \in Labels /\ Goto(c, "raised") /\ UNCHANGED job
          BY <1>10, <2>2 DEF ReadCache, Labels
    <3>2. /\ Others(c) /\ pc' \in [Clients -> Labels] /\ job' \in [Clients -> Job]
          /\ pc'[c] = "raised" /\ job'[c] = job[c]
          BY <1>1, <3>1, GotoDoes
    <3>3. TypeOK'
          BY <1>1, <1>10, <3>2 DEF TypeOK, ReadCache
    <3>4. JobOK(c)'
          BY <2>1, <3>2 DEF JobOK, Updating
    <3> QED BY <1>10, <3>2, <3>3, <3>4, OthersOK DEF ReadCache
  <2>3. CASE cache.state # "torn"
    <3>1. /\ Others(c) /\ UNCHANGED <<day, adjustment, cache, temp>>
          /\ pc' \in [Clients -> Labels] /\ pc'[c] = "write"
          /\ job' \in [Clients -> Job]
          /\ job'[c].purpose = job[c].purpose
          /\ job'[c].size = job[c].size /\ job'[c].asked = job[c].asked
          BY <1>1, <1>10, <2>3, ReadDoes
    <3>2. TypeOK'
          BY <1>1, <3>1 DEF TypeOK
    <3>3. JobOK(c)'
          BY <2>1, <3>1 DEF JobOK, Updating
    <3> QED BY <3>1, <3>2, <3>3, OthersOK
  <2> QED BY <2>2, <2>3
<1>11. ASSUME NEW c \in Clients, pc[c] \in Updating, NEW l \in {"writing", "replace"},
              Goto(c, l), UNCHANGED <<day, adjustment, cache, job>>, temp' \in File
       PROVE  Inv'
  <2>1. l \in Labels
        BY DEF Labels
  <2>2. /\ Others(c) /\ pc' \in [Clients -> Labels] /\ job' \in [Clients -> Job]
        /\ pc'[c] = l /\ job'[c] = job[c]
        BY <1>1, <1>11, <2>1, GotoDoes
  <2>3. TypeOK'
        BY <1>1, <1>11, <2>2 DEF TypeOK
  <2>4. JobOK(c)'
    <3>1. JobOK(c)
          OBVIOUS
    <3> QED BY <1>11, <2>2, <3>1 DEF JobOK, Updating
  <2> QED BY <1>11, <2>2, <2>3, <2>4, OthersOK
<1>12. ASSUME NEW c \in Clients, OpenTemp(c) PROVE Inv'
  <2>1. Torn \in File
        BY Files, NoJobIsJob, MarketAssumption
  <2> QED BY <1>11, <1>12, <2>1 DEF OpenTemp, Updating
<1>13. ASSUME NEW c \in Clients, WriteTemp(c) PROVE Inv'
  <2>1. Whole(job[c].frame) \in File
    <3>1. job[c].frame \in [Bars -> Nat]
          BY <1>1 DEF TypeOK, Job
    <3> QED BY <3>1, Files
  <2> QED BY <1>11, <1>13, <2>1 DEF WriteTemp, Updating
<1>14. ASSUME NEW c \in Clients, Raises(c) \/ Answers(c) \/ Replace(c) \/ Crash(c)
       PROVE  Inv'
  <2>1. Absent \in File /\ cache \in File /\ temp \in File
        BY <1>1, Files, NoJobIsJob, MarketAssumption DEF TypeOK
  <2>2. /\ Ends(c) /\ UNCHANGED <<day, adjustment>>
        /\ cache' \in File /\ temp' \in File
        BY <1>14, <2>1 DEF Raises, Answers, Replace, Crash
  <2> QED BY <1>9, <2>2
<1>15. CASE UNCHANGED marketVars
       BY <1>15 DEF marketVars, TypeOK, JobOK, Requested, Downloaded
<1> QED BY <1>2, <1>3, <1>4, <1>5, <1>6, <1>7, <1>8, <1>10, <1>12, <1>13, <1>14, <1>15
        DEF Next, Run

\* The first layer, with no condition on who updates.
LEMMA InvAlways == Spec => []Inv
<1>1. Init => Inv
      BY InvHoldsAtFirst
<1>2. Inv /\ [Next]_marketVars => Inv'
      BY StepKeepsInv
<1> QED BY <1>1, <1>2, PTL DEF Spec

\* The variables of the service, its files and its processes keep their types.
THEOREM MarketTypes == Spec => []TypeOK
<1>1. Inv => TypeOK
      BY DEF Inv
<1> QED BY <1>1, InvAlways, PTL

\* history accounts for every ticker it was asked for, with rows or as
\* unavailable, whichever batches failed (the loop of history).
THEOREM NoneSuppressed == Spec => []NothingSuppressed
<1>1. ASSUME Inv PROVE NothingSuppressed
  <2> SUFFICES ASSUME NEW c \in Clients, pc[c] \in {"answer", "merge"}
               PROVE  /\ job[c].frame # NoBars
                      /\ \A t \in Requested(job[c]) :
                          (SessionsOf(job[c].frame, t) = {}) <=> (t \in job[c].missing)
      BY DEF NothingSuppressed
  <2>1. JobOK(c) /\ job[c] \in Job
        BY <1>1 DEF Inv, TypeOK
  <2>2. \A t \in Requested(job[c]) : t < job[c].next
    <3>1. job[c].next > job[c].size
          BY <2>1 DEF JobOK, Downloaded
    <3> QED BY <2>1, <3>1 DEF Requested, Job
  <2> QED BY <2>1, <2>2 DEF JobOK
<1> QED BY <1>1, InvAlways, PTL

\* What the daily cycle would claim is the last session there is a bar of, and
\* that session was recent when the command asked (latest, completed_session).
THEOREM RecentSession == Spec => []SessionIsRecent
<1>1. ASSUME Inv, NothingSuppressed PROVE SessionIsRecent
  <2> SUFFICES ASSUME NEW c \in Clients, pc[c] = "answer",
                      NEW t \in Requested(job[c])
               PROVE  LET s == CompletedSession(Answer(c)[t])
                          asked == job[c].asked
                          bars == SessionsOf(job[c].frame, t)
                      IN  /\ s > 0 => /\ s \in bars /\ \A d \in bars : d <= s
                                      /\ s \in (asked - StaleAfter)..asked
                          /\ s = 0 => \/ t \in job[c].missing
                                      \/ \A d \in bars : d < asked - StaleAfter
                          /\ t \in job[c].missing => s = 0
      BY DEF SessionIsRecent
  <2> DEFINE S == SessionsOf(job[c].frame, t)
             asked == job[c].asked
             point == Latest(job[c].frame, t, asked)
             last == CHOOSE d \in S : \A e \in S : e <= d
  <2>1. Answer(c)[t] = point
        BY DEF Answer
  <2>2. CASE S = {}
    <3>1. point = Unavailable
          BY <2>2 DEF Latest
    <3>2. CompletedSession(Unavailable) = 0
          BY DEF CompletedSession, Unavailable
    <3>3. t \in job[c].missing
          BY <1>1, <2>2 DEF NothingSuppressed
    <3> QED BY <2>1, <3>1, <3>2, <3>3
  <2>3. CASE S # {}
    <3>1. NDays \in Nat /\ S \in SUBSET (0..NDays) /\ S \subseteq Days /\ S \subseteq Nat \ {0}
          BY MarketAssumption DEF SessionsOf, Days, MarketAssumption
    <3>2. \E d \in S : \A e \in S : e <= d
      <4> HIDE DEF S
      <4> QED BY <2>3, <3>1, GreatestNatural
    <3>3. last \in S /\ \A e \in S : e <= last
          BY <3>2
    <3>4. point = [session |-> last, available |-> TRUE, stale |-> asked - last > StaleAfter]
          BY <2>3 DEF Latest
    <3>5. t \notin job[c].missing
          BY <1>1, <2>3 DEF NothingSuppressed
    <3>6. asked \in Int /\ last \in Nat \ {0} /\ StaleAfter \in Nat
          BY <1>1, <3>1, <3>3, MarketAssumption
          DEF Inv, TypeOK, Job, Days, MarketAssumption
    <3>7. last <= asked
      <4> HIDE DEF last
      <4>1. last \in Days /\ job[c].frame[<<t, last>>] > 0
            BY <3>3 DEF SessionsOf
      <4>2. JobOK(c) /\ t \in Tickers
            BY <1>1, BatchIsTickers DEF Inv, TypeOK
      <4>3. <<t, last>> \in Bars /\ <<t, last>>[2] = last
            BY <4>1, <4>2 DEF Bars
      <4>4. \A b \in Bars : job[c].frame[b] > 0 => b[2] <= job[c].asked
            BY <4>2 DEF JobOK
      <4> QED BY <4>1, <4>3, <4>4
    <3> HIDE DEF S, last, point, asked
    <3>8. CompletedSession(point) = IF asked - last > StaleAfter THEN 0 ELSE last
          BY <3>4 DEF CompletedSession
    <3>9. CASE asked - last > StaleAfter
      <4>1. \A d \in S : d < asked - StaleAfter
            BY <3>1, <3>3, <3>6, <3>9
      <4> QED BY <2>1, <3>5, <3>8, <3>9, <4>1 DEF S, asked
    <3>10. CASE ~(asked - last > StaleAfter)
      <4>1. last \in (asked - StaleAfter)..asked
            BY <3>6, <3>7, <3>10
      <4> QED BY <2>1, <3>3, <3>5, <3>6, <3>8, <3>10, <4>1 DEF S, asked
    <3> QED BY <3>9, <3>10
  <2> QED BY <2>2, <2>3
<1> QED BY <1>1, InvAlways, NoneSuppressed, PTL

-------------------------------------------------------------------------------
(***************************************************************************)
(* One update at a time: the file.                                         *)
(***************************************************************************)

\* A step that leaves the files alone has to answer for its process only.
LEMMA FilesKept ==
    ASSUME CacheInv, NEW c \in Clients, Others(c),
           UNCHANGED <<adjustment, cache, temp>>,
           job'[c].purpose = "cache" => UpdateOK(c)'
    PROVE  CacheInv'
<1>1. ASSUME NEW d \in Clients, d # c, job'[d].purpose = "cache" PROVE UpdateOK(d)'
  <2>1. pc'[d] = pc[d] /\ job'[d] = job[d] /\ UpdateOK(d)
        BY <1>1 DEF Others, CacheInv
  <2> QED BY <2>1 DEF UpdateOK, Current
<1> QED BY <1>1 DEF CacheInv, CacheIsWhole, Current

\* A step of the only update has to answer for the files and for itself.
LEMMA OnlyUpdate ==
    ASSUME CacheInv, OneUpdate, NEW c \in Clients, Others(c),
           job[c].purpose = "cache",
           CacheIsWhole', Current(cache.bars)',
           job'[c].purpose = "cache" => UpdateOK(c)'
    PROVE  CacheInv'
BY DEF CacheInv, OneUpdate, Others

\* The bars a download brings are of the newest adjustment.
LEMMA BatchKeepsCacheInv ==
    ASSUME Inv, CacheInv, NEW c \in Clients, pc[c] = "download",
           NEW got \in Normalized(job[c]),
           job' = [job EXCEPT ![c] = BatchDone(@, got)],
           UNCHANGED <<day, adjustment, cache, temp, pc>>
    PROVE  CacheInv'
<1> DEFINE j == job[c]
           k == BatchDone(j, got)
<1>1. j \in Job /\ TypeOK
      BY DEF Inv, TypeOK
<1>2. Others(c) /\ job'[c] = k
      BY <1>1, BatchOver
<1>3. /\ k.purpose = j.purpose
      /\ \A b \in Bars : k.frame[b] = IF b \in got THEN adjustment[b[1]] ELSE j.frame[b]
      BY <1>1, BatchDoneIs
<1>4. /\ \A b \in Bars : b[1] \in Tickers
      /\ \A t \in Tickers : adjustment[t] \in Nat
      /\ cache.bars \in [Bars -> Nat]
      BY <1>1 DEF Bars, TypeOK, File
<1> HIDE DEF k
<1>5. ASSUME k.purpose = "cache" PROVE UpdateOK(c)'
  <2>1. Current(j.frame) /\ NotOlder(cache.bars, j.frame) /\ Current(cache.bars)
        BY <1>3, <1>5 DEF CacheInv, UpdateOK
  <2>2. Current(k.frame) /\ NotOlder(cache.bars, k.frame)
        BY <1>3, <1>4, <2>1 DEF Current, NotOlder
  <2>3. pc'[c] = "download"
        OBVIOUS
  <2> QED BY <1>2, <2>2, <2>3 DEF UpdateOK, Current
<1> QED BY <1>2, <1>5, FilesKept

\* At first there are no rows.
LEMMA CacheInvAtFirst == Init => CacheInv
<1> SUFFICES ASSUME Init PROVE CacheInv
    OBVIOUS
<1>1. cache.state = "absent" /\ cache.bars = NoBars
      BY DEF Init, Absent
<1>2. Current(cache.bars)
      BY <1>1 DEF Init, Current, NoBars, Bars
<1>3. \A c \in Clients : job[c].purpose = "none"
      BY DEF Init, NoJob
<1> QED BY <1>1, <1>2, <1>3 DEF CacheInv, CacheIsWhole

\* Every step keeps the file in order when there is one update.
LEMMA StepKeepsCacheInv ==
    Inv /\ CacheInv /\ OneUpdate /\ [Next]_marketVars => CacheInv'
<1> SUFFICES ASSUME Inv, CacheInv, OneUpdate, [Next]_marketVars PROVE CacheInv'
    OBVIOUS
<1>1. TypeOK /\ \A c \in Clients : JobOK(c)
      BY DEF Inv
<1>2. CASE DayPasses
      BY <1>2 DEF DayPasses, CacheInv, CacheIsWhole, UpdateOK, Current
<1>3. CASE \E t \in Tickers : Adjust(t)
  <2>1. PICK t \in Tickers : Adjust(t)
        BY <1>3
  <2>2. \A u \in Tickers : adjustment[u] \in Nat /\ adjustment'[u] \in Nat
                           /\ adjustment[u] <= adjustment'[u]
        BY <1>1, <2>1 DEF Adjust, TypeOK
  <2>3. ASSUME NEW bars \in [Bars -> Nat], Current(bars)
        PROVE  \A b \in Bars : bars[b] <= adjustment'[b[1]]
        BY <2>2, <2>3 DEF Current, Bars
  <2>4. cache.bars \in [Bars -> Nat] /\ \A c \in Clients : job[c].frame \in [Bars -> Nat]
        BY <1>1 DEF TypeOK, File, Job
  <2> QED BY <2>1, <2>3, <2>4 DEF Adjust, CacheInv, CacheIsWhole, UpdateOK, Current
<1>4. ASSUME NEW c \in Clients, Begin(c) PROVE CacheInv'
  <2>1. /\ Others(c) /\ UNCHANGED <<day, adjustment, cache, temp>>
        /\ pc'[c] = "download" /\ job'[c].frame = NoBars
        BY <1>1, <1>4, BeginDoes
  <2>2. Current(NoBars) /\ NotOlder(cache.bars, NoBars)
        BY <1>1 DEF Current, NotOlder, NoBars, TypeOK, Bars
  <2>3. UpdateOK(c)'
        BY <2>1, <2>2 DEF UpdateOK, Current
  <2> QED BY <2>1, <2>3, FilesKept
<1>5. ASSUME NEW c \in Clients, Download(c) PROVE CacheInv'
  <2>1. PICK got \in Normalized(job[c]) : job' = [job EXCEPT ![c] = BatchDone(@, got)]
        BY <1>5 DEF Download
  <2> QED BY <1>5, <2>1, BatchKeepsCacheInv DEF Download
<1>6. ASSUME NEW c \in Clients, Retry(c) PROVE CacheInv'
  <2>1. /\ Others(c) /\ UNCHANGED <<day, adjustment, cache, temp, pc>>
        /\ job'[c].purpose = job[c].purpose /\ job'[c].frame = job[c].frame
        BY <1>1, <1>6, RetryDoes
  <2>2. pc[c] = "download"
        BY <1>6 DEF Retry
  <2>3. job'[c].purpose = "cache" => UpdateOK(c)'
        BY <2>1, <2>2 DEF CacheInv, UpdateOK, Current
  <2> QED BY <2>1, <2>3, FilesKept
<1>7. ASSUME NEW c \in Clients, NEW l \in {"raised", "merge", "answer"},
             pc[c] \in {"download", "merge"}, l = "merge" => pc[c] = "download",
             Goto(c, l), UNCHANGED <<day, adjustment, cache, temp, job>>
      PROVE  CacheInv'
  <2>1. l \in Labels
        BY DEF Labels
  <2>2. Others(c) /\ pc'[c] = l /\ job'[c] = job[c]
        BY <1>1, <1>7, <2>1, GotoDoes
  <2>3. job'[c].purpose = "cache" => UpdateOK(c)'
        BY <1>7, <2>2 DEF CacheInv, UpdateOK, Current
  <2> QED BY <1>7, <2>2, <2>3, FilesKept
<1>8. ASSUME NEW c \in Clients, BatchFails(c) PROVE CacheInv'
  <2>1. CASE OnlyBatch(job[c])
        BY <1>7, <1>8, <2>1 DEF BatchFails
  <2>2. CASE ~OnlyBatch(job[c])
    <3>1. {} \in Normalized(job[c]) /\ pc[c] = "download"
          BY <1>8 DEF Normalized, BatchFails
    <3>2. /\ job' = [job EXCEPT ![c] = BatchDone(@, {})]
          /\ UNCHANGED <<day, adjustment, cache, temp, pc>>
          BY <1>8, <2>2 DEF BatchFails
    <3> QED BY <3>1, <3>2, BatchKeepsCacheInv
  <2> QED BY <2>1, <2>2
<1>9. ASSUME NEW c \in Clients, HistoryEnds(c) PROVE CacheInv'
      BY <1>7, <1>9 DEF HistoryEnds
<1>10. ASSUME NEW c \in Clients, ReadCache(c) PROVE CacheInv'
  <2>1. pc[c] = "merge" /\ job[c].purpose = "cache" /\ cache.state # "torn"
    <3>1. pc[c] = "merge" /\ JobOK(c)
          BY <1>1, <1>10 DEF ReadCache
    <3> QED BY <3>1 DEF JobOK, Updating, CacheInv, CacheIsWhole
  <2>2. /\ Others(c) /\ UNCHANGED <<day, adjustment, cache, temp>>
        /\ pc'[c] = "write"
        /\ \A b \in Bars : job'[c].frame[b] =
               IF job[c].frame[b] > 0 THEN job[c].frame[b] ELSE cache.bars[b]
        BY <1>1, <1>10, <2>1, ReadDoes
  <2>3. /\ Current(job[c].frame) /\ Current(cache.bars)
        /\ NotOlder(cache.bars, job[c].frame)
        BY <2>1 DEF CacheInv, UpdateOK
  <2>4. \A b \in Bars : cache.bars[b] \in Nat
        BY <1>1 DEF TypeOK, File
  <2>5. /\ \A b \in Bars : job'[c].frame[b] <= adjustment[b[1]]
        /\ \A b \in Bars : cache.bars[b] <= job'[c].frame[b]
        BY <2>2, <2>3, <2>4 DEF Current, NotOlder
  <2>6. UpdateOK(c)'
        BY <2>2, <2>5 DEF UpdateOK, Current
  <2> QED BY <2>2, <2>6, FilesKept
<1>11. ASSUME NEW c \in Clients, NEW l \in {"writing", "replace"},
              pc[c] \in {"write", "writing"}, Goto(c, l),
              UNCHANGED <<day, adjustment, cache, job>>,
              l = "replace" => temp' = Whole(job[c].frame)
       PROVE  CacheInv'
  <2>1. l \in Labels /\ job[c].purpose = "cache"
    <3>1. JobOK(c)
          BY <1>1
    <3> QED BY <1>11, <3>1 DEF Labels, JobOK, Updating
  <2>2. Others(c) /\ pc'[c] = l /\ job'[c] = job[c]
        BY <1>1, <1>11, <2>1, GotoDoes
  <2>3. UpdateOK(c)'
        BY <1>11, <2>1, <2>2 DEF CacheInv, UpdateOK, Current
  <2>4. CacheIsWhole' /\ Current(cache.bars)'
        BY <1>11 DEF CacheInv, CacheIsWhole, Current
  <2> QED BY <2>1, <2>2, <2>3, <2>4, OnlyUpdate
<1>12. ASSUME NEW c \in Clients, OpenTemp(c) PROVE CacheInv'
       BY <1>11, <1>12 DEF OpenTemp
<1>13. ASSUME NEW c \in Clients, WriteTemp(c) PROVE CacheInv'
       BY <1>11, <1>13 DEF WriteTemp
<1>14. ASSUME NEW c \in Clients, Replace(c) PROVE CacheInv'
  <2>1. pc[c] = "replace" /\ job[c].purpose = "cache"
    <3>1. pc[c] = "replace" /\ JobOK(c)
          BY <1>1, <1>14 DEF Replace
    <3> QED BY <3>1 DEF JobOK, Updating
  <2>2. Others(c) /\ job'[c] = NoJob
        BY <1>1, <1>14, EndsDoes DEF Replace
  <2>3. temp = Whole(job[c].frame) /\ Current(job[c].frame)
        BY <2>1 DEF CacheInv, UpdateOK
  <2>4. temp.state = "whole" /\ temp.bars = job[c].frame
        BY <2>3 DEF Whole
  <2>5. cache' = temp /\ UNCHANGED adjustment
        BY <1>14, <2>4 DEF Replace
  <2>6. CacheIsWhole' /\ Current(cache.bars)'
        BY <2>3, <2>4, <2>5 DEF CacheIsWhole, Current
  <2>7. job'[c].purpose = "none"
        BY <2>2 DEF NoJob
  <2> QED BY <2>1, <2>2, <2>6, <2>7, OnlyUpdate
<1>15. ASSUME NEW c \in Clients, Raises(c) \/ Answers(c) \/ Crash(c) PROVE CacheInv'
  <2>1. Ends(c) /\ UNCHANGED <<day, adjustment, cache, temp>>
        BY <1>15 DEF Raises, Answers, Crash
  <2>2. Others(c) /\ job'[c] = NoJob
        BY <1>1, <2>1, EndsDoes
  <2>3. job'[c].purpose # "cache"
        BY <2>2 DEF NoJob
  <2> QED BY <2>1, <2>2, <2>3, FilesKept
<1>16. CASE UNCHANGED marketVars
       BY <1>16 DEF marketVars, CacheInv, CacheIsWhole, UpdateOK, Current
<1> QED BY <1>2, <1>3, <1>4, <1>5, <1>6, <1>8, <1>9, <1>10, <1>12, <1>13, <1>14, <1>15,
           <1>16 DEF Next, Run

\* The second layer, for one update at a time.
LEMMA CacheInvAlways == Spec /\ []OneUpdate => []CacheInv
<1>1. Init => CacheInv
      BY CacheInvAtFirst
<1>2. Inv /\ CacheInv /\ OneUpdate /\ [Next]_marketVars => CacheInv'
      BY StepKeepsCacheInv
<1> QED BY <1>1, <1>2, InvAlways, PTL DEF Spec

\* The parquet file can be read at any moment, wherever updates are killed, if
\* no two of them run at once (to_parquet's temporary file and its replace).
THEOREM WholeCache == Spec /\ []OneUpdate => []CacheIsWhole
<1>1. CacheInv => CacheIsWhole
      BY DEF CacheInv
<1> QED BY <1>1, CacheInvAlways, PTL

\* Nor does an update lose a row or put back an older adjustment, whichever
\* tickers it got and whichever first day it asked from (update_cache).
THEOREM CacheImproves == Spec /\ []OneUpdate => CacheOnlyImproves
<1>1. Inv /\ CacheInv /\ [Next]_marketVars
          => [\A b \in Bars : cache.bars[b] <= cache'.bars[b]]_cache
  <2> SUFFICES ASSUME Inv, CacheInv, [Next]_marketVars, cache' # cache
               PROVE  \A b \in Bars : cache.bars[b] <= cache'.bars[b]
      OBVIOUS
  <2>1. PICK c \in Clients : Replace(c)
        BY DEF Next, Run, marketVars, DayPasses, Adjust, Begin, Download, Retry,
               BatchFails, HistoryEnds, Raises, Answers, ReadCache, OpenTemp,
               WriteTemp, Crash
  <2>2. pc[c] = "replace" /\ job[c].purpose = "cache"
    <3>1. pc[c] = "replace" /\ JobOK(c)
          BY <2>1 DEF Replace, Inv
    <3> QED BY <3>1 DEF JobOK, Updating
  <2>3. UpdateOK(c)
        BY <2>2 DEF CacheInv
  <2>4. /\ \A b \in Bars : cache.bars[b] <= job[c].frame[b]
        /\ temp = Whole(job[c].frame)
        BY <2>2, <2>3 DEF UpdateOK
  <2>5. cache' = temp
        BY <2>1 DEF Replace
  <2>6. cache'.bars = job[c].frame
        BY <2>4, <2>5 DEF Whole
  <2> QED BY <2>4, <2>6
<1> QED BY <1>1, InvAlways, CacheInvAlways, PTL DEF Spec, CacheOnlyImproves

===============================================================================
