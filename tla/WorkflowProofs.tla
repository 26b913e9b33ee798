----------------------------- MODULE WorkflowProofs -----------------------------
(***************************************************************************)
(* The state that travels from workflow run to workflow run: for any       *)
(* number of sessions, runs and runners, however they are started and      *)
(* wherever they fail, and whichever sessions Yahoo names, the daily       *)
(* workflow's databases are one history, no session twice and none left    *)
(* unfinished, and the ERP has all of it.                                  *)
(***************************************************************************)
EXTENDS WorkflowProperties, SumTheorems, SequenceTheorems, TLAPS

-------------------------------------------------------------------------------
\* The last index that passes a test, which SelectLastInSeq of the restore step
\* asks for, is the greatest one.
LEMMA GreatestIndex ==
    ASSUME NEW n \in Nat, NEW I \in SUBSET (1..n), I # {}
    PROVE  Max(I) \in I /\ \A j \in I : Max(I) >= j
<1>1. I \in SUBSET (0..n)
      OBVIOUS
<1>2. \E x \in I : \A y \in I : y <= x
      BY <1>1, GreatestNatural
<1>3. \E x \in I : \A y \in I : x >= y
      BY <1>2
<1> QED BY <1>3, Zenon DEF Max

\* A prefix, element by element.
LEMMA PrefixByElements ==
    ASSUME NEW S, NEW s \in Seq(S), NEW t \in Seq(S)
    PROVE  IsPrefix(s, t) <=>
              Len(s) <= Len(t) /\ \A i \in 1..Len(s) : s[i] = t[i]
<1>1. Len(s) \in Nat /\ Len(t) \in Nat
      BY LenProperties
<1>2. ASSUME Len(s) <= Len(t)
      PROVE  /\ SubSeq(s, 1, Len(s)) \in Seq(S)
             /\ Len(SubSeq(s, 1, Len(s))) = Len(s)
             /\ \A i \in 1..Len(s) : SubSeq(s, 1, Len(s))[i] = s[i]
             /\ SubSeq(t, 1, Len(s)) \in Seq(S)
             /\ Len(SubSeq(t, 1, Len(s))) = Len(s)
             /\ \A i \in 1..Len(s) : SubSeq(t, 1, Len(s))[i] = t[i]
  <2>1. \A i \in 1..Len(s) : s[i] \in S /\ t[i] \in S
        BY <1>1, <1>2, ElementOfSeq
  <2> QED BY <1>1, <2>1, SubSeqProperties
<1>3. ASSUME Len(s) <= Len(t), \A i \in 1..Len(s) : s[i] = t[i]
      PROVE  SubSeq(s, 1, Len(s)) = SubSeq(t, 1, Len(s))
  <2>1. \A i \in 1..Len(SubSeq(s, 1, Len(s))) :
           SubSeq(s, 1, Len(s))[i] = SubSeq(t, 1, Len(s))[i]
        BY <1>2, <1>3
  <2> QED BY <1>2, <1>3, <2>1, SeqEqual
<1> QED BY <1>2, <1>3 DEF IsPrefix

\* The first part of a sequence stays when an element is appended.
LEMMA FrontStays ==
    ASSUME NEW S, NEW s \in Seq(S), NEW e \in S, NEW n \in 1..Len(s)
    PROVE  SubSeq(Append(s, e), 1, n) = SubSeq(s, 1, n)
<1>1. Append(s, e) = s \o <<e>> /\ <<e>> \in Seq(S)
      BY AppendIsConcat
<1>2. Len(s) \in Nat /\ 1 \in 1..Len(s)
      BY LenProperties
<1> QED BY <1>1, <1>2, SubSeqOfConcat1

\* What was in a sequence stays in it when an element is appended.
LEMMA RangeOfAppend ==
    ASSUME NEW S, NEW s \in Seq(S), NEW e \in S
    PROVE  Range(Append(s, e)) = Range(s) \cup {e}
<1>1. /\ Append(s, e) \in Seq(S) /\ Len(Append(s, e)) = Len(s) + 1
      /\ \A i \in 1..Len(s) : Append(s, e)[i] = s[i]
      /\ Append(s, e)[Len(s) + 1] = e
      BY AppendProperties
<1>2. Len(s) \in Nat
      BY LenProperties
<1>3. /\ Range(s) = {s[i] : i \in 1..Len(s)}
      /\ Range(Append(s, e)) = {Append(s, e)[i] : i \in 1..(Len(s) + 1)}
      BY <1>1, RangeEquality
<1> QED BY <1>1, <1>2, <1>3

-------------------------------------------------------------------------------
(***************************************************************************)
(* The inductive invariant.                                                *)
(***************************************************************************)

\* The database of a run: no unfinished session, no session twice, and the batch
\* of each among those the ERP has.
Kept(db, batches) ==
    /\ db.unfinished = {}
    /\ \A m, n \in DOMAIN db.book : db.book[m] = db.book[n] => m = n
    /\ \A n \in DOMAIN db.book :
          [session |-> db.book[n], book |-> SubSeq(db.book, 1, n)] \in batches

\* One daily workflow at a time.
OneDaily ==
    \A q, r \in Runners :
        daily[r].step # "none" /\ daily[q].step # "none" => q = r

\* A failed run has a database too, but nothing is said of that one.
HasDatabase(r) == daily[r].step \in {"eod", "upload"}

\* A daily run that has a database continues every uploaded history.
Continues ==
    \A r \in Runners : HasDatabase(r) =>
        \A i \in DOMAIN successes : successes[i].workflow = "daily-market-cycle" =>
            IsPrefix(successes[i].db.book, daily[r].db.book)

WorkflowInv ==
    /\ TypeOK
    /\ OneDaily
    /\ \A i \in DOMAIN successes : Kept(successes[i].db, Range(erp))
    /\ \A r \in Runners : HasDatabase(r) => Kept(daily[r].db, Range(erp))
    /\ monthly.step = "upload" => Kept(monthly.db, Range(erp))
    /\ Continues
    /\ DailyHistoryIsOneChain

\* What the invariant says at once of the properties.
LEMMA InvariantGives ==
    ASSUME WorkflowInv
    PROVE  /\ TypeOK /\ DailyHistoryIsOneChain
           /\ UploadedIsDelivered /\ NoSessionTwice /\ FailedSessionsCanBeRetried
BY DEF WorkflowInv, Kept, UploadedIsDelivered, NoSessionTwice,
       FailedSessionsCanBeRetried, Processed

\* At first nothing is uploaded and no run has started.
LEMMA InvariantHoldsFirst == Init => WorkflowInv
<1> SUFFICES ASSUME Init PROVE WorkflowInv
    OBVIOUS
<1>1. TypeOK
      BY WorkflowAssumption, EmptySeq
      DEF Init, TypeOK, NoDaily, NoMonthly, EmptyDatabase, Database, Names
<1>2. DOMAIN successes = {}
      BY DEF Init
<1> QED
    BY <1>1, <1>2 DEF Init, WorkflowInv, OneDaily, HasDatabase, Continues, Kept,
       DailyHistoryIsOneChain, NoDaily, NoMonthly

\* The run the state is restored from is a success, and it continues every
\* uploaded history of the daily workflow.
LEMMA RestoredContinues ==
    ASSUME WorkflowInv, Restorable > 0
    PROVE  /\ Restorable \in DOMAIN successes
           /\ \A i \in DOMAIN successes :
                 successes[i].workflow = "daily-market-cycle" =>
                    IsPrefix(successes[i].db.book, successes[Restorable].db.book)
<1> DEFINE Of(w) == {i \in 1..Len(successes) : successes[i].workflow = w}
           Daily == Of("daily-market-cycle")
           Monthly == Of("monthly-research")
<1>1. successes \in Seq(Success) /\ DailyHistoryIsOneChain
      BY DEF WorkflowInv, TypeOK
<1>2. Len(successes) \in Nat /\ DOMAIN successes = 1..Len(successes)
      BY <1>1, LenProperties
<1>3. \A w : LatestOf(w) = IF Of(w) # {} THEN Max(Of(w)) ELSE 0
      BY DEF LatestOf, SelectLastInSeq
<1>4. \A w : Of(w) # {} => LatestOf(w) \in Of(w) /\ \A j \in Of(w) : LatestOf(w) >= j
      BY <1>2, <1>3, GreatestIndex
<1>5. \A i \in DOMAIN successes :
         IsPrefix(successes[i].db.book, successes[i].db.book)
      BY DEF IsPrefix
<1>6. CASE Daily # {}
  <2>1. /\ Restorable \in Daily
        /\ \A j \in Daily : Restorable >= j
        BY <1>6, <1>4, <1>2 DEF Restorable
  <2>2. ASSUME NEW i \in DOMAIN successes,
               successes[i].workflow = "daily-market-cycle"
        PROVE  IsPrefix(successes[i].db.book, successes[Restorable].db.book)
    <3>1. i \in Daily
          BY <2>2, <1>2
    <3>2. i < Restorable \/ i = Restorable
          BY <3>1, <2>1, <1>2
    <3> QED BY <3>2, <2>1, <2>2, <1>1, <1>2, <1>5 DEF DailyHistoryIsOneChain
  <2> QED BY <2>1, <2>2, <1>2
<1>7. CASE Daily = {}
  <2>1. LatestOf("daily-market-cycle") = 0
        BY <1>7, <1>3
  <2>2. Restorable = LatestOf("monthly-research")
        BY <2>1 DEF Restorable
  <2>3. Restorable \in Monthly
        BY <2>2, <1>3, <1>4
  <2> QED BY <2>3, <1>7, <1>2
<1> QED BY <1>6, <1>7

-------------------------------------------------------------------------------
(***************************************************************************)
(* The steps.                                                              *)
(***************************************************************************)

\* A database that is kept stays so while the ERP gets more.
LEMMA KeptStays ==
    ASSUME NEW batches, NEW more, batches \subseteq more,
           NEW db, Kept(db, batches)
    PROVE  Kept(db, more)
BY DEF Kept

\* A run that completes a session its database does not have keeps it, once the
\* ERP has the batch.
LEMMA CompletedIsKept ==
    ASSUME NEW session \in Sessions, NEW batches,
           NEW db \in Database, Kept(db, batches), session \notin Range(db.book)
    PROVE  /\ Ran(db, session) \in Database
           /\ BatchFor(db, session) \in ErpBatch
           /\ Kept(Ran(db, session), batches \cup {BatchFor(db, session)})
           /\ \A s \in Seq(Sessions) :
                 IsPrefix(s, db.book) => IsPrefix(s, Ran(db, session).book)
<1> DEFINE book == db.book
           new == Append(book, session)
<1>1. session \in Nat /\ Sessions \subseteq Nat
      BY WorkflowAssumption DEF Sessions
<1>2. book \in Seq(Sessions) /\ Len(book) \in Nat /\ DOMAIN book = 1..Len(book)
      BY LenProperties DEF Database
<1>3. /\ new \in Seq(Sessions) /\ Len(new) = Len(book) + 1
      /\ \A i \in 1..Len(book) : new[i] = book[i] /\ new[i] \in Nat
      /\ new[Len(book) + 1] = session
      /\ DOMAIN new = 1..(Len(book) + 1)
  <2>1. /\ new \in Seq(Sessions) /\ Len(new) = Len(book) + 1
        /\ \A i \in 1..Len(book) : new[i] = book[i]
        /\ new[Len(book) + 1] = session
        BY <1>1, <1>2, AppendProperties
  <2>2. DOMAIN new = 1..Len(new)
        BY <2>1, LenProperties
  <2>3. \A i \in 1..Len(book) : book[i] \in Sessions
        BY <1>2, ElementOfSeq
  <2> QED BY <2>1, <2>2, <2>3, <1>1
<1>4. Ran(db, session) \in Database /\ Ran(db, session).book = new
         /\ Ran(db, session).unfinished = {}
      BY <1>3 DEF Ran, Database, Kept
<1>5. \A n \in 1..Len(book) : new[n] # session
      BY <1>2, <1>3, RangeEquality
<1>6. \A m, n \in DOMAIN new : new[m] = new[n] => m = n
  <2> SUFFICES ASSUME NEW m \in DOMAIN new, NEW n \in DOMAIN new, new[m] = new[n]
               PROVE  m = n
      OBVIOUS
  <2>1. \A i \in DOMAIN new : i \in 1..Len(book) \/ i = Len(book) + 1
        BY <1>2, <1>3
  <2>2. CASE m \in 1..Len(book) /\ n \in 1..Len(book)
        BY <2>2, <1>2, <1>3 DEF Kept
  <2>3. CASE m = Len(book) + 1 \/ n = Len(book) + 1
        BY <2>1, <2>3, <1>3, <1>5
  <2> QED BY <2>1, <2>2, <2>3
<1>7. \A n \in DOMAIN new :
         [session |-> new[n], book |-> SubSeq(new, 1, n)] \in batches \cup {BatchFor(db, session)}
  <2> SUFFICES ASSUME NEW n \in DOMAIN new
               PROVE  [session |-> new[n], book |-> SubSeq(new, 1, n)]
                         \in batches \cup {BatchFor(db, session)}
      OBVIOUS
  <2>1. CASE n = Len(book) + 1
    <3>1. SubSeq(new, 1, n) = new
          BY <2>1, <1>3, SubSeqFull
    <3>2. BatchFor(db, session) = [session |-> session, book |-> new]
          BY DEF BatchFor
    <3>3. [session |-> new[n], book |-> SubSeq(new, 1, n)] = BatchFor(db, session)
          BY <2>1, <1>3, <3>1, <3>2
    <3> QED BY <3>3
  <2>2. CASE n \in 1..Len(book)
    <3>1. SubSeq(new, 1, n) = SubSeq(book, 1, n)
          BY <2>2, <1>1, <1>2, FrontStays
    <3>2. new[n] = book[n] /\ n \in DOMAIN book
          BY <2>2, <1>2, <1>3
    <3>3. [session |-> book[n], book |-> SubSeq(book, 1, n)] \in batches
          BY <3>2 DEF Kept
    <3> QED BY <3>1, <3>2, <3>3
  <2>3. n = Len(book) + 1 \/ n \in 1..Len(book)
        BY <1>2, <1>3
  <2> QED BY <2>1, <2>2, <2>3
<1>8. Kept(Ran(db, session), batches \cup {BatchFor(db, session)})
      BY <1>4, <1>6, <1>7 DEF Kept
<1>9. \A s \in Seq(Sessions) : IsPrefix(s, book) => IsPrefix(s, new)
  <2> SUFFICES ASSUME NEW s \in Seq(Sessions), IsPrefix(s, book)
               PROVE  IsPrefix(s, new)
      OBVIOUS
  <2>1. Len(s) \in Nat /\ Len(s) <= Len(book) /\ \A i \in 1..Len(s) : s[i] = book[i]
        BY <1>2, PrefixByElements, LenProperties
  <2>2. Len(s) <= Len(new) /\ \A i \in 1..Len(s) : s[i] = new[i]
        BY <2>1, <1>2, <1>3
  <2> QED BY <2>2, <1>3, PrefixByElements
<1>10. BatchFor(db, session) \in ErpBatch
       BY <1>3 DEF BatchFor, ErpBatch
<1> QED BY <1>4, <1>8, <1>9, <1>10

\* The kinds of values, step by step.
DailyRun ==
    [step : {"none", "restore", "eod", "failed", "upload"}, workflow : Names, db : Database]
MonthlyRun == [step : {"none", "upload"}, db : Database]

\* What type correctness and the invariant give every step to work with.
LEMMA Kinds ==
    ASSUME WorkflowInv
    PROVE  /\ today \in Nat /\ NSessions \in Nat
           /\ successes \in Seq(Success) /\ DOMAIN successes = 1..Len(successes)
           /\ Len(successes) \in Nat
           /\ \A i \in DOMAIN successes : successes[i].db \in Database
                                           /\ successes[i].db.book \in Seq(Sessions)
           /\ erp \in Seq(ErpBatch)
           /\ daily \in [Runners -> DailyRun]
           /\ monthly \in MonthlyRun
           /\ NoDaily \in DailyRun /\ NoMonthly \in MonthlyRun
<1>1. TypeOK
      BY DEF WorkflowInv
<1>2. successes \in Seq(Success) /\ erp \in Seq(ErpBatch)
         /\ daily \in [Runners -> DailyRun] /\ monthly \in MonthlyRun
      BY <1>1 DEF TypeOK, DailyRun, MonthlyRun
<1>3. DOMAIN successes = 1..Len(successes) /\ Len(successes) \in Nat
      BY <1>2, LenProperties
<1>4. \A i \in DOMAIN successes : successes[i] \in Success
      BY <1>2, <1>3, ElementOfSeq
<1>5. \A i \in DOMAIN successes : successes[i].db \in Database
                                   /\ successes[i].db.book \in Seq(Sessions)
      BY <1>4 DEF Success, Database
<1>6. EmptyDatabase \in Database
      BY WorkflowAssumption, EmptySeq DEF EmptyDatabase, Database
<1>7. NoDaily \in DailyRun /\ NoMonthly \in MonthlyRun
      BY <1>6 DEF NoDaily, NoMonthly, DailyRun, MonthlyRun, Names
<1> QED BY <1>1, <1>2, <1>3, <1>5, <1>7, WorkflowAssumption DEF TypeOK

\* A step of a daily run that leaves the list of successes alone: the run that
\* takes it is the one whose database has to be looked at.
LEMMA DailyStep ==
    ASSUME WorkflowInv, NEW r \in Runners, NEW run \in DailyRun,
           daily' = [daily EXCEPT ![r] = run],
           UNCHANGED <<today, successes, monthly>>,
           erp' \in Seq(ErpBatch), Range(erp) \subseteq Range(erp'),
           researched' \in 0..NUniverses, started' \in 0..NRuns,
           run.step # "none" => \A q \in Runners : daily[q].step # "none" => q = r,
           run.step \in {"eod", "upload"} =>
              /\ Kept(run.db, Range(erp'))
              /\ \A i \in DOMAIN successes :
                    successes[i].workflow = "daily-market-cycle" =>
                       IsPrefix(successes[i].db.book, run.db.book)
    PROVE  WorkflowInv'
<1>1. daily' \in [Runners -> DailyRun]
      BY Kinds
<1>2. \A q \in Runners : daily'[q] = IF q = r THEN run ELSE daily[q]
      BY Kinds
<1>3. TypeOK'
      BY <1>1, Kinds DEF WorkflowInv, TypeOK, DailyRun
<1>4. OneDaily'
  <2> SUFFICES ASSUME NEW p \in Runners, NEW q \in Runners,
                      daily'[q].step # "none", daily'[p].step # "none"
               PROVE  p = q
      BY DEF OneDaily
  <2>1. \A x, y \in Runners :
           daily[y].step # "none" /\ daily[x].step # "none" => x = y
        BY DEF WorkflowInv, OneDaily
  <2> QED BY <2>1, <1>2
<1>5. \A i \in DOMAIN successes : Kept(successes[i].db, Range(erp'))
      BY Kinds, KeptStays DEF WorkflowInv
<1>6. \A q \in Runners : HasDatabase(q)' =>
         /\ Kept(daily'[q].db, Range(erp'))
         /\ \A i \in DOMAIN successes : successes[i].workflow = "daily-market-cycle" =>
               IsPrefix(successes[i].db.book, daily'[q].db.book)
  <2> SUFFICES ASSUME NEW q \in Runners, daily'[q].step \in {"eod", "upload"}
               PROVE  /\ Kept(daily'[q].db, Range(erp'))
                      /\ \A i \in DOMAIN successes :
                            successes[i].workflow = "daily-market-cycle" =>
                               IsPrefix(successes[i].db.book, daily'[q].db.book)
      BY DEF HasDatabase
  <2>1. CASE q = r
        BY <2>1, <1>2
  <2>2. CASE q # r
    <3>1. daily'[q] = daily[q] /\ daily[q].db \in Database
          BY <2>2, <1>2, Kinds DEF DailyRun
    <3>2. /\ Kept(daily[q].db, Range(erp))
          /\ \A i \in DOMAIN successes : successes[i].workflow = "daily-market-cycle" =>
                IsPrefix(successes[i].db.book, daily[q].db.book)
          BY <3>1 DEF WorkflowInv, HasDatabase, Continues
    <3>3. Kept(daily[q].db, Range(erp'))
          BY <3>1, <3>2, Kinds, KeptStays
    <3> QED BY <3>1, <3>2, <3>3
  <2> QED BY <2>1, <2>2
<1>7. monthly.step = "upload" => Kept(monthly.db, Range(erp'))
  <2>1. monthly.db \in Database
        BY Kinds DEF MonthlyRun
  <2> QED BY <2>1, Kinds, KeptStays DEF WorkflowInv
<1>8. DailyHistoryIsOneChain'
      BY DEF WorkflowInv, DailyHistoryIsOneChain
<1> QED BY <1>3, <1>4, <1>5, <1>6, <1>7, <1>8 DEF WorkflowInv, Continues

\* An upload adds a success to the list.
LEMMA UploadStep ==
    ASSUME WorkflowInv, NEW success \in Success,
           successes' = Append(successes, success), UNCHANGED <<today, erp>>,
           Kept(success.db, Range(erp)),
           success.workflow = "daily-market-cycle" =>
              \A i \in DOMAIN successes : successes[i].workflow = "daily-market-cycle" =>
                 IsPrefix(successes[i].db.book, success.db.book)
    PROVE  /\ successes' \in Seq(Success)
           /\ \A i \in DOMAIN successes' :
                 \/ i \in DOMAIN successes /\ successes'[i] = successes[i]
                 \/ i \notin DOMAIN successes /\ successes'[i] = success
           /\ \A i \in DOMAIN successes' : Kept(successes'[i].db, Range(erp'))
           /\ DailyHistoryIsOneChain'
<1>1. /\ successes' \in Seq(Success) /\ Len(successes') = Len(successes) + 1
      /\ \A i \in 1..Len(successes) : successes'[i] = successes[i]
      /\ successes'[Len(successes) + 1] = success
      BY Kinds, AppendProperties
<1>2. DOMAIN successes' = 1..(Len(successes) + 1)
      BY <1>1, LenProperties
<1>3. \A i \in DOMAIN successes' :
         \/ i \in DOMAIN successes /\ successes'[i] = successes[i]
         \/ /\ i = Len(successes) + 1 /\ i \notin DOMAIN successes
            /\ successes'[i] = success
      BY <1>1, <1>2, Kinds
<1>4. \A i \in DOMAIN successes' : Kept(successes'[i].db, Range(erp'))
      BY <1>3 DEF WorkflowInv
<1>5. DailyHistoryIsOneChain'
  <2> SUFFICES ASSUME NEW i \in DOMAIN successes', NEW j \in DOMAIN successes', i < j,
                      successes'[i].workflow = "daily-market-cycle",
                      successes'[j].workflow = "daily-market-cycle"
               PROVE  IsPrefix(successes'[i].db.book, successes'[j].db.book)
      BY DEF DailyHistoryIsOneChain
  <2>1. i \in DOMAIN successes /\ successes'[i] = successes[i]
        BY <1>1, <1>2, Kinds
  <2>2. CASE j \in DOMAIN successes
        BY <2>1, <2>2, <1>3 DEF WorkflowInv, DailyHistoryIsOneChain
  <2>3. CASE j \notin DOMAIN successes
        BY <2>1, <2>3, <1>3
  <2> QED BY <2>2, <2>3
<1> QED BY <1>1, <1>3, <1>4, <1>5

\* A step of the research workflow that leaves the list of successes alone.
LEMMA MonthlyStep ==
    ASSUME WorkflowInv, monthly' \in MonthlyRun,
           UNCHANGED <<today, successes, erp, daily>>,
           researched' \in 0..NUniverses, started' \in 0..NRuns,
           monthly'.step = "upload" => Kept(monthly'.db, Range(erp))
    PROVE  WorkflowInv'
<1>1. TypeOK'
      BY DEF WorkflowInv, TypeOK, MonthlyRun
<1>2. OneDaily' /\ DailyHistoryIsOneChain' /\ Continues'
      BY DEF WorkflowInv, OneDaily, DailyHistoryIsOneChain, Continues, HasDatabase
<1> QED BY <1>1, <1>2 DEF WorkflowInv, HasDatabase

\* Every step of a workflow keeps the invariant.
LEMMA InvariantStays ==
    ASSUME WorkflowInv, [Next]_workflowVars
    PROVE  WorkflowInv'
<1> USE DEF DailyRun
<1>1. /\ researched \in 0..NUniverses /\ started \in 0..NRuns
      /\ NUniverses \in Nat /\ NRuns \in Nat
      BY WorkflowAssumption DEF WorkflowInv, TypeOK
<1>2. ASSUME NEW r \in Runners
      PROVE  /\ daily[r] \in DailyRun
             /\ daily[r].step # "none" =>
                   \A q \in Runners : daily[q].step # "none" => q = r
             /\ HasDatabase(r) =>
                   /\ Kept(daily[r].db, Range(erp))
                   /\ \A i \in DOMAIN successes :
                         successes[i].workflow = "daily-market-cycle" =>
                            IsPrefix(successes[i].db.book, daily[r].db.book)
      BY Kinds DEF WorkflowInv, OneDaily, Continues, TypeOK
<1>3. CASE SessionCloses
  <2>1. today' \in 0..NSessions /\ today <= today'
        BY <1>3, Kinds DEF SessionCloses, WorkflowInv, TypeOK
  <2>2. TypeOK'
        BY <1>3, <2>1 DEF SessionCloses, WorkflowInv, TypeOK
  <2>5. OneDaily' /\ DailyHistoryIsOneChain' /\ Continues'
        BY <1>3, <2>1, Kinds DEF SessionCloses, WorkflowInv, OneDaily,
           DailyHistoryIsOneChain, Continues, HasDatabase
  <2> QED BY <1>3, <2>2, <2>5 DEF SessionCloses, WorkflowInv, HasDatabase
<1>4. ASSUME NEW r \in Runners, NEW trigger \in Triggers, StartDaily(r, trigger)
      PROVE  WorkflowInv'
  <2> DEFINE run == [NoDaily EXCEPT !.step = "restore", !.workflow = trigger]
  <2>1. run \in DailyRun /\ run.step = "restore"
        BY WorkflowAssumption, Kinds DEF NoDaily, Names
  <2>2. started' \in 0..NRuns
        BY <1>4, <1>1 DEF StartDaily
  <2> QED BY <1>4, <1>1, <2>1, <2>2, Kinds, DailyStep DEF StartDaily
<1>5. ASSUME NEW r \in Runners, Restore(r)
      PROVE  WorkflowInv'
  <2> DEFINE run == [daily[r] EXCEPT !.step = "eod", !.db = successes[Restorable].db]
  <2>1. /\ Restorable \in DOMAIN successes
        /\ \A i \in DOMAIN successes : successes[i].workflow = "daily-market-cycle" =>
              IsPrefix(successes[i].db.book, successes[Restorable].db.book)
        BY <1>5, RestoredContinues DEF Restore
  <2>2. run \in DailyRun /\ run.step = "eod" /\ run.db = successes[Restorable].db
        BY <1>2, <2>1, Kinds
  <2>3. Kept(successes[Restorable].db, Range(erp))
        BY <2>1 DEF WorkflowInv
  <2>4. daily' = [daily EXCEPT ![r] = run]
        BY <1>5, Kinds DEF Restore
  <2>5. \A q \in Runners : daily[q].step # "none" => q = r
        BY <1>5, <1>2 DEF Restore
  <2>6. UNCHANGED <<today, successes, monthly, erp, researched, started>>
        BY <1>5 DEF Restore
  <2> HIDE DEF run
  <2> QED BY <1>1, <2>1, <2>2, <2>3, <2>4, <2>5, <2>6, Kinds, DailyStep
<1>6. ASSUME NEW r \in Runners, NothingToRestore(r) \/ JobFails(r) \/ UploadFails(r)
      PROVE  WorkflowInv'
  <2>1. NoDaily.step = "none"
        BY DEF NoDaily
  <2>2. /\ daily' = [daily EXCEPT ![r] = NoDaily]
        /\ UNCHANGED <<today, successes, monthly, erp, researched, started>>
        BY <1>6 DEF NothingToRestore, JobFails, UploadFails
  <2> QED BY <1>1, <2>1, <2>2, Kinds, DailyStep
<1>7. ASSUME NEW r \in Runners, EodSkips(r)
      PROVE  WorkflowInv'
  <2> DEFINE run == [daily[r] EXCEPT !.step = "upload"]
  <2>1. run \in DailyRun /\ run.step = "upload" /\ run.db = daily[r].db
        BY <1>2
  <2>2. /\ daily' = [daily EXCEPT ![r] = run]
        /\ UNCHANGED <<today, successes, monthly, erp, researched, started>>
        BY <1>7, Kinds DEF EodSkips
  <2>3. HasDatabase(r)
        BY <1>7 DEF EodSkips, HasDatabase
  <2>4. \A q \in Runners : daily[q].step # "none" => q = r
        BY <1>2, <1>7 DEF EodSkips
  <2>5. /\ Kept(run.db, Range(erp'))
        /\ \A i \in DOMAIN successes : successes[i].workflow = "daily-market-cycle" =>
              IsPrefix(successes[i].db.book, run.db.book)
    <3> HIDE DEF run
    <3> QED BY <2>1, <2>2, <2>3, <1>2
  <2>6. erp' \in Seq(ErpBatch) /\ Range(erp) \subseteq Range(erp')
        BY <2>2, Kinds
  <2> HIDE DEF run
  <2> QED BY <1>1, <2>1, <2>2, <2>4, <2>5, <2>6, DailyStep
<1>8. ASSUME NEW r \in Runners, EodCompletes(r)
      PROVE  WorkflowInv'
  <2> DEFINE db == daily[r].db
  <2>1. PICK s \in Unprocessed(r) :
           /\ erp' = Append(erp, BatchFor(db, s))
           /\ daily' = [daily EXCEPT ![r].step = "upload", ![r].db = Ran(@, s)]
        BY <1>8 DEF EodCompletes
  <2> DEFINE run == [daily[r] EXCEPT !.step = "upload", !.db = Ran(db, s)]
  <2>2. /\ s \in Sessions /\ db \in Database
        /\ Kept(db, Range(erp)) /\ s \notin Range(db.book)
        BY <1>8, <1>2, <2>1 DEF EodCompletes, HasDatabase, Unprocessed, Answers, Processed
  <2>3. /\ Ran(db, s) \in Database /\ BatchFor(db, s) \in ErpBatch
        /\ Kept(Ran(db, s), Range(erp) \cup {BatchFor(db, s)})
        /\ \A b \in Seq(Sessions) :
              IsPrefix(b, db.book) => IsPrefix(b, Ran(db, s).book)
        BY <2>2, CompletedIsKept
  <2>4. erp' \in Seq(ErpBatch) /\ Range(erp') = Range(erp) \cup {BatchFor(db, s)}
        BY <2>1, <2>3, Kinds, AppendProperties, RangeOfAppend
  <2>5. run \in DailyRun /\ run.step = "upload" /\ run.db = Ran(db, s)
        BY <1>2, <2>3
  <2>6. /\ daily' = [daily EXCEPT ![r] = run]
        /\ UNCHANGED <<today, successes, monthly, researched, started>>
        BY <1>8, <2>1, Kinds DEF EodCompletes
  <2>7. \A i \in DOMAIN successes : successes[i].workflow = "daily-market-cycle" =>
           IsPrefix(successes[i].db.book, Ran(db, s).book)
        BY <1>2, <1>8, <2>3, Kinds DEF EodCompletes, HasDatabase
  <2>8. \A q \in Runners : daily[q].step # "none" => q = r
        BY <1>2, <1>8 DEF EodCompletes
  <2> HIDE DEF run, db
  <2> QED BY <1>1, <2>3, <2>4, <2>5, <2>6, <2>7, <2>8, DailyStep
<1>9. ASSUME NEW r \in Runners, EodFails(r)
      PROVE  WorkflowInv'
  <2> DEFINE db == daily[r].db
  <2>1. PICK s \in Unprocessed(r) :
           /\ erp' \in {erp, Append(erp, BatchFor(db, s))}
           /\ daily' = [daily EXCEPT ![r].step = "failed", ![r].db.unfinished = @ \cup {s}]
        BY <1>9 DEF EodFails
  <2> DEFINE left == [db EXCEPT !.unfinished = @ \cup {s}]
             run == [daily[r] EXCEPT !.step = "failed", !.db = left]
  <2>2. /\ s \in Sessions /\ db \in Database
        /\ Kept(db, Range(erp)) /\ s \notin Range(db.book)
        BY <1>9, <1>2, <2>1 DEF EodFails, HasDatabase, Unprocessed, Answers, Processed
  <2>3. BatchFor(db, s) \in ErpBatch
        BY <2>2, CompletedIsKept
  <2>4. erp' \in Seq(ErpBatch) /\ Range(erp) \subseteq Range(erp')
    <3>1. CASE erp' = erp
          BY <3>1, Kinds
    <3>2. CASE erp' = Append(erp, BatchFor(db, s))
      <4> DEFINE batch == BatchFor(db, s)
      <4> HIDE DEF batch
      <4>1. batch \in ErpBatch
            BY <2>3 DEF batch
      <4>2. Append(erp, batch) \in Seq(ErpBatch) /\ Range(Append(erp, batch)) = Range(erp) \cup {batch}
            BY <4>1, Kinds, AppendProperties, RangeOfAppend
      <4> QED BY <3>2, <4>2 DEF batch
    <3> QED BY <2>1, <3>1, <3>2
  <2>5. left \in Database
        BY <2>2 DEF Database
  <2>6. run \in DailyRun /\ run.step = "failed"
        BY <1>2, <2>5
  <2>7. /\ daily' = [daily EXCEPT ![r] = run]
        /\ UNCHANGED <<today, successes, monthly, researched, started>>
        BY <1>9, <2>1, Kinds DEF EodFails
  <2>8. \A q \in Runners : daily[q].step # "none" => q = r
        BY <1>2, <1>9 DEF EodFails
  <2> HIDE DEF run, left, db
  <2> QED BY <1>1, <2>4, <2>6, <2>7, <2>8, Kinds, DailyStep
<1>15. ASSUME NEW r \in Runners, EodRaises(r)
       PROVE  WorkflowInv'
  <2> DEFINE run == [daily[r] EXCEPT !.step = "failed"]
  <2>1. run \in DailyRun /\ run.step = "failed"
        BY <1>2
  <2>2. /\ daily' = [daily EXCEPT ![r] = run]
        /\ UNCHANGED <<today, successes, monthly, erp, researched, started>>
        BY <1>15, Kinds DEF EodRaises
  <2>3. \A q \in Runners : daily[q].step # "none" => q = r
        BY <1>2, <1>15 DEF EodRaises
  <2> HIDE DEF run
  <2> QED BY <1>1, <2>1, <2>2, <2>3, Kinds, DailyStep
<1>10. ASSUME NEW r \in Runners, Upload(r)
       PROVE  WorkflowInv'
  <2> DEFINE success == [workflow |-> daily[r].workflow, db |-> daily[r].db]
  <2>1. HasDatabase(r) /\ \A q \in Runners : daily[q].step # "none" => q = r
        BY <1>10, <1>2 DEF Upload, HasDatabase
  <2>2. success \in Success /\ success.db = daily[r].db
        BY <1>2 DEF Success
  <2>3. successes' = Append(successes, success) /\ UNCHANGED <<today, erp>>
        BY <1>10 DEF Upload
  <2> HIDE DEF success
  <2>4. /\ successes' \in Seq(Success)
        /\ \A i \in DOMAIN successes' : Kept(successes'[i].db, Range(erp'))
        /\ DailyHistoryIsOneChain'
        BY <1>2, <2>1, <2>2, <2>3, UploadStep
  <2>5. \A q \in Runners : daily'[q].step = "none"
        BY <1>10, <2>1, Kinds DEF Upload, NoDaily
  <2>6. daily' \in [Runners -> DailyRun]
        BY <1>10, Kinds DEF Upload
  <2>7. UNCHANGED <<today, researched, started, erp, monthly>>
        BY <1>10 DEF Upload
  <2>8. TypeOK'
        BY <2>4, <2>6, <2>7 DEF WorkflowInv, TypeOK
  <2>9. OneDaily' /\ Continues' /\ \A q \in Runners : ~HasDatabase(q)'
        BY <2>5 DEF OneDaily, Continues, HasDatabase
  <2> QED BY <2>4, <2>7, <2>8, <2>9 DEF WorkflowInv
<1>11. CASE StartMonthly
  <2> DEFINE db == [EmptyDatabase EXCEPT !.universe = researched + 1]
  <2>1. researched + 1 \in 0..NUniverses /\ EmptyDatabase \in Database
        BY <1>11, <1>1, Kinds DEF StartMonthly, MonthlyRun, NoMonthly
  <2>2. EmptyDatabase.unfinished = {} /\ EmptyDatabase.book = <<>>
        BY DEF EmptyDatabase
  <2>3. db \in Database /\ db.unfinished = {} /\ db.book = <<>>
        BY <2>1, <2>2 DEF Database
  <2>4. monthly' = [step |-> "upload", db |-> db]
        BY <1>11 DEF StartMonthly
  <2> HIDE DEF db
  <2>5. monthly' \in MonthlyRun /\ monthly'.db = db
        BY <2>3, <2>4 DEF MonthlyRun
  <2>6. Kept(monthly'.db, Range(erp))
        BY <2>3, <2>5 DEF Kept
  <2>7. researched' \in 0..NUniverses /\ started' \in 0..NRuns
        BY <1>11, <1>1 DEF StartMonthly
  <2> QED BY <1>11, <2>5, <2>6, <2>7, MonthlyStep DEF StartMonthly
<1>12. CASE MonthlyFails
  <2>1. monthly' \in MonthlyRun /\ monthly'.step = "none"
        BY <1>12, Kinds DEF MonthlyFails, NoMonthly
  <2> QED BY <1>12, <1>1, <2>1, MonthlyStep DEF MonthlyFails
<1>13. CASE UploadMonthly
  <2> DEFINE success == [workflow |-> "monthly-research", db |-> monthly.db]
  <2>1. success \in Success /\ success.db = monthly.db
           /\ success.workflow # "daily-market-cycle"
        BY Kinds DEF Success, Names, MonthlyRun
  <2>2. Kept(monthly.db, Range(erp))
        BY <1>13 DEF UploadMonthly, WorkflowInv
  <2>3. successes' = Append(successes, success)
           /\ UNCHANGED <<today, erp, daily, researched, started>> /\ monthly' = NoMonthly
        BY <1>13 DEF UploadMonthly
  <2> HIDE DEF success
  <2>4. /\ successes' \in Seq(Success)
        /\ \A i \in DOMAIN successes' :
              \/ i \in DOMAIN successes /\ successes'[i] = successes[i]
              \/ i \notin DOMAIN successes /\ successes'[i] = success
        /\ \A i \in DOMAIN successes' : Kept(successes'[i].db, Range(erp'))
        /\ DailyHistoryIsOneChain'
        BY <2>1, <2>2, <2>3, UploadStep
  <2>5. TypeOK'
        BY <2>3, <2>4, Kinds DEF WorkflowInv, TypeOK, MonthlyRun
  <2>6. OneDaily' /\ Continues'
        BY <2>1, <2>3, <2>4 DEF WorkflowInv, OneDaily, Continues, HasDatabase
  <2>7. monthly'.step = "none"
        BY <2>3 DEF NoMonthly
  <2> QED BY <2>3, <2>4, <2>5, <2>6, <2>7 DEF WorkflowInv, HasDatabase
<1>14. CASE UNCHANGED workflowVars
       BY <1>14 DEF workflowVars, WorkflowInv, TypeOK, OneDaily, Continues,
          HasDatabase, DailyHistoryIsOneChain
<1> QED BY <1>3, <1>4, <1>5, <1>6, <1>7, <1>8, <1>9, <1>10, <1>11, <1>12, <1>13, <1>14, <1>15
        DEF Next

-------------------------------------------------------------------------------
\* The types of the workflows' variables.
THEOREM WorkflowTypes == Spec => []TypeOK
<1>1. Spec => []WorkflowInv
      BY InvariantHoldsFirst, InvariantStays, PTL DEF Spec
<1> QED BY <1>1, InvariantGives, PTL

\* The restore step and the concurrency group: however the workflow is started
\* and wherever it fails, its uploaded databases are one history.
THEOREM OneHistory == Spec => []DailyHistoryIsOneChain
<1>1. Spec => []WorkflowInv
      BY InvariantHoldsFirst, InvariantStays, PTL DEF Spec
<1> QED BY <1>1, InvariantGives, PTL

\* Upload after run-eod, which completes after its batch was accepted: the ERP
\* has all of every database that can be restored.
THEOREM UploadsDelivered == Spec => []UploadedIsDelivered
<1>1. Spec => []WorkflowInv
      BY InvariantHoldsFirst, InvariantStays, PTL DEF Spec
<1> QED BY <1>1, InvariantGives, PTL

\* run-eod skips the sessions its database has, in whatever order Yahoo names
\* them: no session is traded twice in one database.
THEOREM SessionsOnce == Spec => []NoSessionTwice
<1>1. Spec => []WorkflowInv
      BY InvariantHoldsFirst, InvariantStays, PTL DEF Spec
<1> QED BY <1>1, InvariantGives, PTL

\* A failed run leaves its session's row in its database, and does not upload
\* it: no restored database blocks a session it has not completed.
THEOREM RetriesPossible == Spec => []FailedSessionsCanBeRetried
<1>1. Spec => []WorkflowInv
      BY InvariantHoldsFirst, InvariantStays, PTL DEF Spec
<1> QED BY <1>1, InvariantGives, PTL
===============================================================================
