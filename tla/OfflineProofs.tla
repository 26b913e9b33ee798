----------------------------- MODULE OfflineProofs -----------------------------
(***************************************************************************)
(* The pure tools keep what they promise, for every request: the embargo   *)
(* keeps labels out of the validation period and picks are new; complete   *)
(* rows and universe files survive; a backtest can be executed; and the    *)
(* universe policy decides on every candidate within its limits.           *)
(* The steps never change a request, so each theorem is about one answer   *)
(* (Answers).  What a loop computes is a history of states (StepByStep,    *)
(* HistoryExists), and what it sorts is taken rank by rank (RankedOnce).   *)
(***************************************************************************)
EXTENDS OfflineProperties, SumTheorems

\* train_xgboost.py 368-371: the dates strictly between a training date and a
\* validation date are at least as many as the embargo.
LEMMA EmbargoLies ==
    ASSUME NEW dates \in SUBSET (1 .. LastSession),
           NEW d \in TrainingDates(dates), NEW v \in ValidationDates(dates)
    PROVE  /\ d < v
           /\ Cardinality({e \in dates : d < e /\ e < v}) >= Embargo
<1> DEFINE From(x) == {e \in dates : e >= x}
           Middle == {e \in dates : d < e /\ e < v}
<1>1. /\ LastSession \in Nat
      /\ \A e \in dates : e \in Nat
      /\ d \in dates /\ v \in dates /\ d \in Nat /\ v \in Nat
      BY RequestAssumption DEF TrainingDates, ValidationDates
<1>2. IsFiniteSet(dates)
  <2>1. IsFiniteSet(1 .. LastSession)
        BY <1>1, FS_Interval
  <2> QED BY <2>1, FS_Subset
<1>3. \A S \in SUBSET dates : IsFiniteSet(S) /\ Cardinality(S) \in Nat
      BY <1>2, FS_Subset, FS_CardinalityType
<1>4. /\ Cardinality(From(d)) > ValidationDays + Embargo
      /\ Cardinality(From(v)) <= ValidationDays
      BY DEF TrainingDates, ValidationDates, Age
<1>5. ValidationDays \in Nat /\ Embargo \in Nat
      BY TrainingAssumption
<1>6. d < v
  <2>1. SUFFICES ASSUME v <= d PROVE FALSE
        BY <1>1
  <2>2. From(d) \subseteq From(v)
    <3> SUFFICES ASSUME NEW e \in dates, e >= d PROVE e >= v
        OBVIOUS
    <3>1. e \in Nat
          BY <1>1
    <3> QED BY <2>1, <1>1, <3>1
  <2>3. IsFiniteSet(From(v)) /\ Cardinality(From(d)) \in Nat
           /\ Cardinality(From(v)) \in Nat
        BY <1>3
  <2>4. Cardinality(From(d)) <= Cardinality(From(v))
        BY <2>2, <2>3, FS_Subset
  <2> QED BY <2>3, <2>4, <1>4, <1>5
<1>7. Cardinality(Middle) >= Embargo
  <2>1. From(d) = (Middle \cup From(v)) \cup {d}
    <3>1. \A e \in dates :
             e >= d <=> (d < e /\ e < v) \/ e >= v \/ e = d
          BY <1>1, <1>6
    <3> QED BY <1>1, <3>1
  <2>2. /\ IsFiniteSet(Middle) /\ Cardinality(Middle) \in Nat
        /\ IsFiniteSet(From(v)) /\ Cardinality(From(v)) \in Nat
        /\ IsFiniteSet(Middle \cup From(v))
        /\ Cardinality(Middle \cup From(v)) \in Nat
        /\ Cardinality(From(d)) \in Nat
        BY <1>3
  <2>3. Middle \cap From(v) = {}
    <3>1. \A e \in dates : ~(e < v /\ e >= v)
          BY <1>1
    <3> QED BY <3>1
  <2>4. Cardinality(Middle \cup From(v))
          = Cardinality(Middle) + Cardinality(From(v))
        BY <2>2, <2>3, FS_Union, FS_EmptySet
  <2> HIDE DEF From, Middle
  <2>5. Cardinality((Middle \cup From(v)) \cup {d})
           <= Cardinality(Middle \cup From(v)) + 1
    <3> DEFINE Rest == Middle \cup From(v)
    <3>1. Cardinality(Rest \cup {d})
             = IF d \in Rest THEN Cardinality(Rest) ELSE Cardinality(Rest) + 1
          BY <2>2, FS_AddElement
    <3>2. Cardinality(Rest) \in Nat
          BY <2>2
    <3> HIDE DEF Rest
    <3>3. Cardinality(Rest \cup {d}) <= Cardinality(Rest) + 1
          BY <3>1, <3>2
    <3> QED BY <3>3 DEF Rest
  <2>6. Cardinality(Middle) + Cardinality(From(v)) + 1
           > ValidationDays + Embargo
        BY <2>1, <2>2, <2>4, <2>5, <1>4, <1>5
  <2> QED BY <2>2, <2>6, <1>4, <1>5
<1> QED BY <1>6, <1>7

\* The label of a training row looks no further than the embargo, when its
\* ticker has a row for every trainable date after it.
LEMMA WindowEndsBefore ==
    ASSUME NEW dates \in SUBSET (1 .. LastSession),
           NEW sessions \in SUBSET (1 .. LastSession),
           NEW d \in TrainingDates(dates), NEW v \in ValidationDates(dates),
           \A e \in dates : e > d => e \in sessions,
           NEW w \in Window(sessions, d)
    PROVE  w < v
<1> DEFINE Middle == {e \in dates : d < e /\ e < v}
           Upto == {f \in sessions : d < f /\ f <= w}
<1>1. /\ LastSession \in Nat
      /\ (\A e \in dates : e \in Nat) /\ (\A e \in sessions : e \in Nat)
      /\ d \in Nat /\ v \in Nat /\ w \in Nat /\ w \in sessions /\ w > d
      BY RequestAssumption DEF TrainingDates, ValidationDates, Window
<1>2. Horizon \in Nat /\ Embargo \in Nat /\ Embargo >= Horizon
      BY TrainingAssumption
<1>3. Cardinality(Upto) <= Horizon
      BY DEF Window
<1>4. Cardinality(Middle) >= Embargo
      BY EmbargoLies
<1>5. SUFFICES ASSUME w >= v PROVE FALSE
      BY <1>1
<1>6. Middle \cup {w} \subseteq Upto
  <2>1. \A e \in dates : d < e /\ e < v => e \in sessions /\ e <= w
        BY <1>1, <1>5
  <2>2. w \in Upto
        BY <1>1
  <2> QED BY <2>1, <2>2
<1>7. w \notin Middle
      BY <1>1, <1>5
<1>8. IsFiniteSet(1 .. LastSession)
      BY <1>1, FS_Interval
<1>9. Middle \subseteq 1 .. LastSession /\ Upto \subseteq 1 .. LastSession
      OBVIOUS
<1>10. /\ IsFiniteSet(Middle) /\ IsFiniteSet(Upto)
       /\ Cardinality(Middle) \in Nat /\ Cardinality(Upto) \in Nat
       BY <1>8, <1>9, FS_Subset, FS_CardinalityType
<1>11. Cardinality(Middle \cup {w}) = Cardinality(Middle) + 1
       BY <1>7, <1>10, FS_AddElement
<1>12. Cardinality(Middle \cup {w}) <= Cardinality(Upto)
       BY <1>6, <1>10, FS_Subset
<1> QED BY <1>2, <1>3, <1>4, <1>10, <1>11, <1>12

-------------------------------------------------------------------------------
\* Every request is one of its kind, and its answer, once there, is what the
\* tool computes from it.
Answers ==
    /\ args.op = "train" => args \in TrainingRequests
    /\ args.op = "research" => args \in ResearchRequests
    /\ args.op = "file" => args \in FileRequests
    /\ args.op = "backtest" => args \in BacktestRequests
    /\ args.op = "policy" => args \in PolicyRequests
    /\ Answered("train") =>
          \/ ret[1].error
          \/ /\ ret[1].split = Split(args.panel)
             /\ ArePicks(args.panel, args.scores, args.threshold, ret[1].picks)
    /\ Answered("research") =>
          ret[1] = Researched(args.report, args.answers, args.file)
    /\ Answered("file") => ret[1] = Loaded(args.file, args.names, args.start)
    /\ Answered("backtest") =>
          ret[1] = RunBacktest(args.scores, args.prices, args.sessions)
    /\ Answered("policy") => ret[1] = Decision(args.ai, args.proposal)

\* Every reachable state's answer belongs to its request.
LEMMA AnswersInvariant == Spec => []Answers
<1>1. Init => Answers
  BY RequestAssumption DEF Init, Answers, Answered
<1>2. Answers /\ [Next]_vars => Answers'
  <2> SUFFICES ASSUME Answers, [Next]_vars PROVE Answers'
    OBVIOUS
  <2>1. CASE EvaluatePolicy
    BY <2>1 DEF EvaluatePolicy, Answer, Answers, Answered
  <2>2. CASE ResearchFile
    BY <2>2 DEF ResearchFile, Answer, Answers, Answered
  <2>3. CASE LoadFile
    BY <2>3 DEF LoadFile, Answer, Answers, Answered
  <2>4. CASE TrainFails
    BY <2>4 DEF TrainFails, Answer, Answers, Answered
  <2>5. CASE Train
    <3>1. PICK picks : /\ ret' = <<[error |-> FALSE, split |-> Split(args.panel),
                                    picks |-> picks]>>
                       /\ ArePicks(args.panel, args.scores, args.threshold, picks)
                       /\ args' = args /\ args.op = "train"
      BY <2>5 DEF Train, Answer
    <3>2. /\ ret'[1].split = Split(args.panel)
          /\ ret'[1].picks = picks
      BY <3>1
    <3>3. QED
      BY <3>1, <3>2 DEF Answers, Answered
  <2>6. CASE Backtested
    BY <2>6 DEF Backtested, Answer, Answers, Answered
  <2>7. CASE UNCHANGED vars
    BY <2>7 DEF vars, Answers, Answered
  <2>8. QED
    BY <2>1, <2>2, <2>3, <2>4, <2>5, <2>6, <2>7 DEF Next
<1>3. QED
  BY <1>1, <1>2, PTL DEF Spec

\* The dates of the trainable rows are sessions of the panel.
LEMMA DatesAreSessions ==
    ASSUME NEW r \in TrainingRequests
    PROVE  /\ TrainableDates(r.panel) \subseteq 1 .. LastSession
           /\ \A x \in Trainable(r.panel) :
                 r.panel.sessions[x[1]] \in SUBSET (1 .. LastSession)
<1>1. \A x \in Rows(r.panel) : /\ x[1] \in DOMAIN r.panel.sessions
                               /\ x[2] \in r.panel.sessions[x[1]]
      BY DEF Rows
<1>2. \A t \in DOMAIN r.panel.sessions :
         r.panel.sessions[t] \subseteq 1 .. LastSession
      BY RequestAssumption
<1> QED BY <1>1, <1>2 DEF Trainable, TrainableDates

\* train_xgboost.py 343-344: no training label of a ticker without missing
\* sessions looks into the validation period, whatever the sizes of the split
\* and the horizon, as long as the embargo is at least the horizon.
THEOREM LabelsDoNotLeak == Spec => []NoLabelLeaks
<1>1. Answers => NoLabelLeaks
  <2> SUFFICES ASSUME Answers, Answered("train"), ~ret[1].error,
                      NEW r \in ret[1].split.training,
                      NEW x \in ret[1].split.validation,
                      Unbroken(args.panel, r[1], r[2]),
                      NEW w \in Window(args.panel.sessions[r[1]], r[2])
               PROVE  w < x[2]
      BY DEF NoLabelLeaks
  <2> DEFINE dates == TrainableDates(args.panel)
  <2>1. args \in TrainingRequests /\ ret[1].split = Split(args.panel)
        BY DEF Answers, Answered
  <2>2. /\ r \in Trainable(args.panel) /\ r[2] \in TrainingDates(dates)
        /\ x[2] \in ValidationDates(dates)
        BY <2>1 DEF Split, RowsOf
  <2>3. /\ dates \in SUBSET (1 .. LastSession)
        /\ args.panel.sessions[r[1]] \in SUBSET (1 .. LastSession)
        BY <2>1, <2>2, DatesAreSessions
  <2>4. \A e \in dates : e > r[2] => e \in args.panel.sessions[r[1]]
        BY DEF Unbroken
  <2> HIDE DEF dates
  <2> QED BY <2>2, <2>3, <2>4, WindowEndsBefore
<1> QED BY <1>1, AnswersInvariant, PTL

\* The newest session of a panel with rows is one of a row.
LEMMA NewestIsLast ==
    ASSUME NEW r \in TrainingRequests, NEW x \in Rows(r.panel)
    PROVE  /\ Newest(r.panel) \in Nat
           /\ \A y \in Rows(r.panel) : y[2] <= Newest(r.panel)
<1> DEFINE days == {y[2] : y \in Rows(r.panel)}
<1>1. \A y \in Rows(r.panel) : y[2] \in 0 .. LastSession
  <2>1. \A y \in Rows(r.panel) : /\ y[1] \in DOMAIN r.panel.sessions
                                 /\ y[2] \in r.panel.sessions[y[1]]
    BY DEF Rows
  <2>2. \A t \in DOMAIN r.panel.sessions :
           r.panel.sessions[t] \subseteq 1 .. LastSession
    BY RequestAssumption
  <2>3. LastSession \in Nat
    BY RequestAssumption
  <2>4. \A y \in Rows(r.panel) : y[2] \in 1 .. LastSession
    BY <2>1, <2>2
  <2>5. QED
    BY <2>3, <2>4
<1>2. days \in SUBSET (0 .. LastSession) /\ days # {}
  BY <1>1
<1>3. PICK d \in days : \A e \in days : e <= d
  <2> HIDE DEF days
  <2>1. QED
    BY <1>2, RequestAssumption, GreatestNatural
<1>4. \A y \in Rows(r.panel) : y[2] <= d
  BY <1>3
<1>5. /\ Newest(r.panel) \in days
      /\ \A y \in Rows(r.panel) : y[2] <= Newest(r.panel)
  BY <1>3, <1>4 DEF Newest
<1>6. days \subseteq Nat
  BY <1>2
<1>7. QED
  BY <1>5, <1>6

\* train_latest_model, predict_latest_buys: for every panel and size of the
\* split, no row the model that scores was fitted on is of the session it
\* scores, because a row with a label has later ones.
THEOREM PicksAreNew == Spec => []NoPickIsTrainedOn
<1>1. Answers => NoPickIsTrainedOn
  <2> SUFFICES ASSUME Answers, Answered("train"), ~ret[1].error,
                      NEW r \in ret[1].split.production
               PROVE  r[2] < Newest(args.panel)
    BY DEF NoPickIsTrainedOn
  <2> DEFINE own == args.panel.sessions[r[1]]
             later == {e \in own : e > r[2]}
  <2>1. args \in TrainingRequests /\ ret[1].split = Split(args.panel)
    BY DEF Answers, Answered
  <2>2. r \in Trainable(args.panel)
    BY <2>1 DEF Split, RowsOf
  <2>3. /\ r \in Rows(args.panel) /\ Cardinality(later) >= Horizon
        /\ r[1] \in DOMAIN args.panel.sessions /\ r[2] \in own
    BY <2>2 DEF Trainable, Labelled, Rows
  <2>4. own \subseteq 1 .. LastSession /\ LastSession \in Nat
    BY <2>1, <2>3, RequestAssumption
  <2>5. later # {}
    <3>1. Horizon \in Nat \ {0}
      BY TrainingAssumption
    <3> HIDE DEF later
    <3>2. QED
      BY <2>3, <3>1, FS_EmptySet
  <2>6. PICK e \in own : e > r[2]
    BY <2>5
  <2>7. <<r[1], e>> \in Rows(args.panel)
    BY <2>3, <2>6 DEF Rows
  <2>8. e <= Newest(args.panel) /\ Newest(args.panel) \in Nat
    BY <2>1, <2>7, NewestIsLast
  <2>9. r[2] \in Nat /\ e \in Nat
    BY <2>3, <2>4, <2>6
  <2>10. QED
    BY <2>6, <2>8, <2>9
<1>2. QED
  BY <1>1, AnswersInvariant, PTL

-------------------------------------------------------------------------------
(***************************************************************************)
(* The files.                                                              *)
(***************************************************************************)

\* load_market_data: in every file, of the complete rows of a ticker and a
\* session exactly the last one is loaded, whatever rows cannot be read and
\* however the ticker is spelled.
THEOREM LastCompleteRow == Spec => []CompleteRowsSurvive
<1>1. Answers => CompleteRowsSurvive
  <2> SUFFICES ASSUME Answers, Answered("file"),
                      NEW t \in UniverseTickers(args.names),
                      NEW d \in {args.file[i].session : i \in DOMAIN args.file}
               PROVE
        LET rows == {i \in DOMAIN args.file :
                       /\ Spelling[args.file[i].ticker] = t
                       /\ args.file[i].session = d
                       /\ args.file[i].whole}
            loaded == {r \in ret[1] : r.ticker = t /\ r.session = d}
        IN  rows # {} /\ d >= args.start =>
               \E i \in rows :
                  /\ \A j \in rows : j <= i
                  /\ loaded = {[ticker |-> t, session |-> d,
                                bar |-> args.file[i].bar]}
    BY DEF CompleteRowsSurvive
  <2> DEFINE file == args.file
             rows == {i \in DOMAIN file : /\ Spelling[file[i].ticker] = t
                                          /\ file[i].session = d
                                          /\ file[i].whole}
             loaded == {r \in ret[1] : r.ticker = t /\ r.session = d}
             row(i) == [ticker |-> Spelling[file[i].ticker],
                        session |-> file[i].session, bar |-> file[i].bar]
             kept == {k \in Cleaned(file) :
                        /\ Spelling[file[k].ticker] \in UniverseTickers(args.names)
                        /\ file[k].session >= args.start}
  <2>1. /\ IsList(file)
        /\ ret[1] = {row(i) : i \in kept}
        /\ t # Blank
    <3>1. args \in FileRequests /\ ret[1] = Loaded(args.file, args.names, args.start)
      BY DEF Answers, Answered
    <3>2. QED
      BY <3>1, RequestAssumption DEF Loaded, UniverseTickers
  <2> SUFFICES ASSUME rows # {}, d >= args.start
               PROVE  \E i \in rows :
                        /\ \A j \in rows : j <= i
                        /\ loaded = {[ticker |-> t, session |-> d,
                                      bar |-> file[i].bar]}
    OBVIOUS
  <2>2. PICK n \in Nat : DOMAIN file = 1 .. n
    BY <2>1 DEF IsList
  <2>3. PICK i \in rows : \A j \in rows : j <= i
    <3>1. rows \in SUBSET (0 .. n)
      BY <2>2
    <3> HIDE DEF rows
    <3>2. QED
      BY <3>1, GreatestNatural
  <2>4. i \in kept /\ i \in Usable(file)
    <3>1. \A j \in Usable(file) :
             (Spelling[file[j].ticker] = Spelling[file[i].ticker]
              /\ file[j].session = file[i].session) => j \in rows
      BY DEF Usable
    <3>2. i \in Usable(file)
      BY <2>1 DEF Usable
    <3>3. i \in Cleaned(file)
      BY <2>3, <3>1, <3>2 DEF Cleaned
    <3>4. QED
      BY <3>2, <3>3
  <2>5. ASSUME NEW k \in kept, row(k).ticker = t, row(k).session = d
        PROVE  k = i
    <3>1. k \in Usable(file) /\ k \in Cleaned(file)
      BY DEF Cleaned
    <3>2. k \in rows
      BY <2>5, <3>1 DEF Usable
    <3>3. k <= i
      BY <2>3, <3>2
    <3>4. i <= k
      BY <2>4, <2>5, <3>1 DEF Cleaned
    <3>5. i \in Nat /\ k \in Nat
      BY <2>2, <3>2
    <3>6. QED
      BY <3>3, <3>4, <3>5
  <2>6. row(i) = [ticker |-> t, session |-> d, bar |-> file[i].bar]
    OBVIOUS
  <2>7. row(i) \in loaded
    <3>1. row(i) \in ret[1]
      BY <2>1, <2>4
    <3>2. row(i).ticker = t /\ row(i).session = d
      BY <2>6
    <3> HIDE DEF row
    <3>3. QED
      BY <3>1, <3>2
  <2>8. ASSUME NEW r \in loaded PROVE r = row(i)
    <3>1. PICK k \in kept : r = row(k)
      BY <2>1, <2>8
    <3>2. k = i
      BY <2>5, <2>8, <3>1
    <3>3. QED
      BY <3>1, <3>2
  <2>9. loaded = {row(i)}
    <3> HIDE DEF loaded, row
    <3>1. QED
      BY <2>7, <2>8
  <2>10. QED
    BY <2>3, <2>6, <2>9
<1>2. QED
  BY <1>1, AnswersInvariant, PTL

\* What validates is a list of different tickers, each spelled out.
LEMMA AcceptedTickers ==
    ASSUME NEW r \in ResearchRequests, NEW i \in DOMAIN r.answers,
           Acceptable(r.answers[i])
    PROVE  LET file == Normalized(r.answers[i].entries)
           IN  /\ Cardinality(UniverseTickers(file)) = ExpectedSize
               /\ DownloadTickers(file) = UniverseTickers(file)
<1> DEFINE entries == r.answers[i].entries
           file == Normalized(entries)
           D == 1 .. ExpectedSize
           T == UniverseTickers(file)
<1>1. /\ DOMAIN entries = D
      /\ \A k \in D : /\ entries[k].ticker \in DOMAIN Spelling
                      /\ Spelling[entries[k].ticker] # Blank
      /\ ExpectedSize \in Nat
  <2>1. /\ IsList(entries) /\ Len(entries) = ExpectedSize
        /\ \A k \in DOMAIN entries : entries[k].ticker \in DOMAIN Spelling
    BY RequestAssumption DEF Acceptable
  <2>2. DOMAIN entries = D
    BY <2>1 DEF IsList
  <2>3. QED
    BY <2>1, <2>2, SpellingAssumption DEF Acceptable
<1>2. IsInjective(file)
  BY DEF Acceptable
<1>3. /\ DOMAIN file = D
      /\ \A k \in D : file[k] = Spelling[entries[k].ticker]
  BY <1>1 DEF Normalized
<1>4. \A k \in D : /\ file[k] # Blank /\ Spelling[file[k]] = file[k]
                   /\ Upper[file[k]] = file[k]
  BY <1>1, <1>3, SpellingAssumption
<1> HIDE DEF file, D
<1>5. T = {file[k] : k \in D}
  BY <1>3, <1>4 DEF UniverseTickers
<1>6. DownloadTickers(file) = T
  BY <1>3, <1>4, <1>5 DEF DownloadTickers
<1>7. file \in Bijection(D, T)
  <2>1. file \in [D -> T]
    <3>1. file = [k \in D |-> file[k]]
      BY <1>3 DEF file, Normalized
    <3>2. QED
      BY <1>5, <3>1
  <2>2. \A a, b \in D : file[a] = file[b] => a = b
    BY <1>2, <1>3 DEF IsInjective
  <2>3. \A x \in T : \E k \in D : file[k] = x
    BY <1>5
  <2>4. QED
    BY <2>1, <2>2, <2>3 DEF Bijection, Injection, Surjection, IsInjective
<1>8. IsFiniteSet(D) /\ Cardinality(D) = ExpectedSize
  BY <1>1, FS_Interval DEF D
<1>9. Cardinality(T) = ExpectedSize
  BY <1>7, <1>8, FS_Bijection DEF ExistsBijection
<1>10. QED
  BY <1>6, <1>9 DEF file

\* get_ticker_universe: however many attempts there are and whatever the model
\* answers, a saved file is complete and read alike by both of its readers, and
\* no usable answer is passed over.
THEOREM CompleteUniverseFile == Spec => []UniverseFileIsComplete
<1>1. Answers => UniverseFileIsComplete
  <2> SUFFICES ASSUME Answers, Answered("research") PROVE UniverseFileIsComplete
    BY DEF UniverseFileIsComplete
  <2> DEFINE answers == args.answers
             decisive == Decisive(answers)
             first == CHOOSE i \in decisive : \A j \in decisive : i <= j
             usable == {i \in DOMAIN answers :
                          i <= MaxFormatAttempts /\ Acceptable(answers[i])}
  <2>1. /\ args \in ResearchRequests
        /\ ret[1] = Researched(args.report, answers, args.file)
    BY DEF Answers, Answered
  <2>2. /\ usable \subseteq decisive
        /\ decisive \subseteq DOMAIN answers
        /\ \A i \in decisive : answers[i].kind = "raises" \/ Acceptable(answers[i])
    BY DEF Decisive
  <2>3. CASE ~args.report \/ decisive = {}
    <3>1. ret[1] = [saved |-> FALSE, file |-> args.file]
      BY <2>1, <2>3 DEF Researched
    <3>2. usable = {} \/ ~args.report
      BY <2>2, <2>3
    <3>3. QED
      BY <3>1, <3>2 DEF UniverseFileIsComplete
  <2>4. CASE args.report /\ decisive # {}
    <3>1. ret[1] = IF answers[first].kind = "raises"
                   THEN [saved |-> FALSE, file |-> args.file]
                   ELSE [saved |-> TRUE, file |-> Normalized(answers[first].entries)]
      BY <2>1, <2>4 DEF Researched
    <3>2. first \in decisive /\ \A j \in decisive : first <= j
      <4>1. decisive \in SUBSET Nat
        BY <2>1, <2>2, RequestAssumption DEF IsList
      <4> HIDE DEF decisive
      <4>2. \E i \in decisive : \A j \in decisive : i <= j
        BY <2>4, <4>1, LeastNatural
      <4>3. QED
        BY <4>2
    <3> HIDE DEF first, decisive
    <3>3. CASE answers[first].kind = "raises"
      <4>1. ret[1] = [saved |-> FALSE, file |-> args.file]
        BY <3>1, <3>3
      <4>2. \A j \in usable : first < j
        <5>1. \A j \in usable : first <= j /\ j # first
          BY <2>2, <3>2, <3>3 DEF Acceptable
        <5>2. \A j \in DOMAIN answers : j \in Nat
          BY <2>1, RequestAssumption DEF IsList
        <5>3. QED
          BY <2>2, <3>2, <5>1, <5>2
      <4>3. first \in DOMAIN answers
        BY <2>2, <3>2
      <4>4. QED
        BY <3>3, <4>1, <4>2, <4>3 DEF UniverseFileIsComplete
    <3>4. CASE answers[first].kind # "raises"
      <4>1. ret[1] = [saved |-> TRUE, file |-> Normalized(answers[first].entries)]
        BY <3>1, <3>4
      <4>2. first \in DOMAIN answers /\ Acceptable(answers[first])
        BY <2>2, <3>2, <3>4
      <4>3. /\ Cardinality(UniverseTickers(ret[1].file)) = ExpectedSize
            /\ DownloadTickers(ret[1].file) = UniverseTickers(ret[1].file)
        BY <2>1, <4>1, <4>2, AcceptedTickers
      <4>4. ret[1].saved
        BY <4>1
      <4>5. QED
        BY <4>3, <4>4 DEF UniverseFileIsComplete
    <3>5. QED
      BY <3>3, <3>4
  <2>5. QED
    BY <2>3, <2>4
<1>2. QED
  BY <1>1, AnswersInvariant, PTL

-------------------------------------------------------------------------------
(***************************************************************************)
(* The backtest.                                                           *)
(***************************************************************************)

\* The session n rows after d is there when there are n rows after d.
LEMMA ShiftedIs ==
    ASSUME NEW bars, DOMAIN bars \subseteq 1 .. LastSession, NEW d \in Nat,
           NEW n \in Nat \ {0}, HasShifted(bars, d, n)
    PROVE  /\ Shifted(bars, d, n) \in DOMAIN bars
           /\ Shifted(bars, d, n) >= d
           /\ Cardinality({f \in DOMAIN bars : d < f /\ f <= Shifted(bars, d, n)}) = n
<1> DEFINE days == DOMAIN bars
           upto(e) == {f \in days : d < f /\ f <= e}
           later == {f \in days : f > d}
           far == {e \in later : Cardinality(upto(e)) >= n}
<1>1. /\ LastSession \in Nat /\ \A e \in days : e \in Nat /\ e <= LastSession
      /\ IsFiniteSet(days)
  <2>1. LastSession \in Nat /\ \A e \in days : e \in 1 .. LastSession
    BY RequestAssumption
  <2>2. IsFiniteSet(1 .. LastSession)
    BY <2>1, FS_Interval
  <2>3. IsFiniteSet(days)
    BY <2>2, FS_Subset
  <2>4. QED
    BY <2>1, <2>3
<1>2. \A T \in SUBSET days : IsFiniteSet(T) /\ Cardinality(T) \in Nat
  BY <1>1, FS_Subset, FS_CardinalityType
<1>3. Cardinality(later) >= n
  BY DEF HasShifted
<1>4. later # {}
  <2> HIDE DEF later
  <2>1. QED
    BY <1>3, FS_EmptySet
<1>5. far # {}
  <2>1. later \in SUBSET (0 .. LastSession)
    BY <1>1
  <2>2. PICK e \in later : \A f \in later : f <= e
    <3> HIDE DEF later
    <3>1. QED
      BY <1>1, <1>4, <2>1, GreatestNatural
  <2>3. upto(e) = later
    BY <2>2
  <2>4. e \in far
    BY <1>3, <2>3
  <2>5. QED
    BY <2>4
<1>6. PICK e \in far : \A f \in far : e <= f
  <2>1. far \in SUBSET Nat
    BY <1>1
  <2> HIDE DEF far
  <2>2. QED
    BY <1>5, <2>1, LeastNatural
<1>7. Cardinality(upto(e)) = n
  <2>1. SUFFICES ASSUME Cardinality(upto(e)) > n PROVE FALSE
    BY <1>2, <1>6
  <2> DEFINE rest == upto(e) \ {e}
  <2>2. Cardinality(rest) >= n /\ rest \subseteq later
    <3>1. IsFiniteSet(upto(e)) /\ Cardinality(upto(e)) \in Nat
      BY <1>2
    <3> HIDE DEF upto
    <3>2. Cardinality(rest) = IF e \in upto(e) THEN Cardinality(upto(e)) - 1
                                              ELSE Cardinality(upto(e))
      BY <3>1, FS_RemoveElement
    <3> HIDE DEF rest
    <3>3. Cardinality(rest) >= n
      BY <2>1, <3>1, <3>2
    <3>4. QED
      BY <3>3 DEF upto, rest
  <2>3. rest # {}
    <3> HIDE DEF rest
    <3>1. QED
      BY <2>2, FS_EmptySet
  <2>4. PICK g \in rest : \A f \in rest : f <= g
    <3>1. rest \in SUBSET (0 .. LastSession)
      BY <1>1
    <3> HIDE DEF rest
    <3>2. QED
      BY <1>1, <2>3, <3>1, GreatestNatural
  <2>5. upto(g) = rest
    <3>1. g \in Nat /\ e \in Nat /\ g <= e /\ g # e
      BY <1>1, <1>6
    <3>2. \A f \in upto(g) : f \in rest
      BY <1>1, <3>1
    <3>3. \A f \in rest : f \in upto(g)
      BY <2>4
    <3> HIDE DEF upto, rest
    <3>4. QED
      BY <3>2, <3>3
  <2>6. g \in far
    BY <2>2, <2>5
  <2>7. g \in Nat /\ e \in Nat /\ g <= e /\ g # e
    BY <1>1, <1>6
  <2>8. QED
    BY <1>6, <2>6, <2>7
<1>8. e \in days /\ e >= d
  BY <1>1, <1>6
<1>9. \E x \in days : x >= d /\ Cardinality(upto(x)) = n
  BY <1>7, <1>8
<1>10. QED
  BY <1>9 DEF Shifted

\* A trade enters after the session of its signal and does not leave before.
LEMMA TradeInOrder ==
    ASSUME NEW bars, DOMAIN bars \subseteq 1 .. LastSession, NEW d \in DOMAIN bars,
           Executable(bars, d)
    PROVE  /\ Entry(bars, d) \in DOMAIN bars
           /\ d < Entry(bars, d)
           /\ Entry(bars, d) <= Exit(bars, d)
<1> DEFINE days == DOMAIN bars
           upto(e) == {f \in days : d < f /\ f <= e}
           enter == Entry(bars, d)
           leave == Exit(bars, d)
<1>1. /\ \A e \in days : e \in Nat
      /\ IsFiniteSet(days)
  <2>1. LastSession \in Nat /\ \A e \in days : e \in 1 .. LastSession
    BY RequestAssumption
  <2>2. IsFiniteSet(1 .. LastSession)
    BY <2>1, FS_Interval
  <2>3. QED
    BY <2>1, <2>2, FS_Subset
<1>2. d \in Nat /\ HoldingSessions \in Nat \ {0}
  BY <1>1, BacktestAssumption
<1>3. /\ enter \in days /\ enter >= d /\ Cardinality(upto(enter)) = 1
      /\ leave \in days /\ leave >= d /\ Cardinality(upto(leave)) = HoldingSessions
  <2>1. HasShifted(bars, d, 1) /\ HasShifted(bars, d, HoldingSessions)
    BY DEF Executable
  <2>2. /\ enter \in days /\ enter >= d /\ Cardinality(upto(enter)) = 1
    BY <1>2, <2>1, ShiftedIs DEF Entry
  <2>3. leave \in days /\ leave >= d /\ Cardinality(upto(leave)) = HoldingSessions
    BY <1>2, <2>1, ShiftedIs DEF Exit
  <2>4. QED
    BY <2>2, <2>3
<1> HIDE DEF enter, leave
<1>4. enter \in Nat /\ leave \in Nat
  BY <1>1, <1>3
<1>5. d < enter
  <2>1. SUFFICES ASSUME enter = d PROVE FALSE
    BY <1>2, <1>3, <1>4
  <2>2. upto(enter) = {}
    BY <1>1, <2>1
  <2> HIDE DEF upto
  <2>3. QED
    BY <1>3, <2>2, FS_EmptySet
<1>6. enter <= leave
  <2>1. SUFFICES ASSUME leave < enter PROVE FALSE
    BY <1>4
  <2>2. /\ upto(leave) \subseteq upto(enter)
        /\ enter \in upto(enter) /\ enter \notin upto(leave)
    BY <1>1, <1>3, <1>4, <1>5, <2>1
  <2>3. IsFiniteSet(upto(enter))
    BY <1>1, FS_Subset
  <2> HIDE DEF upto
  <2>4. PICK x : upto(enter) = {x}
    BY <1>3, <2>3, FS_Singleton
  <2>5. upto(leave) = {}
    BY <2>2, <2>4
  <2>6. QED
    BY <1>2, <1>3, <2>5, FS_EmptySet
<1>7. QED
  BY <1>3, <1>5, <1>6 DEF enter, leave

\* A session has no more candidates than there are places.
LEMMA CandidatesFew ==
    ASSUME NEW r \in BacktestRequests, NEW d \in r.sessions
    PROVE  /\ IsFiniteSet(Candidates(r.scores, d))
           /\ Candidates(r.scores, d) \subseteq DOMAIN r.scores
           /\ Cardinality(Candidates(r.scores, d)) <= BacktestPositions
<1> DEFINE S == {t \in DOMAIN r.scores : r.scores[t][d] >= ScoreThreshold}
           score(t) == r.scores[t][d]
           before == [t \in S |-> {u \in S : \/ score(u) > score(t)
                                             \/ score(u) = score(t) /\ u < t}]
<1>1. \A t \in S : t \in Nat /\ score(t) \in Nat
  <2>1. \A t \in DOMAIN r.scores : t \in Nat /\ r.scores[t] \in [r.sessions -> Nat]
    BY RequestAssumption
  <2>2. QED
    BY <2>1
<1>2. IsFiniteSet(S)
  <2>1. IsFiniteSet(DOMAIN r.scores)
    BY RequestAssumption
  <2>2. QED
    BY <2>1, FS_Subset
<1>3. Candidates(r.scores, d) = {t \in S : Cardinality(before[t]) < BacktestPositions}
  BY DEF Candidates
<1>4. BacktestPositions \in Nat
  BY BacktestAssumption
<1>5. before \in [S -> SUBSET S]
  OBVIOUS
<1>6. \A t, u \in S : t \in before[u] <=> \/ score(t) > score(u)
                                          \/ score(t) = score(u) /\ t < u
  OBVIOUS
<1> HIDE DEF S, score, before
<1>7. \A t \in S : t \notin before[t]
  BY <1>1, <1>6
<1>8. \A t, u \in S : t # u => t \in before[u] \/ u \in before[t]
  BY <1>1, <1>6
<1>9. ASSUME NEW t \in S, NEW u \in S, t \in before[u], NEW v \in before[t]
      PROVE  v \in before[u]
  <2>1. v \in S
    BY <1>5, <1>9
  <2>2. QED
    BY <1>1, <1>6, <1>9, <2>1
<1>10. \A t, u \in S : t \in before[u] => before[t] \subseteq before[u]
  BY <1>9
<1>11. Cardinality({t \in S : Cardinality(before[t]) < BacktestPositions})
          <= BacktestPositions
  BY <1>2, <1>4, <1>5, <1>7, <1>8, <1>10, RankedFew
<1>12. Candidates(r.scores, d) \in SUBSET S /\ S \subseteq DOMAIN r.scores
  BY <1>3 DEF S
<1>13. QED
  BY <1>2, <1>3, <1>11, <1>12, FS_Subset

\* A purchase within the share of one place commits no more than that share.
LEMMA PurchaseFits ==
    ASSUME NEW X \in Nat, NEW n \in Nat \ {0}, NEW c \in Nat \ {0},
           NEW q \in Int, q <= X \div (n * c)
    PROVE  q * c <= X \div n
<1> DEFINE z == X \div (n * c)
           y == X \div n
<1>1. n * c \in Nat \ {0}
  OBVIOUS
<1>2. z \in Nat /\ z * (n * c) <= X
  BY <1>1
<1>3. y \in Nat /\ X < (y + 1) * n
  OBVIOUS
<1> HIDE DEF z, y
<1>4. q <= z
  BY DEF z
<1>5. z * c < y + 1
  <2>1. (z * c) * n <= X
    BY <1>2
  <2>2. z * c \in Nat
    BY <1>2
  <2> DEFINE w == z * c
  <2>3. w * n < (y + 1) * n /\ w \in Nat
    BY <1>3, <2>1, <2>2
  <2> HIDE DEF w
  <2>4. w < y + 1
    BY <1>3, <2>3
  <2>5. QED
    BY <2>4 DEF w
<1>6. q * c <= z * c
  BY <1>2, <1>4
<1>7. QED
  BY <1>2, <1>3, <1>5, <1>6 DEF y

\* As many positions as there are places commit no more than the whole.
LEMMA PlacesFit ==
    ASSUME NEW X \in Nat, NEW n \in Nat \ {0}, NEW k \in Nat, k <= n
    PROVE  X \div n \in Nat /\ k * (X \div n) <= X
<1> DEFINE y == X \div n
<1>1. y \in Nat /\ n * y <= X
  OBVIOUS
<1> HIDE DEF y
<1>2. k * y <= n * y
  BY <1>1
<1>3. k * y \in Nat /\ n * y \in Nat
  BY <1>1
<1>4. QED
  BY <1>1, <1>2, <1>3 DEF y

\* A trade in the report: when it happens, how much and for how much.
LEMMA TradeIs ==
    ASSUME NEW q \in BacktestRequests,
           NEW r \in RunBacktest(q.scores, q.prices, q.sessions).trades
    PROVE  /\ r.session \in q.sessions
           /\ r.ticker \in Candidates(q.scores, r.session)
           /\ r = TradesOf(q.scores, q.prices, r.ticker, r.session)
           /\ r.session < r.enters /\ r.enters <= r.exits
           /\ r.quantity * 100 <= VolumePercent * q.prices[r.ticker][r.enters].volume
           /\ r.notional \in Int
           /\ r.notional <= (StartingCash * 10000) \div BacktestPositions
<1>1. PICK s \in Signals(q.scores, q.prices, q.sessions) :
         r = TradesOf(q.scores, q.prices, s[1], s[2])
  BY DEF RunBacktest
<1> DEFINE t == s[1]
           d == s[2]
           bars == q.prices[t]
           first == Entry(bars, d)
           cost == EntryCost(bars, d)
           quantity == Quantity(bars, d)
           affordable == (StartingCash * 10000) \div (BacktestPositions * cost)
           tradable == (bars[first].volume * VolumePercent) \div 100
<1>2. /\ t \in DOMAIN q.scores /\ d \in q.sessions
      /\ t \in Candidates(q.scores, d) /\ Executable(bars, d)
  BY <1>1 DEF Signals
<1>3. /\ r = TradesOf(q.scores, q.prices, t, d)
      /\ r.ticker = t /\ r.session = d /\ r.enters = first
      /\ r.exits = Exit(bars, d) /\ r.quantity = quantity
      /\ r.notional = quantity * cost
  BY <1>1 DEF TradesOf
<1>4. /\ DOMAIN bars \subseteq 1 .. LastSession
      /\ bars \in [DOMAIN bars -> [open : Nat \ {0}, close : Nat, volume : Nat]]
  BY <1>2, RequestAssumption
<1>5. first \in DOMAIN bars /\ d < first /\ first <= Exit(bars, d)
  <2>1. d \in DOMAIN bars
    BY <1>2 DEF Executable
  <2>2. QED
    BY <1>2, <1>4, <2>1, TradeInOrder
<1>6. /\ StartingCash \in Nat \ {0} /\ BacktestPositions \in Nat \ {0}
      /\ SlippageBps \in Nat /\ VolumePercent \in Nat
  BY BacktestAssumption
<1> HIDE DEF t, d, bars, first
<1>7. bars[first].open \in Nat \ {0} /\ bars[first].volume \in Nat
  BY <1>4, <1>5
<1>8. cost \in Nat \ {0}
  <2>1. cost = bars[first].open * (10000 + SlippageBps)
    BY DEF EntryCost, first
  <2>2. 10000 + SlippageBps \in Nat \ {0}
    BY <1>6
  <2> HIDE DEF cost
  <2>3. QED
    BY <1>7, <2>1, <2>2
<1>9. quantity = IF affordable < tradable THEN affordable ELSE tradable
  BY DEF Quantity, first
<1> HIDE DEF cost, quantity
<1>10. affordable \in Nat
  <2>1. BacktestPositions * cost \in Nat \ {0}
    BY <1>6, <1>8
  <2>2. StartingCash * 10000 \in Nat
    BY <1>6
  <2>3. QED
    BY <2>1, <2>2
<1>11. bars[first].volume * VolumePercent \in Nat
  BY <1>6, <1>7
<1>12. tradable \in Nat /\ tradable * 100 <= bars[first].volume * VolumePercent
  BY <1>11
<1> HIDE DEF affordable, tradable
<1>13. quantity \in Nat /\ quantity <= affordable /\ quantity <= tradable
  BY <1>9, <1>10, <1>12
<1>14. quantity * 100 <= VolumePercent * bars[first].volume
  <2>1. bars[first].volume * VolumePercent = VolumePercent * bars[first].volume
    BY <1>6, <1>7
  <2>2. QED
    BY <1>11, <1>12, <1>13, <2>1
<1>15. /\ quantity * cost \in Int
       /\ quantity * cost <= (StartingCash * 10000) \div BacktestPositions
  <2>1. StartingCash * 10000 \in Nat
    BY <1>6
  <2>2. quantity \in Int
    BY <1>13
  <2>3. quantity <= (StartingCash * 10000) \div (BacktestPositions * cost)
    BY <1>13 DEF affordable
  <2>4. quantity * cost <= (StartingCash * 10000) \div BacktestPositions
    BY <1>6, <1>8, <2>1, <2>2, <2>3, PurchaseFits
  <2>5. QED
    BY <1>8, <2>2, <2>4
<1>16. /\ r.session \in q.sessions
       /\ r.ticker \in Candidates(q.scores, r.session)
       /\ r = TradesOf(q.scores, q.prices, r.ticker, r.session)
  BY <1>2, <1>3
<1>17. r.session < r.enters /\ r.enters <= r.exits
  BY <1>3, <1>5
<1>18. r.quantity * 100 <= VolumePercent * q.prices[r.ticker][r.enters].volume
  BY <1>3, <1>14 DEF bars
<1>19. QED
  BY <1>3, <1>15, <1>16, <1>17, <1>18

\* What the trades of one session commit is covered by the starting cash.
LEMMA SessionFits ==
    ASSUME NEW q \in BacktestRequests, NEW d \in q.sessions
    PROVE  SumFunction([r \in {x \in RunBacktest(q.scores, q.prices, q.sessions).trades :
                                   x.session = d} |-> r.notional])
              <= StartingCash * 10000
<1> DEFINE trades == {x \in RunBacktest(q.scores, q.prices, q.sessions).trades :
                        x.session = d}
           C == Candidates(q.scores, d)
           trade == [t \in C |-> TradesOf(q.scores, q.prices, t, d)]
           all == {trade[t] : t \in C}
           notional == [r \in trades |-> r.notional]
           X == StartingCash * 10000
           b == X \div BacktestPositions
<1>1. \A r \in trades : /\ r \in all
                        /\ r.notional \in Int /\ r.notional <= b
  BY TradeIs
<1>2. IsFiniteSet(C) /\ Cardinality(C) <= BacktestPositions
  BY CandidatesFew
<1> HIDE DEF trades, C, b
<1>3. IsFiniteSet(all) /\ Cardinality(all) <= Cardinality(C)
  <2>1. trade \in Surjection(C, all)
    BY DEF Surjection
  <2> HIDE DEF trade, all
  <2>2. QED
    BY <1>2, <2>1, FS_Surjection
<1> HIDE DEF all
<1>4. IsFiniteSet(trades) /\ Cardinality(trades) <= Cardinality(all)
  BY <1>1, <1>3, FS_Subset
<1>5. /\ Cardinality(trades) \in Nat /\ Cardinality(all) \in Nat
      /\ Cardinality(C) \in Nat /\ BacktestPositions \in Nat \ {0}
  BY <1>2, <1>3, <1>4, FS_CardinalityType, BacktestAssumption
<1>6. Cardinality(trades) <= BacktestPositions
  BY <1>2, <1>3, <1>4, <1>5
<1>7. X \in Nat
  BY BacktestAssumption
<1> HIDE DEF X
<1>8. b \in Nat /\ Cardinality(trades) * b <= X
  BY <1>5, <1>6, <1>7, PlacesFit DEF b
<1>9. notional \in [trades -> Int] /\ \A r \in trades : notional[r] <= b
  BY <1>1
<1>10. DOMAIN notional = trades
  OBVIOUS
<1> HIDE DEF notional
<1>11. SumFunctionOnSet(notional, trades) <= Cardinality(trades) * b
  BY <1>4, <1>8, <1>9, SumAtMost
<1>12. SumFunctionOnSet(notional, trades) \in Int /\ Cardinality(trades) * b \in Int
  <2>1. trades \in SUBSET trades
    OBVIOUS
  <2>2. SumFunctionOnSet(notional, trades) \in Int
    BY <1>4, <1>9, <2>1, SumUnfolds
  <2>3. QED
    BY <1>5, <1>8, <2>2
<1>13. SumFunctionOnSet(notional, trades) <= X
  BY <1>7, <1>8, <1>11, <1>12
<1>14. SumFunction(notional) <= X
  BY <1>10, <1>13 DEF SumFunction
<1>15. QED
  BY <1>14 DEF notional, trades, X

\* A backtest's trades can be executed: each enters after its signal, leaves no
\* earlier, stays within its share of the volume of the session it enters, and
\* those of one session are covered by the starting cash.
THEOREM BacktestExecutes == Spec => []BacktestIsExecutable
<1>1. Answers => BacktestIsExecutable
  <2>1. SUFFICES ASSUME Answers, Answered("backtest") PROVE BacktestIsExecutable
    BY DEF BacktestIsExecutable
  <2>2. /\ args \in BacktestRequests
        /\ ret[1] = RunBacktest(args.scores, args.prices, args.sessions)
    BY <2>1, RequestAssumption DEF Answers, Answered
  <2> DEFINE trades == RunBacktest(args.scores, args.prices, args.sessions).trades
  <2>3. \A r \in trades :
          /\ r.session < r.enters /\ r.enters <= r.exits
          /\ r.quantity * 100 <= VolumePercent
               * args.prices[r.ticker][r.enters].volume
    BY <2>2, TradeIs
  <2>4. \A d \in args.sessions :
          SumFunction([r \in {x \in trades : x.session = d} |-> r.notional])
            <= StartingCash * 10000
    BY <2>2, SessionFits
  <2>5. ret[1].trades = trades
    BY <2>2
  <2> HIDE DEF trades
  <2>6. QED
    BY <2>3, <2>4, <2>5 DEF BacktestIsExecutable
<1>2. QED
  BY <1>1, AnswersInvariant, PTL

-------------------------------------------------------------------------------
(***************************************************************************)
(* The universe policy.                                                    *)
(***************************************************************************)

\* An arrangement has every element once, in order.
LEMMA ArrangedIs ==
    ASSUME NEW S, IsFiniteSet(S), NEW ahead \in [S -> SUBSET S],
           \A t \in S : t \notin ahead[t],
           \A t, u \in S : t # u => t \in ahead[u] \/ u \in ahead[t],
           \A t, u \in S : t \in ahead[u] => ahead[t] \subseteq ahead[u]
    PROVE  /\ Cardinality(S) \in Nat
           /\ Arranged(S, ahead) \in [1 .. Cardinality(S) -> S]
           /\ \A x \in S : \E n \in 1 .. Cardinality(S) : Arranged(S, ahead)[n] = x
           /\ \A m, n \in 1 .. Cardinality(S) :
                m < n <=> Arranged(S, ahead)[m] \in ahead[Arranged(S, ahead)[n]]
<1> DEFINE N == Cardinality(S)
           order == Arranged(S, ahead)
           rank(x) == Cardinality(ahead[x])
<1>1. N \in Nat
  BY FS_CardinalityType
<1>2. /\ \A x \in S : rank(x) \in 0 .. N - 1
      /\ \A x, y \in S : x \in ahead[y] <=> rank(x) < rank(y)
      /\ \A n \in 0 .. N - 1 : \E x \in S : rank(x) = n
  BY RankedOnce
<1> HIDE DEF N, rank
<1>3. \A n \in 1 .. N : order[n] \in S /\ rank(order[n]) = n - 1
  <2> SUFFICES ASSUME NEW n \in 1 .. N
               PROVE  order[n] \in S /\ rank(order[n]) = n - 1
    OBVIOUS
  <2>1. order[n] = CHOOSE x \in S : rank(x) = n - 1
    BY DEF Arranged, N, rank
  <2>2. n - 1 \in 0 .. N - 1
    BY <1>1
  <2> HIDE DEF order
  <2>3. QED
    BY <1>2, <2>1, <2>2
<1>4. order \in [1 .. N -> S]
  <2>1. DOMAIN order = 1 .. N /\ order = [n \in 1 .. N |-> order[n]]
    BY DEF Arranged, N
  <2>2. QED
    BY <1>3, <2>1
<1> HIDE DEF order
<1>5. ASSUME NEW x \in S PROVE \E n \in 1 .. N : order[n] = x
  <2>1. rank(x) + 1 \in 1 .. N /\ rank(x) \in Nat
    BY <1>1, <1>2
  <2>2. order[rank(x) + 1] \in S /\ rank(order[rank(x) + 1]) = rank(x)
    BY <1>3, <2>1
  <2>3. order[rank(x) + 1] = x
    BY <1>2, <2>1, <2>2
  <2>4. QED
    BY <2>1, <2>3
<1>6. ASSUME NEW m \in 1 .. N, NEW n \in 1 .. N
      PROVE  m < n <=> order[m] \in ahead[order[n]]
  <2>1. m - 1 < n - 1 <=> order[m] \in ahead[order[n]]
    BY <1>2, <1>3
  <2>2. QED
    BY <1>1, <2>1
<1>7. QED
  BY <1>1, <1>4, <1>5, <1>6 DEF N, order

\* The candidates that have reasons.
Faulty(reasons, N) == {m \in 1 .. N : reasons[m] # {}}

\* The last candidate of ticker t that has some.
Culprit(candidates, reasons, t) ==
    Max({n \in DOMAIN candidates : reasons[n] # {} /\ candidates[n].ticker = t})

\* Whose reasons are recorded.
LEMMA ByTickerIs ==
    ASSUME NEW candidates, NEW reasons, NEW N \in Nat, DOMAIN candidates = 1 .. N
    PROVE  /\ \A n \in Faulty(reasons, N) :
                candidates[n].ticker \in DOMAIN ByTicker(candidates, reasons)
           /\ \A t \in DOMAIN ByTicker(candidates, reasons) :
                /\ Culprit(candidates, reasons, t) \in Faulty(reasons, N)
                /\ candidates[Culprit(candidates, reasons, t)].ticker = t
                /\ ByTicker(candidates, reasons)[t]
                     = reasons[Culprit(candidates, reasons, t)]
<1> USE DEF Faulty
<1> DEFINE faulty == Faulty(reasons, N)
           of(t) == {n \in faulty : candidates[n].ticker = t}
           T == {candidates[n].ticker : n \in faulty}
           culprit(t) == Culprit(candidates, reasons, t)
<1>0. \A t : culprit(t) = Max(of(t))
  <2> SUFFICES ASSUME NEW t PROVE culprit(t) = Max(of(t))
    OBVIOUS
  <2>1. {n \in DOMAIN candidates : reasons[n] # {} /\ candidates[n].ticker = t} = of(t)
    OBVIOUS
  <2>2. QED
    BY <2>1 DEF Culprit
<1>1. ByTicker(candidates, reasons) = [t \in T |-> reasons[culprit(t)]]
  <2>1. ByTicker(candidates, reasons) = [t \in T |-> reasons[Max(of(t))]]
    BY DEF ByTicker
  <2> HIDE DEF culprit, of, T
  <2>2. QED
    BY <1>0, <2>1
<1> HIDE DEF culprit
<1>2. ASSUME NEW t \in T PROVE culprit(t) \in of(t)
  <2>1. of(t) \in SUBSET (0 .. N) /\ of(t) # {}
    OBVIOUS
  <2>2. \A x \in of(t) : x \in Nat
    OBVIOUS
  <2> HIDE DEF of, T
  <2>3. PICK x \in of(t) : \A y \in of(t) : y <= x
    BY <2>1, GreatestNatural
  <2>4. \A y \in of(t) : x >= y
    BY <2>2, <2>3
  <2>5. QED
    BY <1>0, <2>4 DEF Max
<1>3. QED
  BY <1>1, <1>2 DEF culprit

\* What passes step by step.
LEMMA PassedIs ==
    ASSUME NEW ai, NEW proposal, IsList(proposal)
    PROVE  /\ Passed(ai, proposal)[0] = {}
           /\ \A n \in 1 .. Len(proposal) :
                Passed(ai, proposal)[n]
                  = Screen(ai, Passed(ai, proposal)[n - 1], proposal[n])
<1> DEFINE N == Len(proposal)
           X == SUBSET {proposal[n] : n \in 1 .. N}
           Next1(x, n) == Screen(ai, x, proposal[n])
           step == [p \in X \X (1 .. N) |-> Next1(p[1], p[2])]
           Unfold(h) == [n \in 0 .. N |-> IF n = 0 THEN {} ELSE Next1(h[n - 1], n)]
           passed == CHOOSE h : h = Unfold(h)
<1>1. N \in Nat /\ DOMAIN proposal = 1 .. N
  BY DEF IsList
<1>2. \A x \in X, n \in 1 .. N : Next1(x, n) \in X
  BY DEF Screen
<1>3. step \in [X \X (1 .. N) -> X] /\ {} \in X
  BY <1>2
<1>4. \A x \in X, n \in 1 .. N : step[<<x, n>>] = Next1(x, n)
  OBVIOUS
<1>5. Passed(ai, proposal) = passed
  BY DEF Passed
<1> HIDE DEF N, X, Next1, step
<1>6. PICK h : History(h, X, {}, N, step)
  <2>1. {} \in X
    BY <1>3
  <2>2. QED
    BY <1>1, <1>3, <2>1, HistoryExists
<1>7. h = Unfold(h)
  <2>0. /\ h \in [0 .. N -> X]
        /\ h[0] = {}
        /\ \A n \in 1 .. N : h[n] = step[<<h[n - 1], n>>]
    BY <1>6 DEF History
  <2>1. \A n \in 1 .. N : h[n] = Next1(h[n - 1], n)
    <3>1. \A n \in 1 .. N : n - 1 \in 0 .. N
      BY <1>1
    <3>2. QED
      BY <1>4, <2>0, <3>1
  <2>2. \A n \in 0 .. N : h[n] = IF n = 0 THEN {} ELSE Next1(h[n - 1], n)
    <3>1. \A n \in 0 .. N : n = 0 \/ n \in 1 .. N
      BY <1>1
    <3>2. QED
      BY <2>0, <2>1, <3>1
  <2>3. QED
    BY <2>0, <2>2
<1>8. passed = Unfold(passed)
  <2> HIDE DEF Unfold
  <2>1. QED
    BY <1>7
<1> HIDE DEF passed
<1>9. \A n \in 0 .. N : passed[n] = IF n = 0 THEN {} ELSE Next1(passed[n - 1], n)
  BY <1>8
<1>10. /\ 0 \in 0 .. N
       /\ \A n \in 1 .. N : n \in 0 .. N /\ n # 0
  BY <1>1
<1>11. /\ passed[0] = {}
       /\ \A n \in 1 .. N : passed[n] = Next1(passed[n - 1], n)
  BY <1>9, <1>10
<1>12. QED
  BY <1>5, <1>11 DEF Next1, N

\* The candidates among the first n that have no reasons when their turn comes.
Clean(ai, proposal, n) ==
    {j \in 1 .. n : Reasons(ai, Passed(ai, proposal)[j - 1], proposal[j]) = {}}

\* What passes is what has no reasons when its turn comes.
LEMMA PassedAre ==
    ASSUME NEW ai, NEW proposal, IsList(proposal), NEW n \in 0 .. Len(proposal)
    PROVE  Passed(ai, proposal)[n] =
              {proposal[i] : i \in Clean(ai, proposal, n)}
<1> DEFINE N == Len(proposal)
           passed == Passed(ai, proposal)
           clean(j) == Reasons(ai, passed[j - 1], proposal[j]) = {}
           upto(m) == {proposal[i] : i \in {j \in 1 .. m : clean(j)}}
           G == {m \in 0 .. N : passed[m] = upto(m)}
<1>1. N \in Nat
  BY DEF IsList
<1>2. /\ passed[0] = {}
      /\ \A m \in 1 .. N : passed[m] = IF clean(m) THEN passed[m - 1] \cup {proposal[m]}
                                                   ELSE passed[m - 1]
  BY PassedIs DEF Screen
<1> HIDE DEF N, passed, clean
<1>3. 0 \in G
  BY <1>1, <1>2
<1>4. ASSUME NEW m \in 1 .. N, m - 1 \in G PROVE m \in G
  <2>1. passed[m - 1] = upto(m - 1)
    BY <1>4
  <2>2. \A j : j \in 1 .. m <=> j \in 1 .. m - 1 \/ j = m
    BY <1>1
  <2>3. upto(m) = IF clean(m) THEN upto(m - 1) \cup {proposal[m]} ELSE upto(m - 1)
    BY <2>2
  <2>4. m \in 0 .. N
    BY <1>1
  <2> HIDE DEF upto
  <2>5. QED
    BY <1>2, <2>1, <2>3, <2>4
<1>5. G \in SUBSET (0 .. N)
  OBVIOUS
<1>6. n \in 0 .. N
  BY DEF N
<1> HIDE DEF G
<1>7. n \in G
  BY <1>1, <1>3, <1>4, <1>5, <1>6, StepByStep
<1>8. QED
  BY <1>7 DEF G, passed, clean, Clean

\* A proposal with as many tickers as candidates names each only once.
LEMMA DistinctTickers ==
    ASSUME NEW proposal, IsList(proposal),
           Cardinality({c.ticker : c \in Range(proposal)}) = Len(proposal)
    PROVE  \A i, j \in DOMAIN proposal :
              proposal[i].ticker = proposal[j].ticker => i = j
<1> DEFINE S == DOMAIN proposal
           T == {c.ticker : c \in Range(proposal)}
           name == [i \in S |-> proposal[i].ticker]
<1>1. IsFiniteSet(S) /\ Cardinality(S) = Len(proposal)
  <2>1. S = 1 .. Len(proposal) /\ Len(proposal) \in Nat
    BY DEF IsList
  <2> DEFINE N == Len(proposal)
  <2> HIDE DEF N
  <2>2. N \in Nat /\ S = 1 .. N
    BY <2>1 DEF N
  <2>3. IsFiniteSet(1 .. N) /\ Cardinality(1 .. N) = N
    BY <2>2, FS_Interval
  <2>4. QED
    BY <2>2, <2>3 DEF N
<1>2. name \in Surjection(S, T)
  BY DEF Surjection, Range
<1>3. Cardinality(S) = Cardinality(T)
  BY <1>1
<1> HIDE DEF S, T, name
<1>4. name \in Injection(S, T)
  BY <1>1, <1>2, <1>3, FS_Surjection
<1>5. \A i, j \in S : name[i] = name[j] => i = j
  BY <1>4 DEF Injection, IsInjective
<1>6. QED
  BY <1>5 DEF S, name

\* After the screening every ticker of the proposal has passed or has reasons,
\* and no ticker has passed twice.
LEMMA ScreenedAre ==
    ASSUME NEW q \in PolicyRequests
    PROVE  LET s == Screened(q.ai, q.proposal)
           IN  /\ s.passed \subseteq Range(q.proposal)
               /\ IsFiniteSet(s.passed)
               /\ \A c, k \in s.passed : c.ticker = k.ticker => c = k
               /\ {c.ticker : c \in s.passed} \cup DOMAIN s.rejected
                     = {c.ticker : c \in Range(q.proposal)}
               /\ \A t \in DOMAIN s.rejected :
                     /\ s.rejected[t] # {}
                     /\ "maximum_symbols_exceeded" \notin s.rejected[t]
               /\ (\A i, j \in DOMAIN q.proposal :
                      q.proposal[i].ticker = q.proposal[j].ticker => i = j)
                  => {c.ticker : c \in s.passed} \cap DOMAIN s.rejected = {}
<1> DEFINE P == q.proposal
           N == Len(P)
           passed == Passed(q.ai, P)
           reasons == [n \in 1 .. N |-> Reasons(q.ai, passed[n - 1], P[n])]
           rejected == ByTicker(P, reasons)
           clean == {n \in 1 .. N : reasons[n] = {}}
           faulty == Faulty(reasons, N)
           result == passed[N]
<1>1. /\ IsList(P) /\ N \in Nat /\ DOMAIN P = 1 .. N
      /\ \A n \in 1 .. N : "maximum_symbols_exceeded" \notin P[n].faults
  <2>1. IsList(P)
    BY RequestAssumption
  <2>2. N \in Nat /\ DOMAIN P = 1 .. N
    BY <2>1 DEF IsList
  <2>3. \A n \in DOMAIN P : "maximum_symbols_exceeded" \notin P[n].faults
    BY RequestAssumption
  <2>4. QED
    BY <2>1, <2>2, <2>3
<1>2. Screened(q.ai, P) = [passed |-> result, rejected |-> rejected]
  BY <1>1 DEF Screened
<1>3. \A m \in 0 .. N : passed[m] = {P[i] : i \in Clean(q.ai, P, m)}
  BY <1>1, PassedAre
<1>4. \A m \in 0 .. N : passed[m] = {P[i] : i \in {j \in clean : j <= m}}
  <2> SUFFICES ASSUME NEW m \in 0 .. N
               PROVE  passed[m] = {P[i] : i \in {j \in clean : j <= m}}
    OBVIOUS
  <2>1. \A j \in 1 .. m : j \in 1 .. N /\ j <= m
    BY <1>1
  <2>2. \A j \in 1 .. N : j <= m => j \in 1 .. m
    BY <1>1
  <2>3. \A j \in 1 .. N : reasons[j] = Reasons(q.ai, passed[j - 1], P[j])
    OBVIOUS
  <2>4. Clean(q.ai, P, m) =
          {j \in 1 .. m : Reasons(q.ai, passed[j - 1], P[j]) = {}}
    BY DEF Clean
  <2> HIDE DEF reasons, N, P, passed
  <2>5. Clean(q.ai, P, m) = {j \in clean : j <= m}
    BY <2>1, <2>2, <2>3, <2>4
  <2>6. QED
    BY <1>3, <2>5
<1>5. result = {P[i] : i \in clean}
  <2>1. \A j \in clean : j <= N
    BY <1>1
  <2>2. N \in 0 .. N
    BY <1>1
  <2> HIDE DEF clean, N, passed
  <2>3. {j \in clean : j <= N} = clean
    BY <2>1
  <2>4. QED
    BY <1>4, <2>2, <2>3
<1>6. \A n \in 1 .. N : reasons[n] = Reasons(q.ai, passed[n - 1], P[n])
  OBVIOUS
<1>7. /\ DOMAIN rejected = {P[n].ticker : n \in faulty}
      /\ \A t \in DOMAIN rejected :
            \E n \in faulty : P[n].ticker = t /\ rejected[t] = reasons[n]
  <2> HIDE DEF reasons, N, P
  <2>1. \A n \in faulty : P[n].ticker \in DOMAIN rejected
    BY <1>1, ByTickerIs
  <2>2. \A t \in DOMAIN rejected :
           \E n \in faulty : P[n].ticker = t /\ rejected[t] = reasons[n]
    <3> SUFFICES ASSUME NEW t \in DOMAIN rejected
                 PROVE  \E n \in faulty : P[n].ticker = t /\ rejected[t] = reasons[n]
      OBVIOUS
    <3> DEFINE n == Culprit(P, reasons, t)
    <3>1. n \in faulty /\ P[n].ticker = t /\ rejected[t] = reasons[n]
      BY <1>1, ByTickerIs
    <3>2. QED
      BY <3>1
  <2>3. QED
    BY <2>1, <2>2
<1>8. /\ clean \subseteq 1 .. N /\ faulty \subseteq 1 .. N
      /\ clean \cup faulty = 1 .. N /\ clean \cap faulty = {}
  BY DEF Faulty
<1>9. \A n \in 1 .. N : "maximum_symbols_exceeded" \notin reasons[n]
  BY <1>1, <1>6 DEF Reasons, When, MembershipFaults, MetadataFaults
<1>10. \A i, j \in clean : i < j => P[i].ticker # P[j].ticker
  <2> SUFFICES ASSUME NEW i \in clean, NEW j \in clean, i < j,
                      P[i].ticker = P[j].ticker
               PROVE  FALSE
    OBVIOUS
  <2>1. j - 1 \in 0 .. N /\ i <= j - 1 /\ i \in 1 .. N /\ j \in 1 .. N
    BY <1>1
  <2>2. P[i] \in passed[j - 1]
    BY <1>4, <2>1
  <2>3. "duplicate_symbol" \in Reasons(q.ai, passed[j - 1], P[j])
    BY <2>2 DEF Reasons, When
  <2>4. QED
    BY <1>6, <2>1, <2>3
<1> HIDE DEF reasons, rejected, clean, faulty, result, P
<1>11. \A c \in result : \E i \in clean : c = P[i]
  BY <1>5
<1>12. \A c, k \in result : c.ticker = k.ticker => c = k
  <2> SUFFICES ASSUME NEW i \in clean, NEW j \in clean, P[i].ticker = P[j].ticker
               PROVE  i = j
    BY <1>11
  <2>1. i \in Nat /\ j \in Nat
    BY <1>1, <1>8
  <2>2. QED
    BY <1>10, <2>1
<1>13. Range(P) = {P[i] : i \in 1 .. N}
  BY <1>1 DEF Range
<1>14. result \subseteq Range(P) /\ IsFiniteSet(result)
  <2>1. result \subseteq Range(P)
    BY <1>5, <1>8, <1>13
  <2> DEFINE at == [i \in 1 .. N |-> P[i]]
  <2>2. at \in Surjection(1 .. N, Range(P))
    BY <1>13 DEF Surjection
  <2>3. IsFiniteSet(1 .. N)
    BY <1>1, FS_Interval
  <2> HIDE DEF at
  <2>4. IsFiniteSet(Range(P))
    BY <2>2, <2>3, FS_Surjection
  <2>5. QED
    BY <2>1, <2>4, FS_Subset
<1>15. {c.ticker : c \in result} \cup DOMAIN rejected = {c.ticker : c \in Range(P)}
  <2>1. {c.ticker : c \in result} = {P[i].ticker : i \in clean}
    BY <1>5
  <2>2. {c.ticker : c \in Range(P)} = {P[i].ticker : i \in 1 .. N}
    BY <1>13
  <2>3. {P[i].ticker : i \in clean} \cup {P[i].ticker : i \in faulty}
           = {P[i].ticker : i \in clean \cup faulty}
    OBVIOUS
  <2>4. QED
    BY <1>7, <1>8, <2>1, <2>2, <2>3
<1>16. \A t \in DOMAIN rejected :
          rejected[t] # {} /\ "maximum_symbols_exceeded" \notin rejected[t]
  BY <1>7, <1>8, <1>9 DEF faulty, Faulty
<1>17. ASSUME \A i, j \in DOMAIN P : P[i].ticker = P[j].ticker => i = j
       PROVE  {c.ticker : c \in result} \cap DOMAIN rejected = {}
  <2> SUFFICES ASSUME NEW i \in clean, NEW j \in faulty, P[i].ticker = P[j].ticker
               PROVE  FALSE
    BY <1>5, <1>7
  <2>1. QED
    BY <1>1, <1>8, <1>17
<1>18. QED
  BY <1>2, <1>12, <1>14, <1>15, <1>16, <1>17 DEF P

\* Symbols that can be told apart and put in order.
Orderly(S) ==
    /\ IsFiniteSet(S)
    /\ \A c \in S : c.ticker \in Nat /\ c.confidence \in Nat
    /\ \A c, k \in S : c.ticker = k.ticker => c = k

\* The order of admission: everyone who passed, once, the best first.
LEMMA OrderIs ==
    ASSUME NEW S, Orderly(S)
    PROVE  /\ Cardinality(S) \in Nat
           /\ Arranged(S, Ahead(S)) \in [1 .. Cardinality(S) -> S]
           /\ \A x \in S : \E n \in 1 .. Cardinality(S) : Arranged(S, Ahead(S))[n] = x
           /\ \A m, n \in 1 .. Cardinality(S) :
                m < n <=> Before(Arranged(S, Ahead(S))[m], Arranged(S, Ahead(S))[n])
<1> DEFINE ahead == Ahead(S)
           order == Arranged(S, ahead)
<1>1. /\ IsFiniteSet(S)
      /\ \A c \in S : c.ticker \in Nat /\ c.confidence \in Nat
      /\ \A c, k \in S : c.ticker = k.ticker => c = k
  BY DEF Orderly
<1>2. /\ ahead \in [S -> SUBSET S]
      /\ \A c, k \in S : c \in ahead[k] <=> Before(c, k)
  BY DEF Ahead
<1>3. \A c \in S : ~Before(c, c)
  BY <1>1 DEF Before
<1>4. \A c, k \in S : c # k => Before(c, k) \/ Before(k, c)
  BY <1>1 DEF Before
<1>5. \A b, c, k \in S : Before(b, c) /\ Before(c, k) => Before(b, k)
  BY <1>1 DEF Before
<1> HIDE DEF ahead
<1>6. \A c, k \in S : c \in ahead[k] => ahead[c] \subseteq ahead[k]
  BY <1>2, <1>5
<1>7. \A c \in S : c \notin ahead[c]
  BY <1>2, <1>3
<1>8. \A c, k \in S : c # k => c \in ahead[k] \/ k \in ahead[c]
  BY <1>2, <1>4
<1>9. /\ Cardinality(S) \in Nat
      /\ order \in [1 .. Cardinality(S) -> S]
      /\ \A x \in S : \E n \in 1 .. Cardinality(S) : order[n] = x
      /\ \A m, n \in 1 .. Cardinality(S) : m < n <=> order[m] \in ahead[order[n]]
  BY <1>1, <1>2, <1>6, <1>7, <1>8, ArrangedIs
<1> HIDE DEF order
<1>10. \A m, n \in 1 .. Cardinality(S) : m < n <=> Before(order[m], order[n])
  BY <1>2, <1>9
<1>11. QED
  BY <1>9, <1>10 DEF order, ahead

\* Every candidate of the order has its turn.
AdmitsAll(order, N) ==
    \A n \in 1 .. N : Accepted(order)[n] = Admit(Accepted(order)[n - 1], order[n])

\* What is accepted step by step.
LEMMA AcceptedIs ==
    ASSUME NEW S, NEW N \in Nat, NEW order, order \in [1 .. N -> S]
    PROVE  /\ Accepted(order)[0] = <<>>
           /\ \A n \in 0 .. N : Accepted(order)[n] \in Seq(S)
           /\ AdmitsAll(order, N)
<1> DEFINE X == Seq(S)
           Next1(x, n) == Admit(x, order[n])
           step == [p \in X \X (1 .. N) |-> Next1(p[1], p[2])]
           Unfold(h) == [n \in 0 .. N |-> IF n = 0 THEN <<>> ELSE Next1(h[n - 1], n)]
           accepted == CHOOSE h : h = Unfold(h)
<1>1. Len(order) = N
  OBVIOUS
<1>2. \A x \in X, n \in 1 .. N : Next1(x, n) \in X
  BY DEF Admit
<1>3. step \in [X \X (1 .. N) -> X] /\ <<>> \in X
  BY <1>2
<1>4. \A x \in X, n \in 1 .. N : step[<<x, n>>] = Next1(x, n)
  OBVIOUS
<1>5. Accepted(order) = accepted
  BY <1>1 DEF Accepted
<1> HIDE DEF X, Next1, step
<1>6. PICK h : History(h, X, <<>>, N, step)
  <2>1. <<>> \in X
    BY <1>3
  <2>2. QED
    BY <1>3, <2>1, HistoryExists
<1>7. h = Unfold(h)
  <2>0. /\ h \in [0 .. N -> X]
        /\ h[0] = <<>>
        /\ \A n \in 1 .. N : h[n] = step[<<h[n - 1], n>>]
    BY <1>6 DEF History
  <2>1. \A n \in 1 .. N : h[n] = Next1(h[n - 1], n)
    <3>1. \A n \in 1 .. N : n - 1 \in 0 .. N
      OBVIOUS
    <3>2. QED
      BY <1>4, <2>0, <3>1
  <2>2. \A n \in 0 .. N : h[n] = IF n = 0 THEN <<>> ELSE Next1(h[n - 1], n)
    <3>1. \A n \in 0 .. N : n = 0 \/ n \in 1 .. N
      OBVIOUS
    <3>2. QED
      BY <2>0, <2>1, <3>1
  <2>3. QED
    BY <2>0, <2>2
<1>8. accepted = Unfold(accepted)
  <2> HIDE DEF Unfold
  <2>1. QED
    BY <1>7
<1> HIDE DEF accepted
<1>9. \A n \in 0 .. N : accepted[n] = IF n = 0 THEN <<>> ELSE Next1(accepted[n - 1], n)
  BY <1>8
<1>10. /\ 0 \in 0 .. N
       /\ \A n \in 1 .. N : n \in 0 .. N /\ n # 0
  OBVIOUS
<1>11. /\ accepted[0] = <<>>
       /\ \A n \in 1 .. N : accepted[n] = Next1(accepted[n - 1], n)
  BY <1>9, <1>10
<1>12. \A n \in 0 .. N : accepted[n] \in X
  <2> DEFINE G == {n \in 0 .. N : accepted[n] \in X}
  <2>1. 0 \in G
    BY <1>3, <1>10, <1>11
  <2>2. \A n \in 1 .. N : n - 1 \in G => n \in G
    BY <1>2, <1>10, <1>11
  <2>3. G \in SUBSET (0 .. N)
    OBVIOUS
  <2> HIDE DEF G
  <2>4. \A n \in 0 .. N : n \in G
    BY <2>1, <2>2, <2>3, StepByStep
  <2>5. QED
    BY <2>4 DEF G
<1>13. QED
  BY <1>5, <1>11, <1>12 DEF Next1, X, AdmitsAll

\* Why the n-th candidate is refused, if it is.
Refused(order, n) == Refusal(Accepted(order)[n - 1], order[n])

\* The candidates among the first n that are admitted when their turn comes.
Welcome(order, n) == {i \in 1 .. n : Refused(order, i) = {}}

Welcomed(order, n) == {order[i] : i \in Welcome(order, n)}

\* The accepted symbols are those.
LEMMA AcceptedAre ==
    ASSUME NEW S, NEW N \in Nat, NEW order \in [1 .. N -> S]
    PROVE  Range(Accepted(order)[N]) = Welcomed(order, N)
<1> DEFINE accepted == Accepted(order)
           welcome(j) == Refusal(accepted[j - 1], order[j]) = {}
           upto(m) == {order[i] : i \in {j \in 1 .. m : welcome(j)}}
           G == {m \in 0 .. N : Range(accepted[m]) = upto(m)}
<1>1. /\ accepted[0] = <<>>
      /\ \A m \in 0 .. N : accepted[m] \in Seq(S)
      /\ \A m \in 1 .. N : accepted[m] = IF welcome(m)
                                         THEN Append(accepted[m - 1], order[m])
                                         ELSE accepted[m - 1]
  <2>1. accepted[0] = <<>> /\ \A m \in 0 .. N : accepted[m] \in Seq(S)
    BY AcceptedIs
  <2>2. AdmitsAll(order, N)
    BY AcceptedIs
  <2>3. \A m \in 1 .. N : accepted[m] = Admit(accepted[m - 1], order[m])
    BY <2>2 DEF AdmitsAll
  <2> HIDE DEF accepted
  <2>4. QED
    BY <2>1, <2>3 DEF Admit
<1> HIDE DEF accepted, welcome
<1>2. 0 \in G
  BY <1>1 DEF Range
<1>3. ASSUME NEW m \in 1 .. N, m - 1 \in G PROVE m \in G
  <2>1. Range(accepted[m - 1]) = upto(m - 1) /\ m - 1 \in 0 .. N
    BY <1>3
  <2>2. \A j : j \in 1 .. m <=> j \in 1 .. m - 1 \/ j = m
    OBVIOUS
  <2>3. upto(m) = IF welcome(m) THEN upto(m - 1) \cup {order[m]} ELSE upto(m - 1)
    BY <2>2
  <2>4. m \in 0 .. N
    OBVIOUS
  <2> HIDE DEF upto
  <2>5. Range(Append(accepted[m - 1], order[m]))
          = Range(accepted[m - 1]) \cup {order[m]}
    <3> DEFINE x == order[m]
               s == accepted[m - 1]
    <3>1. s \in Seq(S) /\ x \in S
      BY <1>1, <2>1
    <3> HIDE DEF x, s
    <3>2. /\ Len(s) \in Nat /\ DOMAIN s = 1 .. Len(s)
          /\ DOMAIN Append(s, x) = 1 .. Len(s) + 1
          /\ \A i \in 1 .. Len(s) : Append(s, x)[i] = s[i]
          /\ Append(s, x)[Len(s) + 1] = x
      BY <3>1
    <3>3. \A i : i \in 1 .. Len(s) + 1 <=> i \in 1 .. Len(s) \/ i = Len(s) + 1
      BY <3>2
    <3>4. Range(Append(s, x)) = Range(s) \cup {x}
      BY <3>2, <3>3 DEF Range
    <3>5. QED
      BY <3>4 DEF x, s
  <2>6. QED
    BY <1>1, <2>1, <2>3, <2>4, <2>5
<1>4. G \in SUBSET (0 .. N)
  OBVIOUS
<1>5. N \in 0 .. N
  OBVIOUS
<1> HIDE DEF G
<1>6. N \in G
  BY <1>2, <1>3, <1>4, <1>5, StepByStep
<1>7. QED
  BY <1>6 DEF G, accepted, welcome, Welcome, Welcomed, Refused

\* Once the universe is full, it turns away everyone who follows.
LEMMA FullStays ==
    ASSUME NEW S, NEW N \in Nat, NEW order \in [1 .. N -> S],
           NEW n \in 1 .. N, NEW m \in 1 .. N, n <= m,
           "maximum_symbols_exceeded" \in Refused(order, n)
    PROVE  Refused(order, m) # {}
<1> DEFINE accepted == Accepted(order)
           G == {k \in 0 .. N : k >= n - 1 => Len(accepted[k]) >= MaximumSymbols}
<1>1. /\ \A k \in 0 .. N : accepted[k] \in Seq(S) /\ Len(accepted[k]) \in Nat
      /\ \A k \in 1 .. N : accepted[k] = Append(accepted[k - 1], order[k])
                           \/ accepted[k] = accepted[k - 1]
  <2>1. \A k \in 0 .. N : accepted[k] \in Seq(S)
    BY AcceptedIs
  <2>2. AdmitsAll(order, N)
    BY AcceptedIs
  <2>3. \A k \in 1 .. N : accepted[k] = Admit(accepted[k - 1], order[k])
    BY <2>2 DEF AdmitsAll
  <2> HIDE DEF accepted
  <2>4. \A k \in 0 .. N : Len(accepted[k]) \in Nat
    BY <2>1
  <2>5. QED
    BY <2>1, <2>3, <2>4 DEF Admit
<1>2. MaximumSymbols \in Nat
  BY PolicyAssumption
<1>3. Len(accepted[n - 1]) >= MaximumSymbols
  BY DEF Refused, Refusal, When
<1> HIDE DEF accepted
<1>4. 0 \in G
  BY <1>3
<1>5. ASSUME NEW k \in 1 .. N, k - 1 \in G PROVE k \in G
  <2>1. SUFFICES ASSUME k >= n PROVE Len(accepted[k]) >= MaximumSymbols
    BY <1>3
  <2>2. k - 1 \in 0 .. N /\ k - 1 >= n - 1
    BY <2>1
  <2>3. Len(accepted[k - 1]) >= MaximumSymbols /\ Len(accepted[k - 1]) \in Nat
    BY <1>1, <1>5, <2>2
  <2>4. Len(Append(accepted[k - 1], order[k])) = Len(accepted[k - 1]) + 1
    BY <1>1, <2>2
  <2>5. accepted[k] = Append(accepted[k - 1], order[k]) \/ accepted[k] = accepted[k - 1]
    BY <1>1
  <2>6. Len(accepted[k]) >= Len(accepted[k - 1]) /\ Len(accepted[k]) \in Nat
    BY <2>3, <2>4, <2>5
  <2>7. QED
    BY <1>2, <2>3, <2>6
<1>6. G \in SUBSET (0 .. N)
  OBVIOUS
<1>7. m - 1 \in 0 .. N /\ m - 1 >= n - 1
  OBVIOUS
<1> HIDE DEF G
<1>8. m - 1 \in G
  BY <1>4, <1>5, <1>6, <1>7, StepByStep
<1>9. Len(accepted[m - 1]) >= MaximumSymbols
  BY <1>7, <1>8 DEF G
<1>10. QED
  BY <1>9 DEF Refused, Refusal, accepted

\* After the admission everyone who passed is accepted or turned away, and who
\* is turned away by a full universe is no better than anyone accepted.
LEMMA AdmittedAre ==
    ASSUME NEW s, Orderly(s.passed),
           \A t \in DOMAIN s.rejected :
              s.rejected[t] # {} /\ "maximum_symbols_exceeded" \notin s.rejected[t]
    PROVE  LET a == Admitted(s)
           IN  /\ a.accepted \in Seq(s.passed)
               /\ {c.ticker : c \in Range(a.accepted)} \cup DOMAIN a.rejected
                     = {c.ticker : c \in s.passed} \cup DOMAIN s.rejected
               /\ \A t \in DOMAIN a.rejected : a.rejected[t] # {}
               /\ {c.ticker : c \in s.passed} \cap DOMAIN s.rejected = {}
                  => {c.ticker : c \in Range(a.accepted)} \cap DOMAIN a.rejected = {}
               /\ \A t \in DOMAIN a.rejected :
                     "maximum_symbols_exceeded" \in a.rejected[t] =>
                        \E k \in s.passed :
                           /\ k.ticker = t
                           /\ \A c \in Range(a.accepted) : c.confidence >= k.confidence
<1> DEFINE S == s.passed
           N == Cardinality(S)
           order == Arranged(S, Ahead(S))
           accepted == Accepted(order)
           reasons == [n \in DOMAIN order |-> Refused(order, n)]
           turned == ByTicker(order, reasons)
           welcome == Welcome(order, N)
           faulty == Faulty(reasons, N)
           result == accepted[N]
           rejected == Updated(s.rejected, turned)
<1>1. /\ N \in Nat /\ order \in [1 .. N -> S]
      /\ \A x \in S : \E n \in 1 .. N : order[n] = x
      /\ \A m, n \in 1 .. N : m < n <=> Before(order[m], order[n])
  BY OrderIs
<1>2. /\ \A c \in S : c.ticker \in Nat /\ c.confidence \in Nat
      /\ \A c, k \in S : c.ticker = k.ticker => c = k
  BY DEF Orderly
<1> HIDE DEF S, N, order
<1>3. DOMAIN order = 1 .. N /\ Len(order) = N /\ \A n \in 1 .. N : order[n] \in S
  BY <1>1
<1>4. Admitted(s) = [accepted |-> result, rejected |-> rejected]
  BY <1>3 DEF Admitted, Refused, S, order
<1>5. result \in Seq(S)
  <2>1. N \in Nat /\ order \in [1 .. N -> S]
    BY <1>1
  <2>2. N \in 0 .. N
    BY <2>1
  <2>3. \A n \in 0 .. N : Accepted(order)[n] \in Seq(S)
    BY <2>1, AcceptedIs
  <2>4. QED
    BY <2>2, <2>3
<1>6. Range(result) = {order[i] : i \in welcome}
  <2>1. Range(result) = Welcomed(order, N)
    BY <1>1, AcceptedAre
  <2>2. QED
    BY <2>1 DEF Welcomed
<1>7. \A n \in 1 .. N : reasons[n] = Refused(order, n)
  BY <1>3
<1>8. /\ welcome = {n \in 1 .. N : reasons[n] = {}}
      /\ faulty = {n \in 1 .. N : reasons[n] # {}}
  <2>1. welcome = {n \in 1 .. N : Refused(order, n) = {}}
    BY DEF Welcome
  <2> HIDE DEF welcome, reasons, accepted
  <2>2. QED
    BY <1>7, <2>1 DEF Faulty
<1>9. /\ \A n \in faulty : order[n].ticker \in DOMAIN turned
      /\ \A t \in DOMAIN turned :
            \E n \in faulty : order[n].ticker = t /\ turned[t] = reasons[n]
  <2> HIDE DEF reasons
  <2>1. \A n \in faulty : order[n].ticker \in DOMAIN turned
    BY <1>1, <1>3, ByTickerIs
  <2>2. ASSUME NEW t \in DOMAIN turned
        PROVE  \E n \in faulty : order[n].ticker = t /\ turned[t] = reasons[n]
    <3> DEFINE n == Culprit(order, reasons, t)
    <3>1. n \in faulty /\ order[n].ticker = t /\ turned[t] = reasons[n]
      BY <1>1, <1>3, ByTickerIs
    <3>2. QED
      BY <3>1
  <2>3. QED
    BY <2>1, <2>2
<1>10. /\ DOMAIN rejected = DOMAIN turned \cup DOMAIN s.rejected
       /\ \A t \in DOMAIN turned : rejected[t] = turned[t]
       /\ \A t \in DOMAIN s.rejected : t \notin DOMAIN turned => rejected[t] = s.rejected[t]
  <2> HIDE DEF turned
  <2>1. QED
    BY DEF Updated
<1>11. \A n \in 1 .. N, m \in 1 .. N :
          "maximum_symbols_exceeded" \in reasons[n] /\ n <= m => reasons[m] # {}
  <2> SUFFICES ASSUME NEW n \in 1 .. N, NEW m \in 1 .. N, n <= m,
                      "maximum_symbols_exceeded" \in reasons[n]
               PROVE  reasons[m] # {}
    OBVIOUS
  <2>1. "maximum_symbols_exceeded" \in Refused(order, n)
    BY <1>7
  <2> HIDE DEF reasons
  <2>2. Refused(order, m) # {}
    BY <1>1, <2>1, FullStays
  <2>3. QED
    BY <1>7, <2>2
<1> HIDE DEF accepted, reasons, turned, welcome, faulty, result, rejected
<1>12. {c.ticker : c \in Range(result)} \cup DOMAIN rejected
          = {c.ticker : c \in S} \cup DOMAIN s.rejected
  <2>1. \A c \in S : c \in Range(result) \/ c.ticker \in DOMAIN turned
    BY <1>1, <1>6, <1>8, <1>9
  <2>2. \A t \in DOMAIN turned : \E c \in S : c.ticker = t
    BY <1>3, <1>8, <1>9
  <2>3. Range(result) \subseteq S
    BY <1>3, <1>6, <1>8
  <2>4. QED
    BY <1>10, <2>1, <2>2, <2>3
<1>13. \A t \in DOMAIN rejected : rejected[t] # {}
  BY <1>8, <1>9, <1>10
<1>14. ASSUME {c.ticker : c \in S} \cap DOMAIN s.rejected = {}
       PROVE  {c.ticker : c \in Range(result)} \cap DOMAIN rejected = {}
  <2> SUFFICES ASSUME NEW i \in welcome, order[i].ticker \in DOMAIN rejected
               PROVE  FALSE
    BY <1>6
  <2>1. i \in 1 .. N /\ reasons[i] = {} /\ order[i] \in S
    BY <1>3, <1>8
  <2>2. order[i].ticker \in DOMAIN turned
    BY <1>10, <1>14, <2>1
  <2>3. PICK n \in faulty : order[n].ticker = order[i].ticker
    BY <1>9, <2>2
  <2>4. n \in 1 .. N /\ reasons[n] # {} /\ order[n] \in S
    BY <1>3, <1>8
  <2>5. order[n] = order[i]
    BY <1>2, <2>1, <2>3, <2>4
  <2>6. ~Before(order[n], order[n])
    BY <1>2, <2>4 DEF Before
  <2>7. ~(n < i) /\ ~(i < n)
    BY <1>1, <2>1, <2>4, <2>5, <2>6
  <2>8. n = i
    BY <1>1, <2>1, <2>4, <2>7
  <2>9. QED
    BY <2>1, <2>4, <2>8
<1>15. ASSUME NEW t \in DOMAIN rejected, "maximum_symbols_exceeded" \in rejected[t]
       PROVE  \E k \in S : /\ k.ticker = t
                           /\ \A c \in Range(result) : c.confidence >= k.confidence
  <2>1. t \in DOMAIN turned /\ rejected[t] = turned[t]
    BY <1>10, <1>15
  <2>2. PICK n \in faulty : order[n].ticker = t /\ turned[t] = reasons[n]
    BY <1>9, <2>1
  <2>3. n \in 1 .. N /\ order[n] \in S
    BY <1>3, <1>8
  <2>4. ASSUME NEW i \in welcome PROVE order[i].confidence >= order[n].confidence
    <3>1. i \in 1 .. N /\ reasons[i] = {} /\ order[i] \in S
      BY <1>3, <1>8
    <3>2. ~(n <= i)
      BY <1>11, <1>15, <2>1, <2>2, <2>3, <3>1
    <3>3. i < n
      BY <1>1, <2>3, <3>1, <3>2
    <3>4. Before(order[i], order[n])
      BY <1>1, <2>3, <3>1, <3>3
    <3>5. QED
      BY <1>2, <2>3, <3>1, <3>4 DEF Before
  <2>5. QED
    BY <1>6, <2>2, <2>3, <2>4
<1>16. QED
  BY <1>4, <1>5, <1>12, <1>13, <1>14, <1>15 DEF S

\* The symbols kept, in the order they were in.
LEMMA KeptInOrder ==
    ASSUME NEW N \in Nat, NEW kept \in SUBSET (1 .. N)
    PROVE  /\ Cardinality(kept) \in Nat
           /\ Ascending(kept) \in [1 .. Cardinality(kept) -> kept]
           /\ \A i \in kept : \E n \in 1 .. Cardinality(kept) : Ascending(kept)[n] = i
           /\ \A m, n \in 1 .. Cardinality(kept) :
                 m < n <=> Ascending(kept)[m] < Ascending(kept)[n]
<1> DEFINE ahead == [i \in kept |-> {j \in kept : j < i}]
           order == Arranged(kept, ahead)
<1>1. IsFiniteSet(kept)
  <2>1. IsFiniteSet(1 .. N)
    BY FS_Interval
  <2>2. QED
    BY <2>1, FS_Subset
<1>2. /\ ahead \in [kept -> SUBSET kept]
      /\ \A i, j \in kept : i \in ahead[j] <=> i < j
  OBVIOUS
<1>3. \A i \in kept : i \in Nat
  OBVIOUS
<1> HIDE DEF ahead
<1>4. \A i \in kept : i \notin ahead[i]
  BY <1>2, <1>3
<1>5. \A i, j \in kept : i # j => i \in ahead[j] \/ j \in ahead[i]
  BY <1>2, <1>3
<1>6. ASSUME NEW i \in kept, NEW j \in kept, i \in ahead[j], NEW k \in ahead[i]
      PROVE  k \in ahead[j]
  <2>1. k \in kept
    BY <1>2
  <2>2. QED
    BY <1>2, <1>3, <1>6, <2>1
<1>7. \A i, j \in kept : i \in ahead[j] => ahead[i] \subseteq ahead[j]
  BY <1>6
<1>8. /\ Cardinality(kept) \in Nat
      /\ order \in [1 .. Cardinality(kept) -> kept]
      /\ \A i \in kept : \E n \in 1 .. Cardinality(kept) : order[n] = i
      /\ \A m, n \in 1 .. Cardinality(kept) : m < n <=> order[m] \in ahead[order[n]]
  BY <1>1, <1>2, <1>4, <1>5, <1>7, ArrangedIs
<1> HIDE DEF order
<1>9. \A m, n \in 1 .. Cardinality(kept) : m < n <=> order[m] < order[n]
  BY <1>2, <1>8
<1>10. QED
  BY <1>8, <1>9 DEF order, ahead, Ascending

\* Whom the category mix sends away, and why.
MixRejections(ai, accepted) ==
    ByTicker(accepted, [i \in DOMAIN accepted |->
                          IF ai THEN MixReasons(accepted, accepted[i]) ELSE {}])

MixKept(ai, accepted) ==
    {i \in DOMAIN accepted : accepted[i].ticker \notin DOMAIN MixRejections(ai, accepted)}

MixOrder(ai, accepted) == Ascending(MixKept(ai, accepted))

\* The mix keeps whoever has no reasons, and no one who has some.
LEMMA MixedAre ==
    ASSUME NEW ai, NEW accepted, NEW N \in Nat, DOMAIN accepted = 1 .. N
    PROVE  /\ \A t \in DOMAIN MixRejections(ai, accepted) :
                 \E i \in 1 .. N :
                    /\ ai
                    /\ accepted[i].ticker = t
                    /\ MixReasons(accepted, accepted[i]) # {}
                    /\ MixRejections(ai, accepted)[t] = MixReasons(accepted, accepted[i])
           /\ \A i \in MixKept(ai, accepted) :
                 i \in 1 .. N /\ (ai => MixReasons(accepted, accepted[i]) = {})
           /\ MixOrder(ai, accepted)
                 \in [1 .. Cardinality(MixKept(ai, accepted)) -> MixKept(ai, accepted)]
           /\ Cardinality(MixKept(ai, accepted)) \in Nat
           /\ \A i \in MixKept(ai, accepted) :
                 \E n \in 1 .. Cardinality(MixKept(ai, accepted)) :
                    MixOrder(ai, accepted)[n] = i
           /\ \A m, n \in 1 .. Cardinality(MixKept(ai, accepted)) :
                 m < n <=> MixOrder(ai, accepted)[m] < MixOrder(ai, accepted)[n]
<1> DEFINE reasons == [i \in DOMAIN accepted |->
                         IF ai THEN MixReasons(accepted, accepted[i]) ELSE {}]
           out == MixRejections(ai, accepted)
           kept == MixKept(ai, accepted)
<1>1. out = ByTicker(accepted, reasons)
  BY DEF MixRejections
<1>2. \A i \in 1 .. N : reasons[i] = IF ai THEN MixReasons(accepted, accepted[i]) ELSE {}
  OBVIOUS
<1> HIDE DEF reasons, out
<1>3. \A i \in Faulty(reasons, N) : accepted[i].ticker \in DOMAIN out
  BY <1>1, ByTickerIs
<1>4. ASSUME NEW t \in DOMAIN out
      PROVE  \E i \in 1 .. N :
                /\ ai
                /\ accepted[i].ticker = t
                /\ MixReasons(accepted, accepted[i]) # {}
                /\ out[t] = MixReasons(accepted, accepted[i])
  <2> DEFINE n == Culprit(accepted, reasons, t)
  <2>1. n \in Faulty(reasons, N) /\ accepted[n].ticker = t /\ out[t] = reasons[n]
    BY <1>1, ByTickerIs
  <2>2. n \in 1 .. N /\ reasons[n] # {}
    BY <2>1 DEF Faulty
  <2> HIDE DEF n
  <2>3. QED
    BY <1>2, <2>1, <2>2
<1>5. \A i \in kept : i \in 1 .. N /\ (ai => MixReasons(accepted, accepted[i]) = {})
  BY <1>2, <1>3 DEF MixKept, Faulty, out
<1>6. kept \in SUBSET (1 .. N)
  BY <1>5
<1>7. /\ Cardinality(kept) \in Nat
      /\ MixOrder(ai, accepted) \in [1 .. Cardinality(kept) -> kept]
      /\ \A i \in kept : \E n \in 1 .. Cardinality(kept) : MixOrder(ai, accepted)[n] = i
      /\ \A m, n \in 1 .. Cardinality(kept) :
            m < n <=> MixOrder(ai, accepted)[m] < MixOrder(ai, accepted)[n]
  <2> HIDE DEF kept
  <2>1. MixOrder(ai, accepted) = Ascending(kept)
    BY DEF MixOrder, kept
  <2>2. QED
    BY <1>6, <2>1, KeptInOrder
<1>8. QED
  BY <1>4, <1>5, <1>7 DEF out

MixAccepted(ai, accepted) ==
    [n \in DOMAIN MixOrder(ai, accepted) |-> accepted[MixOrder(ai, accepted)[n]]]

MixRejected(ai, s) ==
    Updated(s.rejected, [t \in DOMAIN MixRejections(ai, s.accepted) |->
                           ReasonsFor(s.rejected, t)
                             \cup MixRejections(ai, s.accepted)[t]])

\* What the mix makes of an admission.
LEMMA MixedIs ==
    ASSUME NEW ai, NEW s
    PROVE  /\ Mixed(ai, s).accepted = MixAccepted(ai, s.accepted)
           /\ Mixed(ai, s).rejected = MixRejected(ai, s)
BY DEF Mixed, MixAccepted, MixRejected, MixOrder, MixKept, MixRejections

\* A tag is on no more symbols after the mix, and on none when no symbol that is
\* kept has it.
LEMMA TagsFall ==
    ASSUME NEW ai, NEW accepted, NEW N \in Nat, DOMAIN accepted = 1 .. N, NEW g
    PROVE  LET before == TagCount(accepted, g)
               after == TagCount(MixAccepted(ai, accepted), g)
           IN  /\ before \in Nat /\ after \in Nat /\ after <= before
               /\ (\A i \in MixKept(ai, accepted) : g \notin accepted[i].tags) => after = 0
<1> DEFINE kept == MixKept(ai, accepted)
           K == Cardinality(kept)
           order == MixOrder(ai, accepted)
           new == MixAccepted(ai, accepted)
           Old == {i \in 1 .. N : g \in accepted[i].tags}
           New == {n \in 1 .. K : g \in accepted[order[n]].tags}
           f == [n \in New |-> order[n]]
<1>1. /\ K \in Nat /\ order \in [1 .. K -> kept]
      /\ \A i \in kept : i \in 1 .. N
      /\ \A m, n \in 1 .. K : m < n <=> order[m] < order[n]
  BY MixedAre
<1> HIDE DEF kept, K, order
<1>2. DOMAIN new = 1 .. K /\ \A n \in 1 .. K : new[n] = accepted[order[n]]
  BY <1>1 DEF MixAccepted, order
<1> HIDE DEF new
<1>3. TagCount(accepted, g) = Cardinality(Old)
  BY DEF TagCount
<1>4. TagCount(new, g) = Cardinality(New)
  <2>1. {n \in DOMAIN new : g \in new[n].tags} = New
    BY <1>2
  <2> HIDE DEF New
  <2>2. QED
    BY <2>1 DEF TagCount
<1>5. IsFiniteSet(Old) /\ Cardinality(Old) \in Nat
  <2>1. IsFiniteSet(1 .. N)
    BY FS_Interval
  <2>2. QED
    BY <2>1, FS_Subset, FS_CardinalityType
<1>6. IsFiniteSet(New) /\ Cardinality(New) \in Nat
  <2>1. IsFiniteSet(1 .. K)
    BY <1>1, FS_Interval
  <2>2. QED
    BY <2>1, FS_Subset, FS_CardinalityType
<1>7. f \in Injection(New, Old)
  <2>1. \A n \in New : order[n] \in Old
    BY <1>1
  <2>2. \A m, n \in New : order[m] = order[n] => m = n
    <3> SUFFICES ASSUME NEW m \in New, NEW n \in New, order[m] = order[n]
                 PROVE  m = n
      OBVIOUS
    <3>1. m \in 1 .. K /\ n \in 1 .. K /\ m \in Nat /\ n \in Nat
      BY <1>1
    <3>2. order[m] \in Nat /\ order[n] \in Nat
      BY <1>1, <3>1
    <3>3. ~(m < n) /\ ~(n < m)
      BY <1>1, <3>1, <3>2
    <3>4. QED
      BY <3>1, <3>3
  <2> HIDE DEF New, Old
  <2>3. QED
    BY <2>1, <2>2 DEF Injection, IsInjective
<1>8. Cardinality(New) <= Cardinality(Old)
  <2> HIDE DEF New, Old, f
  <2>1. QED
    BY <1>5, <1>7, FS_Injection
<1>9. ASSUME \A i \in kept : g \notin accepted[i].tags PROVE Cardinality(New) = 0
  <2>1. New = {}
    BY <1>1, <1>9
  <2>2. QED
    BY <2>1, FS_EmptySet
<1>10. QED
  BY <1>3, <1>4, <1>5, <1>6, <1>8, <1>9 DEF new, kept

\* What is left of a mix exceeds no cap.
LEMMA MixWithinCaps ==
    ASSUME NEW ai, ai, NEW accepted, NEW N \in Nat, DOMAIN accepted = 1 .. N
    PROVE  OverMax(MixAccepted(ai, accepted)) \cup OverTarget(MixAccepted(ai, accepted)) = {}
<1> DEFINE new == MixAccepted(ai, accepted)
<1>1. \A i \in MixKept(ai, accepted) :
         accepted[i].tags \cap (OverMax(accepted) \cup OverTarget(accepted)) = {}
  <2>1. ASSUME NEW i \in MixKept(ai, accepted)
        PROVE  MixReasons(accepted, accepted[i]) = {}
    BY MixedAre
  <2>2. QED
    BY <2>1 DEF MixReasons, When
<1>2. ASSUME NEW g, NEW cap \in Nat,
             TagCount(accepted, g) > cap => g \in OverMax(accepted) \cup OverTarget(accepted)
      PROVE  ~ TagCount(new, g) > cap
  <2>1. /\ TagCount(accepted, g) \in Nat /\ TagCount(new, g) \in Nat
        /\ TagCount(new, g) <= TagCount(accepted, g)
        /\ (\A i \in MixKept(ai, accepted) : g \notin accepted[i].tags)
              => TagCount(new, g) = 0
    BY TagsFall
  <2> HIDE DEF new
  <2>2. CASE TagCount(accepted, g) > cap
    <3>1. \A i \in MixKept(ai, accepted) : g \notin accepted[i].tags
      BY <1>1, <1>2, <2>2
    <3>2. TagCount(new, g) = 0
      BY <2>1, <3>1
    <3>3. QED
      BY <3>2
  <2>3. CASE ~ TagCount(accepted, g) > cap
    BY <2>1, <2>3
  <2>4. QED
    BY <2>2, <2>3
<1> HIDE DEF new
<1>3. ASSUME NEW g \in OverMax(new) PROVE FALSE
  <2>1. g \in DOMAIN CategoryMax /\ TagCount(new, g) > CategoryMax[g]
    BY DEF OverMax
  <2>2. CategoryMax[g] \in Nat
    BY <2>1, PolicyAssumption
  <2>3. TagCount(accepted, g) > CategoryMax[g] => g \in OverMax(accepted)
    BY <2>1 DEF OverMax
  <2>4. QED
    BY <1>2, <2>1, <2>2, <2>3
<1>4. ASSUME NEW g \in OverTarget(new) PROVE FALSE
  <2>1. g \in DOMAIN CategoryTarget /\ TagCount(new, g) > CategoryTarget[g]
    BY DEF OverTarget
  <2>2. CategoryTarget[g] \in Nat
    BY <2>1, PolicyAssumption
  <2>3. TagCount(accepted, g) > CategoryTarget[g] => g \in OverTarget(accepted)
    BY <2>1 DEF OverTarget
  <2>4. QED
    BY <1>2, <2>1, <2>2, <2>3
<1>5. QED
  BY <1>3, <1>4 DEF new

\* A policy request's candidates can be put in order as they are screened, and
\* what is accepted is a list of them.
LEMMA PolicyInputs ==
    ASSUME NEW q \in PolicyRequests
    PROVE  LET s == Screened(q.ai, q.proposal)
               a == Admitted(s)
           IN  /\ Orderly(s.passed)
               /\ \A t \in DOMAIN s.rejected :
                     /\ s.rejected[t] # {}
                     /\ "maximum_symbols_exceeded" \notin s.rejected[t]
               /\ Len(a.accepted) \in Nat /\ DOMAIN a.accepted = 1 .. Len(a.accepted)
<1> DEFINE s == Screened(q.ai, q.proposal)
           a == Admitted(s)
<1>1. /\ s.passed \subseteq Range(q.proposal) /\ IsFiniteSet(s.passed)
      /\ \A c, k \in s.passed : c.ticker = k.ticker => c = k
      /\ \A t \in DOMAIN s.rejected :
            s.rejected[t] # {} /\ "maximum_symbols_exceeded" \notin s.rejected[t]
  BY ScreenedAre
<1> HIDE DEF s
<1>2. \A c \in Range(q.proposal) : c.ticker \in Nat /\ c.confidence \in Nat
  BY RequestAssumption DEF Range
<1>3. Orderly(s.passed)
  BY <1>1, <1>2 DEF Orderly
<1>4. a.accepted \in Seq(s.passed)
  BY <1>1, <1>3, AdmittedAre
<1>5. Len(a.accepted) \in Nat /\ DOMAIN a.accepted = 1 .. Len(a.accepted)
  BY <1>4
<1>6. QED
  BY <1>1, <1>3, <1>5 DEF s

\* Where the answer of a policy request comes from.
LEMMA PolicyAnswer ==
    ASSUME Answers, Answered("policy")
    PROVE  /\ args \in PolicyRequests
           /\ ret[1] = Mixed(args.ai, Admitted(Screened(args.ai, args.proposal)))
<1>1. args.op = "policy"
  BY DEF Answered
<1>2. QED
  BY <1>1 DEF Answers, Answered, Decision

\* The category mix counts before it removes, and what is left is still within
\* every maximum and every target.
THEOREM CapsHold == Spec => []CategoryCapsHold
<1>1. Answers => CategoryCapsHold
  <2>1. SUFFICES ASSUME Answers, Answered("policy"), args.ai
                 PROVE  OverMax(ret[1].accepted) \cup OverTarget(ret[1].accepted) = {}
    BY DEF CategoryCapsHold
  <2> DEFINE a == Admitted(Screened(args.ai, args.proposal))
  <2>2. args \in PolicyRequests /\ ret[1] = Mixed(args.ai, a)
    BY <2>1, PolicyAnswer
  <2>3. Len(a.accepted) \in Nat /\ DOMAIN a.accepted = 1 .. Len(a.accepted)
    BY <2>2, PolicyInputs
  <2> HIDE DEF a
  <2>4. ret[1].accepted = MixAccepted(args.ai, a.accepted)
    BY <2>2, MixedIs
  <2>5. OverMax(MixAccepted(args.ai, a.accepted))
          \cup OverTarget(MixAccepted(args.ai, a.accepted)) = {}
    BY <2>1, <2>3, MixWithinCaps
  <2>6. QED
    BY <2>4, <2>5
<1>2. QED
  BY <1>1, AnswersInvariant, PTL

\* Without the category mix everyone is kept, in the same order.
LEMMA AscendingAll ==
    ASSUME NEW N \in Nat
    PROVE  /\ DOMAIN Ascending(1 .. N) = 1 .. N
           /\ \A n \in 1 .. N : Ascending(1 .. N)[n] = n
<1> DEFINE ahead == [i \in 1 .. N |-> {j \in 1 .. N : j < i}]
<1>1. \A i \in 1 .. N : Cardinality(ahead[i]) = i - 1
  <2> SUFFICES ASSUME NEW i \in 1 .. N PROVE Cardinality(ahead[i]) = i - 1
    OBVIOUS
  <2>1. ahead[i] = 1 .. i - 1
    OBVIOUS
  <2>2. Cardinality(1 .. i - 1) = i - 1
    BY FS_Interval
  <2> HIDE DEF ahead
  <2>3. QED
    BY <2>1, <2>2
<1>2. Cardinality(1 .. N) = N
  BY FS_Interval
<1> HIDE DEF ahead
<1>3. Ascending(1 .. N) = [n \in 1 .. N |-> CHOOSE x \in 1 .. N : Cardinality(ahead[x]) = n - 1]
  BY <1>2 DEF Ascending, Arranged, ahead
<1>4. ASSUME NEW n \in 1 .. N
      PROVE  (CHOOSE x \in 1 .. N : Cardinality(ahead[x]) = n - 1) = n
  <2>1. \A x \in 1 .. N : Cardinality(ahead[x]) = n - 1 <=> x = n
    BY <1>1
  <2>2. QED
    BY <2>1
<1>5. QED
  BY <1>3, <1>4

\* Without the category mix, what was admitted is the universe, in its order.
LEMMA MixOff ==
    ASSUME NEW ai, ~ai, NEW accepted, NEW N \in Nat, DOMAIN accepted = 1 .. N
    PROVE  /\ DOMAIN MixAccepted(ai, accepted) = 1 .. N
           /\ \A n \in 1 .. N : MixAccepted(ai, accepted)[n] = accepted[n]
<1>1. DOMAIN MixRejections(ai, accepted) = {}
  <2> DEFINE reasons == [i \in DOMAIN accepted |->
                           IF ai THEN MixReasons(accepted, accepted[i]) ELSE {}]
  <2>1. \A i \in DOMAIN accepted : reasons[i] = {}
    OBVIOUS
  <2>2. MixRejections(ai, accepted) = ByTicker(accepted, reasons)
    BY DEF MixRejections
  <2> HIDE DEF reasons
  <2>3. QED
    BY <2>1, <2>2 DEF ByTicker
<1>2. MixKept(ai, accepted) = 1 .. N
  BY <1>1 DEF MixKept
<1>3. MixOrder(ai, accepted) = Ascending(1 .. N)
  BY <1>2 DEF MixOrder
<1>4. /\ DOMAIN MixOrder(ai, accepted) = 1 .. N
      /\ \A n \in 1 .. N : MixOrder(ai, accepted)[n] = n
  BY <1>3, AscendingAll
<1>5. QED
  BY <1>4 DEF MixAccepted

\* One more symbol counts in its own sector only.
LEMMA SectorOfOneMore ==
    ASSUME NEW S, NEW x \in Seq(S), NEW c \in S, NEW sector
    PROVE  /\ SectorCount(x, sector) \in Nat
           /\ SectorCount(Append(x, c), sector)
                = IF c.sector = sector THEN SectorCount(x, sector) + 1
                                       ELSE SectorCount(x, sector)
<1> DEFINE N == Len(x)
           y == Append(x, c)
           old == {i \in 1 .. N : x[i].sector = sector}
           new == {i \in 1 .. N + 1 : y[i].sector = sector}
<1>1. /\ N \in Nat /\ DOMAIN x = 1 .. N /\ DOMAIN y = 1 .. N + 1
      /\ \A i \in 1 .. N : y[i] = x[i]
      /\ y[N + 1] = c
  OBVIOUS
<1> HIDE DEF N, y
<1>2. IsFiniteSet(old) /\ Cardinality(old) \in Nat
  <2>1. IsFiniteSet(1 .. N)
    BY <1>1, FS_Interval
  <2>2. QED
    BY <2>1, FS_Subset, FS_CardinalityType
<1>3. N + 1 \notin old /\ \A i : i \in 1 .. N + 1 <=> i \in 1 .. N \/ i = N + 1
  BY <1>1
<1>4. new = IF c.sector = sector THEN old \cup {N + 1} ELSE old
  BY <1>1, <1>3
<1>5. SectorCount(x, sector) = Cardinality(old) /\ SectorCount(y, sector) = Cardinality(new)
  BY <1>1 DEF SectorCount
<1> HIDE DEF old, new
<1>6. Cardinality(old \cup {N + 1}) = Cardinality(old) + 1
  BY <1>2, <1>3, FS_AddElement
<1>7. QED
  BY <1>2, <1>4, <1>5, <1>6 DEF y

\* The share, of a universe in the making.
ShareHolds(x) ==
    \A i \in DOMAIN x : i > 2 =>
        SectorCount(x, x[i].sector) * 100 <= SectorPercent * Len(x)

\* Admission keeps the share: of the sector it admits because it is tested, of the
\* others because the universe grows.
LEMMA ShareStays ==
    ASSUME NEW S, NEW x \in Seq(S), NEW c \in S, ShareHolds(x)
    PROVE  ShareHolds(Admit(x, c))
<1> DEFINE N == Len(x)
           y == Append(x, c)
           count(s) == SectorCount(x, s)
           count1(s) == SectorCount(y, s)
<1>1. /\ N \in Nat /\ DOMAIN x = 1 .. N /\ Len(y) = N + 1 /\ DOMAIN y = 1 .. N + 1
      /\ \A i \in 1 .. N : y[i] = x[i]
      /\ y[N + 1] = c
  OBVIOUS
<1>2. SectorPercent \in Nat
  <2>1. SectorPercent \in 0 .. 100
    BY PolicyAssumption
  <2>2. QED
    BY <2>1
<1>3. \A s : /\ count(s) \in Nat
             /\ count1(s) = IF c.sector = s THEN count(s) + 1 ELSE count(s)
  BY SectorOfOneMore
<1>4. CASE Refusal(x, c) # {}
  BY <1>4 DEF Admit
<1>5. CASE Refusal(x, c) = {}
  <2>1. Admit(x, c) = y
    BY <1>5 DEF Admit
  <2>2. ~Concentrated(x, c)
    BY <1>5 DEF Refusal, When
  <2>3. N + 1 > 2 => ~ (count(c.sector) + 1) * 100 > SectorPercent * (N + 1)
    BY <2>2 DEF Concentrated
  <2> HIDE DEF N, y, count, count1
  <2>4. SectorPercent * N \in Nat /\ SectorPercent * (N + 1) = SectorPercent * N + SectorPercent
    BY <1>1, <1>2
  <2> DEFINE room == SectorPercent * N
             room1 == SectorPercent * (N + 1)
  <2>5. room \in Nat /\ room1 = room + SectorPercent
    BY <2>4
  <2>6. N + 1 > 2 => ~ (count(c.sector) + 1) * 100 > room1
    BY <2>3
  <2>7. \A i \in 1 .. N : i > 2 => count(x[i].sector) * 100 <= room
    BY <1>1 DEF ShareHolds, count, N
  <2> HIDE DEF room, room1
  <2>8. ASSUME NEW i \in 1 .. N + 1, i > 2
        PROVE  count1(y[i].sector) * 100 <= room1
    <3>1. N + 1 > 2 /\ i \in Nat
      BY <1>1, <2>8
    <3>2. CASE y[i].sector = c.sector
      <4>1. count1(y[i].sector) = count(c.sector) + 1 /\ count(c.sector) \in Nat
        BY <1>3, <3>2
      <4>2. QED
        BY <1>2, <2>5, <2>6, <3>1, <4>1
    <3>3. CASE y[i].sector # c.sector
      <4>1. i \in 1 .. N /\ y[i] = x[i]
        BY <1>1, <2>8, <3>3
      <4>2. count1(y[i].sector) = count(x[i].sector) /\ count(x[i].sector) \in Nat
        BY <1>3, <3>3, <4>1
      <4>3. count(x[i].sector) * 100 <= room
        BY <2>7, <2>8, <4>1
      <4>4. QED
        BY <1>2, <2>5, <4>2, <4>3
    <3>4. QED
      BY <3>2, <3>3
  <2>9. ShareHolds(y)
    BY <1>1, <2>8 DEF ShareHolds, count1, room1
  <2>10. QED
    BY <2>1, <2>9
<1>6. QED
  BY <1>4, <1>5

\* It holds of whoever has been admitted.
LEMMA ShareOfAdmitted ==
    ASSUME NEW s, Orderly(s.passed)
    PROVE  ShareHolds(Admitted(s).accepted)
<1> DEFINE S == s.passed
           N == Cardinality(S)
           order == Arranged(S, Ahead(S))
           accepted == Accepted(order)
           G == {n \in 0 .. N : ShareHolds(accepted[n])}
<1>1. N \in Nat /\ order \in [1 .. N -> S]
  BY OrderIs
<1> HIDE DEF S, N, order
<1>2. Admitted(s).accepted = accepted[N]
  <2>1. Len(order) = N
    BY <1>1
  <2>2. QED
    BY <2>1 DEF Admitted, S, order
<1>3. /\ accepted[0] = <<>>
      /\ \A n \in 0 .. N : accepted[n] \in Seq(S)
      /\ AdmitsAll(order, N)
  BY <1>1, AcceptedIs
<1>4. \A n \in 1 .. N : accepted[n] = Admit(accepted[n - 1], order[n])
  BY <1>3 DEF AdmitsAll
<1> HIDE DEF accepted
<1>5. 0 \in G
  BY <1>1, <1>3 DEF ShareHolds
<1>6. ASSUME NEW n \in 1 .. N, n - 1 \in G PROVE n \in G
  <2>1. ShareHolds(accepted[n - 1]) /\ n - 1 \in 0 .. N /\ n \in 0 .. N
    BY <1>1, <1>6
  <2>2. accepted[n - 1] \in Seq(S) /\ order[n] \in S
    BY <1>1, <1>3, <2>1
  <2>3. ShareHolds(Admit(accepted[n - 1], order[n]))
    BY <2>1, <2>2, ShareStays
  <2>4. QED
    BY <1>4, <2>1, <2>3
<1>7. G \in SUBSET (0 .. N) /\ N \in 0 .. N
  BY <1>1
<1> HIDE DEF G
<1>8. N \in G
  BY <1>1, <1>5, <1>6, <1>7, StepByStep
<1>9. QED
  BY <1>2, <1>8 DEF G

\* The sector share is tested only as each symbol is admitted, and holds of the
\* whole universe for every sector with a symbol after the second.
THEOREM ShareOfEverySector == Spec => []SectorShareHolds
<1>1. Answers => SectorShareHolds
  <2>1. SUFFICES ASSUME Answers, Answered("policy"), ~args.ai
                 PROVE  ShareHolds(ret[1].accepted)
    BY DEF SectorShareHolds, ShareHolds
  <2> DEFINE s == Screened(args.ai, args.proposal)
             a == Admitted(s)
             x == a.accepted
             y == ret[1].accepted
  <2>2. args \in PolicyRequests /\ ret[1] = Mixed(args.ai, a)
    BY <2>1, PolicyAnswer
  <2>3. Orderly(s.passed) /\ Len(x) \in Nat /\ DOMAIN x = 1 .. Len(x)
    BY <2>2, PolicyInputs
  <2>4. ShareHolds(x)
    BY <2>3, ShareOfAdmitted
  <2> HIDE DEF s, a
  <2>5. y = MixAccepted(args.ai, x)
    BY <2>2, MixedIs
  <2> HIDE DEF x, y
  <2>6. DOMAIN y = 1 .. Len(x) /\ \A n \in 1 .. Len(x) : y[n] = x[n]
    BY <2>1, <2>3, <2>5, MixOff
  <2>7. Len(y) = Len(x)
    BY <2>3, <2>6
  <2>8. \A sector : SectorCount(y, sector) = SectorCount(x, sector)
    BY <2>3, <2>6 DEF SectorCount
  <2>9. ShareHolds(y)
    BY <2>3, <2>4, <2>6, <2>7, <2>8 DEF ShareHolds
  <2>10. QED
    BY <2>9 DEF y
<1>2. QED
  BY <1>1, AnswersInvariant, PTL

\* The mix moves symbols from the accepted to the rejected, and no reason it
\* gives is that the universe is full.
LEMMA MixMoves ==
    ASSUME NEW ai, NEW s, NEW N \in Nat, DOMAIN s.accepted = 1 .. N,
           \A t \in DOMAIN s.rejected : s.rejected[t] # {}
    PROVE  LET out == DOMAIN MixRejections(ai, s.accepted)
               rejected == MixRejected(ai, s)
           IN  /\ \A c : c \in Range(MixAccepted(ai, s.accepted)) <=>
                        c \in Range(s.accepted) /\ c.ticker \notin out
               /\ \A t \in out : \E c \in Range(s.accepted) : c.ticker = t
               /\ DOMAIN rejected = DOMAIN s.rejected \cup out
               /\ \A t \in DOMAIN rejected :
                     /\ rejected[t] # {}
                     /\ "maximum_symbols_exceeded" \in rejected[t] =>
                           /\ t \in DOMAIN s.rejected
                           /\ "maximum_symbols_exceeded" \in s.rejected[t]
<1> DEFINE accepted == s.accepted
           kept == MixKept(ai, accepted)
           K == Cardinality(kept)
           order == MixOrder(ai, accepted)
           new == MixAccepted(ai, accepted)
           out == MixRejections(ai, accepted)
           before == Range(accepted)
           after == Range(new)
           rejected == MixRejected(ai, s)
<1>1. /\ K \in Nat /\ order \in [1 .. K -> kept]
      /\ \A i \in kept : i \in 1 .. N
      /\ \A i \in kept : \E n \in 1 .. K : order[n] = i
  <2>1. K \in Nat /\ order \in [1 .. K -> kept]
    BY MixedAre
  <2>2. \A i \in kept : i \in 1 .. N
    BY MixedAre
  <2>3. ASSUME NEW i \in kept PROVE \E n \in 1 .. K : order[n] = i
    BY MixedAre
  <2>4. QED
    BY <2>1, <2>2, <2>3
<1>2. kept = {i \in 1 .. N : accepted[i].ticker \notin DOMAIN out}
  BY DEF MixKept
<1> DEFINE reasons == [i \in DOMAIN accepted |->
                         IF ai THEN MixReasons(accepted, accepted[i]) ELSE {}]
<1>3. out = ByTicker(accepted, reasons)
  BY DEF MixRejections
<1>4. \A i \in 1 .. N : reasons[i] = {} \/ reasons[i] = MixReasons(accepted, accepted[i])
  OBVIOUS
<1> HIDE DEF accepted, kept, K, order, out, reasons
<1>5. DOMAIN accepted = 1 .. N
  BY DEF accepted
<1>6. DOMAIN new = 1 .. K /\ \A n \in 1 .. K : new[n] = accepted[order[n]]
  BY <1>1 DEF MixAccepted, order
<1> HIDE DEF new
<1>7. \A t \in DOMAIN out :
         \E i \in 1 .. N : /\ accepted[i].ticker = t
                           /\ out[t] # {}
                           /\ "maximum_symbols_exceeded" \notin out[t]
  <2> SUFFICES ASSUME NEW t \in DOMAIN out
               PROVE  \E i \in 1 .. N : /\ accepted[i].ticker = t
                                        /\ out[t] # {}
                                        /\ "maximum_symbols_exceeded" \notin out[t]
    OBVIOUS
  <2> DEFINE n == Culprit(accepted, reasons, t)
  <2>1. n \in Faulty(reasons, N) /\ accepted[n].ticker = t /\ out[t] = reasons[n]
    <3>1. t \in DOMAIN ByTicker(accepted, reasons)
      BY <1>3
    <3>2. /\ n \in Faulty(reasons, N) /\ accepted[n].ticker = t
          /\ ByTicker(accepted, reasons)[t] = reasons[n]
      BY <1>5, <3>1, ByTickerIs
    <3>3. QED
      BY <1>3, <3>2
  <2>2. n \in 1 .. N /\ reasons[n] # {}
    BY <2>1 DEF Faulty
  <2> HIDE DEF n
  <2>3. "maximum_symbols_exceeded" \notin MixReasons(accepted, accepted[n])
    BY DEF MixReasons, When
  <2>4. "maximum_symbols_exceeded" \notin reasons[n]
    BY <1>4, <2>2, <2>3
  <2>5. QED
    BY <2>1, <2>2, <2>4
<1>8. \A c : c \in after <=> c \in before /\ c.ticker \notin DOMAIN out
  <2>1. \A c \in after : c \in before /\ c.ticker \notin DOMAIN out
    BY <1>1, <1>2, <1>5, <1>6 DEF Range
  <2>2. ASSUME NEW i \in 1 .. N, accepted[i].ticker \notin DOMAIN out
        PROVE  accepted[i] \in after
    <3>1. i \in kept
      BY <1>2, <2>2
    <3>2. PICK n \in 1 .. K : order[n] = i
      BY <1>1, <3>1
    <3>3. QED
      BY <1>6, <3>2 DEF Range
  <2>3. QED
    BY <1>5, <2>1, <2>2 DEF Range
<1>9. \A t \in DOMAIN out : \E c \in before : c.ticker = t
  BY <1>5, <1>7 DEF Range
<1>10. rejected = Updated(s.rejected, [t \in DOMAIN out |->
                                         ReasonsFor(s.rejected, t) \cup out[t]])
  BY DEF MixRejected, out, accepted
<1> HIDE DEF rejected
<1>11. /\ DOMAIN rejected = DOMAIN s.rejected \cup DOMAIN out
       /\ \A t \in DOMAIN out : rejected[t] = ReasonsFor(s.rejected, t) \cup out[t]
       /\ \A t \in DOMAIN s.rejected : t \notin DOMAIN out => rejected[t] = s.rejected[t]
  BY <1>10 DEF Updated
<1>12. \A t \in DOMAIN rejected :
          /\ rejected[t] # {}
          /\ "maximum_symbols_exceeded" \in rejected[t] =>
                /\ t \in DOMAIN s.rejected
                /\ "maximum_symbols_exceeded" \in s.rejected[t]
  BY <1>7, <1>11 DEF ReasonsFor
<1> HIDE DEF before, after
<1>13. QED
  BY <1>8, <1>9, <1>11, <1>12 DEF accepted, new, out, before, after, rejected

\* The policy decides: every proposed ticker is accepted or rejected with a
\* reason, none is accepted twice, none of a proposal without duplicates is both,
\* and a full universe turned away nobody better than those it took.
THEOREM PolicyDecides == Spec => []EveryCandidateDecided
<1>1. Answers => EveryCandidateDecided
  <2>1. SUFFICES ASSUME Answers, Answered("policy") PROVE EveryCandidateDecided
    BY DEF EveryCandidateDecided
  <2> DEFINE P == args.proposal
             s == Screened(args.ai, P)
             a == Admitted(s)
             r == ret[1]
             out == DOMAIN MixRejections(args.ai, a.accepted)
             accepted == {r.accepted[i] : i \in DOMAIN r.accepted}
             tickers == {c.ticker : c \in Range(P)}
             distinct == Cardinality(tickers) = Len(P)
             full == "maximum_symbols_exceeded"
             names(S) == {c.ticker : c \in S}
             apart == \A i, j \in DOMAIN P : P[i].ticker = P[j].ticker => i = j
  <2>2. args \in PolicyRequests /\ r = Mixed(args.ai, a)
    BY <2>1, PolicyAnswer
  <2>3. /\ Orderly(s.passed)
        /\ \A t \in DOMAIN s.rejected : s.rejected[t] # {} /\ full \notin s.rejected[t]
        /\ Len(a.accepted) \in Nat /\ DOMAIN a.accepted = 1 .. Len(a.accepted)
    BY <2>2, PolicyInputs
  <2>4. IsList(P)
    BY <2>2, RequestAssumption
  <2>5. distinct => apart
    BY <2>4, DistinctTickers
  <2>6. /\ s.passed \subseteq Range(P)
        /\ \A c, k \in s.passed : c.ticker = k.ticker => c = k
        /\ names(s.passed) \cup DOMAIN s.rejected = tickers
        /\ apart => names(s.passed) \cap DOMAIN s.rejected = {}
    BY <2>2, ScreenedAre
  <2> HIDE DEF s
  <2>7. /\ a.accepted \in Seq(s.passed)
        /\ names(Range(a.accepted)) \cup DOMAIN a.rejected
             = names(s.passed) \cup DOMAIN s.rejected
        /\ \A t \in DOMAIN a.rejected : a.rejected[t] # {}
        /\ names(s.passed) \cap DOMAIN s.rejected = {}
              => names(Range(a.accepted)) \cap DOMAIN a.rejected = {}
        /\ \A t \in DOMAIN a.rejected : full \in a.rejected[t] =>
              \E k \in s.passed :
                 /\ k.ticker = t
                 /\ \A c \in Range(a.accepted) : c.confidence >= k.confidence
    BY <2>3, AdmittedAre
  <2> HIDE DEF a
  <2> DEFINE before == Range(a.accepted)
  <2>8. before = {a.accepted[i] : i \in DOMAIN a.accepted} /\ before \subseteq s.passed
    BY <2>3, <2>7 DEF Range
  <2>9. r.accepted = MixAccepted(args.ai, a.accepted) /\ r.rejected = MixRejected(args.ai, a)
    BY <2>2, MixedIs
  <2> HIDE DEF before
  <2>10. /\ accepted = {c \in before : c.ticker \notin out}
         /\ out \subseteq names(before)
         /\ DOMAIN r.rejected = DOMAIN a.rejected \cup out
         /\ \A t \in DOMAIN r.rejected :
               /\ r.rejected[t] # {}
               /\ full \in r.rejected[t] => t \in DOMAIN a.rejected /\ full \in a.rejected[t]
    <3>1. /\ Len(a.accepted) \in Nat /\ DOMAIN a.accepted = 1 .. Len(a.accepted)
          /\ \A t \in DOMAIN a.rejected : a.rejected[t] # {}
      BY <2>3, <2>7
    <3> DEFINE new == MixAccepted(args.ai, a.accepted)
               moved == MixRejected(args.ai, a)
               sent == DOMAIN MixRejections(args.ai, a.accepted)
    <3>2. \A c : c \in Range(new) <=> c \in Range(a.accepted) /\ c.ticker \notin sent
      BY <3>1, MixMoves
    <3>3. ASSUME NEW t \in sent PROVE \E c \in Range(a.accepted) : c.ticker = t
      BY <3>1, MixMoves
    <3>4. DOMAIN moved = DOMAIN a.rejected \cup sent
      BY <3>1, MixMoves
    <3>5. ASSUME NEW t \in DOMAIN moved
          PROVE  /\ moved[t] # {}
                 /\ full \in moved[t] => t \in DOMAIN a.rejected /\ full \in a.rejected[t]
      BY <3>1, MixMoves
    <3>6. accepted = Range(new) /\ moved = r.rejected /\ sent = out /\ before = Range(a.accepted)
      BY <2>9 DEF before, Range
    <3> HIDE DEF new, moved, sent, accepted, r, out
    <3>7. QED
      BY <3>2, <3>3, <3>4, <3>5, <3>6
  <2> HIDE DEF out, r, tickers, distinct, apart, P
  <2>11. names(accepted) \cup DOMAIN r.rejected = tickers
    <3>1. names(accepted) \cup out = names(before)
      BY <2>10
    <3>2. names(before) \cup DOMAIN a.rejected = tickers
      BY <2>6, <2>7 DEF before
    <3> HIDE DEF names, accepted
    <3>3. QED
      BY <2>10, <3>1, <3>2
  <2>12. \A c, k \in accepted : c.ticker = k.ticker => c = k
    BY <2>6, <2>8, <2>10
  <2>13. distinct => names(accepted) \cap DOMAIN r.rejected = {}
    <3>1. SUFFICES ASSUME distinct, NEW c \in accepted, c.ticker \in DOMAIN r.rejected
                   PROVE  FALSE
      OBVIOUS
    <3>2. c \in before /\ c.ticker \in DOMAIN a.rejected
      BY <2>10, <3>1
    <3>3. names(before) \cap DOMAIN a.rejected = {}
      BY <2>5, <2>6, <2>7, <3>1 DEF before
    <3>4. QED
      BY <3>2, <3>3
  <2>14. ASSUME NEW c \in accepted, NEW k \in Range(P), distinct,
                k.ticker \in DOMAIN r.rejected, full \in r.rejected[k.ticker]
         PROVE  c.confidence >= k.confidence
    <3>1. k.ticker \in DOMAIN a.rejected /\ full \in a.rejected[k.ticker]
      BY <2>10, <2>14
    <3>2. PICK l \in s.passed :
             /\ l.ticker = k.ticker
             /\ \A d \in before : d.confidence >= l.confidence
      BY <2>7, <3>1 DEF before
    <3>3. l = k
      <4>1. l \in Range(P)
        BY <2>6
      <4>2. QED
        BY <2>5, <2>14, <3>2, <4>1 DEF apart, Range
    <3>4. c \in before
      BY <2>10
    <3>5. QED
      BY <3>2, <3>3, <3>4
  <2>15. QED
    BY <2>10, <2>11, <2>12, <2>13, <2>14 DEF EveryCandidateDecided, r, tickers, distinct, P
<1>2. QED
  BY <1>1, AnswersInvariant, PTL
===============================================================================
