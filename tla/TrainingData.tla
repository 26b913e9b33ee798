----------------------------- MODULE TrainingData -----------------------------
(***************************************************************************)
(* From a market data file to the rows a model is trained, validated and   *)
(* applied on (agents/train_xgboost.py; the same label and split in        *)
(* trading_system/features.py and modeling.py).  Pure operators.           *)
(*                                                                         *)
(* A file is a sequence of rows [ticker, session, whole, bar]: ticker as   *)
(* it is spelled, whole when the date and all five numbers can be read.    *)
(* Spelling is the function of strip().upper(), to Blank for an empty name.*)
(*   A panel is [sessions, undefined]: sessions[t] are the sessions the    *)
(* ticker has a row for, undefined the rows <<t, d>> with a feature that   *)
(* is null for what their numbers are (a division by zero).                *)
(*                                                                         *)
(* Horizon is HORIZON, Lookback the longest feature window (200 rows and   *)
(* the row before them).  Columns, fitting, metrics and the saved files    *)
(* are left out.                                                           *)
(***************************************************************************)
EXTENDS Naturals, Sequences, FiniteSets

CONSTANTS Spelling, Blank, Horizon, Lookback, Embargo, TrainDays,
          ValidationDays, MaxPicks

\* HORIZON and EMBARGO_SESSIONS are both 50; the command passes HORIZON as
\* the embargo.
ASSUME TrainingAssumption ==
    /\ {Horizon, Embargo, TrainDays, ValidationDays} \subseteq Nat \ {0}
    /\ Lookback \in Nat
    /\ Embargo >= Horizon

-------------------------------------------------------------------------------
\* The universe and the cleaned file.

UniverseTickers(names) ==
    {Spelling[names[i]] : i \in DOMAIN names} \ {Blank}

Usable(file) ==
    {i \in DOMAIN file : file[i].whole /\ Spelling[file[i].ticker] # Blank}

\* Mutant: duplicates are dropped before the rows that cannot be read.
CleanedUnread(file) ==
    {i \in Usable(file) :
        \A j \in DOMAIN file :
            /\ Spelling[file[j].ticker] = Spelling[file[i].ticker]
            /\ file[j].session = file[i].session
            => j <= i}

\* drop_duplicates(["Date", "Ticker"], keep="last") of the usable rows.
Cleaned(file) ==
    {i \in Usable(file) :
        \A j \in Usable(file) :
            /\ Spelling[file[j].ticker] = Spelling[file[i].ticker]
            /\ file[j].session = file[i].session
            => j <= i}

\* The rows the command works with; {} is one of its two errors.
Loaded(file, names, start) ==
    {[ticker |-> Spelling[file[i].ticker], session |-> file[i].session,
      bar |-> file[i].bar] :
        i \in {k \in Cleaned(file) :
                 /\ Spelling[file[k].ticker] \in UniverseTickers(names)
                 /\ file[k].session >= start}}

-------------------------------------------------------------------------------
\* Features and labels, ticker by ticker.

\* The label of session d looks at the ticker's next Horizon rows.
Window(sessions, d) ==
    {e \in sessions :
        e > d /\ Cardinality({f \in sessions : d < f /\ f <= e}) <= Horizon}

\* Mutant: a window cut short by the end of the data still gives a label.
LabelledEarly(sessions, d) == Cardinality({e \in sessions : e > d}) >= 0

Labelled(sessions, d) == Cardinality({e \in sessions : e > d}) >= Horizon

Featured(panel, t, d) ==
    /\ Cardinality({e \in panel.sessions[t] : e < d}) >= Lookback
    /\ <<t, d>> \notin panel.undefined

Rows(panel) == UNION {{t} \X panel.sessions[t] : t \in DOMAIN panel.sessions}

\* dropna(feature_cols + ["Target"]).
Trainable(panel) ==
    {r \in Rows(panel) :
        Featured(panel, r[1], r[2]) /\ Labelled(panel.sessions[r[1]], r[2])}

TrainableDates(panel) == {r[2] : r \in Trainable(panel)}

-------------------------------------------------------------------------------
\* The chronological split of the trainable dates, pooled over the tickers.

\* 1 for the newest date.
Age(dates, d) == Cardinality({e \in dates : e >= d})

Enough(dates) ==
    Cardinality(dates) >= TrainDays + ValidationDays + Embargo

ValidationDates(dates) == {d \in dates : Age(dates, d) <= ValidationDays}

\* Mutant: the training dates end where the validation dates start.
TrainingDatesAdjacent(dates) ==
    {d \in dates :
        /\ Age(dates, d) > ValidationDays
        /\ Age(dates, d) <= ValidationDays + TrainDays}

TrainingDates(dates) ==
    {d \in dates :
        /\ Age(dates, d) > ValidationDays + Embargo
        /\ Age(dates, d) <= ValidationDays + Embargo + TrainDays}

\* The model that scores is fitted on the newest labelled dates.
ProductionDates(dates) == {d \in dates : Age(dates, d) <= TrainDays}

Newest(panel) ==
    CHOOSE d \in {r[2] : r \in Rows(panel)} : \A r \in Rows(panel) : r[2] <= d

Scored(panel, scores, threshold) ==
    {t \in DOMAIN panel.sessions :
        /\ Newest(panel) \in panel.sessions[t]
        /\ Featured(panel, t, Newest(panel))
        /\ scores[t] >= threshold}

\* The best MaxPicks of the tickers scored on the newest session; the sort
\* leaves the order of equal scores open.
ArePicks(panel, scores, threshold, picks) ==
    LET scored == Scored(panel, scores, threshold)
    IN  /\ picks \subseteq scored
        /\ Cardinality(picks) = IF Cardinality(scored) < MaxPicks
                                THEN Cardinality(scored) ELSE MaxPicks
        /\ \A t \in picks, u \in scored \ picks : scores[t] >= scores[u]

RowsOf(panel, dates) == {r \in Trainable(panel) : r[2] \in dates}

Split(panel) ==
    LET dates == TrainableDates(panel)
    IN  [training |-> RowsOf(panel, TrainingDates(dates)),
         validation |-> RowsOf(panel, ValidationDates(dates)),
         production |-> RowsOf(panel, ProductionDates(dates))]
===============================================================================
