-------------------------- MODULE OfflineProperties ---------------------------
(***************************************************************************)
(* What the universe policy, the training data and the backtest promise.   *)
(***************************************************************************)
EXTENDS Offline

Answered(op) == ret # <<>> /\ args.op = op

\* universe.py evaluate: every proposed ticker comes out accepted or rejected
\* with a reason, no ticker is accepted twice, and a proposal without duplicates
\* has none that is both; whoever a full universe turned away is no more
\* confident than anyone it took.
EveryCandidateDecided ==
    Answered("policy") =>
        LET accepted == {ret[1].accepted[i] : i \in DOMAIN ret[1].accepted}
            tickers == {c.ticker : c \in Range(args.proposal)}
            distinct == Cardinality(tickers) = Len(args.proposal)
        IN  /\ {c.ticker : c \in accepted} \cup DOMAIN ret[1].rejected = tickers
            /\ \A t \in DOMAIN ret[1].rejected : ret[1].rejected[t] # {}
            /\ \A c, k \in accepted : c.ticker = k.ticker => c = k
            /\ distinct => {c.ticker : c \in accepted}
                             \cap DOMAIN ret[1].rejected = {}
            /\ \A c \in accepted, k \in Range(args.proposal) :
                  /\ distinct
                  /\ k.ticker \in DOMAIN ret[1].rejected
                  /\ "maximum_symbols_exceeded" \in ret[1].rejected[k.ticker]
                  => c.confidence >= k.confidence

\* universe.py sector share: it is tested as each symbol is admitted, against
\* the symbols so far, and the first two symbols are exempt.  It still holds of
\* the whole universe for every sector with a symbol after the second, because
\* symbols of other sectors only dilute it (with no category mix to remove any).
SectorShareHolds ==
    Answered("policy") /\ ~args.ai =>
        LET accepted == ret[1].accepted
        IN  \A i \in DOMAIN accepted : i > 2 =>
               SectorCount(accepted, accepted[i].sector) * 100
                 <= SectorPercent * Len(accepted)

\* universe.py _enforce_ai_infra_category_mix: the counts are taken before the
\* removals, and removing a symbol lowers the counts of all its categories; what
\* is left exceeds no maximum and no target.
CategoryCapsHold ==
    Answered("policy") /\ args.ai =>
        OverMax(ret[1].accepted) \cup OverTarget(ret[1].accepted) = {}

\* research_agents.py get_ticker_universe, save_universe: however the model
\* spells its tickers and however often it is refused, a file that is saved
\* holds as many tickers as it should, all different, and the downloader, which
\* only uppercases them, and the training command, which also strips them, read
\* the same ones.  The first usable answer is taken, and a run that ends
\* without one leaves the file it found.
UniverseFileIsComplete ==
    Answered("research") =>
        LET usable == {i \in DOMAIN args.answers :
                         i <= MaxFormatAttempts /\ Acceptable(args.answers[i])}
        IN  IF ret[1].saved
            THEN /\ Cardinality(UniverseTickers(ret[1].file)) = ExpectedSize
                 /\ DownloadTickers(ret[1].file) = UniverseTickers(ret[1].file)
            ELSE /\ ret[1].file = args.file
                 /\ usable # {} /\ args.report =>
                      \E i \in DOMAIN args.answers :
                         args.answers[i].kind = "raises" /\ \A j \in usable : i < j

\* train_xgboost.py load_market_data: however a ticker is spelled, a session the
\* file has a complete row for is loaded exactly once, and with the last
\* complete row of the file, also when an incomplete row follows it.
CompleteRowsSurvive ==
    Answered("file") =>
        \A t \in UniverseTickers(args.names),
           d \in {args.file[i].session : i \in DOMAIN args.file} :
            LET rows == {i \in DOMAIN args.file :
                           /\ Spelling[args.file[i].ticker] = t
                           /\ args.file[i].session = d
                           /\ args.file[i].whole}
                loaded == {r \in ret[1] : r.ticker = t /\ r.session = d}
            IN  rows # {} /\ d >= args.start =>
                   \E i \in rows :
                      /\ \A j \in rows : j <= i
                      /\ loaded = {[ticker |-> t, session |-> d,
                                    bar |-> args.file[i].bar]}

\* The rows of a ticker that traded on every trainable date after d.
Unbroken(panel, t, d) ==
    \A e \in TrainableDates(panel) : e > d => e \in panel.sessions[t]

\* train_xgboost.py 356-357, features.py chronological_split_dates: the embargo
\* keeps the forward window of every training label out of the validation
\* period.  The embargo counts dates of the pooled panel and the label rows of
\* one ticker, so the claim is about tickers without missing sessions: a ticker
\* that misses some looks further ahead than the embargo.
NoLabelLeaks ==
    Answered("train") /\ ~ret[1].error =>
        \A r \in ret[1].split.training, v \in ret[1].split.validation :
            Unbroken(args.panel, r[1], r[2]) =>
                \A w \in Window(args.panel.sessions[r[1]], r[2]) : w < v[2]

\* train_xgboost.py train_latest_model and predict_latest_buys: the model that
\* scores is refitted on the newest labelled dates, and never on a row it then
\* scores, so a pick is never a memory of its own label.
NoPickIsTrainedOn ==
    Answered("train") /\ ~ret[1].error =>
        \A t \in ret[1].picks : \A r \in ret[1].split.production :
            r[2] < Newest(args.panel)

\* backtesting.py run_backtest: a trade enters after its signal and leaves no
\* earlier than it entered, what one session's signals commit is covered by the
\* starting cash, and no trade is larger than its share of the entry's volume.
BacktestIsExecutable ==
    Answered("backtest") =>
        /\ \A r \in ret[1].trades :
              /\ r.session < r.enters /\ r.enters <= r.exits
              /\ r.quantity * 100 <= VolumePercent
                   * args.prices[r.ticker][r.enters].volume
        /\ \A d \in args.sessions :
              SumFunction([r \in {x \in ret[1].trades : x.session = d} |->
                             r.notional]) <= StartingCash * 10000
===============================================================================
