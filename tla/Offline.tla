------------------------------- MODULE Offline --------------------------------
(***************************************************************************)
(* The research tools that run outside the daily cycle, each called once   *)
(* with some arguments: the universe policy, the research script, the      *)
(* reading of a market data file, the training command and the backtest.   *)
(* args is the request, ret is <<>> until it is answered and then holds    *)
(* the one answer; none of them keeps any state.                           *)
(***************************************************************************)
EXTENDS UniversePolicy, UniverseFile, Backtest

CONSTANTS LastSession,        \* sessions of a file are numbered up to it
          PolicyRequests,     \* [op, ai, proposal]
          ResearchRequests,   \* [op, report, answers, file]
          FileRequests,       \* [op, file, names, start]
          TrainingRequests,   \* [op, panel, scores, threshold]
          BacktestRequests    \* [op, scores, prices, sessions]

IsList(s) == Len(s) \in Nat /\ DOMAIN s = 1 .. Len(s)

ASSUME RequestAssumption ==
    /\ LastSession \in Nat
    /\ \A r \in PolicyRequests :
          /\ r.op = "policy"
          /\ IsList(r.proposal)
          /\ \A i \in DOMAIN r.proposal :
                /\ {r.proposal[i].ticker, r.proposal[i].confidence} \subseteq Nat
                /\ "maximum_symbols_exceeded" \notin r.proposal[i].faults
    /\ \A r \in ResearchRequests :
          /\ r.op = "research"
          /\ IsList(r.answers)
          /\ \A i \in DOMAIN r.answers :
                /\ IsList(r.answers[i].entries)
                /\ \A k \in DOMAIN r.answers[i].entries :
                      r.answers[i].entries[k].ticker \in DOMAIN Spelling
    /\ \A r \in FileRequests : r.op = "file" /\ IsList(r.file)
    /\ \A r \in BacktestRequests :
          /\ r.op = "backtest"
          /\ r.sessions \subseteq 1 .. LastSession
          /\ DOMAIN r.scores \subseteq Nat /\ IsFiniteSet(DOMAIN r.scores)
          /\ \A t \in DOMAIN r.scores :
                /\ r.scores[t] \in [r.sessions -> Nat]
                /\ DOMAIN r.prices[t] \subseteq 1 .. LastSession
                /\ r.prices[t] \in [DOMAIN r.prices[t] ->
                      [open : Nat \ {0}, close : Nat, volume : Nat]]
    /\ \A r \in TrainingRequests :
          /\ r.op = "train"
          /\ \A t \in DOMAIN r.panel.sessions :
                r.panel.sessions[t] \subseteq 1 .. LastSession

VARIABLES args, ret

vars == <<args, ret>>

Init ==
    /\ \/ args \in PolicyRequests
       \/ args \in ResearchRequests
       \/ args \in FileRequests
       \/ args \in TrainingRequests
       \/ args \in BacktestRequests
    /\ ret = <<>>

Answer(op, value) ==
    /\ args.op = op
    /\ ret = <<>>
    /\ ret' = <<value>>
    /\ UNCHANGED args

EvaluatePolicy == Answer("policy", Decision(args.ai, args.proposal))

ResearchFile ==
    Answer("research", Researched(args.report, args.answers, args.file))

LoadFile == Answer("file", Loaded(args.file, args.names, args.start))

TrainFails ==
    /\ args.op = "train"
    /\ ~Enough(TrainableDates(args.panel))
    /\ Answer("train", [error |-> TRUE])

Train ==
    /\ args.op = "train"
    /\ Enough(TrainableDates(args.panel))
    /\ \E picks \in SUBSET Scored(args.panel, args.scores, args.threshold) :
          /\ ArePicks(args.panel, args.scores, args.threshold, picks)
          /\ Answer("train", [error |-> FALSE, split |-> Split(args.panel),
                              picks |-> picks])

Backtested ==
    Answer("backtest", RunBacktest(args.scores, args.prices, args.sessions))

Next == EvaluatePolicy \/ ResearchFile \/ LoadFile \/ TrainFails \/ Train \/ Backtested

Spec == Init /\ [][Next]_vars
===============================================================================
