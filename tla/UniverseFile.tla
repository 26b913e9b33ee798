------------------------------ MODULE UniverseFile ------------------------------
(***************************************************************************)
(* The prototype's research script (agents/research_agents.py): one call   *)
(* of a model writes a report, further calls bring it into the form of a   *)
(* universe file, and what validates replaces the file that the downloader *)
(* and the training command read.                                          *)
(*                                                                         *)
(* An answer of the formatting call is [kind, strategy, declared, entries]:*)
(* kind is "universe", "unusable" (empty, or not JSON) or "raises" (an     *)
(* error of the API, which the loop does not catch).  An entry is          *)
(* [ticker, filled]: the ticker as it is spelled, and whether company,     *)
(* category and reason are there.  A file is the sequence of its tickers.  *)
(*                                                                         *)
(* Spelling is strip().upper(); Upper is upper() alone.                    *)
(***************************************************************************)
EXTENDS TrainingData, Functions

CONSTANTS Upper, ExpectedSize, MaxFormatAttempts

\* A ticker that has been spelled out stays as it is.
ASSUME SpellingAssumption ==
    /\ {ExpectedSize, MaxFormatAttempts} \subseteq Nat
    /\ \A n \in DOMAIN Spelling : Spelling[n] # Blank =>
          /\ Spelling[n] \in DOMAIN Spelling
          /\ Spelling[Spelling[n]] = Spelling[n]
          /\ Upper[Spelling[n]] = Spelling[n]

Normalized(entries) == [i \in DOMAIN entries |-> Spelling[entries[i].ticker]]

\* Mutant: the spellings are compared, not the tickers.
AcceptableAsSpelled(answer) ==
    /\ answer.kind = "universe" /\ answer.strategy
    /\ Len(answer.entries) = ExpectedSize
    /\ answer.declared = ExpectedSize
    /\ \A i \in DOMAIN answer.entries :
          answer.entries[i].filled /\ Spelling[answer.entries[i].ticker] # Blank
    /\ IsInjective([i \in DOMAIN answer.entries |-> answer.entries[i].ticker])

\* validate_universe.
Acceptable(answer) ==
    /\ answer.kind = "universe" /\ answer.strategy
    /\ Len(answer.entries) = ExpectedSize
    /\ answer.declared = ExpectedSize
    /\ \A i \in DOMAIN answer.entries :
          answer.entries[i].filled /\ Spelling[answer.entries[i].ticker] # Blank
    /\ IsInjective(Normalized(answer.entries))

\* The attempts at which the loop would end, other than by giving up.
Decisive(answers) ==
    {i \in DOMAIN answers :
        /\ i <= MaxFormatAttempts
        /\ answers[i].kind = "raises" \/ Acceptable(answers[i])}

\* What a run of the script leaves in the file.  Without a report, after an
\* error and after the last attempt that is the file there was: the new one
\* is written beside it and then takes its place.
Researched(report, answers, file) ==
    IF ~report \/ Decisive(answers) = {} THEN [saved |-> FALSE, file |-> file]
    ELSE LET first == CHOOSE i \in Decisive(answers) :
                         \A j \in Decisive(answers) : i <= j
         IN  IF answers[first].kind = "raises" THEN [saved |-> FALSE, file |-> file]
             ELSE [saved |-> TRUE, file |-> Normalized(answers[first].entries)]

\* data/download_market_data.py load_tickers: the tickers that are downloaded.
DownloadTickers(file) == {Upper[file[i]] : i \in DOMAIN file}
===============================================================================
