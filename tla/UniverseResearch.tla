--------------------------- MODULE UniverseResearch ---------------------------
(***************************************************************************)
(* The command research-universe: UniverseResearchService (research.py)    *)
(* asks a language model for the month's stocks, has it repair what does   *)
(* not validate, and persists the universe; the command (cli.py) then      *)
(* exports the stored universe to the ERP as one signed batch.             *)
(*                                                                         *)
(* A process is one invocation after another over one durable database.    *)
(* The provider and Yahoo are outside: an answer is any of Answers, and    *)
(* Yahoo may price all of it or not.  Nothing between two answers touches  *)
(* shared state, so asking, validating and pricing one answer is one step. *)
(*                                                                         *)
(* Definitions marked "Mutant" are the next one with a bug in it.          *)
(***************************************************************************)
EXTENDS Naturals, Sequences, FiniteSets, Functions

CONSTANTS
    Researchers,      \* the processes that may invoke research-universe
    Overlapping,      \* FALSE: invocations never overlap
    NPeriods,         \* bound: the months that are researched
    Symbols,          \* the tickers the model may propose
    UniverseSize,     \* Settings.universe_size
    Categories,       \* AIInfraCategory
    AiPolicy,         \* Settings.ai_infrastructure
    Answers,          \* the lists of stocks the model may answer with
    MaxAttempts,      \* max_attempts of run
    MaxCalls          \* bound: on the invocations of all processes together

Periods == 1..NPeriods

\* An entry of the answer, past the normalisation of its ticker; rank 0 and
\* ticker "?" stand for a value its validator refuses.
Stock == [ticker : Symbols \cup {"?"}, rank : Nat, tags : SUBSET Categories]

ASSUME ResearchAssumption ==
    /\ Overlapping \in BOOLEAN
    /\ NPeriods \in Nat /\ MaxCalls \in Nat
    /\ UniverseSize \in Nat \ {0}
    /\ MaxAttempts \in Nat \ {0}
    /\ IsFiniteSet(Symbols)
    /\ "?" \notin Symbols
    /\ AiPolicy \in [enabled : BOOLEAN, multiTag : BOOLEAN,
                     categories : SUBSET Categories, min : [Categories -> Nat],
                     max : [Categories -> Nat]]
    /\ Answers \subseteq Seq(Stock)

VARIABLES
    rows,             \* universe_runs, in the order of insertion; the index is the id
    batches,          \* the ERP batches built so far, with their status
    delivered,        \* the batches the ERP has accepted
    calls,            \* how often the command was invoked
    pc, job           \* where each process is, and its local variables

researchVars == <<rows, batches, delivered, calls, pc, job>>

\* A superseded row's period becomes "<period>-superseded-<id>": it no longer
\* is a period, and it still tells which one it was.  The column replacing is
\* not in the table: it keeps the argument replace of the call of persist.
Row == [period : Periods, superseded : BOOLEAN, replacing : BOOLEAN,
        members : SUBSET Symbols]

\* What a batch says of the universe it carries.
Batch == [row : Nat, members : SUBSET Symbols,
          status : {"pending", "dead_letter", "exported"}]

NoJob == [period |-> 0, replace |-> FALSE, attempts |-> 0, members |-> {},
          row |-> 0, batch |-> 0]

Rows == DOMAIN rows

\* universe_runs has one row per period: UNIQUE(period).
Current(period) == {i \in Rows : rows[i].period = period /\ ~rows[i].superseded}

Completed == {i \in Rows : ~rows[i].superseded}

\* Mutant: the one inserted last, whatever its month and status.
ActiveLatest == IF Rows = {} THEN 0 ELSE Len(rows)

\* Storage.active_universe: the completed row of the greatest period.
Active ==
    IF Completed = {} THEN 0
    ELSE CHOOSE i \in Completed : \A j \in Completed : rows[j].period <= rows[i].period

Init ==
    /\ rows = <<>>
    /\ batches = <<>>
    /\ delivered = {}
    /\ calls = 0
    /\ pc = [p \in Researchers |-> "idle"]
    /\ job = [p \in Researchers |-> NoJob]

Goto(p, label) == pc' = [pc EXCEPT ![p] = label]

\* The process is gone, with all it had in memory.
Ends(p) == Goto(p, "idle") /\ job' = [job EXCEPT ![p] = NoJob]

-------------------------------------------------------------------------------
(***************************************************************************)
(* validate: the checks of one answer, without Yahoo.                      *)
(***************************************************************************)

TagCount(raw, c) == Cardinality({i \in DOMAIN raw : c \in raw[i].tags})

WellTagged(raw) ==
    /\ \A i \in DOMAIN raw :
        /\ raw[i].tags # {}
        /\ AiPolicy.multiTag \/ Cardinality(raw[i].tags) = 1
        /\ AiPolicy.categories = {} \/ raw[i].tags \subseteq AiPolicy.categories
    /\ \A c \in Categories : TagCount(raw, c) \in AiPolicy.min[c]..AiPolicy.max[c]

\* Mutant: a stock named twice is one stock too few, and nobody counts.
ValidWithRepeats(raw) ==
    /\ Len(raw) = UniverseSize
    /\ \A i \in DOMAIN raw : raw[i].ticker # "?"

Tickers(raw) == {raw[i].ticker : i \in DOMAIN raw}

\* Mutant: what the ticker's validator refuses is taken as it is.
ValidOfAnyTicker(raw) ==
    /\ Len(raw) = UniverseSize
    /\ Cardinality(Tickers(raw)) = UniverseSize
    /\ {raw[i].rank : i \in DOMAIN raw} = 1..UniverseSize
    /\ AiPolicy.enabled => WellTagged(raw)

Valid(raw) ==
    /\ \A i \in DOMAIN raw : raw[i].ticker # "?"
    /\ Len(raw) = UniverseSize
    /\ Cardinality(Tickers(raw)) = UniverseSize
    /\ {raw[i].rank : i \in DOMAIN raw} = 1..UniverseSize
    /\ AiPolicy.enabled => WellTagged(raw)

-------------------------------------------------------------------------------
(***************************************************************************)
(* run.                                                                    *)
(***************************************************************************)

\* Looks for the period's row, and asks the model only if there is none or
\* --force was given.
Begin(p) ==
    /\ pc[p] = "idle"
    /\ calls < MaxCalls
    /\ Overlapping \/ \A q \in Researchers : pc[q] = "idle"
    /\ calls' = calls + 1
    /\ \E period \in Periods, force \in BOOLEAN :
        LET existing == Current(period)
            begun == [NoJob EXCEPT !.period = period]
        IN  IF existing # {} /\ ~force
            THEN /\ \E i \in existing : job' = [job EXCEPT ![p] = [begun EXCEPT !.row = i]]
                 /\ Goto(p, "reload")
            ELSE /\ job' = [job EXCEPT ![p] = [begun EXCEPT !.replace = existing # {}]]
                 /\ Goto(p, "ask")
    /\ UNCHANGED <<rows, batches, delivered>>

\* Mutant: any answer of the right length will do.
AcceptUnchecked(p) ==
    /\ pc[p] = "ask"
    /\ \E raw \in Answers :
        /\ ValidWithRepeats(raw)
        /\ job' = [job EXCEPT ![p].members = Tickers(raw)]
    /\ Goto(p, "persist")
    /\ UNCHANGED <<rows, batches, delivered, calls>>

\* The answer validates and Yahoo prices all of it.
Accept(p) ==
    /\ pc[p] = "ask"
    /\ \E raw \in Answers :
        /\ Valid(raw)
        /\ job' = [job EXCEPT ![p].members = Tickers(raw)]
    /\ Goto(p, "persist")
    /\ UNCHANGED <<rows, batches, delivered, calls>>

\* Mutant: after the last attempt the loop starts over.
RepairForever(p) ==
    /\ pc[p] = "ask"
    /\ job' = [job EXCEPT ![p].attempts = (@ + 1) % MaxAttempts]
    /\ UNCHANGED <<rows, batches, delivered, calls, pc>>

\* The answer is refused, or, since even a valid one may be, Yahoo lacks some of
\* it (a failed download batch looks the same): the model is asked again.
Repair(p) ==
    /\ pc[p] = "ask"
    /\ job[p].attempts + 1 < MaxAttempts
    /\ job' = [job EXCEPT ![p].attempts = @ + 1]
    /\ UNCHANGED <<rows, batches, delivered, calls, pc>>

\* The last answer is refused, or something else raises: the provider, or all
\* of Yahoo.  Nothing has been written.
GiveUp(p) ==
    /\ pc[p] = "ask"
    /\ Ends(p)
    /\ UNCHANGED <<rows, batches, delivered, calls>>

-------------------------------------------------------------------------------
(***************************************************************************)
(* persist: one transaction.                                               *)
(***************************************************************************)

Superseded(period) ==
    [i \in Rows |-> IF i \in Current(period)
                    THEN [rows[i] EXCEPT !.superseded = TRUE] ELSE rows[i]]

NewRow(j) == [period |-> j.period, superseded |-> FALSE, replacing |-> j.replace,
              members |-> j.members]

\* What the command still needs once the universe is stored.
Stored(j, id) == [NoJob EXCEPT !.period = j.period, !.row = id]

\* Mutants: a row that is overwritten instead of superseded; one that takes
\* another's place because the table lets it.
PersistOver(p) ==
    /\ pc[p] = "persist"
    /\ rows' = IF job[p].replace
               THEN [i \in Rows |-> IF i \in Current(job[p].period)
                                    THEN NewRow(job[p]) ELSE rows[i]]
               ELSE Append(rows, NewRow(job[p]))
    /\ job' = [job EXCEPT ![p] = Stored(@, Len(rows'))]
    /\ Goto(p, "reload")
    /\ UNCHANGED <<batches, delivered, calls>>

PersistAlways(p) ==
    /\ pc[p] = "persist"
    /\ rows' = Append(Superseded(job[p].period), NewRow(job[p]))
    /\ job' = [job EXCEPT ![p] = Stored(@, Len(rows) + 1)]
    /\ Goto(p, "reload")
    /\ UNCHANGED <<batches, delivered, calls>>

\* The forced replacement supersedes whatever the period has by now.
Persist(p) ==
    /\ pc[p] = "persist"
    /\ job[p].replace \/ Current(job[p].period) = {}
    /\ rows' = Append(Superseded(job[p].period), NewRow(job[p]))
    /\ job' = [job EXCEPT ![p] = Stored(@, Len(rows) + 1)]
    /\ Goto(p, "reload")
    /\ UNCHANGED <<batches, delivered, calls>>

\* Another invocation was first: UNIQUE(period) refuses the insert with an
\* IntegrityError, which run does not catch.
PersistConflict(p) ==
    /\ pc[p] = "persist"
    /\ ~job[p].replace /\ Current(job[p].period) # {}
    /\ Ends(p)
    /\ UNCHANGED <<rows, batches, delivered, calls>>

-------------------------------------------------------------------------------
(***************************************************************************)
(* The rest of the command: reload the universe, build a batch, export it. *)
(***************************************************************************)

\* Mutant: what was researched goes out, whatever was stored.
ExportPendingUnread(p) ==
    /\ pc[p] = "reload"
    /\ batches' = Append(batches,
            [row |-> job[p].row, members |-> job[p].members, status |-> "pending"])
    /\ job' = [job EXCEPT ![p].batch = Len(batches) + 1]
    /\ Goto(p, "send")
    /\ UNCHANGED <<rows, delivered, calls>>

\* A reused universe is exported again, under a new batch id.
ExportPending(p) ==
    /\ pc[p] = "reload"
    /\ batches' = Append(batches,
            [row |-> job[p].row, members |-> rows[job[p].row].members,
             status |-> "pending"])
    /\ job' = [job EXCEPT ![p].batch = Len(batches) + 1]
    /\ Goto(p, "send")
    /\ UNCHANGED <<rows, delivered, calls>>

SetStatus(p, status) == batches' = [batches EXCEPT ![job[p].batch].status = status]

\* The ERP accepts the batch; its answer may be lost on the way back.
Send(p) ==
    /\ pc[p] = "send"
    /\ delivered' = delivered \cup {job[p].batch}
    /\ \/ Goto(p, "sent")
       \/ Goto(p, "unsent")
    /\ UNCHANGED <<rows, batches, calls, job>>

\* Mutant: an error of the transport goes unnoticed.
SendFailsSilently(p) ==
    /\ pc[p] = "send"
    /\ Goto(p, "sent")
    /\ UNCHANGED <<rows, batches, delivered, calls, job>>

SendFails(p) ==
    /\ pc[p] = "send"
    /\ Goto(p, "unsent")
    /\ UNCHANGED <<rows, batches, delivered, calls, job>>

DeadLetter(p) ==
    /\ pc[p] = "unsent"
    /\ SetStatus(p, "dead_letter")
    /\ Ends(p)
    /\ UNCHANGED <<rows, delivered, calls>>

MarkExported(p) ==
    /\ pc[p] = "sent"
    /\ SetStatus(p, "exported")
    /\ Goto(p, "report")
    /\ UNCHANGED <<rows, delivered, calls, job>>

\* The command prints its result and exits with 0.
Report(p) ==
    /\ pc[p] = "report"
    /\ Ends(p)
    /\ UNCHANGED <<rows, batches, delivered, calls>>

\* The process is killed, or a statement raises and its transaction, if it is
\* in one, is rolled back.
Crash(p) ==
    /\ pc[p] # "idle"
    /\ Ends(p)
    /\ UNCHANGED <<rows, batches, delivered, calls>>

-------------------------------------------------------------------------------

Run(p) ==
    \/ Accept(p) \/ Repair(p) \/ GiveUp(p)
    \/ Persist(p) \/ PersistConflict(p)
    \/ ExportPending(p) \/ Send(p) \/ SendFails(p)
    \/ DeadLetter(p) \/ MarkExported(p) \/ Report(p)

Next == \E p \in Researchers : Begin(p) \/ Run(p) \/ Crash(p)

\* An invocation that is not killed runs on; it need not be invoked.
Spec == Init /\ [][Next]_researchVars /\ \A p \in Researchers : WF_researchVars(Run(p))
===============================================================================
