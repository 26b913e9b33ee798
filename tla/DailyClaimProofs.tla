--------------------------- MODULE DailyClaimProofs ---------------------------
(***************************************************************************)
(* One session, one run, one batch: what the UNIQUE claim, the order of    *)
(* the steps and the export before the completion guarantee, however many  *)
(* invocations overlap and wherever they fail or are killed.               *)
(***************************************************************************)
EXTENDS DailyTypeProofs

\* Labels: while trades are made, up to the batch, and before it can be sent.
Executing == {"exit", "postExit", "buy", "postBuy"}

Planned == Executing \cup {"postSnapshot", "export", "pack"}

Undelivered == {"fetch", "plan", "send"} \cup Planned

Exporting == {"send", "unsent", "sent", "complete"}

\* The analyses a purchase rests on.
Grounds == {"model_signals", "capital_allocations"}

\* What each label says about the session its process works on: what has been
\* stored by then, and that nothing has reached the ERP before "send".
StageOK(p) ==
    LET j == job[p]
        s == j.session
    IN  /\ (pc[p] = "plan" /\ \E t \in Tickers : j.scores[t] > 0)
               => "model_signals" \in evidence[s]
        /\ (pc[p] \in Executing /\ j.toBuy # {}) => Grounds \subseteq evidence[s]
        /\ pc[p] = "postExit" => j.order.kind # "MODEL_ENTRY"
        /\ pc[p] = "postBuy" => j.toBuy # {}
        /\ pc[p] = "postSnapshot" => j.valuation.peak > 0
        /\ pc[p] \in {"export", "pack"} \cup Exporting => s \in Snapshotted
        /\ pc[p] \in {"sent", "complete"} =>
            \E i \in DOMAIN delivered : delivered[i] = Batch(s)
        /\ pc[p] = "complete" => batches[s] = "exported"
        /\ pc[p] \in Undelivered =>
            \A i \in DOMAIN delivered : delivered[i].session # s

\* A batch at the ERP is the only one of its session, and is what the ledger
\* holds for it; and its session has a run.
DeliveredOK ==
    /\ \A i, j \in DOMAIN delivered :
        delivered[i].session = delivered[j].session => i = j
    /\ \A i \in DOMAIN delivered :
        /\ delivered[i] = Batch(delivered[i].session)
        /\ runs[delivered[i].session] # "none"

\* Whatever was bought has its grounds on record.
EntriesGrounded ==
    \A d \in decisions : d.kind = "MODEL_ENTRY" => Grounds \subseteq evidence[d.session]

ClaimInv ==
    /\ SessionsExclusive
    /\ \A p \in Procs : StageOK(p)
    /\ DeliveredOK
    /\ EntriesGrounded
    /\ CompletedIsAccountedFor
    /\ peak > 0

Inv == TypeInv /\ ClaimInv

-------------------------------------------------------------------------------
(***************************************************************************)
(* What a step of one process leaves alone.                                *)
(***************************************************************************)

\* A step of p changes nobody else's label or locals, and p keeps the session
\* it began with for as long as it works.
LEMMA OthersStay ==
    ASSUME TypeInv, NEW p \in Procs, Begin(p) \/ Run(p) \/ Crash(p)
    PROVE  /\ \A q \in Procs \ {p} : pc'[q] = pc[q] /\ job'[q] = job[q]
           /\ Working(p)' => /\ pc[p] \notin {"idle", "replayed"}
                             /\ job'[p].session = job[p].session
<1> USE DEF InTry, Raised, Working
<1>1. /\ pc \in [Procs -> Labels] /\ job \in [Procs -> Job]
      /\ job[p] \in Job
  BY DEF TypeInv, TypeOK
<1>2. CASE Begin(p) \/ Crash(p) \/ Claim(p) \/ Replay(p) \/ Leave(p)
  <2>1. CASE Begin(p)
    <3>1. PICK locals : job' = [job EXCEPT ![p] = locals]
      BY <2>1 DEF Begin
    <3>2. pc' = [pc EXCEPT ![p] = "claim"]
      BY <2>1 DEF Begin
    <3>3. QED
      BY <1>1, <3>1, <3>2
  <2>2. CASE Claim(p)
    BY <1>1, <2>2 DEF Claim
  <2>3. CASE Crash(p) \/ Replay(p) \/ Leave(p)
    BY <1>1, <2>3 DEF Crash, Replay, Leave
  <2>4. QED
    BY <1>2, <2>1, <2>2, <2>3
<1>3. CASE Fetch(p) \/ Plan(p) \/ PlanUnpriced(p)
  <2>1. CASE Fetch(p)
    <3>1. PICK quotes, scores :
            job' = [job EXCEPT ![p].quotes = quotes, ![p].scores = scores]
      BY <2>1 DEF Fetch
    <3>2. pc[p] = "fetch" /\ pc' = [pc EXCEPT ![p] = "plan"]
      BY <2>1 DEF Fetch
    <3>3. QED
      BY <1>1, <3>1, <3>2 DEF Job
  <2>2. CASE Plan(p)
    <3>1. PICK targets, toExit, toBuy :
            job' = [job EXCEPT ![p] = [job[p] EXCEPT !.held = positions,
                    !.targets = targets, !.toExit = toExit, !.toBuy = toBuy]]
      BY <2>2 DEF Plan
    <3>2. pc[p] = "plan" /\ pc' = [pc EXCEPT ![p] = "exit"]
      BY <2>2 DEF Plan
    <3>3. QED
      BY <1>1, <3>1, <3>2 DEF Job
  <2>3. CASE PlanUnpriced(p)
    BY <1>1, <2>3 DEF PlanUnpriced
  <2>4. QED
    BY <1>3, <2>1, <2>2, <2>3
<1>4. CASE \E t \in Tickers : \/ PrepareExit(p, t) \/ RejectExit(p, t)
                              \/ PrepareBuy(p, t) \/ RejectBuy(p, t)
  BY <1>1, <1>4 DEF PrepareExit, RejectExit, PrepareBuy, RejectBuy, Job
<1>5. CASE \/ PostExit(p) \/ PostBuy(p) \/ StartBuying(p)
           \/ PrepareSnapshot(p) \/ SnapshotUnpriced(p) \/ RecordSnapshot(p)
  BY <1>1, <1>5 DEF PostExit, PostBuy, StartBuying, PrepareSnapshot,
                    SnapshotUnpriced, RecordSnapshot, Job
<1>6. CASE \/ Benchmarks(p) \/ SavePending(p)
           \/ Send(p) \/ SendUnanswered(p) \/ SendFails(p)
           \/ DeadLetter(p) \/ MarkExported(p) \/ Complete(p)
           \/ StepRaises(p) \/ FailRun(p)
  BY <1>1, <1>6 DEF Benchmarks, SavePending, Send, SendUnanswered, SendFails,
                    DeadLetter, MarkExported, Complete, StepRaises, FailRun
<1>7. QED
  BY <1>2, <1>3, <1>4, <1>5, <1>6 DEF Run

\* The rows of other sessions than p's stay as they are, and what p adds to
\* the ERP is its own session's batch.  A process that is not working, and one
\* that is sending, writes no row a batch is built from.
LEMMA OtherSessionsStay ==
    ASSUME TypeInv, NEW p \in Procs, Run(p) \/ Crash(p)
    PROVE  /\ \A r \in Sessions : r # job[p].session =>
                /\ evidence'[r] = evidence[r]
                /\ batches'[r] = batches[r]
                /\ snapshots'[r] = snapshots[r]
                /\ runs'[r] = runs[r]
                /\ DecisionsOf(r)' = DecisionsOf(r)
           /\ \A r \in Sessions : evidence[r] \subseteq evidence'[r]
           /\ \/ UNCHANGED delivered
              \/ /\ pc[p] = "send"
                 /\ delivered' = Append(delivered, Batch(job[p].session))
           /\ \/ UNCHANGED <<evidence, decisions, snapshots>>
              \/ pc[p] \in {"fetch", "plan"} \cup Planned
           /\ \/ UNCHANGED <<batches, snapshots, delivered>>
              \/ Working(p)
<1> USE DEF InTry, Raised, Working, ledgerVars
<1>1. /\ evidence \in [Sessions -> SUBSET Analyses]
      /\ runs \in [Sessions -> RunStatuses]
      /\ snapshots \in [Sessions -> Valuation]
      /\ batches \in [Sessions -> {"none", "pending", "dead_letter", "exported"}]
  BY DEF TypeInv, TypeOK
<1>2. CASE Crash(p) \/ Claim(p) \/ Replay(p) \/ Leave(p) \/ PlanUnpriced(p)
  BY <1>1, <1>2 DEF Crash, Claim, Replay, Leave, PlanUnpriced, DecisionsOf
<1>3. CASE Fetch(p) \/ Plan(p)
  <2>1. /\ pc[p] \in {"fetch", "plan"}
        /\ \E analysis \in Analyses, any \in BOOLEAN :
            evidence' = Recorded(job[p].session, analysis, any)
        /\ UNCHANGED <<ledgerVars, runs, batches, delivered>>
    <3>1. CASE Fetch(p)
      BY <3>1 DEF Fetch, Analyses
    <3>2. CASE Plan(p)
      BY <3>2 DEF Plan, Analyses
    <3>3. QED
      BY <1>3, <3>1, <3>2
  <2>2. job[p].session \in Sessions
    BY <2>1 DEF TypeInv, LocalsOK, Sound
  <2>3. /\ \A r \in Sessions : evidence[r] \subseteq evidence'[r]
        /\ \A r \in Sessions : r # job[p].session => evidence'[r] = evidence[r]
    BY <2>1, <2>2, RecordedIs DEF TypeInv
  <2>4. QED
    BY <2>1, <2>3 DEF DecisionsOf
<1>4. CASE \E t \in Tickers : \/ PrepareExit(p, t) \/ RejectExit(p, t)
                              \/ PrepareBuy(p, t) \/ RejectBuy(p, t)
  BY <1>1, <1>4 DEF PrepareExit, RejectExit, PrepareBuy, RejectBuy, DecisionsOf
<1>5. CASE PostExit(p) \/ PostBuy(p)
  <2>1. PostOrder(job[p].session, job[p].order)
    BY <1>5 DEF PostExit, PostBuy
  <2>2. \A r \in Sessions : r # job[p].session => DecisionsOf(r)' = DecisionsOf(r)
    BY <2>1 DEF PostOrder, DecisionsOf
  <2>3. QED
    BY <1>5, <2>1, <2>2 DEF PostExit, PostBuy, PostOrder, Planned, Executing
<1>6. CASE \/ StartBuying(p) \/ PrepareSnapshot(p) \/ SnapshotUnpriced(p)
           \/ RecordSnapshot(p)
  BY <1>1, <1>6 DEF StartBuying, PrepareSnapshot, SnapshotUnpriced,
                    RecordSnapshot, PostSnapshot, DecisionsOf, Planned
<1>7. CASE Benchmarks(p)
  <2>1. /\ pc[p] = "export"
        /\ \E any \in BOOLEAN :
            evidence' = Recorded(job[p].session, "benchmark_snapshots", any)
        /\ UNCHANGED <<ledgerVars, runs, batches, delivered>>
    BY <1>7, DailyAssumption DEF Benchmarks
  <2>2. job[p].session \in Sessions
    BY <2>1 DEF TypeInv, LocalsOK, Sound
  <2>3. /\ \A r \in Sessions : evidence[r] \subseteq evidence'[r]
        /\ \A r \in Sessions : r # job[p].session => evidence'[r] = evidence[r]
    BY <2>1, <2>2, RecordedIs DEF TypeInv, Analyses
  <2>4. QED
    BY <2>1, <2>3 DEF DecisionsOf, Planned
<1>8. CASE \/ SavePending(p)
           \/ Send(p) \/ SendUnanswered(p) \/ SendFails(p)
           \/ DeadLetter(p) \/ MarkExported(p) \/ Complete(p)
           \/ StepRaises(p) \/ FailRun(p)
  BY <1>1, <1>8 DEF SavePending, Send, SendUnanswered, SendFails,
                    DeadLetter, MarkExported, Complete, StepRaises, FailRun, DecisionsOf,
                    Planned, Executing
<1>9. QED
  BY <1>2, <1>3, <1>4, <1>5, <1>6, <1>7, <1>8 DEF Run

\* What the ERP has taken it keeps, and what a step adds is p's own batch.
LEMMA DeliveryGrows ==
    ASSUME TypeInv, NEW p \in Procs, Begin(p) \/ Run(p) \/ Crash(p)
    PROVE  /\ \A i \in DOMAIN delivered :
                i \in DOMAIN delivered' /\ delivered'[i] = delivered[i]
           /\ \A i \in DOMAIN delivered' \ DOMAIN delivered :
                /\ i = Len(delivered) + 1
                /\ delivered'[i] = Batch(job[p].session)
                /\ pc[p] = "send"
<1>1. delivered \in Seq(DeliveredBatch)
  BY DEF TypeInv, TypeOK
<1>2. CASE UNCHANGED delivered
  BY <1>2
<1>3. CASE pc[p] = "send" /\ delivered' = Append(delivered, Batch(job[p].session))
  <2> DEFINE b == Batch(job[p].session)
  <2>1. b \in DeliveredBatch
    <3>1. job[p].session \in Sessions
      BY <1>3 DEF TypeInv, LocalsOK, Sound
    <3>2. QED
      BY <3>1, BatchType DEF TypeInv
  <2> HIDE DEF b
  <2>2. delivered' = Append(delivered, b) /\ pc[p] = "send"
    BY <1>3 DEF b
  <2>3. /\ \A i \in DOMAIN delivered :
            i \in DOMAIN delivered' /\ delivered'[i] = delivered[i]
        /\ \A i \in DOMAIN delivered' \ DOMAIN delivered :
            i = Len(delivered) + 1 /\ delivered'[i] = b
    BY <1>1, <2>1, <2>2
  <2>4. QED
    BY <2>2, <2>3 DEF b
<1>4. CASE Begin(p)
  BY <1>4 DEF Begin
<1>5. QED
  BY <1>2, <1>3, <1>4, OtherSessionsStay

\* Only claiming, completing and failing change a run's status, and only
\* claiming puts a process to work.
LEMMA StatusChanges ==
    ASSUME TypeInv, NEW p \in Procs, Begin(p) \/ Run(p) \/ Crash(p)
    PROVE  \/ Claim(p) \/ Complete(p) \/ FailRun(p)
           \/ UNCHANGED runs /\ (Working(p)' => Working(p))
<1> USE DEF InTry, Raised, Working
<1>1. pc \in [Procs -> Labels]
  BY DEF TypeInv, TypeOK
<1>2. CASE Begin(p) \/ Crash(p) \/ Replay(p) \/ Leave(p)
  BY <1>1, <1>2 DEF Begin, Crash, Replay, Leave
<1>3. CASE Fetch(p) \/ Plan(p) \/ PlanUnpriced(p)
  BY <1>1, <1>3 DEF Fetch, Plan, PlanUnpriced
<1>4. CASE \E t \in Tickers : \/ PrepareExit(p, t) \/ RejectExit(p, t)
                              \/ PrepareBuy(p, t) \/ RejectBuy(p, t)
  BY <1>1, <1>4 DEF PrepareExit, RejectExit, PrepareBuy, RejectBuy
<1>5. CASE \/ PostExit(p) \/ PostBuy(p) \/ StartBuying(p)
           \/ PrepareSnapshot(p) \/ SnapshotUnpriced(p) \/ RecordSnapshot(p)
  BY <1>1, <1>5 DEF PostExit, PostBuy, StartBuying, PrepareSnapshot,
                    SnapshotUnpriced, RecordSnapshot
<1>6. CASE \/ Benchmarks(p) \/ SavePending(p)
           \/ Send(p) \/ SendUnanswered(p) \/ SendFails(p)
           \/ DeadLetter(p) \/ MarkExported(p) \/ StepRaises(p)
  BY <1>1, <1>6 DEF Benchmarks, SavePending, Send, SendUnanswered, SendFails,
                    DeadLetter, MarkExported, StepRaises
<1>7. QED
  BY <1>2, <1>3, <1>4, <1>5, <1>6 DEF Run

\* The steps that its specification can see.
LEMMA BookChanges ==
    ASSUME TypeInv, NEW p \in Procs, Begin(p) \/ Run(p) \/ Crash(p)
    PROVE  \/ Claim(p) \/ PostExit(p) \/ PostBuy(p)
           \/ Send(p) \/ SendUnanswered(p) \/ Complete(p) \/ FailRun(p)
           \/ UNCHANGED <<runs, decisions, delivered>>
<1> USE DEF ledgerVars
<1>1. CASE Begin(p) \/ Crash(p) \/ Replay(p) \/ Leave(p)
  BY <1>1 DEF Begin, Crash, Replay, Leave
<1>2. CASE Fetch(p) \/ Plan(p) \/ PlanUnpriced(p)
  BY <1>2 DEF Fetch, Plan, PlanUnpriced
<1>3. CASE \E t \in Tickers : \/ PrepareExit(p, t) \/ RejectExit(p, t)
                              \/ PrepareBuy(p, t) \/ RejectBuy(p, t)
  BY <1>3 DEF PrepareExit, RejectExit, PrepareBuy, RejectBuy
<1>4. CASE \/ StartBuying(p) \/ PrepareSnapshot(p) \/ SnapshotUnpriced(p)
           \/ RecordSnapshot(p)
  BY <1>4 DEF StartBuying, PrepareSnapshot, SnapshotUnpriced, RecordSnapshot,
              PostSnapshot
<1>5. CASE \/ Benchmarks(p) \/ SavePending(p) \/ SendFails(p)
           \/ DeadLetter(p) \/ MarkExported(p) \/ StepRaises(p)
  BY <1>5 DEF Benchmarks, SavePending, SendFails, DeadLetter, MarkExported,
              StepRaises
<1>6. QED
  BY <1>1, <1>2, <1>3, <1>4, <1>5 DEF Run

\* Its reasons are all exits, and two of them are for what does not qualify.
LEMMA ExitKindIs ==
    ASSUME NEW j, NEW t
    PROVE  /\ ExitKind(j, t) # "MODEL_ENTRY"
           /\ ExitKind(j, t) = "SIGNAL_EXIT" => j.scores[t] < Threshold
           /\ ExitKind(j, t) = "UNIVERSE_REMOVAL" => t \notin j.members
BY DEF ExitKind

\* The decisions of a session after a trade in it.
LEMMA DecisionAdded ==
    ASSUME NEW s, NEW order, PostOrder(s, order)
    PROVE  LET d == [session |-> s, ticker |-> order.ticker, kind |-> order.kind]
           IN  /\ decisions' = decisions \cup {d}
               /\ {e \in decisions' : e.session = s} = DecisionsOf(s) \cup {d}
BY DEF PostOrder, DecisionsOf

\* Whatever is selected to be bought qualifies.
LEMMA SelectedQualifies ==
    ASSUME NEW scores, NEW value
    PROVE  \A t \in DOMAIN Targets(scores, value) : scores[t] >= Threshold
BY DEF Targets, Selected, Qualified

-------------------------------------------------------------------------------
(***************************************************************************)
(* Each part of the invariant after a step of one process.                 *)
(***************************************************************************)

\* Two processes go on working on two sessions.
LEMMA ExclusiveStep ==
    ASSUME Inv, NEW p \in Procs, Begin(p) \/ Run(p) \/ Crash(p)
    PROVE  SessionsExclusive'
<1> USE DEF Inv, ClaimInv
<1>1. /\ \A q \in Procs \ {p} : pc'[q] = pc[q] /\ job'[q] = job[q]
      /\ Working(p)' => /\ pc[p] \notin {"idle", "replayed"}
                        /\ job'[p].session = job[p].session
  BY OthersStay
<1>2. \A q \in Procs \ {p} : Working(q)' <=> Working(q)
  BY <1>1 DEF Working
<1>3. \A q \in Procs : pc[q] # "idle" => job[q].session \in Sessions
  BY DEF TypeInv, LocalsOK, Sound
<1>4. \A q \in Procs : Working(q) => pc[q] # "idle"
  BY DEF Working, InTry, Raised
<1>5. CASE Claim(p)
  <2>1. /\ runs[job[p].session] = "none"
        /\ runs' = [runs EXCEPT ![job[p].session] = "running"]
        /\ job' = job /\ pc[p] # "idle"
    BY <1>5 DEF Claim
  <2>2. runs \in [Sessions -> RunStatuses]
    BY DEF TypeInv, TypeOK
  <2>3. \A q \in Procs \ {p} : Working(q) => job[q].session # job[p].session
    BY <2>1 DEF SessionsExclusive
  <2>4. QED
    BY <1>2, <1>3, <1>4, <2>1, <2>2, <2>3 DEF SessionsExclusive
<1>6. CASE Complete(p) \/ FailRun(p)
  <2>1. /\ Working(p) /\ ~Working(p)'
        /\ \A r \in Sessions : r # job[p].session => runs'[r] = runs[r]
    <3>1. Working(p) /\ pc' = [pc EXCEPT ![p] = "idle"]
      BY <1>6 DEF Complete, FailRun, Working, InTry, Raised
    <3>2. pc'[p] = "idle"
      BY <3>1 DEF TypeInv, TypeOK
    <3>3. runs \in [Sessions -> RunStatuses]
      BY DEF TypeInv, TypeOK
    <3>4. QED
      BY <1>6, <3>1, <3>2, <3>3 DEF Complete, FailRun, Working, InTry, Raised
  <2>2. \A q \in Procs \ {p} : Working(q) => job[q].session # job[p].session
    BY <2>1 DEF SessionsExclusive
  <2>3. QED
    BY <1>1, <1>2, <1>3, <1>4, <2>1, <2>2 DEF SessionsExclusive
<1>7. CASE UNCHANGED runs /\ (Working(p)' => Working(p))
  BY <1>1, <1>2, <1>7 DEF SessionsExclusive
<1>8. QED
  BY <1>5, <1>6, <1>7, StatusChanges

\* What another process has stored for its session stays.
LEMMA OthersStageStep ==
    ASSUME Inv, NEW p \in Procs, Begin(p) \/ Run(p) \/ Crash(p),
           NEW q \in Procs \ {p}
    PROVE  StageOK(q)'
<1> USE DEF Inv, ClaimInv
<1>1. pc'[q] = pc[q] /\ job'[q] = job[q] /\ StageOK(q)
  BY OthersStay
<1>2. CASE ~Working(q)
  BY <1>1, <1>2 DEF StageOK, Working, InTry, Planned, Executing, Undelivered, Exporting
<1>3. CASE Working(q)
  <2>1. PICK s \in Sessions : s = job[q].session
    BY <1>3 DEF TypeInv, LocalsOK, Sound, Working, InTry, Raised
  <2>2. /\ evidence'[s] = evidence[s]
        /\ batches'[s] = batches[s]
        /\ snapshots'[s] = snapshots[s]
        /\ DecisionsOf(s)' = DecisionsOf(s)
    <3>1. CASE Begin(p)
      BY <3>1 DEF Begin, ledgerVars, DecisionsOf
    <3>2. CASE Run(p) \/ Crash(p)
      <4>1. CASE Working(p)
        <5>1. job[p].session # s
          BY <1>3, <2>1, <4>1 DEF SessionsExclusive
        <5>2. QED
          BY <2>1, <3>2, <5>1, OtherSessionsStay
      <4>2. CASE ~Working(p)
        BY <3>2, <4>2, OtherSessionsStay
        DEF Working, InTry, Planned, Executing, DecisionsOf
      <4>3. QED
        BY <4>1, <4>2
    <3>3. QED
      BY <3>1, <3>2
  <2>3. Batch(s)' = Batch(s)
    BY <2>2 DEF Batch
  <2>4. (s \in Snapshotted)' <=> s \in Snapshotted
    BY <2>1, <2>2, <1>1 DEF Snapshotted
  <2>5. /\ \A i \in DOMAIN delivered :
            i \in DOMAIN delivered' /\ delivered'[i] = delivered[i]
        /\ \A i \in DOMAIN delivered' \ DOMAIN delivered : delivered'[i].session # s
    <3>1. ASSUME pc[p] = "send" PROVE Batch(job[p].session).session # s
      <4>1. job[p].session # s
        BY <1>3, <2>1, <3>1 DEF SessionsExclusive, Working, InTry
      <4>2. QED
        BY <4>1 DEF Batch
    <3>2. QED
      BY <3>1, DeliveryGrows
  <2>6. /\ (\E i \in DOMAIN delivered : delivered[i] = Batch(s))
                => \E i \in DOMAIN delivered' : delivered'[i] = Batch(s)'
        /\ (\A i \in DOMAIN delivered : delivered[i].session # s)
                => \A i \in DOMAIN delivered' : delivered'[i].session # s
    BY <2>3, <2>5
  <2>7. QED
    BY <1>1, <2>1, <2>2, <2>4, <2>6 DEF StageOK
<1>4. QED
  BY <1>2, <1>3

\* What a process has stored for its own session after each of its steps.
LEMMA OwnStageStep ==
    ASSUME Inv, NEW p \in Procs, Begin(p) \/ Run(p) \/ Crash(p)
    PROVE  StageOK(p)'
<1> USE DEF Inv, ClaimInv, ledgerVars, Executing, Planned, Undelivered, Exporting
<1>1. /\ pc \in [Procs -> Labels] /\ job \in [Procs -> Job] /\ job[p] \in Job
      /\ StageOK(p) /\ TypeOK
      /\ Working(p)' => job'[p].session = job[p].session
  BY OthersStay DEF TypeInv, TypeOK
<1>2. pc[p] # "idle" => job[p].session \in Sessions
  BY DEF TypeInv, LocalsOK, Sound
<1>3. CASE pc'[p] \in {"idle", "claim", "replayed"} \cup Raised
  BY <1>3 DEF StageOK, Raised
<1>4. CASE Claim(p)
  <2>1. runs[job[p].session] = "none" /\ pc'[p] = "fetch"
    BY <1>1, <1>4 DEF Claim
  <2>2. \A i \in DOMAIN delivered : delivered[i].session # job[p].session
    BY <2>1 DEF DeliveredOK
  <2>3. QED
    BY <1>4, <2>1, <2>2 DEF Claim, StageOK
<1>5. CASE Fetch(p)
  <2>1. PICK q \in [job[p].members \cup Held -> Prices] :
          \E c \in [job[p].members -> Scores] :
            /\ job' = [job EXCEPT
                ![p].quotes = [t \in Tickers |-> IF t \in DOMAIN q THEN q[t] ELSE 0],
                ![p].scores = [t \in Tickers |-> IF t \in DOMAIN c THEN c[t] ELSE 0]]
            /\ evidence' = Recorded(job[p].session, "model_signals",
                                    \E t \in DOMAIN c : c[t] > 0)
    BY <1>5 DEF Fetch
  <2>2. PICK c \in [job[p].members -> Scores] :
            /\ job' = [job EXCEPT
                ![p].quotes = [t \in Tickers |-> IF t \in DOMAIN q THEN q[t] ELSE 0],
                ![p].scores = [t \in Tickers |-> IF t \in DOMAIN c THEN c[t] ELSE 0]]
            /\ evidence' = Recorded(job[p].session, "model_signals",
                                    \E t \in DOMAIN c : c[t] > 0)
    BY <2>1
  <2> DEFINE any == \E t \in DOMAIN c : c[t] > 0
             scores == [t \in Tickers |-> IF t \in DOMAIN c THEN c[t] ELSE 0]
  <2>3. any \in BOOLEAN /\ ((\E t \in Tickers : scores[t] > 0) => any)
    OBVIOUS
  <2>4. job'[p].scores = scores /\ job'[p].session = job[p].session
    BY <1>1, <2>2 DEF Job
  <2>5. evidence' = Recorded(job[p].session, "model_signals", any)
    BY <2>2
  <2>6. pc[p] = "fetch" /\ pc'[p] = "plan" /\ UNCHANGED delivered
    BY <1>1, <1>5 DEF Fetch
  <2> HIDE DEF any, scores
  <2>7. any => "model_signals" \in evidence'[job[p].session]
    BY <1>1, <1>2, <2>3, <2>5, <2>6, RecordedIs DEF Analyses
  <2>8. QED
    BY <1>1, <2>3, <2>4, <2>6, <2>7 DEF StageOK
<1>6. CASE Plan(p)
  <2> DEFINE value == Scale * cash + MarketValue(job[p].quotes)
             chosen == Targets(job[p].scores, value)
             any == DOMAIN chosen # {}
  <2>1. evidence' = Recorded(job[p].session, "capital_allocations", any)
    BY <1>6 DEF Plan
  <2>2. \A t \in DOMAIN chosen : t \in Tickers /\ job[p].scores[t] > 0
    <3>1. /\ cash \in Int /\ positions \in [Tickers -> Position]
          /\ job[p].quotes \in [Tickers -> Nat] /\ job[p].scores \in [Tickers -> 0..100]
      BY <1>1 DEF TypeOK, Job
    <3>2. value \in Int
      <4>1. MarketValue(job[p].quotes) \in Int
        BY <3>1, MarketValueType
      <4>2. Scale * cash \in Int
        BY <3>1, SettingsAssumption
      <4>3. QED
        BY <4>1, <4>2
    <3> HIDE DEF value
    <3>3. QED
      BY <3>1, <3>2, TargetsType
  <2> HIDE DEF chosen
  <2>3. PICK targets, toExit : job' = [job EXCEPT ![p] = [job[p] EXCEPT
            !.held = positions, !.targets = targets, !.toExit = toExit,
            !.toBuy = DOMAIN chosen]]
    BY <1>6 DEF Plan, chosen
  <2>4. job'[p].toBuy = DOMAIN chosen /\ job'[p].session = job[p].session
    BY <1>1, <2>3 DEF Job
  <2>5. pc[p] = "plan" /\ pc'[p] = "exit" /\ UNCHANGED delivered
    BY <1>1, <1>6 DEF Plan
  <2>6. any \in BOOLEAN
    OBVIOUS
  <2>7. /\ any => "capital_allocations" \in evidence'[job[p].session]
        /\ evidence[job[p].session] \subseteq evidence'[job[p].session]
    <3> HIDE DEF any
    <3>1. QED
      BY <1>1, <1>2, <2>1, <2>5, <2>6, RecordedIs DEF Analyses
  <2>8. any => "model_signals" \in evidence[job[p].session]
    BY <1>1, <2>2, <2>5 DEF StageOK
  <2>9. QED
    BY <1>1, <2>4, <2>5, <2>7, <2>8 DEF StageOK, Grounds
<1>7. CASE \/ \E t \in Tickers : PrepareExit(p, t) \/ PrepareBuy(p, t)
           \/ PostExit(p) \/ StartBuying(p) \/ PostBuy(p)
  <2>1. /\ pc[p] \in Executing /\ pc'[p] \in Executing
        /\ job'[p].toBuy \subseteq job[p].toBuy
        /\ job'[p].session = job[p].session
        /\ UNCHANGED <<delivered, evidence>>
    BY <1>1, <1>7 DEF PrepareExit, PrepareBuy, PostExit, StartBuying, PostBuy, Job
  <2>2. pc'[p] = "postExit" => job'[p].order.kind # "MODEL_ENTRY"
    <3>1. SUFFICES ASSUME NEW t \in Tickers, PrepareExit(p, t)
                   PROVE  job'[p].order.kind # "MODEL_ENTRY"
      BY <1>1, <1>7 DEF PrepareExit, PrepareBuy, PostExit, StartBuying, PostBuy
    <3>2. job'[p].order.kind = ExitKind(job[p], t)
      BY <1>1, <3>1 DEF PrepareExit, SellOrder, Job
    <3>3. QED
      BY <3>2, ExitKindIs
  <2>3. pc'[p] = "postBuy" => job'[p].toBuy # {}
    <3>1. SUFFICES ASSUME NEW t \in Tickers, PrepareBuy(p, t)
                   PROVE  job'[p].toBuy # {}
      BY <1>1, <1>7 DEF PrepareExit, PrepareBuy, PostExit, StartBuying, PostBuy
    <3>2. job'[p].toBuy = job[p].toBuy /\ t \in job[p].toBuy
      BY <1>1, <3>1 DEF PrepareBuy, IsNextBuy, Wanted, Job
    <3>3. QED
      BY <3>2
  <2>4. QED
    BY <1>1, <2>1, <2>2, <2>3 DEF StageOK
<1>8. CASE PrepareSnapshot(p)
  <2>1. /\ pc[p] = "buy" /\ pc'[p] = "postSnapshot"
        /\ UNCHANGED <<delivered, evidence>>
        /\ job'[p].valuation = Valued(job[p].quotes)
    BY <1>1, <1>8 DEF PrepareSnapshot, Job
  <2>2. Valued(job[p].quotes).peak > 0
    <3>1. Valued(job[p].quotes) \in Valuation /\ peak \in Int
      BY <1>1, ValuationType DEF TypeInv, TypeOK, Job
    <3>2. Valued(job[p].quotes).total \in Int
      BY <3>1 DEF Valuation
    <3>3. Valued(job[p].quotes).peak = Greater(peak, Valued(job[p].quotes).total)
      BY DEF Valued
    <3>4. QED
      BY <3>1, <3>2, <3>3 DEF Greater
  <2>3. job'[p].session = job[p].session
    BY <1>1, <1>8 DEF PrepareSnapshot, Job
  <2>4. QED
    BY <1>1, <2>1, <2>2, <2>3 DEF StageOK
<1>9. CASE RecordSnapshot(p)
  <2>1. /\ pc[p] = "postSnapshot" /\ pc'[p] = "export"
        /\ UNCHANGED <<delivered, evidence, job>>
        /\ snapshots' = [snapshots EXCEPT ![job[p].session] = job[p].valuation]
    BY <1>1, <1>9 DEF RecordSnapshot, PostSnapshot
  <2>2. (job[p].session \in Snapshotted)'
    BY <1>1, <1>2, <2>1 DEF StageOK, Snapshotted, TypeOK
  <2>3. QED
    BY <1>1, <2>1, <2>2 DEF StageOK
<1>10. CASE Benchmarks(p) \/ SavePending(p)
  <2>1. /\ pc[p] \in {"export", "pack"} /\ pc'[p] \in {"pack", "send"}
        /\ UNCHANGED <<snapshots, job, delivered>>
    BY <1>1, <1>10 DEF Benchmarks, SavePending
  <2>2. QED
    BY <1>1, <2>1 DEF StageOK, Snapshotted
<1>11. CASE Send(p) \/ SendUnanswered(p) \/ SendFails(p)
  <2>1. /\ pc[p] = "send" /\ pc'[p] \in {"sent", "unsent"}
        /\ UNCHANGED <<snapshots, decisions, evidence, job>>
        /\ pc'[p] = "sent" => delivered' = Append(delivered, Batch(job[p].session))
    BY <1>1, <1>11 DEF Send, SendUnanswered, SendFails
  <2>2. Batch(job[p].session)' = Batch(job[p].session)
    BY <2>1 DEF Batch, DecisionsOf
  <2>3. ASSUME pc'[p] = "sent"
        PROVE  \E i \in DOMAIN delivered' : delivered'[i] = Batch(job[p].session)
    <3> DEFINE new == Batch(job[p].session)
    <3>1. new \in DeliveredBatch /\ delivered \in Seq(DeliveredBatch)
      BY <1>1, <1>2, <2>1, BatchType DEF TypeOK
    <3> HIDE DEF new
    <3>2. delivered' = Append(delivered, new)
      BY <2>1, <2>3 DEF new
    <3>3. /\ Len(delivered) + 1 \in DOMAIN delivered'
          /\ delivered'[Len(delivered) + 1] = new
      BY <3>1, <3>2
    <3>4. QED
      BY <3>3 DEF new
  <2>4. QED
    BY <1>1, <2>1, <2>2, <2>3 DEF StageOK, Snapshotted
<1>12. CASE MarkExported(p)
  <2>1. /\ pc[p] = "sent" /\ pc'[p] = "complete"
        /\ UNCHANGED <<snapshots, decisions, evidence, job, delivered>>
        /\ batches' = [batches EXCEPT ![job[p].session] = "exported"]
    BY <1>1, <1>12 DEF MarkExported
  <2>2. Batch(job[p].session)' = Batch(job[p].session)
    BY <2>1 DEF Batch, DecisionsOf
  <2>3. batches'[job[p].session] = "exported"
    BY <1>1, <1>2, <2>1 DEF TypeOK
  <2>4. QED
    BY <1>1, <2>1, <2>2, <2>3 DEF StageOK, Snapshotted
<1>13. CASE \/ Begin(p) \/ Replay(p) \/ Leave(p) \/ Crash(p) \/ PlanUnpriced(p)
            \/ SnapshotUnpriced(p) \/ DeadLetter(p) \/ Complete(p)
            \/ StepRaises(p) \/ FailRun(p)
            \/ \E t \in Tickers : RejectExit(p, t) \/ RejectBuy(p, t)
  <2>1. pc'[p] \in {"idle", "claim", "replayed"} \cup Raised
    BY <1>1, <1>13 DEF Begin, Replay, Leave, Crash, PlanUnpriced,
        SnapshotUnpriced, DeadLetter, Complete, StepRaises, FailRun, RejectExit,
        RejectBuy, Raised
  <2>2. QED
    BY <1>3, <2>1
<1>14. QED
  BY <1>4, <1>5, <1>6, <1>7, <1>8, <1>9, <1>10, <1>11, <1>12, <1>13 DEF Run

\* What a batch is built from, once the ERP has it.
LEMMA BatchStays ==
    ASSUME Inv, NEW p \in Procs, Begin(p) \/ Run(p) \/ Crash(p),
           NEW s \in Sessions,
           s = job[p].session => pc[p] \notin {"fetch", "plan"} \cup Planned
    PROVE  Batch(s)' = Batch(s)
<1>1. /\ evidence'[s] = evidence[s]
      /\ snapshots'[s] = snapshots[s]
      /\ DecisionsOf(s)' = DecisionsOf(s)
  <2>1. CASE Begin(p)
    BY <2>1 DEF Begin, ledgerVars, DecisionsOf
  <2>2. CASE (Run(p) \/ Crash(p)) /\ s = job[p].session
    BY <2>2, OtherSessionsStay DEF Inv, DecisionsOf
  <2>3. CASE (Run(p) \/ Crash(p)) /\ s # job[p].session
    BY <2>3, OtherSessionsStay DEF Inv
  <2>4. QED
    BY <2>1, <2>2, <2>3
<1>2. QED
  BY <1>1 DEF Batch

\* The batches at the ERP go on agreeing with the ledger, and no session gets
\* a second one.
LEMMA DeliveredStep ==
    ASSUME Inv, NEW p \in Procs, Begin(p) \/ Run(p) \/ Crash(p)
    PROVE  DeliveredOK'
<1> USE DEF Inv, ClaimInv
<1> DEFINE Old(i) == i \in DOMAIN delivered
           New(i) == i \in DOMAIN delivered' /\ ~Old(i)
           Agrees(i) == /\ delivered[i] = Batch(delivered[i].session)
                        /\ runs[delivered[i].session] # "none"
<1>0. PICK s : s = job[p].session
  OBVIOUS
<1>1. \A i : Old(i) => delivered[i].session \in Sessions
  <2>1. delivered \in Seq(DeliveredBatch)
    BY DEF TypeInv, TypeOK
  <2>2. \A i : Old(i) => delivered[i] \in DeliveredBatch
    BY <2>1
  <2>3. QED
    BY <2>2 DEF DeliveredBatch
<1>2. \A r \in Sessions : runs[r] # "none" => runs'[r] # "none"
  <2>1. CASE Claim(p) \/ Complete(p) \/ FailRun(p)
    BY <2>1 DEF Claim, Complete, FailRun, TypeInv, TypeOK
  <2>2. CASE UNCHANGED runs
    BY <2>2
  <2>3. QED
    BY <2>1, <2>2, StatusChanges
<1>3. /\ \A i : Old(i) => delivered'[i] = delivered[i]
      /\ \A i : New(i) => /\ i = Len(delivered) + 1
                          /\ delivered'[i] = Batch(s)
                          /\ pc[p] = "send"
  BY <1>0, DeliveryGrows
<1>4. ASSUME pc[p] = "send"
      PROVE  /\ s \in Sessions /\ runs[s] = "running"
             /\ \A i : Old(i) => delivered[i].session # s
             /\ Batch(s)' = Batch(s) /\ Batch(s).session = s
  <2>1. s \in Sessions /\ runs[s] = "running"
    BY <1>0, <1>4 DEF SessionsExclusive, Working, InTry, TypeInv, LocalsOK, Sound
  <2>2. \A i : Old(i) => delivered[i].session # s
    BY <1>0, <1>4 DEF StageOK, Undelivered
  <2>3. Batch(s)' = Batch(s)
    <3>1. pc[p] \notin {"fetch", "plan"} \cup Planned
      BY <1>4 DEF Planned, Executing
    <3>2. QED
      BY <2>1, <3>1, BatchStays
  <2>4. QED
    BY <2>1, <2>2, <2>3 DEF Batch
<1>5. ASSUME NEW i, Old(i) PROVE Agrees(i)'
  <2>1. PICK r : r = delivered[i].session
    OBVIOUS
  <2>2. delivered[i] = Batch(r) /\ runs[r] # "none" /\ r \in Sessions
    BY <1>1, <1>5, <2>1 DEF DeliveredOK
  <2>3. r = job[p].session => pc[p] \notin {"fetch", "plan"} \cup Planned
    BY <1>5, <2>1 DEF StageOK, Undelivered
  <2>4. Batch(r)' = Batch(r) /\ runs'[r] # "none"
    BY <1>2, <2>2, <2>3, BatchStays
  <2>5. delivered'[i] = Batch(r) /\ delivered'[i].session = r
    BY <1>3, <1>5, <2>1, <2>2
  <2>6. QED
    BY <2>4, <2>5
<1>6. ASSUME NEW i, New(i) PROVE Agrees(i)'
  <2>1. delivered'[i] = Batch(s) /\ pc[p] = "send"
    BY <1>3, <1>6
  <2>2. /\ delivered'[i].session = s /\ Batch(s)' = Batch(s)
        /\ runs'[s] # "none"
    BY <1>2, <1>4, <2>1
  <2>3. QED
    BY <2>1, <2>2
<1>7. ASSUME NEW i \in DOMAIN delivered', NEW j \in DOMAIN delivered',
             delivered'[i].session = delivered'[j].session
      PROVE  i = j
  <2>1. CASE Old(i) /\ Old(j)
    BY <1>3, <1>7, <2>1 DEF DeliveredOK
  <2>2. CASE New(i) /\ New(j)
    BY <1>3, <2>2
  <2>3. CASE Old(i) /\ New(j)
    BY <1>3, <1>4, <1>7, <2>3
  <2>4. CASE New(i) /\ Old(j)
    BY <1>3, <1>4, <1>7, <2>4
  <2>5. QED
    BY <2>1, <2>2, <2>3, <2>4
<1>8. \A i \in DOMAIN delivered' : Old(i) \/ New(i)
  OBVIOUS
<1>9. \A i \in DOMAIN delivered' : Agrees(i)'
  <2> HIDE DEF Old, New, Agrees
  <2>1. QED
    BY <1>5, <1>6, <1>8
<1>10. QED
  BY <1>7, <1>9 DEF DeliveredOK

\* What is bought has its grounds on record, and nothing takes them away.
LEMMA EntriesStep ==
    ASSUME Inv, NEW p \in Procs, Begin(p) \/ Run(p) \/ Crash(p)
    PROVE  EntriesGrounded'
<1> USE DEF Inv, ClaimInv
<1>1. \A r \in Sessions : evidence[r] \subseteq evidence'[r]
  <2>1. CASE Begin(p)
    BY <2>1 DEF Begin
  <2>2. QED
    BY <2>1, OtherSessionsStay
<1>2. \A d \in decisions : d.session \in Sessions
  BY DEF TypeInv, TypeOK, Decision
<1>3. CASE PostExit(p) \/ PostBuy(p)
  <2> DEFINE d == [session |-> job[p].session, ticker |-> job[p].order.ticker,
                   kind |-> job[p].order.kind]
  <2>1. /\ PostOrder(job[p].session, job[p].order)
        /\ pc[p] \in {"postExit", "postBuy"} /\ UNCHANGED evidence
    BY <1>3 DEF PostExit, PostBuy
  <2>2. decisions' = decisions \cup {d}
    BY <2>1, DecisionAdded
  <2>3. d.kind = "MODEL_ENTRY" => Grounds \subseteq evidence[d.session]
    BY <2>1 DEF StageOK, Executing
  <2> HIDE DEF d
  <2>4. QED
    BY <2>1, <2>2, <2>3 DEF EntriesGrounded
<1>4. CASE ~(PostExit(p) \/ PostBuy(p))
  <2>1. UNCHANGED decisions
    BY <1>4, BookChanges
    DEF Claim, Send, SendUnanswered, Complete, FailRun, ledgerVars
  <2>2. QED
    BY <1>1, <1>2, <2>1 DEF EntriesGrounded
<1>5. QED
  BY <1>3, <1>4

\* A completed session stays accounted for, and becomes so before it is marked.
LEMMA CompletedStep ==
    ASSUME Inv, EntriesGrounded', NEW p \in Procs, Begin(p) \/ Run(p) \/ Crash(p)
    PROVE  CompletedIsAccountedFor'
<1> USE DEF Inv, ClaimInv, ledgerVars
<1>1. SUFFICES ASSUME NEW s \in Sessions, runs'[s] = "completed"
               PROVE  /\ (s \in Snapshotted)'
                      /\ batches'[s] = "exported"
                      /\ \E i \in DOMAIN delivered' : delivered'[i] = Batch(s)'
  BY DEF CompletedIsAccountedFor, Completed, EntriesGrounded, DecisionsOf, Grounds
<1>2. CASE Complete(p) /\ s = job[p].session
  <2>1. pc[p] = "complete"
        /\ UNCHANGED <<snapshots, batches, decisions, delivered, evidence>>
    BY <1>2 DEF Complete
  <2>2. StageOK(p)
    OBVIOUS
  <2>3. Batch(s)' = Batch(s)
    BY <2>1 DEF Batch, DecisionsOf
  <2>4. QED
    BY <1>2, <2>1, <2>2, <2>3 DEF StageOK, Exporting, Snapshotted
<1>3. CASE ~ (Complete(p) /\ s = job[p].session)
  <2>1. runs[s] = "completed"
    BY <1>1, <1>3, StatusChanges
    DEF Claim, Complete, FailRun, TypeInv, TypeOK
  <2>2. /\ s \in Snapshotted /\ batches[s] = "exported"
        /\ \E i \in DOMAIN delivered : delivered[i] = Batch(s)
    BY <2>1 DEF CompletedIsAccountedFor, Completed
  <2>3. s = job[p].session => ~Working(p)
    BY <2>1 DEF SessionsExclusive
  <2>4. batches'[s] = batches[s] /\ snapshots'[s] = snapshots[s]
    <3>1. CASE Begin(p)
      BY <3>1 DEF Begin
    <3>2. QED
      BY <2>3, <3>1, OtherSessionsStay
  <2>5. Batch(s)' = Batch(s)
    <3>1. s = job[p].session => pc[p] \notin {"fetch", "plan"} \cup Planned
      BY <2>3 DEF Working, InTry, Planned, Executing
    <3>2. QED
      BY <3>1, BatchStays
  <2>6. \E i \in DOMAIN delivered' : delivered'[i] = Batch(s)
    BY <2>2, DeliveryGrows
  <2>7. QED
    BY <2>2, <2>4, <2>5, <2>6 DEF Snapshotted
<1>4. QED
  BY <1>2, <1>3

\* The peak never loses the initial capital it began with.
LEMMA PeakStep ==
    ASSUME Inv, NEW p \in Procs, Begin(p) \/ Run(p) \/ Crash(p)
    PROVE  peak' > 0
<1> USE DEF Inv, ClaimInv, ledgerVars
<1>1. CASE RecordSnapshot(p)
  BY <1>1 DEF RecordSnapshot, PostSnapshot, StageOK
<1>2. CASE ~RecordSnapshot(p)
  <2>1. CASE Begin(p) \/ Crash(p) \/ Claim(p) \/ Replay(p) \/ Leave(p)
    BY <2>1 DEF Begin, Crash, Claim, Replay, Leave
  <2>2. CASE Fetch(p) \/ Plan(p) \/ PlanUnpriced(p)
    BY <2>2 DEF Fetch, Plan, PlanUnpriced
  <2>3. CASE \E t \in Tickers : \/ PrepareExit(p, t) \/ RejectExit(p, t)
                                \/ PrepareBuy(p, t) \/ RejectBuy(p, t)
    BY <2>3 DEF PrepareExit, RejectExit, PrepareBuy, RejectBuy
  <2>4. CASE \/ PostExit(p) \/ PostBuy(p) \/ StartBuying(p)
             \/ PrepareSnapshot(p) \/ SnapshotUnpriced(p)
    BY <2>4 DEF PostExit, PostBuy, PostOrder, StartBuying, PrepareSnapshot,
                SnapshotUnpriced
  <2>5. CASE \/ Benchmarks(p) \/ SavePending(p)
             \/ Send(p) \/ SendUnanswered(p) \/ SendFails(p)
             \/ DeadLetter(p) \/ MarkExported(p) \/ Complete(p)
             \/ StepRaises(p) \/ FailRun(p)
    BY <2>5 DEF Benchmarks, SavePending, Send, SendUnanswered, SendFails,
                    DeadLetter, MarkExported, Complete, StepRaises, FailRun
  <2>6. QED
    BY <1>2, <2>1, <2>2, <2>3, <2>4, <2>5 DEF Run
<1>3. QED
  BY <1>1, <1>2

-------------------------------------------------------------------------------
(***************************************************************************)
(* The theorems.                                                           *)
(***************************************************************************)

\* The first state satisfies the invariant.
LEMMA InvInit == Init => Inv
<1> SUFFICES ASSUME Init PROVE Inv
  OBVIOUS
<1>1. TypeInv
  BY TypeInit
<1>2. /\ pc = [p \in Procs |-> "idle"]
      /\ delivered = <<>> /\ decisions = {}
      /\ runs = [s \in Sessions |-> "none"]
      /\ peak = Scale * InitialCapital
  BY DEF Init, LedgerInit
<1>3. \A p \in Procs : ~Working(p) /\ StageOK(p)
  BY <1>2 DEF Working, InTry, Raised, StageOK, Planned, Executing, Undelivered,
              Exporting
<1>4. SessionsExclusive /\ DeliveredOK /\ EntriesGrounded
  BY <1>2, <1>3 DEF SessionsExclusive, DeliveredOK, EntriesGrounded
<1>5. Completed = {}
  BY <1>2 DEF Completed
<1>6. CompletedIsAccountedFor
  BY <1>5 DEF CompletedIsAccountedFor
<1>7. peak > 0
  BY <1>2, SettingsAssumption
<1>8. QED
  BY <1>1, <1>3, <1>4, <1>6, <1>7 DEF Inv, ClaimInv

\* Every step keeps it.
LEMMA InvStep == Inv /\ [Next]_vars => Inv'
<1> SUFFICES ASSUME Inv, [Next]_vars PROVE Inv'
  OBVIOUS
<1>1. TypeInv'
  BY TypeStep DEF Inv
<1>2. CASE \E p \in Procs : Begin(p) \/ Run(p) \/ Crash(p)
  <2>1. PICK p \in Procs : Begin(p) \/ Run(p) \/ Crash(p)
    BY <1>2
  <2>2. \A q \in Procs : StageOK(q)'
    BY <2>1, OwnStageStep, OthersStageStep
  <2>3. /\ SessionsExclusive' /\ DeliveredOK' /\ EntriesGrounded'
        /\ CompletedIsAccountedFor' /\ peak' > 0
    BY <2>1, ExclusiveStep, DeliveredStep, EntriesStep, CompletedStep, PeakStep
  <2>4. QED
    BY <1>1, <2>2, <2>3 DEF Inv, ClaimInv
<1>3. CASE SessionCloses \/ PersistUniverse \/ UNCHANGED vars
  <2>1. UNCHANGED <<ledgerVars, runs, evidence, batches, delivered, pc, job>>
    BY <1>3 DEF SessionCloses, PersistUniverse, vars, ledgerVars
  <2>2. ClaimInv'
    BY <2>1 DEF Inv, ClaimInv, ledgerVars, SessionsExclusive, Working, StageOK,
                DeliveredOK, EntriesGrounded, CompletedIsAccountedFor, Completed,
                Batch, DecisionsOf, Snapshotted
  <2>3. QED
    BY <1>1, <2>2 DEF Inv
<1>4. QED
  BY <1>2, <1>3 DEF Next

\* Inv, from which the three theorems below follow, is invariant.
THEOREM ClaimsInvariant == Spec => []Inv
BY InvInit, InvStep, PTL DEF Spec

\* Overlapping invocations never work on the same session, and a session being
\* worked on is marked running.
THEOREM ExclusiveClaims == Spec => []SessionsExclusive
<1>1. Inv => SessionsExclusive
  BY DEF Inv, ClaimInv
<1>2. QED
  BY <1>1, ClaimsInvariant, PTL

\* A completed session has its snapshot, the grounds of what it bought, and a
\* batch at the ERP that carries exactly what the database holds of it.
THEOREM CompletionAccounted == Spec => []CompletedIsAccountedFor
<1>1. Inv => CompletedIsAccountedFor
  BY DEF Inv, ClaimInv
<1>2. QED
  BY <1>1, ClaimsInvariant, PTL

\* The ERP has at most one batch of a session, and its snapshot, decisions and
\* analyses are the ledger's for ever after, whatever becomes of the run.
THEOREM ErpAgreement == Spec => []ErpAgreesWithLedger
<1>1. Inv => ErpAgreesWithLedger
  BY DEF Inv, ClaimInv, DeliveredOK, Batch, ErpAgreesWithLedger
<1>2. QED
  BY <1>1, ClaimsInvariant, PTL

-------------------------------------------------------------------------------
(***************************************************************************)
(* Sessions go through the life SessionBook describes.                     *)
(***************************************************************************)

\* The run of one session changes its status, and so does the session.
LEMMA StatusStep ==
    ASSUME TypeInv, NEW s \in Sessions, NEW run \in RunStatuses,
           runs' = [runs EXCEPT ![s] = run]
    PROVE  Status' = [Status EXCEPT ![s] = StatusOf(run)]
<1>1. runs \in [Sessions -> RunStatuses]
  BY DEF TypeInv, TypeOK
<1>2. \A r \in Sessions : runs'[r] = IF r = s THEN run ELSE runs[r]
  BY <1>1
<1>3. Status' = [r \in Sessions |-> IF r = s THEN StatusOf(run) ELSE StatusOf(runs[r])]
  BY <1>2 DEF Status
<1>4. QED
  BY <1>3 DEF Status

\* What is published of a sequence of batches grows as the sequence does.
LEMMA PublishedGrows ==
    ASSUME NEW seq \in Seq(DeliveredBatch), NEW batch \in DeliveredBatch
    PROVE  LET Book(b) == [session |-> b.session, trades |-> b.trades]
               longer == Append(seq, batch)
           IN  [i \in DOMAIN longer |-> Book(longer[i])]
                   = Append([i \in DOMAIN seq |-> Book(seq[i])], Book(batch))
OBVIOUS

\* Each step of a process is one that SessionBook allows, or none of its own.
LEMMA BookStep ==
    ASSUME Inv, NEW p \in Procs, Begin(p) \/ Run(p) \/ Crash(p)
    PROVE  [SB!Next]_<<Status, decisions, Published>>
<1> USE DEF Inv, ClaimInv
<1> DEFINE s == job[p].session
<1>1. /\ TypeInv /\ StageOK(p) /\ job[p] \in Job
      /\ pc[p] # "idle" => s \in Sessions
      /\ Working(p) => Status[s] = "open"
  <2>1. TypeInv /\ StageOK(p) /\ job[p] \in Job
    BY DEF TypeInv, TypeOK
  <2>2. pc[p] # "idle" => s \in Sessions
    BY DEF TypeInv, LocalsOK, Sound
  <2>3. Working(p) => pc[p] # "idle" /\ runs[s] = "running"
    BY DEF SessionsExclusive, Working, InTry, Raised
  <2>4. QED
    BY <2>1, <2>2, <2>3 DEF Status, StatusOf
<1>2. CASE Claim(p)
  <2>1. /\ runs[s] = "none" /\ s \in Sessions
        /\ runs' = [runs EXCEPT ![s] = "running"]
        /\ UNCHANGED <<decisions, delivered>>
    BY <1>1, <1>2 DEF Claim, ledgerVars
  <2>2. Status' = [Status EXCEPT ![s] = StatusOf("running")]
    BY <1>1, <2>1, StatusStep DEF RunStatuses
  <2>3. Status[s] = "new" /\ StatusOf("running") = "open"
    BY <2>1 DEF Status, StatusOf
  <2>4. SB!Open(s)
    BY <2>1, <2>2, <2>3 DEF SB!Open, SB!Becomes, Published
  <2>5. QED
    BY <2>1, <2>4 DEF SB!Next
<1>3. CASE PostExit(p) \/ PostBuy(p)
  <2> DEFINE d == [session |-> s, ticker |-> job[p].order.ticker,
                   kind |-> job[p].order.kind]
  <2>1. /\ pc[p] \in {"postExit", "postBuy"}
        /\ decisions' = decisions \cup {d}
        /\ UNCHANGED <<runs, delivered>>
    BY <1>3 DEF PostExit, PostBuy, PostOrder
  <2>2. Working(p) /\ pc[p] \in Planned /\ s \in Sessions
    BY <1>1, <2>1 DEF Working, InTry, Planned, Executing
  <2>3. \A i \in DOMAIN delivered : delivered[i].session # s
    BY <1>1, <2>2 DEF StageOK, Undelivered
  <2>4. d \in Decision /\ d.session = s
    <3>1. job[p].order.ticker \in Tickers /\ job[p].order.kind \in Kinds
      BY <1>1, <2>1 DEF TypeInv, LocalsOK, Sound, Job, Order
    <3>2. QED
      BY <2>2, <3>1 DEF Decision
  <2> HIDE DEF d
  <2>5. ~SB!IsPublished(s)
    BY <2>3 DEF SB!IsPublished, Published
  <2>6. SB!Trade(s)
    BY <1>1, <2>1, <2>2, <2>4, <2>5 DEF SB!Trade, Status, Published
  <2>7. QED
    BY <2>2, <2>6 DEF SB!Next
<1>4. CASE Send(p) \/ SendUnanswered(p)
  <2>1. /\ pc[p] = "send" /\ delivered' = Append(delivered, Batch(s))
        /\ UNCHANGED <<runs, decisions>>
    BY <1>4 DEF Send, SendUnanswered, ledgerVars
  <2>2. Working(p) /\ s \in Sessions
    BY <1>1, <2>1 DEF Working, InTry
  <2>3. [session |-> Batch(s).session, trades |-> Batch(s).trades] = SB!Book(s)
    BY DEF Batch, DecisionsOf, SB!Book
  <2>4. Published' = Append(Published, SB!Book(s))
    <3>1. delivered \in Seq(DeliveredBatch) /\ Batch(s) \in DeliveredBatch
      BY <1>1, <2>2, BatchType DEF TypeInv, TypeOK
    <3>2. [i \in DOMAIN Append(delivered, Batch(s)) |->
                [session |-> Append(delivered, Batch(s))[i].session,
                 trades |-> Append(delivered, Batch(s))[i].trades]]
            = Append(Published, [session |-> Batch(s).session,
                                 trades |-> Batch(s).trades])
      BY <3>1, PublishedGrows DEF Published
    <3>3. QED
      BY <2>1, <2>3, <3>2 DEF Published
  <2>5. ~SB!IsPublished(s)
    BY <1>1, <2>1 DEF StageOK, Undelivered, SB!IsPublished, Published
  <2>6. SB!Publish(s)
    BY <1>1, <2>1, <2>2, <2>4, <2>5 DEF SB!Publish, Status
  <2>7. QED
    BY <2>2, <2>6 DEF SB!Next
<1>5. CASE Complete(p)
  <2>1. /\ pc[p] = "complete" /\ runs' = [runs EXCEPT ![s] = "completed"]
        /\ UNCHANGED <<decisions, delivered>>
    BY <1>5 DEF Complete, ledgerVars
  <2>2. Working(p) /\ s \in Sessions
    BY <1>1, <2>1 DEF Working, InTry
  <2>3. Status' = [Status EXCEPT ![s] = StatusOf("completed")]
    BY <1>1, <2>1, <2>2, StatusStep DEF RunStatuses
  <2>4. PICK i \in DOMAIN delivered : delivered[i] = Batch(s)
    BY <1>1, <2>1 DEF StageOK
  <2>5. SB!IsPublished(s)
    BY <2>4 DEF SB!IsPublished, Published, Batch
  <2>6. StatusOf("completed") = "completed"
    BY DEF StatusOf
  <2>7. SB!Complete(s)
    BY <1>1, <2>1, <2>2, <2>3, <2>5, <2>6 DEF SB!Complete, SB!Becomes, Published
  <2>8. QED
    BY <2>2, <2>7 DEF SB!Next
<1>6. CASE FailRun(p)
  <2>1. /\ pc[p] \in Raised /\ runs' = [runs EXCEPT ![s] = "failed"]
        /\ UNCHANGED <<decisions, delivered>>
    BY <1>6 DEF FailRun, ledgerVars
  <2>2. Working(p) /\ s \in Sessions
    BY <1>1, <2>1 DEF Working, Raised
  <2>3. Status' = [Status EXCEPT ![s] = StatusOf("failed")]
    BY <1>1, <2>1, <2>2, StatusStep DEF RunStatuses
  <2>4. SB!Fail(s)
    BY <1>1, <2>1, <2>2, <2>3 DEF SB!Fail, SB!Becomes, Published, StatusOf
  <2>5. QED
    BY <2>2, <2>4 DEF SB!Next
<1>7. CASE UNCHANGED <<runs, decisions, delivered>>
  BY <1>7 DEF Status, Published
<1>8. QED
  BY <1>1, <1>2, <1>3, <1>4, <1>5, <1>6, <1>7, BookChanges

\* The daily cycle implements SessionBook: whatever overlaps, fails or is
\* killed, a session is traded only while it is open and nothing of it is
\* published, what is published is its whole book, and it is completed after
\* that or not at all.
THEOREM SessionLife == Spec => ImplementsSessionBook
<1>1. Init => SB!Init
  BY DEF Init, LedgerInit, SB!Init, Status, StatusOf, Published
<1>2. Inv /\ [Next]_vars => [SB!Next]_<<Status, decisions, Published>>
  <2> SUFFICES ASSUME Inv, [Next]_vars
               PROVE  [SB!Next]_<<Status, decisions, Published>>
    OBVIOUS
  <2>1. CASE \E p \in Procs : Begin(p) \/ Run(p) \/ Crash(p)
    BY <2>1, BookStep
  <2>2. CASE SessionCloses \/ PersistUniverse \/ UNCHANGED vars
    BY <2>2 DEF SessionCloses, PersistUniverse, vars, ledgerVars, Status, Published
  <2>3. QED
    BY <2>1, <2>2 DEF Next
<1>3. Inv /\ [Next]_vars => [SB!Next]_(SB!bookVars)
  BY <1>2 DEF SB!bookVars
<1>4. QED
  BY <1>1, <1>3, ClaimsInvariant, PTL DEF Spec, ImplementsSessionBook, SB!Spec

-------------------------------------------------------------------------------
(***************************************************************************)
(* The reasons for the decisions of a session.                             *)
(***************************************************************************)

Leaving == {"SIGNAL_EXIT", "UNIVERSE_REMOVAL"}

\* What the process that works on a session knows of its decisions: while it
\* sells, they are what the plan says, and when it buys, what left because of
\* its score or of research does not qualify.
ReasonOK(p) ==
    LET j == job[p]
    IN  /\ \A t \in Tickers : j.scores[t] > 0 => t \in j.members
        /\ \A t \in j.toBuy : j.scores[t] >= Threshold
        /\ pc[p] \in {"fetch", "plan"} => DecisionsOf(j.session) = {}
        /\ pc[p] = "postExit" => j.order.kind = ExitKind(j, j.order.ticker)
        /\ pc[p] \in {"exit", "postExit"} =>
            \A d \in DecisionsOf(j.session) : d.kind = ExitKind(j, d.ticker)
        /\ pc[p] = "postBuy" => /\ j.order.kind = "MODEL_ENTRY"
                                /\ j.scores[j.order.ticker] >= Threshold
        /\ pc[p] \in {"buy", "postBuy"} =>
            \A d \in DecisionsOf(j.session) :
                d.kind \in Leaving => j.scores[d.ticker] < Threshold

ReasonInv ==
    /\ \A d \in decisions : runs[d.session] # "none"
    /\ \A p \in Procs : ReasonOK(p)
    /\ DecisionsCohere

\* The rule that makes a run sell looks at four of its locals.
LEMMA SameExitKind ==
    ASSUME NEW j \in Job, NEW k \in Job, k.held = j.held, k.quotes = j.quotes,
           k.members = j.members, k.scores = j.scores, NEW t
    PROVE  ExitKind(k, t) = ExitKind(j, t)
BY DEF ExitKind

\* The steps of another process leave what one knows of its session true.
LEMMA OthersReasonStep ==
    ASSUME Inv, ReasonInv, NEW p \in Procs, Begin(p) \/ Run(p) \/ Crash(p),
           NEW q \in Procs \ {p}
    PROVE  ReasonOK(q)'
<1>1. /\ pc'[q] = pc[q] /\ job'[q] = job[q] /\ ReasonOK(q)
      /\ TypeInv /\ SessionsExclusive
  BY OthersStay DEF Inv, ClaimInv, ReasonInv
<1>2. CASE ~Working(q)
  BY <1>1, <1>2 DEF ReasonOK, Working, InTry
<1>3. CASE Working(q)
  <2>1. job[q].session \in Sessions
    BY <1>1, <1>3 DEF TypeInv, LocalsOK, Sound, Working, InTry, Raised
  <2>2. DecisionsOf(job[q].session)' = DecisionsOf(job[q].session)
    <3>1. CASE Begin(p)
      BY <1>1, <3>1 DEF Begin, ledgerVars, DecisionsOf
    <3>2. CASE Run(p) \/ Crash(p)
      <4>1. CASE Working(p)
        <5>1. job[p].session # job[q].session
          BY <1>1, <1>3, <4>1 DEF SessionsExclusive
        <5>2. \A r \in Sessions : r # job[p].session =>
                 {d \in decisions' : d.session = r} = {d \in decisions : d.session = r}
          BY <1>1, <3>2, OtherSessionsStay DEF DecisionsOf
        <5>3. QED
          BY <1>1, <2>1, <5>1, <5>2 DEF DecisionsOf
      <4>2. CASE ~Working(p)
        <5>1. UNCHANGED decisions
          BY <1>1, <3>2, <4>2, OtherSessionsStay DEF Working, InTry, Planned, Executing
        <5>2. QED
          BY <1>1, <5>1 DEF DecisionsOf
      <4>3. QED
        BY <4>1, <4>2
    <3>3. QED
      BY <3>1, <3>2
  <2>3. QED
    BY <1>1, <2>2 DEF ReasonOK
<1>4. QED
  BY <1>2, <1>3

\* A process's own steps.
LEMMA OwnReasonStep ==
    ASSUME Inv, ReasonInv, NEW p \in Procs, Begin(p) \/ Run(p) \/ Crash(p),
           TypeInv'
    PROVE  ReasonOK(p)'
<1> USE DEF ledgerVars
<1>1. /\ pc \in [Procs -> Labels] /\ job \in [Procs -> Job] /\ job[p] \in Job
      /\ job' \in [Procs -> Job] /\ job'[p] \in Job
      /\ ReasonOK(p) /\ Sound(pc[p], job[p]) /\ TypeInv
  BY DEF Inv, TypeInv, TypeOK, ReasonInv, LocalsOK
<1>2. CASE Begin(p) \/ Crash(p) \/ Leave(p) \/ Complete(p) \/ FailRun(p)
  <2>1. job'[p].scores = NoJob.scores /\ job'[p].toBuy = {}
    <3>1. CASE Begin(p)
      <4>1. PICK s, members : job' = [job EXCEPT ![p] =
                  [NoJob EXCEPT !.session = s, !.members = members]]
        BY <3>1 DEF Begin
      <4>2. QED
        BY <1>1, <4>1, NoJobOK DEF NoJob
    <3>2. CASE Crash(p) \/ Leave(p) \/ Complete(p) \/ FailRun(p)
      BY <1>1, <3>2 DEF Crash, Leave, Complete, FailRun, NoJob
    <3>3. QED
      BY <1>2, <3>1, <3>2
  <2>2. pc'[p] \in {"idle", "claim"}
    BY <1>1, <1>2 DEF Begin, Crash, Leave, Complete, FailRun
  <2>3. \A t \in Tickers : ~(job'[p].scores[t] > 0)
    BY <2>1 DEF NoJob
  <2>4. QED
    BY <2>1, <2>2, <2>3 DEF ReasonOK
<1>3. CASE Claim(p)
  <2>1. /\ runs[job[p].session] = "none" /\ pc'[p] = "fetch"
        /\ UNCHANGED <<job, decisions>>
    BY <1>1, <1>3 DEF Claim
  <2>2. DecisionsOf(job[p].session) = {}
    BY <2>1 DEF ReasonInv, DecisionsOf
  <2>3. QED
    BY <1>1, <2>1, <2>2 DEF ReasonOK, DecisionsOf
<1>4. CASE Fetch(p)
  <2>1. PICK c \in [job[p].members -> Scores] : \E quotes :
          job' = [job EXCEPT ![p].quotes = quotes,
            ![p].scores = [t \in Tickers |-> IF t \in DOMAIN c THEN c[t] ELSE 0]]
    BY <1>4 DEF Fetch
  <2> DEFINE scores == [t \in Tickers |-> IF t \in DOMAIN c THEN c[t] ELSE 0]
  <2>2. \A t \in Tickers : scores[t] > 0 => t \in job[p].members
    OBVIOUS
  <2> HIDE DEF scores
  <2>3. PICK quotes : job' = [job EXCEPT ![p].quotes = quotes, ![p].scores = scores]
    BY <2>1 DEF scores
  <2>4. /\ job'[p].scores = scores /\ job'[p].members = job[p].members
        /\ job'[p].toBuy = job[p].toBuy /\ job'[p].session = job[p].session
    BY <1>1, <2>3 DEF Job
  <2>5. /\ pc[p] = "fetch" /\ pc'[p] = "plan" /\ job[p].toBuy = {}
        /\ UNCHANGED decisions
    BY <1>1, <1>4 DEF Fetch, Sound, Unplanned
  <2>6. DecisionsOf(job[p].session)' = {}
    BY <1>1, <2>4, <2>5 DEF ReasonOK, DecisionsOf
  <2>7. QED
    BY <2>2, <2>4, <2>5, <2>6 DEF ReasonOK
<1>5. CASE Plan(p)
  <2> DEFINE chosen == Targets(job[p].scores,
                                Scale * cash + MarketValue(job[p].quotes))
  <2>1. \A t \in DOMAIN chosen : job[p].scores[t] >= Threshold
    BY SelectedQualifies
  <2> HIDE DEF chosen
  <2>2. PICK targets, toExit : job' = [job EXCEPT ![p] = [job[p] EXCEPT
            !.held = positions, !.targets = targets, !.toExit = toExit,
            !.toBuy = DOMAIN chosen]]
    BY <1>5 DEF Plan, chosen
  <2>3. /\ job'[p].scores = job[p].scores /\ job'[p].members = job[p].members
        /\ job'[p].toBuy = DOMAIN chosen /\ job'[p].session = job[p].session
    BY <1>1, <2>2 DEF Job
  <2>4. pc[p] = "plan" /\ pc'[p] = "exit" /\ UNCHANGED decisions
    BY <1>1, <1>5 DEF Plan
  <2>5. DecisionsOf(job[p].session)' = {}
    BY <1>1, <2>3, <2>4 DEF ReasonOK, DecisionsOf
  <2>6. QED
    BY <1>1, <2>1, <2>3, <2>4, <2>5 DEF ReasonOK
<1>6. CASE \E t \in Tickers : PrepareExit(p, t)
  <2>1. PICK t \in Tickers : PrepareExit(p, t)
    BY <1>6
  <2> DEFINE j == job[p]
             k == job'[p]
  <2>2. /\ k.held = j.held /\ k.quotes = j.quotes /\ k.members = j.members
        /\ k.scores = j.scores /\ k.toBuy = j.toBuy /\ k.session = j.session
        /\ k.order.ticker = t /\ k.order.kind = ExitKind(j, t)
        /\ pc[p] = "exit" /\ pc'[p] = "postExit" /\ UNCHANGED decisions
    BY <1>1, <2>1 DEF PrepareExit, SellOrder, Job
  <2>3. \A u : ExitKind(k, u) = ExitKind(j, u)
    BY <1>1, <2>2, SameExitKind
  <2>4. DecisionsOf(j.session)' = DecisionsOf(j.session)
    BY <2>2 DEF DecisionsOf
  <2>5. QED
    BY <1>1, <2>2, <2>3, <2>4 DEF ReasonOK
<1>7. CASE PostExit(p)
  <2> DEFINE j == job[p]
             k == job'[p]
             d == [session |-> j.session, ticker |-> j.order.ticker,
                   kind |-> j.order.kind]
  <2>1. /\ k.held = j.held /\ k.quotes = j.quotes /\ k.members = j.members
        /\ k.scores = j.scores /\ k.toBuy = j.toBuy /\ k.session = j.session
        /\ pc[p] = "postExit" /\ pc'[p] = "exit"
    BY <1>1, <1>7 DEF PostExit, Job
  <2>2. DecisionsOf(j.session)' = DecisionsOf(j.session) \cup {d}
    <3>1. PostOrder(j.session, j.order)
      BY <1>7 DEF PostExit
    <3>2. QED
      BY <2>1, <3>1, DecisionAdded DEF DecisionsOf
  <2>3. \A u : ExitKind(k, u) = ExitKind(j, u)
    BY <1>1, <2>1, SameExitKind
  <2>4. d.kind = ExitKind(j, d.ticker)
    BY <1>1, <2>1 DEF ReasonOK
  <2> HIDE DEF d
  <2>5. QED
    BY <1>1, <2>1, <2>2, <2>3, <2>4 DEF ReasonOK
<1>8. CASE StartBuying(p)
  <2> DEFINE j == job[p]
             k == job'[p]
  <2>1. /\ k.members = j.members /\ k.scores = j.scores /\ k.toBuy = j.toBuy
        /\ k.session = j.session
        /\ pc[p] = "exit" /\ pc'[p] = "buy" /\ UNCHANGED decisions
    BY <1>1, <1>8 DEF StartBuying, Job
  <2>2. DecisionsOf(j.session)' = DecisionsOf(j.session)
    BY <2>1 DEF DecisionsOf
  <2>3. ASSUME NEW d \in DecisionsOf(j.session), d.kind \in Leaving
        PROVE  j.scores[d.ticker] < Threshold
    <3>1. d.kind = ExitKind(j, d.ticker)
      BY <1>1, <2>1 DEF ReasonOK
    <3>2. CASE d.kind = "SIGNAL_EXIT"
      BY <3>1, <3>2, ExitKindIs
    <3>3. CASE d.kind = "UNIVERSE_REMOVAL"
      <4>1. d.ticker \in Tickers /\ d.ticker \notin j.members
        BY <1>1, <3>1, <3>3, ExitKindIs DEF TypeInv, TypeOK, DecisionsOf, Decision
      <4>2. ~(j.scores[d.ticker] > 0) /\ j.scores[d.ticker] \in 0..100
        BY <1>1, <4>1 DEF ReasonOK, Job
      <4>3. QED
        BY <4>2, SettingsAssumption
    <3>4. QED
      BY <2>3, <3>2, <3>3 DEF Leaving
  <2>4. QED
    BY <1>1, <2>1, <2>2, <2>3 DEF ReasonOK
<1>9. CASE \E t \in Tickers : PrepareBuy(p, t)
  <2>1. PICK t \in Tickers : PrepareBuy(p, t)
    BY <1>9
  <2> DEFINE j == job[p]
             k == job'[p]
  <2>2. /\ k.members = j.members /\ k.scores = j.scores /\ k.toBuy = j.toBuy
        /\ k.session = j.session /\ k.order.ticker = t
        /\ k.order.kind = "MODEL_ENTRY" /\ t \in j.toBuy
        /\ pc[p] = "buy" /\ pc'[p] = "postBuy" /\ UNCHANGED decisions
    BY <1>1, <2>1 DEF PrepareBuy, BuyOrder, IsNextBuy, Wanted, Job
  <2>3. DecisionsOf(j.session)' = DecisionsOf(j.session)
    BY <2>2 DEF DecisionsOf
  <2>4. QED
    BY <1>1, <2>2, <2>3 DEF ReasonOK
<1>10. CASE PostBuy(p)
  <2> DEFINE j == job[p]
             k == job'[p]
             d == [session |-> j.session, ticker |-> j.order.ticker,
                   kind |-> j.order.kind]
  <2>1. /\ k.members = j.members /\ k.scores = j.scores
        /\ k.toBuy \subseteq j.toBuy /\ k.session = j.session
        /\ pc[p] = "postBuy" /\ pc'[p] = "buy"
    BY <1>1, <1>10 DEF PostBuy, Job
  <2>2. DecisionsOf(j.session)' = DecisionsOf(j.session) \cup {d}
    <3>1. PostOrder(j.session, j.order)
      BY <1>10 DEF PostBuy
    <3>2. QED
      BY <2>1, <3>1, DecisionAdded DEF DecisionsOf
  <2>3. d.kind \notin Leaving
    BY <1>1, <2>1 DEF ReasonOK, Leaving
  <2> HIDE DEF d
  <2>4. QED
    BY <1>1, <2>1, <2>2, <2>3 DEF ReasonOK
<1>11. CASE PrepareSnapshot(p)
  <2>1. /\ job'[p].scores = job[p].scores /\ job'[p].members = job[p].members
        /\ job'[p].toBuy = job[p].toBuy /\ pc'[p] = "postSnapshot"
    BY <1>1, <1>11 DEF PrepareSnapshot, Job
  <2>2. QED
    BY <1>1, <2>1 DEF ReasonOK
<1>12. CASE \/ Replay(p) \/ PlanUnpriced(p) \/ SnapshotUnpriced(p)
            \/ RecordSnapshot(p) \/ Benchmarks(p) \/ SavePending(p)
            \/ Send(p) \/ SendUnanswered(p) \/ SendFails(p)
            \/ DeadLetter(p) \/ MarkExported(p) \/ StepRaises(p)
            \/ \E t \in Tickers : RejectExit(p, t) \/ RejectBuy(p, t)
  <2>1. /\ UNCHANGED job
        /\ pc'[p] \notin {"fetch", "plan", "exit", "postExit", "buy", "postBuy"}
    BY <1>1, <1>12 DEF Replay, PlanUnpriced, SnapshotUnpriced, RecordSnapshot,
       Benchmarks, SavePending, Send, SendUnanswered, SendFails, DeadLetter,
       MarkExported, StepRaises, RejectExit, RejectBuy
  <2>2. QED
    BY <1>1, <2>1 DEF ReasonOK
<1>13. QED
  BY <1>2, <1>3, <1>4, <1>5, <1>6, <1>7, <1>8, <1>9, <1>10, <1>11, <1>12 DEF Run

\* A new decision agrees with those of its session.
LEMMA CohereStep ==
    ASSUME Inv, ReasonInv, NEW p \in Procs, Begin(p) \/ Run(p) \/ Crash(p)
    PROVE  DecisionsCohere'
<1> DEFINE j == job[p]
           d == [session |-> j.session, ticker |-> j.order.ticker,
                 kind |-> j.order.kind]
           Agree(a, b) ==
               (a.session = b.session /\ a.ticker = b.ticker /\ a.kind # b.kind)
                   => /\ "MODEL_ENTRY" \in {a.kind, b.kind}
                      /\ {a.kind, b.kind} \cap Leaving = {}
<1>1. \A a, b \in decisions : Agree(a, b)
  BY DEF ReasonInv, DecisionsCohere, Leaving
<1>2. ReasonOK(p) /\ TypeInv
  BY DEF ReasonInv, Inv
<1>3. CASE PostExit(p) \/ PostBuy(p)
  <2>1. PostOrder(j.session, j.order) /\ pc[p] \in {"postExit", "postBuy"}
    BY <1>3 DEF PostExit, PostBuy
  <2>2. decisions' = decisions \cup {d}
    BY <2>1, DecisionAdded
  <2>3. ASSUME NEW e \in decisions PROVE Agree(d, e) /\ Agree(e, d)
    <3>1. SUFFICES ASSUME e.session = j.session, e.ticker = j.order.ticker,
                          e.kind # j.order.kind
                   PROVE  /\ "MODEL_ENTRY" \in {j.order.kind, e.kind}
                          /\ {j.order.kind, e.kind} \cap Leaving = {}
      OBVIOUS
    <3>2. e \in DecisionsOf(j.session)
      BY <3>1 DEF DecisionsOf
    <3>3. CASE pc[p] = "postExit"
      BY <1>2, <3>1, <3>2, <3>3 DEF ReasonOK
    <3>4. CASE pc[p] = "postBuy"
      <4>1. /\ j.order.kind = "MODEL_ENTRY" /\ j.scores[j.order.ticker] >= Threshold
            /\ e.kind \in Leaving => j.scores[e.ticker] < Threshold
        BY <1>2, <3>2, <3>4 DEF ReasonOK
      <4>2. j.scores[j.order.ticker] \in Int /\ Threshold \in Int
        <5>1. j \in Job /\ j.order.ticker \in Tickers
          BY <1>2, <3>4 DEF TypeInv, TypeOK, LocalsOK, Sound
        <5>2. j.scores[j.order.ticker] \in 0..100
          BY <5>1 DEF Job
        <5>3. QED
          BY <5>2, SettingsAssumption
      <4>3. e.kind \notin Leaving
        BY <3>1, <4>1, <4>2
      <4>4. QED
        BY <4>1, <4>3 DEF Leaving
    <3>5. QED
      BY <2>1, <3>3, <3>4
  <2>4. Agree(d, d)
    OBVIOUS
  <2> HIDE DEF d, Agree
  <2>5. \A a, b \in decisions' : Agree(a, b)
    BY <1>1, <2>2, <2>3, <2>4
  <2>6. QED
    BY <2>5 DEF DecisionsCohere, Agree, Leaving
<1>4. CASE ~(PostExit(p) \/ PostBuy(p))
  <2>1. UNCHANGED decisions
    BY <1>2, <1>4, BookChanges
    DEF Claim, Send, SendUnanswered, Complete, FailRun, ledgerVars
  <2>2. QED
    BY <2>1 DEF ReasonInv, DecisionsCohere
<1>5. QED
  BY <1>3, <1>4

\* Every step keeps the reasons in order.
LEMMA ReasonStep == Inv /\ ReasonInv /\ [Next]_vars => ReasonInv'
<1> SUFFICES ASSUME Inv, ReasonInv, [Next]_vars PROVE ReasonInv'
  OBVIOUS
<1>1. TypeInv' /\ TypeInv
  BY TypeStep DEF Inv
<1>2. CASE \E p \in Procs : Begin(p) \/ Run(p) \/ Crash(p)
  <2>1. PICK p \in Procs : Begin(p) \/ Run(p) \/ Crash(p)
    BY <1>2
  <2>2. \A q \in Procs : ReasonOK(q)'
    BY <1>1, <2>1, OwnReasonStep, OthersReasonStep
  <2>3. ASSUME NEW d \in decisions' PROVE runs'[d.session] # "none"
    <3>1. \A r \in Sessions : runs[r] # "none" => runs'[r] # "none"
      <4>1. CASE Claim(p) \/ Complete(p) \/ FailRun(p)
        BY <1>1, <4>1 DEF Claim, Complete, FailRun, TypeInv, TypeOK
      <4>2. CASE UNCHANGED runs
        BY <4>2
      <4>3. QED
        BY <1>1, <2>1, <4>1, <4>2, StatusChanges
    <3>2. CASE d \in decisions
      <4>1. d.session \in Sessions /\ runs[d.session] # "none"
        BY <1>1, <3>2 DEF ReasonInv, TypeInv, TypeOK, Decision
      <4>2. QED
        BY <3>1, <4>1
    <3>3. CASE d \notin decisions
      <4>1. PostExit(p) \/ PostBuy(p)
        BY <1>1, <2>1, <2>3, <3>3, BookChanges
        DEF Claim, Send, SendUnanswered, Complete, FailRun, ledgerVars
      <4>2. d.session = job[p].session /\ Working(p)
        BY <2>3, <3>3, <4>1 DEF PostExit, PostBuy, PostOrder, Working, InTry
      <4>3. runs[job[p].session] = "running" /\ job[p].session \in Sessions
        BY <1>1, <4>2 DEF Inv, ClaimInv, SessionsExclusive, TypeInv, LocalsOK,
                          Sound, Working, InTry, Raised
      <4>4. QED
        BY <3>1, <4>2, <4>3
    <3>4. QED
      BY <3>2, <3>3
  <2>4. DecisionsCohere'
    BY <2>1, CohereStep
  <2>5. QED
    BY <2>2, <2>3, <2>4 DEF ReasonInv
<1>3. CASE SessionCloses \/ PersistUniverse \/ UNCHANGED vars
  <2>1. UNCHANGED <<decisions, runs, pc, job>>
    BY <1>3 DEF SessionCloses, PersistUniverse, vars, ledgerVars
  <2>2. QED
    BY <2>1 DEF ReasonInv, ReasonOK, DecisionsOf, DecisionsCohere
<1>4. QED
  BY <1>2, <1>3 DEF Next

\* ReasonInv is invariant.
LEMMA ReasonInvariant == Spec => []ReasonInv
<1>1. Init => ReasonInv
  <2> SUFFICES ASSUME Init PROVE ReasonInv
    OBVIOUS
  <2>1. decisions = {} /\ \A p \in Procs : pc[p] = "idle" /\ job[p] = NoJob
    BY DEF Init, LedgerInit
  <2>2. \A p \in Procs : ReasonOK(p)
    BY <2>1 DEF ReasonOK, NoJob
  <2>3. QED
    BY <2>1, <2>2 DEF ReasonInv, DecisionsCohere
<1>2. QED
  BY <1>1, ReasonStep, ClaimsInvariant, PTL DEF Spec

\* In a session a ticker is sold for one reason, and what left because of its
\* score or of research is not bought back in it, however invocations overlap
\* (the order of run's loops, and the threshold both of them compare with).
THEOREM CoherentDecisions == Spec => []DecisionsCohere
<1>1. ReasonInv => DecisionsCohere
  BY DEF ReasonInv
<1>2. QED
  BY <1>1, ReasonInvariant, PTL
===============================================================================
