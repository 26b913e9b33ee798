----------------------------- MODULE ResearchProofs -----------------------------
(***************************************************************************)
(* Monthly research, for any number of overlapping invocations, months,    *)
(* tickers and answers of the model: the universes of a month are one      *)
(* chain, the ERP only has what is stored, and the active universe is an   *)
(* implementation of MonthlyUniverse.                                      *)
(***************************************************************************)
EXTENDS ResearchProperties, SumTheorems, SequenceTheorems, TLAPS

(***************************************************************************)
(* The inductive invariant.                                                *)
(***************************************************************************)

Exporting == {"send", "unsent", "sent", "report"}

\* What an invocation has in memory by the time it is at its label.
StageOK(p) ==
    /\ pc[p] # "idle" => job[p].period \in Periods
    /\ pc[p] = "persist" => Cardinality(job[p].members) = UniverseSize
    /\ pc[p] \in {"reload"} \cup Exporting =>
          job[p].row \in Rows /\ rows[job[p].row].period = job[p].period
    /\ pc[p] \in Exporting =>
          job[p].batch \in DOMAIN batches /\ batches[job[p].batch].row = job[p].row
    /\ pc[p] \in {"sent", "report"} => job[p].batch \in delivered
    /\ pc[p] = "report" => batches[job[p].batch].status = "exported"

\* No two invocations export the same batch.
OwnBatches ==
    \A p, q \in Researchers :
        /\ pc[p] \in Exporting /\ pc[q] \in Exporting
        /\ job[p].batch = job[q].batch
        => p = q

\* A stored universe is complete, and a month once researched has a current one.
RowsOK ==
    \A i \in Rows : /\ Cardinality(rows[i].members) = UniverseSize
                    /\ Current(rows[i].period) # {}

\* A batch carries the members of the row it names.
BatchesOK ==
    \A b \in DOMAIN batches :
        batches[b].row \in Rows /\ batches[b].members = rows[batches[b].row].members

Inv ==
    /\ TypeOK
    /\ \A p \in Researchers : StageOK(p)
    /\ OwnBatches /\ RowsOK /\ BatchesOK
    /\ OneChainPerMonth

-------------------------------------------------------------------------------
(***************************************************************************)
(* Facts about the state.                                                  *)
(***************************************************************************)

\* What the types say of the two tables and of an invocation.
LEMMA Kinds ==
    ASSUME TypeOK
    PROVE  /\ Len(rows) \in Nat /\ Rows = 1..Len(rows)
           /\ \A i \in Rows : rows[i] \in Row
           /\ Len(batches) \in Nat /\ DOMAIN batches = 1..Len(batches)
           /\ \A b \in DOMAIN batches : batches[b] \in Batch
           /\ \A p \in Researchers : pc[p] \in Labels /\ job[p] \in Job
<1>1. rows \in Seq(Row) /\ batches \in Seq(Batch)
      BY DEF TypeOK
<1>2. /\ Len(rows) \in Nat /\ DOMAIN rows = 1..Len(rows)
      /\ Len(batches) \in Nat /\ DOMAIN batches = 1..Len(batches)
      BY <1>1, LenProperties
<1>3. /\ \A i \in 1..Len(rows) : rows[i] \in Row
      /\ \A b \in 1..Len(batches) : batches[b] \in Batch
      BY <1>1, ElementOfSeq
<1> QED BY <1>2, <1>3 DEF TypeOK, Rows

\* persist inserts one row and supersedes the current one of its month.
LEMMA PersistedRows ==
    ASSUME TypeOK, NEW j \in Job, j.period \in Periods,
           rows' = Append(Superseded(j.period), NewRow(j))
    PROVE  /\ rows' \in Seq(Row) /\ Rows' = 1..(Len(rows) + 1)
           /\ rows'[Len(rows) + 1] = NewRow(j)
           /\ \A i \in Rows :
                 /\ rows'[i].period = rows[i].period
                 /\ rows'[i].replacing = rows[i].replacing
                 /\ rows'[i].members = rows[i].members
                 /\ rows[i].superseded => rows'[i].superseded
                 /\ rows[i].period = j.period => rows'[i].superseded
                 /\ rows[i].period # j.period => rows'[i] = rows[i]
<1> DEFINE old == Superseded(j.period)
<1>1. \A i \in Rows :
         /\ old[i] \in Row
         /\ old[i].period = rows[i].period
         /\ old[i].replacing = rows[i].replacing
         /\ old[i].members = rows[i].members
         /\ rows[i].superseded => old[i].superseded
         /\ rows[i].period = j.period => old[i].superseded
         /\ rows[i].period # j.period => old[i] = rows[i]
  <2> SUFFICES ASSUME NEW i \in Rows
               PROVE  /\ old[i] \in Row
                      /\ old[i].period = rows[i].period
                      /\ old[i].replacing = rows[i].replacing
                      /\ old[i].members = rows[i].members
                      /\ rows[i].superseded => old[i].superseded
                      /\ rows[i].period = j.period => old[i].superseded
                      /\ rows[i].period # j.period => old[i] = rows[i]
      OBVIOUS
  <2>1. rows[i] \in Row
        BY Kinds
  <2>2. CASE i \in Current(j.period)
    <3>1. old[i] = [rows[i] EXCEPT !.superseded = TRUE]
          BY <2>2 DEF Superseded
    <3> HIDE DEF old
    <3> QED BY <3>1, <2>1, <2>2 DEF Row, Current
  <2>3. CASE i \notin Current(j.period)
    <3>1. old[i] = rows[i]
          BY <2>3 DEF Superseded
    <3> HIDE DEF old
    <3> QED BY <3>1, <2>1, <2>3 DEF Current
  <2> QED BY <2>2, <2>3
<1>2. old \in [1..Len(rows) -> Row]
      BY <1>1, Kinds DEF Superseded
<1>3. old \in Seq(Row) /\ Len(old) = Len(rows)
  <2>1. old \in Seq(Row)
        BY <1>2, Kinds, SeqDef
  <2>2. DOMAIN old = 1..Len(rows) /\ DOMAIN old = 1..Len(old) /\ Len(old) \in Nat
        BY <1>2, <2>1, LenProperties
  <2> QED BY <2>1, <2>2, Kinds
<1>4. NewRow(j) \in Row
      BY DEF NewRow, Row, Job
<1>5. rows' = Append(old, NewRow(j))
      OBVIOUS
<1> HIDE DEF old
<1>6. /\ rows' \in Seq(Row) /\ Len(rows') = Len(rows) + 1
      /\ \A i \in 1..Len(rows) : rows'[i] = old[i]
      /\ rows'[Len(rows) + 1] = NewRow(j)
      BY <1>3, <1>4, <1>5, AppendProperties
<1>7. Rows' = 1..(Len(rows) + 1)
      BY <1>6, LenProperties DEF Rows
<1> QED BY <1>1, <1>6, <1>7, Kinds

-------------------------------------------------------------------------------
(***************************************************************************)
(* The steps.                                                              *)
(***************************************************************************)

\* What a step may do to the tables without disturbing the invocations that
\* do not take it: rows and batches keep what they say, the ERP forgets
\* nothing, and only the batch being exported gets another status.
Undisturbed(p) ==
    /\ \A i \in Rows : i \in Rows' /\ rows'[i].period = rows[i].period
                                   /\ rows'[i].members = rows[i].members
    /\ \A b \in DOMAIN batches :
          /\ b \in DOMAIN batches'
          /\ batches'[b].row = batches[b].row
          /\ batches'[b].members = batches[b].members
          /\ \/ batches'[b].status = batches[b].status
             \/ pc[p] \in Exporting /\ b = job[p].batch
    /\ delivered \subseteq delivered'

\* The other invocations are where they were, with what they had.
Moves(p) ==
    /\ \A q \in Researchers \ {p} : pc'[q] = pc[q] /\ job'[q] = job[q]

\* What the others have in memory stays true of the tables.
LEMMA OthersStay ==
    ASSUME Inv, NEW p \in Researchers, Undisturbed(p), Moves(p)
    PROVE  \A q \in Researchers \ {p} : StageOK(q)'
<1> SUFFICES ASSUME NEW q \in Researchers \ {p} PROVE StageOK(q)'
    OBVIOUS
<1>1. StageOK(q) /\ pc'[q] = pc[q] /\ job'[q] = job[q]
      BY DEF Inv, Moves
<1>2. pc[q] \in Exporting /\ pc[p] \in Exporting => job[q].batch # job[p].batch
      BY DEF Inv, OwnBatches
<1>3. /\ pc[q] \in {"reload"} \cup Exporting =>
            job[q].row \in Rows' /\ rows'[job[q].row].period = job[q].period
      /\ pc[q] \in Exporting =>
            /\ job[q].batch \in DOMAIN batches'
            /\ batches'[job[q].batch].row = job[q].row
      /\ pc[q] \in {"sent", "report"} => job[q].batch \in delivered'
      BY <1>1 DEF StageOK, Undisturbed
<1>4. pc[q] = "report" => batches'[job[q].batch].status = "exported"
      BY <1>1, <1>2 DEF StageOK, Undisturbed, Exporting
<1>5. /\ pc[q] # "idle" => job[q].period \in Periods
      /\ pc[q] = "persist" => Cardinality(job[q].members) = UniverseSize
      BY <1>1 DEF StageOK
<1> QED BY <1>1, <1>3, <1>4, <1>5 DEF StageOK, Rows

\* Two invocations do not come to share a batch when one of them takes a step
\* with the batch it had, or with a new one.
LEMMA BatchesStayOwn ==
    ASSUME Inv, NEW p \in Researchers, Moves(p),
           pc'[p] \in Exporting =>
              \/ pc[p] \in Exporting /\ job'[p].batch = job[p].batch
              \/ job'[p].batch \notin DOMAIN batches
    PROVE  OwnBatches'
<1> SUFFICES ASSUME NEW q \in Researchers, NEW r \in Researchers,
                    pc'[q] \in Exporting, pc'[r] \in Exporting,
                    job'[q].batch = job'[r].batch, q # r
             PROVE  FALSE
    BY DEF OwnBatches
<1>1. \A x \in Researchers \ {p} :
         pc'[x] \in Exporting =>
            /\ pc[x] \in Exporting /\ job'[x].batch = job[x].batch
            /\ job[x].batch \in DOMAIN batches
      BY DEF Inv, StageOK, Moves
<1>2. \A x, y \in Researchers :
         pc[x] \in Exporting /\ pc[y] \in Exporting /\ job[x].batch = job[y].batch
            => x = y
      BY DEF Inv, OwnBatches
<1>3. CASE q # p /\ r # p
      BY <1>1, <1>2, <1>3
<1>4. CASE q = p
      BY <1>1, <1>2, <1>4
<1>5. CASE r = p
      BY <1>1, <1>2, <1>5
<1> QED BY <1>3, <1>4, <1>5

\* A step that writes neither a row nor a batch.
LEMMA QuietStep ==
    ASSUME Inv, NEW p \in Researchers, NEW label \in Labels, NEW locals \in Job,
           pc' = [pc EXCEPT ![p] = label], job' = [job EXCEPT ![p] = locals],
           UNCHANGED <<rows, batches>>, calls' \in 0..MaxCalls,
           delivered \subseteq delivered', delivered' \subseteq DOMAIN batches,
           StageOK(p)',
           label \in Exporting => pc[p] \in Exporting /\ locals.batch = job[p].batch
    PROVE  Inv'
<1>1. pc \in [Researchers -> Labels] /\ job \in [Researchers -> Job]
      BY DEF Inv, TypeOK
<1>2. TypeOK'
      BY <1>1 DEF Inv, TypeOK
<1>3. Moves(p) /\ pc'[p] = label /\ job'[p] = locals
      BY <1>1 DEF Moves
<1>4. Undisturbed(p)
      BY DEF Undisturbed, Rows
<1>5. \A q \in Researchers : StageOK(q)'
      BY <1>3, <1>4, OthersStay
<1>6. OwnBatches'
      BY <1>3, BatchesStayOwn
<1>7. RowsOK' /\ BatchesOK' /\ OneChainPerMonth'
      BY DEF Inv, RowsOK, BatchesOK, OneChainPerMonth, Rows, Current
<1> QED BY <1>2, <1>5, <1>6, <1>7 DEF Inv

\* An invocation that ends, wherever it was.
LEMMA EndsStep ==
    ASSUME Inv, NEW p \in Researchers, Ends(p),
           UNCHANGED <<rows, batches, delivered, calls>>
    PROVE  Inv'
<1>1. NoJob \in Job /\ "idle" \in Labels
      BY DEF NoJob, Job, Labels
<1>2. pc' = [pc EXCEPT ![p] = "idle"] /\ job' = [job EXCEPT ![p] = NoJob]
      BY DEF Ends, Goto
<1>3. pc'[p] = "idle"
      BY <1>2 DEF Inv, TypeOK
<1>4. StageOK(p)' /\ "idle" \notin Exporting
      BY <1>3 DEF StageOK, Exporting
<1>5. calls' \in 0..MaxCalls /\ delivered \subseteq delivered' /\ delivered' \subseteq DOMAIN batches
      BY DEF Inv, TypeOK
<1> QED BY <1>1, <1>2, <1>4, <1>5, QuietStep

\* Begin looks at the current row of its month and keeps nothing else of it.
LEMMA BeginStep ==
    ASSUME Inv, NEW p \in Researchers, Begin(p)
    PROVE  Inv'
<1>1. PICK period \in Periods, force \in BOOLEAN :
         LET existing == Current(period)
             begun == [NoJob EXCEPT !.period = period]
         IN  IF existing # {} /\ ~force
             THEN /\ \E i \in existing :
                        job' = [job EXCEPT ![p] = [begun EXCEPT !.row = i]]
                  /\ Goto(p, "reload")
             ELSE /\ job' = [job EXCEPT ![p] = [begun EXCEPT !.replace = existing # {}]]
                  /\ Goto(p, "ask")
      BY DEF Begin
<1> DEFINE begun == [NoJob EXCEPT !.period = period]
<1>2. begun \in Job /\ begun.period = period
      BY DEF NoJob, Job
<1>3. /\ calls' \in 0..MaxCalls /\ UNCHANGED <<rows, batches>>
      /\ delivered \subseteq delivered' /\ delivered' \subseteq DOMAIN batches
  <2>1. /\ calls \in 0..MaxCalls /\ MaxCalls \in Nat /\ calls < MaxCalls
        /\ calls' = calls + 1 /\ UNCHANGED <<rows, batches, delivered>>
        /\ delivered \subseteq DOMAIN batches
        BY ResearchAssumption, Zenon DEF Inv, TypeOK, Begin
  <2> QED BY <2>1
<1>4. job \in [Researchers -> Job] /\ pc \in [Researchers -> Labels]
      BY DEF Inv, TypeOK
<1>5. {"reload", "ask"} \subseteq Labels /\ "reload" \notin Exporting /\ "ask" \notin Exporting
      BY DEF Labels, Exporting
<1>6. ASSUME NEW i \in Current(period), Goto(p, "reload"),
             job' = [job EXCEPT ![p] = [begun EXCEPT !.row = i]]
      PROVE  Inv'
  <2> DEFINE locals == [begun EXCEPT !.row = i]
  <2>1. i \in Rows /\ i \in Nat /\ rows[i].period = period
        BY Kinds DEF Inv, Current
  <2>2. locals \in Job /\ locals.period = period /\ locals.row = i
    <3> HIDE DEF begun
    <3> QED BY <1>2, <2>1 DEF Job
  <2>3. job' = [job EXCEPT ![p] = locals] /\ pc' = [pc EXCEPT ![p] = "reload"]
        BY <1>6 DEF Goto
  <2> HIDE DEF begun, locals
  <2>4. job'[p] = locals /\ pc'[p] = "reload"
        BY <2>3, <1>4
  <2>5. StageOK(p)'
        BY <2>1, <2>2, <2>4, <1>3 DEF StageOK, Rows, Exporting
  <2> QED BY <1>3, <1>5, <2>2, <2>3, <2>5, QuietStep
<1>7. ASSUME Goto(p, "ask"),
             job' = [job EXCEPT ![p] = [begun EXCEPT !.replace = Current(period) # {}]]
      PROVE  Inv'
  <2> DEFINE locals == [begun EXCEPT !.replace = Current(period) # {}]
  <2>1. locals \in Job /\ locals.period = period
    <3> HIDE DEF begun
    <3> QED BY <1>2 DEF Job
  <2>2. job' = [job EXCEPT ![p] = locals] /\ pc' = [pc EXCEPT ![p] = "ask"]
        BY <1>7 DEF Goto
  <2> HIDE DEF begun, locals
  <2>3. job'[p] = locals /\ pc'[p] = "ask"
        BY <2>2, <1>4
  <2>4. StageOK(p)'
        BY <2>1, <2>3 DEF StageOK, Exporting
  <2> QED BY <1>3, <1>5, <2>1, <2>2, <2>4, QuietStep
<1> QED BY <1>1, <1>6, <1>7

\* An answer is accepted, or asked for again.
LEMMA AskStep ==
    ASSUME Inv, NEW p \in Researchers, Accept(p) \/ Repair(p)
    PROVE  Inv'
<1>1. /\ job \in [Researchers -> Job] /\ pc \in [Researchers -> Labels]
      /\ StageOK(p) /\ pc[p] = "ask"
      BY DEF Inv, TypeOK, Accept, Repair
<1>2. job[p] \in Job /\ job[p].period \in Periods
      BY <1>1 DEF StageOK
<1>3. /\ calls' \in 0..MaxCalls /\ UNCHANGED <<rows, batches>>
      /\ delivered \subseteq delivered' /\ delivered' \subseteq DOMAIN batches
      BY DEF Inv, TypeOK, Accept, Repair
<1>4. {"persist", "ask"} \subseteq Labels /\ "persist" \notin Exporting /\ "ask" \notin Exporting
      BY DEF Labels, Exporting
<1>5. CASE Accept(p)
  <2>1. PICK raw \in Answers : Valid(raw) /\ job' = [job EXCEPT ![p].members = Tickers(raw)]
        BY <1>5 DEF Accept
  <2>2. raw \in Seq(Stock)
        BY ResearchAssumption
  <2>3. \A i \in DOMAIN raw : raw[i] \in Stock
        BY <2>2, LenProperties, ElementOfSeq
  <2>4. Tickers(raw) \subseteq Symbols /\ Cardinality(Tickers(raw)) = UniverseSize
        BY <2>1, <2>3 DEF Valid, Tickers, Stock
  <2> DEFINE locals == [job[p] EXCEPT !.members = Tickers(raw)]
  <2>5. locals \in Job /\ locals.period \in Periods /\ locals.members = Tickers(raw)
        BY <1>2, <2>4 DEF Job
  <2>6. job' = [job EXCEPT ![p] = locals] /\ pc' = [pc EXCEPT ![p] = "persist"]
        BY <1>5, <2>1, <1>1 DEF Accept, Goto
  <2> HIDE DEF locals
  <2>7. job'[p] = locals /\ pc'[p] = "persist"
        BY <2>6, <1>1
  <2>8. StageOK(p)'
        BY <2>4, <2>5, <2>7 DEF StageOK, Exporting
  <2> QED BY <1>3, <1>4, <2>5, <2>6, <2>8, QuietStep
<1>6. CASE Repair(p)
  <2> DEFINE locals == [job[p] EXCEPT !.attempts = job[p].attempts + 1]
  <2>1. locals \in Job /\ locals.period \in Periods
        BY <1>2 DEF Job
  <2>2. job' = [job EXCEPT ![p] = locals] /\ pc' = [pc EXCEPT ![p] = "ask"]
        BY <1>6, <1>1 DEF Repair
  <2> HIDE DEF locals
  <2>3. job'[p] = locals /\ pc'[p] = "ask"
        BY <2>2, <1>1
  <2>4. StageOK(p)'
        BY <2>1, <2>3 DEF StageOK, Exporting
  <2> QED BY <1>3, <1>4, <2>1, <2>2, <2>4, QuietStep
<1> QED BY <1>5, <1>6

\* The ERP gets the batch, or the transport fails.
LEMMA SendStep ==
    ASSUME Inv, NEW p \in Researchers, Send(p) \/ SendFails(p)
    PROVE  Inv'
<1>1. /\ job \in [Researchers -> Job] /\ pc \in [Researchers -> Labels]
      /\ StageOK(p) /\ pc[p] = "send" /\ delivered \subseteq DOMAIN batches
      /\ calls \in 0..MaxCalls
      BY DEF Inv, TypeOK, Send, SendFails
<1>2. /\ job[p] \in Job /\ job[p].batch \in DOMAIN batches
      BY <1>1 DEF StageOK, Exporting
<1>3. /\ UNCHANGED <<rows, batches, calls, job>>
      /\ delivered \subseteq delivered' /\ delivered' \subseteq DOMAIN batches
      BY <1>1, <1>2 DEF Send, SendFails
<1>4. PICK label \in {"sent", "unsent"} :
         /\ pc' = [pc EXCEPT ![p] = label]
         /\ label = "sent" => job[p].batch \in delivered'
      BY DEF Send, SendFails, Goto
<1>5. label \in Labels /\ label \in Exporting /\ pc[p] \in Exporting
      BY <1>1 DEF Labels, Exporting
<1>6. job' = [job EXCEPT ![p] = job[p]] /\ job'[p] = job[p] /\ pc'[p] = label
      BY <1>1, <1>3, <1>4
<1>7. StageOK(p)'
      BY <1>1, <1>3, <1>4, <1>5, <1>6 DEF StageOK, Exporting, Rows
<1> QED BY <1>1, <1>2, <1>3, <1>4, <1>5, <1>6, <1>7, QuietStep

\* A batch for the stored universe is built.
LEMMA ExportPendingStep ==
    ASSUME Inv, NEW p \in Researchers, ExportPending(p)
    PROVE  Inv'
<1> DEFINE batch == [row |-> job[p].row, members |-> rows[job[p].row].members,
                     status |-> "pending"]
           locals == [job[p] EXCEPT !.batch = Len(batches) + 1]
<1>1. /\ job \in [Researchers -> Job] /\ pc \in [Researchers -> Labels]
      /\ StageOK(p) /\ pc[p] = "reload" /\ TypeOK /\ job[p] \in Job
      BY DEF Inv, TypeOK, ExportPending
<1>2. /\ job[p].period \in Periods /\ job[p].row \in Rows
      /\ rows[job[p].row].period = job[p].period
      BY <1>1 DEF StageOK
<1>3. batch \in Batch /\ batch.row = job[p].row
         /\ batch.members = rows[job[p].row].members
  <2>1. job[p].row \in Nat /\ rows[job[p].row] \in Row
        BY <1>1, <1>2, Kinds DEF Job
  <2>2. rows[job[p].row].members \in SUBSET Symbols
        BY <2>1 DEF Row
  <2> QED BY <2>1, <2>2 DEF Batch
<1>4. /\ locals \in Job /\ locals.period = job[p].period
      /\ locals.row = job[p].row /\ locals.batch = Len(batches) + 1
  <2>1. Len(batches) + 1 \in Nat
        BY <1>1, Kinds
  <2> QED BY <1>1, <2>1 DEF Job
<1>5. /\ batches' = Append(batches, batch) /\ UNCHANGED <<rows, delivered, calls>>
      /\ pc' = [pc EXCEPT ![p] = "send"] /\ job' = [job EXCEPT ![p] = locals]
      BY <1>1 DEF ExportPending, Goto
<1> HIDE DEF batch, locals
<1>6. /\ batches' \in Seq(Batch) /\ Len(batches') = Len(batches) + 1
      /\ \A b \in 1..Len(batches) : batches'[b] = batches[b]
      /\ batches'[Len(batches) + 1] = batch
      BY <1>1, <1>3, <1>5, AppendProperties DEF TypeOK
<1>7. DOMAIN batches' = 1..(Len(batches) + 1)
      BY <1>6, LenProperties
<1>8. \A b \in DOMAIN batches' :
         \/ b \in DOMAIN batches /\ batches'[b] = batches[b]
         \/ b = Len(batches) + 1 /\ b \notin DOMAIN batches /\ batches'[b] = batch
      BY <1>1, <1>6, <1>7, Kinds
<1>9. Len(batches) + 1 \in DOMAIN batches' /\ DOMAIN batches \subseteq DOMAIN batches'
      BY <1>1, <1>7, Kinds
<1>10. Moves(p) /\ pc'[p] = "send" /\ job'[p] = locals
       BY <1>1, <1>5 DEF Moves
<1>11. "send" \in Labels /\ "send" \in Exporting
       BY DEF Labels, Exporting
<1>12. TypeOK'
       BY <1>1, <1>4, <1>5, <1>6, <1>9, <1>11 DEF TypeOK
<1>13. StageOK(p)'
       BY <1>2, <1>3, <1>4, <1>5, <1>6, <1>9, <1>10 DEF StageOK, Rows, Exporting
<1>14. Undisturbed(p)
       BY <1>1, <1>5, <1>6, <1>9, Kinds DEF Undisturbed, Rows
<1>15. \A q \in Researchers : StageOK(q)'
       BY <1>10, <1>13, <1>14, OthersStay
<1>16. OwnBatches'
       BY <1>1, <1>4, <1>8, <1>9, <1>10, Kinds, BatchesStayOwn
<1>17. BatchesOK'
       BY <1>2, <1>3, <1>5, <1>8 DEF Inv, BatchesOK, Rows
<1>18. RowsOK' /\ OneChainPerMonth'
       BY <1>5 DEF Inv, RowsOK, OneChainPerMonth, Rows, Current
<1> QED BY <1>12, <1>15, <1>16, <1>17, <1>18 DEF Inv

\* The export marks its own batch.
LEMMA MarkStep ==
    ASSUME Inv, NEW p \in Researchers, DeadLetter(p) \/ MarkExported(p)
    PROVE  Inv'
<1>1. /\ job \in [Researchers -> Job] /\ pc \in [Researchers -> Labels]
      /\ StageOK(p) /\ TypeOK /\ job[p] \in Job
      /\ pc[p] \in {"unsent", "sent"}
      BY DEF Inv, TypeOK, DeadLetter, MarkExported
<1>2. /\ pc[p] \in Exporting /\ job[p].batch \in DOMAIN batches
      /\ job[p].period \in Periods /\ job[p].row \in Rows
      /\ rows[job[p].row].period = job[p].period
      /\ batches[job[p].batch].row = job[p].row
      /\ pc[p] = "sent" => job[p].batch \in delivered
      BY <1>1 DEF StageOK, Exporting
<1>3. UNCHANGED <<rows, delivered, calls>>
      BY DEF DeadLetter, MarkExported
<1>4. PICK status \in {"dead_letter", "exported"} :
         /\ batches' = [batches EXCEPT ![job[p].batch].status = status]
         /\ \/ pc' = [pc EXCEPT ![p] = "idle"] /\ job' = [job EXCEPT ![p] = NoJob]
            \/ /\ status = "exported" /\ pc[p] = "sent"
               /\ pc' = [pc EXCEPT ![p] = "report"] /\ job' = job
      BY DEF DeadLetter, MarkExported, SetStatus, Ends, Goto
<1> DEFINE marked == [batches[job[p].batch] EXCEPT !.status = status]
<1>5. batches[job[p].batch] \in Batch
      BY <1>1, <1>2, Kinds
<1>6. /\ marked \in Batch /\ marked.status = status
      /\ marked.row = batches[job[p].batch].row
      /\ marked.members = batches[job[p].batch].members
      BY <1>5 DEF Batch
<1>7. batches' = [batches EXCEPT ![job[p].batch] = marked]
      BY <1>4
<1> HIDE DEF marked
<1>8. /\ batches' \in Seq(Batch) /\ Len(batches') = Len(batches)
      /\ \A b \in 1..Len(batches) :
            batches'[b] = IF b = job[p].batch THEN marked ELSE batches[b]
      BY <1>1, <1>2, <1>6, <1>7, Kinds, ExceptSeq DEF TypeOK
<1>9. DOMAIN batches' = DOMAIN batches
      BY <1>7
<1>10. \A b \in DOMAIN batches :
          /\ batches'[b].row = batches[b].row
          /\ batches'[b].members = batches[b].members
          /\ b # job[p].batch => batches'[b].status = batches[b].status
          /\ b = job[p].batch => batches'[b].status = status
       BY <1>1, <1>6, <1>8, Kinds
<1>11. Undisturbed(p)
       BY <1>2, <1>3, <1>9, <1>10 DEF Undisturbed, Rows
<1>12. BatchesOK' /\ RowsOK' /\ OneChainPerMonth'
       BY <1>3, <1>9, <1>10 DEF Inv, BatchesOK, RowsOK, OneChainPerMonth, Rows, Current
<1>13. NoJob \in Job /\ {"idle", "report"} \subseteq Labels
       BY DEF NoJob, Job, Labels
<1>14. TypeOK' /\ Moves(p)
  <2>1. /\ pc' \in [Researchers -> Labels] /\ job' \in [Researchers -> Job]
        /\ Moves(p)
    <3>1. CASE pc' = [pc EXCEPT ![p] = "idle"] /\ job' = [job EXCEPT ![p] = NoJob]
          BY <3>1, <1>1, <1>13 DEF Moves
    <3>2. CASE pc' = [pc EXCEPT ![p] = "report"] /\ job' = job
          BY <3>2, <1>1, <1>13 DEF Moves
    <3> QED BY <1>4, <3>1, <3>2
  <2> QED BY <2>1, <1>1, <1>3, <1>8, <1>9 DEF TypeOK
<1>15. \/ pc'[p] = "idle"
       \/ pc'[p] = "report" /\ job'[p] = job[p] /\ status = "exported" /\ pc[p] = "sent"
  <2>1. CASE pc' = [pc EXCEPT ![p] = "idle"]
        BY <2>1, <1>1
  <2>2. CASE pc' = [pc EXCEPT ![p] = "report"] /\ job' = job /\ status = "exported"
                /\ pc[p] = "sent"
        BY <2>2, <1>1
  <2> QED BY <1>4, <2>1, <2>2
<1>16. StageOK(p)'
       BY <1>2, <1>3, <1>9, <1>10, <1>15 DEF StageOK, Rows, Exporting
<1>17. \A q \in Researchers : StageOK(q)'
       BY <1>11, <1>14, <1>16, OthersStay
<1>18. OwnBatches'
       BY <1>2, <1>14, <1>15, BatchesStayOwn DEF Exporting
<1> QED BY <1>12, <1>14, <1>17, <1>18 DEF Inv

\* A universe is stored.
LEMMA PersistStep ==
    ASSUME Inv, NEW p \in Researchers, Persist(p)
    PROVE  Inv'
<1> DEFINE j == job[p]
           id == Len(rows) + 1
           locals == Stored(j, id)
<1>1. /\ job \in [Researchers -> Job] /\ pc \in [Researchers -> Labels]
      /\ StageOK(p) /\ pc[p] = "persist" /\ TypeOK /\ j \in Job
      /\ j.replace \/ Current(j.period) = {}
      BY DEF Inv, TypeOK, Persist
<1>2. j.period \in Periods /\ Cardinality(j.members) = UniverseSize
      BY <1>1 DEF StageOK
<1>3. /\ rows' = Append(Superseded(j.period), NewRow(j))
      /\ UNCHANGED <<batches, delivered, calls>>
      /\ pc' = [pc EXCEPT ![p] = "reload"] /\ job' = [job EXCEPT ![p] = locals]
      BY <1>1 DEF Persist, Goto
<1>4. id \in Nat /\ Rows = 1..Len(rows) /\ id \notin Rows /\ Len(rows) \in Nat
      BY <1>1, Kinds
<1>5. locals \in Job /\ locals.period = j.period /\ locals.row = id
      BY <1>2, <1>4 DEF Stored, NoJob, Job
<1>6. /\ NewRow(j).period = j.period /\ ~NewRow(j).superseded
      /\ NewRow(j).replacing = j.replace /\ NewRow(j).members = j.members
      BY DEF NewRow
<1> HIDE DEF j, locals
<1>7. /\ rows' \in Seq(Row) /\ Rows' = 1..id /\ rows'[id] = NewRow(j)
      /\ \A i \in Rows :
            /\ rows'[i].period = rows[i].period
            /\ rows'[i].replacing = rows[i].replacing
            /\ rows'[i].members = rows[i].members
            /\ rows[i].superseded => rows'[i].superseded
            /\ rows[i].period = j.period => rows'[i].superseded
            /\ rows[i].period # j.period => rows'[i] = rows[i]
      BY <1>1, <1>2, <1>3, PersistedRows
<1> HIDE DEF id
<1>8. \A i \in Rows' : i \in Rows \/ i = id
      BY <1>4, <1>7 DEF id
<1>9. id \in Rows' /\ \A i \in Rows : i \in Rows' /\ i < id
      BY <1>4, <1>7 DEF id
<1>10. Moves(p) /\ pc'[p] = "reload" /\ job'[p] = locals
       BY <1>1, <1>3 DEF Moves
<1>11. "reload" \in Labels /\ "reload" \notin Exporting
       BY DEF Labels, Exporting
<1>12. TypeOK'
       BY <1>1, <1>3, <1>5, <1>7, <1>11 DEF TypeOK
<1>13. StageOK(p)'
       BY <1>2, <1>5, <1>6, <1>7, <1>9, <1>10 DEF StageOK, Exporting
<1>14. Undisturbed(p)
       BY <1>3, <1>7, <1>9 DEF Undisturbed
<1>15. \A q \in Researchers : StageOK(q)'
       BY <1>10, <1>13, <1>14, OthersStay
<1>16. OwnBatches'
       BY <1>10, <1>11, BatchesStayOwn
<1>17. BatchesOK'
       BY <1>3, <1>7, <1>9 DEF Inv, BatchesOK
<1>18. RowsOK'
  <2> SUFFICES ASSUME NEW i \in Rows'
               PROVE  /\ Cardinality(rows'[i].members) = UniverseSize
                      /\ \E k \in Rows' : rows'[k].period = rows'[i].period
                                          /\ ~rows'[k].superseded
      BY DEF RowsOK, Current
  <2>1. CASE rows'[i].period = j.period
        BY <2>1, <1>2, <1>6, <1>7, <1>8, <1>9 DEF Inv, RowsOK
  <2>2. CASE rows'[i].period # j.period
    <3>1. i \in Rows /\ rows'[i] = rows[i] /\ rows[i].period # j.period
          BY <2>2, <1>6, <1>7, <1>8
    <3>2. PICK k \in Rows : rows[k].period = rows[i].period /\ ~rows[k].superseded
          BY <3>1 DEF Inv, RowsOK, Current
    <3>3. rows'[k] = rows[k] /\ k \in Rows'
          BY <3>1, <3>2, <1>7, <1>9
    <3> QED BY <3>1, <3>2, <3>3 DEF Inv, RowsOK
  <2> QED BY <2>1, <2>2
<1>19. OneChainPerMonth'
  <2> SUFFICES ASSUME NEW i \in Rows', NEW k \in Rows', i < k,
                      rows'[i].period = rows'[k].period
               PROVE  rows'[i].superseded /\ rows'[k].replacing
      BY DEF OneChainPerMonth
  <2>1. i \in Rows
        BY <1>4, <1>7, <1>8, <1>9
  <2>2. CASE k \in Rows
        BY <2>1, <2>2, <1>7 DEF Inv, OneChainPerMonth
  <2>3. CASE k = id
    <3>1. rows[i].period = j.period
          BY <2>1, <2>3, <1>6, <1>7
    <3>2. Current(j.period) # {}
          BY <2>1, <3>1 DEF Inv, RowsOK
    <3>3. j.replace
          BY <3>2, <1>1 DEF j
    <3> QED BY <2>1, <2>3, <3>1, <3>3, <1>6, <1>7
  <2> QED BY <2>2, <2>3, <1>8
<1> QED BY <1>12, <1>15, <1>16, <1>17, <1>18, <1>19 DEF Inv

\* Every step keeps the invariant.
LEMMA InvStep == Inv /\ [Next]_researchVars => Inv'
<1> SUFFICES ASSUME Inv, [Next]_researchVars PROVE Inv'
    OBVIOUS
<1>1. ASSUME NEW p \in Researchers, Run(p) PROVE Inv'
  <2>1. CASE Accept(p) \/ Repair(p)
        BY <2>1, AskStep
  <2>2. CASE GiveUp(p) \/ PersistConflict(p) \/ Report(p)
        BY <2>2, EndsStep DEF GiveUp, PersistConflict, Report
  <2>3. CASE Persist(p)
        BY <2>3, PersistStep
  <2>4. CASE ExportPending(p)
        BY <2>4, ExportPendingStep
  <2>5. CASE Send(p) \/ SendFails(p)
        BY <2>5, SendStep
  <2>6. CASE DeadLetter(p) \/ MarkExported(p)
        BY <2>6, MarkStep
  <2> QED BY <1>1, <2>1, <2>2, <2>3, <2>4, <2>5, <2>6 DEF Run
<1>2. ASSUME NEW p \in Researchers, Crash(p) PROVE Inv'
      BY <1>2, EndsStep DEF Crash
<1>3. CASE UNCHANGED researchVars
      BY <1>3 DEF researchVars, Inv, TypeOK, StageOK, OwnBatches, RowsOK, BatchesOK,
         OneChainPerMonth, Rows, Current
<1> QED BY <1>1, <1>2, <1>3, BeginStep DEF Next

\* At first nothing is researched.
LEMMA InvInit == Init => Inv
<1> SUFFICES ASSUME Init PROVE Inv
    OBVIOUS
<1>1. /\ <<>> \in Seq(Row) /\ <<>> \in Seq(Batch) /\ DOMAIN <<>> = {}
      /\ 0 \in 0..MaxCalls /\ NoJob \in Job /\ "idle" \in Labels
      BY EmptySeq, ResearchAssumption DEF NoJob, Job, Labels
<1>2. TypeOK
      BY <1>1 DEF Init, TypeOK
<1>3. Rows = {} /\ DOMAIN batches = {}
      BY <1>1 DEF Init, Rows
<1>4. RowsOK /\ BatchesOK /\ OneChainPerMonth
      BY <1>3 DEF RowsOK, BatchesOK, OneChainPerMonth
<1>5. \A p \in Researchers : pc[p] = "idle"
      BY DEF Init
<1> QED BY <1>2, <1>4, <1>5 DEF Inv, StageOK, OwnBatches, Exporting

\* The invariant holds for ever.
LEMMA InvAlways == Spec => []Inv
BY InvInit, InvStep, PTL DEF Spec

-------------------------------------------------------------------------------
(***************************************************************************)
(* The active universe.                                                    *)
(***************************************************************************)

Month == IF Active = 0 THEN 0 ELSE rows[Active].period
Members == IF Active = 0 THEN {} ELSE rows[Active].members

\* MonthlyUniverse counts as FiniteSets does.
LEMMA SameCardinality == \A S : MU!Cardinality(S) = Cardinality(S)
BY DEF MU!Cardinality, Cardinality

\* There is one active row: the current one of the latest month researched.
OneActive ==
    /\ Active \in Completed /\ Active # 0
    /\ \A i \in Completed : rows[i].period <= rows[Active].period
    /\ \A i \in Completed : rows[i].period = rows[Active].period => i = Active

\* Where any month is researched, Active finds that row.
LEMMA ActiveIsLatest == Inv => (Completed # {} => OneActive)
<1> SUFFICES ASSUME Inv, Completed # {} PROVE OneActive
    OBVIOUS
<1>1. /\ Rows = 1..Len(rows) /\ Len(rows) \in Nat
      /\ \A i \in Rows : rows[i].period \in 1..NPeriods
      BY Kinds DEF Inv, Row, Periods
<1>2. Completed \subseteq Rows
      BY DEF Completed
<1> DEFINE Months == {rows[i].period : i \in Completed}
<1>3. \E x \in Months : \A y \in Months : y <= x
  <2>1. NPeriods \in Nat
        BY ResearchAssumption
  <2>2. \A i \in Completed : rows[i].period \in 0..NPeriods
        BY <2>1, <1>1, <1>2
  <2>3. Months \in SUBSET (0..NPeriods) /\ Months # {}
        BY <2>2
  <2> HIDE DEF Months
  <2> QED BY <2>1, <2>3, GreatestNatural
<1>4. \E i \in Completed : \A k \in Completed : rows[k].period <= rows[i].period
      BY <1>3
<1>5. /\ Active \in Completed
      /\ \A i \in Completed : rows[i].period <= rows[Active].period
      BY <1>4 DEF Active
<1>6. \A i, k \in Completed : rows[i].period = rows[k].period => ~(i < k)
      BY <1>2 DEF Inv, OneChainPerMonth, Completed
<1> QED BY <1>1, <1>2, <1>5, <1>6 DEF OneActive

\* The same after a step.
LEMMA ActiveStaysLatest == Inv' => (Completed # {} => OneActive)'
BY ActiveIsLatest, PTL

\* Only persist changes the active universe, and it never goes back a month.
LEMMA PublishStep ==
    ASSUME Inv, Inv', NEW p \in Researchers, Persist(p)
    PROVE  [MU!Publish]_<<Month, Members>>
<1> DEFINE j == job[p]
           id == Len(rows) + 1
<1>1. /\ TypeOK /\ j \in Job /\ j.period \in Periods
      /\ Cardinality(j.members) = UniverseSize
      /\ rows' = Append(Superseded(j.period), NewRow(j))
      BY DEF Inv, TypeOK, StageOK, Persist
<1>2. /\ NewRow(j).period = j.period /\ ~NewRow(j).superseded
      /\ NewRow(j).members = j.members
      BY DEF NewRow
<1>3. /\ Rows = 1..Len(rows) /\ Len(rows) \in Nat
      /\ \A i \in Rows : rows[i] \in Row
      BY <1>1, Kinds
<1>4. j.members \in SUBSET Symbols
      BY <1>1 DEF Job
<1> HIDE DEF j
<1>5. /\ Rows' = 1..id /\ rows'[id] = NewRow(j)
      /\ \A i \in Rows :
            /\ rows[i].superseded => rows'[i].superseded
            /\ rows[i].period = j.period => rows'[i].superseded
            /\ rows[i].period # j.period => rows'[i] = rows[i]
      BY <1>1, PersistedRows
<1>6. \A i \in Rows' : i \in Rows \/ i = id
      BY <1>3, <1>5
<1>7. id \in Rows' /\ id # 0 /\ Rows \subseteq Rows'
      BY <1>3, <1>5
<1> HIDE DEF id
<1>8. /\ id \in Completed'
      /\ \A i \in Completed' : i = id \/ (i \in Completed /\ rows'[i] = rows[i]
                                          /\ rows[i].period # j.period)
      BY <1>2, <1>5, <1>6, <1>7 DEF Completed
<1>9. /\ Active' \in Completed' /\ Active' # 0
      /\ \A i \in Completed' : rows'[i].period <= rows'[Active'].period
      /\ \A i \in Completed' : rows'[i].period = rows'[Active'].period => i = Active'
  <2>1. Completed' # {}
        BY <1>8
  <2> QED BY <2>1, ActiveStaysLatest DEF OneActive
<1>10. CASE Active' = id
  <2>1. Month' = j.period /\ Members' = j.members
        BY <1>2, <1>5, <1>9, <1>10 DEF Month, Members
  <2>2. Month <= j.period
    <3>1. CASE Completed = {}
          BY <3>1, <1>1 DEF Month, Active, Periods
    <3>2. CASE Completed # {}
      <4>1. Active \in Completed /\ Active \in Rows /\ Month = rows[Active].period
            BY <3>2, ActiveIsLatest DEF Month, Completed, OneActive
      <4>2. CASE rows[Active].period = j.period
            BY <4>1, <4>2, <1>1 DEF Periods
      <4>3. CASE rows[Active].period # j.period
        <5>1. Active \in Completed' /\ rows'[Active].period = rows[Active].period
              BY <4>1, <4>3, <1>5, <1>7 DEF Completed
        <5> QED BY <4>1, <5>1, <1>2, <1>5, <1>9, <1>10
      <4> QED BY <4>2, <4>3
    <3> QED BY <3>1, <3>2
  <2>3. /\ Month' \in 1..NPeriods /\ Month' >= Month
        /\ Members' \in SUBSET Symbols /\ Cardinality(Members') = UniverseSize
        BY <2>1, <2>2, <1>1, <1>4 DEF Periods
  <2>4. MU!Cardinality(Members') = UniverseSize
        BY <2>3, SameCardinality
  <2> QED BY <2>3, <2>4 DEF MU!Publish, Month, Members
<1>11. CASE Active' # id
  <2>1. /\ Active' \in Completed /\ rows'[Active'] = rows[Active']
        /\ Active' \in Rows
        BY <1>8, <1>9, <1>11 DEF Completed
  <2>2. /\ Active \in Completed /\ Active # 0
        /\ \A i \in Completed : rows[i].period <= rows[Active].period
        /\ \A i \in Completed : rows[i].period = rows[Active].period => i = Active
        BY <2>1, ActiveIsLatest DEF OneActive
  <2>3. Active \in Rows /\ rows[Active].period \in Nat /\ rows[Active'].period \in Nat
           /\ j.period \in Nat
        BY <2>1, <2>2, <1>1, <1>3 DEF Completed, Row, Periods
  <2>4. j.period <= rows[Active'].period
        BY <1>2, <1>5, <1>8, <1>9, <2>1
  <2>5. rows[Active].period # j.period
        BY <1>8, <1>9, <1>11, <2>1, <2>2, <2>3, <2>4
  <2>6. Active \in Completed' /\ rows'[Active] = rows[Active]
        BY <2>2, <2>3, <2>5, <1>5, <1>7 DEF Completed
  <2>7. rows[Active].period = rows[Active'].period
        BY <2>1, <2>2, <2>3, <2>6, <1>9
  <2>8. Active' = Active
        BY <2>1, <2>2, <2>7
  <2> QED BY <2>1, <2>2, <2>8, <1>9 DEF Month, Members
<1> QED BY <1>10, <1>11

\* Every other step leaves it alone.
LEMMA RefinementStep == Inv /\ Inv' /\ [Next]_researchVars => [MU!Publish]_<<Month, Members>>
<1> SUFFICES ASSUME Inv, Inv', [Next]_researchVars
             PROVE  [MU!Publish]_<<Month, Members>>
    OBVIOUS
<1>1. CASE \E p \in Researchers : Persist(p)
      BY <1>1, PublishStep
<1>2. CASE UNCHANGED rows
      BY <1>2 DEF Month, Members, Active, Completed, Rows
<1>3. (\E p \in Researchers : Persist(p)) \/ UNCHANGED rows
      BY DEF Next, Begin, Run, Crash, Accept, Repair, GiveUp, PersistConflict,
         ExportPending, Send, SendFails, DeadLetter, MarkExported, Report, researchVars
<1> QED BY <1>1, <1>2, <1>3

-------------------------------------------------------------------------------
(***************************************************************************)
(* The theorems.                                                           *)
(***************************************************************************)

\* The types of the tables and of what invocations hold in memory.
THEOREM ResearchTypes == Spec => []TypeOK
<1>1. Inv => TypeOK
      BY DEF Inv
<1> QED BY <1>1, InvAlways, PTL

\* persist's transaction: however many invocations found the month without a
\* universe, or the same one to replace, each later one replaces the earlier.
THEOREM OneChain == Spec => []OneChainPerMonth
<1>1. Inv => OneChainPerMonth
      BY DEF Inv
<1> QED BY <1>1, InvAlways, PTL

\* What the ERP was told of a universe stays what the database has.
THEOREM ErpHasStored == Spec => []ErpUniversesAreStored
<1>1. Inv => ErpUniversesAreStored
      BY DEF Inv, TypeOK, RowsOK, BatchesOK, ErpUniversesAreStored
<1> QED BY <1>1, InvAlways, PTL

\* A command that reports success has exported a universe of its month.
THEOREM ReportsAreTrue == Spec => []ReportedIsDelivered
<1>1. Inv => ReportedIsDelivered
      BY DEF Inv, StageOK, Exporting, ReportedIsDelivered
<1> QED BY <1>1, InvAlways, PTL

\* Storage.active_universe over any interleaving of research commands: the
\* active universe is replaced whole, never by one of an earlier month.
THEOREM ActiveUniverse == Spec => ImplementsMonthlyUniverse
<1>1. Init => MU!Init
  <2> SUFFICES ASSUME Init PROVE MU!Init
      OBVIOUS
  <2>1. Completed = {}
        BY DEF Init, Completed, Rows
  <2>2. Active = 0
        BY <2>1 DEF Active
  <2> QED BY <2>2 DEF MU!Init
<1>2. Inv /\ Inv' /\ [Next]_researchVars => [MU!Publish]_MU!monthlyVars
      BY RefinementStep DEF MU!monthlyVars, Month, Members
<1> QED BY <1>1, <1>2, InvAlways, PTL DEF Spec, ImplementsMonthlyUniverse, MU!Spec
===============================================================================
