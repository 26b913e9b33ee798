--------------------------- MODULE ResearchProperties ---------------------------
(***************************************************************************)
(* What monthly research must keep true.                                   *)
(***************************************************************************)
EXTENDS UniverseResearch

Labels == {"idle", "ask", "persist", "reload", "send", "unsent", "sent", "report"}

Job == [period : Periods \cup {0}, replace : BOOLEAN, attempts : Nat,
        members : SUBSET Symbols, row : Nat, batch : Nat]

\* Every variable holds a value of the kind its table column or local has.
TypeOK ==
    /\ rows \in Seq(Row)
    /\ batches \in Seq(Batch)
    /\ delivered \subseteq DOMAIN batches
    /\ calls \in 0..MaxCalls
    /\ pc \in [Researchers -> Labels]
    /\ job \in [Researchers -> Job]

\* The universes of a month form one chain: only the one inserted last is
\* current, every earlier one is superseded, and every one but the first was
\* researched to replace one (persist's transaction against two invocations
\* that both found no row, or both found the same one to replace).
OneChainPerMonth ==
    \A i, j \in Rows :
        (i < j /\ rows[i].period = rows[j].period) => rows[i].superseded /\ rows[j].replacing

\* What the ERP was told of a universe stays what the database says of it:
\* superseding keeps the row and its members (cli.py reloads what it exports,
\* and another invocation may supersede it before, while or after it is sent).
ErpUniversesAreStored ==
    \A b \in delivered :
        /\ batches[b].row \in Rows
        /\ batches[b].members = rows[batches[b].row].members
        /\ Cardinality(batches[b].members) = UniverseSize

\* An invocation that reports success exported a universe of the month it was
\* asked for, and the ERP has it.
ReportedIsDelivered ==
    \A p \in Researchers : pc[p] = "report" =>
        /\ batches[job[p].batch].status = "exported"
        /\ job[p].batch \in delivered
        /\ batches[job[p].batch].row = job[p].row
        /\ rows[job[p].row].period = job[p].period

\* The rest of the system sees a MonthlyUniverse: whatever overlaps, fails or
\* is killed, the active universe is replaced whole, never by one of an
\* earlier month, and is never lost.
MU == INSTANCE MonthlyUniverse WITH
        month <- IF Active = 0 THEN 0 ELSE rows[Active].period,
        universe <- IF Active = 0 THEN {} ELSE rows[Active].members

ImplementsMonthlyUniverse == MU!Spec

\* Every invocation comes to an end: the repair loop asks a bounded number of
\* times, and no step waits for another invocation.
ResearchEnds == \A p \in Researchers : (pc[p] # "idle") ~> (pc[p] = "idle")
===============================================================================
