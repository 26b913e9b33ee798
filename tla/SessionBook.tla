------------------------------- MODULE SessionBook ------------------------------
(***************************************************************************)
(* What the daily cycle promises of every market session, whoever runs it  *)
(* and however it ends: it is opened once, traded only while it is open    *)
(* and only until its book is published; what is published, once, is the   *)
(* whole book; and it is completed only after that.  A session that fails  *)
(* stays failed, with the book it has.                                     *)
(***************************************************************************)
EXTENDS Sequences

CONSTANTS
    Sessions,
    Decision          \* the decisions a session may be traded on

VARIABLES
    status,           \* session -> "new", "open", "completed" or "failed"
    traded,           \* the decisions traded on, of all sessions
    published         \* the books that were published, in order

bookVars == <<status, traded, published>>

Book(s) == [session |-> s, trades |-> {d \in traded : d.session = s}]

IsPublished(s) == \E i \in DOMAIN published : published[i].session = s

Init ==
    /\ status = [s \in Sessions |-> "new"]
    /\ traded = {}
    /\ published = <<>>

Becomes(s, from, to) ==
    /\ status[s] = from
    /\ status' = [status EXCEPT ![s] = to]
    /\ UNCHANGED <<traded, published>>

Open(s) == Becomes(s, "new", "open")

Trade(s) ==
    /\ status[s] = "open"
    /\ ~IsPublished(s)
    /\ \E d \in Decision : d.session = s /\ traded' = traded \cup {d}
    /\ UNCHANGED <<status, published>>

Publish(s) ==
    /\ status[s] = "open"
    /\ ~IsPublished(s)
    /\ published' = Append(published, Book(s))
    /\ UNCHANGED <<status, traded>>

Complete(s) == IsPublished(s) /\ Becomes(s, "open", "completed")

Fail(s) == Becomes(s, "open", "failed")

Next == \E s \in Sessions : Open(s) \/ Trade(s) \/ Publish(s) \/ Complete(s) \/ Fail(s)

Spec == Init /\ [][Next]_bookVars
===============================================================================
