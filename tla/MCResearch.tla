------------------------------- MODULE MCResearch -------------------------------
(***************************************************************************)
(* A small instance of monthly research for TLC: two stocks of three.      *)
(***************************************************************************)
EXTENDS ResearchProperties

Tagging == [enabled |-> TRUE, multiTag |-> FALSE, categories |-> {"chips", "power"},
            min |-> [c \in Categories |-> 0],
            max |-> [c \in Categories |-> IF c = "chips" THEN 1 ELSE 2]]

Entry(ticker, rank, tags) == [ticker |-> ticker, rank |-> rank, tags |-> tags]

\* Two valid lists, one of them out of order, and one for each reason to
\* refuse a list.
SomeAnswers ==
    {<<Entry("A", 1, {"chips"}), Entry("B", 2, {"power"})>>,
     <<Entry("C", 2, {"power"}), Entry("B", 1, {"power"})>>,
     <<>>,
     <<Entry("A", 1, {"chips"}), Entry("A", 2, {"power"})>>,
     <<Entry("A", 1, {"chips"}), Entry("?", 2, {"power"})>>,
     <<Entry("A", 1, {"chips"}), Entry("C", 1, {"power"})>>,
     <<Entry("A", 1, {"chips"}), Entry("C", 2, {})>>,
     <<Entry("A", 1, {"chips"}), Entry("C", 2, {"chips"})>>,
     <<Entry("A", 1, {"chips", "power"}), Entry("C", 2, {"power"})>>,
     <<Entry("A", 1, {"cloud"}), Entry("C", 2, {"power"})>>}
===============================================================================
