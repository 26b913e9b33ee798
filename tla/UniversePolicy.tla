---------------------------- MODULE UniversePolicy ----------------------------
(***************************************************************************)
(* UniversePolicy.evaluate (universe.py): from a proposal, a sequence of   *)
(* candidates, to the accepted tickers and the reasons for which the       *)
(* others are rejected.  A pure function.                                  *)
(*                                                                         *)
(* A candidate is [ticker, sector, confidence, tags, rationale, faults].   *)
(* faults are the limits on the candidate's own data it fails (exchange,   *)
(* instrument type, listing, price, capitalisation, liquidity, history,    *)
(* allow and deny lists): nothing else depends on that data.               *)
(*   ai is ai_infra_enabled; Categories is the configured set, {} when any *)
(* category is allowed; the three category limits are partial functions    *)
(* from categories to numbers.                                             *)
(***************************************************************************)
EXTENDS Naturals, SequencesExt

CONSTANTS MaximumSymbols, SectorPercent, Categories, AllowMultiTag,
          CategoryMin, CategoryMax, CategoryTarget

ASSUME PolicyAssumption ==
    /\ MaximumSymbols \in Nat \ {0}
    /\ SectorPercent \in 0 .. 100
    /\ AllowMultiTag \in BOOLEAN
    /\ CategoryMax \in [DOMAIN CategoryMax -> Nat]
    /\ CategoryTarget \in [DOMAIN CategoryTarget -> Nat]

\* The elements of S in order; ahead[x] are those that come before x.
Arranged(S, ahead) ==
    [n \in 1 .. Cardinality(S) |-> CHOOSE x \in S : Cardinality(ahead[x]) = n - 1]

Ascending(S) == Arranged(S, [i \in S |-> {j \in S : j < i}])

-------------------------------------------------------------------------------
\* Screening, in the order of the proposal.

When(condition, reason) == IF condition THEN {reason} ELSE {}

MembershipFaults(c) ==
    IF c.tags = {}
    THEN {"ai_infra_membership_missing"}
    ELSE When(~AllowMultiTag /\ Cardinality(c.tags) > 1,
              "ai_infra_multi_tag_disallowed")
           \cup When(Categories # {} /\ ~(c.tags \subseteq Categories),
                     "ai_infra_category_not_allowed")

MetadataFaults(c) == When(~c.rationale, "feedback_loop_metadata_missing")

Reasons(ai, passed, c) ==
    When(\E k \in passed : k.ticker = c.ticker, "duplicate_symbol")
      \cup c.faults
      \cup IF ai THEN MembershipFaults(c) \cup MetadataFaults(c) ELSE {}

\* The reasons of the tickers that have any; a later rejection of a ticker
\* replaces the reasons of an earlier one.
ByTicker(candidates, reasons) ==
    LET faulty == {n \in DOMAIN candidates : reasons[n] # {}}
    IN  [t \in {candidates[n].ticker : n \in faulty} |->
           reasons[Max({n \in faulty : candidates[n].ticker = t})]]

Screen(ai, passed, c) ==
    IF Reasons(ai, passed, c) = {} THEN passed \cup {c} ELSE passed

Updated(rejected, newer) ==
    [t \in DOMAIN rejected \cup DOMAIN newer |->
       IF t \in DOMAIN newer THEN newer[t] ELSE rejected[t]]

\* What has passed, after each candidate of the proposal.
Passed(ai, proposal) ==
    LET passed[n \in 0 .. Len(proposal)] ==
          IF n = 0 THEN {} ELSE Screen(ai, passed[n - 1], proposal[n])
    IN  passed

Screened(ai, proposal) ==
    LET passed == Passed(ai, proposal)
        reasons == [n \in DOMAIN proposal |-> Reasons(ai, passed[n - 1], proposal[n])]
    IN  [passed |-> passed[Len(proposal)], rejected |-> ByTicker(proposal, reasons)]

-------------------------------------------------------------------------------
\* Admission, by confidence and then by ticker.

\* Mutant: the symbols are taken in the order of their tickers.
BeforeByTicker(c, k) == c.ticker < k.ticker

Before(c, k) ==
    \/ c.confidence > k.confidence
    \/ c.confidence = k.confidence /\ c.ticker < k.ticker

Ahead(passed) == [c \in passed |-> {k \in passed : Before(k, c)}]

SectorCount(accepted, sector) ==
    Cardinality({i \in DOMAIN accepted : accepted[i].sector = sector})

\* Mutant: the share is taken of what is already accepted.
ConcentratedBefore(accepted, c) ==
    /\ Len(accepted) + 1 > 2
    /\ SectorCount(accepted, c.sector) * 100 > SectorPercent * Len(accepted)

\* The first two symbols are admitted whatever their sector.
Concentrated(accepted, c) ==
    /\ Len(accepted) + 1 > 2
    /\ (SectorCount(accepted, c.sector) + 1) * 100
         > SectorPercent * (Len(accepted) + 1)

Refusal(accepted, c) ==
    IF Len(accepted) >= MaximumSymbols
    THEN {"maximum_symbols_exceeded"}
    ELSE When(Concentrated(accepted, c), "sector_concentration_limit")

Admit(accepted, c) ==
    IF Refusal(accepted, c) = {} THEN Append(accepted, c) ELSE accepted

\* What has been accepted, after each candidate of the order.
Accepted(order) ==
    LET accepted[n \in 0 .. Len(order)] ==
          IF n = 0 THEN <<>> ELSE Admit(accepted[n - 1], order[n])
    IN  accepted

Admitted(screened) ==
    LET order == Arranged(screened.passed, Ahead(screened.passed))
        accepted == Accepted(order)
        reasons == [n \in DOMAIN order |-> Refusal(accepted[n - 1], order[n])]
    IN  [accepted |-> accepted[Len(order)],
         rejected |-> Updated(screened.rejected, ByTicker(order, reasons))]

-------------------------------------------------------------------------------
\* The category mix: everything tagged with a category outside its limits goes.

TagCount(accepted, tag) ==
    Cardinality({i \in DOMAIN accepted : tag \in accepted[i].tags})

UnderMin(accepted) ==
    {g \in DOMAIN CategoryMin : TagCount(accepted, g) < CategoryMin[g]}

OverMax(accepted) ==
    {g \in DOMAIN CategoryMax : TagCount(accepted, g) > CategoryMax[g]}

OverTarget(accepted) ==
    {g \in DOMAIN CategoryTarget : TagCount(accepted, g) > CategoryTarget[g]}

\* Mutant: the targets are forgotten.
MixReasonsOfLimits(accepted, c) ==
    When(c.tags \cap UnderMin(accepted) # {},
         "ai_infra_category_minimum_not_met")
      \cup When(c.tags \cap OverMax(accepted) # {},
                "ai_infra_category_maximum_exceeded")

MixReasons(accepted, c) ==
    When(c.tags \cap UnderMin(accepted) # {},
         "ai_infra_category_minimum_not_met")
      \cup When(c.tags \cap OverMax(accepted) # {},
                "ai_infra_category_maximum_exceeded")
      \cup When(c.tags \cap OverTarget(accepted) # {},
                "ai_infra_category_target_exceeded")

ReasonsFor(rejected, ticker) ==
    IF ticker \in DOMAIN rejected THEN rejected[ticker] ELSE {}

Mixed(ai, s) ==
    LET reasons == [i \in DOMAIN s.accepted |->
                      IF ai THEN MixReasons(s.accepted, s.accepted[i]) ELSE {}]
        out == ByTicker(s.accepted, reasons)
        kept == {i \in DOMAIN s.accepted : s.accepted[i].ticker \notin DOMAIN out}
        order == Ascending(kept)
    IN  [accepted |-> [n \in DOMAIN order |-> s.accepted[order[n]]],
         rejected |-> Updated(s.rejected,
                              [t \in DOMAIN out |->
                                 ReasonsFor(s.rejected, t) \cup out[t]])]

Decision(ai, proposal) == Mixed(ai, Admitted(Screened(ai, proposal)))
===============================================================================
