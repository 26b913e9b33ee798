------------------------------ MODULE MCOffline -------------------------------
(***************************************************************************)
(* Small requests to each of the tools.                                    *)
(***************************************************************************)
EXTENDS OfflineProperties

\* The limits of the category mix.
Two == [g \in {"chips", "power"} |-> 2]
One == [g \in {"chips", "power"} |-> 1]
TwoChips == [g \in {"chips"} |-> 2]

Candidate(ticker, sector, confidence, tags, faults) ==
    [ticker |-> ticker, sector |-> sector, confidence |-> confidence,
     tags |-> tags, rationale |-> sector # 3, faults |-> faults]

\* Five symbols of three sectors and two confidences.
Sectors ==
    {[op |-> "policy", ai |-> FALSE,
      proposal |-> [i \in 1 .. 5 |-> Candidate(i, x[i][1], x[i][2], {}, {})]] :
        x \in [1 .. 5 -> (1 .. 3) \X (1 .. 2)]}

\* Four tagged symbols, the third with or without a rationale.
Tagged ==
    {[op |-> "policy", ai |-> TRUE,
      proposal |-> [i \in 1 .. 4 |->
          Candidate(i, IF i = 3 THEN s ELSE i % 3, 1, g[i], {})]] :
        g \in [1 .. 4 -> SUBSET {"chips", "power", "other"}], s \in 2 .. 3}

\* Three candidates for two tickers, some of them failing a limit.
Repeated ==
    {[op |-> "policy", ai |-> FALSE,
      proposal |-> [i \in 1 .. 3 |->
          Candidate(x[i][1], 1, x[i][2], {}, x[i][3])]] :
        x \in [1 .. 3 -> (1 .. 2) \X (1 .. 2)
                          \X {{}, {"price_below_minimum"}}]}

AnyPolicy == Sectors \cup Tagged \cup Repeated

\* Ticker A in two spellings, ticker B and rows without a name.
Spellings ==
    [n \in {"A", " a", "B", " "} |->
        CASE n = "B" -> "B" [] n = " " -> "" [] OTHER -> "A"]

Uppercased ==
    [n \in DOMAIN Spellings |-> IF n = " a" THEN " A" ELSE n]

\* Two attempts at a universe of two tickers, over no file or an old one; a
\* third answer is one too many.
Universe(names, declared, filled) ==
    [kind |-> "universe", strategy |-> TRUE, declared |-> declared,
     entries |-> [i \in DOMAIN names |-> [ticker |-> names[i], filled |-> filled]]]
Formats ==
    {Universe(n, 2, f) : n \in [1 .. 2 -> DOMAIN Spellings], f \in BOOLEAN}
    \cup {Universe(<<"A">>, 1, TRUE), Universe(<<"A", "B">>, 3, TRUE),
          [Universe(<<"A", "B">>, 2, TRUE) EXCEPT !.strategy = FALSE]}
    \cup {[kind |-> k, strategy |-> FALSE, declared |-> 0, entries |-> <<>>] :
            k \in {"unusable", "raises"}}
AnyResearch ==
    {[op |-> "research", report |-> r, answers |-> <<x, y>>, file |-> f] :
        r \in BOOLEAN, x, y \in Formats, f \in {<<>>, <<"B">>}}
    \cup {[op |-> "research", report |-> TRUE, file |-> <<"B">>,
          answers |-> <<x, y, Universe(<<"A", "B">>, 2, TRUE)>>] :
            x, y \in {Universe(<<"A">>, 1, TRUE), Universe(<<"B", "A">>, 2, TRUE)}}

\* Files of three rows; the number of a row is its data.
AnyFile ==
    {[op |-> "file", names |-> n, start |-> s,
      file |-> [i \in 1 .. 3 |-> [ticker |-> f[i][1], session |-> f[i][2],
                                  whole |-> f[i][3], bar |-> i]]] :
        f \in [1 .. 3 -> (DOMAIN Spellings) \X (1 .. 2) \X BOOLEAN],
        n \in {<<"A">>, <<" a", "A", " ", "B">>}, s \in 1 .. 2}

\* Eight sessions; ticker 1 misses at most one, ticker 2 any of them; at most
\* one row has a feature its numbers leave undefined.
Days == 1 .. 8
AnyPanel ==
    {[op |-> "train", threshold |-> 50, scores |-> <<60, s>>,
      panel |-> [sessions |-> <<a, b>>, undefined |-> u]] :
        a \in {Days} \cup {Days \ {d} : d \in Days}, b \in SUBSET Days,
        u \in {{}} \cup {{<<1, d>>} : d \in {3, 8}}, s \in {40, 60}}

\* Three sessions of two tickers, with or without a row, the third one cheap
\* or dear, thinly traded or not.
Bar(price, volume) == [open |-> price, close |-> price + 1, volume |-> volume]
Bars == {Bar(8, 600), Bar(10, 400), Bar(8, 200)}
AnyBacktest ==
    {[op |-> "backtest", sessions |-> 1 .. 3,
      prices |-> <<[d \in a \cup {3} |-> IF d = 3 THEN x ELSE Bar(8, 400)],
                   [d \in b |-> IF d = 2 THEN y ELSE Bar(10, 300)]>>,
      scores |-> <<<<i, j, 60>>, <<k, 0, 70>>>>] :
        a, b \in SUBSET (1 .. 3), x, y \in Bars, i, j, k \in {0, 60, 70}}
===============================================================================
