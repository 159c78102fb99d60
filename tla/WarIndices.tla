----------------------------- MODULE WarIndices -----------------------------
(***************************************************************************)
(* The browse view of a trending token: its mood, its forces, and the WAR  *)
(* SCORE blended of its signature indices.  A number that was not          *)
(* confirmed is Unknown: the index that needs it is left out and the blend *)
(* renormalised.  Rates are percentages and every quotient is rounded as   *)
(* Math.round does, once, from exact terms.                                *)
(*                                                                         *)
(* A behaviour learns worse news about one token, a metric at a time.      *)
(***************************************************************************)
EXTENDS Integers, Sequences

CONSTANTS
    Unknown,    \* undefined
    News,       \* [metric -> its values, the best first]: see Metrics
    Profiles,   \* sets of metrics a row holds together
    HolderCounts

Flags == {"wash", "honeypot", "renounced", "openSource", "renouncedMint", "renouncedFreeze"}

\* Those the view depends on in one direction; holders cuts both ways and
\* stays as it is.  tax is the higher of the two taxes.
Metrics ==
    Flags \cup
    {"liquidity", "marketCap", "top10", "dev", "topSnipers", "bundlers", "bots", "rats",
     "rug", "snipers", "smart", "renowned", "buys", "sells", "change", "lock", "burn", "tax"}

\* Counted as shares of 100.
Percentages == {"top10", "dev", "topSnipers", "bundlers", "bots", "rats", "rug", "lock", "burn"}

\* A market cap of 0 is no market cap (absorptionIndex), and bad news of none.
Values(m) ==
    CASE m \in Flags       -> BOOLEAN
      [] m \in Percentages -> 0..100
      [] m = "marketCap"   -> Nat \ {0}
      [] m = "change"      -> Int
      [] OTHER             -> Nat

\* What bad news of a metric is: it rises, or it falls.
Risks == {"wash", "honeypot", "marketCap", "top10", "dev", "topSnipers", "bundlers", "bots",
          "rats", "rug", "snipers", "sells", "tax"}

NotBetter(m, x, y) ==
    CASE m \in Flags \cap Risks -> x => y
      [] m \in Flags \ Risks    -> y => x
      [] m \in Risks \ Flags    -> x <= y
      [] OTHER                  -> y <= x

ASSUME NewsAssumption ==
    /\ Unknown \notin Int /\ Unknown \notin BOOLEAN
    /\ DOMAIN News = Metrics
    /\ \A m \in Metrics :
          /\ News[m] \in Seq(Values(m)) /\ Len(News[m]) > 0
          /\ \A k \in 2..Len(News[m]) : NotBetter(m, News[m][k - 1], News[m][k])
    /\ Profiles \subseteq SUBSET Metrics
    /\ HolderCounts \subseteq Nat

VARIABLES
    row,        \* RankRow: [Metrics \cup {"holders"} -> values or Unknown]
    view        \* the WorldState made of it

indexVars == <<row, view>>

Has(i, m) == i[m] # Unknown

\* "has(i.x) ? i.x : 0"
OrZero(i, m) == IF Has(i, m) THEN i[m] ELSE 0

Round(n, d) == (2 * n + d) \div (2 * d)

Clamp(x) == IF x < 0 THEN 0 ELSE IF x > 100 THEN 100 ELSE x

Index(value, better) == [score |-> value, better |-> better]

Insufficient(better) == Index(Unknown, better)

---------------------------------------------------------------------------
(* The indices *)

\* The pool against the cap; a fifth of it is full marks.
Absorption(i) ==
    IF Has(i, "liquidity") /\ Has(i, "marketCap") /\ i.marketCap > 0
    THEN Index(Clamp(Round(500 * i.liquidity, i.marketCap)), TRUE)
    ELSE Insufficient(TRUE)

Concentration(i) ==
    IF Has(i, "top10")
    THEN Index(Clamp(Round(45 * i.top10 + 25 * OrZero(i, "dev")
                           + 20 * OrZero(i, "topSnipers") + 10 * OrZero(i, "bundlers"),
                           100)), FALSE)
    ELSE Insufficient(FALSE)

Organic(i) ==
    IF Has(i, "bots") \/ Has(i, "rats") \/ Has(i, "wash")
    THEN Index(Clamp(Round((100 - OrZero(i, "bots")) * (100 - OrZero(i, "rats"))
                           * (IF i.wash = TRUE THEN 1 ELSE 2), 200)), TRUE)
    ELSE Insufficient(TRUE)

Snipers(i) ==
    IF Has(i, "snipers") /\ Has(i, "holders") /\ i.holders > 0
    THEN Index(Clamp(Round(600 * i.snipers + OrZero(i, "topSnipers") * i.holders,
                           i.holders)), FALSE)
    ELSE Insufficient(FALSE)

\* A renowned wallet counts for one and a half.
Conviction(i) ==
    IF /\ Has(i, "smart") \/ Has(i, "renowned")
       /\ Has(i, "holders") /\ i.holders > 0
    THEN Index(Clamp(Round(600 * (2 * OrZero(i, "smart") + 3 * OrZero(i, "renowned")),
                           i.holders)), TRUE)
    ELSE Insufficient(TRUE)

FlowBalance(i) ==
    IF Has(i, "buys") /\ Has(i, "sells") /\ i.buys + i.sells > 0
    THEN Index(Round(100 * i.buys, i.buys + i.sells), TRUE)
    ELSE Insufficient(TRUE)

Weight == [renounced |-> 20, openSource |-> 20, renouncedMint |-> 15,
           renouncedFreeze |-> 15, lp |-> 20, tax |-> 10]

Guarantees == {"renounced", "openSource", "renouncedMint", "renouncedFreeze"}

\* The guarantees that could be read.
Checked(i) ==
    {m \in Guarantees \cup {"tax"} : Has(i, m)}
    \cup (IF Has(i, "lock") \/ Has(i, "burn") THEN {"lp"} ELSE {})

\* Those of them that hold: half the pool locked or burned, taxes of 5% at most.
Passed(i) ==
    {c \in Checked(i) :
        CASE c = "lp"  -> OrZero(i, "lock") >= 50 \/ OrZero(i, "burn") >= 50
          [] c = "tax" -> i.tax <= 5
          [] OTHER     -> i[c]}

Points(checks) ==
    LET Of(c) == IF c \in checks THEN Weight[c] ELSE 0
    IN  Of("renounced") + Of("openSource") + Of("renouncedMint") + Of("renouncedFreeze")
        + Of("lp") + Of("tax")

Honeypot(i) == i.honeypot = TRUE

\* A tax alone is no reading of the contract, nor is the absence of a honeypot.
Integrity(i) ==
    IF Honeypot(i)
    THEN Index(0, TRUE)
    ELSE IF Checked(i) \ {"tax"} # {} \/ (Has(i, "honeypot") /\ Checked(i) # {})
    THEN Index(Round(100 * Points(Passed(i)), Points(Checked(i))), TRUE)
    ELSE Insufficient(TRUE)

\* capsScoreAt: the developer can still mint or freeze.
CapsScoreAt(i) ==
    IF i.renouncedMint = FALSE \/ i.renouncedFreeze = FALSE THEN 45 ELSE 100

---------------------------------------------------------------------------
(* The composite *)

Weights == [integrity |-> 22, concentration |-> 20, absorption |-> 18, organic |-> 15,
            snipers |-> 10, conviction |-> 8, flow |-> 7]

ComputeIndices(i) ==
    [integrity |-> Integrity(i), concentration |-> Concentration(i),
     absorption |-> Absorption(i), organic |-> Organic(i), snipers |-> Snipers(i),
     conviction |-> Conviction(i), flow |-> FlowBalance(i)]

\* Mutant: a risk index is blended as it is.
PartUninverted(index, weight) ==
    IF index.score = Unknown
    THEN [sum |-> 0, weight |-> 0]
    ELSE [sum |-> weight * index.score, weight |-> weight]

\* What an index adds to the sum and to the weight of the blend: nothing when it
\* is insufficient, and risk is inverted first.
Part(index, weight) ==
    IF index.score = Unknown
    THEN [sum |-> 0, weight |-> 0]
    ELSE [sum    |-> weight * (IF index.better THEN index.score ELSE 100 - index.score),
          weight |-> weight]

Over(f) == f.integrity + f.concentration + f.absorption + f.organic + f.snipers
           + f.conviction + f.flow

Blend(indices) ==
    LET part == [k \in DOMAIN Weights |-> Part(indices[k], Weights[k])]
    IN  [sum    |-> Over([k \in DOMAIN Weights |-> part[k].sum]),
         weight |-> Over([k \in DOMAIN Weights |-> part[k].weight])]

Lower(x, y) == IF x < y THEN x ELSE y

WarScore(i) ==
    LET blend == Blend(ComputeIndices(i))
    IN  IF Honeypot(i) THEN 0
        ELSE IF blend.weight = 0 THEN Unknown
        ELSE Lower(Round(blend.sum, blend.weight), CapsScoreAt(i))

---------------------------------------------------------------------------
(* The browse view of a row *)

\* What is handed to the indices: of a flag, whether the row holds it as true.
IndexInputs(r) == [m \in DOMAIN r |-> IF m \in Flags THEN r[m] = TRUE ELSE r[m]]

DeriveMood(r) ==
    LET change == OrZero(r, "change")
        buys   == OrZero(r, "buys")
        sells  == OrZero(r, "sells")
    IN  IF OrZero(r, "rug") > 50 THEN "COLLAPSE"
        ELSE CASE change > 50 /\ buys > sells      -> "ATTACK"
               [] change \in 11..50 /\ buys > sells -> "EMERGING"
               [] change < -30                     -> "BLEEDING"
               [] change \in -30..-9               -> "DISTRIBUTION"
               [] OTHER -> IF 10 * buys > 13 * sells THEN "ACCUMULATION"
                           ELSE IF change \in -2..2 /\ buys + sells < 50 THEN "DORMANT"
                           ELSE "OBSERVING"

\* Seven tenths buy share and three tenths of a rise of the price.
PowerOf(r) ==
    LET buys  == OrZero(r, "buys")
        trades == buys + OrZero(r, "sells")
        rise  == IF OrZero(r, "change") > 0 THEN r.change ELSE 0
    IN  Clamp(IF trades = 0 THEN Round(350 + 3 * rise, 10)
              ELSE Round(700 * buys + 3 * rise * trades, 10 * trades))

ThreatOf(r) ==
    Clamp(Round(60 * OrZero(r, "rug") + 40 * OrZero(r, "top10")
                + (IF r.wash = TRUE THEN 2000 ELSE 0), 100))

ConfidenceOf(r) ==
    Clamp(Round(10000 - 50 * OrZero(r, "rug") - 30 * OrZero(r, "top10"), 100))

RowToWorldState(r) ==
    [mood |-> DeriveMood(r), power |-> PowerOf(r), threat |-> ThreatOf(r),
     confidence |-> ConfidenceOf(r), score |-> WarScore(IndexInputs(r))]

---------------------------------------------------------------------------

IndicesInit ==
    /\ \E known \in Profiles, n \in HolderCounts :
          row = [m \in Metrics \cup {"holders"} |->
                    IF m = "holders" THEN n
                    ELSE IF m \in known THEN News[m][1] ELSE Unknown]
    /\ view = RowToWorldState(row)

\* The next refresh finds one metric worse.
Worsen(m, k) ==
    LET worse == [row EXCEPT ![m] = News[m][k]]
    IN  /\ row[m] = News[m][k - 1]
        /\ row' = worse
        /\ view' = RowToWorldState(worse)

IndicesNext == \E m \in Metrics : \E k \in 2..Len(News[m]) : Worsen(m, k)

IndicesSpec == IndicesInit /\ [][IndicesNext]_indexVars

\* The worst first; a dormant token is neither better nor worse than a watched one.
Moods == <<"COLLAPSE", "BLEEDING", "DISTRIBUTION", "OBSERVING", "DORMANT", "ACCUMULATION",
           "EMERGING", "ATTACK">>

MoodRank(mood) ==
    IF mood = "DORMANT" THEN 4 ELSE CHOOSE k \in 1..Len(Moods) : Moods[k] = mood

\* Bad news never helps: whatever is known and whatever it is blended with, a
\* token that got worse in one metric does not look better in its mood, in any
\* of its forces or in its score, and does not stop being scored.
BadNewsNeverHelps ==
    [][/\ MoodRank(view'.mood) <= MoodRank(view.mood)
       /\ view'.power <= view.power
       /\ view'.threat >= view.threat
       /\ view'.confidence <= view.confidence
       /\ view.score # Unknown => view'.score # Unknown /\ view'.score <= view.score]_indexVars
=============================================================================
