---------------------------- MODULE PerfDataset ----------------------------
(***************************************************************************)
(* The performance observations: the collector of a tick harvests the top  *)
(* traders of the trending tokens, a batch at a time, and the briefing is  *)
(* calibrated on what has come together and built from it.                 *)
(***************************************************************************)
EXTENDS Integers, SequencesExt

CONSTANTS
    Trending,    \* the trending tokens, a sequence
    Batch,       \* maxTokensPerTick
    Intervals,   \* minutes from tick to tick: one of these
    Traders,
    Rows,        \* what a trader may be reported with: [profit, cost, roi]
    Dollar,      \* profits and costs are counted in parts of a dollar, this many
    ScanLimit,   \* maxObservationsScan
    Day,         \* minutes of a UTC day
    FloorCost, FloorProfit, Trusted, \* DEFAULT_CALIBRATION
    RepeatMin,   \* repeatPerformerMinObservations
    MaxTicks     \* bound

ASSUME DatasetAssumption ==
    /\ {Batch, Day, Dollar, ScanLimit, Trusted, RepeatMin, MaxTicks} \subseteq Nat \ {0}
    /\ Intervals \subseteq Nat \ {0}
    /\ {FloorCost, FloorProfit} \subseteq Nat
    /\ Trending \in Seq(ToSet(Trending)) /\ Len(Trending) > 0
    /\ IsInjective(Trending)     \* a ranking names a token once
    /\ IsFiniteSet(Traders)
    /\ \A row \in Rows : row \in [profit : Int, cost : Int, roi : Int]

VARIABLES
    interval,
    ticks,      \* ticks so far
    batch,      \* tokens this tick has still to harvest
    taken,      \* history: tokens some tick took up
    store       \* perfObservations: [<<wallet, token, day>> -> Rows]

datasetVars == <<interval, ticks, batch, taken, store>>

DatasetInit ==
    /\ interval \in Intervals
    /\ ticks = 0
    /\ batch = <<>>
    /\ taken = {}
    /\ store = <<>>

Minute == ticks * interval

---------------------------------------------------------------------------
(* The store *)

\* record, for every trader of the token: the last of a day wins.
Observe(token, rows) ==
    LET today == {<<wallet, token, (Minute - interval) \div Day>> : wallet \in DOMAIN rows}
    IN  store' = [key \in today \cup DOMAIN store |->
                     IF key \in today THEN rows[key[1]] ELSE store[key]]

\* percentile: the value at the nearest rank, rounded half up; 0 of nothing.
Percentile(values(_), keys, p) ==
    LET rank == (p * (Cardinality(keys) - 1) + 50) \div 100 IN
    IF keys = {} THEN 0
    ELSE CHOOSE v \in {values(x) : x \in keys} :
             /\ Cardinality({x \in keys : values(x) < v}) <= rank
             /\ Cardinality({x \in keys : values(x) <= v}) > rank

CostAt(key) == store[key].cost
ProfitAt(key) == store[key].profit

SpentIn(read) == {key \in read : CostAt(key) > 0}
GainedIn(read) == {key \in read : ProfitAt(key) > 0}

\* all: as many observations as the limit admits, in no promised order.
Reads ==
    {read \in SUBSET DOMAIN store :
        Cardinality(read) = Min({ScanLimit, Cardinality(DOMAIN store)})}

\* Mutant: the upper quartile is taken.
CutPercentUpper == 75

CutPercent == 25

\* Mutant: the quartile is rounded up.
RoundedUp(v) == ((v + Dollar - 1) \div Dollar) * Dollar

\* Math.round: to whole dollars, half a dollar up.
Rounded(v) == ((2 * v + Dollar) \div (2 * Dollar)) * Dollar

\* calibrate: the documented floors, raised to the quartiles with enough data.
Calibrate(read) ==
    IF Cardinality(read) < Trusted
    THEN [cost |-> FloorCost, profit |-> FloorProfit, confidence |-> "LOW"]
    ELSE [cost |-> Max({FloorCost, Rounded(Percentile(CostAt, SpentIn(read), CutPercent))}),
          profit |-> Max({FloorProfit, Rounded(Percentile(ProfitAt, GainedIn(read), CutPercent))}),
          confidence |-> IF Cardinality(read) >= 5 * Trusted THEN "HIGH" ELSE "MEDIUM"]

Passes(key, f) == CostAt(key) >= f.cost /\ ProfitAt(key) >= f.profit

TopBy(values(_), keys) == {x \in keys : \A y \in keys : values(y) <= values(x)}

Repeats(f) ==
    {w \in Traders :
        Cardinality({key \in DOMAIN store : key[1] = w /\ Passes(key, f)}) >= RepeatMin}

\* buildBriefing: calibrated on what was read, each wallet card is made of the
\* whole store.
Briefing(read) ==
    LET f == Calibrate(read)
        qualifying == {key \in DOMAIN store : Passes(key, f)}
        rated == {key \in qualifying : store[key].roi # 0}
    IN [filter |-> f,
        profit |-> TopBy(ProfitAt, qualifying),
        roi |-> TopBy(LAMBDA key : store[key].roi, rated),
        repeat |-> Repeats(f)]

---------------------------------------------------------------------------
(* The collector *)

\* Mutant: every tick starts at the first token.
OffsetFixed == 0 * Minute

Offset == Minute % Len(Trending)

\* The tick takes up a batch of tokens, from an offset that moves with time.
BeginHarvest ==
    /\ batch = <<>>
    /\ ticks < MaxTicks
    /\ ticks' = ticks + 1
    /\ LET n == Len(Trending)
           start == Offset
       IN batch' = [i \in 1..Min({Batch, n}) |-> Trending[((start + i - 1) % n) + 1]]
    /\ taken' = taken \cup ToSet(batch')
    /\ UNCHANGED <<interval, store>>

\* What GMGN may list for a token: the traders it gives an address, a profit
\* and a cost for; none when it fails.
TopTraders == UNION {[listed -> Rows] : listed \in SUBSET Traders}

\* One token: its traders are recorded, all of them or, if the store fails, some;
\* one that answers too late is skipped, and the batch goes on.
Harvest ==
    /\ batch # <<>>
    /\ batch' = Tail(batch)
    /\ \E rows \in TopTraders : Observe(Head(batch), rows)
    /\ UNCHANGED <<interval, ticks, taken>>

DatasetNext == BeginHarvest \/ Harvest

DatasetSpec == DatasetInit /\ [][DatasetNext]_datasetVars

---------------------------------------------------------------------------
(* Properties *)

Divides(d, n) == n % d = 0

Gcd(m, n) == Max({d \in 1..n : Divides(d, m) /\ Divides(d, n)})

\* "over several ticks the whole trending set is covered" (intelBuilder.ts): as
\* many ticks as there are tokens take up all of them, if the batch bridges the
\* common divisor of interval and number; some are never taken up otherwise.
HarvestCovers ==
    LET n == Len(Trending) IN
    /\ ticks >= n /\ Gcd(interval, n) <= Batch => taken = ToSet(Trending)
    /\ Gcd(interval, n) > Batch => taken # ToSet(Trending)

\* More than rounding keeps the value from its limit.
ClearlyBelow(value, limit) == 2 * (limit - value) > Dollar

\* Whatever part of the store was read, calibration never goes below the
\* documented floors and, past them, cuts at most the quarter of what was read
\* that nearest rank allows, by cost and by profit, apart from values that the
\* rounding puts up to half a dollar short.  So the biggest realized profit of
\* the whole store, past its floor, is kept off its card only by its cost, or by
\* the rounding, and then by nobody else's profit: the card is left out.
CalibrationKeeps ==
    \A read \in Reads :
        LET b == Briefing(read)
            Cut(values(_), keys, floor, limit) ==
                Cardinality({key \in keys : floor <= values(key)
                                            /\ ClearlyBelow(values(key), limit)})
            Quarter(n) == (n + 1) \div 4
        IN /\ b.filter.cost >= FloorCost /\ b.filter.profit >= FloorProfit
           /\ Cut(CostAt, SpentIn(read), FloorCost, b.filter.cost)
                  <= Quarter(Cardinality(SpentIn(read)))
           /\ Cut(ProfitAt, GainedIn(read), FloorProfit, b.filter.profit)
                  <= Quarter(Cardinality(GainedIn(read)))
           /\ \A key \in TopBy(ProfitAt, DOMAIN store) :
                  CostAt(key) >= b.filter.cost /\ ProfitAt(key) >= FloorProfit =>
                      \/ key \in b.profit
                      \/ ~ClearlyBelow(ProfitAt(key), b.filter.profit) /\ b.profit = {}

\* The dataset is complete and its calibration takes no more away than it says:
\* what the briefing shows rests on both.
DatasetSound == HarvestCovers /\ CalibrationKeeps
=============================================================================
