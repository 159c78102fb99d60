------------------------------ MODULE History ------------------------------
(***************************************************************************)
(* What was known when: observations of a token arrive late, twice and out *)
(* of order; the timeline orders them, the replay rebuilds every instant   *)
(* from what was seen up to it, and a sealed decision is judged by what    *)
(* came after it.  Prices are in hundredths of the reference price.        *)
(***************************************************************************)
EXTENDS Integers, SequencesExt

CONSTANTS
    Sightings,     \* what may arrive: [lane, at, coverage, key, rest, price]
    Decisions,     \* what may be sealed: [at, up, reference]
    Unsealed,
    Threshold,     \* of a move, in hundredths
    Today,         \* injected time
    MaxArrivals    \* bound

\* key stands for the sort key a lane compares at one instant, rest for the
\* fields it does not compare.
ASSUME HistoryAssumption ==
    /\ \A o \in Sightings :
           /\ o.lane \in {"market", "analytics", "flow"}
           /\ o.coverage \in {"COMPLETE", "SAMPLED", "ROLLING", "DERIVED"}
           /\ {o.at, o.key, o.price} \subseteq Int
    /\ \A d \in Decisions : d.at \in Int /\ d.up \in BOOLEAN /\ d.reference \in {0, 100}

VARIABLES
    log,        \* the observations in their order of arrival
    decision

historyVars == <<log, decision>>

HistoryInit == log = <<>> /\ decision = Unsealed

---------------------------------------------------------------------------
(* The timeline *)

RequiredCoverage == [market |-> "COMPLETE", analytics |-> "SAMPLED", flow |-> "ROLLING"]

Precedes(a, b) == a.at < b.at \/ (a.at = b.at /\ a.key < b.key)

\* Only flow tells observations of one instant apart.
SameIdentity(a, b) == a.at = b.at /\ (a.lane = "flow" => a.key = b.key)

\* Array.sort is stable: equals keep their order of arrival.
Comes(items, Before(_, _), i, j) ==
    Before(items[i], items[j]) \/ (~Before(items[j], items[i]) /\ i < j)

\* Of one identity, the first in order. A lane is the set of what is kept: it is
\* sorted, and no two of an identity, so the set says the order as well.
SortDedupe(items, places) ==
    {items[i] : i \in {k \in places : \A j \in places :
                          SameIdentity(items[j], items[k]) => ~Comes(items, Precedes, j, k)}}

LaneOf(items, lane) == SortDedupe(items, {i \in DOMAIN items : items[i].lane = lane})

CoverageHolds(items) == \A o \in ToSet(items) : o.coverage = RequiredCoverage[o.lane]

Instants(seen) == {o.at : o \in seen}

\* One observation of a foreign coverage refuses the whole build.
Timeline(items) ==
    LET lanes  == [lane \in DOMAIN RequiredCoverage |-> LaneOf(items, lane)]
        times  == Instants(ToSet(items))
        flow   == Instants(lanes["flow"])
        bounds == IF times = {} THEN {Today} ELSE times
    IN  [ok              |-> CoverageHolds(items),
         lanes           |-> lanes,
         windowStart     |-> Min(bounds),
         windowEnd       |-> Max(bounds),
         flowObservedFor |-> IF flow = {} \/ Today < Min(flow) THEN 0 ELSE Today - Min(flow)]

---------------------------------------------------------------------------
(* The replay: the frame of an instant is built from what is visible then *)

Earlier(a, b) == a.at < b.at

\* What is at some places, in the one order there is.
Sorted(items, places) ==
    LET n      == Cardinality(places)
        orders == {order \in [1 .. n -> places] :
                      \A k \in 2 .. n : Comes(items, Earlier, order[k - 1], order[k])}
    IN  CHOOSE s \in {[k \in 1 .. n |-> items[order[k]]] : order \in orders} : TRUE

\* Mutant: a frame sees the whole record.
VisibleAll(items, t) == Sorted(items, DOMAIN items)

Visible(items, t) == Sorted(items, {i \in DOMAIN items : items[i].at <= t})

Replay(items) == [t \in Instants(ToSet(items)) |-> Visible(items, t)]

---------------------------------------------------------------------------
(* The outcome of a decision *)

Future(items, d) == {i \in DOMAIN items : items[i].lane = "market" /\ items[i].at > d.at}

\* The last of some places, sorted.
Latest(items, places) ==
    CHOOSE i \in places : \A j \in places \ {i} : Comes(items, Earlier, j, i)

MoveOf(o, d) == IF d.reference = 0 THEN 0 ELSE o.price - d.reference

FavorableOf(o, d) == IF d.up THEN MoveOf(o, d) ELSE 0 - MoveOf(o, d)

Outcome(items, d) ==
    LET future  == Future(items, d)
        gains   == {FavorableOf(items[i], d) : i \in future}
        crossed == {items[i].at - d.at : i \in {k \in future : FavorableOf(items[k], d) >= Threshold}}
        last    == items[Latest(items, future)]
        final   == MoveOf(last, d)
    IN  IF future = {}
        THEN [direction |-> "UNKNOWN", magnitude |-> 0, mfe |-> 0, mae |-> 0,
              crossings |-> {}, verdict |-> "NO_FUTURE_DATA"]
        ELSE [direction |-> IF final > 0 THEN "UP" ELSE IF final < 0 THEN "DOWN" ELSE "FLAT",
              magnitude |-> final,
              mfe       |-> Max(gains \union {0}),
              mae       |-> Max({0 - g : g \in gains} \union {0}),
              crossings |-> IF crossed = {} THEN {} ELSE {Min(crossed)},  \* timeToOutcome
              verdict   |-> IF FavorableOf(last, d) >= Threshold THEN "CONFIRMED"
                            ELSE IF FavorableOf(last, d) <= 0 - Threshold THEN "REJECTED"
                            ELSE "INCONCLUSIVE"]

---------------------------------------------------------------------------

Arrive(o) ==
    /\ Len(log) < MaxArrivals
    /\ log' = Append(log, o)
    /\ UNCHANGED decision

Seal(d) ==
    /\ decision = Unsealed
    /\ decision' = d
    /\ UNCHANGED log

HistoryNext == (\E o \in Sightings : Arrive(o)) \/ (\E d \in Decisions : Seal(d))

HistorySpec == HistoryInit /\ [][HistoryNext]_historyVars

---------------------------------------------------------------------------
(* Properties *)

SeenBefore(lanes, t) ==
    [lane \in DOMAIN lanes |-> {o \in lanes[lane] : o.at < t}]

\* "What did WAR know at T?" has one answer: an observation, however late it
\* arrives, leaves every earlier instant of the timeline and of the replay as
\* it was, and the outcome of every decision at or after it; one that has been
\* there before leaves the whole timeline, and one that says something new
\* never takes an excursion or a crossing back.
PastStands ==
    [][log' # log =>
       LET o    == Last(log')
           old  == Timeline(log)
           new  == Timeline(log')
           was  == Outcome(log, decision)
           is   == Outcome(log', decision)
       IN  /\ new.ok => SeenBefore(new.lanes, o.at) = SeenBefore(old.lanes, o.at)
           /\ o \in ToSet(log) => new = old
           /\ \A t \in Instants(ToSet(log)) : t < o.at => Replay(log')[t] = Replay(log)[t]
           /\ decision # Unsealed =>
                  /\ o.at <= decision.at => is = was
                  /\ is.mfe >= was.mfe /\ is.mae >= was.mae
                  /\ \A t \in was.crossings : \E u \in is.crossings : u <= t
                  /\ is.verdict = "CONFIRMED" => is.crossings # {}]_historyVars
=============================================================================
