------------------------------ MODULE Evaluation ------------------------------
(* One evaluation of a token: the acquisition reads the three lanes of the   *)
(* provider one after the other (integration/RealGmgnAcquisitionPort.ts), and *)
(* the core turns what it read into a battlefield entry                       *)
(* (core/features/warEvaluation.ts and the engines it chains).                *)
(*                                                                            *)
(* Times are minutes, prices micro-dollars, trades thousands of dollars. A    *)
(* ratio is counted in sixtieths and a score in sixtieths of a point, rounded *)
(* down: the weights and thresholds of config/scoring.ts and                  *)
(* config/stateMachine.ts keep their values.                                  *)
EXTENDS Integers, Sequences, FiniteSets, FiniteSetsExt, SequencesExt

CONSTANTS
    Token,      \* the token under evaluation
    Klines,     \* the candles the provider may answer with
    Rankings,   \* the trending rows it may answer with, of the whole chain
    Tracks,     \* the smart-money trades it may answer with, of the whole chain
    Step        \* minutes one move of the clock stands for

Unknown == -1     \* null: a field the provider did not give

One == 60         \* a ratio of 1, and a point of a score

Clamp(n) == IF n < 0 THEN 0 ELSE IF n > One THEN One ELSE n

Share(part, whole) == IF whole > 0 THEN Clamp((One * part) \div whole) ELSE 0

ScoreOf(n) == IF n < 0 THEN 0 ELSE IF n > 100 * One THEN 100 * One ELSE n

-----------------------------------------------------------------------------
(* The lanes. A row whose required numbers do not parse is dropped, a security *)
(* field outside its range is unknown. Rows of every token of the chain pass.  *)

ASSUME ReadingsAssumption ==
    /\ \A rows \in Klines : rows \in Seq([age : Nat, close : Int, volume : Int])
    /\ \A rows \in Rankings : /\ rows \in Seq(ToSet(rows))
                              /\ \A r \in ToSet(rows) : r.wash \in {Unknown, 0, One}

(* A finite set as a sequence, each member before the next. *)
Ordered(S, Before(_, _)) ==
    LET n == Cardinality(S)
    IN  CHOOSE s \in [1 .. n -> S] : \A i \in 1 .. n - 1 : Before(s[i], s[i + 1])

(* The rows at some places, as they stood. *)
RowsAt(rows, places) ==
    LET Above(i, j) == i < j
        place == Ordered(places, Above)
    IN  [k \in DOMAIN place |-> rows[place[k]]]

ParseKline(rows, at) ==
    LET good == RowsAt(rows, {i \in DOMAIN rows : rows[i].close # Unknown})
    IN  [i \in DOMAIN good |->
            [at |-> at - good[i].age, close |-> good[i].close, volume |-> good[i].volume]]

ParseRatio(v) == IF v \in 0 .. One THEN v ELSE Unknown

ParseTrending(rows) ==
    LET good == RowsAt(rows, {i \in DOMAIN rows : rows[i].cap # Unknown /\ rows[i].liquidity # Unknown})
    IN  [i \in DOMAIN good |->
            [token |-> good[i].token, cap |-> good[i].cap, liquidity |-> good[i].liquidity,
             rug |-> ParseRatio(good[i].rug), top |-> ParseRatio(good[i].top), wash |-> good[i].wash]]

ParseTrack(rows, at) ==
    LET good == RowsAt(rows, {i \in DOMAIN rows : rows[i].usd # Unknown})
    IN  [i \in DOMAIN good |->
            [at |-> at - good[i].age, side |-> good[i].side, usd |-> good[i].usd,
             token |-> good[i].token]]

-----------------------------------------------------------------------------
(* Derivatives of one series (temporalEngine.ts). The flatness thresholds are *)
(* 1e-9 per millisecond for a velocity and 1e-12 for an acceleration.         *)

FlatVelocity == 60        \* micro-dollars per minute

FlatBend == 3600          \* micro-dollars per minute squared

Sign(n, flat) == IF n > flat THEN 1 ELSE IF n < -flat THEN -1 ELSE 0

Earlier(p, q) == p.at < q.at \/ (p.at = q.at /\ p.value < q.value)

(* A point given twice counts once. *)
Normalize(points) == Ordered(ToSet(points), Earlier)

TemporalProfile(points) ==
    LET s == Normalize(points)
        n == Len(s)
        Rise(i) == s[i + 1].value - s[i].value
        Gap(i) == s[i + 1].at - s[i].at
        moving == n >= 2 /\ Gap(n - 1) > 0
        bending == moving /\ n >= 3 /\ Gap(n - 2) > 0
        turn == Rise(n - 1) * Gap(n - 2) - Rise(n - 2) * Gap(n - 1)
    IN  [known |-> moving,
         velocity |-> IF moving THEN Sign(Rise(n - 1), FlatVelocity * Gap(n - 1)) ELSE 0,
         bend |-> IF bending
                  THEN Sign(turn, FlatBend * Gap(n - 1) * Gap(n - 2) * (Gap(n - 1) + Gap(n - 2)))
                  ELSE 0,
         span |-> IF n >= 2 THEN s[n].at - s[1].at ELSE 0,
         certainty |-> IF n >= 2 THEN One - (One \div (n - 1)) ELSE 0]

Direction(p) ==
    IF ~p.known THEN "UNKNOWN"
    ELSE CASE p.velocity = 1 -> "UP" [] p.velocity = -1 -> "DOWN" [] OTHER -> "FLAT"

Trajectory(p) ==
    CASE ~p.known -> "UNKNOWN"
      [] p.known /\ p.velocity = 0 -> IF p.bend = 0 THEN "FLATTENING" ELSE "REVERSING"
      [] p.known /\ p.velocity = 1 ->
            CASE p.bend = 1 -> "ACCELERATING_UP" [] p.bend = 0 -> "RISING" [] OTHER -> "DECELERATING"
      [] p.known /\ p.velocity = -1 ->
            CASE p.bend = -1 -> "ACCELERATING_DOWN" [] p.bend = 0 -> "FALLING" [] OTHER -> "DECELERATING"

-----------------------------------------------------------------------------
(* Flow (flowEngine.ts) and the agreement of the directions (coherence.ts).    *)

FlowMetrics(flow) ==
    LET Of(side) == SelectSeq(flow, LAMBDA f : f.side = side)
        total[s \in {Of("buy"), Of("sell")}, n \in 0 .. Len(flow)] ==
            IF n = 0 THEN 0 ELSE total[s, n - 1] + s[n].usd
        Usd(side) == total[Of(side), Len(Of(side))]
        buys == Len(Of("buy"))
    IN  [bought |-> Usd("buy"), sold |-> Usd("sell"),
         persistence |-> Share(Max({buys, Len(flow) - buys}), Len(flow))]

FlowDirection(metrics) ==
    CASE metrics.persistence = 0 -> "UNKNOWN"     \* no trade at all
      [] metrics.bought > metrics.sold -> "UP"
      [] metrics.bought < metrics.sold -> "DOWN"
      [] OTHER -> "FLAT"

(* The liquidity points of one ranking all carry the same instant, and the    *)
(* sell-pressure vector is never given a direction: both stay unknown.        *)
DirectedVectors(price, volume, metrics) ==
    [price |-> Direction(price), volume |-> Direction(volume), flow |-> FlowDirection(metrics)]

Coherence(vectors) ==
    LET Count(d) == Cardinality({v \in DOMAIN vectors : vectors[v] = d})
        usable == Cardinality(DOMAIN vectors) - Count("UNKNOWN")
        consensus == CASE Count("UP") > Count("DOWN") -> "UP"
                       [] Count("DOWN") > Count("UP") -> "DOWN"
                       [] OTHER -> "FLAT"
    IN  IF usable < 2 THEN Unknown ELSE Share(Count(consensus), usable)

(* Moves that follow one another within MaxLag, of the same sign. *)
MaxLag == 10

MinMatches == 3

(* Sorted by time; points of one instant stay in the order they came. *)
PriceMoves(points) ==
    LET Before(i, j) == points[i].at < points[j].at \/ (points[i].at = points[j].at /\ i < j)
        place == Ordered(DOMAIN points, Before)
        Rise(k) == points[place[k + 1]].value - points[place[k]].value
    IN  {[nth |-> k, at |-> points[place[k + 1]].at, side |-> IF Rise(k) > 0 THEN "buy" ELSE "sell"] :
            k \in {k \in 1 .. Len(points) - 1 : Rise(k) # 0}}

FlowLeads(flow, points) ==
    LET moves == PriceMoves(points)
        Lags(m) == {m.at - flow[i].at : i \in {j \in DOMAIN flow : flow[j].side = m.side}} \cap 0 .. MaxLag
        Followed(i) == \E m \in moves : m.side = flow[i].side /\ flow[i].at - m.at \in 1 .. MaxLag
        synchronized == Cardinality({m \in moves : 0 \in Lags(m)})
        flowLed == Cardinality({m \in moves : Lags(m) # {} /\ 0 \notin Lags(m)})
        priceLed == Cardinality({i \in DOMAIN flow : Followed(i)})
    IN  /\ flowLed + synchronized >= MinMatches
        /\ flowLed > priceLed
        /\ flowLed > synchronized

-----------------------------------------------------------------------------
(* Activations and scores (features/*.ts, powerEngine.ts, config/scoring.ts).  *)

(* A dollar of movement in a millisecond would be a full trajectory: at any    *)
(* price of the model the activation rounds to nothing.                        *)
TrajectoryUp == 0

SmartInflow(metrics) ==
    IF metrics.persistence = 0 THEN Unknown
    ELSE Clamp(3 * (metrics.bought - metrics.sold))     \* full at 20 000 dollars

LiquidityDepth(latest) ==
    IF latest.cap <= 0 THEN Unknown ELSE Clamp((150 * latest.liquidity) \div latest.cap)     \* full at 0.4

\* Mutant: what is unknown is assumed to be the worst.
PresentWorst(activation) == IF activation = Unknown THEN One ELSE activation

Present(activation) == IF activation = Unknown THEN 0 ELSE activation

Power(depth, smart, metrics, coherence) ==
    LET sold == Share(metrics.sold, metrics.bought + metrics.sold)
        conflict == IF coherence = Unknown THEN 0 ELSE One - coherence
    IN  ScoreOf(30 * TrajectoryUp + 25 * Present(coherence) + 25 * Present(smart) + 20 * Present(depth)
                - 30 * sold - 25 * conflict)

Threat(latest) ==
    ScoreOf(30 * Present(latest.rug) + 25 * Present(latest.top) + 20 * Present(latest.wash))

(* Weights .20 .15 .20 .20 .15 over their sum .90, a penalty for rolling (.7) or *)
(* sampled (.8) coverage, a horizon and a reference window of one hour.         *)
Confidence(obs, at, price, coherence) ==
    LET lanes == Cardinality({l \in DOMAIN obs : obs[l] # <<>>})
        times == {m.at : m \in ToSet(obs.market)} \cup {f.at : f \in ToSet(obs.flow)}
                    \cup (IF obs.analytics = <<>> THEN {} ELSE {at})
        freshness == IF times = {} THEN 0 ELSE Clamp(One - Max({0, at - Max(times)}))
        penalty == IF obs.flow # <<>> THEN 7 ELSE IF obs.analytics # <<>> THEN 8 ELSE 10
    IN  ScoreOf((10 * penalty *
                 (4 * 20 * lanes + 3 * freshness + 4 * Clamp(price.span)
                    + 4 * Present(coherence) + 3 * price.certainty)) \div 18)

(* Magnitude 15, novelty 20 (a first sighting is wholly novel), conflict 10,    *)
(* uncertainty 5; what compares two evaluations is 0, and so is an acceleration *)
(* measured against one dollar per millisecond squared.                        *)
Attention(power, confidence, coherence) ==
    ScoreOf((15 * power) \div 100 + 20 * One
            + 10 * (IF coherence = Unknown THEN 0 ELSE One - coherence)
            + 5 * (One - (confidence \div 100)))

-----------------------------------------------------------------------------
(* The state machine (core/state/stateMachine.ts).                             *)

EvaluationOrder == <<"COLLAPSE", "BLEEDING", "DISTRIBUTION", "DOMINANCE",
                     "ATTACK", "ACCUMULATION", "EMERGING", "OBSERVING">>

Danger == {"COLLAPSE", "BLEEDING"}

MinDwell == 1

Justified(i) ==
    LET up == i.trajectory \in {"ACCELERATING_UP", "RISING"}
        down == i.trajectory \in {"FALLING", "ACCELERATING_DOWN"}
        threatened == i.threat >= 70 * One
        coherent == i.coherence >= 36
        persistent == i.persistence >= 36
        confident == i.confidence >= 25 * One
    IN  [COLLAPSE |-> threatened /\ i.trajectory = "ACCELERATING_DOWN" /\ persistent,
         BLEEDING |-> threatened /\ down,
         DISTRIBUTION |-> i.power >= 45 * One /\ ~coherent /\ i.threat > 0,
         DOMINANCE |-> i.power >= 82 * One /\ coherent /\ confident /\ up,
         ATTACK |-> i.power >= 65 * One /\ coherent /\ persistent /\ confident /\ up,
         ACCUMULATION |-> i.power >= 45 * One /\ coherent /\ confident /\ ~down,
         EMERGING |-> i.power >= 30 * One /\ confident,
         OBSERVING |-> TRUE]

StepStateMachine(ctx, i, now) ==
    LET dwelt == now - ctx.enteredAt >= MinDwell
        open == {k \in DOMAIN EvaluationOrder :
                    /\ EvaluationOrder[k] # ctx.state
                    /\ dwelt \/ EvaluationOrder[k] \in Danger
                    /\ Justified(i)[EvaluationOrder[k]]}
    IN  IF open = {} THEN ctx ELSE [state |-> EvaluationOrder[Min(open)], enteredAt |-> now]

(* Every signal is seen for the first time (advanceSignal without a prior); an *)
(* unknown activation yields no observation at all.                            *)
FirstSighting(support) == IF support > 0 THEN "EMERGING" ELSE "EXPIRED"

Signals(smart, latest) ==
    LET support == [smart_money |-> smart, rug_risk |-> latest.rug,
                    holders |-> latest.top, wash_trading |-> latest.wash]
    IN  [s \in {t \in DOMAIN support : support[t] # Unknown} |-> FirstSighting(support[s])]

Identities == {"smart_money", "rug_risk", "holders", "wash_trading"}

-----------------------------------------------------------------------------

NoAnalytics == [token |-> Token, cap |-> 0, liquidity |-> 0,
                rug |-> Unknown, top |-> Unknown, wash |-> Unknown]

(* The last row of the ranking stands for the newest analytics. *)
Latest(analytics) == IF analytics = <<>> THEN NoAnalytics ELSE Last(analytics)

(* evaluateToBattlefield: the whole chain, one step from OBSERVING. *)
Evaluate(obs, at) ==
    LET Series(field) == [i \in DOMAIN obs.market |->
                            [at |-> obs.market[i].at, value |-> obs.market[i][field]]]
        metrics == FlowMetrics(obs.flow)
        price == TemporalProfile(Series("close"))
        coherence == Coherence(DirectedVectors(price, TemporalProfile(Series("volume")), metrics))
        latest == Latest(obs.analytics)
        smart == SmartInflow(metrics)
        power == Power(LiquidityDepth(latest), smart, metrics, coherence)
        threat == Threat(latest)
        confidence == Confidence(obs, at, price, coherence)
        inputs == [power |-> power, threat |-> threat, confidence |-> confidence,
                   coherence |-> Present(coherence), trajectory |-> Trajectory(price),
                   persistence |-> metrics.persistence]
    IN  [state |-> StepStateMachine([state |-> "OBSERVING", enteredAt |-> at], inputs, at).state,
         power |-> power, threat |-> threat, coherence |-> Present(coherence),
         flowLeads |-> FlowLeads(obs.flow, Series("close")),
         attention |-> Attention(power, confidence, coherence),
         signals |-> Signals(smart, latest)]

-----------------------------------------------------------------------------
(* The acquisition: three calls, each awaited before the next is sent; the    *)
(* first failure ends it. "at" is the instant its caller read before it.       *)

VARIABLES
    now,
    reading,    \* the acquisition in flight
    report      \* the last evaluation: the instant, what was read, the entry

evaluationVars == <<now, reading, report>>

NoReading == [stage |-> "idle", at |-> 0, obs |-> [market |-> <<>>, analytics |-> <<>>, flow |-> <<>>]]

EvaluationInit ==
    /\ now = 0
    /\ reading = NoReading
    /\ report = [at |-> 0, obs |-> NoReading.obs, entry |-> Evaluate(NoReading.obs, 0)]

StartReading ==
    /\ reading = NoReading
    /\ reading' = [stage |-> "kline", at |-> now, obs |-> NoReading.obs]

KlineAnswers ==
    /\ reading.stage = "kline"
    /\ \E rows \in Klines :
        reading' = [stage |-> "trending", at |-> reading.at,
                    obs |-> [reading.obs EXCEPT !.market = ParseKline(rows, now)]]
    /\ UNCHANGED <<now, report>>

TrendingAnswers ==
    /\ reading.stage = "trending"
    /\ \E rows \in Rankings :
        reading' = [stage |-> "track", at |-> reading.at,
                    obs |-> [reading.obs EXCEPT !.analytics = ParseTrending(rows)]]
    /\ UNCHANGED <<now, report>>

(* The last lane: the evaluation follows it without another wait. *)
TrackAnswers ==
    /\ reading.stage = "track"
    /\ reading' = NoReading
    /\ \E rows \in Tracks :
        LET obs == [reading.obs EXCEPT !.flow = ParseTrack(rows, now)]
        IN  report' = [at |-> reading.at, obs |-> obs, entry |-> Evaluate(obs, reading.at)]
    /\ UNCHANGED now

LaneFails ==
    /\ reading # NoReading
    /\ reading' = NoReading
    /\ UNCHANGED <<now, report>>

-----------------------------------------------------------------------------
(* Properties.                                                                *)

(* A danger state is never read out of what was not measured: it takes all    *)
(* three security fields and the wash-trading flag, and a price series whose  *)
(* direction is known (features/threatActivations.ts: an unknown field        *)
(* contributes nothing; the weights of the other two stay below the threshold).*)
DangerNeedsEvidence ==
    report.entry.state \in Danger =>
        /\ \A f \in {"rug", "top", "wash"} : Latest(report.obs.analytics)[f] # Unknown
        /\ Latest(report.obs.analytics).wash = One
        /\ Cardinality({m.at : m \in ToSet(report.obs.market)}) >= 2

(* GmgnAcquisitionPort "acquires + normalizes GMGN data for exactly one token" *)
(* (product/scan/ports/ports.ts:46): leaving out the rows of other tokens      *)
(* changes nothing in the entry.                                              *)
OneTokenOnly ==
    LET Mine(r) == r.token = Token
        own == [report.obs EXCEPT !.analytics = SelectSeq(@, Mine), !.flow = SelectSeq(@, Mine)]
    IN  report.entry = Evaluate(own, report.at)

=============================================================================
