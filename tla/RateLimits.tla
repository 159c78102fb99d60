----------------------------- MODULE RateLimits -----------------------------
(***************************************************************************)
(* The limiters: the token bucket of the HTTP server (security.ts), and    *)
(* the leaky bucket of the GMGN routes with the plan made from it.  The    *)
(* clock is the host's and may be set back.  Tokens are counted in units   *)
(* of 1/Second of a token, so that r tokens per second are r units per     *)
(* tick, exactly.                                                          *)
(***************************************************************************)
EXTENDS Integers, Sequences, FiniteSetsExt

CONSTANTS
    Second,      \* ticks of a second
    Burst, PerSecond,  \* RateLimitConfig: capacity, refillPerSecond
    IdleFor,     \* ticks after which prune drops a bucket
    Capacity, Rate,    \* BucketConfig
    Weights,     \* of routes (ROUTE_WEIGHTS)
    MaxTicks,    \* bound on time going forward
    MaxSetbacks, \* bound on how far the clock is set back, in all
    MaxQueue     \* bound on the requests of a plan

ASSUME LimitsAssumption ==
    /\ {Second, Burst, PerSecond, Capacity, Rate} \subseteq Nat \ {0}
    /\ Weights \subseteq 1..Capacity
    /\ IdleFor \in Nat /\ IdleFor * PerSecond >= Burst * Second
    /\ MaxTicks \in Nat /\ MaxSetbacks \in Nat /\ MaxQueue \in Nat

VARIABLES
    clock,
    client,   \* [units, at] of one client, or Absent
    bucket,   \* [units, at] of the GMGN bucket
    forward,  \* history: ticks the clock went forward
    setbacks, \* how far it was set back
    served,   \* history: requests the client got through
    admitted  \* history: weight the bucket admitted

limitVars == <<clock, client, bucket, forward, setbacks, served, admitted>>

Absent == [units |-> 0, at |-> -1]

LimitsInit ==
    /\ clock = 0
    /\ client = Absent
    /\ bucket = [units |-> Capacity * Second, at |-> 0]
    /\ forward = 0
    /\ setbacks = 0
    /\ served = 0
    /\ admitted = 0

---------------------------------------------------------------------------
(* The client's bucket *)

\* take: refill by what passed, nothing if the clock went back, and one token.
TakeRefill(b) ==
    IF b = Absent THEN Burst * Second
    ELSE Min({Burst * Second, b.units + Max({0, clock - b.at}) * PerSecond})

Take ==
    LET units == TakeRefill(client) IN
    IF units >= Second
    THEN client' = [units |-> units - Second, at |-> clock] /\ served' = served + 1
    ELSE client' = [units |-> units, at |-> clock] /\ UNCHANGED served

\* Mutant: prune takes its idle time in seconds.
IdleBriefly == client # Absent /\ (clock - client.at) * Second > IdleFor

Idle == client # Absent /\ clock - client.at > IdleFor

Prune == Idle /\ client' = Absent

---------------------------------------------------------------------------
(* The routes' bucket *)

Refill(b, now) ==
    IF now <= b.at THEN b
    ELSE [units |-> Min({Capacity * Second, b.units + (now - b.at) * Rate}), at |-> now]

\* [admitted, state, retryAfter]: an admission dates the bucket now, also when
\* the clock is behind it.
TryAdmit(b, weight, now) ==
    LET r == Refill(b, now) IN
    IF r.units >= weight * Second
    THEN [admitted |-> TRUE, state |-> [units |-> r.units - weight * Second, at |-> now],
          retryAfter |-> 0]
    ELSE [admitted |-> FALSE, state |-> r,
          retryAfter |-> (weight * Second - r.units + Rate - 1) \div Rate]

Admit(weight) ==
    LET d == TryAdmit(bucket, weight, clock) IN
    /\ bucket' = d.state
    /\ admitted' = IF d.admitted THEN admitted + weight ELSE admitted

\* Mutant: the deferral is rounded down.
DeferralFloor(d) == (d.retryAfter * Rate - 1) \div Rate

Deferral(d) == d.retryAfter

\* planSchedule: each request in turn, deferred until the bucket admits it; one
\* deferral is enough, and a weight above the capacity would defer for ever.
PlanNext(p, weight) ==
    LET d == TryAdmit(p.state, weight, p.now)
        t == IF d.admitted THEN p.now ELSE p.now + Deferral(d)
        e == IF d.admitted THEN d ELSE TryAdmit(d.state, weight, t)
    IN  [now |-> t, state |-> e.state, times |-> Append(p.times, t), ok |-> p.ok /\ e.admitted]

\* A full bucket, and nothing planned yet.
PlanFirst(start) ==
    [now |-> start, state |-> [units |-> Capacity * Second, at |-> start],
     times |-> <<>>, ok |-> TRUE]

PlanSchedule(requests, start) ==
    LET plan[i \in 0..Len(requests)] ==
            IF i = 0 THEN PlanFirst(start) ELSE PlanNext(plan[i - 1], requests[i])
    IN  plan[Len(requests)]

---------------------------------------------------------------------------

Client ==
    /\ \/ Take
       \/ Prune /\ UNCHANGED served
    /\ UNCHANGED <<clock, bucket, forward, setbacks, admitted>>

Route ==
    /\ \E w \in Weights : Admit(w)
    /\ UNCHANGED <<clock, client, forward, setbacks, served>>

Forward ==
    /\ forward < MaxTicks
    /\ clock' = clock + 1
    /\ forward' = forward + 1
    /\ UNCHANGED <<client, bucket, setbacks, served, admitted>>

SetBack ==
    /\ setbacks < MaxSetbacks
    /\ clock > 0
    /\ clock' = clock - 1
    /\ setbacks' = setbacks + 1
    /\ UNCHANGED <<client, bucket, forward, served, admitted>>

LimitsNext == Client \/ Route \/ Forward \/ SetBack

LimitsSpec == LimitsInit /\ [][LimitsNext]_limitVars

---------------------------------------------------------------------------
(* Properties *)

\* Neither bucket gives more than its burst and what the time the clock went
\* forward adds, whatever is set back or pruned in between: a pruned bucket
\* would have been full again.
BucketsBound ==
    /\ served * Second <= Burst * Second + forward * PerSecond
    /\ admitted * Second <= Capacity * Second + forward * Rate

Queues == UNION {[1..n -> Weights] : n \in 1..MaxQueue}

\* What the requests i..j weigh.
WeightUpTo(q, i, j) ==
    LET from[k \in 0..Len(q)] == IF k < i THEN 0 ELSE from[k - 1] + q[k]
    IN  from[j]

\* The plan runs each request at the earliest time at which no stretch of
\* requests that ends with it takes more than the bucket holds and gains.
PlanIsEarliest ==
    \A q \in Queues :
        LET p == PlanSchedule(q, clock)
            Fits(j, t) ==
                \A i \in 1..j :
                    WeightUpTo(q, i, j) * Second <= Capacity * Second
                        + Rate * (t - (IF i = j THEN t ELSE p.times[i]))
        IN p.ok /\ \A j \in 1..Len(q) :
               /\ Fits(j, p.times[j])
               /\ LET before == IF j = 1 THEN clock ELSE p.times[j - 1]
                  IN p.times[j] > before => ~Fits(j, p.times[j] - 1)
=============================================================================
