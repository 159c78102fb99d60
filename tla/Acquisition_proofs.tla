------------------------- MODULE Acquisition_proofs -------------------------
(***************************************************************************)
(* Theorems about what acquires data and what watches it - the resilient   *)
(* executor, the two limiters and the monitoring session - for any number  *)
(* of callers, any timeouts, delays, thresholds, capacities and rates, and *)
(* any way the clock goes.                                                 *)
(***************************************************************************)
EXTENDS Transport, RateLimits, Monitor, FiniteSetTheorems, TLAPS

LEMMA MinOfTwo ==
  ASSUME NEW a \in Int, NEW b \in Int
  PROVE  Min({a, b}) = IF a <= b THEN a ELSE b
  <1> DEFINE m == IF a <= b THEN a ELSE b
  <1>1. m \in {a, b} /\ \A y \in {a, b} : m <= y
    OBVIOUS
  <1>2. \A x \in {a, b} : (\A y \in {a, b} : x <= y) => x = m
    OBVIOUS
  <1> HIDE DEF m
  <1>3. Min({a, b}) = m
    BY <1>1, <1>2 DEF Min
  <1> QED
    BY <1>3 DEF m

LEMMA MaxOfTwo ==
  ASSUME NEW a \in Int, NEW b \in Int
  PROVE  Max({a, b}) = IF a >= b THEN a ELSE b
  <1> DEFINE m == IF a >= b THEN a ELSE b
  <1>1. m \in {a, b} /\ \A y \in {a, b} : m >= y
    OBVIOUS
  <1>2. \A x \in {a, b} : (\A y \in {a, b} : x >= y) => x = m
    OBVIOUS
  <1> HIDE DEF m
  <1>3. Max({a, b}) = m
    BY <1>1, <1>2 DEF Max
  <1> QED
    BY <1>3 DEF m

\* A set of subsets of a finite set has a smallest one.
LEMMA SmallestSubset ==
  ASSUME NEW D, IsFiniteSet(D), NEW C \in SUBSET SUBSET D, C # {}
  PROVE  \E s \in C : \A t \in C : t \subseteq s => t = s
  <1>1. IsWellFoundedOn(StrictSubsetOrdering(D), SUBSET D)
    BY FS_StrictSubsetOrderingWellFounded, FS_FiniteSubsetsOfFinite
  <1>2. PICK s \in C : \A t \in C : ~(<<t, s>> \in StrictSubsetOrdering(D))
    BY <1>1, WFMin
  <1> QED
    BY <1>2 DEF StrictSubsetOrdering

\* A set of numbers that holds 0, and the next of each up to n, holds them all:
\* the intervals below those it lacks would have no smallest.
LEMMA CountUp ==
  ASSUME NEW n \in Nat, NEW S \in SUBSET (0..n), 0 \in S,
         \A k \in 1..n : k - 1 \in S => k \in S
  PROVE  S = 0..n
  <1> DEFINE D == 0..n
             C == {0..k : k \in D \ S}
  <1> SUFFICES ASSUME S # 0..n PROVE FALSE
    OBVIOUS
  <1>1. C \in SUBSET SUBSET D /\ C # {}
    <2>1. PICK k \in D \ S : TRUE
      OBVIOUS
    <2>2. 0..k \in C
      BY <2>1
    <2>3. \A j \in D : 0..j \subseteq D
      OBVIOUS
    <2> QED
      BY <2>2, <2>3
  <1>2. PICK s \in C : \A t \in C : t \subseteq s => t = s
    <2>1. IsFiniteSet(D)
      BY FS_Interval
    <2> HIDE DEF C, D
    <2> QED
      BY <1>1, <2>1, SmallestSubset
  <1>3. PICK k \in (0..n) \ S : s = 0..k
    BY <1>2
  <1>4. k \in 1..n /\ k - 1 \in (0..n) \ S
    BY <1>3
  <1>5. 0..(k - 1) \in C /\ 0..(k - 1) \subseteq s
    BY <1>3, <1>4
  <1>6. 0..(k - 1) = 0..k
    BY <1>2, <1>3, <1>5
  <1>7. k \in 0..k /\ k \notin 0..(k - 1)
    BY <1>3
  <1> QED
    BY <1>6, <1>7

---------------------------------------------------------------------------
(* The executor *)

Breakers == [phase : {"CLOSED", "OPEN", "HALF_OPEN"}, failures : Nat, wait : Nat]

\* The breaker counts what the history counts, and opens at the threshold; open
\* it waits out what is left of the cooldown, half open it has waited.
BreakerInv ==
    /\ breaker \in Breakers /\ streak \in Nat /\ quiet \in Nat
    /\ breaker.failures = streak
    /\ breaker.phase = "CLOSED" <=> streak < FailureThreshold
    /\ breaker.phase = "OPEN" => breaker.wait + quiet >= Cooldown
    /\ breaker.phase = "HALF_OPEN" => quiet >= Cooldown

\* A run has its attempts left, and those are what it owed when the switch was
\* engaged less what it began since.
Draining(c) ==
    /\ tpc[c] \in {"idle", "try", "sleep"}
    /\ attempt[c] \in 0 .. MaxAttempts
    /\ owed[c] \in Nat /\ late[c] \in Nat
    /\ tpc[c] = "idle" => attempt[c] = 0
    /\ tpc[c] = "sleep" => attempt[c] < MaxAttempts
    /\ killed => late[c] + LeftOver(c) <= owed[c]

\* The one stray a caller has is older than its running attempt.
OneStray(c) ==
    /\ \A s, t \in strays[c] : s = t
    /\ \A s \in strays[c] :
          /\ s \in 1 .. InnerLimit - Timeout
          /\ tpc[c] = "try" => s + Timeout <= InnerLimit - Timeout + timer[c]
    /\ tpc[c] = "try" => timer[c] \in 0 .. Timeout

CallsTyped ==
    /\ DOMAIN tpc = Callers /\ tpc = [c \in Callers |-> tpc[c]]
    /\ DOMAIN attempt = Callers /\ attempt = [c \in Callers |-> attempt[c]]
    /\ DOMAIN timer = Callers /\ timer = [c \in Callers |-> timer[c]]
    /\ DOMAIN strays = Callers /\ strays = [c \in Callers |-> strays[c]]
    /\ DOMAIN owed = Callers /\ owed = [c \in Callers |-> owed[c]]
    /\ DOMAIN late = Callers /\ late = [c \in Callers |-> late[c]]
    /\ killed \in BOOLEAN

TransportInv ==
    /\ CallsTyped
    /\ BreakerInv
    /\ \A c \in Callers : Draining(c)

\* The child's own timeout is at most twice the executor's (20 s and 15 s by
\* default): a child that outlives its attempt ends before the next one can.
ShortInner == InnerLimit <= 2 * Timeout

StraysInv == \A c \in Callers : OneStray(c)

LEMMA TransportInitSafe == TransportInit => TransportInv /\ StraysInv
  <1> SUFFICES ASSUME TransportInit PROVE TransportInv /\ StraysInv
    OBVIOUS
  <1>1. CallsTyped
    BY DEF TransportInit, CallsTyped
  <1>2. BreakerInv
    BY TransportAssumption DEF TransportInit, InitBreaker, BreakerInv, Breakers
  <1>3. \A c \in Callers : Draining(c)
    BY TransportAssumption DEF TransportInit, Draining
  <1>4. \A c \in Callers : OneStray(c)
    BY DEF TransportInit, OneStray
  <1> QED
    BY <1>1, <1>2, <1>3, <1>4 DEF TransportInv, StraysInv

\* A failure counts, and opens the breaker at the threshold.
LEMMA FailureOpens ==
  ASSUME BreakerInv, breaker' = BreakerOnFailure(breaker),
         streak' = Min({FailureThreshold, streak + 1}), quiet' = 0
  PROVE  BreakerInv'
  <1>1. /\ FailureThreshold \in Nat \ {0} /\ Cooldown \in Nat
        /\ breaker \in Breakers /\ streak \in Nat /\ breaker.failures = streak
    BY TransportAssumption DEF BreakerInv
  <1> DEFINE n == Min({FailureThreshold, streak + 1})
  <1>2. n = IF FailureThreshold <= streak + 1 THEN FailureThreshold ELSE streak + 1
    BY <1>1, MinOfTwo
  <1> HIDE DEF n
  <1>3. CASE n >= FailureThreshold
    <2>1. breaker' = [phase |-> "OPEN", failures |-> n, wait |-> Cooldown]
      BY <1>1, <1>3 DEF BreakerOnFailure, n
    <2> QED
      BY <1>1, <1>2, <1>3, <2>1 DEF BreakerInv, Breakers, n
  <1>4. CASE n < FailureThreshold
    <2>1. breaker.phase = "CLOSED"
      BY <1>1, <1>2, <1>4 DEF BreakerInv
    <2>2. breaker' = [phase |-> "CLOSED", failures |-> n, wait |-> breaker.wait]
      BY <1>1, <1>2, <1>4, <2>1 DEF BreakerOnFailure, n
    <2> QED
      BY <1>1, <1>2, <1>4, <2>2 DEF BreakerInv, Breakers, n
  <1> QED
    BY <1>1, <1>2, <1>3, <1>4

\* What a conclusion does: the run is over or sleeps before an attempt it has left.
LEMMA ConcludeKeeps ==
  ASSUME TransportInv, NEW c \in Callers, tpc[c] = "try", NEW r, Conclude(c, r)
  PROVE  /\ BreakerInv'
         /\ \/ tpc' = [tpc EXCEPT ![c] = "idle"] /\ attempt' = [attempt EXCEPT ![c] = 0]
            \/ /\ tpc' = [tpc EXCEPT ![c] = "sleep"]
               /\ attempt' = attempt /\ attempt[c] < MaxAttempts
         /\ \E t : timer' = [timer EXCEPT ![c] = t]
  <1>1. CASE Classify(r) = "ok"
    <2>1. breaker' = InitBreaker /\ streak' = 0 /\ quiet' = quiet /\ Return(c)
      BY <1>1 DEF Conclude
    <2>2. BreakerInv'
      BY <2>1, TransportAssumption DEF TransportInv, BreakerInv, InitBreaker, Breakers
    <2> QED
      BY <2>1, <2>2 DEF Return
  <1>2. CASE Classify(r) # "ok"
    <2>1. /\ breaker' = BreakerOnFailure(breaker)
          /\ streak' = Min({FailureThreshold, streak + 1}) /\ quiet' = 0
      BY <1>2 DEF Conclude
    <2>2. BreakerInv'
      BY <2>1, FailureOpens DEF TransportInv
    <2> QED
      BY <1>2, <2>2 DEF Conclude, Return, Retries
  <1> QED
    BY <1>1, <1>2

\* The callers a step of c leaves alone.
Untouched(d) ==
    /\ tpc'[d] = tpc[d] /\ attempt'[d] = attempt[d] /\ timer'[d] = timer[d]
    /\ strays'[d] = strays[d] /\ owed'[d] = owed[d] /\ late'[d] = late[d]

\* What the steps of a caller do.
StepKept(c) ==
    /\ CallsTyped' /\ BreakerInv' /\ killed' = killed
    /\ \A d \in Callers \ {c} : Untouched(d)
    /\ Draining(c)'
    /\ ShortInner /\ OneStray(c) => OneStray(c)'

LEMMA RunKeeps ==
  ASSUME TransportInv, NEW c \in Callers, Run(c)
  PROVE  StepKept(c)
  <1>1. /\ CallsTyped /\ BreakerInv /\ Draining(c)
        /\ tpc[c] = "idle" /\ attempt[c] = 0
        /\ UNCHANGED <<killed, strays, owed, streak, quiet>>
    BY DEF TransportInv, Run, Running, Draining, history
  <1>2. BreakerInv'
    <2>1. breaker' = breaker \/ (breaker.phase = "OPEN" /\ breaker.wait = 0
                                 /\ breaker' = [breaker EXCEPT !.phase = "HALF_OPEN"])
      BY DEF Run, BreakerAllows
    <2>2. CASE breaker' = breaker
      BY <1>1, <2>2 DEF BreakerInv
    <2>3. CASE breaker.phase = "OPEN" /\ breaker.wait = 0
               /\ breaker' = [breaker EXCEPT !.phase = "HALF_OPEN"]
      <3>1. /\ breaker' \in Breakers /\ breaker'.phase = "HALF_OPEN"
            /\ breaker'.failures = breaker.failures
        BY <1>1, <2>3 DEF BreakerInv, Breakers
      <3> QED
        BY <1>1, <2>3, <3>1, TransportAssumption DEF BreakerInv, Breakers
    <2> QED
      BY <2>1, <2>2, <2>3
  <1>3. CASE MayStart
    <2>1. BeginAttempt(c) /\ ~killed
      BY <1>3 DEF Run, MayStart
    <2>2. /\ CallsTyped' /\ \A d \in Callers \ {c} : Untouched(d)
          /\ tpc'[c] = "try" /\ attempt'[c] = 1 /\ timer'[c] = Timeout
          /\ late' = late /\ owed' = owed
      <3>1. late' = late
        BY <2>1 DEF BeginAttempt
      <3>2. /\ tpc' = [tpc EXCEPT ![c] = "try"] /\ attempt' = [attempt EXCEPT ![c] = @ + 1]
            /\ timer' = [timer EXCEPT ![c] = Timeout]
        BY <2>1 DEF BeginAttempt, AttemptTimeout
      <3>3. CallsTyped'
        BY <1>1, <3>1, <3>2 DEF CallsTyped
      <3>4. \A d \in Callers \ {c} : Untouched(d)
        BY <1>1, <3>1, <3>2 DEF CallsTyped, Untouched
      <3>5. tpc'[c] = "try" /\ attempt'[c] = 1 /\ timer'[c] = Timeout
        BY <1>1, <3>2 DEF CallsTyped
      <3> QED
        BY <1>1, <3>1, <3>3, <3>4, <3>5
    <2>3. Draining(c)'
      BY <1>1, <2>1, <2>2, TransportAssumption DEF Draining
    <2>4. OneStray(c) => OneStray(c)'
      BY <1>1, <2>2, TransportAssumption DEF OneStray
    <2> QED
      BY <1>1, <1>2, <2>2, <2>3, <2>4 DEF StepKept
  <1>4. CASE ~MayStart
    <2>1. Return(c) /\ late' = late
      BY <1>4 DEF Run
    <2>2. /\ CallsTyped' /\ \A d \in Callers \ {c} : Untouched(d)
          /\ tpc'[c] = "idle" /\ attempt'[c] = 0
      BY <1>1, <2>1 DEF Return, CallsTyped, Untouched
    <2>3. Draining(c)'
      BY <1>1, <2>1, <2>2, TransportAssumption DEF Draining, LeftOver, Running
    <2>4. OneStray(c) => OneStray(c)'
      BY <1>1, <2>2 DEF OneStray
    <2> QED
      BY <1>1, <1>2, <2>2, <2>3, <2>4 DEF StepKept
  <1> QED
    BY <1>3, <1>4

\* A run whose attempt was answered, failed or timed out.
LEMMA ConcludedKeeps ==
  ASSUME TransportInv, NEW c \in Callers, tpc[c] = "try", NEW r, Conclude(c, r),
         UNCHANGED <<killed, owed, late>>
  PROVE  /\ BreakerInv'
         /\ \A d \in Callers \ {c} : tpc'[d] = tpc[d] /\ attempt'[d] = attempt[d]
                                     /\ timer'[d] = timer[d]
         /\ DOMAIN tpc' = Callers /\ tpc' = [d \in Callers |-> tpc'[d]]
         /\ DOMAIN attempt' = Callers /\ attempt' = [d \in Callers |-> attempt'[d]]
         /\ DOMAIN timer' = Callers /\ timer' = [d \in Callers |-> timer'[d]]
         /\ Draining(c)' /\ tpc'[c] \in {"idle", "sleep"}
  <1>1. CallsTyped /\ Draining(c)
    BY DEF TransportInv
  <1>2. /\ BreakerInv'
        /\ \/ tpc' = [tpc EXCEPT ![c] = "idle"] /\ attempt' = [attempt EXCEPT ![c] = 0]
           \/ /\ tpc' = [tpc EXCEPT ![c] = "sleep"]
              /\ attempt' = attempt /\ attempt[c] < MaxAttempts
        /\ \E t : timer' = [timer EXCEPT ![c] = t]
    BY ConcludeKeeps
  <1>3. \/ tpc'[c] = "idle" /\ attempt'[c] = 0
        \/ tpc'[c] = "sleep" /\ attempt'[c] = attempt[c] /\ attempt[c] < MaxAttempts
    BY <1>1, <1>2 DEF CallsTyped
  <1>4. Draining(c)'
    BY <1>1, <1>3, TransportAssumption DEF Draining, LeftOver, Running
  <1> QED
    BY <1>1, <1>2, <1>3, <1>4 DEF CallsTyped

LEMMA AnswerKeeps ==
  ASSUME TransportInv, NEW c \in Callers, Answer(c)
  PROVE  StepKept(c)
  <1>1. PICK r \in InnerResults : Conclude(c, r)
    BY DEF Answer
  <1>2. tpc[c] = "try" /\ UNCHANGED <<killed, strays, owed, late>>
    BY DEF Answer
  <1>3. /\ BreakerInv'
        /\ \A d \in Callers \ {c} : tpc'[d] = tpc[d] /\ attempt'[d] = attempt[d]
                                    /\ timer'[d] = timer[d]
        /\ DOMAIN tpc' = Callers /\ tpc' = [d \in Callers |-> tpc'[d]]
        /\ DOMAIN attempt' = Callers /\ attempt' = [d \in Callers |-> attempt'[d]]
        /\ DOMAIN timer' = Callers /\ timer' = [d \in Callers |-> timer'[d]]
        /\ Draining(c)' /\ tpc'[c] \in {"idle", "sleep"}
    BY <1>1, <1>2, ConcludedKeeps
  <1>4. CallsTyped' /\ \A d \in Callers \ {c} : Untouched(d)
    BY <1>2, <1>3 DEF TransportInv, CallsTyped, Untouched
  <1>5. OneStray(c) => OneStray(c)'
    BY <1>2, <1>3 DEF OneStray
  <1> QED
    BY <1>2, <1>3, <1>4, <1>5 DEF StepKept

LEMMA TimeOutKeeps ==
  ASSUME TransportInv, NEW c \in Callers, TimeOut(c)
  PROVE  StepKept(c)
  <1>1. /\ tpc[c] = "try" /\ timer[c] = 0 /\ Conclude(c, TimedOut)
        /\ strays' = [strays EXCEPT ![c] = @ \cup {InnerLimit - Timeout}]
        /\ UNCHANGED <<killed, owed, late>>
    BY DEF TimeOut, TimerFires, AttemptTimeout
  <1>2. /\ BreakerInv'
        /\ \A d \in Callers \ {c} : tpc'[d] = tpc[d] /\ attempt'[d] = attempt[d]
                                    /\ timer'[d] = timer[d]
        /\ DOMAIN tpc' = Callers /\ tpc' = [d \in Callers |-> tpc'[d]]
        /\ DOMAIN attempt' = Callers /\ attempt' = [d \in Callers |-> attempt'[d]]
        /\ DOMAIN timer' = Callers /\ timer' = [d \in Callers |-> timer'[d]]
        /\ Draining(c)' /\ tpc'[c] \in {"idle", "sleep"}
    BY <1>1, ConcludedKeeps
  <1>3. CallsTyped
    BY DEF TransportInv
  <1>4. /\ strays'[c] = strays[c] \cup {InnerLimit - Timeout}
        /\ \A d \in Callers \ {c} : strays'[d] = strays[d]
        /\ DOMAIN strays' = Callers /\ strays' = [d \in Callers |-> strays'[d]]
    BY <1>1, <1>3 DEF CallsTyped
  <1>5. CallsTyped' /\ \A d \in Callers \ {c} : Untouched(d)
    BY <1>1, <1>2, <1>3, <1>4 DEF CallsTyped, Untouched
  <1>6. ShortInner /\ OneStray(c) => OneStray(c)'
    <2> SUFFICES ASSUME ShortInner, OneStray(c) PROVE OneStray(c)'
      OBVIOUS
    <2>1. strays[c] = {}
      <3> SUFFICES ASSUME NEW s \in strays[c] PROVE FALSE
        OBVIOUS
      <3>1. s \in 1 .. InnerLimit - Timeout /\ s + Timeout <= InnerLimit - Timeout + timer[c]
        BY <1>1 DEF OneStray
      <3> QED
        BY <1>1, <3>1, TransportAssumption DEF ShortInner
    <2>2. strays'[c] = {InnerLimit - Timeout}
      BY <1>4, <2>1
    <2> QED
      BY <1>2, <2>2, TransportAssumption DEF OneStray
  <1> QED
    BY <1>1, <1>2, <1>5, <1>6 DEF StepKept

LEMMA ThrowKeeps ==
  ASSUME TransportInv, NEW c \in Callers, Throw(c)
  PROVE  StepKept(c)
  <1>1. /\ CallsTyped /\ BreakerInv /\ Draining(c)
        /\ Return(c) /\ UNCHANGED <<breaker, killed, strays, streak, quiet, owed, late>>
    BY DEF TransportInv, Throw, history
  <1>2. /\ CallsTyped' /\ \A d \in Callers \ {c} : Untouched(d)
        /\ tpc'[c] = "idle" /\ attempt'[c] = 0
    BY <1>1 DEF Return, CallsTyped, Untouched
  <1>3. Draining(c)'
    BY <1>1, <1>2, TransportAssumption DEF Draining, LeftOver, Running
  <1>4. OneStray(c) => OneStray(c)'
    BY <1>1, <1>2 DEF OneStray
  <1> QED
    BY <1>1, <1>2, <1>3, <1>4 DEF StepKept, BreakerInv

LEMMA RetryKeeps ==
  ASSUME TransportInv, NEW c \in Callers, Retry(c)
  PROVE  StepKept(c)
  <1>1. /\ CallsTyped /\ BreakerInv /\ Draining(c) /\ tpc[c] = "sleep"
        /\ BeginAttempt(c) /\ UNCHANGED <<breaker, killed, strays, streak, quiet, owed>>
    BY DEF TransportInv, Retry, history
  <1>2. /\ CallsTyped' /\ \A d \in Callers \ {c} : Untouched(d)
        /\ tpc'[c] = "try" /\ attempt'[c] = attempt[c] + 1 /\ timer'[c] = Timeout
        /\ late'[c] = IF killed THEN late[c] + 1 ELSE late[c]
    BY <1>1 DEF BeginAttempt, CallsTyped, Untouched, AttemptTimeout
  <1>3. Draining(c)'
    BY <1>1, <1>2, TransportAssumption DEF Draining, LeftOver, Running
  <1>4. OneStray(c) => OneStray(c)'
    BY <1>1, <1>2, TransportAssumption DEF OneStray
  <1> QED
    BY <1>1, <1>2, <1>3, <1>4 DEF StepKept, BreakerInv

LEMMA StrayEndsKeeps ==
  ASSUME TransportInv, NEW c \in Callers, StrayEnds(c)
  PROVE  StepKept(c)
  <1>1. PICK left \in strays[c] : strays' = [strays EXCEPT ![c] = @ \ {left}]
    BY DEF StrayEnds
  <1>2. /\ CallsTyped /\ BreakerInv /\ Draining(c)
        /\ UNCHANGED <<breaker, killed, tpc, attempt, timer, streak, quiet, owed, late>>
    BY DEF TransportInv, StrayEnds, history, calls
  <1>3. /\ CallsTyped' /\ \A d \in Callers \ {c} : Untouched(d)
        /\ strays'[c] = strays[c] \ {left}
    BY <1>1, <1>2 DEF CallsTyped, Untouched
  <1>4. Draining(c)'
    BY <1>2, <1>3 DEF Draining, LeftOver, Running
  <1>5. OneStray(c) => OneStray(c)'
    BY <1>2, <1>3 DEF OneStray
  <1> QED
    BY <1>2, <1>3, <1>4, <1>5 DEF StepKept, BreakerInv

LEMMA CallerStepSafe ==
  ASSUME TransportInv, NEW c \in Callers, TransportStep(c)
  PROVE  TransportInv' /\ (ShortInner /\ StraysInv => StraysInv')
  <1>1. StepKept(c)
    BY RunKeeps, AnswerKeeps, ThrowKeeps, TimeOutKeeps, RetryKeeps, StrayEndsKeeps
       DEF TransportStep
  <1>2. \A d \in Callers : Draining(d)'
    <2> SUFFICES ASSUME NEW d \in Callers, d # c PROVE Draining(d)'
      BY <1>1 DEF StepKept
    <2> QED
      BY <1>1 DEF StepKept, Untouched, TransportInv, Draining, LeftOver, Running
  <1>3. ShortInner /\ StraysInv => StraysInv'
    <2> SUFFICES ASSUME ShortInner, StraysInv, NEW d \in Callers PROVE OneStray(d)'
      BY DEF StraysInv
    <2>1. CASE d = c
      BY <1>1, <2>1 DEF StepKept, StraysInv
    <2>2. CASE d # c
      BY <1>1, <2>2 DEF StepKept, Untouched, StraysInv, OneStray
    <2> QED
      BY <2>1, <2>2
  <1> QED
    BY <1>1, <1>2, <1>3 DEF StepKept, TransportInv

\* The operator's switch dates what is owed.
LEMMA SwitchSafe ==
  ASSUME TransportInv, SwitchKill
  PROVE  TransportInv' /\ (StraysInv => StraysInv')
  <1>1. /\ CallsTyped /\ BreakerInv
        /\ killed' = ~killed
        /\ owed' = [c \in Callers |-> IF killed THEN 0 ELSE LeftOver(c)]
        /\ late' = [c \in Callers |-> 0]
        /\ UNCHANGED <<breaker, tpc, attempt, timer, strays, streak, quiet>>
    BY DEF TransportInv, SwitchKill, calls, history
  <1>2. CallsTyped'
    BY <1>1 DEF CallsTyped
  <1>3. \A c \in Callers : Draining(c)'
    <2> SUFFICES ASSUME NEW c \in Callers PROVE Draining(c)'
      OBVIOUS
    <2>1. /\ Draining(c) /\ late'[c] = 0
          /\ owed'[c] = IF killed THEN 0 ELSE LeftOver(c)
      BY <1>1 DEF TransportInv
    <2>2. LeftOver(c)' = LeftOver(c) /\ LeftOver(c) \in Nat
      BY <1>1, <2>1, TransportAssumption DEF LeftOver, Running, Draining
    <2>3. CASE killed
      BY <1>1, <2>1, <2>2, <2>3 DEF Draining
    <2>4. CASE ~killed
      BY <1>1, <2>1, <2>2, <2>4 DEF Draining
    <2> QED
      BY <2>3, <2>4
  <1>4. StraysInv => StraysInv'
    BY <1>1 DEF StraysInv, OneStray
  <1> QED
    BY <1>1, <1>2, <1>3, <1>4 DEF TransportInv, BreakerInv

LEMMA TickSafe ==
  ASSUME TransportInv, Tick
  PROVE  TransportInv' /\ (StraysInv => StraysInv')
  <1>1. /\ CallsTyped /\ BreakerInv
        /\ \A c \in Callers : ~Due(c)
        /\ timer' = [c \in Callers |-> Down(timer[c])]
        /\ strays' = [c \in Callers |-> {left - 1 : left \in strays[c] \ {1}}]
        /\ breaker' = [breaker EXCEPT !.wait = Down(@)]
        /\ quiet' = Min({Cooldown, quiet + 1})
        /\ UNCHANGED <<killed, tpc, attempt, streak, owed, late>>
    BY DEF TransportInv, Tick
  <1>2. CallsTyped'
    BY <1>1 DEF CallsTyped
  <1>3. \A c \in Callers : Draining(c)'
    BY <1>1 DEF TransportInv, Draining, LeftOver, Running
  <1>4. BreakerInv'
    <2>1. breaker \in Breakers /\ quiet \in Nat /\ Cooldown \in Nat
      BY <1>1, TransportAssumption DEF BreakerInv
    <2>2. quiet' = IF Cooldown <= quiet + 1 THEN Cooldown ELSE quiet + 1
      BY <1>1, <2>1, MinOfTwo
    <2>3. /\ breaker' \in Breakers /\ breaker'.phase = breaker.phase
          /\ breaker'.failures = breaker.failures
          /\ breaker'.wait = Down(breaker.wait)
      BY <1>1, <2>1 DEF Breakers, Down
    <2> QED
      BY <1>1, <2>1, <2>2, <2>3 DEF BreakerInv, Breakers, Down
  <1>5. StraysInv => StraysInv'
    <2> SUFFICES ASSUME StraysInv, NEW c \in Callers PROVE OneStray(c)'
      BY DEF StraysInv
    <2>1. /\ OneStray(c) /\ tpc'[c] = tpc[c] /\ timer'[c] = Down(timer[c])
          /\ strays'[c] = {left - 1 : left \in strays[c] \ {1}}
      BY <1>1 DEF StraysInv
    <2>2. tpc[c] = "try" => timer[c] # 0
      BY <1>1 DEF Due
    <2> QED
      BY <2>1, <2>2, TransportAssumption DEF OneStray, Down
  <1> QED
    BY <1>2, <1>3, <1>4, <1>5 DEF TransportInv

LEMMA TransportStepSafe ==
  /\ TransportInv /\ [TransportNext]_transportVars => TransportInv'
  /\ ShortInner /\ TransportInv /\ StraysInv /\ [TransportNext]_transportVars => StraysInv'
  <1> SUFFICES ASSUME TransportInv, [TransportNext]_transportVars
               PROVE  TransportInv' /\ (ShortInner /\ StraysInv => StraysInv')
    OBVIOUS
  <1>1. CASE UNCHANGED transportVars
    <2>1. CallsTyped' /\ BreakerInv'
      BY <1>1 DEF TransportInv, transportVars, CallsTyped, BreakerInv
    <2>2. \A c \in Callers : Draining(c)'
      BY <1>1 DEF TransportInv, transportVars, Draining, LeftOver, Running
    <2>3. StraysInv => StraysInv'
      BY <1>1 DEF transportVars, StraysInv, OneStray
    <2> QED
      BY <2>1, <2>2, <2>3 DEF TransportInv
  <1> QED
    BY <1>1, CallerStepSafe, SwitchSafe, TickSafe DEF TransportNext

LEMMA TransportSafe == TransportSpec => []TransportInv
  BY TransportInitSafe, TransportStepSafe, PTL DEF TransportSpec

\* "When engaged, NO acquisition proceeds" (the kill switch): runs that were under
\* way go on to their last attempt, each for itself, and nothing else begins.
THEOREM KillSwitchDrains == TransportSpec => []KillDrains
  <1>1. TransportInv => KillDrains
    <2> SUFFICES ASSUME TransportInv, killed, NEW c \in Callers PROVE late[c] <= owed[c]
      BY DEF KillDrains
    <2>1. Draining(c)
      BY DEF TransportInv
    <2>2. LeftOver(c) \in Nat
      BY <2>1, TransportAssumption DEF Draining, LeftOver
    <2> QED
      BY <2>1, <2>2 DEF Draining
  <1> QED
    BY <1>1, TransportSafe, PTL

\* A caller has at most two child processes, however often its attempts time out,
\* if the child's timeout is at most twice the executor's.
THEOREM ProcessesAreBounded ==
  ASSUME ShortInner
  PROVE  TransportSpec => []ProcessesBounded
  <1>1. TransportSpec => []StraysInv
    BY TransportInitSafe, TransportStepSafe, PTL DEF TransportSpec
  <1>2. StraysInv => TwoProcesses
    <2> SUFFICES ASSUME StraysInv, NEW c \in Callers PROVE Cardinality(strays[c]) \in {0, 1}
      BY DEF TwoProcesses
    <2>1. OneStray(c)
      BY DEF StraysInv
    <2>2. CASE strays[c] = {}
      BY <2>2, FS_EmptySet
    <2>3. CASE strays[c] # {}
      <3>1. PICK s \in strays[c] : TRUE
        BY <2>3
      <3>2. strays[c] = {s}
        BY <2>1, <3>1 DEF OneStray
      <3> QED
        BY <3>2, FS_Singleton
    <2> QED
      BY <2>2, <2>3
  <1> QED
    BY <1>1, <1>2, KillSwitchDrains, PTL DEF ProcessesBounded

\* A run starts within the cooldown only if the executor has not failed the
\* threshold of times since a success, whoever's failures and successes.
THEOREM CooldownIsKept == TransportSpec => CooldownKept
  <1> DEFINE Kept ==
        \A c \in Callers :
            ~Running(c) /\ Running(c)' => streak < FailureThreshold \/ quiet >= Cooldown
  <1>1. TransportInv /\ [TransportNext]_transportVars => [Kept]_transportVars
    <2> SUFFICES ASSUME TransportInv, TransportNext, NEW c \in Callers,
                        ~Running(c), Running(c)'
                 PROVE  streak < FailureThreshold \/ quiet >= Cooldown
      OBVIOUS
    <2>1. tpc[c] = "idle" /\ tpc'[c] # "idle"
      BY DEF Running
    <2>2. Run(c)
      <3>1. ~SwitchKill /\ ~Tick
        BY <2>1 DEF SwitchKill, Tick, calls
      <3>2. PICK d \in Callers : TransportStep(d)
        BY <3>1 DEF TransportNext
      <3>3. StepKept(d)
        BY <3>2, RunKeeps, AnswerKeeps, ThrowKeeps, TimeOutKeeps, RetryKeeps, StrayEndsKeeps
           DEF TransportStep
      <3>4. d = c
        BY <2>1, <3>3 DEF StepKept, Untouched
      <3> QED
        BY <2>1, <3>2, <3>4 DEF TransportStep, Answer, Throw, TimeOut, Retry, StrayEnds, calls
    <2>3. MayStart
      BY <2>1, <2>2 DEF Run, Return, TransportInv, CallsTyped
    <2>4. breaker.phase # "OPEN" \/ breaker.wait = 0
      BY <2>3 DEF MayStart, BreakerAllows
    <2> QED
      BY <2>4, TransportAssumption DEF TransportInv, BreakerInv, Breakers
  <1> QED
    BY <1>1, TransportSafe, PTL DEF TransportSpec, CooldownKept

---------------------------------------------------------------------------
(* The limiters *)

LEMMA Distributes ==
  ASSUME NEW a \in Int, NEW b \in Int, NEW k \in Int
  PROVE  (a + b) * k = a * k + b * k
  OBVIOUS

LEMMA ProductsGrow ==
  ASSUME NEW a \in Int, NEW b \in Int, NEW k \in Nat, a <= b
  PROVE  a * k <= b * k
  <1>1. \A n \in Nat : n * k \in Nat
    OBVIOUS
  <1>2. b = a + (b - a) /\ b - a \in Nat
    OBVIOUS
  <1>3. (a + (b - a)) * k = a * k + (b - a) * k
    BY Distributes
  <1> QED
    BY <1>1, <1>2, <1>3

\* The ticks a bucket has not been given yet.
Pending(b) == IF clock > b.at THEN clock - b.at ELSE 0

BucketStates == [units : Nat, at : Nat]

\* A bucket that gave given, in units of its size, holds what its burst and the
\* time the clock went forward leave; pending ticks count as held.
Holds(b, given, size, rate) ==
    given * Second + b.units + Pending(b) * rate <= size * Second + forward * rate

LimitsInv ==
    /\ clock \in Nat /\ forward \in Nat /\ served \in Nat /\ admitted \in Nat
    /\ client = Absent \/ client \in BucketStates
    /\ bucket \in BucketStates
    /\ client = Absent => served * Second <= forward * PerSecond
    /\ client # Absent => Holds(client, served, Burst, PerSecond)
    /\ Holds(bucket, admitted, Capacity, Rate)

LEMMA LimitsTyped ==
  /\ Second \in Nat \ {0} /\ Burst \in Nat \ {0} /\ PerSecond \in Nat \ {0}
  /\ Capacity \in Nat \ {0} /\ Rate \in Nat \ {0}
  /\ Weights \subseteq 1 .. Capacity
  /\ IdleFor * PerSecond >= Burst * Second
  BY LimitsAssumption

LEMMA LimitsInitSafe == LimitsInit => LimitsInv
  <1> SUFFICES ASSUME LimitsInit PROVE LimitsInv
    OBVIOUS
  <1>1. Capacity * Second \in Nat
    BY LimitsTyped
  <1>2. bucket = [units |-> Capacity * Second, at |-> 0] /\ bucket \in BucketStates
    BY <1>1 DEF LimitsInit, BucketStates
  <1>3. Pending(bucket) = 0
    BY <1>2 DEF Pending, LimitsInit
  <1>4. 0 * Second = 0 /\ 0 * PerSecond = 0 /\ 0 * Rate = 0
    BY LimitsTyped
  <1>5. Holds(bucket, admitted, Capacity, Rate)
    BY <1>1, <1>2, <1>3, <1>4 DEF Holds, LimitsInit
  <1> QED
    BY <1>2, <1>4, <1>5 DEF LimitsInv, LimitsInit

\* A refill gives a bucket its pending ticks, up to its size, and dates it.
LEMMA RefillHolds ==
  ASSUME LimitsInv, NEW b \in BucketStates, NEW given \in Nat, NEW size \in Nat, NEW rate \in Nat,
         Holds(b, given, size, rate)
  PROVE  LET full == size * Second
             gained == b.units + Pending(b) * rate
         IN  /\ full \in Nat /\ gained \in Nat
             /\ given * Second + (IF full <= gained THEN full ELSE gained) <= full + forward * rate
  <1>1. /\ Pending(b) \in Nat /\ b.units \in Nat /\ clock \in Nat /\ forward \in Nat
    BY DEF LimitsInv, BucketStates, Pending
  <1>2. /\ size * Second \in Nat /\ Pending(b) * rate \in Nat
        /\ given * Second \in Nat /\ forward * rate \in Nat
    BY <1>1, LimitsTyped
  <1> QED
    BY <1>1, <1>2 DEF Holds

\* A bucket dated now has nothing pending.
LEMMA DatedNow ==
  ASSUME LimitsInv, clock' = clock
  PROVE  \A n : Pending([units |-> n, at |-> clock])' = 0
  BY DEF Pending, LimitsInv

LEMMA TakeSafe ==
  ASSUME LimitsInv, Take, UNCHANGED <<clock, bucket, forward, setbacks, admitted>>
  PROVE  LimitsInv'
  <1> DEFINE full == Burst * Second
             gained == client.units + Pending(client) * PerSecond
             units == TakeRefill(client)
             f == forward * PerSecond
             g == served * Second
  <1>0. /\ clock \in Nat /\ forward \in Nat /\ served \in Nat /\ full \in Nat
        /\ f \in Nat /\ g \in Nat /\ Second \in Nat \ {0} /\ PerSecond \in Nat
        /\ full >= Second
    <2>1. 1 * Second <= Burst * Second
      BY LimitsTyped, ProductsGrow
    <2> QED
      BY <2>1, LimitsTyped DEF LimitsInv
  <1>1. units \in Nat /\ g + units <= full + f
    <2>1. CASE client = Absent
      BY <1>0, <2>1 DEF TakeRefill, LimitsInv
    <2>2. CASE client # Absent
      <3>1. client \in BucketStates /\ Holds(client, served, Burst, PerSecond)
        BY <2>2 DEF LimitsInv
      <3>2. Max({0, clock - client.at}) = Pending(client)
        BY <1>0, <3>1, MaxOfTwo DEF Pending, BucketStates
      <3>3. /\ full \in Nat /\ gained \in Nat
            /\ g + (IF full <= gained THEN full ELSE gained) <= full + f
        BY <3>1, RefillHolds, LimitsTyped DEF LimitsInv
      <3>4. units = Min({full, gained})
        BY <2>2, <3>2 DEF TakeRefill
      <3> HIDE DEF full, gained, units, f, g
      <3>5. units = IF full <= gained THEN full ELSE gained
        BY <3>3, <3>4, MinOfTwo
      <3> QED
        BY <3>3, <3>5
    <2> QED
      BY <2>1, <2>2
  <1>2. (served + 1) * Second = g + Second
    BY <1>0, Distributes
  <1>3. \A n : Pending([units |-> n, at |-> clock])' = 0
    BY DatedNow
  <1>4. 0 * PerSecond = 0
    BY LimitsTyped
  <1>5. CASE units >= Second
    <2>1. client' = [units |-> units - Second, at |-> clock] /\ served' = served + 1
      BY <1>5 DEF Take
    <2>2. client' \in BucketStates /\ client' # Absent
      BY <1>0, <1>1, <1>5, <2>1 DEF BucketStates, Absent
    <2>3. Pending(client)' = 0
      BY <1>3, <2>1
    <2>4. Holds(client, served, Burst, PerSecond)'
      BY <1>0, <1>1, <1>2, <1>4, <2>1, <2>3 DEF Holds
    <2> QED
      BY <1>0, <2>1, <2>2, <2>4 DEF LimitsInv, Holds, Pending
  <1>6. CASE ~(units >= Second)
    <2>1. client' = [units |-> units, at |-> clock] /\ served' = served
      BY <1>6 DEF Take
    <2>2. client' \in BucketStates /\ client' # Absent
      BY <1>0, <1>1, <2>1 DEF BucketStates, Absent
    <2>3. Pending(client)' = 0
      BY <1>3, <2>1
    <2>4. Holds(client, served, Burst, PerSecond)'
      BY <1>0, <1>1, <1>4, <2>1, <2>3 DEF Holds
    <2> QED
      BY <1>0, <2>1, <2>2, <2>4 DEF LimitsInv, Holds, Pending
  <1> QED
    BY <1>5, <1>6

\* A bucket that is dropped would have been full again.
LEMMA PruneSafe ==
  ASSUME LimitsInv, Prune, UNCHANGED <<served, clock, bucket, forward, setbacks, admitted>>
  PROVE  LimitsInv'
  <1> DEFINE f == forward * PerSecond
             g == served * Second
             p == Pending(client) * PerSecond
             full == Burst * Second
  <1>1. /\ client # Absent /\ client \in BucketStates /\ clock - client.at > IdleFor
        /\ client' = Absent /\ Holds(client, served, Burst, PerSecond)
    BY DEF Prune, Idle, LimitsInv
  <1>2. IdleFor \in Int
    BY LimitsAssumption
  <1>3. Pending(client) >= IdleFor /\ Pending(client) \in Int
    BY <1>1, <1>2 DEF Pending, LimitsInv, BucketStates
  <1>4. IdleFor * PerSecond <= p
    BY <1>2, <1>3, LimitsTyped, ProductsGrow
  <1>5. p >= full /\ f \in Int /\ g \in Int /\ p \in Int /\ full \in Int /\ client.units \in Nat
    BY <1>1, <1>2, <1>3, <1>4, LimitsTyped DEF LimitsInv, BucketStates
  <1>6. g + client.units + p <= full + f
    BY <1>1 DEF Holds
  <1>7. g <= f
    <2> HIDE DEF f, g, p, full
    <2> QED
      BY <1>5, <1>6
  <1> QED
    BY <1>1, <1>7 DEF LimitsInv, Holds, Pending

LEMMA AdmitSafe ==
  ASSUME LimitsInv, NEW w \in Weights, Admit(w),
         UNCHANGED <<clock, client, forward, setbacks, served>>
  PROVE  LimitsInv'
  <1> DEFINE full == Capacity * Second
             gained == bucket.units + Pending(bucket) * Rate
             r == Refill(bucket, clock)
             cost == w * Second
             f == forward * Rate
             g == admitted * Second
  <1>0. /\ clock \in Nat /\ forward \in Nat /\ admitted \in Nat /\ full \in Nat
        /\ f \in Nat /\ g \in Nat /\ cost \in Nat /\ w \in Nat
        /\ bucket \in BucketStates /\ Holds(bucket, admitted, Capacity, Rate)
    BY LimitsTyped DEF LimitsInv
  <1>1. /\ gained \in Nat
        /\ g + (IF full <= gained THEN full ELSE gained) <= full + f
    BY <1>0, RefillHolds, LimitsTyped
  <1>2. r \in BucketStates /\ g + r.units <= full + f /\ (r.at = clock \/ (r = bucket /\ clock <= r.at))
    <2>1. CASE clock <= bucket.at
      <3>1. r = bucket /\ Pending(bucket) = 0
        BY <1>0, <2>1 DEF Refill, Pending, BucketStates
      <3>2. g + bucket.units + 0 * Rate <= full + f
        BY <1>0, <3>1 DEF Holds
      <3> QED
        BY <1>0, <2>1, <3>1, <3>2, LimitsTyped DEF BucketStates
    <2>2. CASE clock > bucket.at
      <3>1. r = [units |-> Min({full, gained}), at |-> clock]
        BY <1>0, <2>2 DEF Refill, Pending, BucketStates
      <3>2. Min({full, gained}) = IF full <= gained THEN full ELSE gained
        <4> HIDE DEF full, gained
        <4> QED
          BY <1>0, <1>1, MinOfTwo
      <3> HIDE DEF full, gained
      <3> QED
        BY <1>0, <1>1, <3>1, <3>2 DEF BucketStates
    <2> QED
      BY <1>0, <2>1, <2>2 DEF BucketStates
  <1>3. (admitted + w) * Second = g + cost
    BY <1>0, LimitsTyped, Distributes
  <1>4. 0 * Rate = 0
    BY LimitsTyped
  <1>5. CASE r.units >= cost
    <2>1. /\ bucket' = [units |-> r.units - cost, at |-> clock]
          /\ admitted' = admitted + w
      BY <1>5 DEF Admit, TryAdmit
    <2>2. bucket' \in BucketStates
      BY <1>0, <1>2, <1>5, <2>1 DEF BucketStates
    <2>3. Pending(bucket)' = 0
      BY <2>1, DatedNow
    <2>4. Holds(bucket, admitted, Capacity, Rate)'
      BY <1>0, <1>2, <1>3, <1>4, <2>1, <2>3 DEF Holds, BucketStates
    <2> QED
      BY <1>0, <2>1, <2>2, <2>4 DEF LimitsInv, Holds, Pending
  <1>6. CASE ~(r.units >= cost)
    <2>1. bucket' = r /\ admitted' = admitted
      BY <1>6 DEF Admit, TryAdmit
    <2>2. Pending(bucket)' = 0
      BY <1>0, <1>2, <2>1 DEF Pending, BucketStates
    <2>3. Holds(bucket, admitted, Capacity, Rate)'
      BY <1>0, <1>2, <1>4, <2>1, <2>2 DEF Holds, BucketStates
    <2> QED
      BY <1>0, <1>2, <2>1, <2>3 DEF LimitsInv, Holds, Pending
  <1> QED
    BY <1>5, <1>6

\* A tick of the clock is pending in every bucket at most once.
LEMMA TimeHolds ==
  ASSUME LimitsInv, NEW b \in BucketStates, NEW given \in Nat, NEW size \in Nat, NEW rate \in Nat,
         Holds(b, given, size, rate), Forward \/ SetBack
  PROVE  given * Second + b.units + (IF clock' > b.at THEN clock' - b.at ELSE 0) * rate
             <= size * Second + forward' * rate
  <1> DEFINE later == IF clock' > b.at THEN clock' - b.at ELSE 0
             p == Pending(b) * rate
             f == forward * rate
             q == later * rate
             h == forward' * rate
             g == given * Second
             full == size * Second
  <1>1. /\ Pending(b) \in Nat /\ b.units \in Nat /\ clock \in Nat /\ forward \in Nat
        /\ b.at \in Nat
    BY DEF LimitsInv, BucketStates, Pending
  <1>2. p \in Int /\ f \in Int /\ g \in Int /\ full \in Int
    BY <1>1, LimitsTyped
  <1>3. CASE Forward
    <2>1. clock' = clock + 1 /\ forward' = forward + 1
      BY <1>3 DEF Forward
    <2>2. later \in Nat /\ later <= Pending(b) + 1
      BY <1>1, <2>1 DEF Pending
    <2>3. q <= (Pending(b) + 1) * rate
      BY <1>1, <2>2, ProductsGrow
    <2>4. (Pending(b) + 1) * rate = p + 1 * rate /\ h = f + 1 * rate
      BY <1>1, <2>1, Distributes
    <2>5. q \in Int
      BY <2>2
    <2>6. g + b.units + p <= full + f
      BY DEF Holds
    <2> QED
      BY <1>1, <1>2, <2>3, <2>4, <2>5, <2>6
  <1>4. CASE SetBack
    <2>1. clock' = clock - 1 /\ forward' = forward
      BY <1>4 DEF SetBack
    <2>2. later \in Nat /\ later <= Pending(b)
      BY <1>1, <2>1 DEF Pending
    <2>3. q <= p /\ q \in Int /\ h = f
      BY <1>1, <2>1, <2>2, ProductsGrow
    <2>4. g + b.units + p <= full + f
      BY DEF Holds
    <2> QED
      BY <1>1, <1>2, <2>3, <2>4
  <1> QED
    BY <1>3, <1>4

LEMMA TimeSafe ==
  ASSUME LimitsInv, Forward \/ SetBack
  PROVE  LimitsInv'
  <1>1. /\ UNCHANGED <<client, bucket, served, admitted>>
        /\ clock' \in Nat /\ forward' \in Nat /\ forward' >= forward
        /\ served \in Nat /\ admitted \in Nat /\ forward \in Nat /\ bucket \in BucketStates
    BY DEF LimitsInv, Forward, SetBack
  <1>2. client = Absent => served * Second <= forward' * PerSecond
    <2> DEFINE h == forward'
    <2>1. h \in Int /\ forward \in Int /\ forward <= h /\ PerSecond \in Nat /\ served * Second \in Int
      BY <1>1, LimitsTyped
    <2> HIDE DEF h
    <2>2. forward * PerSecond <= h * PerSecond
      BY <2>1, ProductsGrow
    <2>3. forward * PerSecond \in Int /\ h * PerSecond \in Int
      BY <2>1
    <2>4. client = Absent => served * Second <= forward * PerSecond
      BY DEF LimitsInv
    <2>5. client = Absent => served * Second <= h * PerSecond
      BY <2>1, <2>2, <2>3, <2>4
    <2> QED
      BY <2>5 DEF h
  <1>3. client # Absent => Holds(client, served, Burst, PerSecond)'
    <2> SUFFICES ASSUME client # Absent PROVE Holds(client, served, Burst, PerSecond)'
      OBVIOUS
    <2>1. client \in BucketStates /\ Holds(client, served, Burst, PerSecond)
      BY DEF LimitsInv
    <2>2. served * Second + client.units + (IF clock' > client.at THEN clock' - client.at ELSE 0) * PerSecond
              <= Burst * Second + forward' * PerSecond
      BY <1>1, <2>1, LimitsTyped, TimeHolds
    <2> QED
      BY <1>1, <2>2 DEF Holds, Pending
  <1>4. Holds(bucket, admitted, Capacity, Rate)'
    <2>1. admitted * Second + bucket.units + (IF clock' > bucket.at THEN clock' - bucket.at ELSE 0) * Rate
              <= Capacity * Second + forward' * Rate
      BY <1>1, LimitsTyped, TimeHolds DEF LimitsInv
    <2> QED
      BY <1>1, <2>1 DEF Holds, Pending
  <1>5. client = Absent \/ client \in BucketStates
    BY DEF LimitsInv
  <1> QED
    BY <1>1, <1>2, <1>3, <1>4, <1>5 DEF LimitsInv

LEMMA LimitsSafe == LimitsSpec => []LimitsInv
  <1>1. LimitsInv /\ [LimitsNext]_limitVars => LimitsInv'
    <2> SUFFICES ASSUME LimitsInv, [LimitsNext]_limitVars PROVE LimitsInv'
      OBVIOUS
    <2>1. CASE Client
      <3>1. CASE Take /\ UNCHANGED <<clock, bucket, forward, setbacks, admitted>>
        BY <3>1, TakeSafe
      <3>2. CASE Prune /\ UNCHANGED <<served, clock, bucket, forward, setbacks, admitted>>
        BY <3>2, PruneSafe
      <3> QED
        BY <2>1, <3>1, <3>2 DEF Client
    <2>2. CASE Route
      BY <2>2, AdmitSafe DEF Route
    <2>3. CASE Forward \/ SetBack
      BY <2>3, TimeSafe
    <2>4. CASE UNCHANGED limitVars
      BY <2>4 DEF limitVars, LimitsInv, Holds, Pending
    <2> QED
      BY <2>1, <2>2, <2>3, <2>4 DEF LimitsNext
  <1> QED
    BY <1>1, LimitsInitSafe, PTL DEF LimitsSpec

\* Neither limiter gives more than its burst and what the time the clock went
\* forward adds, for every burst, rate and weight, through every pruning and
\* however often the host's clock is set back.
THEOREM BucketsAreBound == LimitsSpec => []BucketsBound
  <1>1. LimitsInv => BucketsBound
    <2> SUFFICES ASSUME LimitsInv PROVE BucketsBound
      OBVIOUS
    <2>1. admitted * Second <= Capacity * Second + forward * Rate
      <3> DEFINE full == Capacity * Second
                 f == forward * Rate
                 g == admitted * Second
                 p == Pending(bucket) * Rate
      <3>1. g + bucket.units + p <= full + f /\ bucket.units \in Nat
        BY DEF LimitsInv, Holds, BucketStates
      <3>2. full \in Nat /\ f \in Nat /\ g \in Nat /\ p \in Nat
        BY LimitsTyped DEF LimitsInv, Pending, BucketStates
      <3> HIDE DEF full, f, g, p
      <3>3. g <= full + f
        BY <3>1, <3>2
      <3> QED
        BY <3>3 DEF full, f, g
    <2>2. served * Second <= Burst * Second + forward * PerSecond
      <3> DEFINE full == Burst * Second
                 f == forward * PerSecond
                 g == served * Second
                 p == Pending(client) * PerSecond
      <3>1. full \in Nat /\ f \in Nat /\ g \in Nat
        BY LimitsTyped DEF LimitsInv
      <3>2. CASE client = Absent
        <4>1. g <= f
          BY <3>2 DEF LimitsInv
        <4> HIDE DEF full, f, g
        <4>2. g <= full + f
          BY <3>1, <4>1
        <4> QED
          BY <4>2 DEF full, f, g
      <3>3. CASE client # Absent
        <4>1. g + client.units + p <= full + f /\ client.units \in Nat
          BY <3>3 DEF LimitsInv, Holds, BucketStates
        <4>2. p \in Nat
          BY <3>3, LimitsTyped DEF LimitsInv, Pending, BucketStates
        <4> HIDE DEF full, f, g, p
        <4>3. g <= full + f
          BY <3>1, <4>1, <4>2
        <4> QED
          BY <4>3 DEF full, f, g
      <3> QED
        BY <3>2, <3>3
    <2> QED
      BY <2>1, <2>2 DEF BucketsBound
  <1> QED
    BY <1>1, LimitsSafe, PTL

---------------------------------------------------------------------------
(* The plan of a queue.  A bucket that was full at the start holds, after  *)
(* each request, the least of what it could hold had it been full before   *)
(* any one of those run so far (Tight).  It never holds less than nothing, *)
(* so no stretch of requests takes too much; and a request that waits does *)
(* so for the stretch that leaves exactly what the bucket holds.  The plan *)
(* and the weights are recursive functions: that they exist and what they  *)
(* hold is shown for each prefix of the queue in turn (CountUp).           *)

\* f is the plan of the first n requests, and the weights from the i-th on.
Plans(q, start, n, f) ==
    f = [i \in 0..n |-> IF i = 0 THEN PlanFirst(start) ELSE PlanNext(f[i - 1], q[i])]

Adds(q, i, n, f) == f = [k \in 0..n |-> IF k < i THEN 0 ELSE f[k - 1] + q[k]]

LEMMA PlansExist ==
  ASSUME NEW q, NEW start, NEW n \in Nat
  PROVE  \E f : Plans(q, start, n, f)
  <1> DEFINE S == {k \in 0..n : \E f : Plans(q, start, k, f)}
  <1>1. 0 \in S
    <2>1. Plans(q, start, 0, [i \in 0..0 |-> PlanFirst(start)])
      BY DEF Plans
    <2> QED
      BY <2>1
  <1>2. ASSUME NEW k \in 1..n, k - 1 \in S
        PROVE  k \in S
    <2>1. PICK f : Plans(q, start, k - 1, f)
      BY <1>2
    <2> DEFINE g == [i \in 0..k |-> IF i = k THEN PlanNext(f[k - 1], q[k]) ELSE f[i]]
    <2>2. ASSUME NEW i \in 0..k
          PROVE  g[i] = IF i = 0 THEN PlanFirst(start) ELSE PlanNext(g[i - 1], q[i])
      <3>1. CASE i = k
        BY <3>1
      <3>2. CASE i # k
        <4>1. i \in 0..(k - 1) /\ i - 1 # k
          BY <3>2
        <4>2. f[i] = IF i = 0 THEN PlanFirst(start) ELSE PlanNext(f[i - 1], q[i])
          BY <2>1, <4>1 DEF Plans
        <4>3. g[i] = f[i] /\ (i # 0 => g[i - 1] = f[i - 1])
          BY <3>2, <4>1
        <4> QED
          BY <4>2, <4>3
      <3> QED
        BY <3>1, <3>2
    <2>3. g = [i \in 0..k |-> g[i]]
      OBVIOUS
    <2> HIDE DEF g
    <2>4. Plans(q, start, k, g)
      BY <2>2, <2>3 DEF Plans
    <2> QED
      BY <2>4
  <1>3. S = 0..n
    <2>1. S \in SUBSET (0..n)
      OBVIOUS
    <2> HIDE DEF S
    <2> QED
      BY <1>1, <1>2, <2>1, CountUp
  <1> QED
    BY <1>3

LEMMA AddsExist ==
  ASSUME NEW q, NEW i \in Nat \ {0}, NEW n \in Nat
  PROVE  \E f : Adds(q, i, n, f)
  <1> DEFINE S == {k \in 0..n : \E f : Adds(q, i, k, f)}
  <1>1. 0 \in S
    <2>1. Adds(q, i, 0, [k \in 0..0 |-> 0])
      BY DEF Adds
    <2> QED
      BY <2>1
  <1>2. ASSUME NEW k \in 1..n, k - 1 \in S
        PROVE  k \in S
    <2>1. PICK f : Adds(q, i, k - 1, f)
      BY <1>2
    <2> DEFINE g == [j \in 0..k |-> IF j = k THEN (IF k < i THEN 0 ELSE f[k - 1] + q[k]) ELSE f[j]]
    <2>2. ASSUME NEW j \in 0..k
          PROVE  g[j] = IF j < i THEN 0 ELSE g[j - 1] + q[j]
      <3>1. CASE j = k
        BY <3>1
      <3>2. CASE j # k
        <4>1. j \in 0..(k - 1) /\ j - 1 # k /\ (~(j < i) => j - 1 \in 0..k)
          BY <3>2
        <4>2. f[j] = IF j < i THEN 0 ELSE f[j - 1] + q[j]
          BY <2>1, <4>1 DEF Adds
        <4>3. g[j] = f[j] /\ (~(j < i) => g[j - 1] = f[j - 1])
          BY <3>2, <4>1
        <4> QED
          BY <4>2, <4>3
      <3> QED
        BY <3>1, <3>2
    <2>3. g = [j \in 0..k |-> g[j]]
      OBVIOUS
    <2> HIDE DEF g
    <2>4. Adds(q, i, k, g)
      BY <2>2, <2>3 DEF Adds
    <2> QED
      BY <2>4
  <1>3. S = 0..n
    <2>1. S \in SUBSET (0..n)
      OBVIOUS
    <2> HIDE DEF S
    <2> QED
      BY <1>1, <1>2, <2>1, CountUp
  <1> QED
    BY <1>3

LEMMA PlanFound ==
  ASSUME NEW q, NEW start, Len(q) \in Nat
  PROVE  \E f : Plans(q, start, Len(q), f) /\ PlanSchedule(q, start) = f[Len(q)]
  <1> DEFINE f == CHOOSE f : Plans(q, start, Len(q), f)
  <1>1. Plans(q, start, Len(q), f)
    BY PlansExist
  <1>2. PlanSchedule(q, start) = f[Len(q)]
    BY DEF PlanSchedule, Plans
  <1> QED
    BY <1>1, <1>2

\* What a stretch of requests weighs, a request at a time.
LEMMA WeightEquation ==
  ASSUME NEW q, Len(q) \in Nat, NEW i \in Nat \ {0}, NEW j \in 0..Len(q)
  PROVE  WeightUpTo(q, i, j) = IF j < i THEN 0 ELSE WeightUpTo(q, i, j - 1) + q[j]
  <1> DEFINE f == CHOOSE f : Adds(q, i, Len(q), f)
  <1>1. Adds(q, i, Len(q), f)
    BY AddsExist
  <1>2. \A k : WeightUpTo(q, i, k) = f[k]
    BY DEF WeightUpTo, Adds
  <1> HIDE DEF f
  <1> QED
    BY <1>1, <1>2 DEF Adds
LEMMA WeightTyped ==
  ASSUME NEW q, Len(q) \in Nat, \A k \in 1..Len(q) : q[k] \in Nat, NEW i \in Nat \ {0}
  PROVE  \A j \in 0..Len(q) : WeightUpTo(q, i, j) \in Nat
  <1> DEFINE S == {j \in 0..Len(q) : WeightUpTo(q, i, j) \in Nat}
  <1>1. 0 \in S
    <2>1. WeightUpTo(q, i, 0) = 0
      BY WeightEquation
    <2> QED
      BY <2>1
  <1>2. ASSUME NEW k \in 1..Len(q), k - 1 \in S
        PROVE  k \in S
    <2>1. WeightUpTo(q, i, k) = IF k < i THEN 0 ELSE WeightUpTo(q, i, k - 1) + q[k]
      BY WeightEquation
    <2> QED
      BY <1>2, <2>1
  <1>3. S = 0..Len(q)
    <2>1. S \in SUBSET (0..Len(q))
      OBVIOUS
    <2> HIDE DEF S
    <2> QED
      BY <1>1, <1>2, <2>1, CountUp
  <1> QED
    BY <1>3

---------------------------------------------------------------------------
(* The bucket of the plan *)

Size == Capacity * Second

\* A plan that every request so far got through: the bucket is dated when the
\* last one ran and holds its size at most.
Planned(p, k) ==
    /\ p = [now |-> p.now, state |-> p.state, times |-> p.times, ok |-> TRUE]
    /\ p.now \in Int /\ p.state = [units |-> p.state.units, at |-> p.now]
    /\ p.state.units \in 0..Size
    /\ p.times \in Seq(Int) /\ Len(p.times) = k

\* How long a bucket of u units takes to gain what is missing of w.
LEMMA CeilingOf ==
  ASSUME NEW x \in Nat \ {0}, NEW r \in Nat \ {0}
  PROVE  LET d == (x + r - 1) \div r
         IN  d \in Nat \ {0} /\ d * r >= x /\ (d - 1) * r < x
  <1> DEFINE d == (x + r - 1) \div r
  <1>1. \A a \in Nat, b \in Nat \ {0} :
           a \div b \in Nat /\ (a \div b) * b <= a /\ a < (a \div b) * b + b
    OBVIOUS
  <1>2. x + r - 1 \in Nat
    OBVIOUS
  <1>3. d \in Nat /\ d * r <= x + r - 1 /\ x + r - 1 < d * r + r
    BY <1>1, <1>2
  <1> HIDE DEF d
  <1>4. d # 0
    <2> SUFFICES ASSUME d = 0 PROVE FALSE
      OBVIOUS
    <2>1. d * r = 0
      OBVIOUS
    <2> QED
      BY <1>3, <2>1
  <1>5. (d - 1) * r = d * r - r /\ d * r \in Int
    BY <1>3
  <1> QED
    BY <1>3, <1>4, <1>5 DEF d

\* A request runs at once if the bucket holds its weight, else as soon as the
\* bucket has gained it, and the bucket gains no more than its size.
LEMMA PlanNextStep ==
  ASSUME NEW p, NEW k \in Nat, Planned(p, k), NEW w \in 1..Capacity
  PROVE  LET n == PlanNext(p, w)
             u == p.state.units
             v == n.state.units
             gain == Rate * (n.now - p.now)
         IN  /\ Planned(n, k + 1)
             /\ n.times = Append(p.times, n.now)
             /\ n.now >= p.now /\ gain \in Nat
             /\ v = u + gain - w * Second \/ v = Size - w * Second
             /\ v <= u + gain - w * Second /\ v <= Size - w * Second
             /\ n.now > p.now => w * Second > u + Rate * (n.now - 1 - p.now)
  <1> DEFINE u == p.state.units
             need == w * Second
             n == PlanNext(p, w)
             d == (need - u + Rate - 1) \div Rate
             Reached ==
               /\ Planned(n, k + 1)
               /\ n.times = Append(p.times, n.now)
               /\ n.now >= p.now /\ Rate * (n.now - p.now) \in Nat
               /\ \/ n.state.units = u + Rate * (n.now - p.now) - need
                  \/ n.state.units = Size - need
               /\ n.state.units <= u + Rate * (n.now - p.now) - need
               /\ n.state.units <= Size - need
               /\ n.now > p.now => need > u + Rate * (n.now - 1 - p.now)
  <1>1. /\ Rate \in Nat \ {0} /\ Second \in Nat \ {0} /\ Capacity \in Nat \ {0} /\ Size \in Nat
        /\ need \in Nat /\ need <= Size
    <2>1. Rate \in Nat \ {0} /\ Second \in Nat \ {0} /\ Capacity \in Nat \ {0}
      BY LimitsAssumption
    <2>2. need \in Nat /\ Size \in Nat
      BY <2>1 DEF Size
    <2>3. (Capacity - w) * Second \in Nat /\ (Capacity - w) * Second = Capacity * Second - w * Second
      <3>1. Capacity - w \in Nat
        BY <2>1
      <3>2. \A a \in Nat, b \in Nat : a * b \in Nat
        OBVIOUS
      <3>3. (Capacity - w) * Second = Capacity * Second - w * Second
        BY <2>1
      <3> QED
        BY <2>1, <3>1, <3>2, <3>3
    <2> QED
      BY <2>1, <2>2, <2>3 DEF Size
  <1>2. /\ p.now \in Int /\ p.state.at = p.now /\ u \in 0..Size
        /\ p.ok = TRUE /\ p.times \in Seq(Int) /\ Len(p.times) = k
        /\ p.state = [units |-> u, at |-> p.now]
    BY DEF Planned
  <1>3. Refill(p.state, p.now) = p.state
    BY <1>2 DEF Refill
  <1>4. TryAdmit(p.state, w, p.now) =
          IF u >= need
          THEN [admitted |-> TRUE, state |-> [units |-> u - need, at |-> p.now], retryAfter |-> 0]
          ELSE [admitted |-> FALSE, state |-> p.state, retryAfter |-> d]
    BY <1>3 DEF TryAdmit
  <1> HIDE DEF need, u
  <1>5. CASE u >= need
    <2>1. n = [now |-> p.now, state |-> [units |-> u - need, at |-> p.now],
               times |-> Append(p.times, p.now), ok |-> TRUE]
      <3> DEFINE e == TryAdmit(p.state, w, p.now)
      <3>1. e.admitted = TRUE /\ e.state = [units |-> u - need, at |-> p.now]
        BY <1>4, <1>5
      <3> HIDE DEF e
      <3>2. n = [now |-> p.now, state |-> e.state, times |-> Append(p.times, p.now),
                 ok |-> p.ok /\ e.admitted]
        BY <3>1 DEF PlanNext, e
      <3> HIDE DEF n
      <3> QED
        BY <1>2, <3>1, <3>2
    <2> HIDE DEF n
    <2>2. u - need \in 0..Size /\ u - need <= Size - need
      BY <1>1, <1>2, <1>5
    <2>3. Append(p.times, p.now) \in Seq(Int) /\ Len(Append(p.times, p.now)) = k + 1
      BY <1>2
    <2>4. Planned(n, k + 1)
      BY <1>2, <2>1, <2>2, <2>3 DEF Planned
    <2>5. n.now = p.now /\ Rate * (n.now - p.now) = 0
      <3>1. n.now = p.now /\ n.now - p.now = 0 /\ Rate * 0 = 0
        BY <1>1, <1>2, <2>1
      <3> QED
        BY <3>1
    <2>6. n.state.units = u - need /\ n.times = Append(p.times, n.now)
      BY <2>1
    <2>7. Reached
      <3>1. /\ n.now >= p.now /\ ~(n.now > p.now)
            /\ u + 0 - need = u - need /\ u - need <= Size - need
        BY <1>1, <1>2, <2>2, <2>5
      <3>2. u - need <= u - need
        BY <1>1, <1>2
      <3> QED
        BY <2>4, <2>5, <2>6, <3>1, <3>2
    <2> QED
      BY <2>7 DEF n, u, need
  <1>6. CASE ~(u >= need)
    <2>1. need - u \in Nat \ {0}
      BY <1>1, <1>2, <1>6
    <2>2. d \in Nat \ {0} /\ d * Rate >= need - u /\ (d - 1) * Rate < need - u
      BY <1>1, <2>1, CeilingOf
    <2> HIDE DEF d
    <2> DEFINE t == p.now + d
               gain == d * Rate
               full == IF Size <= u + gain THEN Size ELSE u + gain
    <2>3. gain \in Nat /\ t \in Int /\ t - p.now = d /\ ~(t <= p.now)
      BY <1>1, <1>2, <2>2
    <2>4. Refill(p.state, t) = [units |-> full, at |-> t]
      <3>1. (t - p.now) * Rate = gain
        BY <2>3
      <3> HIDE DEF t, gain
      <3>2. Size \in Int /\ u + gain \in Int
        BY <1>1, <1>2, <2>3
      <3>3. Min({Size, u + gain}) = full
        BY <3>2, MinOfTwo
      <3>4. p.state.units = u /\ p.state.at = p.now
        BY <1>2
      <3> HIDE DEF full
      <3>5. ~(t <= p.state.at) /\ (t - p.state.at) * Rate = gain
        BY <2>3, <3>1, <3>4
      <3>6. Refill(p.state, t)
            = [units |-> Min({Size, p.state.units + (t - p.state.at) * Rate}), at |-> t]
        BY <3>5 DEF Refill, Size
      <3> QED
        BY <3>3, <3>4, <3>5, <3>6
    <2>5. full \in Nat /\ full >= need /\ full <= Size /\ full <= u + gain
          /\ (full = Size \/ full = u + gain)
      <3>1. gain >= need - u /\ gain \in Nat
        BY <2>2, <2>3
      <3>2. need \in Nat /\ Size \in Nat /\ u \in Nat /\ need <= Size
        BY <1>1, <1>2
      <3> HIDE DEF gain
      <3> QED
        BY <3>1, <3>2
    <2> HIDE DEF full, gain, t
    <2>6. TryAdmit(p.state, w, t)
          = [admitted |-> TRUE, state |-> [units |-> full - need, at |-> t], retryAfter |-> 0]
      BY <2>4, <2>5 DEF TryAdmit, need
    <2>7. n = [now |-> t, state |-> [units |-> full - need, at |-> t],
               times |-> Append(p.times, t), ok |-> TRUE]
      <3> DEFINE a == TryAdmit(p.state, w, p.now)
                 e == TryAdmit(p.state, w, t)
      <3>1. a.admitted = FALSE /\ a.state = p.state /\ p.now + Deferral(a) = t
        BY <1>4, <1>6 DEF Deferral, t
      <3>2. e.admitted = TRUE /\ e.state = [units |-> full - need, at |-> t]
        BY <2>6
      <3> HIDE DEF a, e
      <3>3. n = [now |-> t, state |-> e.state, times |-> Append(p.times, t),
                 ok |-> p.ok /\ e.admitted]
        BY <3>1 DEF PlanNext, a, e
      <3> HIDE DEF n
      <3> QED
        BY <1>2, <3>2, <3>3
    <2> HIDE DEF n
    <2>8. Append(p.times, t) \in Seq(Int) /\ Len(Append(p.times, t)) = k + 1
      BY <1>2, <2>3
    <2>9. full - need \in 0..Size
      BY <1>1, <2>5
    <2>10. Planned(n, k + 1)
      BY <2>3, <2>7, <2>8, <2>9 DEF Planned
    <2>11. n.now - p.now = d /\ n.now >= p.now /\ n.now - 1 - p.now = d - 1
      BY <1>2, <2>2, <2>3, <2>7
    <2>12. Rate * d = gain /\ Rate * (d - 1) = (d - 1) * Rate /\ (d - 1) * Rate \in Int
      BY <1>1, <2>2 DEF gain
    <2>13. need > u + Rate * (d - 1)
      BY <1>1, <1>2, <2>2, <2>12
    <2>14. n.state.units = full - need /\ n.times = Append(p.times, n.now)
      BY <2>7
    <2>15. Reached
      <3>1. Rate * (n.now - p.now) = gain /\ Rate * (n.now - 1 - p.now) = Rate * (d - 1)
        BY <2>11, <2>12
      <3>2. /\ full - need = u + gain - need \/ full - need = Size - need
            /\ full - need <= u + gain - need /\ full - need <= Size - need
        <4>1. need \in Nat /\ Size \in Nat /\ u \in Nat /\ gain \in Nat /\ full \in Nat
          BY <1>1, <1>2, <2>3, <2>5
        <4> QED
          BY <2>5, <4>1
      <3> QED
        BY <2>3, <2>10, <2>11, <2>13, <2>14, <3>1, <3>2
    <2> QED
      BY <2>15 DEF n, u, need
  <1> QED
    BY <1>5, <1>6
---------------------------------------------------------------------------
(* The earliest plan *)

\* What the bucket could hold after the k-th request had it been full before
\* the i-th.
Slack(q, f, i, k) ==
    Size + Rate * (f[k].now - f[i].now) - WeightUpTo(q, i, k) * Second

\* The bucket holds the least of those, so one of them exactly.
Tight(q, f, k) ==
    /\ Planned(f[k], k)
    /\ \A i \in 1..k : f[k].times[i] = f[i].now
    /\ \A i \in 1..k : f[k].state.units <= Slack(q, f, i, k)
    /\ k = 0 => f[k].state.units = Size
    /\ k > 0 => \E i \in 1..k : f[k].state.units = Slack(q, f, i, k)

LEMMA QueueTyped ==
  ASSUME NEW q \in Queues
  PROVE  /\ Len(q) \in Nat \ {0} /\ \A k \in 1..Len(q) : q[k] \in 1..Capacity
         /\ Capacity \in Nat \ {0} /\ Second \in Nat \ {0} /\ Rate \in Nat \ {0}
  <1>1. PICK n \in 1..MaxQueue : q \in [1..n -> Weights]
    BY DEF Queues
  <1>2. n \in Nat \ {0}
    BY LimitsAssumption
  <1>3. Len(q) = n
    BY <1>1, <1>2
  <1> QED
    BY <1>1, <1>2, <1>3, LimitsAssumption

\* The slack changes as the bucket does.
LEMMA SlackStep ==
  ASSUME NEW q \in Queues, NEW f, NEW k \in 1..Len(q),
         \A j \in 0..k : f[j].now \in Int
  PROVE  /\ \A i \in 1..(k - 1) :
              /\ Slack(q, f, i, k - 1) \in Int /\ Slack(q, f, i, k) \in Int
              /\ Slack(q, f, i, k)
                 = Slack(q, f, i, k - 1) + Rate * (f[k].now - f[k - 1].now) - q[k] * Second
         /\ Slack(q, f, k, k) = Size - q[k] * Second /\ q[k] * Second \in Nat
  <1>1. /\ Len(q) \in Nat /\ \A j \in 1..Len(q) : q[j] \in Nat
        /\ Second \in Nat /\ Rate \in Nat /\ Size \in Nat /\ q[k] * Second \in Nat
    <2>1. /\ Len(q) \in Nat /\ \A j \in 1..Len(q) : q[j] \in Nat
          /\ Second \in Nat /\ Rate \in Nat /\ Capacity \in Nat
      BY QueueTyped
    <2>2. \A a, b \in Nat : a * b \in Nat
      OBVIOUS
    <2> QED
      BY <2>1, <2>2 DEF Size
  <1>2. ASSUME NEW i \in 1..(k - 1)
        PROVE  /\ Slack(q, f, i, k - 1) \in Int /\ Slack(q, f, i, k) \in Int
               /\ Slack(q, f, i, k)
                  = Slack(q, f, i, k - 1) + Rate * (f[k].now - f[k - 1].now) - q[k] * Second
    <2> DEFINE V == WeightUpTo(q, i, k - 1)
               x == f[k].now
               y == f[k - 1].now
               z == f[i].now
    <2>1. WeightUpTo(q, i, k) = V + q[k] /\ V \in Nat
      <3>1. i \in Nat \ {0} /\ k - 1 \in 0..Len(q) /\ k \in 0..Len(q) /\ ~(k < i)
        BY <1>1
      <3>2. WeightUpTo(q, i, k) = IF k < i THEN 0 ELSE WeightUpTo(q, i, k - 1) + q[k]
        BY <1>1, <3>1, WeightEquation
      <3>3. V \in Nat
        BY <1>1, <3>1, WeightTyped
      <3> QED
        BY <3>1, <3>2, <3>3
    <2>2. x \in Int /\ y \in Int /\ z \in Int
      OBVIOUS
    <2> HIDE DEF V, x, y, z
    <2>3. (V + q[k]) * Second = V * Second + q[k] * Second /\ V * Second \in Int
      BY <1>1, <2>1
    <2>4. Rate * (x - z) = Rate * (x - y) + Rate * (y - z)
          /\ Rate * (x - y) \in Int /\ Rate * (y - z) \in Int
      BY <1>1, <2>2
    <2>5. /\ Slack(q, f, i, k) = Size + Rate * (x - z) - (V + q[k]) * Second
          /\ Slack(q, f, i, k - 1) = Size + Rate * (y - z) - V * Second
      BY <2>1 DEF Slack, V, x, y, z
    <2> DEFINE a == Rate * (x - y)
               c == Rate * (y - z)
               e == V * Second
               h == q[k] * Second
    <2>6. /\ Slack(q, f, i, k) = Size + (a + c) - (e + h) /\ Slack(q, f, i, k - 1) = Size + c - e
          /\ {a, c, e, h, Size} \subseteq Int
      BY <1>1, <2>3, <2>4, <2>5
    <2> HIDE DEF a, c, e, h
    <2>7. /\ Slack(q, f, i, k - 1) \in Int /\ Slack(q, f, i, k) \in Int
          /\ Slack(q, f, i, k) = Slack(q, f, i, k - 1) + a - h
      BY <2>6
    <2> QED
      BY <2>7 DEF a, h, x, y
  <1>3. Slack(q, f, k, k) = Size - q[k] * Second
    <2>1. WeightUpTo(q, k, k - 1) = 0
      BY <1>1, WeightEquation
    <2>2. WeightUpTo(q, k, k) = q[k]
      <3>1. WeightUpTo(q, k, k) = IF k < k THEN 0 ELSE WeightUpTo(q, k, k - 1) + q[k]
        BY <1>1, WeightEquation
      <3> QED
        BY <1>1, <2>1, <3>1
    <2>3. f[k].now - f[k].now = 0 /\ Rate * 0 = 0
      BY <1>1
    <2> QED
      BY <1>1, <2>2, <2>3 DEF Slack
  <1> QED
    BY <1>1, <1>2, <1>3

LEMMA TightStep ==
  ASSUME NEW q \in Queues, NEW f, NEW start \in Int, Plans(q, start, Len(q), f),
         NEW k \in 1..Len(q), \A j \in 0..(k - 1) : Tight(q, f, j)
  PROVE  Tight(q, f, k)
  <1> DEFINE p == f[k - 1]
             n == f[k]
             need == q[k] * Second
             gain == Rate * (n.now - p.now)
             u == p.state.units
             v == n.state.units
  <1>1. k - 1 \in Nat /\ k \in Nat \ {0} /\ Len(q) \in Nat
    BY QueueTyped
  <1>2. Tight(q, f, k - 1) /\ Planned(p, k - 1)
    BY <1>1 DEF Tight
  <1>3. n = PlanNext(p, q[k])
    BY <1>1 DEF Plans
  <1>4. q[k] \in 1..Capacity
    BY QueueTyped
  <1> HIDE DEF p, n
  <1>5. /\ Planned(n, k - 1 + 1)
        /\ n.times = Append(p.times, n.now)
        /\ n.now >= p.now /\ gain \in Nat
        /\ v = u + gain - need \/ v = Size - need
        /\ v <= u + gain - need /\ v <= Size - need
    BY <1>1, <1>2, <1>3, <1>4, PlanNextStep
  <1>6. Planned(n, k) /\ n.now \in Int /\ p.now \in Int
    BY <1>1, <1>2, <1>5 DEF Planned
  <1>7. \A j \in 0..k : f[j].now \in Int
    <2>1. \A j \in 0..(k - 1) : f[j].now \in Int
      BY DEF Tight, Planned
    <2>2. \A j \in 0..k : j \in 0..(k - 1) \/ j = k
      BY <1>1
    <2> QED
      BY <1>6, <2>1, <2>2 DEF n
  <1>8. /\ \A i \in 1..(k - 1) :
             /\ Slack(q, f, i, k - 1) \in Int /\ Slack(q, f, i, k) \in Int
             /\ Slack(q, f, i, k) = Slack(q, f, i, k - 1) + gain - need
        /\ Slack(q, f, k, k) = Size - need /\ need \in Nat
    BY <1>7, SlackStep DEF n, p
  <1>9. u \in Int /\ v \in Int /\ Size \in Int
    <2>1. u \in 0..Size /\ v \in 0..Size
      BY <1>2, <1>6 DEF Planned
    <2>2. Size \in Int
      BY QueueTyped DEF Size
    <2> QED
      BY <2>1, <2>2
  <1>10. \A i \in 1..k : n.times[i] = f[i].now
    <2> SUFFICES ASSUME NEW i \in 1..k PROVE n.times[i] = f[i].now
      OBVIOUS
    <2>1. p.times \in Seq(Int) /\ Len(p.times) = k - 1
      BY <1>2 DEF Planned
    <2>2. CASE i = k
      BY <1>1, <1>5, <2>1, <2>2 DEF n
    <2>3. CASE i # k
      <3>1. i \in 1..(k - 1)
        BY <1>1, <2>3
      <3>2. p.times[i] = f[i].now
        BY <1>2, <3>1 DEF Tight, p
      <3>3. n.times[i] = p.times[i]
        BY <1>5, <2>1, <3>1
      <3> QED
        BY <3>2, <3>3
    <2> QED
      BY <2>2, <2>3
  <1> HIDE DEF gain, need, u, v
  <1>11. ASSUME NEW i \in 1..k
         PROVE  v <= Slack(q, f, i, k)
    <2>1. CASE i = k
      BY <1>5, <1>8, <2>1
    <2>2. CASE i # k
      <3>1. i \in 1..(k - 1)
        BY <1>1, <2>2
      <3>2. u <= Slack(q, f, i, k - 1)
        BY <1>2, <3>1 DEF Tight, u, p
      <3>3. /\ Slack(q, f, i, k - 1) \in Int
            /\ Slack(q, f, i, k) = Slack(q, f, i, k - 1) + gain - need
        BY <1>8, <3>1
      <3> QED
        BY <1>5, <1>8, <1>9, <3>2, <3>3
    <2> QED
      BY <2>1, <2>2
  <1>12. \E i \in 1..k : v = Slack(q, f, i, k)
    <2>1. CASE v = Size - need
      BY <1>1, <1>8, <2>1
    <2>2. CASE v = u + gain - need /\ k = 1
      <3>1. u = Size
        BY <1>2, <2>2 DEF Tight, u, p
      <3>2. v = Size - need
        BY <1>5, <1>8, <1>9, <2>2, <3>1
      <3> QED
        BY <1>1, <1>8, <3>2
    <2>3. CASE v = u + gain - need /\ k # 1
      <3>1. PICK i \in 1..(k - 1) : u = Slack(q, f, i, k - 1)
        BY <1>1, <1>2, <2>3 DEF Tight, u, p
      <3>2. Slack(q, f, i, k) = Slack(q, f, i, k - 1) + gain - need
        BY <1>8, <3>1
      <3>3. i \in 1..k /\ v = Slack(q, f, i, k)
        BY <1>1, <2>3, <3>1, <3>2
      <3> QED
        BY <3>3
    <2> QED
      BY <1>5, <2>1, <2>2, <2>3
  <1> QED
    BY <1>1, <1>6, <1>10, <1>11, <1>12 DEF Tight, n, v

LEMMA PlanTight ==
  ASSUME NEW q \in Queues, NEW f, NEW start \in Int, Plans(q, start, Len(q), f)
  PROVE  (\A k \in 0..Len(q) : Tight(q, f, k)) /\ f[0].now = start
  <1> DEFINE n == Len(q)
             S == {k \in 0..n : \A j \in 0..k : Tight(q, f, j)}
  <1>1. n \in Nat
    BY QueueTyped
  <1>2. f[0] = PlanFirst(start)
    BY <1>1 DEF Plans
  <1>3. Tight(q, f, 0)
    <2>1. Size \in Nat
      <3>1. \A a, b \in Nat : a * b \in Nat
        OBVIOUS
      <3> QED
        BY <3>1, QueueTyped DEF Size
    <2>2. f[0] = [now |-> start, state |-> [units |-> Size, at |-> start],
                  times |-> <<>>, ok |-> TRUE]
      BY <1>2 DEF PlanFirst, Size
    <2>3. Planned(f[0], 0)
      BY <2>1, <2>2 DEF Planned
    <2> QED
      BY <2>2, <2>3 DEF Tight
  <1>4. 0 \in S
    BY <1>1, <1>3
  <1>5. ASSUME NEW k \in 1..n, k - 1 \in S
        PROVE  k \in S
    <2>1. Tight(q, f, k)
      BY <1>5, TightStep
    <2>2. \A j \in 0..k : j \in 0..(k - 1) \/ j = k
      BY <1>1
    <2> QED
      BY <1>5, <2>1, <2>2
  <1>6. S = 0..n
    <2>1. S \in SUBSET (0..n)
      OBVIOUS
    <2> HIDE DEF S, n
    <2> QED
      BY <1>1, <1>4, <1>5, <2>1, CountUp
  <1>7. \A k \in 0..n : k \in S /\ k \in 0..k
    BY <1>6
  <1> QED
    BY <1>2, <1>7 DEF PlanFirst

LEMMA PlanEarliest ==
  ASSUME clock \in Int
  PROVE  PlanIsEarliest
  <1> DEFINE Fit(q, p, i, j, t) ==
               WeightUpTo(q, i, j) * Second <= Capacity * Second
                   + Rate * (t - (IF i = j THEN t ELSE p.times[i]))
             Fits(q, p, j, t) == \A i \in 1..j : Fit(q, p, i, j, t)
             Before(p, j) == IF j = 1 THEN clock ELSE p.times[j - 1]
  <1>1. SUFFICES ASSUME NEW q \in Queues
                 PROVE  LET p == PlanSchedule(q, clock)
                        IN  p.ok /\ \A j \in 1..Len(q) :
                               /\ Fits(q, p, j, p.times[j])
                               /\ p.times[j] > Before(p, j) => ~Fits(q, p, j, p.times[j] - 1)
    BY DEF PlanIsEarliest
  <1> DEFINE n == Len(q)
             p == PlanSchedule(q, clock)
  <1>2. n \in Nat \ {0} /\ Rate \in Nat \ {0} /\ Size \in Nat
    <2>1. \A a, b \in Nat : a * b \in Nat
      OBVIOUS
    <2> QED
      BY <2>1, QueueTyped DEF Size
  <1>3. PICK f : Plans(q, clock, n, f) /\ p = f[n]
    BY <1>2, PlanFound
  <1>4. (\A k \in 0..n : Tight(q, f, k)) /\ f[0].now = clock
    BY <1>3, PlanTight
  <1> HIDE DEF p
  <1>5. p.ok /\ \A j \in 1..n : p.times[j] = f[j].now
    <2>1. Tight(q, f, n)
      BY <1>2, <1>4
    <2>2. Planned(p, n)
      BY <1>3, <2>1 DEF Tight
    <2>3. p.ok = TRUE
      BY <2>2 DEF Planned
    <2> QED
      BY <1>3, <2>1, <2>3 DEF Tight
  <1>6. \A k \in 0..n : f[k].now \in Int /\ f[k].state.units \in 0..Size
    BY <1>4 DEF Tight, Planned
  <1>7. ASSUME NEW j \in 1..n
        PROVE  /\ Fits(q, p, j, p.times[j])
               /\ p.times[j] > Before(p, j) => ~Fits(q, p, j, p.times[j] - 1)
    <2> DEFINE t == f[j].now
               b == f[j - 1].now
    <2>1. j \in 0..n /\ j - 1 \in 0..n /\ j \in Nat \ {0}
      BY <1>2
    <2>2. p.times[j] = t /\ Before(p, j) = b /\ t \in Int /\ b \in Int
      <3>1. p.times[j] = t /\ t \in Int /\ b \in Int
        BY <1>5, <1>6, <2>1
      <3>2. CASE j = 1
        BY <1>4, <3>1, <3>2
      <3>3. CASE j # 1
        <4>1. j - 1 \in 1..n
          BY <2>1, <3>3
        <4>2. p.times[j - 1] = b
          BY <1>5, <4>1
        <4> QED
          BY <3>1, <3>3, <4>2
      <3> QED
        BY <3>2, <3>3
    <2>3. ASSUME NEW i \in 1..j, NEW s \in Int
          PROVE  /\ i # j => (Fit(q, p, i, j, s) <=>
                                 WeightUpTo(q, i, j) * Second <= Size + Rate * (s - f[i].now))
                 /\ i = j => (Fit(q, p, i, j, s) <=> q[j] * Second <= Size)
      <3>1. i \in 1..n /\ p.times[i] = f[i].now
        BY <1>2, <1>5
      <3>2. i # j => (Fit(q, p, i, j, s) <=>
                         WeightUpTo(q, i, j) * Second <= Size + Rate * (s - f[i].now))
        BY <3>1 DEF Size
      <3>3. ASSUME i = j
            PROVE  Fit(q, p, i, j, s) <=> q[j] * Second <= Size
        <4>1. WeightUpTo(q, j, j) = q[j]
          <5>1. WeightUpTo(q, j, j) = IF j < j THEN 0 ELSE WeightUpTo(q, j, j - 1) + q[j]
            BY <1>2, <2>1, WeightEquation
          <5>2. WeightUpTo(q, j, j - 1) = 0
            BY <1>2, <2>1, WeightEquation
          <5>3. q[j] \in Nat
            BY QueueTyped
          <5> QED
            BY <2>1, <5>1, <5>2, <5>3
        <4>2. s - s = 0 /\ Rate * 0 = 0 /\ Capacity * Second + 0 = Size
          BY <1>2 DEF Size
        <4>3. Fit(q, p, i, j, s) <=>
                WeightUpTo(q, j, j) * Second <= Capacity * Second + Rate * (s - s)
          BY <3>3
        <4> HIDE DEF Fit
        <4> QED
          BY <4>1, <4>2, <4>3
      <3> QED
        BY <3>2, <3>3
    <2> HIDE DEF Fit
    <2>4. q[j] * Second \in Nat /\ q[j] * Second <= Size
      <3>1. q[j] \in 1..Capacity /\ Second \in Nat /\ Capacity \in Nat
        BY QueueTyped
      <3>2. \A a, c \in Nat : a * c \in Nat
        OBVIOUS
      <3>3. (Capacity - q[j]) * Second = Capacity * Second - q[j] * Second
            /\ Capacity - q[j] \in Nat /\ q[j] \in Nat
        BY <3>1
      <3>4. (Capacity - q[j]) * Second \in Nat /\ q[j] * Second \in Nat /\ Capacity * Second \in Nat
        BY <3>1, <3>2, <3>3
      <3> QED
        BY <3>3, <3>4 DEF Size
    <2>5. ASSUME NEW i \in 1..j
          PROVE  Fit(q, p, i, j, t)
      <3>1. CASE i = j
        BY <2>2, <2>3, <2>4, <3>1
      <3>2. CASE i # j
        <4> DEFINE W == WeightUpTo(q, i, j) * Second
                   R == Rate * (t - f[i].now)
                   U == f[j].state.units
        <4>1. U \in 0..Size /\ U <= Size + R - W
          BY <1>4, <1>6, <2>1 DEF Tight, Slack
        <4>2. W \in Int /\ R \in Int
          <5>1. WeightUpTo(q, i, j) \in Nat
            <6>1. i \in Nat \ {0} /\ \A k \in 1..n : q[k] \in Nat
              BY <2>1, QueueTyped
            <6> QED
              BY <1>2, <2>1, <6>1, WeightTyped
          <5>2. Second \in Nat /\ f[i].now \in Int
            BY <1>2, <1>6, QueueTyped
          <5> QED
            BY <1>2, <2>2, <5>1, <5>2
        <4> HIDE DEF W, R, U
        <4>3. W <= Size + R
          BY <1>2, <4>1, <4>2
        <4> QED
          BY <2>2, <2>3, <3>2, <4>3 DEF W, R
      <3> QED
        BY <3>1, <3>2
    <2>6. ASSUME t > b
          PROVE  \E i \in 1..j : ~Fit(q, p, i, j, t - 1)
      <3> DEFINE u == f[j - 1].state.units
                 r == Rate * (t - 1 - b)
      <3>1. q[j] * Second > u + r
        <4>1. f[j] = PlanNext(f[j - 1], q[j])
          BY <1>2, <1>3, <2>1 DEF Plans
        <4>2. Planned(f[j - 1], j - 1) /\ q[j] \in 1..Capacity /\ j - 1 \in Nat
          <5>1. j - 1 \in 0..n /\ j - 1 \in Nat /\ j \in 1..n
            BY <1>2, <2>1
          <5>2. q[j] \in 1..Capacity
            BY <5>1, QueueTyped
          <5>3. Planned(f[j - 1], j - 1)
            BY <1>4, <5>1 DEF Tight
          <5> QED
            BY <5>1, <5>2, <5>3
        <4> QED
          BY <2>6, <4>1, <4>2, PlanNextStep
      <3>2. r \in Nat /\ u \in 0..Size
        <4>1. t - 1 - b \in Nat
          BY <2>2, <2>6
        <4>2. \A a, c \in Nat : a * c \in Nat
          OBVIOUS
        <4> QED
          BY <1>2, <1>6, <2>1, <4>1, <4>2
      <3>3. CASE j = 1
        <4>1. u = Size
          BY <1>4, <2>1, <3>3 DEF Tight
        <4> HIDE DEF u, r
        <4> QED
          BY <1>2, <2>4, <3>1, <3>2, <4>1
      <3>4. CASE j # 1
        <4>1. PICK i \in 1..(j - 1) : u = Slack(q, f, i, j - 1)
          BY <1>4, <2>1, <3>4 DEF Tight
        <4>2. /\ Slack(q, f, i, j - 1) \in Int
              /\ Slack(q, f, i, j) = Slack(q, f, i, j - 1) + Rate * (t - b) - q[j] * Second
          <5>1. \A k \in 0..j : f[k].now \in Int
            BY <1>2, <1>6
          <5> QED
            BY <4>1, <5>1, SlackStep
        <4> DEFINE W == WeightUpTo(q, i, j) * Second
                   z == f[i].now
        <4>3. Slack(q, f, i, j) = Size + Rate * (t - z) - W
          BY DEF Slack
        <4>4. i \in 1..j /\ i # j /\ i \in 0..n /\ z \in Int
          BY <1>6, <2>1, <4>1
        <4>5. W \in Int
          <5>1. WeightUpTo(q, i, j) \in Nat
            <6>1. i \in Nat \ {0} /\ \A k \in 1..n : q[k] \in Nat
              BY <4>4, QueueTyped
            <6> QED
              BY <1>2, <2>1, <6>1, WeightTyped
          <5>2. Second \in Nat
            BY QueueTyped
          <5> QED
            BY <5>1, <5>2
        <4>6. Fit(q, p, i, j, t - 1) <=> W <= Size + Rate * (t - 1 - z)
          <5>1. t - 1 \in Int
            BY <2>2
          <5> HIDE DEF t
          <5>2. \A s \in Int : Fit(q, p, i, j, s) <=>
                                 WeightUpTo(q, i, j) * Second <= Size + Rate * (s - f[i].now)
            BY <2>3, <4>4
          <5> QED
            BY <5>1, <5>2
        <4> HIDE DEF W, z, u, t, b
        <4>7. /\ Rate * (t - 1 - z) = Rate * (t - z) - Rate
              /\ Rate * (t - 1 - b) = Rate * (t - b) - Rate
              /\ Rate * (t - z) \in Int /\ Rate * (t - b) \in Int
          BY <1>2, <2>2, <4>4
        <4>8. ~(W <= Size + Rate * (t - 1 - z))
          <5> DEFINE T == Rate * (t - z)
                     B == Rate * (t - b)
                     h == q[j] * Second
                     x == Slack(q, f, i, j - 1)
          <5>1. /\ Rate * (t - 1 - z) = T - Rate /\ r = B - Rate
                /\ {T, B, h, x, u, r, W, Rate, Size} \subseteq Int
            BY <1>2, <2>4, <3>2, <4>1, <4>2, <4>5, <4>7
          <5>2. h > u + r /\ u = x /\ x + B - h = Size + T - W
            BY <3>1, <4>1, <4>2, <4>3
          <5> HIDE DEF T, B, h, x, r
          <5>3. ~(W <= Size + (T - Rate))
            <6>1. {T, B, h, x, W, Rate, Size} \subseteq Int
              BY <5>1
            <6>2. h > x + (B - Rate)
              BY <5>1, <5>2
            <6> QED
              BY <5>2, <6>1, <6>2
          <5> QED
            BY <5>1, <5>3
        <4> QED
          BY <4>4, <4>6, <4>8
      <3> QED
        BY <3>3, <3>4
    <2>7. p.times[j] > Before(p, j) => ~Fits(q, p, j, p.times[j] - 1)
      BY <2>2, <2>6
    <2>8. Fits(q, p, j, p.times[j])
      BY <2>2, <2>5
    <2> QED
      BY <2>7, <2>8
  <1> QED
    BY <1>5, <1>7 DEF p

\* Every request of a plan runs at the earliest time the bucket allows
\* (planSchedule), for every capacity and rate, every queue of any length and
\* any start.
THEOREM PlanRunsEarliest == LimitsSpec => []PlanIsEarliest
  <1>1. LimitsInv => clock \in Int
    BY DEF LimitsInv
  <1> QED
    BY <1>1, LimitsSafe, PlanEarliest, PTL

---------------------------------------------------------------------------
(* The monitoring session *)

Statuses == {"PENDING", "ACTIVE", "PAUSED", "EXPIRED", "CANCELLED", "FAILED"}

SessionRows == [status : Statuses, expiresAt : Nat, lastObservationAt : Nat \cup {None}]

Phases == {"unseen", "EMERGING", "EXPIRED"}

SessionTyped ==
    /\ now \in Nat /\ reading.at \in Nat
    /\ session \in SessionRows
    /\ ticking = None \/ ticking \in SessionRows

\* What was announced is remembered.
NewsInv ==
    /\ carry.memory \in [Identities -> Phases]
    /\ news \in [Identities -> 0 .. 1]
    /\ \A s \in Identities : news[s] = 1 => carry.memory[s] # "unseen"

\* The carry's checkpoint is the instant of the record.
RecordInv ==
    /\ record # None => record.at \in Nat /\ carry.checkpoint = record.at
    /\ RecordKeepsUp

\* null is no record of the product.
NullIsNoRecord == \A p, t : None # [print |-> p, at |-> t]

LEMMA EndsAreFinal == \A s \in Terminal, t \in Statuses : ~CanTransition(s, t)
  BY DEF Terminal, CanTransition, Allowed

LEMMA SessionInitSafe == MonitorInit => SessionTyped /\ EndedStaysEnded /\ NewsInv /\ RecordInv
  <1> SUFFICES ASSUME MonitorInit PROVE SessionTyped /\ EndedStaysEnded /\ NewsInv /\ RecordInv
    OBVIOUS
  <1>1. SessionTyped
    BY MonitorAssumption DEF MonitorInit, EvaluationInit, NoReading, SessionTyped, SessionRows, Statuses
  <1>2. EndedStaysEnded
    BY DEF MonitorInit, EndedStaysEnded
  <1>3. NewsInv
    BY DEF MonitorInit, InitialCarry, NewsInv, Phases
  <1>4. RecordInv
    BY DEF MonitorInit, InitialCarry, RecordInv, RecordKeepsUp
  <1> QED
    BY <1>1, <1>2, <1>3, <1>4

\* A signal that an evaluation shows is new or gone, never unseen.
LEMMA SignalsAreSeen ==
  ASSUME NEW obs, NEW at, NEW s \in DOMAIN Evaluate(obs, at).signals
  PROVE  Evaluate(obs, at).signals[s] \in {"EMERGING", "EXPIRED"}
  <1>1. PICK smart, latest : Evaluate(obs, at).signals = Signals(smart, latest)
    BY DEF Evaluate
  <1> QED
    BY <1>1 DEF Signals, FirstSighting

\* Expiry changes the status of a row, and leaves an ended one alone.
LEMMA ExpiryKeeps ==
  ASSUME NEW row \in SessionRows, NEW at \in Nat, ExpireIfDue(row, at) # None
  PROVE  /\ ExpireIfDue(row, at) \in SessionRows
         /\ ExpireIfDue(row, at).lastObservationAt = row.lastObservationAt
         /\ row.status \in Terminal => ExpireIfDue(row, at) = row
  BY DEF ExpireIfDue, SessionRows, Statuses, Terminal

LEMMA TypedKept == SessionTyped /\ [MonitorNext]_vars => SessionTyped'
  <1> SUFFICES ASSUME SessionTyped, [MonitorNext]_vars PROVE SessionTyped'
    OBVIOUS
  <1>1. CASE Activate \/ Pause \/ Cancel
    BY <1>1 DEF Activate, Pause, Cancel, Become, evaluationVars, SessionTyped, SessionRows, Statuses
  <1>2. CASE TickSkips
    BY <1>2, ExpiryKeeps DEF TickSkips, evaluationVars, SessionTyped
  <1>3. CASE TickBegins
    <2>1. ticking' \in SessionRows /\ session' = session /\ now' = now
      BY <1>3, ExpiryKeeps DEF TickBegins, SessionTyped
    <2>2. reading'.at \in Nat
      BY <1>3 DEF TickBegins, StartReading, SessionTyped
    <2> QED
      BY <2>1, <2>2 DEF SessionTyped
  <1>4. CASE TickReads
    BY <1>4 DEF TickReads, KlineAnswers, TrendingAnswers, sessionVars, SessionTyped
  <1>5. CASE TickFails
    BY <1>5 DEF TickFails, LaneFails, NoReading, SessionTyped
  <1>6. CASE TickEnds
    <2>1. now' = now /\ reading' = NoReading /\ ticking' = None
      BY <1>6 DEF TickEnds, TrackAnswers
    <2>2. report'.at = reading.at
      BY <1>6 DEF TickEnds, TrackAnswers
    <2>3. session' \in SessionRows
      BY <1>6, <2>2 DEF TickEnds, SessionTyped, SessionRows
    <2> QED
      BY <2>1, <2>3 DEF SessionTyped, NoReading
  <1>7. CASE ClockMoves
    BY <1>7, MonitorAssumption DEF ClockMoves, sessionVars, SessionTyped
  <1>8. CASE UNCHANGED vars
    BY <1>8 DEF vars, evaluationVars, sessionVars, SessionTyped
  <1> QED
    BY <1>1, <1>2, <1>3, <1>4, <1>5, <1>6, <1>7, <1>8 DEF MonitorNext

LEMMA EndKept == SessionTyped /\ EndedStaysEnded /\ [MonitorNext]_vars => EndedStaysEnded'
  <1> SUFFICES ASSUME SessionTyped, EndedStaysEnded, [MonitorNext]_vars PROVE EndedStaysEnded'
    OBVIOUS
  <1>1. ASSUME NEW status \in Statuses, Become(status) PROVE EndedStaysEnded'
    <2>1. session'.status = status /\ ticking' = ticking
      BY <1>1 DEF Become, SessionTyped, SessionRows
    <2>2. ~closed
      BY <1>1, EndsAreFinal DEF Become, EndedStaysEnded
    <2> QED
      BY <1>1, <2>1, <2>2 DEF Become, Close, EndedStaysEnded
  <1>2. CASE Activate \/ Pause \/ Cancel
    BY <1>1, <1>2 DEF Activate, Pause, Cancel, Statuses
  <1>3. CASE TickSkips
    BY <1>3, ExpiryKeeps DEF TickSkips, Close, SessionTyped, EndedStaysEnded
  <1>4. CASE TickBegins
    BY <1>4, ExpiryKeeps DEF TickBegins, IsAcquisitionAllowed, Terminal, SessionTyped, EndedStaysEnded
  <1>5. CASE TickReads \/ TickFails \/ TickEnds \/ ClockMoves
    BY <1>5 DEF TickReads, TickFails, TickEnds, ClockMoves, sessionVars, EndedStaysEnded
  <1>6. CASE UNCHANGED vars
    BY <1>6 DEF vars, sessionVars, EndedStaysEnded
  <1> QED
    BY <1>2, <1>3, <1>4, <1>5, <1>6 DEF MonitorNext

\* Only the end of a tick writes the carry, the record and the news.
LEMMA TicksWrite ==
  [MonitorNext]_vars => TickEnds \/ UNCHANGED <<carry, record, news>>
  BY DEF MonitorNext, Activate, Pause, Cancel, Become, TickSkips, TickBegins, TickReads, TickFails,
         ClockMoves, vars, sessionVars

LEMMA NewsKept == NewsInv /\ [MonitorNext]_vars => NewsInv'
  <1> SUFFICES ASSUME NewsInv, TickEnds PROVE NewsInv'
    BY TicksWrite DEF NewsInv
  <1> DEFINE signals == report'.entry.signals
             fresh == IsNews(signals, carry.memory)
  <1>1. \A s \in DOMAIN signals : signals[s] \in {"EMERGING", "EXPIRED"}
    <2>1. PICK obs : report'.entry = Evaluate(obs, reading.at)
      BY DEF TickEnds, TrackAnswers
    <2> QED
      BY <2>1, SignalsAreSeen
  <1>2. /\ carry'.memory = Remember(carry.memory, signals)
        /\ news' = [s \in Identities |-> IF s \in fresh THEN news[s] + 1 ELSE news[s]]
    BY DEF TickEnds, NextCarry
  <1>3. \A s \in fresh : s \in DOMAIN signals /\ signals[s] = "EMERGING" /\ carry.memory[s] = "unseen"
    BY DEF IsNews
  <1> HIDE DEF signals, fresh
  <1>4. carry'.memory \in [Identities -> Phases]
    BY <1>1, <1>2 DEF NewsInv, Remember, Phases
  <1>5. ASSUME NEW s \in Identities
        PROVE  news'[s] \in 0 .. 1 /\ (news'[s] = 1 => carry'.memory[s] # "unseen")
    <2>1. news[s] \in 0 .. 1 /\ (news[s] = 1 => carry.memory[s] # "unseen")
      BY DEF NewsInv
    <2>2. carry'.memory[s] = IF s \in DOMAIN signals THEN signals[s] ELSE carry.memory[s]
      BY <1>2 DEF Remember
    <2>3. news'[s] = IF s \in fresh THEN news[s] + 1 ELSE news[s]
      BY <1>2
    <2>4. CASE s \in fresh
      BY <1>3, <2>1, <2>2, <2>3, <2>4
    <2>5. CASE s \notin fresh
      BY <1>1, <2>1, <2>2, <2>3, <2>5
    <2> QED
      BY <2>4, <2>5
  <1>6. news' \in [Identities -> 0 .. 1]
    BY <1>2, <1>5
  <1> QED
    BY <1>4, <1>5, <1>6 DEF NewsInv

LEMMA RecordKept ==
  ASSUME NullIsNoRecord, SessionTyped, RecordInv, [MonitorNext]_vars
  PROVE  RecordInv'
  <1>1. CASE UNCHANGED <<carry, record>> /\ session'.lastObservationAt = session.lastObservationAt
    BY <1>1 DEF RecordInv, RecordKeepsUp
  <1>2. CASE ~TickEnds
    <2>1. session'.lastObservationAt = session.lastObservationAt
      <3>1. CASE Activate \/ Pause \/ Cancel
        BY <3>1 DEF Activate, Pause, Cancel, Become, SessionTyped, SessionRows
      <3>2. CASE TickSkips
        BY <3>2, ExpiryKeeps DEF TickSkips, SessionTyped
      <3>3. CASE UNCHANGED session
        BY <3>3
      <3> QED
        BY <1>2, <3>1, <3>2, <3>3
           DEF MonitorNext, TickBegins, TickReads, TickFails, ClockMoves, vars, sessionVars
    <2> QED
      BY <1>1, <1>2, <2>1, TicksWrite
  <1>3. CASE TickEnds
    <2> DEFINE entry == report'.entry
               at == report'.at
               print == Fingerprint(entry)
               persist == DecidePersist(carry.print, print, carry.checkpoint, at)
    <2>1. at \in Nat
      BY <1>3 DEF TickEnds, TrackAnswers, SessionTyped
    <2>2. /\ carry'.print = print /\ carry'.prior = entry
          /\ carry'.checkpoint = IF persist THEN at ELSE carry.checkpoint
          /\ record' = IF persist THEN [print |-> print, at |-> at] ELSE record
      BY <1>3 DEF TickEnds, NextCarry
    <2>3. session'.lastObservationAt = at
      BY <1>3 DEF TickEnds, SessionTyped, SessionRows
    <2>4. print.state = entry.state
      BY DEF Fingerprint
    <2>5. ~persist => /\ carry.print # None /\ carry.print = print
                      /\ carry.checkpoint # None /\ ~(at - carry.checkpoint >= Checkpoint)
      BY DEF DecidePersist
    <2> HIDE DEF entry, at, print, persist
    <2>6. CASE persist
      <3>1. record' = [print |-> print, at |-> at] /\ carry'.checkpoint = at
        BY <2>2, <2>6
      <3>2. record' # None
        BY <3>1 DEF NullIsNoRecord
      <3> QED
        BY <2>1, <2>2, <2>3, <2>4, <3>1, <3>2, MonitorAssumption DEF RecordInv, RecordKeepsUp
    <2>7. CASE ~persist
      <3>1. record' = record /\ carry'.checkpoint = carry.checkpoint
        BY <2>2, <2>7
      <3>2. /\ record # None /\ record.print = print /\ record.at \in Nat
            /\ carry.checkpoint = record.at
        BY <2>5, <2>7 DEF RecordInv, RecordKeepsUp
      <3>3. at - record.at < Checkpoint
        BY <2>1, <2>5, <2>7, <3>2, MonitorAssumption
      <3> QED
        BY <2>2, <2>3, <2>4, <3>1, <3>2, <3>3 DEF RecordInv, RecordKeepsUp
    <2> QED
      BY <2>6, <2>7
  <1> QED
    BY <1>2, <1>3

\* Once a session was ended with no tick in flight it stays ended, and no tick
\* reads for it again.
THEOREM EndIsFinal == MonitorSpec => []EndedStaysEnded
  BY SessionInitSafe, TypedKept, EndKept, PTL DEF MonitorSpec

\* Over a session of any length a signal is announced as new at most once,
\* whatever the ticks see, miss or fail to read.
THEOREM NewsToldOnce == MonitorSpec => []NewOnce
  <1>1. NewsInv => NewOnce
    BY DEF NewsInv, NewOnce
  <1> QED
    BY <1>1, SessionInitSafe, NewsKept, PTL DEF MonitorSpec

\* The product's last record shows the last fingerprint, and is never a
\* checkpoint's time behind the last observation.
THEOREM RecordIsKept ==
  ASSUME NullIsNoRecord
  PROVE  MonitorSpec => []RecordKeepsUp
  <1>1. RecordInv => RecordKeepsUp
    BY DEF RecordInv
  <1>2. SessionTyped /\ RecordInv /\ [MonitorNext]_vars => RecordInv'
    BY RecordKept
  <1> QED
    BY <1>1, <1>2, SessionInitSafe, TypedKept, PTL DEF MonitorSpec

---------------------------------------------------------------------------
(* The evaluation: what stands behind a danger state *)

\* A finite set in a strict order can be listed, each member before the next:
\* the number before a member tells them apart, and takes every value below n.
LEMMA OrderedExists ==
  ASSUME NEW S, IsFiniteSet(S), NEW R,
         \A x \in S : <<x, x>> \notin R,
         \A x, y \in S : x # y => <<x, y>> \in R \/ <<y, x>> \in R,
         \A x, y, z \in S : <<x, y>> \in R /\ <<y, z>> \in R => <<x, z>> \in R
  PROVE  /\ Cardinality(S) \in Nat
         /\ \E s \in [1 .. Cardinality(S) -> S] :
              \A i \in 1 .. Cardinality(S) - 1 : <<s[i], s[i + 1]>> \in R
  <1> DEFINE n == Cardinality(S)
             Below(x) == {y \in S : <<y, x>> \in R}
             T == 0 .. n - 1
             rank == [x \in S |-> Cardinality(Below(x))]
             s == [i \in 1 .. n |-> CHOOSE x \in S : rank[x] = i - 1]
  <1>1. n \in Nat
    BY FS_CardinalityType
  <1>2. ASSUME NEW x \in S
        PROVE  IsFiniteSet(Below(x)) /\ Cardinality(Below(x)) \in T
    <2>1. IsFiniteSet(S \ {x}) /\ Cardinality(S \ {x}) = n - 1
      BY FS_RemoveElement
    <2>2. Below(x) \in SUBSET (S \ {x})
      OBVIOUS
    <2>3. IsFiniteSet(Below(x)) /\ Cardinality(Below(x)) <= n - 1
      <3> HIDE DEF Below, n
      <3> QED
        BY <2>1, <2>2, FS_Subset
    <2>4. Cardinality(Below(x)) \in Nat
      BY <2>3, FS_CardinalityType
    <2> QED
      BY <1>1, <2>3, <2>4
  <1>3. ASSUME NEW x \in S, NEW z \in S, <<x, z>> \in R
        PROVE  rank[x] < rank[z]
    <2>1. Below(x) \in SUBSET Below(z) /\ Below(x) # Below(z)
      <3>1. \A y \in S : <<y, x>> \in R => <<y, z>> \in R
        BY <1>3
      <3>2. x \in Below(z) /\ x \notin Below(x)
        BY <1>3
      <3> QED
        BY <3>1, <3>2
    <2>2. IsFiniteSet(Below(z)) /\ Cardinality(Below(x)) \in Nat /\ Cardinality(Below(z)) \in Nat
      <3> HIDE DEF Below
      <3> QED
        BY <1>1, <1>2
    <2>3. Cardinality(Below(x)) <= Cardinality(Below(z)) /\ Cardinality(Below(x)) # Cardinality(Below(z))
      <3> HIDE DEF Below
      <3> QED
        BY <2>1, <2>2, FS_Subset
    <2> QED
      BY <2>2, <2>3
  <1>4. rank \in [S -> T]
    BY <1>2
  <1>5. rank \in Injection(S, T)
    <2>1. IsInjective(rank)
      <3> SUFFICES ASSUME NEW x \in S, NEW z \in S, rank[x] = rank[z], x # z PROVE FALSE
        BY <1>4 DEF IsInjective
      <3>1. rank[x] \in Int
        BY <1>1, <1>4
      <3>2. <<x, z>> \in R \/ <<z, x>> \in R
        OBVIOUS
      <3> HIDE DEF rank
      <3>3. rank[x] < rank[z] \/ rank[z] < rank[x]
        BY <1>3, <3>2
      <3> QED
        BY <3>1, <3>3
    <2> QED
      BY <1>4, <2>1 DEF Injection
  <1>6. IsFiniteSet(T) /\ Cardinality(T) = n
    <2>1. 0 \in Int /\ n - 1 \in Int
      BY <1>1
    <2>2. IsFiniteSet(0 .. n - 1) /\ Cardinality(0 .. n - 1) = IF 0 > n - 1 THEN 0 ELSE n - 1 - 0 + 1
      <3> HIDE DEF n
      <3> QED
        BY <2>1, FS_Interval
    <2> QED
      BY <1>1, <2>2
  <1>7. rank \in Surjection(S, T)
    BY <1>5, <1>6, FS_Injection
  <1>8. \A t \in T : \E x \in S : rank[x] = t
    BY <1>7 DEF Surjection
  <1>9. ASSUME NEW i \in 1 .. n
        PROVE  s[i] \in S /\ rank[s[i]] = i - 1
    <2>1. i - 1 \in T
      BY <1>1
    <2> HIDE DEF rank, T
    <2>2. \E x \in S : rank[x] = i - 1
      BY <1>8, <2>1
    <2> QED
      BY <2>2
  <1>10. s \in [1 .. n -> S]
    BY <1>9
  <1>11. ASSUME NEW i \in 1 .. n - 1
         PROVE  <<s[i], s[i + 1]>> \in R
    <2>1. i \in 1 .. n /\ i + 1 \in 1 .. n
      BY <1>1
    <2> HIDE DEF s
    <2>2. s[i] \in S /\ rank[s[i]] = i - 1 /\ s[i + 1] \in S /\ rank[s[i + 1]] = i
      BY <1>9, <2>1
    <2> HIDE DEF rank
    <2>3. s[i] # s[i + 1]
      BY <2>2
    <2>4. <<s[i + 1], s[i]>> \notin R
      BY <1>3, <2>2
    <2> QED
      BY <2>2, <2>3, <2>4
  <1> HIDE DEF s
  <1> QED
    BY <1>1, <1>10, <1>11

LEMMA ElementsFinite ==
  ASSUME NEW n \in Nat, NEW s, DOMAIN s = 1 .. n
  PROVE  IsFiniteSet(ToSet(s))
  <1> DEFINE T == ToSet(s)
             f == [i \in 1 .. n |-> s[i]]
  <1>1. f \in Surjection(1 .. n, T)
    BY DEF Surjection, ToSet
  <1>2. IsFiniteSet(1 .. n)
    BY FS_Interval
  <1> QED
    BY <1>1, <1>2, FS_Surjection

\* What is kept of some rows is a sequence of them.
LEMMA RowsAreKept ==
  ASSUME NEW S, NEW rows \in Seq(S), NEW places \in SUBSET DOMAIN rows
  PROVE  RowsAt(rows, places) \in Seq(S)
  <1> DEFINE n == Cardinality(places)
             R == {p \in places \X places : p[1] < p[2]}
             Increasing(s) == \A i \in 1 .. n - 1 : s[i] < s[i + 1]
             place == CHOOSE s \in [1 .. n -> places] : Increasing(s)
  <1>1. DOMAIN rows = 1 .. Len(rows) /\ Len(rows) \in Nat
    OBVIOUS
  <1>2. IsFiniteSet(places)
    <2>1. IsFiniteSet(1 .. Len(rows))
      BY <1>1, FS_Interval
    <2> QED
      BY <1>1, <2>1, FS_Subset
  <1>3. places \subseteq Int
    BY <1>1
  <1>4. \A x \in places : <<x, x>> \notin R
    BY <1>3
  <1>5. \A x, y \in places : x # y => <<x, y>> \in R \/ <<y, x>> \in R
    BY <1>3
  <1>6. \A x, y, z \in places : <<x, y>> \in R /\ <<y, z>> \in R => <<x, z>> \in R
    BY <1>3
  <1>7. n \in Nat /\ \E s \in [1 .. n -> places] : \A i \in 1 .. n - 1 : <<s[i], s[i + 1]>> \in R
    <2> HIDE DEF R
    <2> QED
      BY <1>2, <1>4, <1>5, <1>6, OrderedExists
  <1> HIDE DEF n
  <1>8. \E s \in [1 .. n -> places] : Increasing(s)
    BY <1>7
  <1> HIDE DEF Increasing
  <1>9. place \in [1 .. n -> places]
    BY <1>8
  <1>10. RowsAt(rows, places) = [k \in DOMAIN place |-> rows[place[k]]]
    BY DEF RowsAt, Ordered, n, Increasing
  <1> HIDE DEF place
  <1>11. DOMAIN place = 1 .. n /\ \A k \in 1 .. n : rows[place[k]] \in S
    BY <1>1, <1>9
  <1> QED
    BY <1>7, <1>10, <1>11

Points == [at : Int, value : Int]

\* Sorted, the points of a series are points of it, one for each that differs.
LEMMA NormalizedArePoints ==
  ASSUME NEW points \in Seq(Points)
  PROVE  /\ Cardinality(ToSet(points)) \in Nat
         /\ Len(Normalize(points)) = Cardinality(ToSet(points))
         /\ \A i \in 1 .. Cardinality(ToSet(points)) : Normalize(points)[i] \in ToSet(points)
  <1> DEFINE S == ToSet(points)
             n == Cardinality(S)
             Increasing(s) == \A i \in 1 .. n - 1 : Earlier(s[i], s[i + 1])
             R == {p \in S \X S : Earlier(p[1], p[2])}
  <1>1. DOMAIN points = 1 .. Len(points) /\ Len(points) \in Nat
    OBVIOUS
  <1>2. IsFiniteSet(S)
    BY <1>1, ElementsFinite
  <1>3. S \subseteq Points
    BY <1>1 DEF ToSet
  <1>4. \A x \in S : <<x, x>> \notin R
    BY <1>3 DEF Points, Earlier
  <1>5. \A x, y \in S : x # y => <<x, y>> \in R \/ <<y, x>> \in R
    <2> SUFFICES ASSUME NEW x \in S, NEW y \in S, x # y
                 PROVE  Earlier(x, y) \/ Earlier(y, x)
      OBVIOUS
    <2>1. x \in Points /\ y \in Points
      BY <1>3
    <2> HIDE DEF S
    <2>2. x.at # y.at \/ x.value # y.value
      BY <2>1 DEF Points
    <2> QED
      BY <2>1, <2>2 DEF Points, Earlier
  <1>6. \A x, y, z \in S : <<x, y>> \in R /\ <<y, z>> \in R => <<x, z>> \in R
    <2> SUFFICES ASSUME NEW x \in S, NEW y \in S, NEW z \in S, Earlier(x, y), Earlier(y, z)
                 PROVE  Earlier(x, z)
      OBVIOUS
    <2>1. {x, y, z} \subseteq Points
      BY <1>3
    <2> HIDE DEF S
    <2> QED
      BY <2>1 DEF Points, Earlier
  <1>7. n \in Nat /\ \E s \in [1 .. n -> S] : \A i \in 1 .. n - 1 : <<s[i], s[i + 1]>> \in R
    <2> HIDE DEF S, R
    <2> QED
      BY <1>2, <1>4, <1>5, <1>6, OrderedExists
  <1> HIDE DEF n
  <1>8. \E s \in [1 .. n -> S] : Increasing(s)
    BY <1>7
  <1> HIDE DEF Increasing
  <1>9. Normalize(points) = CHOOSE s \in [1 .. n -> S] : Increasing(s)
    BY DEF Normalize, Ordered, n, Increasing
  <1> HIDE DEF S
  <1>10. Normalize(points) \in [1 .. n -> S]
    BY <1>8, <1>9
  <1>11. \A i \in 1 .. n : Normalize(points)[i] \in S
    BY <1>10
  <1>12. Len(Normalize(points)) = n
    <2>1. Normalize(points) \in Seq(S)
      BY <1>7, <1>10
    <2> QED
      BY <1>7, <1>10, <2>1
  <1> QED
    BY <1>7, <1>11, <1>12 DEF S, n

\* A direction takes two instants.
LEMMA DirectionNeedsInstants ==
  ASSUME NEW points \in Seq(Points), TemporalProfile(points).known
  PROVE  \E p, q \in ToSet(points) : p.at # q.at
  <1> DEFINE s == Normalize(points)
             n == Cardinality(ToSet(points))
  <1>1. n \in Nat /\ Len(s) = n /\ \A i \in 1 .. n : s[i] \in ToSet(points)
    BY NormalizedArePoints
  <1>2. ToSet(points) \subseteq Points
    BY DEF ToSet
  <1>3. Len(s) >= 2 /\ s[Len(s) - 1 + 1].at - s[Len(s) - 1].at > 0
    BY DEF TemporalProfile
  <1> HIDE DEF s, n
  <1>4. n - 1 \in 1 .. n /\ n \in 1 .. n /\ n - 1 + 1 = n
    BY <1>1, <1>3
  <1>5. s[n] \in ToSet(points) /\ s[n - 1] \in ToSet(points)
    BY <1>1, <1>4
  <1>6. s[n].at - s[n - 1].at > 0
    BY <1>1, <1>3, <1>4
  <1>7. s[n].at \in Int /\ s[n - 1].at \in Int
    BY <1>2, <1>5 DEF Points
  <1>8. s[n].at # s[n - 1].at
    BY <1>6, <1>7
  <1> QED
    BY <1>5, <1>8

Candles == [at : Int, close : Int, volume : Int]

Ratios == {Unknown} \cup 0 .. One

\* A row of the ranking as far as the threat reads it.
Measured(row) == row.rug \in Ratios /\ row.top \in Ratios /\ row.wash \in {Unknown, 0, One}

LEMMA CandlesParsed ==
  ASSUME NEW rows \in Klines, NEW at \in Int
  PROVE  ParseKline(rows, at) \in Seq(Candles)
  <1> DEFINE Rows == [age : Nat, close : Int, volume : Int]
             good == RowsAt(rows, {i \in DOMAIN rows : rows[i].close # Unknown})
  <1>1. rows \in Seq(Rows)
    BY ReadingsAssumption
  <1>2. good \in Seq(Rows)
    <2> HIDE DEF Rows
    <2> QED
      BY <1>1, RowsAreKept
  <1>3. ParseKline(rows, at) =
          [i \in DOMAIN good |-> [at |-> at - good[i].age, close |-> good[i].close, volume |-> good[i].volume]]
    BY DEF ParseKline
  <1> HIDE DEF good, Rows
  <1>4. DOMAIN good = 1 .. Len(good) /\ Len(good) \in Nat /\ \A i \in DOMAIN good : good[i] \in Rows
    BY <1>2
  <1>5. \A i \in DOMAIN good :
          [at |-> at - good[i].age, close |-> good[i].close, volume |-> good[i].volume] \in Candles
    BY <1>4 DEF Candles, Rows
  <1> QED
    BY <1>3, <1>4, <1>5

LEMMA RankingMeasured ==
  ASSUME NEW rows \in Rankings
  PROVE  Measured(Latest(ParseTrending(rows)))
  <1> DEFINE Parsed(r) == [token |-> r.token, cap |-> r.cap, liquidity |-> r.liquidity,
                           rug |-> ParseRatio(r.rug), top |-> ParseRatio(r.top), wash |-> r.wash]
             good == RowsAt(rows, {i \in DOMAIN rows : rows[i].cap # Unknown /\ rows[i].liquidity # Unknown})
             lane == ParseTrending(rows)
  <1>1. rows \in Seq(ToSet(rows)) /\ \A r \in ToSet(rows) : r.wash \in {Unknown, 0, One}
    BY ReadingsAssumption
  <1>2. good \in Seq(ToSet(rows))
    BY <1>1, RowsAreKept
  <1>3. lane = [i \in DOMAIN good |-> Parsed(good[i])]
    BY DEF ParseTrending
  <1>4. CASE lane = <<>>
    BY <1>4 DEF Latest, NoAnalytics, Measured, Ratios
  <1>5. CASE lane # <<>>
    <2> HIDE DEF good, lane
    <2>1. good # <<>>
      <3>1. DOMAIN lane = DOMAIN good
        BY <1>3
      <3>2. lane \in Seq({Parsed(r) : r \in ToSet(rows)})
        BY <1>2, <1>3
      <3> HIDE DEF Parsed
      <3> QED
        BY <1>2, <1>5, <3>1, <3>2
    <2>2. Len(good) \in DOMAIN good /\ DOMAIN lane = DOMAIN good
      BY <1>2, <1>3, <2>1
    <2>3. Len(lane) = Len(good)
      BY <1>2, <1>3
    <2>4. Last(lane) = Parsed(good[Len(good)])
      BY <1>3, <2>2, <2>3 DEF Last
    <2>5. good[Len(good)] \in ToSet(rows)
      BY <1>2, <2>2
    <2>6. Latest(lane) = Parsed(good[Len(good)])
      BY <1>5, <2>4 DEF Latest
    <2>7. Latest(lane).wash \in {Unknown, 0, One}
      BY <1>1, <2>5, <2>6
    <2>8. Latest(lane).rug = ParseRatio(good[Len(good)].rug) /\ Latest(lane).top = ParseRatio(good[Len(good)].top)
      BY <2>6
    <2>9. \A v : ParseRatio(v) \in Ratios
      BY DEF ParseRatio, Ratios
    <2> QED
      BY <2>7, <2>8, <2>9 DEF Measured, lane
  <1> QED
    BY <1>4, <1>5

\* The threshold of a threat needs every weight.
LEMMA ThreatNeedsAll ==
  ASSUME NEW row, Measured(row), Threat(row) >= 70 * One
  PROVE  row.rug # Unknown /\ row.top # Unknown /\ row.wash = One
  BY DEF Measured, Ratios, Threat, ScoreOf, Present, Unknown, One

\* What puts the machine into a danger state.
LEMMA DangerJustified ==
  ASSUME NEW i, NEW now1, StepStateMachine([state |-> "OBSERVING", enteredAt |-> now1], i, now1).state \in Danger
  PROVE  i.threat >= 70 * One /\ i.trajectory \in {"FALLING", "ACCELERATING_DOWN"}
  <1> DEFINE ctx == [state |-> "OBSERVING", enteredAt |-> now1]
             dwelt == now1 - ctx.enteredAt >= MinDwell
             open == {k \in DOMAIN EvaluationOrder :
                        /\ EvaluationOrder[k] # ctx.state
                        /\ dwelt \/ EvaluationOrder[k] \in Danger
                        /\ Justified(i)[EvaluationOrder[k]]}
  <1>1. open # {}
    BY DEF StepStateMachine, Danger
  <1>2. StepStateMachine(ctx, i, now1).state = EvaluationOrder[Min(open)]
    BY <1>1 DEF StepStateMachine
  <1>3. open \subseteq 1 .. 8
    BY DEF EvaluationOrder
  <1>4. Min(open) \in open
    <2>1. \E x \in open : \A y \in open : x <= y
      <3> HIDE DEF open
      <3> SUFFICES ASSUME \A x \in open : \E y \in open : y < x PROVE FALSE
        BY <1>3
      <3>1. open \cap 1 .. 2 = {}
        BY <1>3
      <3>2. open \cap 1 .. 4 = {}
        BY <1>3, <3>1
      <3>3. open \cap 1 .. 6 = {}
        BY <1>3, <3>2
      <3>4. open \cap 1 .. 8 = {}
        BY <1>3, <3>3
      <3> QED
        BY <1>1, <1>3, <3>4
    <2> QED
      BY <2>1 DEF Min
  <1>5. EvaluationOrder[Min(open)] \in Danger
    BY <1>2
  <1>6. Justified(i)[EvaluationOrder[Min(open)]]
    BY <1>4
  <1> HIDE DEF open
  <1>7. Justified(i)["COLLAPSE"] \/ Justified(i)["BLEEDING"]
    BY <1>5, <1>6 DEF Danger
  <1> QED
    BY <1>7 DEF Justified

LEMMA FallsAreKnown ==
  ASSUME NEW p, Trajectory(p) \in {"FALLING", "ACCELERATING_DOWN"}
  PROVE  p.known
  BY DEF Trajectory

LEMMA PairCounted ==
  ASSUME NEW a, NEW b, a # b
  PROVE  Cardinality({a, b}) = 2
  <1>1. IsFiniteSet({a}) /\ Cardinality({a}) = 1
    BY FS_Singleton
  <1>2. Cardinality({a} \cup {b}) = IF b \in {a} THEN Cardinality({a}) ELSE Cardinality({a}) + 1
    BY <1>1, FS_AddElement
  <1>3. {a} \cup {b} = {a, b} /\ b \notin {a}
    OBVIOUS
  <1> QED
    BY <1>1, <1>2, <1>3

LEMMA TwoInstants ==
  ASSUME NEW market \in Seq(Candles), NEW p \in ToSet(market), NEW q \in ToSet(market), p.at # q.at
  PROVE  Cardinality({m.at : m \in ToSet(market)}) >= 2
  <1> DEFINE T == {m.at : m \in ToSet(market)}
             f == [i \in DOMAIN market |-> market[i].at]
  <1>1. DOMAIN f = 1 .. Len(market) /\ Len(market) \in Nat
    OBVIOUS
  <1>2. ToSet(f) = T
    BY DEF ToSet
  <1>3. IsFiniteSet(T)
    BY <1>1, <1>2, ElementsFinite
  <1>4. {p.at, q.at} \in SUBSET T
    OBVIOUS
  <1>5. Cardinality({p.at, q.at}) = 2
    BY PairCounted
  <1>6. Cardinality({p.at, q.at}) <= Cardinality(T)
    BY <1>3, <1>4, FS_Subset
  <1>7. Cardinality(T) \in Nat
    BY <1>3, FS_CardinalityType
  <1> QED
    BY <1>5, <1>6, <1>7

LEMMA DangerEvaluated ==
  ASSUME NEW obs, NEW at, obs.market \in Seq(Candles), Measured(Latest(obs.analytics)),
         Evaluate(obs, at).state \in Danger
  PROVE  /\ \A f \in {"rug", "top", "wash"} : Latest(obs.analytics)[f] # Unknown
         /\ Latest(obs.analytics).wash = One
         /\ Cardinality({m.at : m \in ToSet(obs.market)}) >= 2
  <1> DEFINE closes == [i \in DOMAIN obs.market |->
                           [at |-> obs.market[i].at, value |-> obs.market[i]["close"]]]
             price == TemporalProfile(closes)
             threat == Threat(Latest(obs.analytics))
  <1>1. PICK inputs : /\ inputs.threat = threat /\ inputs.trajectory = Trajectory(price)
                      /\ Evaluate(obs, at).state
                           = StepStateMachine([state |-> "OBSERVING", enteredAt |-> at], inputs, at).state
    BY DEF Evaluate
  <1> HIDE DEF price, threat
  <1>2. threat >= 70 * One /\ Trajectory(price) \in {"FALLING", "ACCELERATING_DOWN"}
    BY <1>1, DangerJustified
  <1>3. price.known
    BY <1>2, FallsAreKnown
  <1>4. closes \in Seq(Points)
    <2>1. /\ DOMAIN obs.market = 1 .. Len(obs.market) /\ Len(obs.market) \in Nat
          /\ \A i \in DOMAIN obs.market : obs.market[i] \in Candles
      OBVIOUS
    <2>2. \A i \in DOMAIN obs.market :
            [at |-> obs.market[i].at, value |-> obs.market[i]["close"]] \in Points
      BY <2>1 DEF Candles, Points
    <2> QED
      BY <2>1, <2>2
  <1>5. PICK p, q \in ToSet(closes) : p.at # q.at
    BY <1>3, <1>4, DirectionNeedsInstants DEF price
  <1>6. PICK m1, m2 \in ToSet(obs.market) : m1.at # m2.at
    <2>1. PICK i, j \in DOMAIN closes : p = closes[i] /\ q = closes[j]
      BY DEF ToSet
    <2>2. obs.market[i].at # obs.market[j].at
      BY <1>5, <2>1
    <2> QED
      BY <2>2 DEF ToSet
  <1>7. Cardinality({m.at : m \in ToSet(obs.market)}) >= 2
    BY <1>6, TwoInstants
  <1>8. /\ Latest(obs.analytics).rug # Unknown /\ Latest(obs.analytics).top # Unknown
        /\ Latest(obs.analytics).wash = One
    BY <1>2, ThreatNeedsAll DEF threat
  <1> QED
    BY <1>7, <1>8 DEF Unknown, One

Observed(obs) ==
    /\ DOMAIN obs = {"market", "analytics", "flow"}
    /\ obs.market \in Seq(Candles)
    /\ Measured(Latest(obs.analytics))

\* What is read is measured, and the report is an evaluation of what it holds.
EvidenceInv ==
    /\ now \in Int
    /\ Observed(reading.obs) /\ Observed(report.obs)
    /\ report.entry = Evaluate(report.obs, report.at)

LEMMA NothingObserved == Observed(NoReading.obs)
  <1>1. NoReading.obs = [market |-> <<>>, analytics |-> <<>>, flow |-> <<>>]
    BY DEF NoReading
  <1>2. Latest(<<>>) = NoAnalytics
    BY DEF Latest
  <1>3. Measured(NoAnalytics)
    BY DEF Measured, NoAnalytics, Ratios
  <1> QED
    BY <1>1, <1>2, <1>3 DEF Observed

LEMMA EvidenceKept == EvidenceInv /\ [MonitorNext]_vars => EvidenceInv'
  <1> SUFFICES ASSUME EvidenceInv, [MonitorNext]_vars PROVE EvidenceInv'
    OBVIOUS
  <1>1. CASE UNCHANGED evaluationVars
    BY <1>1 DEF evaluationVars, EvidenceInv
  <1>2. CASE TickBegins
    BY <1>2, NothingObserved DEF TickBegins, StartReading, EvidenceInv
  <1>3. CASE TickReads /\ KlineAnswers
    <2>1. PICK rows \in Klines :
            reading' = [stage |-> "trending", at |-> reading.at,
                        obs |-> [reading.obs EXCEPT !.market = ParseKline(rows, now)]]
      BY <1>3 DEF KlineAnswers
    <2>2. ParseKline(rows, now) \in Seq(Candles)
      BY CandlesParsed DEF EvidenceInv
    <2>3. reading'.obs = [reading.obs EXCEPT !.market = ParseKline(rows, now)]
      BY <2>1
    <2>4. Observed(reading'.obs)
      BY <2>2, <2>3 DEF EvidenceInv, Observed
    <2>5. UNCHANGED <<now, report>>
      BY <1>3 DEF KlineAnswers
    <2> QED
      BY <2>4, <2>5 DEF EvidenceInv
  <1>4. CASE TickReads /\ TrendingAnswers
    <2>1. PICK rows \in Rankings :
            reading' = [stage |-> "track", at |-> reading.at,
                        obs |-> [reading.obs EXCEPT !.analytics = ParseTrending(rows)]]
      BY <1>4 DEF TrendingAnswers
    <2>2. Measured(Latest(ParseTrending(rows)))
      BY RankingMeasured
    <2>3. reading'.obs = [reading.obs EXCEPT !.analytics = ParseTrending(rows)]
      BY <2>1
    <2>4. Observed(reading'.obs)
      BY <2>2, <2>3 DEF EvidenceInv, Observed
    <2>5. UNCHANGED <<now, report>>
      BY <1>4 DEF TrendingAnswers
    <2> QED
      BY <2>4, <2>5 DEF EvidenceInv
  <1>5. CASE TickEnds
    <2>1. PICK flow : LET obs == [reading.obs EXCEPT !.flow = flow]
                      IN  report' = [at |-> reading.at, obs |-> obs, entry |-> Evaluate(obs, reading.at)]
      BY <1>5 DEF TickEnds, TrackAnswers
    <2> DEFINE obs == [reading.obs EXCEPT !.flow = flow]
    <2>2. report'.obs = obs /\ report'.entry = Evaluate(obs, reading.at) /\ report'.at = reading.at
      BY <2>1
    <2>3. Observed(obs)
      BY DEF EvidenceInv, Observed
    <2>4. reading' = NoReading /\ now' = now
      BY <1>5 DEF TickEnds, TrackAnswers
    <2> HIDE DEF obs
    <2> QED
      BY <2>2, <2>3, <2>4, NothingObserved DEF EvidenceInv
  <1>6. CASE TickFails
    BY <1>6, NothingObserved DEF TickFails, LaneFails, EvidenceInv
  <1>7. CASE ClockMoves
    BY <1>7, MonitorAssumption DEF ClockMoves, EvidenceInv
  <1> QED
    BY <1>1, <1>2, <1>3, <1>4, <1>5, <1>6, <1>7
    DEF MonitorNext, Activate, Pause, Cancel, Become, TickSkips, TickReads, vars

LEMMA EvidenceInitSafe == MonitorInit => EvidenceInv
  <1> SUFFICES ASSUME MonitorInit PROVE EvidenceInv
    OBVIOUS
  <1>1. now = 0 /\ reading = NoReading
    BY DEF MonitorInit, EvaluationInit
  <1>2. report = [at |-> 0, obs |-> NoReading.obs, entry |-> Evaluate(NoReading.obs, 0)]
    BY DEF MonitorInit, EvaluationInit
  <1> QED
    BY <1>1, <1>2, NothingObserved DEF EvidenceInv

\* No danger state is read out of what was not measured, whatever the provider
\* answers: all three security fields, the wash-trading flag and a price series
\* of two instants stand behind it.
THEOREM DangerIsMeasured == MonitorSpec => []DangerNeedsEvidence
  <1>1. EvidenceInv => DangerNeedsEvidence
    BY DangerEvaluated DEF EvidenceInv, Observed, DangerNeedsEvidence
  <1> QED
    BY <1>1, EvidenceInitSafe, EvidenceKept, PTL DEF MonitorSpec

=============================================================================
