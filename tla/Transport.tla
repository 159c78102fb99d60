----------------------------- MODULE Transport -----------------------------
(***************************************************************************)
(* ResilientCliExecutor: kill switch, circuit breaker, timeout, retry with *)
(* backoff, around a child process (GmgnCliExecutor).  Several runs share    *)
(* one executor, so they share its breaker; an attempt that timed out is   *)
(* not cancelled, and lives on beside its retry until the child's own      *)
(* timeout kills it.                                                       *)
(*                                                                         *)
(* Time is counted down: a timer holds the ticks that are left.            *)
(***************************************************************************)
EXTENDS Naturals, FiniteSetsExt

CONSTANTS
    Callers,          \* runs that may be under way at once
    MaxAttempts,      \* DEFAULT_RETRY_POLICY.maxAttempts
    BaseDelay, MaxDelay,
    Timeout,          \* of one attempt, in ticks
    InnerLimit,       \* of the child process, in ticks
    FailureThreshold, \* DEFAULT_BREAKER
    Cooldown,
    ResetIn           \* ticks to the reset a rate limit may name

ASSUME TransportAssumption ==
    /\ {MaxAttempts, BaseDelay, Timeout, FailureThreshold, Cooldown} \subseteq Nat \ {0}
    /\ MaxDelay \in Nat /\ MaxDelay >= BaseDelay
    /\ InnerLimit \in Nat /\ InnerLimit > Timeout
    /\ ResetIn \in Nat

VARIABLES
    breaker,  \* [phase, failures, wait]: wait is what is left of the cooldown
    killed,   \* the kill switch
    tpc,      \* [Callers -> {"idle", "try", "sleep"}]
    attempt,  \* [Callers -> 0..MaxAttempts]
    timer,    \* [Callers -> Nat]: of the attempt, or of the sleep
    strays,   \* [Callers -> SUBSET Nat]: what is left to timed-out attempts
    streak,   \* history: failed attempts since one succeeded
    quiet,    \* history: ticks since an attempt failed
    owed,     \* history: attempts each run had left when the switch was engaged
    late      \* history: attempts each caller began since

transportVars == <<breaker, killed, tpc, attempt, timer, strays, streak, quiet, owed, late>>

calls   == <<tpc, attempt, timer>>
history == <<streak, quiet>>

---------------------------------------------------------------------------
(* What a child process returns *)

\* Exit status, whether there is output, the first of the signs the code looks
\* for, and whether a rate limit names its reset.
Result(exit, out, says) == [exit |-> exit, out |-> out, says |-> says, reset |-> FALSE]

\* A missing binary is an ENOENT, which says none of the signs for it; the
\* child surfaces no headers, so a reset is named only by other executors.
InnerResults ==
    {Result(0, TRUE, "nothing"), Result(0, FALSE, "nothing"), Result(1, FALSE, "nothing"),
     Result(1, FALSE, "missing"), Result(1, FALSE, "denied"), Result(1, FALSE, "limited"),
     [Result(1, FALSE, "limited") EXCEPT !.reset = TRUE]}

TimedOut == Result(1, FALSE, "timeout")

\* classifyRunResult: the reading retry and breaker go by.
Classify(r) ==
    IF r.exit = 0 /\ r.out THEN "ok"
    ELSE CASE r.says = "missing" -> "CLI_MISSING"
           [] r.says = "denied"  -> "AUTH_ERROR"
           [] r.says = "limited" -> "RATE_LIMIT"
           [] r.says = "nothing" /\ r.exit = 0 -> "FORMAT_ERROR"
           [] OTHER -> "NETWORK_ERROR"

---------------------------------------------------------------------------
(* Breaker and retry policy *)

InitBreaker == [phase |-> "CLOSED", failures |-> 0, wait |-> 0]

\* [allowed, state]: an OPEN breaker whose cooldown is over turns HALF_OPEN,
\* and a HALF_OPEN one lets everybody through.
BreakerAllows(b) ==
    IF b.phase # "OPEN" THEN [allowed |-> TRUE, state |-> b]
    ELSE IF b.wait = 0 THEN [allowed |-> TRUE, state |-> [b EXCEPT !.phase = "HALF_OPEN"]]
    ELSE [allowed |-> FALSE, state |-> b]

\* Mutant: an open breaker keeps the time it opened.
BreakerOnFailureOnce(b) ==
    LET failures == Min({FailureThreshold, b.failures + 1}) IN
    IF failures >= FailureThreshold
    THEN [phase |-> "OPEN", failures |-> failures,
          wait |-> IF b.failures >= FailureThreshold THEN b.wait ELSE Cooldown]
    ELSE [b EXCEPT !.failures = failures]

\* Failures beyond the threshold are counted as the threshold.
BreakerOnFailure(b) ==
    LET failures == Min({FailureThreshold, b.failures + 1}) IN
    IF failures >= FailureThreshold
    THEN [phase |-> "OPEN", failures |-> failures, wait |-> Cooldown]
    ELSE IF b.phase = "HALF_OPEN"
    THEN [phase |-> "OPEN", failures |-> failures, wait |-> Cooldown]
    ELSE [phase |-> "CLOSED", failures |-> failures, wait |-> b.wait]

IsRetryable(kind) == kind \in {"RATE_LIMIT", "NETWORK_ERROR"}

Backoff(n) == Min({MaxDelay, BaseDelay * 2 ^ (n - 1)})

\* The wait after the n-th attempt failed with kind.
RetryDelay(n, kind, r) ==
    IF kind = "RATE_LIMIT" /\ r.reset THEN Max({Backoff(n), ResetIn}) ELSE Backoff(n)

Retries(n, kind) == IsRetryable(kind) /\ n < MaxAttempts

---------------------------------------------------------------------------

TransportInit ==
    /\ breaker = InitBreaker
    /\ killed = FALSE
    /\ tpc = [c \in Callers |-> "idle"]
    /\ attempt = [c \in Callers |-> 0]
    /\ timer = [c \in Callers |-> 0]
    /\ strays = [c \in Callers |-> {}]
    /\ streak = 0
    /\ quiet = Cooldown
    /\ owed = [c \in Callers |-> 0]
    /\ late = [c \in Callers |-> 0]

Running(c) == tpc[c] # "idle"

\* Mutant: the timeout is taken for seconds.
AttemptTimeoutShort == 1

AttemptTimeout == Timeout

\* The next attempt of c; it counts as late under an engaged kill switch.
BeginAttempt(c) ==
    /\ tpc' = [tpc EXCEPT ![c] = "try"]
    /\ attempt' = [attempt EXCEPT ![c] = @ + 1]
    /\ timer' = [timer EXCEPT ![c] = AttemptTimeout]
    /\ late' = IF killed THEN [late EXCEPT ![c] = @ + 1] ELSE late

Return(c) ==
    /\ tpc' = [tpc EXCEPT ![c] = "idle"]
    /\ attempt' = [attempt EXCEPT ![c] = 0]
    /\ timer' = [timer EXCEPT ![c] = 0]

\* Mutant: the kill switch is read after the breaker, by the next call only.
MayStartUnkilled == BreakerAllows(breaker).allowed

MayStart == ~killed /\ BreakerAllows(breaker).allowed

\* run(): refused by the switch or the breaker, or a first attempt.
Run(c) ==
    /\ ~Running(c)
    /\ breaker' = IF killed THEN breaker ELSE BreakerAllows(breaker).state
    /\ IF MayStart
       THEN BeginAttempt(c)
       ELSE Return(c) /\ UNCHANGED late
    /\ UNCHANGED <<killed, strays, history, owed>>

\* An attempt of c ends with r: return it, or sleep and retry.
Conclude(c, r) ==
    LET kind == Classify(r) IN
    IF kind = "ok"
    THEN /\ breaker' = InitBreaker
         /\ Return(c)
         /\ streak' = 0
         /\ UNCHANGED quiet
    ELSE /\ breaker' = BreakerOnFailure(breaker)
         /\ IF Retries(attempt[c], kind)
            THEN /\ tpc' = [tpc EXCEPT ![c] = "sleep"]
                 /\ timer' = [timer EXCEPT ![c] = RetryDelay(attempt[c], kind, r)]
                 /\ UNCHANGED attempt
            ELSE Return(c)
         /\ streak' = Min({FailureThreshold, streak + 1})
         /\ quiet' = 0

Answer(c) ==
    /\ tpc[c] = "try"
    /\ \E r \in InnerResults : Conclude(c, r)
    /\ UNCHANGED <<killed, strays, owed, late>>

\* The inner executor throws: run() rejects, past retry and breaker.
Throw(c) ==
    /\ tpc[c] = "try"
    /\ Return(c)
    /\ UNCHANGED <<breaker, killed, strays, history, owed, late>>

\* Mutant: an attempt is awaited however long it takes.
TimerFiresNever(c) == timer[c] > Timeout

TimerFires(c) == timer[c] = 0

\* withTimeout: the race is lost, the child process goes on.
TimeOut(c) ==
    /\ tpc[c] = "try"
    /\ TimerFires(c)
    /\ strays' = [strays EXCEPT ![c] = @ \cup {InnerLimit - AttemptTimeout}]
    /\ Conclude(c, TimedOut)
    /\ UNCHANGED <<killed, owed, late>>

\* After the sleep the next attempt begins; neither gate is asked again.
Retry(c) ==
    /\ tpc[c] = "sleep"
    /\ timer[c] = 0
    /\ BeginAttempt(c)
    /\ UNCHANGED <<breaker, killed, strays, history, owed>>

\* A timed-out attempt answers after all; nobody listens.
StrayEnds(c) ==
    /\ \E left \in strays[c] : strays' = [strays EXCEPT ![c] = @ \ {left}]
    /\ UNCHANGED <<breaker, killed, calls, history, owed, late>>

\* The attempts that the run of c, if one is under way, may still begin.
LeftOver(c) == IF Running(c) THEN MaxAttempts - attempt[c] ELSE 0

\* The operator engages or releases the kill switch.
SwitchKill ==
    /\ killed' = ~killed
    /\ owed' = [c \in Callers |-> IF killed THEN 0 ELSE LeftOver(c)]
    /\ late' = [c \in Callers |-> 0]
    /\ UNCHANGED <<breaker, calls, strays, history>>

Down(n) == IF n > 0 THEN n - 1 ELSE 0

\* Timers that are due fire before time goes on; the child's own timeout kills
\* it as time goes on.
Due(c) == tpc[c] \in {"try", "sleep"} /\ timer[c] = 0

Tick ==
    /\ \A c \in Callers : ~Due(c)
    /\ timer' = [c \in Callers |-> Down(timer[c])]
    /\ strays' = [c \in Callers |-> {left - 1 : left \in strays[c] \ {1}}]
    /\ breaker' = [breaker EXCEPT !.wait = Down(@)]
    /\ quiet' = Min({Cooldown, quiet + 1})
    /\ UNCHANGED <<killed, tpc, attempt, streak, owed, late>>

TransportStep(c) ==
    Run(c) \/ Answer(c) \/ Throw(c) \/ TimeOut(c) \/ Retry(c) \/ StrayEnds(c)

TransportNext ==
    \/ \E c \in Callers : TransportStep(c)
    \/ SwitchKill
    \/ Tick

\* setTimeout and the clock are the host's: timers fire and time goes on.
TransportFairness ==
    /\ WF_transportVars(Tick)
    /\ \A c \in Callers : WF_transportVars(TimeOut(c)) /\ WF_transportVars(Retry(c))

TransportSpec == TransportInit /\ [][TransportNext]_transportVars /\ TransportFairness

---------------------------------------------------------------------------
(* Properties *)

\* "When engaged, NO acquisition proceeds": after the kill switch is engaged
\* only runs that were under way may go on, and only to their last attempt.
KillDrains == killed => \A c \in Callers : late[c] <= owed[c]

\* A run starts within the cooldown only if the executor has not failed the
\* threshold of times since a success, whoever's failures and successes.
CooldownKept ==
    [][\A c \in Callers :
        ~Running(c) /\ Running(c)' => streak < FailureThreshold \/ quiet >= Cooldown]_transportVars

\* Timed-out attempts, which nobody cancels, do not pile up: a caller has at
\* most two child processes, the attempt it waits for and the one before.
TwoProcesses ==
    \A c \in Callers : Cardinality(strays[c]) + (IF tpc[c] = "try" THEN 1 ELSE 0) <= 2

\* The child processes of GMGN's client are bounded: they drain once the kill
\* switch is engaged and never pile up behind one caller.
ProcessesBounded == KillDrains /\ TwoProcesses

\* Every run ends, even if no attempt is ever answered.
RunsEnd == \A c \in Callers : Running(c) ~> ~Running(c)
=============================================================================
