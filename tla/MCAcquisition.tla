---------------------------- MODULE MCAcquisition ----------------------------
(* What acquires data and what watches it: the executor, the two limiters and *)
(* the monitoring session.  The session sees of the executor that a read      *)
(* fails, nothing else, and no limiter is asked by either: a behaviour is one *)
(* of them, chosen at the start.  The session follows one token, in a ranking *)
(* that names another; its candles hold a steady rise, a fall that steepens,  *)
(* and a single candle beside a malformed one.                                *)
EXTENDS Transport, RateLimits, MCMonitor

CONSTANTS c1, c2

VARIABLE side

Sides == {"calls", "client", "route", "session"}

Init ==
    /\ TransportInit
    /\ LimitsInit
    /\ MonitorInit
    /\ side \in Sides

Calls(A) == side = "calls" /\ A /\ UNCHANGED <<side, limitVars, vars>>

Limits(s, A) == A /\ side = s /\ UNCHANGED <<side, transportVars, vars>>

Session(A) == side = "session" /\ A /\ UNCHANGED <<side, transportVars, limitVars>>

Next ==
    \/ Calls(SwitchKill)
    \/ Calls(Tick)
    \/ \E c \in Callers : Calls(TransportStep(c))
    \/ Limits("client", Client)
    \/ Limits("route", Route)
    \/ \E s \in {"client", "route"} : Limits(s, Forward) \/ Limits(s, SetBack)
    \/ Session(MonitorNext)

\* TransportFairness and Fairness, each where its component runs.
MCFairness ==
    /\ WF_transportVars(side = "calls" /\ Tick)
    /\ \A c \in Callers :
        WF_transportVars(side = "calls" /\ TimeOut(c)) /\ WF_transportVars(side = "calls" /\ Retry(c))
    /\ WF_vars(side = "session" /\ ClockMoves)
    /\ WF_vars(side = "session" /\ (TickSkips \/ TickBegins))
    /\ WF_vars(side = "session" /\ (TickFails \/ TickReads \/ TickEnds))

Spec == Init /\ [][Next]_<<transportVars, limitVars, vars, side>> /\ MCFairness
=============================================================================
