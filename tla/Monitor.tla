-------------------------------- MODULE Monitor --------------------------------
(* A paid monitoring session (product/monitor/monitor.ts) and the ticks that   *)
(* evaluate it (integration/MonitoringService.ts, integration/monitorTick.ts): *)
(* the session as it is stored, the tick in flight with the copy it was given, *)
(* the carry from tick to tick, the alerts and the records it leaves.          *)
(*                                                                             *)
(* Who calls tick() and the session operations is injected ("the scheduler/    *)
(* cron that calls tick() repeatedly is injected by the caller"): the host     *)
(* hands the stored session to one tick at a time, keeps the carry, and stores *)
(* the session the tick returns.                                               *)
EXTENDS Evaluation

CONSTANTS
    None,          \* null
    Duration,      \* minutes a session is paid for
    Checkpoint,    \* minutes after which a record is written without a change
    Bucket,        \* points of one bucket of a fingerprint
    MaxClock       \* bound: minutes of a behaviour

ASSUME MonitorAssumption ==
    /\ {Duration, MaxClock} \subseteq Nat
    /\ {Step, Checkpoint} \subseteq Nat \ {0}

VARIABLES
    session,    \* the stored row
    ticking,    \* the copy of the row the tick in flight was given
    carry,      \* what one tick hands to the next
    record,     \* the last result the product persisted
    news,       \* per signal, how often the user was told that it is new
    closed      \* the session was ended while no tick was in flight

sessionVars == <<session, ticking, carry, record, news, closed>>

vars == <<evaluationVars, sessionVars>>

Terminal == {"EXPIRED", "CANCELLED", "FAILED"}

Allowed ==
    [PENDING |-> {"ACTIVE", "CANCELLED", "FAILED"},
     ACTIVE |-> {"PAUSED", "EXPIRED", "CANCELLED", "FAILED"},
     PAUSED |-> {"ACTIVE", "EXPIRED", "CANCELLED", "FAILED"},
     EXPIRED |-> {}, CANCELLED |-> {}, FAILED |-> {}]

CanTransition(from, to) == to \in Allowed[from]

InitialCarry == [prior |-> None, memory |-> [s \in Identities |-> "unseen"],
                 print |-> None, checkpoint |-> None]

MonitorInit ==
    /\ EvaluationInit
    /\ session = [status |-> "PENDING", expiresAt |-> Duration, lastObservationAt |-> None]
    /\ ticking = None
    /\ carry = InitialCarry
    /\ record = None
    /\ news = [s \in Identities |-> 0]
    /\ closed = FALSE

-----------------------------------------------------------------------------
(* The session operations. *)

Close(status) == closed' = (closed \/ (ticking = None /\ status \in Terminal))

Become(status) ==
    /\ CanTransition(session.status, status)
    /\ session' = [session EXCEPT !.status = status]
    /\ Close(status)
    /\ UNCHANGED <<evaluationVars, ticking, carry, record, news>>

Activate == Become("ACTIVE")

Pause == Become("PAUSED")

Cancel == Become("CANCELLED")

\* Mutant: only a session that is running expires.
ExpireIfDueActive(s, at) ==
    IF at >= s.expiresAt /\ s.status = "ACTIVE" THEN [s EXCEPT !.status = "EXPIRED"] ELSE s

(* Unchanged before the end, an error for a session that was never activated. *)
ExpireIfDue(s, at) ==
    IF at < s.expiresAt \/ s.status \in Terminal THEN s
    ELSE IF CanTransition(s.status, "EXPIRED") THEN [s EXCEPT !.status = "EXPIRED"]
    ELSE None

\* Mutant: any session that is paid for and not over may acquire.
IsAcquisitionAllowedPaid(s, at) == s.status # "PENDING" /\ at < s.expiresAt

IsAcquisitionAllowed(s, at) == s.status = "ACTIVE" /\ at < s.expiresAt

-----------------------------------------------------------------------------
(* What one tick makes of an entry. *)

(* eventDetector.ts; points are kept in sixtieths, coherence in sixtieths. *)
DetectEvents(before, after) ==
    LET power == after.power - before.power
        threat == after.threat - before.threat
    IN  {e \in {"POWER_BREAKOUT", "POWER_COLLAPSE", "THREAT_SPIKE",
                "SIGNAL_CONFLICT", "FLOW_DIVERGENCE", "STATE_CHANGE"} :
            CASE e = "POWER_BREAKOUT" -> power >= 15 * One
              [] e = "POWER_COLLAPSE" -> -power >= 15 * One
              [] e = "THREAT_SPIKE" -> threat >= 20 * One
              [] e = "SIGNAL_CONFLICT" -> before.coherence - after.coherence >= 18
              [] e = "FLOW_DIVERGENCE" -> after.flowLeads /\ threat > 0 /\ power < 0
              [] e = "STATE_CHANGE" -> before.state # after.state}

(* alerts.ts: a signal is news only when its phase differs from the remembered  *)
(* one, and EMERGING only when nothing is remembered.                           *)
IsNews(signals, memory) ==
    {s \in DOMAIN signals : signals[s] = "EMERGING" /\ memory[s] = "unseen"}

\* Mutant: a signal that cannot be seen is forgotten.
RememberSeen(memory, signals) ==
    [s \in Identities |-> IF s \in DOMAIN signals THEN signals[s] ELSE "unseen"]

Remember(memory, signals) ==
    [s \in Identities |-> IF s \in DOMAIN signals THEN signals[s] ELSE memory[s]]

Fingerprint(entry) ==
    [state |-> entry.state, signals |-> entry.signals,
     power |-> entry.power \div (Bucket * One), threat |-> entry.threat \div (Bucket * One)]

\* Mutant: a change of the signals alone is not recorded.
DecidePersistCoarse(prev, next, checkpoint, at) ==
    \/ prev = None
    \/ prev.state # next.state \/ prev.power # next.power \/ prev.threat # next.threat
    \/ at - checkpoint >= Checkpoint

(* tokenMemory.ts: a first result, any change of the fingerprint, or a checkpoint. *)
DecidePersist(prev, next, checkpoint, at) ==
    \/ prev = None
    \/ prev # next
    \/ checkpoint = None
    \/ at - checkpoint >= Checkpoint

NextCarry(entry, at, persist) ==
    [prior |-> entry, memory |-> Remember(carry.memory, entry.signals),
     print |-> Fingerprint(entry), checkpoint |-> IF persist THEN at ELSE carry.checkpoint]

-----------------------------------------------------------------------------
(* MonitoringService.tick. Reading the clock, the expiry and the permission are *)
(* one step; the acquisition follows; its last answer ends the tick.            *)

TickSkips ==
    /\ ticking = None
    /\ LET current == ExpireIfDue(session, now)
       IN  /\ current # None
           /\ ~IsAcquisitionAllowed(current, now)
           /\ session' = current
           /\ Close(current.status)
    /\ UNCHANGED <<evaluationVars, ticking, carry, record, news>>

TickBegins ==
    /\ ticking = None
    /\ session.lastObservationAt # now     \* bound: the host evaluates once per instant
    /\ LET current == ExpireIfDue(session, now)
       IN  /\ current # None
           /\ IsAcquisitionAllowed(current, now)
           /\ ticking' = current
    /\ StartReading
    /\ UNCHANGED <<now, report, session, carry, record, news, closed>>

TickReads ==
    /\ ticking # None
    /\ KlineAnswers \/ TrendingAnswers
    /\ UNCHANGED sessionVars

(* An error: the host keeps the session and the carry it has. *)
TickFails ==
    /\ ticking # None
    /\ LaneFails
    /\ ticking' = None
    /\ UNCHANGED <<session, carry, record, news, closed>>

(* The returned session is the copy of the start with its markers moved: stored, *)
(* it replaces whatever happened to the row meanwhile. Of the markers the model  *)
(* keeps the first: the three move together, the last one with an event only.    *)
TickEnds ==
    /\ ticking # None
    /\ ticking' = None
    /\ TrackAnswers
    /\ LET entry == report'.entry
           at == report'.at
           events == IF carry.prior = None THEN {} ELSE DetectEvents(carry.prior, entry)
           persist == DecidePersist(carry.print, Fingerprint(entry), carry.checkpoint, at)
       IN  /\ carry' = NextCarry(entry, at, persist)
           /\ record' = IF persist THEN [print |-> Fingerprint(entry), at |-> at] ELSE record
           /\ news' = [s \in Identities |->
                          IF s \in IsNews(entry.signals, carry.memory) THEN news[s] + 1 ELSE news[s]]
           /\ session' = [ticking EXCEPT !.lastObservationAt = at]
    /\ UNCHANGED closed

ClockMoves ==
    /\ now < MaxClock
    /\ now' = now + Step
    /\ UNCHANGED <<reading, report, sessionVars>>

MonitorNext ==
    \/ Activate
    \/ Pause
    \/ Cancel
    \/ TickSkips
    \/ TickBegins
    \/ TickReads
    \/ TickFails
    \/ TickEnds
    \/ ClockMoves

(* The host keeps calling tick(), the clock moves on, and every call to the      *)
(* provider is answered or fails (its timeout, see Transport).                   *)
Fairness ==
    /\ WF_vars(ClockMoves)
    /\ WF_vars(TickSkips \/ TickBegins)
    /\ WF_vars(TickFails \/ TickReads \/ TickEnds)

MonitorSpec == MonitorInit /\ [][MonitorNext]_vars /\ Fairness

-----------------------------------------------------------------------------
(* Properties.                                                                   *)

(* "An expired/inactive session performs NO acquisition" (MonitoringService.ts): *)
(* once a session was ended with no tick in flight, it stays ended and no tick   *)
(* reads for it again. (An end that falls into a tick is overwritten by it.)     *)
EndedStaysEnded == closed => session.status \in Terminal /\ ticking = None

(* "A user is alerted on meaningful PHASE transitions, not once per tick"        *)
(* (alerts.ts): over a whole session a signal is announced as new once, through  *)
(* failed ticks, ticks that could not see it, and its return.                    *)
NewOnce == \A s \in Identities : news[s] <= 1

(* tokenMemory.ts: whatever a tick saw, the record of the product shows it - the *)
(* last fingerprint was persisted, and never Checkpoint minutes before the last  *)
(* observation.                                                                  *)
RecordKeepsUp ==
    carry.print # None =>
        /\ record # None
        /\ record.print = carry.print
        /\ carry.prior.state = record.print.state
        /\ session.lastObservationAt # None =>
              session.lastObservationAt - record.at < Checkpoint

(* A session that was started comes to an end, paused or not (monitor.ts:        *)
(* expireIfDue). One that was never activated does not: its tick is an error.    *)
SessionEnds == (session.status \in {"ACTIVE", "PAUSED"}) ~> (session.status \in Terminal)

=============================================================================
