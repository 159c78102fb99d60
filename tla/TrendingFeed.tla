---------------------------- MODULE TrendingFeed ----------------------------
(***************************************************************************)
(* The trending cache and who reads it: GET /trending, GET /war/intel past *)
(* its own cache, and the collector of a tick.  A stale cache is refreshed *)
(* once, and whoever asks meanwhile shares the refresh.  All of it lives   *)
(* in the memory of one process; requests interleave at every await.  What *)
(* the chains rank is left out: the cache hands it on unread.              *)
(***************************************************************************)
EXTENDS Integers

CONSTANTS
    Requests,
    Chains,      \* how many TRENDING_CHAINS a refresh asks, one after the other
    TTL,         \* trendingTtlMs
    IntelTTL,    \* INTEL_TTL_MS
    MaxBurst,    \* the longest refresh, the CLI's timeout on every chain
    MaxClock, MaxCrashes,  \* bounds
    Nobody

ASSUME FeedAssumption ==
    /\ {Chains, TTL, IntelTTL, MaxBurst} \subseteq Nat \ {0}
    /\ MaxBurst < TTL
    /\ MaxClock \in Nat /\ MaxCrashes \in Nat
    /\ Nobody \notin Requests

VARIABLES
    clock,
    snapshot,   \* [at, stale], or None: when it was asked for
    inFlight,   \* whose refresh runs (the shared promise), or Nobody
    burst,      \* [Requests -> [step, at, ok]]: the refresh r runs
    req,        \* [Requests -> [pc, kind, asked, on, got]]: on, whose refresh it awaits
    intel,      \* when the cached briefing was asked for
    lastBurst,  \* history: [at, ended], the last refresh
    crashes

feedVars == <<clock, snapshot, inFlight, burst, req, intel, lastBurst, crashes>>

None == [at |-> -1, stale |-> TRUE]
NoBurst == [step |-> 0, at |-> 0, ok |-> FALSE]
NeverRefreshed == [at |-> -1, ended |-> "failed"]
Resting == [pc |-> "idle", kind |-> "browse", asked |-> 0, on |-> Nobody, got |-> None]

FeedInit ==
    /\ clock = 0
    /\ snapshot = None
    /\ inFlight = Nobody
    /\ burst = [r \in Requests |-> NoBurst]
    /\ req = [r \in Requests |-> Resting]
    /\ intel = -IntelTTL
    /\ lastBurst = NeverRefreshed
    /\ crashes = 0

---------------------------------------------------------------------------
(* The cache *)

IsStale == snapshot = None \/ clock - snapshot.at >= TTL

\* A request that is given s: the briefing is still to be built from it.
Given(q, s) == [pc |-> IF q.kind = "intel" THEN "build" ELSE "have", kind |-> q.kind,
                asked |-> q.asked, on |-> Nobody, got |-> s]

\* A request that awaits the refresh of r.
Awaiting(q, r) == [pc |-> "wait", kind |-> q.kind, asked |-> q.asked, on |-> r, got |-> None]

\* Mutant: a refresh under way is not looked for.
SharedNever == inFlight \notin Requests \cup {Nobody}

Shared == inFlight # Nobody

\* get(now): the cache, the refresh under way, or a refresh of its own.
Get(r, kind) ==
    LET q == [pc |-> "idle", kind |-> kind, asked |-> clock, on |-> Nobody, got |-> None] IN
    IF ~IsStale
    THEN /\ req' = [req EXCEPT ![r] = Given(q, snapshot)]
         /\ UNCHANGED <<inFlight, burst, lastBurst>>
    ELSE IF Shared
    THEN /\ req' = [req EXCEPT ![r] = Awaiting(q, inFlight)]
         /\ UNCHANGED <<inFlight, burst, lastBurst>>
    ELSE /\ req' = [req EXCEPT ![r] = Awaiting(q, r)]
         /\ inFlight' = r
         /\ burst' = [burst EXCEPT ![r] = [step |-> 1, at |-> clock, ok |-> FALSE]]
         /\ lastBurst' = [at |-> clock, ended |-> "running"]

\* One chain's `market trending`, which answers or fails.
RankChain(r) ==
    /\ burst[r].step \in 1..Chains
    /\ \E ok \in BOOLEAN :
        burst' = [burst EXCEPT ![r] = [step |-> @.step + 1, at |-> @.at, ok |-> @.ok \/ ok]]
    /\ UNCHANGED <<clock, snapshot, inFlight, req, intel, lastBurst, crashes>>

\* Mutant: the fallback is served as if it were fresh.
FallbackUnmarked(b) == IF snapshot = None THEN [None EXCEPT !.at = b.at] ELSE snapshot

\* After a failed refresh: the last snapshot, stale, or an empty one.
Fallback(b) ==
    IF snapshot = None THEN [None EXCEPT !.at = b.at] ELSE [snapshot EXCEPT !.stale = TRUE]

\* The refresh ends and everyone who shares it goes on.  One chain that
\* answered is enough; the empty snapshot of a first failure is not kept.
EndBurst(r) ==
    LET b == burst[r]
        s == IF b.ok THEN [at |-> b.at, stale |-> FALSE] ELSE Fallback(b)
    IN /\ b.step = Chains + 1
       /\ snapshot' = IF ~b.ok /\ snapshot = None THEN None ELSE s
       /\ inFlight' = IF inFlight = r THEN Nobody ELSE inFlight
       /\ burst' = [burst EXCEPT ![r] = NoBurst]
       /\ req' = [q \in Requests |-> IF req[q].on = r THEN Given(req[q], s) ELSE req[q]]
       /\ lastBurst' = [lastBurst EXCEPT !.ended = IF b.ok THEN "ok" ELSE "failed"]
       /\ UNCHANGED <<clock, intel, crashes>>

---------------------------------------------------------------------------
(* Requests *)

Ask(r) ==
    /\ req[r].pc = "idle"
    /\ \E kind \in {"browse", "intel"} :
        /\ kind = "intel" => clock - intel >= IntelTTL
        /\ Get(r, kind)
    /\ UNCHANGED <<clock, snapshot, intel, crashes>>

\* The answer is sent, or the collector takes up a batch of the tokens.
Answer(r) ==
    /\ req[r].pc = "have"
    /\ req' = [req EXCEPT ![r] = Resting]
    /\ UNCHANGED <<clock, snapshot, inFlight, burst, intel, lastBurst, crashes>>

\* The briefing is dated when it was asked for, and the last to end is kept.
Build(r) ==
    /\ req[r].pc = "build"
    /\ intel' = req[r].asked
    /\ req' = [req EXCEPT ![r] = Resting]
    /\ UNCHANGED <<clock, snapshot, inFlight, burst, lastBurst, crashes>>

\* No refresh outlasts the CLI's timeouts.
FeedTick ==
    /\ clock < MaxClock
    /\ \A r \in Requests : burst[r].step > 0 => clock - burst[r].at < MaxBurst
    /\ clock' = clock + 1
    /\ UNCHANGED <<snapshot, inFlight, burst, req, intel, lastBurst, crashes>>

FeedCrash ==
    /\ crashes < MaxCrashes
    /\ crashes' = crashes + 1
    /\ snapshot' = None
    /\ inFlight' = Nobody
    /\ burst' = [r \in Requests |-> NoBurst]
    /\ req' = [r \in Requests |-> Resting]
    /\ intel' = -IntelTTL
    /\ lastBurst' = NeverRefreshed
    /\ UNCHANGED clock

FeedStep(r) == Ask(r) \/ RankChain(r) \/ EndBurst(r) \/ Answer(r) \/ Build(r)

FeedNext == (\E r \in Requests : FeedStep(r)) \/ FeedTick \/ FeedCrash

FeedSpec == FeedInit /\ [][FeedNext]_feedVars

---------------------------------------------------------------------------
(* Properties *)

\* GMGN sees one burst at a time, whoever asks, and the next one only when the
\* snapshot has expired or the refresh before it failed.
BurstsSpaced ==
    [][\A r \in Requests :
        burst[r].step = 0 /\ burst'[r].step = 1 =>
            \/ lastBurst.ended = "failed"
            \/ lastBurst.ended = "ok" /\ clock - lastBurst.at >= TTL]_feedVars

\* An answer that is not marked stale was ranked less than a TTL before it was
\* asked for, although it may come from a refresh that others began.
AnswersHonest ==
    \A r \in Requests :
        req[r].pc \in {"have", "build"} /\ ~req[r].got.stale => req[r].asked - req[r].got.at < TTL
=============================================================================
