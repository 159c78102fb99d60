----------------------------- MODULE WatchQuota -----------------------------
(***************************************************************************)
(* POST /consent, /wallet-watch/subscribe, /wallet-watch and              *)
(* /wallet-watch/cancel with PgWalletWatchStore.  A handler is cut at      *)
(* every await: each query reads or writes when it runs, under the clock   *)
(* its handler read when it was issued.  Nothing locks a user.             *)
(***************************************************************************)
EXTENDS PaymentSettlement

CONSTANTS
    Handlers,     \* handlers running at once
    Wallets,
    Watchers,     \* users of the watch routes
    AdminUsers,
    Plans,        \* keys of WATCH_TIERS; FREE is what an unknown tier is
    FREE,
    PlanCost,     \* [Plans -> Nat], priceUsd
    MaxWallets,   \* [Plans -> Nat]
    Month,        \* MONTH_MS
    FreeUntil,    \* the promotion's freeUntilMs
    MaxTime,      \* bound of the clock
    MaxBuys       \* bound of opSeq

ASSUME WatchAssumption ==
    /\ IsFiniteSet(Handlers) /\ IsFiniteSet(Wallets)
    /\ AdminUsers \subseteq Watchers /\ Watchers \subseteq Users
    /\ FREE \in Plans
    /\ PlanCost \in [Plans -> Nat]
    /\ MaxWallets \in [Plans -> Nat]
    /\ Month \in Nat \ {0}
    /\ FreeUntil \in Nat /\ MaxTime \in Nat
    /\ MaxBuys \in Nat /\ 1..MaxBuys \subseteq Ops

VARIABLES
    time,
    agreed,    \* users whose latest agreement is to the current version
    opSeq,
    plan,      \* watch_tiers: tier and end of each user
    watch,     \* wallet_watches: until when each user watches each wallet
    handler,   \* the running requests
    bought     \* by user, the charged purchases whose write opened a plan, and
               \* those whose write failed

watchVars == <<time, agreed, opSeq, plan, watch, handler, bought>>

Idle == [at |-> "idle"]

WatchInit ==
    /\ time = 0
    /\ agreed = {}
    /\ opSeq = 0
    /\ plan = [u \in Watchers |-> [tier |-> FREE, end |-> 0]]
    /\ watch = [u \in Watchers |-> [w \in Wallets |-> 0]]
    /\ handler = [r \in Handlers |-> Idle]
    /\ bought = [u \in Watchers |-> [opened |-> 0, failed |-> 0]]

Goto(r, h) == handler' = [handler EXCEPT ![r] = h]

\* A query is issued under the clock of this moment.
Query(r, h, at) == Goto(r, [h EXCEPT !.at = at, !.now = time])

---------------------------------------------------------------------------

\* A plan's end is not after its last instant; FREE has none.
TierOf(u, now) == IF plan[u].end <= now THEN FREE ELSE plan[u].tier

\* A cancelled row and a row that does not exist end at 0.
ActiveCount(u, now) == Cardinality({w \in Wallets : watch[u][w] > now})

\* Mutant: the request that reaches the maximum is let through as well.
WithinQuotaInclusive(u, tier, used) == u \in AdminUsers \/ used <= MaxWallets[tier]

WithinQuota(u, tier, used) == u \in AdminUsers \/ used < MaxWallets[tier]

\* Mutant: the counter is read before it is advanced the first time only.
OpIdStuck(seq) == IF seq = 0 THEN 1 ELSE seq

OpId(seq) == seq + 1

\* auth opens the account; the user row is then written, at best effort.
Arrive(r, u, order) ==
    /\ handler[r] = Idle
    /\ Register(u)
    /\ Goto(r, [at |-> "persist", now |-> time, user |-> u, order |-> order,
                tier |-> FREE, paid |-> FALSE, alone |-> TRUE])
    /\ UNCHANGED <<time, agreed, opSeq, plan, watch, bought>>

Consent(u, current) ==
    /\ Register(u)
    /\ agreed' = IF current THEN agreed \cup {u} ELSE agreed \ {u}
    /\ UNCHANGED <<time, opSeq, plan, watch, handler, bought>>

\* The consent gate, then the purchase up to its await: free in the promotion,
\* else a charge, for which a free scan is taken before money.
Buy(r) ==
    LET h    == handler[r]
        free == h.order.tier = FREE \/ time < FreeUntil
    IN  /\ h.at = "persist" /\ h.order.kind = "plan"
        /\ \/ /\ h.user \notin agreed
              /\ Goto(r, Idle)
              /\ UNCHANGED <<ledgerStore, opSeq>>
           \/ /\ h.user \in agreed /\ free
              /\ Query(r, [h EXCEPT !.tier = h.order.tier], "set")
              /\ UNCHANGED <<ledgerStore, opSeq>>
           \/ /\ h.user \in agreed /\ ~free /\ opSeq < MaxBuys
              /\ opSeq' = opSeq + 1
              /\ \/ /\ Charge(h.user, OpId(opSeq), PlanCost[h.order.tier], TRUE)
                    /\ Query(r, [h EXCEPT !.tier = h.order.tier, !.paid = TRUE], "set")
                 \/ /\ ~CanCharge(h.user, OpId(opSeq), PlanCost[h.order.tier], TRUE)
                    /\ Goto(r, Idle)
                    /\ UNCHANGED ledgerStore
        /\ UNCHANGED <<time, agreed, plan, watch, bought>>

\* The row of the user's plan is replaced: what was left of it is gone.
SetTier(r) ==
    LET h == handler[r]
    IN  /\ h.at = "set"
        /\ plan' = [plan EXCEPT ![h.user] =
                       [tier |-> h.tier, end |-> IF h.tier = FREE THEN 0 ELSE h.now + Month]]
        /\ bought' = [bought EXCEPT ![h.user].opened = @ + (IF h.paid THEN 1 ELSE 0)]
        /\ Goto(r, Idle)
        /\ UNCHANGED <<ledgerStore, time, agreed, opSeq, watch>>

\* The gate of a watch request; then its three queries and its entitlement.
AskTier(r) ==
    LET h == handler[r]
    IN  /\ h.at = "persist" /\ h.order.kind = "watch"
        /\ IF h.user \in agreed THEN Query(r, h, "tier") ELSE Goto(r, Idle)
        /\ UNCHANGED <<ledgerStore, time, agreed, opSeq, plan, watch, bought>>

ReadTier(r) ==
    LET h == handler[r]
    IN  /\ h.at = "tier"
        /\ Query(r, [h EXCEPT !.tier = TierOf(h.user, h.now)], "count")
        /\ UNCHANGED <<ledgerStore, time, agreed, opSeq, plan, watch, bought>>

CountUsed(r) ==
    LET h == handler[r]
    IN  /\ h.at = "count"
        /\ IF WithinQuota(h.user, h.tier, ActiveCount(h.user, h.now))
           THEN Query(r, h, "issue")
           ELSE Goto(r, Idle)
        /\ UNCHANGED <<ledgerStore, time, agreed, opSeq, plan, watch, bought>>

\* The entitlement row of the watch, which nothing reads.
IssueWatch(r) ==
    /\ handler[r].at = "issue"
    /\ Query(r, handler[r], "subscribe")
    /\ UNCHANGED <<ledgerStore, time, agreed, opSeq, plan, watch, bought>>

\* Insert or renew the row; requests that have counted are no longer alone.
Subscribe(r) ==
    LET h == handler[r]
        Counted(s) == handler[s].at \in {"issue", "subscribe"} /\ handler[s].user = h.user
    IN  /\ h.at = "subscribe"
        /\ watch' = [watch EXCEPT ![h.user][h.order.wallet] = h.now + Month]
        /\ handler' = [s \in Handlers |->
                          CASE s = r      -> Idle
                            [] s # r /\ Counted(s) -> [handler[s] EXCEPT !.alone = FALSE]
                            [] OTHER      -> handler[s]]
        /\ UNCHANGED <<ledgerStore, time, agreed, opSeq, plan, bought>>

\* A query throws: the request ends there, and a charge stays made.
HandlerThrows(r) ==
    LET h == handler[r]
    IN  /\ h.at \in {"set", "tier", "count", "issue", "subscribe"}
        /\ Goto(r, Idle)
        /\ bought' = IF h.at = "set" /\ h.paid
                     THEN [bought EXCEPT ![h.user].failed = @ + 1]
                     ELSE bought
        /\ UNCHANGED <<ledgerStore, time, agreed, opSeq, plan, watch>>

CancelWatch(u, w) ==
    /\ Register(u)
    /\ watch' = [watch EXCEPT ![u][w] = 0]
    /\ UNCHANGED <<time, agreed, opSeq, plan, handler, bought>>

TimePasses ==
    /\ time < MaxTime
    /\ time' = time + 1
    /\ UNCHANGED <<ledgerStore, agreed, opSeq, plan, watch, handler, bought>>

Orders == [kind : {"plan"}, tier : Plans] \cup [kind : {"watch"}, wallet : Wallets]

HandlerSteps(r) ==
    \/ \E u \in Watchers, order \in Orders : Arrive(r, u, order)
    \/ Buy(r)
    \/ SetTier(r)
    \/ AskTier(r)
    \/ ReadTier(r)
    \/ CountUsed(r)
    \/ IssueWatch(r)
    \/ Subscribe(r)
    \/ HandlerThrows(r)

WatchRoutes ==
    \/ \E r \in Handlers : HandlerSteps(r)
    \/ \E u \in Watchers, current \in BOOLEAN : Consent(u, current)
    \/ \E u \in Watchers, w \in Wallets : CancelWatch(u, w)
    \/ TimePasses

\* Payments are settled between the awaits of the requests.
WatchNext ==
    \/ WatchRoutes /\ UNCHANGED settled
    \/ \E p \in Payments, paid \in PaidAmounts : Settle(p, paid) /\ UNCHANGED watchVars

WatchSpec ==
    SettlementInit /\ WatchInit /\ [][WatchNext]_<<settlementVars, watchVars>>

---------------------------------------------------------------------------
(* Properties *)

\* The quota: a step takes a user above what the plan of the request allowed
\* only if another request of that user took a watch after this one counted.
TakesWithinQuota(u) ==
    ActiveCount(u, time)' > ActiveCount(u, time) =>
        \E r \in Handlers :
            /\ handler[r].at = "subscribe" /\ handler[r].user = u
            /\ handler[r].alone => ActiveCount(u, time)' <= MaxWallets[handler[r].tier]

QuotaHolds ==
    [][\A u \in Watchers \ AdminUsers : TakesWithinQuota(u)]_<<ledgerStore, watchVars>>

\* The purchases that are paid for and not yet written, and the charges made
\* under the numbers given out.
Unwritten(u) ==
    {r \in Handlers : handler[r].at = "set" /\ handler[r].paid /\ handler[r].user = u}

ChargesOf(u) ==
    {op \in Ops \cap 1..opSeq : movements[op] # NoMovement /\ movements[op].user = u}

\* Every charge is one purchase and every purchase outside the promotion one
\* charge: the plan it opened, the one it is about to write, or the one whose
\* write failed, which the user has paid for and does not get.  No opId pays
\* twice, however the requests of one user or of two interleave.
PlanIsPaid ==
    \A u \in Watchers :
        bought[u].opened + bought[u].failed + Cardinality(Unwritten(u)) =
            Cardinality(ChargesOf(u))
=============================================================================
