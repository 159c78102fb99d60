------------------------------ MODULE ScanApi ------------------------------
(***************************************************************************)
(* POST /scan of the wired app: the gates, the daily cap, the charge, the  *)
(* entitlement, the scan pipeline, the refund and the usage count of every *)
(* request, interleaved at every await with other requests and with the    *)
(* payment webhooks.                                                       *)
(*                                                                         *)
(* An op is one request.  Its opId is the key of its charge, of its        *)
(* entitlement and of its execution, so the pipeline of ScanService runs   *)
(* with one call, one request and one entitlement per op.  Accounts,       *)
(* settlements and the entitlement ledger are memory of the process; the   *)
(* daily usage and the rows are in the database.                           *)
(***************************************************************************)
EXTENDS PaymentSettlement

CONSTANTS
    OpUser,         \* [Ops -> Users]
    Admins,         \* users who bypass the cap and the charge
    DailyCap,       \* dailyScans of the STANDARD tier; COMMAND has none
    MaxInFlight,    \* bound on the requests a user has open at once
    MaxDay,         \* bound on midnights (UTC)
    PromoAtStart,   \* does a free promotion run at the start (it may end)
    Throws,         \* awaited steps that may throw: ScanService's and these
    LostAcks,
    MaxRestarts,
    NoRequest

ApiSteps == {"check", "issue", "record"}

ASSUME ApiAssumption ==
    /\ OpUser \in [Ops -> Users]
    /\ Admins \subseteq Users
    /\ DailyCap \in Nat \ {0}
    /\ MaxInFlight \in Nat \ {0}
    /\ MaxDay \in Nat
    /\ PromoAtStart \in BOOLEAN

VARIABLES
    api,        \* where each request is in the handler, or how it was answered
    source,     \* chargedSource of each request
    promo,      \* promotion.isFree(now)
    used,       \* usage_daily.scans of today, by user
    day,
    pc, status, usage, entRow, usageRow, execRow, snapshots, restarts

Service == INSTANCE ScanService WITH
    Calls <- Ops, Requests <- Ops, Entitlements <- Ops,
    RequestOf <- [o \in Ops |-> o], EntitlementOf <- [o \in Ops |-> o],
    UserOf <- OpUser, OwnerOf <- OpUser,
    Throws <- Throws \ ApiSteps, LostAcks <- LostAcks \ ApiSteps

moneyVars   == settlementVars
serviceVars == <<pc, status, usage, entRow, usageRow, execRow, snapshots>>
usageVars   == <<used, day>>
apiVars == <<api, source, promo, used, day, accounts, movements, refunded, settled,
             pc, status, usage, entRow, usageRow, execRow, snapshots, restarts>>

Open == {"entered", "checking", "admitted", "issuing", "scanning", "recording"}

\* 403, 409 or 400; 429; 402; 409 of the pipeline; 500; 200; the process died.
Answers == {"turnedAway", "capped", "unpaid", "failed", "error", "served", "dropped"}

Sources == {"NONE", "PROMO", "FREE", "BALANCE"}

ApiTypeOK ==
    /\ api \in [Ops -> {"idle"} \cup Open \cup Answers]
    /\ source \in [Ops -> Sources]
    /\ promo \in BOOLEAN
    /\ used \in [Users -> Nat]
    /\ day \in 0..MaxDay
    /\ LedgerTypeOK
    /\ settled \subseteq Payments
    /\ Service!ScanTypeOK

ApiInit ==
    /\ api = [o \in Ops |-> "idle"]
    /\ source = [o \in Ops |-> "NONE"]
    /\ promo = PromoAtStart
    /\ used = [u \in Users |-> 0]
    /\ day = 0
    /\ SettlementInit
    /\ pc = [o \in Ops |-> "idle"]
    /\ status = [o \in Ops |-> "NONE"]
    /\ usage = [o \in Ops |-> NoRequest]
    /\ entRow = [o \in Ops |-> "NONE"]
    /\ usageRow = [o \in Ops |-> NoRequest]
    /\ execRow = [o \in Ops |-> "NONE"]
    /\ snapshots = {}
    /\ restarts = 0

Answer(o, to) == api' = [api EXCEPT ![o] = to]

InFlight(u) == {o \in Ops : OpUser[o] = u /\ api[o] \in Open}

Unlimited(u) == u \in Admins \/ Require(u).tier = "COMMAND"

---------------------------------------------------------------------------
(* The handler *)

\* Authentication opens the account, the consent gate lets the request in.
Enter(o) ==
    LET u == OpUser[o]
    IN  /\ api[o] = "idle"
        /\ Cardinality(InFlight(u)) < MaxInFlight
        /\ Register(u)
        /\ \E to \in {"turnedAway", "entered"} : Answer(o, to)
        /\ UNCHANGED <<source, promo, usageVars, settled, serviceVars, restarts>>

\* Runs when the channel membership is known: membership and the body decide
\* whether the request goes on, the tier of now whether it is capped.
Admit(o) ==
    /\ api[o] = "entered"
    /\ \/ Answer(o, "turnedAway")
       \/ Answer(o, IF Unlimited(OpUser[o]) THEN "admitted" ELSE "checking")
    /\ UNCHANGED <<source, promo, usageVars, moneyVars, serviceVars, restarts>>

\* Mutant: the request that reaches the cap is admitted too.
CheckCapOffByOne(o) ==
    /\ api[o] = "checking"
    /\ \/ used[OpUser[o]] <= DailyCap /\ Answer(o, "admitted")
       \/ used[OpUser[o]] > DailyCap /\ Answer(o, "capped")
       \/ "check" \in Throws /\ Answer(o, "error")
    /\ UNCHANGED <<source, promo, usageVars, moneyVars, serviceVars, restarts>>

\* usage.check reads today's count and reserves nothing.
CheckCap(o) ==
    /\ api[o] = "checking"
    /\ \/ used[OpUser[o]] < DailyCap /\ Answer(o, "admitted")
       \/ used[OpUser[o]] >= DailyCap /\ Answer(o, "capped")
       \/ "check" \in Throws /\ Answer(o, "error")
    /\ UNCHANGED <<source, promo, usageVars, moneyVars, serviceVars, restarts>>

\* issueFrom: idempotent per transaction id.
IssueInLedger(o) ==
    status' = [status EXCEPT ![o] = IF @ = "NONE" THEN "ISSUED" ELSE @]

Free(o) == promo \/ OpUser[o] \in Admins

\* Synchronous after the check: charge, then issue the entitlement.
ChargeAndIssue(o) ==
    LET u == OpUser[o]
    IN  /\ api[o] = "admitted"
        /\ \/ /\ Free(o)
              /\ source' = [source EXCEPT ![o] = "PROMO"]
              /\ UNCHANGED <<accounts, movements, refunded>>
           \/ /\ ~Free(o)
              /\ Charge(u, o, Price, TRUE)
              /\ source' = [source EXCEPT
                    ![o] = IF movements'[o].kind = "FREE_DEBIT" THEN "FREE" ELSE "BALANCE"]
        /\ IssueInLedger(o)
        /\ Answer(o, "issuing")
        /\ UNCHANGED <<promo, usageVars, settled, pc, usage, entRow, usageRow, execRow,
                       snapshots, restarts>>

CannotPay(o) ==
    /\ api[o] = "admitted"
    /\ ~Free(o)
    /\ ~CanCharge(OpUser[o], o, Price, TRUE)
    /\ Answer(o, "unpaid")
    /\ UNCHANGED <<source, promo, usageVars, moneyVars, serviceVars, restarts>>

\* The entitlement row; nothing catches an exception here.
IssueRow(o) ==
    LET Insert == entRow' = [entRow EXCEPT ![o] = IF @ = "NONE" THEN "ISSUED" ELSE @]
    IN  /\ api[o] = "issuing"
        /\ \/ Insert /\ Answer(o, "scanning")
           \/ "issue" \in LostAcks /\ Insert /\ Answer(o, "error")
           \/ "issue" \in Throws /\ UNCHANGED entRow /\ Answer(o, "error")
        /\ UNCHANGED <<source, promo, usageVars, moneyVars, pc, status, usage, usageRow,
                       execRow, snapshots, restarts>>

Scan(o) ==
    /\ api[o] = "scanning"
    /\ Service!CallStep(o)
    /\ UNCHANGED <<api, source, promo, usageVars, moneyVars>>

\* The base handler refused a token without chain and address, or the pipeline
\* answered with an error: refund, unless the scan was free.
RefundFailed(o) ==
    /\ api[o] = "scanning"
    /\ pc[o] \in {"idle", "refused", "failed"}
    /\ IF source[o] = "PROMO"
       THEN UNCHANGED <<accounts, movements, refunded>>
       ELSE Refund(OpUser[o], o)
    /\ Answer(o, "failed")
    /\ UNCHANGED <<source, promo, usageVars, settled, serviceVars, restarts>>

\* Mutant: the refund moved to a finally block.
SucceedAndRefund(o) ==
    /\ api[o] = "scanning"
    /\ pc[o] \in {"ok", "reused"}
    /\ Refund(OpUser[o], o)
    /\ Answer(o, "recording")
    /\ UNCHANGED <<source, promo, usageVars, settled, serviceVars, restarts>>

Succeed(o) ==
    /\ api[o] = "scanning"
    /\ pc[o] \in {"ok", "reused"}
    /\ Answer(o, "recording")
    /\ UNCHANGED <<source, promo, usageVars, moneyVars, serviceVars, restarts>>

\* An exception of the pipeline goes past the refund to the server's 500.
Escape(o) ==
    /\ api[o] = "scanning"
    /\ pc[o] = "threw"
    /\ Answer(o, "error")
    /\ UNCHANGED <<source, promo, usageVars, moneyVars, serviceVars, restarts>>

RecordUsage(o) ==
    /\ api[o] = "recording"
    /\ \/ used' = [used EXCEPT ![OpUser[o]] = @ + 1] /\ Answer(o, "served")
       \/ /\ "record" \in LostAcks
          /\ used' = [used EXCEPT ![OpUser[o]] = @ + 1]
          /\ Answer(o, "error")
       \/ "record" \in Throws /\ UNCHANGED used /\ Answer(o, "error")
    /\ UNCHANGED <<source, promo, day, moneyVars, serviceVars, restarts>>

HandlerStep(o) ==
    \/ Admit(o) \/ CheckCap(o) \/ ChargeAndIssue(o) \/ CannotPay(o) \/ IssueRow(o)
    \/ Scan(o) \/ RefundFailed(o) \/ Succeed(o) \/ Escape(o) \/ RecordUsage(o)

---------------------------------------------------------------------------
(* Around the handler *)

Webhook(p) ==
    /\ \E paid \in PaidAmounts : Settle(p, paid)
    /\ UNCHANGED <<api, source, promo, usageVars, serviceVars, restarts>>

PromoEnds ==
    /\ promo
    /\ promo' = FALSE
    /\ UNCHANGED <<api, source, usageVars, moneyVars, serviceVars, restarts>>

\* The count is keyed by the UTC day.
Midnight ==
    /\ day < MaxDay
    /\ day' = day + 1
    /\ used' = [u \in Users |-> 0]
    /\ UNCHANGED <<api, source, promo, moneyVars, serviceVars, restarts>>

\* The host scales to zero or redeploys: what deploy/server.ts keeps in memory
\* is gone, what it keeps in PostgreSQL is not.
RestartProcess ==
    /\ Service!Restart
    /\ api' = [o \in Ops |-> IF api[o] \in Open THEN "dropped" ELSE api[o]]
    /\ accounts' = [u \in Users |-> NoAccount]
    /\ movements' = [i \in MovementIds |-> NoMovement]
    /\ refunded' = {}
    /\ settled' = {}
    /\ UNCHANGED <<source, promo, usageVars>>

ApiNext ==
    \/ \E o \in Ops : Enter(o) \/ HandlerStep(o)
    \/ \E p \in Payments : Webhook(p)
    \/ PromoEnds \/ Midnight \/ RestartProcess

ApiSpec == ApiInit /\ [][ApiNext]_apiVars

\* A request that came in keeps running; webhooks, midnight, the end of the
\* promotion and restarts need never happen.
ApiFairSpec == ApiSpec /\ \A o \in Ops : WF_apiVars(HandlerStep(o))

---------------------------------------------------------------------------
(* Properties *)

Charged(o)   == movements[o] # NoMovement /\ o \notin refunded
Delivered(o) == pc[o] = "ok"

\* "a failed scan never costs the user" (wiredApp.ts): whoever is answered
\* without a result has no charge standing for it.
FailedScanIsFree ==
    \A o \in Ops :
        api[o] \in Answers \ {"served", "dropped"} /\ ~Delivered(o) => ~Charged(o)

\* And a result costs: a scan that delivered was a gift or its charge stands,
\* whatever failed around it.
ResultIsPaid ==
    \A o \in Ops : Delivered(o) => source[o] = "PROMO" \/ Charged(o)

\* The free scans are "granted once to a new account" (balance.ts): no user is
\* given more results for free than the grant.
FreeQuotaOnce ==
    \A u \in Users :
        Cardinality({o \in Ops : OpUser[o] = u /\ source[o] = "FREE" /\ Delivered(o)})
            <= FreeScanGrant

Capped(u) == u \notin Admins /\ Require(u).tier = "STANDARD"

\* "two concurrent scans can never both slip past the cap" (pgUsageStore.ts).
CapHolds == \A u \in Users : Capped(u) => used[u] <= DailyCap

\* The cap is checked before and counted after the scan; what slips past it is
\* at most the requests the user has open besides the one that is counted.
CapOvershoot == \A u \in Users : Capped(u) => used[u] <= DailyCap + MaxInFlight - 1

\* The abstract promise, in credits of one scan each.
Stage(o) ==
    CASE Delivered(o) -> "delivered"
      [] ~Delivered(o) /\ api[o] \in {"issuing", "scanning"} ->
             IF source[o] = "PROMO" THEN "gift" ELSE "paid"
      [] ~Delivered(o) /\ api[o] \in Answers -> "over"
      [] OTHER -> "new"

Promise == INSTANCE PaidScan WITH
    UserOf <- OpUser,
    Grant <- FreeScanGrant,
    Credits <- {(PackPrice[k] + PackBonus[k]) \div Price : k \in Packs},
    purse <- [u \in Users |-> Require(u).free + (Require(u).balance \div Price)],
    stage <- [o \in Ops |-> Stage(o)]

\* POST /scan implements PaidScan: pay one credit, then the result or the
\* credit back, as long as the only failures are those its code catches.
KeepsPromise == Promise!Spec
=============================================================================
