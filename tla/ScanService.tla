---------------------------- MODULE ScanService ----------------------------
(***************************************************************************)
(* The paid-scan pipeline: ScanService.execute, the in-memory              *)
(* EntitlementLedger that gates it, and the PostgreSQL rows it writes.     *)
(*                                                                         *)
(* A call is one invocation of execute(requestId, userId, entitlementId).  *)
(* Calls interleave at every await: each action is the code that runs      *)
(* between two awaits, or one database transaction.  The ledger lives in   *)
(* the memory of the process and a restart empties it; the rows survive.   *)
(***************************************************************************)
EXTENDS Naturals

CONSTANTS
    Calls,          \* invocations of execute
    Requests,       \* requestIds: the idempotency anchors
    Entitlements,   \* entitlement ids
    Users,
    RequestOf,      \* [Calls -> Requests]
    EntitlementOf,  \* [Calls -> Entitlements]
    UserOf,         \* [Calls -> Users], the user who calls
    OwnerOf,        \* [Entitlements -> Users], the user an entitlement belongs to
    Throws,         \* awaited steps that may throw and change nothing
    LostAcks,       \* database steps that may commit and still throw
    MaxRestarts,    \* bound on process restarts
    NoRequest       \* "no usage recorded"

\* The awaited steps of execute, in the order it takes them.  "acquire" throws
\* when GMGN answers with JSON that is not a list; the others are database steps.
Steps == {"getExecution", "reserve", "mark", "acquire", "persist", "fail"}

ASSUME CallsAssumption ==
    /\ RequestOf \in [Calls -> Requests]
    /\ EntitlementOf \in [Calls -> Entitlements]
    /\ UserOf \in [Calls -> Users]
    /\ OwnerOf \in [Entitlements -> Users]
    /\ NoRequest \notin Requests

\* A scan_requests row binds a requestId to one entitlement.
ASSUME RequestBinding ==
    \A c, d \in Calls :
        RequestOf[c] = RequestOf[d] => EntitlementOf[c] = EntitlementOf[d]

ASSUME FaultsAssumption ==
    /\ Throws \subseteq Steps
    /\ LostAcks \subseteq {"reserve", "mark", "persist", "fail"}
    /\ MaxRestarts \in Nat

VARIABLES
    pc,         \* where each call is, or how it ended
    status,     \* EntitlementLedger.entitlements: status by id ("NONE": no entry)
    usage,      \* EntitlementLedger.usage: the request an entitlement was used for
    entRow,     \* entitlements.status
    usageRow,   \* usage_ledger.capability_ref
    execRow,    \* scan_executions.status; report_ref is set exactly when COMPLETED
    snapshots,  \* intelligence_snapshots, by the request they were saved for
    restarts

ledgerVars == <<status, usage>>
rowVars    == <<entRow, usageRow, execRow, snapshots>>
scanVars   == <<pc, status, usage, entRow, usageRow, execRow, snapshots, restarts>>

\* A call in one of these has consumed its entitlement and may still give it back.
Holding == {"reserving", "reserveFailed", "reserved", "executing", "persisting",
            "failing", "releasing"}

\* How a call ends: with a new or an existing result, refused, failed and
\* released, by an exception that escapes execute, or with the process.
Ended == {"ok", "reused", "refused", "failed", "threw", "crashed"}

EntitlementStatus == {"ISSUED", "CONSUMED"}
ScanStatus        == {"RESERVED", "EXECUTING", "COMPLETED", "FAILED"}

ScanTypeOK ==
    /\ pc \in [Calls -> {"idle", "gated"} \cup Holding \cup Ended]
    /\ status \in [Entitlements -> EntitlementStatus \cup {"NONE"}]
    /\ usage \in [Entitlements -> Requests \cup {NoRequest}]
    /\ entRow \in [Entitlements -> EntitlementStatus \cup {"NONE"}]
    /\ usageRow \in [Entitlements -> Requests \cup {NoRequest}]
    /\ execRow \in [Requests -> ScanStatus \cup {"NONE"}]
    /\ snapshots \subseteq Requests
    /\ restarts \in 0..MaxRestarts

---------------------------------------------------------------------------
(* The ledger *)

\* Mutant: the checks of status and usage dropped.
ConsumableByOwner(e, u) == OwnerOf[e] = u

Consumable(e, u) ==
    /\ status[e] = "ISSUED"
    /\ OwnerOf[e] = u
    /\ usage[e] = NoRequest

ConsumeInLedger(e, r) ==
    /\ status' = [status EXCEPT ![e] = "CONSUMED"]
    /\ usage' = [usage EXCEPT ![e] = r]

\* Mutant: nothing is given back.
ReleaseNothing(e) == e \in Entitlements /\ UNCHANGED ledgerVars

\* A no-op unless the entitlement is CONSUMED.
ReleaseIfUnused(e) ==
    IF status[e] = "CONSUMED"
    THEN /\ status' = [status EXCEPT ![e] = "ISSUED"]
         /\ usage' = [usage EXCEPT ![e] = NoRequest]
    ELSE UNCHANGED ledgerVars

---------------------------------------------------------------------------
(* The transactions: what a commit of each does to the rows *)

\* INSERT ... ON CONFLICT DO NOTHING on both tables: a retry keeps the old rows.
ReserveRows(r, e) ==
    /\ execRow' = [execRow EXCEPT ![r] = IF @ = "NONE" THEN "RESERVED" ELSE @]
    /\ usageRow' = [usageRow EXCEPT ![e] = IF @ = NoRequest THEN r ELSE @]
    /\ UNCHANGED <<entRow, snapshots>>

MarkRow(r, e) ==
    /\ execRow' = [execRow EXCEPT ![r] = "EXECUTING"]
    /\ UNCHANGED <<entRow, usageRow, snapshots>>

\* Mutant: the snapshot is not saved in the transaction.
PersistUnstored(r, e) ==
    /\ execRow' = [execRow EXCEPT ![r] = "COMPLETED"]
    /\ entRow' = [entRow EXCEPT ![e] = "CONSUMED"]
    /\ UNCHANGED <<usageRow, snapshots>>

PersistRows(r, e) ==
    /\ snapshots' = snapshots \cup {r}
    /\ execRow' = [execRow EXCEPT ![r] = "COMPLETED"]
    /\ entRow' = [entRow EXCEPT ![e] = "CONSUMED"]
    /\ UNCHANGED usageRow

\* Mutant: the usage row is not deleted.
FailKeepingUsage(r, e) ==
    /\ execRow' = [execRow EXCEPT ![r] = "FAILED"]
    /\ entRow' = [entRow EXCEPT ![e] = "ISSUED"]
    /\ UNCHANGED <<usageRow, snapshots>>

\* Mutant: the entitlement gets the status of an execution.
FailWithScanStatus(r, e) ==
    /\ execRow' = [execRow EXCEPT ![r] = "FAILED"]
    /\ usageRow' = [usageRow EXCEPT ![e] = NoRequest]
    /\ entRow' = [entRow EXCEPT ![e] = "FAILED"]
    /\ UNCHANGED snapshots

FailRows(r, e) ==
    /\ execRow' = [execRow EXCEPT ![r] = "FAILED"]
    /\ usageRow' = [usageRow EXCEPT ![e] = NoRequest]
    /\ entRow' = [entRow EXCEPT ![e] = "ISSUED"]
    /\ UNCHANGED snapshots

Goto(c, to) == pc' = [pc EXCEPT ![c] = to]

\* One database step of call c: it commits and the call goes on at next; or it
\* rolls back, or its acknowledgement is lost, and the call goes on at onThrow.
DbStep(c, step, Rows(_, _), next, onThrow) ==
    LET r == RequestOf[c]
        e == EntitlementOf[c]
    IN  /\ \/ Rows(r, e) /\ Goto(c, next)
           \/ step \in LostAcks /\ Rows(r, e) /\ Goto(c, onThrow)
           \/ step \in Throws /\ UNCHANGED rowVars /\ Goto(c, onThrow)
        /\ UNCHANGED <<ledgerVars, restarts>>

---------------------------------------------------------------------------
(* The steps of execute *)

\* The idempotency gate: a completed request answers with its own snapshot.
Gate(c) ==
    /\ pc[c] = "idle"
    /\ IF execRow[RequestOf[c]] = "COMPLETED" /\ RequestOf[c] \in snapshots
       THEN Goto(c, "reused")
       ELSE Goto(c, "gated")
    /\ UNCHANGED <<ledgerVars, rowVars, restarts>>

GateThrows(c) ==
    /\ pc[c] = "idle"
    /\ "getExecution" \in Throws
    /\ Goto(c, "threw")
    /\ UNCHANGED <<ledgerVars, rowVars, restarts>>

\* Runs when getExecution resolves: what the gate read may be stale by now.
Consume(c) ==
    /\ pc[c] = "gated"
    /\ Consumable(EntitlementOf[c], UserOf[c])
    /\ ConsumeInLedger(EntitlementOf[c], RequestOf[c])
    /\ Goto(c, "reserving")
    /\ UNCHANGED <<rowVars, restarts>>

\* Mutant: only a foreign entitlement is refused.
RefuseForeign(c) ==
    /\ pc[c] = "gated"
    /\ OwnerOf[EntitlementOf[c]] # UserOf[c]
    /\ Goto(c, "refused")
    /\ UNCHANGED <<ledgerVars, rowVars, restarts>>

Refuse(c) ==
    /\ pc[c] = "gated"
    /\ ~Consumable(EntitlementOf[c], UserOf[c])
    /\ Goto(c, "refused")
    /\ UNCHANGED <<ledgerVars, rowVars, restarts>>

Reserve(c) ==
    /\ pc[c] = "reserving"
    /\ DbStep(c, "reserve", ReserveRows, "reserved", "reserveFailed")

\* The catch block of reserve: the ledger is rolled back, the rows are not.
UndoReserve(c) ==
    /\ pc[c] = "reserveFailed"
    /\ ReleaseIfUnused(EntitlementOf[c])
    /\ Goto(c, "failed")
    /\ UNCHANGED <<rowVars, restarts>>

\* Not inside a try: an exception here leaves execute with the entitlement held.
Mark(c) ==
    /\ pc[c] = "reserved"
    /\ DbStep(c, "mark", MarkRow, "executing", "threw")

\* Acquisition and evaluation answer with a result for the token ...
Produce(c) ==
    /\ pc[c] = "executing"
    /\ Goto(c, "persisting")
    /\ UNCHANGED <<ledgerVars, rowVars, restarts>>

\* ... or acquisition fails, evaluation fails, or the result is not meaningful.
ProduceNothing(c) ==
    /\ pc[c] = "executing"
    /\ Goto(c, "failing")
    /\ UNCHANGED <<ledgerVars, rowVars, restarts>>

\* Nothing catches an exception of acquire: execute ends with the entitlement held.
AcquireThrows(c) ==
    /\ pc[c] = "executing"
    /\ "acquire" \in Throws
    /\ Goto(c, "threw")
    /\ UNCHANGED <<ledgerVars, rowVars, restarts>>

Persist(c) ==
    /\ pc[c] = "persisting"
    /\ DbStep(c, "persist", PersistRows, "ok", "failing")

\* The transaction of failAndRelease, whose exceptions nobody catches.
RecordFailure(c) ==
    /\ pc[c] = "failing"
    /\ DbStep(c, "fail", FailRows, "releasing", "threw")

Release(c) ==
    /\ pc[c] = "releasing"
    /\ ReleaseIfUnused(EntitlementOf[c])
    /\ Goto(c, "failed")
    /\ UNCHANGED <<rowVars, restarts>>

CallStep(c) ==
    \/ Gate(c) \/ GateThrows(c) \/ Consume(c) \/ Refuse(c) \/ Reserve(c)
    \/ UndoReserve(c) \/ Mark(c) \/ Produce(c) \/ ProduceNothing(c)
    \/ AcquireThrows(c) \/ Persist(c) \/ RecordFailure(c) \/ Release(c)

\* What a restart of the process does to the pipeline's part of its memory:
\* running calls vanish and the new process has an empty ledger.
LoseMemory ==
    /\ pc' = [c \in Calls |-> IF pc[c] \in {"gated"} \cup Holding
                              THEN "crashed" ELSE pc[c]]
    /\ status' = [e \in Entitlements |-> "NONE"]
    /\ usage' = [e \in Entitlements |-> NoRequest]

Restart ==
    /\ restarts < MaxRestarts
    /\ restarts' = restarts + 1
    /\ LoseMemory
    /\ UNCHANGED rowVars

---------------------------------------------------------------------------
(* The pipeline alone: every entitlement has been issued, in the ledger and *)
(* as a row, and callers call in any order, again and with shared inputs.   *)

ScanInit ==
    /\ pc = [c \in Calls |-> "idle"]
    /\ status = [e \in Entitlements |-> "ISSUED"]
    /\ usage = [e \in Entitlements |-> NoRequest]
    /\ entRow = [e \in Entitlements |-> "ISSUED"]
    /\ usageRow = [e \in Entitlements |-> NoRequest]
    /\ execRow = [r \in Requests |-> "NONE"]
    /\ snapshots = {}
    /\ restarts = 0

ScanNext == (\E c \in Calls : CallStep(c)) \/ Restart

ScanSpec == ScanInit /\ [][ScanNext]_scanVars

\* Once called, execute keeps running: the event loop resumes every settled
\* await, and the acquisition and the database answer or time out.
ScanFairness == \A c \in Calls : WF_scanVars(CallStep(c))
ScanFairSpec == ScanSpec /\ ScanFairness

---------------------------------------------------------------------------
(* Properties *)

Holders(e) == {c \in Calls : EntitlementOf[c] = e /\ pc[c] \in Holding}
AtRest(e)  == Holders(e) = {}
Delivered(e) == \E c \in Calls : EntitlementOf[c] = e /\ pc[c] = "ok"

\* At most one call at a time works on an entitlement, and while it does the
\* ledger says so, for that call's request (the single-consumption gate of
\* entitlement.ts).
OneHolder ==
    \A e \in Entitlements :
        /\ \A c, d \in Holders(e) : c = d
        /\ \A c \in Holders(e) : status[e] = "CONSUMED" /\ usage[e] = RequestOf[c]

\* "1 TOKEN_SCAN entitlement => at most 1 successful scan" (entitlement.ts),
\* whatever fails and however often the process restarts.
AtMostOneResult ==
    \A c, d \in Calls :
        pc[c] = "ok" /\ pc[d] = "ok" /\ EntitlementOf[c] = EntitlementOf[d] => c = d

\* A result spends the entitlement for good: from then on the ledger never offers
\* it again and no call works on it, also in a process that has forgotten it.
ResultSpends ==
    \A c \in Calls : pc[c] = "ok" =>
        /\ status[EntitlementOf[c]] # "ISSUED"
        /\ AtRest(EntitlementOf[c])

\* "A failed capability run must NOT silently consume the entitlement": once no
\* call works on it, an entitlement is CONSUMED only if a call delivered.
NoSilentConsumption ==
    \A e \in Entitlements :
        status[e] = "CONSUMED" => Delivered(e) \/ ~AtRest(e)

\* The usage table and the status column mirror the ledger whenever no call is
\* between the two writes.
RowsMirrorLedger ==
    \A e \in Entitlements : AtRest(e) =>
        /\ usageRow[e] = usage[e]
        /\ entRow[e] = status[e]

OnRecord(r) == execRow[r] = "COMPLETED" /\ r \in snapshots

\* A result handed out is on record: a caller answered with a report, new or
\* existing, finds the execution COMPLETED and the snapshot stored from then on.
ResultOnRecord ==
    \A c \in Calls : pc[c] \in {"ok", "reused"} => OnRecord(RequestOf[c])

\* A new result stays on record even when commits are lost and processes
\* restart: no later call may reserve, mark or fail the execution again.
NewResultOnRecord ==
    \A c \in Calls : pc[c] = "ok" => OnRecord(RequestOf[c])

\* Every call is answered.
CallsEnd == \A c \in Calls : pc[c] # "idle" ~> pc[c] \in Ended
=============================================================================
