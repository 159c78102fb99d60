---------------------------- MODULE Repositories ----------------------------
(***************************************************************************)
(* The two implementations of the repository contracts, side by side:      *)
(* InMemoryUnitOfWork, which the tests and a deployment without a database *)
(* run on, and PgUnitOfWork over the schema of migrations/0001_init.sql.   *)
(* Every call is made to both.                                             *)
(*                                                                         *)
(* Operations on different tables do not meet, so a behaviour exercises    *)
(* one table, chosen at the start.  A row is what its insert writes (body) *)
(* and what its update writes (state); where rows are appended, one stands *)
(* for all of an id.  Nothing is assumed of the order of the calls on a    *)
(* row: an insert is repeated, with other content, after an update too.    *)
(***************************************************************************)
EXTENDS Naturals

CONSTANTS
    Tables,     \* the tables a behaviour may exercise
    Ids,        \* row keys
    Writers,    \* requests that use the unit of work at once
    Bodies,     \* contents of a row
    Null,       \* a body with a null column: evidence without magnitude
    NoRow,
    MaxWrites   \* bound on the repository calls of a behaviour

\* 0 is what an insert starts with, told apart from what an update sets.
States == 0..2

ASSUME RepositoriesAssumption ==
    /\ Tables \subseteq {"users", "tokens", "pricing", "engineVersions", "payments",
                         "paymentEvents", "entitlements", "usage", "requests", "executions",
                         "monitors", "snapshots", "evidence", "events", "transitions",
                         "observations", "alerts"}
    /\ NoRow \notin [body : Bodies, state : States]
    /\ {"no", "yes"} \cap Writers = {}

VARIABLES
    table,      \* the table of this behaviour
    mem,        \* its Map or array in the live Store
    saved,      \* the Store cloned when a writer's transaction began, or NoRow
    db,         \* its committed rows
    mine,       \* the rows a writer's open transaction has written
    token,      \* is the token row there: "no", "yes", or the writer who inserts it
    parted,     \* did one store refuse what the other took
    writes

storeVars == <<table, mem, saved, db, mine, token, parted, writes>>

Open == {w \in Writers : saved[w] # NoRow}

---------------------------------------------------------------------------
(* What a statement does to a table *)

\* Map.set.
Put(t, i, r) == [t EXCEPT ![i] = r]

\* "if (existing) return existing", and INSERT ... ON CONFLICT DO NOTHING.
Keep(t, i, r) == IF t[i] = NoRow THEN Put(t, i, r) ELSE t

\* { ...row, status }, and UPDATE ... SET status WHERE id.
Amend(t, i, r) == IF t[i] = NoRow THEN t ELSE [t EXCEPT ![i].state = r.state]

\* push, and INSERT into a table with a key of its own: the newest row is shown.
Append(t, i, r) == Put(t, i, r)

Drop(t, i) == Put(t, i, NoRow)

---------------------------------------------------------------------------
(* The repositories of the in-memory bundle *)

MemUsers(t, i, r) == Put(t, i, r)

MemTokens(t, i, r) == Keep(t, i, r)

MemPricing(t, i, r) == Keep(t, i, r)

MemEngineVersions(t, i, r) == Keep(t, i, r)

MemPayments(m, t, i, r) ==
    IF m = "createIntent" THEN Keep(t, i, r) ELSE Amend(t, i, r)

MemPaymentEvents(t, i, r) == Keep(t, i, r)

MemEntitlements(m, t, i, r) == IF m = "issue" THEN Keep(t, i, r) ELSE Amend(t, i, r)

MemUsage(m, t, i, r) == IF m = "consume" THEN Keep(t, i, r) ELSE Drop(t, i)

\* createRequest, createExecution and updateExecution.
MemScans(t, i, r) == Put(t, i, r)

MemMonitors(t, i, r) == Put(t, i, r)

MemSnapshots(t, i, r) == Keep(t, i, r)

\* saveEvidence and saveEvents.
MemEvidence(t, i, r) == Append(t, i, r)

MemTransitions(t, i, r) == Keep(t, i, r)

MemObservations(t, i, r) == Append(t, i, r)

MemAlerts(t, i, r) == Append(t, i, r)

Memory(m, t, i, r) ==
    CASE table = "users"          -> MemUsers(t, i, r)
      [] table = "tokens"         -> MemTokens(t, i, r)
      [] table = "pricing"        -> MemPricing(t, i, r)
      [] table = "engineVersions" -> MemEngineVersions(t, i, r)
      [] table = "payments"       -> MemPayments(m, t, i, r)
      [] table = "paymentEvents"  -> MemPaymentEvents(t, i, r)
      [] table = "entitlements"   -> MemEntitlements(m, t, i, r)
      [] table = "usage"          -> MemUsage(m, t, i, r)
      [] table \in {"requests", "executions"} -> MemScans(t, i, r)
      [] table = "monitors"       -> MemMonitors(t, i, r)
      [] table = "snapshots"      -> MemSnapshots(t, i, r)
      [] table \in {"evidence", "events"} -> MemEvidence(t, i, r)
      [] table = "transitions"    -> MemTransitions(t, i, r)
      [] table = "observations"   -> MemObservations(t, i, r)
      [] table = "alerts"         -> MemAlerts(t, i, r)

---------------------------------------------------------------------------
(* The repositories of the PostgreSQL bundle *)

PgUsers(t, i, r) == Keep(t, i, r)

PgTokens(t, i, r) == Keep(t, i, r)

PgPricing(t, i, r) == Keep(t, i, r)

PgEngineVersions(t, i, r) == Keep(t, i, r)

PgPayments(m, t, i, r) ==
    IF m = "createIntent" THEN Keep(t, i, r) ELSE Amend(t, i, r)

PgPaymentEvents(t, i, r) == Keep(t, i, r)

\* Mutant: ON CONFLICT DO UPDATE SET status.
PgEntitlementsAnew(m, t, i, r) ==
    IF m = "issue" /\ t[i] = NoRow THEN Keep(t, i, r) ELSE Amend(t, i, r)

PgEntitlements(m, t, i, r) == IF m = "issue" THEN Keep(t, i, r) ELSE Amend(t, i, r)

PgUsage(m, t, i, r) == IF m = "consume" THEN Keep(t, i, r) ELSE Drop(t, i)

PgRequests(t, i, r) == Keep(t, i, r)

PgExecutions(m, t, i, r) ==
    IF m = "createExecution" THEN Keep(t, i, r) ELSE Amend(t, i, r)

PgMonitors(m, t, i, r) == IF m = "create" THEN Keep(t, i, r) ELSE Amend(t, i, r)

PgSnapshots(t, i, r) == Keep(t, i, r)

\* evidence_records and events have a serial key: nothing conflicts.
PgEvidence(t, i, r) == Append(t, i, r)

PgTransitions(t, i, r) == Keep(t, i, r)

PgObservations(t, i, r) == Append(t, i, r)

PgAlerts(t, i, r) == Keep(t, i, r)

Database(m, t, i, r) ==
    CASE table = "users"          -> PgUsers(t, i, r)
      [] table = "tokens"         -> PgTokens(t, i, r)
      [] table = "pricing"        -> PgPricing(t, i, r)
      [] table = "engineVersions" -> PgEngineVersions(t, i, r)
      [] table = "payments"       -> PgPayments(m, t, i, r)
      [] table = "paymentEvents"  -> PgPaymentEvents(t, i, r)
      [] table = "entitlements"   -> PgEntitlements(m, t, i, r)
      [] table = "usage"          -> PgUsage(m, t, i, r)
      [] table = "requests"       -> PgRequests(t, i, r)
      [] table = "executions"     -> PgExecutions(m, t, i, r)
      [] table = "monitors"       -> PgMonitors(m, t, i, r)
      [] table = "snapshots"      -> PgSnapshots(t, i, r)
      [] table \in {"evidence", "events"} -> PgEvidence(t, i, r)
      [] table = "transitions"    -> PgTransitions(t, i, r)
      [] table = "observations"   -> PgObservations(t, i, r)
      [] table = "alerts"         -> PgAlerts(t, i, r)

---------------------------------------------------------------------------
(* The calls *)

Methods ==
    CASE table = "users"        -> {"upsert"}
      [] table = "tokens"       -> {"ensure"}
      [] table \in {"pricing", "engineVersions"} -> {"record"}
      [] table = "payments"     -> {"createIntent", "advanceStatus"}
      [] table = "paymentEvents" -> {"appendEvent"}
      [] table = "entitlements" -> {"issue", "updateStatus"}
      [] table = "usage"        -> {"consume", "release"}
      [] table = "requests"     -> {"createRequest"}
      [] table = "executions"   -> {"createExecution", "updateExecution"}
      [] table = "monitors"     -> {"create", "update"}
      [] table = "snapshots"    -> {"saveSnapshot"}
      [] table = "evidence"     -> {"saveEvidence"}
      [] table = "events"       -> {"saveEvents"}
      [] table = "transitions"  -> {"saveSignalTransition"}
      [] table = "observations" -> {"append"}
      [] table = "alerts"       -> {"save"}

Updates == {"advanceStatus", "updateStatus", "updateExecution", "update"}

\* These look the row up and throw when it is not there.
Demanding == {"advanceStatus", "updateStatus"}

\* These insert rows with a key of their own, which nothing conflicts with.
Appends == {"saveEvidence", "saveEvents", "append"}

\* These insert under a key the caller gives: a second one waits for the first.
Keyed(m) == m \notin Updates \cup Appends \cup {"release"}

NewRows(m) ==
    [body : Bodies, state : IF m \in Updates THEN {1, 2} ELSE {0}]

\* These tables refer to the token by its row (tokenIdBigint).
NeedsToken == table \in {"requests", "monitors", "snapshots", "events",
                         "transitions", "observations", "alerts"}

\* The rows a writer sees: READ COMMITTED, under its own writes.
Seen(w) == [i \in Ids |-> IF i \in DOMAIN mine[w] THEN mine[w][i] ELSE db[i]]

HeldElsewhere(w, i) == \E v \in Open \ {w} : i \in DOMAIN mine[v]

Waits(w, m, i) == HeldElsewhere(w, i) /\ m \notin Appends /\ (Keyed(m) \/ db[i] # NoRow)

\* An insert that conflicts and an update or delete that finds no row write none.
Touches(w, m, i) == m \in Appends \/ (Keyed(m) <=> Seen(w)[i] = NoRow)

MemThrows(m, i) == m \in Demanding /\ mem[i] = NoRow

\* evidence_records.magnitude and weight are NOT NULL.
PgThrows(w, m, i, r) ==
    \/ m \in Demanding /\ Seen(w)[i] = NoRow
    \/ NeedsToken /\ token \notin {"yes", w}
    \/ m = "saveEvidence" /\ r.body = Null

---------------------------------------------------------------------------

RepositoriesInit ==
    /\ table \in Tables
    /\ mem = [i \in Ids |-> NoRow]
    /\ saved = [w \in Writers |-> NoRow]
    /\ db = [i \in Ids |-> NoRow]
    /\ mine = [w \in Writers |-> <<>>]
    /\ token = "no"
    /\ parted = FALSE
    /\ writes = 0

\* transaction(): the Store is cloned; BEGIN.
Begin(w) ==
    /\ w \notin Open
    /\ saved' = [saved EXCEPT ![w] = mem]
    /\ UNCHANGED <<table, mem, db, mine, token, parted, writes>>

\* mutateFrom gives the clone back, whoever wrote since; ROLLBACK.
RollBack(w) ==
    /\ mem' = saved[w]
    /\ saved' = [saved EXCEPT ![w] = NoRow]
    /\ mine' = [mine EXCEPT ![w] = <<>>]
    /\ token' = IF token = w THEN "no" ELSE token

\* tokens.ensure, which every transaction that refers to the token calls first.
EnsureToken(w) ==
    /\ NeedsToken
    /\ token = "no"
    /\ token' = IF w \in Open THEN w ELSE "yes"
    /\ UNCHANGED <<table, mem, saved, db, mine, parted, writes>>

\* One call of a repository, inside the writer's transaction or by itself.
Call(w, m, i, r) ==
    /\ writes < MaxWrites
    /\ ~Waits(w, m, i)
    /\ NeedsToken => token \in {"yes", w}
    /\ writes' = writes + 1
    /\ parted' = (MemThrows(m, i) # PgThrows(w, m, i, r))
    /\ UNCHANGED table

Write(w, m, i, r) ==
    LET row == Database(m, Seen(w), i, r)[i]
    IN  /\ Call(w, m, i, r)
        /\ ~MemThrows(m, i) /\ ~PgThrows(w, m, i, r)
        /\ mem' = Memory(m, mem, i, r)
        /\ IF w \in Open
           THEN /\ mine' = IF Touches(w, m, i)
                           THEN [mine EXCEPT ![w] =
                                    [j \in DOMAIN @ \cup {i} |-> IF j = i THEN row ELSE @[j]]]
                           ELSE mine
                /\ UNCHANGED db
           ELSE /\ db' = [db EXCEPT ![i] = row]
                /\ UNCHANGED mine
        /\ UNCHANGED <<saved, token>>

\* A call that throws takes its transaction with it.
Refuse(w, m, i, r) ==
    /\ Call(w, m, i, r)
    /\ MemThrows(m, i) \/ PgThrows(w, m, i, r)
    /\ IF w \in Open
       THEN RollBack(w)
       ELSE UNCHANGED <<mem, saved, mine, token>>
    /\ UNCHANGED db

Commit(w) ==
    /\ w \in Open
    /\ db' = Seen(w)
    /\ token' = IF token = w THEN "yes" ELSE token
    /\ saved' = [saved EXCEPT ![w] = NoRow]
    /\ mine' = [mine EXCEPT ![w] = <<>>]
    /\ UNCHANGED <<table, mem, parted, writes>>

\* Something else in the closure throws.
Abort(w) ==
    /\ w \in Open
    /\ RollBack(w)
    /\ UNCHANGED <<table, db, parted, writes>>

\* A program that one store refused and the other served goes two ways from
\* there: a behaviour ends with it.
RepositoriesNext ==
    /\ ~parted
    /\ \E w \in Writers :
          \/ Begin(w) \/ EnsureToken(w) \/ Commit(w) \/ Abort(w)
          \/ \E m \in Methods, i \in Ids : \E r \in NewRows(m) :
                Write(w, m, i, r) \/ Refuse(w, m, i, r)

RepositoriesSpec == RepositoriesInit /\ [][RepositoriesNext]_storeVars

---------------------------------------------------------------------------
(* What is promised *)

\* A row that was inserted once stands: it keeps what its first insert wrote,
\* its status does not fall back to the one it was inserted with, and only a
\* release removes it.
Stands(old, new) ==
    old # NoRow =>
        IF new = NoRow
        THEN table = "usage"
        ELSE new.body = old.body /\ (old.state # 0 => new.state # 0)

\* A transaction may release a usage and consume it again.
Reconsumed(i) == table = "usage" /\ \E w \in Open \ Open' : i \in DOMAIN mine[w]

\* "payments/entitlements/usage idempotent by their keys."
Idempotent == {"payments", "paymentEvents", "entitlements", "usage"}

\* A step of either store.
Converges ==
    /\ Methods \cap Appends = {} =>
           \A i \in Ids : Stands(db[i], db'[i]) \/ Reconsumed(i)
    /\ \/ table \notin Idempotent
       \/ \E w \in Open : w \notin Open' /\ mem' = saved[w]
       \/ \A i \in Ids : Stands(mem[i], mem'[i])

\* However often an insert is repeated, by one caller or by transactions that
\* overlap, wait for each other and fail, it converges to the row that was
\* committed first: every request inserts its user again, and a scan that is
\* retried its request, its execution and the usage of its entitlement.  Every
\* table of the database with keys keeps to it; of the memory store those it
\* names, but for a rollback, which puts the whole store back and so erases what
\* others have written since.
RepeatsConverge == [][Converges]_storeVars

\* "The SAME invariants the pg schema enforces are enforced here": a call the
\* memory store takes is taken by the database.
SameInvariants == ~parted
=============================================================================
