------------------------ MODULE Repositories_proofs ------------------------
(***************************************************************************)
(* That repeated inserts converge, for any rows, writers and contents.     *)
(*                                                                         *)
(* Of one statement it holds by what the statement does (DatabaseDoes).    *)
(* What a commit brings to the table was written long before, on rows the  *)
(* transaction saw then: that nobody has changed those rows since is due   *)
(* to the locks, by which no two transactions ever hold one row (Apart),   *)
(* so that each still stands on the committed one (Based).                 *)
(***************************************************************************)
EXTENDS Repositories, TLAPS

Row == [body : Bodies, state : States]

Rows == Row \cup {NoRow}

\* The tables whose rows have keys the callers give.
KeyedTable == Methods \cap Appends = {}

\* The open transaction of w has written row i.
Holds(w, i) == i \in DOMAIN mine[w]

RowsTyped ==
    /\ table \in Tables
    /\ mem \in [Ids -> Rows] /\ db \in [Ids -> Rows]
    /\ saved \in [Writers -> [Ids -> Rows] \cup {NoRow}]
    /\ mine = [w \in Writers |-> mine[w]]
    /\ \A w \in Writers, i \in Ids : Holds(w, i) => mine[w][i] \in Rows
    /\ \A w \in Writers \ Open, i \in Ids : ~Holds(w, i)

Apart(i) == KeyedTable => \A v, w \in Writers : Holds(v, i) /\ Holds(w, i) => v = w

Based(i) ==
    KeyedTable /\ table # "usage" =>
        \A w \in Writers : Holds(w, i) => Stands(db[i], mine[w][i])

RowsInv == RowsTyped /\ \A i \in Ids : Apart(i) /\ Based(i)

---------------------------------------------------------------------------
(* One statement *)

LEMMA RowReal ==
  ASSUME NEW r \in Row
  PROVE  r # NoRow
  BY RepositoriesAssumption DEF Row

LEMMA NewRow ==
  ASSUME NEW m \in Methods, NEW r \in NewRows(m)
  PROVE  r \in Row /\ r # NoRow /\ (m \in Updates => r.state # 0)
  <1>1. r \in Row /\ (m \in Updates => r.state # 0)
    BY DEF NewRows, Row, States
  <1> QED
    BY <1>1, RowReal

\* x is t with a row at i that stands on t's, and is t's where nothing is touched.
Follows(x, t, i, touches) ==
    /\ x \in [Ids -> Rows]
    /\ \A j \in Ids \ {i} : x[j] = t[j]
    /\ Stands(t[i], x[i])
    /\ ~touches => x[i] = t[i]

LEMMA KeepDoes ==
  ASSUME NEW t \in [Ids -> Rows], NEW i \in Ids, NEW r \in Row
  PROVE  Follows(Keep(t, i, r), t, i, t[i] = NoRow)
  <1>1. CASE t[i] = NoRow
    BY <1>1 DEF Keep, Put, Follows, Stands, Rows
  <1>2. CASE t[i] # NoRow
    BY <1>2 DEF Keep, Follows, Stands
  <1> QED
    BY <1>1, <1>2

LEMMA AmendDoes ==
  ASSUME NEW t \in [Ids -> Rows], NEW i \in Ids, NEW r \in Row, r.state # 0
  PROVE  Follows(Amend(t, i, r), t, i, t[i] # NoRow)
  <1>1. CASE t[i] = NoRow
    BY <1>1 DEF Amend, Follows, Stands
  <1>2. CASE t[i] # NoRow
    <2> DEFINE x == [t[i] EXCEPT !.state = r.state]
    <2>1. t[i] \in Row
      BY <1>2 DEF Rows
    <2>2. x \in Row /\ x.body = t[i].body /\ x.state = r.state
      BY <2>1 DEF Row
    <2>3. Amend(t, i, r) = [t EXCEPT ![i] = x]
      BY <1>2 DEF Amend
    <2>4. x # NoRow
      BY <2>2, RowReal
    <2> HIDE DEF x
    <2> QED
      BY <1>2, <2>2, <2>3, <2>4 DEF Follows, Stands, Rows
  <1> QED
    BY <1>1, <1>2

LEMMA DropDoes ==
  ASSUME NEW t \in [Ids -> Rows], NEW i \in Ids, table = "usage"
  PROVE  Follows(Drop(t, i), t, i, t[i] # NoRow)
  BY DEF Drop, Put, Follows, Stands, Rows

\* The three statements, by the name of the table.
LEMMA Inserted ==
  ASSUME NEW m \in Methods, NEW t, NEW i, NEW r,
         table \in {"users", "tokens", "pricing", "engineVersions", "paymentEvents",
                   "requests", "snapshots", "transitions", "alerts"}
  PROVE  Keyed(m) /\ Database(m, t, i, r) = Keep(t, i, r)
  <1>1. CASE table = "users"
    BY <1>1 DEF Methods, Keyed, Updates, Appends, Database, PgUsers
  <1>2. CASE table = "tokens"
    BY <1>2 DEF Methods, Keyed, Updates, Appends, Database, PgTokens
  <1>3. CASE table = "pricing"
    BY <1>3 DEF Methods, Keyed, Updates, Appends, Database, PgPricing
  <1>4. CASE table = "engineVersions"
    BY <1>4 DEF Methods, Keyed, Updates, Appends, Database, PgEngineVersions
  <1>5. CASE table = "paymentEvents"
    BY <1>5 DEF Methods, Keyed, Updates, Appends, Database, PgPaymentEvents
  <1>6. CASE table = "requests"
    BY <1>6 DEF Methods, Keyed, Updates, Appends, Database, PgRequests
  <1>7. CASE table = "snapshots"
    BY <1>7 DEF Methods, Keyed, Updates, Appends, Database, PgSnapshots
  <1>8. CASE table = "transitions"
    BY <1>8 DEF Methods, Keyed, Updates, Appends, Database, PgTransitions
  <1>9. CASE table = "alerts"
    BY <1>9 DEF Methods, Keyed, Updates, Appends, Database, PgAlerts
  <1> QED
    BY <1>1, <1>2, <1>3, <1>4, <1>5, <1>6, <1>7, <1>8, <1>9

LEMMA InsertedOrUpdated ==
  ASSUME NEW m \in Methods, NEW t, NEW i, NEW r,
         table \in {"payments", "entitlements", "executions", "monitors"}
  PROVE  \/ Keyed(m) /\ Database(m, t, i, r) = Keep(t, i, r)
         \/ m \in Updates /\ ~Keyed(m) /\ Database(m, t, i, r) = Amend(t, i, r)
  <1>1. CASE table = "payments"
    BY <1>1 DEF Methods, Keyed, Updates, Appends, Database, PgPayments
  <1>2. CASE table = "entitlements"
    BY <1>2 DEF Methods, Keyed, Updates, Appends, Database, PgEntitlements
  <1>3. CASE table = "executions"
    BY <1>3 DEF Methods, Keyed, Updates, Appends, Database, PgExecutions
  <1>4. CASE table = "monitors"
    BY <1>4 DEF Methods, Keyed, Updates, Appends, Database, PgMonitors
  <1> QED
    BY <1>1, <1>2, <1>3, <1>4

LEMMA Consumed ==
  ASSUME NEW m \in Methods, NEW t, NEW i, NEW r, table = "usage"
  PROVE  \/ Keyed(m) /\ Database(m, t, i, r) = Keep(t, i, r)
         \/ ~Keyed(m) /\ Database(m, t, i, r) = Drop(t, i)
  BY DEF Methods, Keyed, Updates, Appends, Database, PgUsage

LEMMA Appended ==
  ASSUME NEW m \in Methods, NEW t, NEW i, NEW r,
         table \in {"evidence", "events", "observations"}
  PROVE  m \in Appends /\ Database(m, t, i, r) = Put(t, i, r) /\ ~KeyedTable
  <1>1. CASE table = "evidence"
    BY <1>1 DEF Methods, KeyedTable, Appends, Database, PgEvidence, Append
  <1>2. CASE table = "events"
    BY <1>2 DEF Methods, KeyedTable, Appends, Database, PgEvidence, Append
  <1>3. CASE table = "observations"
    BY <1>3 DEF Methods, KeyedTable, Appends, Database, PgObservations, Append
  <1> QED
    BY <1>1, <1>2, <1>3

LEMMA DatabaseDoes ==
  ASSUME NEW m \in Methods, NEW t \in [Ids -> Rows], NEW i \in Ids, NEW r \in NewRows(m),
         table \in Tables, KeyedTable
  PROVE  Follows(Database(m, t, i, r), t, i, Keyed(m) <=> t[i] = NoRow)
  <1>1. r \in Row /\ (m \in Updates => r.state # 0)
    BY NewRow
  <1>2. \/ Keyed(m) /\ Database(m, t, i, r) = Keep(t, i, r)
        \/ m \in Updates /\ ~Keyed(m) /\ Database(m, t, i, r) = Amend(t, i, r)
        \/ table = "usage" /\ ~Keyed(m) /\ Database(m, t, i, r) = Drop(t, i)
    BY Inserted, InsertedOrUpdated, Consumed, Appended, RepositoriesAssumption
  <1>3. CASE Keyed(m) /\ Database(m, t, i, r) = Keep(t, i, r)
    BY <1>1, <1>3, KeepDoes DEF Follows
  <1>4. CASE m \in Updates /\ ~Keyed(m) /\ Database(m, t, i, r) = Amend(t, i, r)
    BY <1>1, <1>4, AmendDoes DEF Follows
  <1>5. CASE table = "usage" /\ ~Keyed(m) /\ Database(m, t, i, r) = Drop(t, i)
    BY <1>5, DropDoes DEF Follows
  <1> QED
    BY <1>2, <1>3, <1>4, <1>5

\* Of an appended row only that it is one.
LEMMA DatabaseTyped ==
  ASSUME NEW m \in Methods, NEW t \in [Ids -> Rows], NEW i \in Ids, NEW r \in NewRows(m),
         table \in Tables
  PROVE  /\ Database(m, t, i, r) \in [Ids -> Rows]
         /\ \A j \in Ids \ {i} : Database(m, t, i, r)[j] = t[j]
  <1>1. CASE KeyedTable
    BY <1>1, DatabaseDoes DEF Follows
  <1>2. CASE table \in {"evidence", "events", "observations"}
    BY <1>2, Appended, NewRow DEF Put, Rows
  <1>3. CASE table \notin {"evidence", "events", "observations"}
    <2>1. KeyedTable
      BY <1>3, RepositoriesAssumption DEF KeyedTable, Methods, Appends
    <2> QED
      BY <1>1, <2>1
  <1> QED
    BY <1>2, <1>3

\* The memory store does the same in the tables it names.
LEMMA MemoryDoes ==
  ASSUME NEW m \in Methods, NEW i \in Ids, NEW r \in NewRows(m), mem \in [Ids -> Rows],
         table \in Tables
  PROVE  /\ Memory(m, mem, i, r) \in [Ids -> Rows]
         /\ table \in Idempotent => \A j \in Ids : Stands(mem[j], Memory(m, mem, i, r)[j])
  <1>1. r \in Row /\ (m \in Updates => r.state # 0)
    BY NewRow
  <1>2. \/ Memory(m, mem, i, r) = Keep(mem, i, r)
        \/ m \in Updates /\ Memory(m, mem, i, r) = Amend(mem, i, r)
        \/ table = "usage" /\ Memory(m, mem, i, r) = Drop(mem, i)
        \/ table \notin Idempotent /\ Memory(m, mem, i, r) = Put(mem, i, r)
    <2>1. CASE table = "users"
      BY <2>1 DEF Methods, Updates, Idempotent, Memory, MemUsers
    <2>2. CASE table = "tokens"
      BY <2>2 DEF Methods, Updates, Idempotent, Memory, MemTokens
    <2>3. CASE table = "pricing"
      BY <2>3 DEF Methods, Updates, Idempotent, Memory, MemPricing
    <2>4. CASE table = "engineVersions"
      BY <2>4 DEF Methods, Updates, Idempotent, Memory, MemEngineVersions
    <2>5. CASE table = "payments"
      BY <2>5 DEF Methods, Updates, Idempotent, Memory, MemPayments
    <2>6. CASE table = "paymentEvents"
      BY <2>6 DEF Methods, Updates, Idempotent, Memory, MemPaymentEvents
    <2>7. CASE table = "entitlements"
      BY <2>7 DEF Methods, Updates, Idempotent, Memory, MemEntitlements
    <2>8. CASE table = "usage"
      BY <2>8 DEF Methods, Updates, Idempotent, Memory, MemUsage
    <2>9. CASE table \in {"requests", "executions"}
      BY <2>9 DEF Methods, Updates, Idempotent, Memory, MemScans
    <2>10. CASE table = "monitors"
      BY <2>10 DEF Methods, Updates, Idempotent, Memory, MemMonitors
    <2>11. CASE table = "snapshots"
      BY <2>11 DEF Methods, Updates, Idempotent, Memory, MemSnapshots
    <2>12. CASE table \in {"evidence", "events"}
      BY <2>12 DEF Methods, Updates, Idempotent, Memory, MemEvidence, Append
    <2>13. CASE table = "transitions"
      BY <2>13 DEF Methods, Updates, Idempotent, Memory, MemTransitions
    <2>14. CASE table = "observations"
      BY <2>14 DEF Methods, Updates, Idempotent, Memory, MemObservations, Append
    <2>15. CASE table = "alerts"
      BY <2>15 DEF Methods, Updates, Idempotent, Memory, MemAlerts, Append
    <2> QED
      BY <2>1, <2>2, <2>3, <2>4, <2>5, <2>6, <2>7, <2>8,
         <2>9, <2>10, <2>11, <2>12, <2>13, <2>14, <2>15, RepositoriesAssumption
  <1>3. CASE table \notin Idempotent /\ Memory(m, mem, i, r) = Put(mem, i, r)
    BY <1>1, <1>3 DEF Put, Rows
  <1>4. ASSUME NEW touches, Follows(Memory(m, mem, i, r), mem, i, touches)
        PROVE  /\ Memory(m, mem, i, r) \in [Ids -> Rows]
               /\ \A j \in Ids : Stands(mem[j], Memory(m, mem, i, r)[j])
    BY <1>4 DEF Follows, Stands
  <1> QED
    BY <1>1, <1>2, <1>3, <1>4, KeepDoes, AmendDoes, DropDoes

---------------------------------------------------------------------------
(* The transactions *)

LEMMA SeenTyped ==
  ASSUME RowsTyped, NEW w \in Writers
  PROVE  Seen(w) \in [Ids -> Rows]
  BY DEF RowsTyped, Seen, Holds

LEMMA StandsAlone ==
  ASSUME NEW x
  PROVE  Stands(x, x)
  BY DEF Stands

LEMMA StandsThrough ==
  ASSUME table # "usage", NEW x, NEW y, NEW z, Stands(x, y), Stands(y, z)
  PROVE  Stands(x, z)
  BY DEF Stands

\* Where writes do not concern rows: the table that is exercised stays.
LEMMA SameTable ==
  ASSUME UNCHANGED table
  PROVE  /\ KeyedTable' <=> KeyedTable
         /\ \A x, y : Stands(x, y)' <=> Stands(x, y)
  BY DEF KeyedTable, Methods, Stands

\* A transaction that ends, one way or the other, holds nothing any more.
LEMMA Ended ==
  ASSUME RowsTyped, NEW w \in Writers,
         saved' = [saved EXCEPT ![w] = NoRow], mine' = [mine EXCEPT ![w] = <<>>]
  PROVE  /\ saved' \in [Writers -> [Ids -> Rows] \cup {NoRow}]
         /\ mine' = [v \in Writers |-> mine'[v]]
         /\ Open' = Open \ {w}
         /\ \A v \in Writers, i \in Ids : Holds(v, i)' <=> v # w /\ Holds(v, i)
         /\ \A v \in Writers \ {w} : mine'[v] = mine[v]
  <1>1. /\ saved' \in [Writers -> [Ids -> Rows] \cup {NoRow}]
        /\ saved'[w] = NoRow /\ \A v \in Writers \ {w} : saved'[v] = saved[v]
    BY DEF RowsTyped
  <1>2. /\ mine' = [v \in Writers |-> IF v = w THEN <<>> ELSE mine[v]]
    BY DEF RowsTyped
  <1>3. mine'[w] = <<>> /\ \A v \in Writers \ {w} : mine'[v] = mine[v]
    BY <1>2
  <1>4. mine' = [v \in Writers |-> mine'[v]]
    BY <1>2
  <1>5. DOMAIN <<>> = {}
    OBVIOUS
  <1>6. \A i : i \notin DOMAIN mine'[w]
    BY <1>3, <1>5
  <1>7. \A v \in Writers, i \in Ids : Holds(v, i)' <=> v # w /\ Holds(v, i)
    BY <1>3, <1>6 DEF Holds
  <1>8. Open' = Open \ {w}
    BY <1>1 DEF Open
  <1> QED
    BY <1>1, <1>3, <1>4, <1>7, <1>8

LEMMA EndedKeeps ==
  ASSUME RowsInv, NEW w \in Writers, UNCHANGED <<table, db>>, mem' \in [Ids -> Rows],
         saved' = [saved EXCEPT ![w] = NoRow], mine' = [mine EXCEPT ![w] = <<>>]
  PROVE  RowsInv'
  <1>1. RowsTyped
    BY DEF RowsInv
  <1>2. RowsTyped'
    <2>1. \A v \in Writers, i \in Ids : Holds(v, i)' => mine'[v][i] \in Rows
      BY <1>1, Ended DEF RowsTyped
    <2>2. \A v \in Writers \ Open', i \in Ids : ~Holds(v, i)'
      BY <1>1, Ended DEF RowsTyped
    <2> QED
      BY <1>1, <2>1, <2>2, Ended DEF RowsTyped
  <1>3. \A i \in Ids : Apart(i)'
    BY <1>1, Ended, SameTable DEF RowsInv, Apart
  <1>4. \A i \in Ids : Based(i)'
    BY <1>1, Ended, SameTable DEF RowsInv, Based
  <1> QED
    BY <1>2, <1>3, <1>4 DEF RowsInv

LEMMA BeginKeeps ==
  ASSUME RowsInv, NEW w \in Writers, Begin(w)
  PROVE  RowsInv' /\ Converges
  <1>1. /\ UNCHANGED <<table, mem, db, mine>>
        /\ saved' \in [Writers -> [Ids -> Rows] \cup {NoRow}]
        /\ \A v \in Writers \ {w} : saved'[v] = saved[v]
    BY DEF Begin, RowsInv, RowsTyped
  <1>2. Open \subseteq Open'
    BY <1>1 DEF Begin, Open
  <1>3. RowsTyped'
    BY <1>1, <1>2 DEF RowsInv, RowsTyped, Holds
  <1>4. \A i \in Ids : Apart(i)' /\ Based(i)'
    BY <1>1, SameTable DEF RowsInv, Apart, Based, Holds
  <1> QED
    BY <1>1, <1>3, <1>4, StandsAlone DEF RowsInv, Converges

LEMMA EnsureTokenKeeps ==
  ASSUME RowsInv, NEW w \in Writers, EnsureToken(w)
  PROVE  RowsInv' /\ Converges
  <1>1. UNCHANGED <<table, mem, saved, db, mine>>
    BY DEF EnsureToken
  <1>2. RowsTyped'
    BY <1>1 DEF RowsInv, RowsTyped, Holds, Open
  <1>3. \A i \in Ids : Apart(i)' /\ Based(i)'
    BY <1>1, SameTable DEF RowsInv, Apart, Based, Holds
  <1> QED
    BY <1>1, <1>2, <1>3, StandsAlone DEF RowsInv, Converges

LEMMA RollBackKeeps ==
  ASSUME RowsInv, NEW w \in Open, RollBack(w), UNCHANGED <<table, db>>
  PROVE  RowsInv' /\ Converges
  <1>1. w \in Writers /\ mem' = saved[w] /\ mem' \in [Ids -> Rows]
    BY DEF RollBack, RowsInv, RowsTyped, Open
  <1>2. RowsInv'
    BY <1>1, EndedKeeps DEF RollBack
  <1>3. w \notin Open'
    BY <1>1, Ended DEF RollBack, RowsInv
  <1> QED
    BY <1>1, <1>2, <1>3, StandsAlone DEF Converges

\* What is committed is what the transaction saw: its rows, and of the others
\* those of the table.
LEMMA CommitKeeps ==
  ASSUME RowsInv, NEW w \in Writers, Commit(w)
  PROVE  RowsInv' /\ Converges
  <1>1. /\ w \in Open /\ db' = Seen(w) /\ UNCHANGED <<table, mem>>
        /\ saved' = [saved EXCEPT ![w] = NoRow] /\ mine' = [mine EXCEPT ![w] = <<>>]
        /\ RowsTyped
    BY DEF Commit, RowsInv
  <1>2. db' \in [Ids -> Rows]
    BY <1>1, SeenTyped
  <1>3. \A i \in Ids : db'[i] = IF Holds(w, i) THEN mine[w][i] ELSE db[i]
    BY <1>1 DEF Seen, Holds
  <1>4. RowsTyped'
    <2>1. \A v \in Writers, i \in Ids : Holds(v, i)' => mine'[v][i] \in Rows
      BY <1>1, Ended DEF RowsTyped
    <2>2. \A v \in Writers \ Open', i \in Ids : ~Holds(v, i)'
      BY <1>1, Ended DEF RowsTyped
    <2> QED
      BY <1>1, <1>2, <2>1, <2>2, Ended DEF RowsTyped
  <1>5. \A i \in Ids : Apart(i)'
    BY <1>1, Ended, SameTable DEF RowsInv, Apart
  <1>6. \A i \in Ids : Based(i)'
    <2> SUFFICES ASSUME NEW i \in Ids, KeyedTable /\ table # "usage", NEW v \in Writers,
                        Holds(v, i)'
                 PROVE  Stands(db'[i], mine'[v][i])
      BY <1>1, SameTable DEF Based
    <2>1. v # w /\ Holds(v, i) /\ mine'[v] = mine[v]
      BY <1>1, Ended
    <2>2. ~Holds(w, i)
      BY <2>1 DEF RowsInv, Apart
    <2> QED
      BY <1>3, <2>1, <2>2 DEF RowsInv, Based
  <1>7. Converges
    <2>1. ASSUME NEW i \in Ids, KeyedTable
          PROVE  Stands(db[i], db'[i]) \/ Reconsumed(i)
      <3>1. CASE ~Holds(w, i)
        BY <1>3, <3>1, StandsAlone
      <3>2. CASE Holds(w, i) /\ table # "usage"
        BY <1>3, <2>1, <3>2 DEF RowsInv, Based
      <3>3. CASE Holds(w, i) /\ table = "usage"
        <4>1. w \in Open \ Open'
          BY <1>1, Ended
        <4> QED
          BY <3>3, <4>1 DEF Reconsumed, Holds
      <3> QED
        BY <3>1, <3>2, <3>3
    <2> QED
      BY <1>1, <2>1, StandsAlone DEF Converges, KeyedTable
  <1> QED
    BY <1>4, <1>5, <1>6, <1>7 DEF RowsInv

\* A row another transaction holds is not written: the statement waits, or it is
\* an update of a row that is not there.
LEMMA NotItsOwn ==
  ASSUME RowsInv, KeyedTable, NEW w \in Writers, NEW v \in Writers \ {w}, NEW i \in Ids,
         NEW m \in Methods, ~Waits(w, m, i), Holds(v, i)
  PROVE  Seen(w)[i] = db[i] /\ ~(Keyed(m) <=> Seen(w)[i] = NoRow)
  <1>1. v \in Open
    BY DEF RowsInv, RowsTyped
  <1>2. m \notin Appends
    BY DEF KeyedTable
  <1>3. ~Keyed(m) /\ db[i] = NoRow
    BY <1>1, <1>2 DEF Waits, HeldElsewhere, Holds
  <1>4. ~Holds(w, i)
    BY DEF RowsInv, Apart
  <1> QED
    BY <1>3, <1>4 DEF Seen, Holds

LEMMA WriteKeeps ==
  ASSUME RowsInv, NEW w \in Writers, NEW m \in Methods, NEW i \in Ids, NEW r \in NewRows(m),
         Write(w, m, i, r)
  PROVE  RowsInv' /\ Converges
  <1> DEFINE new == Database(m, Seen(w), i, r)
             row == new[i]
             touches == Keyed(m) <=> Seen(w)[i] = NoRow
  <1>1. /\ ~Waits(w, m, i) /\ UNCHANGED <<table, saved>>
        /\ mem' = Memory(m, mem, i, r)
        /\ RowsTyped
    BY DEF Write, Call, RowsInv
  <1>2. /\ new \in [Ids -> Rows] /\ row \in Rows
    BY <1>1, SeenTyped, DatabaseTyped DEF RowsTyped
  <1>3. KeyedTable => Stands(Seen(w)[i], row) /\ (~touches => row = Seen(w)[i])
    BY <1>1, SeenTyped, DatabaseDoes DEF RowsTyped, Follows
  <1>4. /\ mem' \in [Ids -> Rows]
        /\ table \in Idempotent => \A j \in Ids : Stands(mem[j], mem'[j])
    BY <1>1, MemoryDoes DEF RowsTyped
  <1>5. KeyedTable => m \notin Appends
    BY DEF KeyedTable
  <1>6. CASE w \notin Open
    <2>1. db' = [db EXCEPT ![i] = row] /\ mine' = mine
      BY <1>6 DEF Write
    <2>2. Seen(w)[i] = db[i]
      BY <1>1, <1>6 DEF RowsTyped, Seen, Holds
    <2>3. db' \in [Ids -> Rows] /\ db'[i] = row /\ \A j \in Ids \ {i} : db'[j] = db[j]
      BY <1>1, <1>2, <2>1 DEF RowsTyped
    <2>4. RowsTyped'
      BY <1>1, <1>4, <2>1, <2>3 DEF RowsTyped, Holds, Open
    <2>5. \A j \in Ids : Apart(j)'
      BY <1>1, <2>1, SameTable DEF RowsInv, Apart, Holds
    <2>6. ASSUME NEW j \in Ids, KeyedTable /\ table # "usage", NEW v \in Writers, Holds(v, j)
          PROVE  Stands(db'[j], mine[v][j])
      <3>1. Stands(db[j], mine[v][j])
        BY <2>6 DEF RowsInv, Based
      <3>2. CASE j = i
        <4>1. v # w
          BY <1>1, <1>6, <2>6 DEF RowsTyped
        <4>2. row = db[i]
          BY <1>1, <1>3, <2>2, <2>6, <3>2, <4>1, NotItsOwn
        <4> QED
          BY <2>3, <3>1, <3>2, <4>2
      <3> QED
        BY <2>3, <3>1, <3>2
    <2>7. \A j \in Ids : Based(j)'
      BY <1>1, <2>1, <2>6, SameTable DEF Based, Holds
    <2>8. KeyedTable => \A j \in Ids : Stands(db[j], db'[j])
      BY <1>3, <2>2, <2>3, StandsAlone
    <2> QED
      BY <1>4, <2>4, <2>5, <2>7, <2>8 DEF RowsInv, Converges, KeyedTable
  <1>7. CASE w \in Open /\ ~Touches(w, m, i)
    <2>1. UNCHANGED <<db, mine>>
      BY <1>7 DEF Write
    <2>2. RowsTyped'
      BY <1>1, <1>4, <2>1 DEF RowsTyped, Holds, Open
    <2>3. \A j \in Ids : Apart(j)' /\ Based(j)'
      BY <1>1, <2>1, SameTable DEF RowsInv, Apart, Based, Holds
    <2> QED
      BY <1>4, <2>1, <2>2, <2>3, StandsAlone DEF RowsInv, Converges
  <1>8. CASE w \in Open /\ Touches(w, m, i)
    <2>1. /\ UNCHANGED db
          /\ mine' = [mine EXCEPT ![w] = [j \in DOMAIN mine[w] \cup {i} |->
                                             IF j = i THEN row ELSE mine[w][j]]]
      BY <1>8 DEF Write
    <2>2. /\ mine' = [v \in Writers |-> mine'[v]]
          /\ \A v \in Writers \ {w} : mine'[v] = mine[v]
          /\ mine'[w] = [j \in DOMAIN mine[w] \cup {i} |-> IF j = i THEN row ELSE mine[w][j]]
      BY <1>1, <2>1 DEF RowsTyped
    <2>3. /\ \A v \in Writers, j \in Ids : Holds(v, j)' <=> Holds(v, j) \/ (v = w /\ j = i)
          /\ mine'[w][i] = row
          /\ \A v \in Writers, j \in Ids :
                Holds(v, j) /\ ~(v = w /\ j = i) => mine'[v][j] = mine[v][j]
      BY <2>2 DEF Holds
    <2>4. RowsTyped'
      BY <1>1, <1>2, <1>4, <1>8, <2>1, <2>2, <2>3 DEF RowsTyped, Open, Holds
    <2>5. KeyedTable => \A v \in Writers \ {w} : ~Holds(v, i)
      BY <1>1, <1>5, <1>8, NotItsOwn DEF Touches
    <2>6. \A j \in Ids : Apart(j)'
      BY <1>1, <2>3, <2>5, SameTable DEF RowsInv, Apart
    <2>7. ASSUME KeyedTable /\ table # "usage"
          PROVE  Stands(db[i], row)
      <3>1. CASE Holds(w, i)
        <4>1. Stands(db[i], mine[w][i]) /\ Seen(w)[i] = mine[w][i]
          BY <2>7, <3>1 DEF RowsInv, Based, Seen, Holds
        <4> QED
          BY <1>3, <2>7, <4>1, StandsThrough
      <3>2. CASE ~Holds(w, i)
        BY <1>3, <2>7, <3>2 DEF Seen, Holds
      <3> QED
        BY <3>1, <3>2
    <2>8. \A j \in Ids : Based(j)'
      BY <1>1, <2>1, <2>3, <2>7, SameTable DEF RowsInv, Based
    <2> QED
      BY <1>4, <2>1, <2>4, <2>6, <2>8, StandsAlone DEF RowsInv, Converges
  <1> QED
    BY <1>6, <1>7, <1>8

LEMMA RefuseKeeps ==
  ASSUME RowsInv, NEW w \in Writers, NEW m \in Methods, NEW i \in Ids, NEW r \in NewRows(m),
         Refuse(w, m, i, r)
  PROVE  RowsInv' /\ Converges
  <1>1. UNCHANGED <<table, db>>
    BY DEF Refuse, Call
  <1>2. CASE w \in Open
    BY <1>1, <1>2, RollBackKeeps DEF Refuse
  <1>3. CASE w \notin Open
    <2>1. UNCHANGED <<mem, saved, mine>>
      BY <1>3 DEF Refuse
    <2>2. RowsTyped'
      BY <1>1, <2>1 DEF RowsInv, RowsTyped, Holds, Open
    <2>3. \A j \in Ids : Apart(j)' /\ Based(j)'
      BY <1>1, <2>1, SameTable DEF RowsInv, Apart, Based, Holds
    <2> QED
      BY <1>1, <2>1, <2>2, <2>3, StandsAlone DEF RowsInv, Converges
  <1> QED
    BY <1>2, <1>3

LEMMA RowsInvInit == RepositoriesInit => RowsInv
  <1> SUFFICES ASSUME RepositoriesInit
               PROVE  RowsInv
    OBVIOUS
  <1>1. \A w \in Writers, i \in Ids : ~Holds(w, i)
    <2>1. DOMAIN <<>> = {}
      OBVIOUS
    <2> QED
      BY <2>1 DEF RepositoriesInit, Holds
  <1>2. RowsTyped
    BY <1>1 DEF RepositoriesInit, RowsTyped, Rows
  <1> QED
    BY <1>1, <1>2 DEF RowsInv, Apart, Based

LEMMA RowsInvNext == RowsInv /\ [RepositoriesNext]_storeVars => RowsInv' /\ [Converges]_storeVars
  <1> SUFFICES ASSUME RowsInv, [RepositoriesNext]_storeVars
               PROVE  RowsInv' /\ [Converges]_storeVars
    OBVIOUS
  <1>1. CASE UNCHANGED storeVars
    <2>1. UNCHANGED <<table, mem, saved, db, mine>>
      BY <1>1 DEF storeVars
    <2>2. RowsTyped'
      BY <2>1 DEF RowsInv, RowsTyped, Holds, Open
    <2>3. \A j \in Ids : Apart(j)' /\ Based(j)'
      BY <2>1, SameTable DEF RowsInv, Apart, Based, Holds
    <2> QED
      BY <1>1, <2>2, <2>3 DEF RowsInv
  <1>2. ASSUME NEW w \in Writers, Abort(w)
        PROVE  RowsInv' /\ Converges
    BY <1>2, RollBackKeeps DEF Abort
  <1> QED
    BY <1>1, <1>2, BeginKeeps, EnsureTokenKeeps, CommitKeeps, WriteKeeps, RefuseKeeps
       DEF RepositoriesNext

\* However inserts are repeated and transactions overlap, a committed row stands,
\* and the tables memory names keep their rows but for a rollback.
THEOREM InsertsConverge == RepositoriesSpec => RepeatsConverge
  <1>1. RepositoriesSpec => []RowsInv
    BY RowsInvInit, RowsInvNext, PTL DEF RepositoriesSpec
  <1> QED
    BY <1>1, RowsInvNext, PTL DEF RepositoriesSpec, RepeatsConverge
=============================================================================
