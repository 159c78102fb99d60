----------------------- MODULE WalletWatchTick_proofs -----------------------
(***************************************************************************)
(* That the wallet-watch cycle skips no second, for any number of          *)
(* overlapping cycles, watches, trades and faults; and that, while cycles  *)
(* do not overlap, only a fault makes it repeat an alert.                  *)
(*                                                                         *)
(* The cursor alone is not enough for an inductive invariant: a cycle      *)
(* carries a cursor it read long ago and trades it fetched long ago, and   *)
(* overwrites the cursor with them.  What it carries is sound all the      *)
(* same: the cursor it read had been earned (Passed), and among the trades *)
(* of the wallet only those it holds are neither covered nor later         *)
(* (Remains).  That the feed grows in the order of time keeps both true    *)
(* while trades come in.                                                   *)
(*                                                                         *)
(* For the repeats, an alert is spent when its trade is behind the cursor  *)
(* and no cycle holds it, or when the cycle at the trade has handed it     *)
(* over.  No step but a fault takes that back, and a cycle hands over only *)
(* what is not spent.  A convergence pass counts the buys that were open   *)
(* until then and closes them.                                             *)
(***************************************************************************)
EXTENDS WalletWatchTick, TLAPS, FiniteSetTheorems

\* The feed of a wallet has no gap before its latest second.
InOrder ==
    \A s \in feed, t \in Trades : MadeBy[t] = MadeBy[s] /\ TimeOf[t] < TimeOf[s] => t \in feed

\* The cursor of w may stand at s.
Passed(w, s) ==
    /\ s \in feed /\ MadeBy[s] = WalletOf[w]
    /\ AlertsOf(w, s) \subseteq Told
    /\ \A t \in feed :
         MadeBy[t] = WalletOf[w] /\ TimeOf[t] <= TimeOf[s] => Covered(w, t)

\* What cycle c still has to alert on for w.
Remains(c, w) ==
    /\ \A t \in fresh[c] : t \in feed /\ MadeBy[t] = WalletOf[w]
    /\ \A t \in feed :
         MadeBy[t] = WalletOf[w] =>
            t \in fresh[c] \/ Covered(w, t) \/ \A y \in fresh[c] : TimeOf[y] <= TimeOf[t]

\* What cycle c knows at its point, of the watch w it is at.
Knows(c, w) ==
    /\ at[c] = "fetch" => \A s \in Trades : seen[c] = s => Passed(w, s)
    /\ at[c] \in {"trade", "dump", "advance"} => Remains(c, w)
    /\ at[c] \in {"dump", "advance"} =>
         trade[c] \in fresh[c] /\ \A y \in fresh[c] : TimeOf[trade[c]] <= TimeOf[y]
    /\ \A t \in Trades : trade[c] = t =>
         /\ at[c] = "dump" => t \in LargeSells /\ <<w, t, "TRADE">> \in Told
         /\ at[c] = "advance" => AlertsOf(w, t) \subseteq Told

AtPoint(c) ==
    at[c] \in {"fetch", "trade", "dump", "advance"} =>
        /\ watch[c] \in Watches
        /\ \A w \in Watches : watch[c] = w => Knows(c, w)

TickInv ==
    /\ TickTypeOK
    /\ InOrder
    /\ \A w \in Watches, s \in Trades : cursor[w] = s => Passed(w, s)
    /\ \A c \in Slots : AtPoint(c)

---------------------------------------------------------------------------
(* Types *)

LEMMA TickInitTyped == TickInit => TickTypeOK
  <1> SUFFICES ASSUME TickInit PROVE TickTypeOK
    OBVIOUS
  <1>1. faults \in 0..MaxFaults
    BY TickAssumption DEF TickInit
  <1>2. told \in [Alerts -> Nat] /\ claims \in [Pairs -> Nat]
    BY DEF TickInit
  <1> QED
    BY <1>1, <1>2 DEF TickInit, TickTypeOK, Points

LEMMA GoOnTyped ==
  ASSUME TickTypeOK, NEW c \in Slots, NEW left \in SUBSET Trades, GoOn(c, left)
  PROVE  /\ fresh' \in [Slots -> SUBSET Trades]
         /\ at' \in [Slots -> Points]
         /\ watch' \in [Slots -> Watches \cup {NoWatch}]
  BY DEF GoOn, TickTypeOK, Points

LEMMA CountBuyTyped ==
  ASSUME TickTypeOK, NEW c \in Slots, CountBuy(c), watch[c] \in Watches, trade[c] \in Trades
  PROVE  bought' \in [Slots -> SUBSET (Watches \X Trades)]
  <1>1. bought[c] \cup {<<watch[c], trade[c]>>} \in SUBSET (Watches \X Trades)
    BY DEF TickTypeOK
  <1> QED
    BY <1>1 DEF CountBuy, TickTypeOK

LEMMA SendTyped ==
  ASSUME TickTypeOK, NEW w, NEW t, NEW kind, Send(w, t, kind)
  PROVE  told' \in [Alerts -> Nat] /\ claims' \in [Pairs -> Nat]
  <1> DEFINE a == <<w, t, kind>>
  <1>1. told \in [Alerts -> Nat] /\ told' = [told EXCEPT ![a] = told[a] + 1]
    BY DEF Send, TickTypeOK
  <1> HIDE DEF a
  <1>2. \A b \in Alerts : told[b] \in Nat
    BY <1>1
  <1>3. CASE a \in Alerts
    BY <1>1, <1>2, <1>3 DEF Send, TickTypeOK
  <1>4. CASE a \notin Alerts
    <2>1. told' = [b \in Alerts |-> IF b = a THEN told[a] + 1 ELSE told[b]]
      BY <1>1
    <2>2. \A b \in Alerts : told'[b] = told[b]
      BY <1>4, <2>1
    <2> QED
      BY <1>2, <2>1, <2>2 DEF Send, TickTypeOK
  <1> QED
    BY <1>3, <1>4 DEF Send, TickTypeOK

LEMMA FaultTyped ==
  ASSUME TickTypeOK, Fault
  PROVE  faults' \in 0..MaxFaults
  BY TickAssumption DEF Fault, TickTypeOK

LEMMA ForgetTyped ==
  ASSUME TickTypeOK, NEW c \in Slots, Forget(c)
  PROVE  /\ todo' \in [Slots -> SUBSET Watches] /\ fresh' \in [Slots -> SUBSET Trades]
         /\ watch' \in [Slots -> Watches \cup {NoWatch}]
         /\ seen' \in [Slots -> Trades \cup {NoTrade}]
         /\ trade' \in [Slots -> Trades \cup {NoTrade}]
         /\ bought' \in [Slots -> SUBSET (Watches \X Trades)]
  BY DEF Forget, TickTypeOK

LEMMA ClaimTyped ==
  ASSUME TickTypeOK, NEW ps, Claim(ps)
  PROVE  claims' \in [Pairs -> Nat]
  BY DEF Claim, TickTypeOK

LEMMA TickTyped == TickInv /\ [TickNext]_tickVars => TickTypeOK'
  <1> SUFFICES ASSUME TickInv, [TickNext]_tickVars PROVE TickTypeOK'
    OBVIOUS
  <1>0. TickTypeOK
    BY DEF TickInv
  <1>1. ASSUME NEW t \in Trades, Publish(t) PROVE TickTypeOK'
    BY <1>0, <1>1 DEF Publish, TickTypeOK, cycleVars, sentVars
  <1>2. ASSUME NEW w \in Watches, Deactivate(w) \/ Renew(w) PROVE TickTypeOK'
    BY <1>0, <1>2 DEF Deactivate, Renew, TickTypeOK, cycleVars, sentVars
  <1>3. ASSUME NEW c \in Slots, Start(c) \/ TakeWatch(c) PROVE TickTypeOK'
    <2>1. CASE Start(c)
      BY <1>0, <2>1 DEF Start, Moves, TickTypeOK, Points, sentVars
    <2>2. CASE TakeWatch(c)
      <3>1. at' \in [Slots -> Points]
        BY <1>0, <2>2 DEF TakeWatch, Moves, TickTypeOK, Points
      <3>2. PICK w \in todo[c] : /\ todo' = [todo EXCEPT ![c] = @ \ {w}]
                                 /\ watch' = [watch EXCEPT ![c] = w]
                                 /\ seen' = [seen EXCEPT ![c] = cursor[w]]
        BY <2>2 DEF TakeWatch
      <3>3. w \in Watches /\ cursor[w] \in Trades \cup {NoTrade}
        BY <1>0 DEF TickTypeOK
      <3> QED
        BY <1>0, <2>2, <3>1, <3>2, <3>3 DEF TakeWatch, TickTypeOK, sentVars
    <2> QED
      BY <1>3, <2>1, <2>2
  <1>4. ASSUME NEW c \in Slots, NEW left \in SUBSET Trades, GoOn(c, left),
               seen' = [seen EXCEPT ![c] = NoTrade], faults' \in 0..MaxFaults,
               UNCHANGED <<feed, active, cursor, todo, trade, bought, sentVars, overlapped>>
        PROVE  TickTypeOK'
    BY <1>0, <1>4, GoOnTyped DEF TickTypeOK, sentVars
  <1>5. ASSUME NEW c \in Slots, Fetch(c) \/ FetchFails(c) PROVE TickTypeOK'
    <2>1. {t \in feed : MadeBy[t] = WalletOf[watch[c]] /\ Newer(t, seen[c])} \in SUBSET Trades
          /\ {} \in SUBSET Trades
      BY <1>0 DEF TickTypeOK
    <2>2. faults' \in 0..MaxFaults
      BY <1>0, <1>5, FaultTyped DEF Fetch, FetchFails, TickTypeOK
    <2> QED
      BY <1>4, <1>5, <2>1, <2>2 DEF Fetch, FetchFails
  <1>6. ASSUME NEW c \in Slots, SendTrade(c) \/ SendDump(c) PROVE TickTypeOK'
    <2>1. told' \in [Alerts -> Nat] /\ claims' \in [Pairs -> Nat]
      BY <1>0, <1>6, SendTyped DEF SendTrade, SendDump
    <2>2. trade' \in [Slots -> Trades \cup {NoTrade}] /\ at' \in [Slots -> Points]
      BY <1>0, <1>6 DEF SendTrade, SendDump, Moves, TickTypeOK, Points
    <2> QED
      BY <1>0, <1>6, <2>1, <2>2 DEF SendTrade, SendDump, TickTypeOK
  <1>7. ASSUME NEW c \in Slots, at[c] = "advance"
        PROVE  watch[c] \in Watches /\ trade[c] \in Trades
    BY <1>0, <1>7 DEF TickInv, AtPoint, Knows, TickTypeOK
  <1>8. ASSUME NEW c \in Slots, Advance(c) PROVE TickTypeOK'
    <2>1. at[c] = "advance" /\ CountBuy(c) /\ AdvanceCursor(watch[c], trade[c])
          /\ GoOn(c, fresh[c] \ {trade[c]}) /\ trade' = [trade EXCEPT ![c] = NoTrade]
          /\ UNCHANGED <<feed, active, todo, seen, sentVars, overlapped, faults>>
      BY <1>8 DEF Advance
    <2>2. bought' \in [Slots -> SUBSET (Watches \X Trades)]
      BY <1>0, <1>7, <2>1, CountBuyTyped
    <2>3. cursor' \in [Watches -> Trades \cup {NoTrade}]
      BY <1>0, <1>7, <2>1 DEF AdvanceCursor, TickTypeOK
    <2>4. fresh[c] \ {trade[c]} \in SUBSET Trades
      BY <1>0 DEF TickTypeOK
    <2> QED
      BY <1>0, <2>1, <2>2, <2>3, <2>4, GoOnTyped DEF TickTypeOK, sentVars
  <1>9. ASSUME NEW c \in Slots, Converge(c) \/ ConvergeFails(c) PROVE TickTypeOK'
    <2>1. claims' \in [Pairs -> Nat] /\ faults' \in 0..MaxFaults
      BY <1>0, <1>9, ClaimTyped, FaultTyped DEF Converge, ConvergeFails, TickTypeOK
    <2>2. at' \in [Slots -> Points]
      BY <1>0, <1>9 DEF Converge, ConvergeFails, Moves, TickTypeOK, Points
    <2> QED
      BY <1>0, <1>9, <2>1, <2>2, ForgetTyped DEF Converge, ConvergeFails, TickTypeOK
  <1>10. ASSUME NEW c \in Slots, WatchFails(c) PROVE TickTypeOK'
    <2>1. faults' \in 0..MaxFaults
      BY <1>0, <1>10, FaultTyped DEF WatchFails
    <2>2. bought' \in [Slots -> SUBSET (Watches \X Trades)]
      BY <1>0, <1>7, <1>10, CountBuyTyped DEF WatchFails, TickTypeOK
    <2>3. cursor' \in [Watches -> Trades \cup {NoTrade}]
      BY <1>0, <1>7, <1>10 DEF WatchFails, AdvanceCursor, TickTypeOK
    <2>4. /\ at' \in [Slots -> Points] /\ watch' \in [Slots -> Watches \cup {NoWatch}]
          /\ seen' \in [Slots -> Trades \cup {NoTrade}] /\ fresh' \in [Slots -> SUBSET Trades]
          /\ trade' \in [Slots -> Trades \cup {NoTrade}]
      BY <1>0, <1>10 DEF WatchFails, TickTypeOK, Points
    <2> QED
      BY <1>0, <1>10, <2>1, <2>2, <2>3, <2>4 DEF WatchFails, TickTypeOK, sentVars
  <1>11. CASE Crash
    <2>1. faults' \in 0..MaxFaults
      BY <1>0, <1>11, FaultTyped DEF Crash
    <2> QED
      BY <1>0, <1>11, <2>1 DEF Crash, TickTypeOK, Points, sentVars
  <1>12. CASE UNCHANGED tickVars
    BY <1>0, <1>12 DEF tickVars, TickTypeOK
  <1> QED
    BY <1>1, <1>2, <1>3, <1>5, <1>6, <1>8, <1>9, <1>10, <1>11, <1>12 DEF TickNext, CycleStep

---------------------------------------------------------------------------
(* The feed and the alerts only grow *)

\* What any step does to the feed and to the alerts handed over.
Grows ==
    /\ feed \subseteq feed' /\ Told \subseteq Told'
    /\ \A t \in feed' \ feed, s \in feed : MadeBy[s] = MadeBy[t] => TimeOf[s] <= TimeOf[t]

LEMMA SendGrows ==
  ASSUME TickTypeOK, NEW w \in Watches, NEW t \in Trades, NEW kind, Send(w, t, kind)
  PROVE  /\ Told \subseteq Told'
         /\ <<w, t, kind>> \in Alerts => <<w, t, kind>> \in Told'
  <1> DEFINE a == <<w, t, kind>>
  <1>1. /\ told \in [Alerts -> Nat]
        /\ told' = [b \in Alerts |-> IF b = a THEN told[a] + 1 ELSE told[b]]
    BY DEF Send, TickTypeOK
  <1> HIDE DEF a
  <1>2. \A b \in Alerts : told[b] > 0 => told'[b] > 0
    BY <1>1
  <1>3. a \in Alerts => told'[a] > 0
    BY <1>1
  <1> QED
    BY <1>2, <1>3 DEF Told, a

LEMMA AlwaysGrows ==
  ASSUME TickInv, [TickNext]_tickVars
  PROVE  Grows /\ InOrder'
  <1>0. TickTypeOK /\ InOrder
    BY DEF TickInv
  <1>1. ASSUME NEW t \in Trades, Publish(t) PROVE Grows /\ InOrder'
    <2>1. t \notin feed /\ feed' = feed \cup {t} /\ told' = told
          /\ \A s \in Trades : MadeBy[s] = MadeBy[t] /\ TimeOf[s] < TimeOf[t] => s \in feed
      BY <1>1 DEF Publish, sentVars
    <2>2. \A s \in feed : MadeBy[s] = MadeBy[t] => TimeOf[s] <= TimeOf[t]
      BY <1>0, <2>1, TickAssumption DEF InOrder, TickTypeOK
    <2>3. Grows
      BY <2>1, <2>2 DEF Grows, Told
    <2>4. InOrder'
      BY <1>0, <2>1 DEF InOrder, TickTypeOK
    <2> QED
      BY <2>3, <2>4
  <1>2. CASE feed' = feed /\ Told \subseteq Told'
    BY <1>0, <1>2 DEF Grows, InOrder
  <1>3. ASSUME NEW c \in Slots, SendTrade(c) \/ SendDump(c) PROVE Grows /\ InOrder'
    <2>1. watch[c] \in Watches
      BY <1>3 DEF SendTrade, SendDump, Moves, TickInv, AtPoint
    <2>2. feed' = feed
          /\ \E t \in Trades, kind \in {"TRADE", "DUMP"} : Send(watch[c], t, kind)
      <3>1. CASE SendTrade(c)
        BY <1>0, <3>1 DEF SendTrade, TickTypeOK
      <3>2. CASE SendDump(c)
        BY <1>0, <3>2 DEF SendDump, Moves, TickInv, AtPoint, Knows, TickTypeOK
      <3> QED
        BY <1>3, <3>1, <3>2
    <2>3. Told \subseteq Told'
      BY <1>0, <2>1, <2>2, SendGrows
    <2> QED
      BY <1>2, <2>2, <2>3
  <1>4. CASE told' = told /\ feed' = feed
    BY <1>2, <1>4 DEF Told
  <1>5. ASSUME NEW c \in Slots,
               \/ Start(c) \/ TakeWatch(c) \/ Fetch(c) \/ Advance(c) \/ Converge(c)
               \/ WatchFails(c) \/ FetchFails(c) \/ ConvergeFails(c)
        PROVE  told' = told /\ feed' = feed
    BY <1>5 DEF Start, TakeWatch, Fetch, Advance, Converge, WatchFails, FetchFails,
                ConvergeFails, sentVars
  <1>6. ASSUME Crash \/ (\E w \in Watches : Deactivate(w) \/ Renew(w)) \/ UNCHANGED tickVars
        PROVE  told' = told /\ feed' = feed
    BY <1>6 DEF Crash, Deactivate, Renew, sentVars, tickVars
  <1> QED
    BY <1>1, <1>3, <1>4, <1>5, <1>6 DEF TickNext, CycleStep

LEMMA CoveredStays ==
  ASSUME Grows, NEW w \in Watches, NEW t \in Trades, Covered(w, t)
  PROVE  Covered(w, t)'
  BY DEF Grows, Covered

\* A cursor that was earned stays earned: a trade that shows up late falls
\* into the cursor's second or after it.
LEMMA PassedStays ==
  ASSUME TickTypeOK, TickTypeOK', Grows, NEW w \in Watches, NEW s \in Trades, Passed(w, s)
  PROVE  Passed(w, s)'
  <1>1. s \in feed' /\ MadeBy[s] = WalletOf[w] /\ AlertsOf(w, s) \subseteq Told'
    BY DEF Passed, Grows
  <1>2. ASSUME NEW t \in feed', MadeBy[t] = WalletOf[w], TimeOf[t] <= TimeOf[s]
        PROVE  Covered(w, t)'
    <2>1. t \in Trades
      BY DEF TickTypeOK
    <2>2. CASE t \in feed
      BY <1>2, <2>1, <2>2, CoveredStays DEF Passed
    <2>3. CASE t \notin feed
      <3>1. TimeOf[t] = TimeOf[s]
        BY <1>2, <2>1, <2>3, TickAssumption DEF Passed, Grows
      <3> QED
        BY <1>1, <1>2, <3>1 DEF Covered
    <2> QED
      BY <2>2, <2>3
  <1> QED
    BY <1>1, <1>2 DEF Passed

LEMMA RemainsStays ==
  ASSUME TickTypeOK, TickTypeOK', Grows, NEW c \in Slots, NEW w \in Watches,
         Remains(c, w), fresh'[c] = fresh[c]
  PROVE  Remains(c, w)'
  <1>1. ASSUME NEW t \in feed', MadeBy[t] = WalletOf[w]
        PROVE  t \in fresh[c] \/ Covered(w, t)' \/ \A y \in fresh[c] : TimeOf[y] <= TimeOf[t]
    <2>1. t \in Trades
      BY DEF TickTypeOK
    <2>2. CASE t \in feed
      BY <1>1, <2>1, <2>2, CoveredStays DEF Remains
    <2>3. CASE t \notin feed
      BY <1>1, <2>3 DEF Remains, Grows
    <2> QED
      BY <2>2, <2>3
  <1>2. \A t \in fresh[c] : t \in feed' /\ MadeBy[t] = WalletOf[w]
    BY DEF Remains, Grows
  <1> QED
    BY <1>1, <1>2 DEF Remains

LEMMA PointStays ==
  ASSUME TickTypeOK, TickTypeOK', Grows, NEW c \in Slots, AtPoint(c), at'[c] = at[c],
         watch'[c] = watch[c], seen'[c] = seen[c], fresh'[c] = fresh[c], trade'[c] = trade[c]
  PROVE  AtPoint(c)'
  <1> SUFFICES ASSUME at[c] \in {"fetch", "trade", "dump", "advance"},
                      NEW w \in Watches, watch[c] = w
               PROVE  Knows(c, w)'
    BY DEF AtPoint
  <1>1. Knows(c, w)
    BY DEF AtPoint
  <1>2. at[c] = "fetch" => \A s \in Trades : seen[c] = s => Passed(w, s)'
    BY <1>1, PassedStays DEF Knows
  <1>3. at[c] \in {"trade", "dump", "advance"} => Remains(c, w)'
    BY <1>1, RemainsStays DEF Knows
  <1>4. \A t \in Trades : trade[c] = t =>
            /\ at[c] = "dump" => t \in LargeSells /\ <<w, t, "TRADE">> \in Told'
            /\ at[c] = "advance" => AlertsOf(w, t) \subseteq Told'
    BY <1>1 DEF Knows, Grows
  <1> QED
    BY <1>1, <1>2, <1>3, <1>4 DEF Knows

\* A cycle that is at no watch knows nothing.
LEMMA PointNone ==
  ASSUME NEW c \in Slots, at'[c] \in {"idle", "next"}
  PROVE  AtPoint(c)'
  BY DEF AtPoint

---------------------------------------------------------------------------
(* The cycle's own steps *)

\* At the end of a trade the cursor may stand at it.
LEMMA Earned ==
  ASSUME TickTypeOK, NEW c \in Slots, AtPoint(c), at[c] = "advance",
         NEW w \in Watches, watch[c] = w, NEW t \in Trades, trade[c] = t
  PROVE  Passed(w, t)
  <1>1. Knows(c, w)
    BY DEF AtPoint
  <1>2. /\ t \in fresh[c] /\ t \in feed /\ MadeBy[t] = WalletOf[w]
        /\ AlertsOf(w, t) \subseteq Told
        /\ \A y \in fresh[c] : TimeOf[t] <= TimeOf[y]
    BY <1>1 DEF Knows, Remains
  <1>3. ASSUME NEW x \in feed, MadeBy[x] = WalletOf[w], TimeOf[x] <= TimeOf[t]
        PROVE  Covered(w, x)
    <2>1. CASE TimeOf[x] = TimeOf[t]
      BY <1>2, <1>3, <2>1 DEF Covered
    <2>2. CASE TimeOf[x] # TimeOf[t]
      <3>1. TimeOf[x] \in Nat /\ TimeOf[t] \in Nat
        BY TickAssumption DEF TickTypeOK
      <3> QED
        BY <1>1, <1>2, <1>3, <2>2, <3>1 DEF Knows, Remains
    <2> QED
      BY <2>1, <2>2
  <1> QED
    BY <1>2, <1>3 DEF Passed

LEMMA TakeSafe ==
  ASSUME TickInv, TickTypeOK', Grows, NEW c \in Slots, TakeWatch(c)
  PROVE  AtPoint(c)'
  <1>0. TickTypeOK
    BY DEF TickInv
  <1>1. PICK w \in Watches : at'[c] = "fetch" /\ watch'[c] = w /\ seen'[c] = cursor[w]
    BY <1>0 DEF TakeWatch, Moves, TickTypeOK
  <1>2. \A s \in Trades : cursor[w] = s => Passed(w, s)'
    BY <1>0, PassedStays DEF TickInv
  <1>3. \A s \in Trades : seen'[c] = s => Passed(w, s)'
    BY <1>1, <1>2
  <1>4. \A t \in Trades : at'[c] # "dump" /\ at'[c] # "advance"
    BY <1>1
  <1> QED
    BY <1>1, <1>3, <1>4 DEF AtPoint, Knows

LEMMA FetchSafe ==
  ASSUME TickInv, TickTypeOK', Grows, NEW c \in Slots, Fetch(c)
  PROVE  AtPoint(c)'
  <1>0. TickTypeOK /\ AtPoint(c) /\ at[c] = "fetch"
    BY DEF TickInv, Fetch
  <1>1. PICK w \in Watches : watch[c] = w
    BY <1>0 DEF AtPoint
  <1>2. Knows(c, w)
    BY <1>0, <1>1 DEF AtPoint
  <1> DEFINE new == {t \in feed : MadeBy[t] = WalletOf[w] /\ Newer(t, seen[c])}
  <1>3. /\ feed' = feed /\ fresh'[c] = new
        /\ at'[c] = IF new = {} THEN "next" ELSE "trade"
        /\ watch'[c] = IF new = {} THEN NoWatch ELSE w
    BY <1>0, <1>1 DEF Fetch, GoOn, TickTypeOK
  <1>4. CASE new = {}
    BY <1>3, <1>4, PointNone
  <1>5. CASE new # {}
    <2>1. ASSUME NEW t \in feed, MadeBy[t] = WalletOf[w], t \notin new PROVE Covered(w, t)'
      <3>1. t \in Trades /\ ~Newer(t, seen[c])
        BY <1>0, <2>1 DEF TickTypeOK
      <3>2. PICK s \in Trades : seen[c] = s /\ ~(TimeOf[t] > TimeOf[s])
        BY <1>0, <3>1 DEF Newer, TickTypeOK
      <3>3. Passed(w, s)
        BY <1>0, <1>2, <3>2 DEF Knows
      <3>4. TimeOf[t] <= TimeOf[s]
        BY <3>1, <3>2, TickAssumption
      <3>5. Covered(w, t)
        BY <2>1, <3>3, <3>4 DEF Passed
      <3> QED
        BY <3>1, <3>5, CoveredStays
    <2>2. Remains(c, w)'
      BY <1>3, <2>1 DEF Remains
    <2>3. at'[c] = "trade" /\ watch'[c] = w
      BY <1>3, <1>5
    <2> QED
      BY <2>2, <2>3 DEF AtPoint, Knows
  <1> QED
    BY <1>4, <1>5

LEMMA SendSafe ==
  ASSUME TickInv, TickTypeOK', Grows, NEW c \in Slots, SendTrade(c) \/ SendDump(c)
  PROVE  AtPoint(c)'
  <1>0. TickTypeOK /\ AtPoint(c) /\ at[c] \in {"trade", "dump"}
    BY DEF TickInv, SendTrade, SendDump, Moves
  <1>1. PICK w \in Watches : watch[c] = w
    BY <1>0 DEF AtPoint
  <1>2. Knows(c, w) /\ Remains(c, w)
    BY <1>0, <1>1 DEF AtPoint, Knows
  <1>3. fresh'[c] = fresh[c] /\ watch'[c] = w /\ Remains(c, w)'
    BY <1>0, <1>1, <1>2, RemainsStays DEF SendTrade, SendDump
  <1>4. PICK t \in Trades :
          /\ trade'[c] = t /\ t \in fresh[c] /\ \A y \in fresh[c] : TimeOf[t] <= TimeOf[y]
          /\ \/ /\ Send(w, t, "TRADE")
                /\ at'[c] = IF t \in LargeSells THEN "dump" ELSE "advance"
             \/ /\ Send(w, t, "DUMP") /\ at'[c] = "advance"
                /\ t \in LargeSells /\ <<w, t, "TRADE">> \in Told
    <2>1. CASE SendTrade(c)
      BY <1>0, <1>1, <2>1 DEF SendTrade, TickTypeOK
    <2>2. CASE SendDump(c)
      BY <1>0, <1>1, <1>2, <2>2 DEF SendDump, Moves, Knows, TickTypeOK
    <2> QED
      BY <2>1, <2>2
  <1>5. MadeBy[t] = WalletOf[w]
    BY <1>2, <1>4 DEF Remains
  <1>6. /\ <<w, t, "TRADE">> \in Alerts
        /\ t \in LargeSells => <<w, t, "DUMP">> \in Alerts
    <2>1. /\ <<w, t, "TRADE">> \in AlertsOf(w, t)
          /\ t \in LargeSells => <<w, t, "DUMP">> \in AlertsOf(w, t)
      BY <1>5 DEF AlertsOf
    <2> QED
      BY <2>1 DEF Alerts
  <1>7. /\ <<w, t, "TRADE">> \in Told'
        /\ t \in LargeSells /\ at'[c] = "advance" => <<w, t, "DUMP">> \in Told'
    BY <1>0, <1>4, <1>6, SendGrows
  <1>8. at'[c] = "advance" => AlertsOf(w, t) \subseteq Told'
    BY <1>7 DEF AlertsOf
  <1>9. at'[c] \in {"dump", "advance"} /\ (at'[c] = "dump" => t \in LargeSells)
    BY <1>4
  <1> QED
    BY <1>3, <1>4, <1>7, <1>8, <1>9 DEF AtPoint, Knows

LEMMA AdvanceSafe ==
  ASSUME TickInv, TickTypeOK', Grows, NEW c \in Slots, Advance(c)
  PROVE  AtPoint(c)'
  <1>0. TickTypeOK /\ AtPoint(c) /\ at[c] = "advance"
    BY DEF TickInv, Advance
  <1>1. PICK w \in Watches : watch[c] = w
    BY <1>0 DEF AtPoint
  <1>2. Knows(c, w)
    BY <1>0, <1>1 DEF AtPoint
  <1>3. PICK t \in Trades : trade[c] = t /\ t \in fresh[c]
    BY <1>0, <1>2 DEF Knows, TickTypeOK
  <1> DEFINE rest == fresh[c] \ {t}
  <1>4. /\ feed' = feed /\ fresh'[c] = rest
        /\ at'[c] = IF rest = {} THEN "next" ELSE "trade"
        /\ watch'[c] = IF rest = {} THEN NoWatch ELSE w
    BY <1>0, <1>1, <1>3 DEF Advance, GoOn, TickTypeOK
  <1>5. CASE rest = {}
    BY <1>4, <1>5, PointNone
  <1>6. CASE rest # {}
    <2>1. Remains(c, w) /\ AlertsOf(w, t) \subseteq Told
      BY <1>0, <1>2, <1>3 DEF Knows
    <2>2. Covered(w, t)
      BY <1>3, <2>1 DEF Covered, Remains
    <2>3. ASSUME NEW x \in feed, MadeBy[x] = WalletOf[w]
          PROVE  x \in rest \/ Covered(w, x)' \/ \A y \in rest : TimeOf[y] <= TimeOf[x]
      <3>1. x \in Trades
        BY <1>0 DEF TickTypeOK
      <3> QED
        BY <2>1, <2>2, <2>3, <3>1, CoveredStays DEF Remains
    <2>4. Remains(c, w)'
      BY <1>4, <2>1, <2>3 DEF Remains
    <2>5. at'[c] = "trade" /\ watch'[c] = w
      BY <1>4, <1>6
    <2> QED
      BY <2>4, <2>5 DEF AtPoint, Knows
  <1> QED
    BY <1>5, <1>6

\* The cursor is moved only to where it may stand.
LEMMA CursorSafe ==
  ASSUME TickInv, TickTypeOK', Grows, [TickNext]_tickVars,
         NEW w \in Watches, NEW s \in Trades, cursor'[w] = s
  PROVE  Passed(w, s)'
  <1>0. TickTypeOK
    BY DEF TickInv
  <1>1. CASE cursor'[w] = cursor[w]
    BY <1>0, <1>1, PassedStays DEF TickInv
  <1>2. ASSUME NEW c \in Slots, at[c] = "advance", AdvanceCursor(watch[c], trade[c]),
               cursor'[w] # cursor[w]
        PROVE  Passed(w, s)'
    <2>1. watch[c] = w /\ trade[c] = s
      BY <1>0, <1>2 DEF AdvanceCursor, TickTypeOK
    <2>2. Passed(w, s)
      BY <1>0, <1>2, <2>1, Earned DEF TickInv
    <2> QED
      BY <1>0, <2>2, PassedStays
  <1>3. ASSUME cursor' # cursor
        PROVE  \E c \in Slots : at[c] = "advance" /\ AdvanceCursor(watch[c], trade[c])
    <2>1. ASSUME NEW c \in Slots,
                 \/ Start(c) \/ TakeWatch(c) \/ Fetch(c) \/ SendTrade(c) \/ SendDump(c)
                 \/ Converge(c) \/ FetchFails(c) \/ ConvergeFails(c)
          PROVE  cursor' = cursor
      BY <2>1 DEF Start, TakeWatch, Fetch, SendTrade, SendDump, Converge, FetchFails,
                  ConvergeFails
    <2>2. ASSUME NEW c \in Slots, WatchFails(c)
          PROVE  \/ cursor' = cursor
                 \/ at[c] = "advance" /\ AdvanceCursor(watch[c], trade[c])
      BY <2>2 DEF WatchFails
    <2>3. ASSUME NEW c \in Slots, Advance(c)
          PROVE  at[c] = "advance" /\ AdvanceCursor(watch[c], trade[c])
      BY <2>3 DEF Advance
    <2>4. ASSUME \/ \E t \in Trades : Publish(t)
                 \/ \E x \in Watches : Deactivate(x) \/ Renew(x)
                 \/ Crash \/ UNCHANGED tickVars
          PROVE  cursor' = cursor
      BY <2>4 DEF Publish, Deactivate, Renew, Crash, tickVars
    <2> QED
      BY <1>3, <2>1, <2>2, <2>3, <2>4 DEF TickNext, CycleStep
  <1> QED
    BY <1>1, <1>2, <1>3

LEMMA PointSafe ==
  ASSUME TickInv, TickTypeOK', Grows, [TickNext]_tickVars, NEW c \in Slots
  PROVE  AtPoint(c)'
  <1>0. TickTypeOK /\ AtPoint(c)
    BY DEF TickInv
  <1>1. CASE TakeWatch(c) \/ Fetch(c) \/ SendTrade(c) \/ SendDump(c) \/ Advance(c)
    BY <1>1, TakeSafe, FetchSafe, SendSafe, AdvanceSafe
  <1>2. CASE \/ Start(c) \/ Converge(c) \/ WatchFails(c) \/ FetchFails(c) \/ ConvergeFails(c)
             \/ Crash
    <2>1. at'[c] \in {"idle", "next"}
      BY <1>0, <1>2 DEF Start, Converge, WatchFails, FetchFails, ConvergeFails, Crash, GoOn,
                        Moves, TickTypeOK
    <2> QED
      BY <2>1, PointNone
  <1>3. ASSUME at'[c] = at[c], watch'[c] = watch[c], seen'[c] = seen[c],
               fresh'[c] = fresh[c], trade'[c] = trade[c]
        PROVE  AtPoint(c)'
    BY <1>0, <1>3, PointStays
  <1>4. ASSUME NEW d \in Slots, d # c,
               \/ Start(d) \/ TakeWatch(d) \/ Fetch(d) \/ SendTrade(d) \/ SendDump(d)
               \/ Advance(d) \/ Converge(d)
               \/ WatchFails(d) \/ FetchFails(d) \/ ConvergeFails(d)
        PROVE  AtPoint(c)'
    <2>1. CASE Start(d) \/ TakeWatch(d) \/ Fetch(d) \/ Advance(d) \/ FetchFails(d)
      BY <1>0, <1>3, <1>4, <2>1 DEF Start, TakeWatch, Fetch, Advance, FetchFails, GoOn, Moves,
                                    TickTypeOK
    <2>2. CASE SendTrade(d) \/ SendDump(d)
      BY <1>0, <1>3, <1>4, <2>2 DEF SendTrade, SendDump, Moves, TickTypeOK
    <2>3. CASE Converge(d) \/ ConvergeFails(d) \/ WatchFails(d)
      BY <1>0, <1>3, <1>4, <2>3 DEF Converge, ConvergeFails, WatchFails, Forget, Moves,
                                    TickTypeOK
    <2> QED
      BY <1>4, <2>1, <2>2, <2>3
  <1>5. CASE \/ \E t \in Trades : Publish(t)
             \/ \E x \in Watches : Deactivate(x) \/ Renew(x)
             \/ UNCHANGED tickVars
    BY <1>3, <1>5 DEF Publish, Deactivate, Renew, cycleVars, tickVars
  <1> QED
    BY <1>1, <1>2, <1>4, <1>5 DEF TickNext, CycleStep

LEMMA TickSafe == TickInv /\ [TickNext]_tickVars => TickInv'
  <1> SUFFICES ASSUME TickInv, [TickNext]_tickVars PROVE TickInv'
    OBVIOUS
  <1>1. TickTypeOK' /\ Grows /\ InOrder'
    BY TickTyped, AlwaysGrows
  <1>2. \A w \in Watches, s \in Trades : cursor'[w] = s => Passed(w, s)'
    BY <1>1, CursorSafe
  <1>3. \A c \in Slots : AtPoint(c)'
    BY <1>1, PointSafe
  <1> QED
    BY <1>1, <1>2, <1>3 DEF TickInv

LEMMA TickInitSafe == TickInit => TickInv
  <1> SUFFICES ASSUME TickInit PROVE TickInv
    OBVIOUS
  <1>1. feed = {} /\ \A w \in Watches : cursor[w] \notin Trades
    BY TickAssumption DEF TickInit
  <1>2. \A c \in Slots : AtPoint(c)
    BY DEF TickInit, AtPoint
  <1> QED
    BY <1>1, <1>2, TickInitTyped DEF TickInv, InOrder

\* No cycle moves a watch past a second without its alerts, however many run
\* at once and whatever fails: runWalletWatchTick and its cursor.
THEOREM NoneSkipped == TickSpec => []NothingSkipped
  <1>1. TickInv => NothingSkipped
    <2> SUFFICES ASSUME TickInv, NEW w \in Watches, cursor[w] # NoTrade
                 PROVE  /\ AlertsOf(w, cursor[w]) \subseteq Told
                        /\ \A t \in feed : MadeBy[t] = WalletOf[w]
                             /\ TimeOf[t] <= TimeOf[cursor[w]] => Covered(w, t)
      BY DEF NothingSkipped
    <2>1. cursor[w] \in Trades
      BY DEF TickInv, TickTypeOK
    <2>2. Passed(w, cursor[w])
      BY <2>1 DEF TickInv
    <2> QED
      BY <2>2 DEF Passed
  <1> QED
    BY <1>1, TickInitSafe, TickSafe, PTL DEF TickSpec

---------------------------------------------------------------------------
(* One cycle after the other *)

AtTrade(c) == at[c] \in {"trade", "dump", "advance"}

Kinds == {"TRADE", "DUMP"}

OneCycle == \A c, d \in Slots : c # d => at[c] = "idle" \/ at[d] = "idle"

\* The cycle has read the cursor as it stands, and holds nothing behind it.
Follows(c) ==
    \A w \in Watches : watch[c] = w =>
        /\ at[c] = "fetch" => seen[c] = cursor[w]
        /\ AtTrade(c) =>
             \A s \in Trades, y \in fresh[c] : cursor[w] = s => TimeOf[s] <= TimeOf[y]

Held(w, t) == \E c \in Slots : AtTrade(c) /\ watch[c] = w /\ t \in fresh[c]

\* No cycle will take t up for w again.
Past(w, t) == ~Held(w, t) /\ \E s \in Trades : cursor[w] = s /\ TimeOf[t] <= TimeOf[s]

\* The cycle at t has handed this alert over.
Sent(w, t, k) ==
    \E c \in Slots : /\ watch[c] = w /\ trade[c] = t
                     /\ at[c] = "advance" \/ (at[c] = "dump" /\ k = "TRADE")

Spent(w, t, k) == Past(w, t) \/ Sent(w, t, k)

Sparing ==
    \A w \in Watches, t \in Trades, k \in Kinds : <<w, t, k>> \in Alerts =>
        /\ told[<<w, t, k>>] <= 1 + faults
        /\ ~Spent(w, t, k) => told[<<w, t, k>>] <= faults

ToldBuys(p) == {a \in Told : a[2] \in Buys /\ UserOf[a[1]] = p[1] /\ TokenOf[a[2]] = p[2]}

\* The buy waits for the convergence pass of its cycle.
Open(w, t) ==
    \E c \in Slots : \/ <<w, t>> \in bought[c]
                     \/ at[c] \in {"dump", "advance"} /\ watch[c] = w /\ trade[c] = t

Closed(p) == {a \in ToldBuys(p) : ~Open(a[1], a[2])}

Counted(c) ==
    /\ \A b \in bought[c] : b[2] \in Buys /\ <<b[1], b[2], "TRADE">> \in Told
    /\ ~overlapped /\ at[c] = "idle" => bought[c] = {}

SoloInv ==
    /\ IsFiniteSet(Told)
    /\ \A c \in Slots : Counted(c)
    /\ ~overlapped =>
        /\ OneCycle
        /\ \A c \in Slots : Follows(c)
        /\ Sparing
        /\ faults = 0 => \A p \in Pairs : MinWallets * claims[p] <= Cardinality(Closed(p))

\* What a step around the cycles leaves alone.
Quiet == UNCHANGED <<at, watch, seen, fresh, trade, bought, cursor, told, claims, overlapped, faults>>

Faulted == faults' = faults + 1 /\ told' = told /\ overlapped' = overlapped

\* A step of a cycle that fails in nothing.
Works(c) ==
    \/ Start(c) \/ TakeWatch(c) \/ Fetch(c) \/ SendTrade(c) \/ SendDump(c) \/ Advance(c)
    \/ Converge(c)

LEMMA StepKinds ==
  ASSUME [TickNext]_tickVars
  PROVE  \/ Quiet
         \/ \E c \in Slots : Works(c)
         \/ Faulted /\ \/ Crash
                       \/ \E c \in Slots : WatchFails(c) \/ FetchFails(c) \/ ConvergeFails(c)
  <1>1. ASSUME \/ \E t \in Trades : Publish(t)
               \/ \E w \in Watches : Deactivate(w) \/ Renew(w)
               \/ UNCHANGED tickVars
        PROVE  Quiet
    BY <1>1 DEF Publish, Deactivate, Renew, tickVars, cycleVars, sentVars, Quiet
  <1>2. ASSUME Crash \/ \E c \in Slots : WatchFails(c) \/ FetchFails(c) \/ ConvergeFails(c)
        PROVE  Faulted
    BY <1>2 DEF Crash, WatchFails, FetchFails, ConvergeFails, Fault, sentVars, Faulted
  <1> QED
    BY <1>1, <1>2 DEF TickNext, CycleStep, Works

LEMMA AlertsExist ==
  ASSUME NEW w \in Watches, NEW t \in Trades, MadeBy[t] = WalletOf[w]
  PROVE  /\ <<w, t, "TRADE">> \in Alerts
         /\ t \in LargeSells => <<w, t, "DUMP">> \in Alerts
  <1>1. /\ <<w, t, "TRADE">> \in AlertsOf(w, t)
        /\ t \in LargeSells => <<w, t, "DUMP">> \in AlertsOf(w, t)
    BY DEF AlertsOf
  <1> QED
    BY <1>1 DEF Alerts

LEMMA Handed ==
  ASSUME TickTypeOK, NEW w, NEW t, NEW k, Send(w, t, k)
  PROVE  /\ \A a \in Alerts : a # <<w, t, k>> => told'[a] = told[a]
         /\ <<w, t, k>> \in Alerts => told'[<<w, t, k>>] = told[<<w, t, k>>] + 1
         /\ Told' \subseteq Told \cup {<<w, t, k>>}
  <1> DEFINE x == <<w, t, k>>
  <1>1. /\ told \in [Alerts -> Nat]
        /\ told' = [b \in Alerts |-> IF b = x THEN told[x] + 1 ELSE told[b]]
    BY DEF Send, TickTypeOK
  <1> HIDE DEF x
  <1>2. /\ \A a \in Alerts : a # x => told'[a] = told[a]
        /\ x \in Alerts => told'[x] = told[x] + 1
    BY <1>1
  <1>3. Told' \subseteq Told \cup {x}
    BY <1>2 DEF Told
  <1> QED
    BY <1>2, <1>3 DEF x

\* Cycle c hands over the alert of kind k on t for w.
Hands(c, w, t, k) ==
    /\ Send(w, t, k) /\ watch[c] = w /\ trade'[c] = t /\ t \in fresh[c]
    /\ MadeBy[t] = WalletOf[w] /\ <<w, t, k>> \in Alerts
    /\ \/ /\ SendTrade(c) /\ k = "TRADE" /\ at[c] = "trade"
          /\ at'[c] = IF t \in LargeSells THEN "dump" ELSE "advance"
       \/ /\ SendDump(c) /\ k = "DUMP" /\ at[c] = "dump" /\ at'[c] = "advance"
          /\ trade[c] = t /\ t \in LargeSells

LEMMA Handing ==
  ASSUME TickInv, NEW c \in Slots, SendTrade(c) \/ SendDump(c)
  PROVE  \E w \in Watches, t \in Trades, k \in Kinds : Hands(c, w, t, k)
  <1>0. TickTypeOK /\ AtPoint(c) /\ at[c] \in {"trade", "dump"}
    BY DEF TickInv, SendTrade, SendDump, Moves
  <1>1. PICK w \in Watches : watch[c] = w
    BY <1>0 DEF AtPoint
  <1>2. Knows(c, w) /\ Remains(c, w)
    BY <1>0, <1>1 DEF AtPoint, Knows
  <1>3. CASE SendTrade(c)
    <2>1. PICK t \in Trades :
            /\ Send(w, t, "TRADE") /\ trade'[c] = t /\ t \in fresh[c]
            /\ at[c] = "trade" /\ at'[c] = IF t \in LargeSells THEN "dump" ELSE "advance"
      BY <1>0, <1>1, <1>3 DEF SendTrade, TickTypeOK
    <2>2. MadeBy[t] = WalletOf[w]
      BY <1>2, <2>1 DEF Remains
    <2>3. <<w, t, "TRADE">> \in Alerts
      BY <2>2, AlertsExist
    <2> QED
      BY <1>1, <1>3, <2>1, <2>2, <2>3 DEF Hands, Kinds
  <1>4. CASE SendDump(c)
    <2>1. PICK t \in Trades :
            /\ Send(w, t, "DUMP") /\ trade[c] = t /\ trade'[c] = t /\ t \in fresh[c]
            /\ at[c] = "dump" /\ at'[c] = "advance" /\ t \in LargeSells
      BY <1>0, <1>1, <1>2, <1>4 DEF SendDump, Moves, Knows, TickTypeOK
    <2>2. MadeBy[t] = WalletOf[w]
      BY <1>2, <2>1 DEF Remains
    <2>3. <<w, t, "DUMP">> \in Alerts
      BY <2>1, <2>2, AlertsExist
    <2> QED
      BY <1>1, <1>4, <2>1, <2>2, <2>3 DEF Hands, Kinds
  <1> QED
    BY <1>3, <1>4

LEMMA ToldFinite ==
  ASSUME TickInv, [TickNext]_tickVars, IsFiniteSet(Told)
  PROVE  IsFiniteSet(Told')
  <1>1. CASE told' = told
    BY <1>1 DEF Told
  <1>2. ASSUME NEW c \in Slots, SendTrade(c) \/ SendDump(c) PROVE IsFiniteSet(Told')
    <2>1. PICK x : Told' \subseteq Told \cup {x}
      BY <1>2, Handing, Handed DEF Hands, TickInv
    <2> QED
      BY <2>1, FS_AddElement, FS_Subset
  <1>3. ASSUME NEW c \in Slots,
               Start(c) \/ TakeWatch(c) \/ Fetch(c) \/ Advance(c) \/ Converge(c)
        PROVE  told' = told
    BY <1>3 DEF Start, TakeWatch, Fetch, Advance, Converge, sentVars
  <1> QED
    BY <1>1, <1>2, <1>3, StepKinds DEF Quiet, Faulted, Works

LEMMA CountedStays ==
  ASSUME TickInv, [TickNext]_tickVars, TickTypeOK', Grows,
         NEW c \in Slots, Counted(c), ~overlapped' => ~overlapped
  PROVE  Counted(c)'
  <1>0. TickTypeOK
    BY DEF TickInv
  <1>1. CASE bought'[c] = bought[c] /\ (at'[c] = at[c] \/ at'[c] # "idle")
    BY <1>1 DEF Counted, Grows
  <1>2. CASE bought'[c] = {}
    BY <1>2 DEF Counted
  <1>3. ASSUME at[c] = "advance", CountBuy(c), at'[c] # "idle" PROVE Counted(c)'
    <2>1. PICK w \in Watches, t \in Trades : watch[c] = w /\ trade[c] = t
      BY <1>0, <1>3 DEF TickInv, AtPoint, Knows, TickTypeOK
    <2>2. AlertsOf(w, t) \subseteq Told /\ MadeBy[t] = WalletOf[w]
      BY <1>3, <2>1 DEF TickInv, AtPoint, Knows, Remains
    <2>3. <<w, t, "TRADE">> \in Told'
      BY <2>2 DEF AlertsOf, Grows
    <2>4. bought'[c] = IF t \in Buys THEN bought[c] \cup {<<w, t>>} ELSE bought[c]
      BY <1>0, <1>3, <2>1 DEF CountBuy, TickTypeOK
    <2> QED
      BY <1>3, <2>3, <2>4 DEF Counted, Grows
  <1>4. CASE Quiet
    BY <1>1, <1>4 DEF Quiet
  <1>5. ASSUME NEW d \in Slots, \/ Start(d) \/ TakeWatch(d) \/ Fetch(d) \/ FetchFails(d)
                                \/ SendTrade(d) \/ SendDump(d)
        PROVE  Counted(c)'
    <2>1. bought' = bought /\ (at'[c] = at[c] \/ at'[c] # "idle")
      BY <1>0, <1>5 DEF Start, TakeWatch, Fetch, FetchFails, SendTrade, SendDump, GoOn, Moves,
                        TickTypeOK
    <2> QED
      BY <1>1, <2>1
  <1>6. ASSUME NEW d \in Slots, Converge(d) \/ ConvergeFails(d) PROVE Counted(c)'
    <2>1. bought' = [bought EXCEPT ![d] = {}] /\ at' = [at EXCEPT ![d] = "idle"]
      BY <1>6 DEF Converge, ConvergeFails, Forget, Moves
    <2> QED
      BY <1>0, <1>1, <1>2, <2>1 DEF TickTypeOK
  <1>7. ASSUME NEW d \in Slots, Advance(d) \/ WatchFails(d) PROVE Counted(c)'
    <2>1. CASE c # d
      BY <1>0, <1>1, <1>7, <2>1 DEF Advance, WatchFails, CountBuy, GoOn, TickTypeOK
    <2>2. CASE c = d /\ at[d] = "advance"
      BY <1>0, <1>3, <1>7, <2>2 DEF Advance, WatchFails, GoOn, TickTypeOK
    <2>3. CASE c = d /\ at[d] # "advance"
      BY <1>0, <1>1, <1>7, <2>3 DEF Advance, WatchFails, TickTypeOK
    <2> QED
      BY <2>1, <2>2, <2>3
  <1>8. CASE Crash
    BY <1>2, <1>8 DEF Crash
  <1> QED
    BY <1>4, <1>5, <1>6, <1>7, <1>8, StepKinds DEF Works

LEMMA Ordered ==
  ASSUME TickTypeOK, [TickNext]_tickVars, OneCycle, ~overlapped'
  PROVE  OneCycle'
  <1>1. ASSUME NEW c \in Slots, Start(c) PROVE OneCycle'
    BY <1>1 DEF Start, Moves, OneCycle, TickTypeOK
  <1>2. CASE Quiet \/ Crash
    BY <1>2 DEF Quiet, Crash, OneCycle
  <1>3. ASSUME NEW c \in Slots,
               \/ TakeWatch(c) \/ Fetch(c) \/ SendTrade(c) \/ SendDump(c) \/ Advance(c)
               \/ Converge(c) \/ WatchFails(c) \/ FetchFails(c) \/ ConvergeFails(c)
        PROVE  OneCycle'
    <2>1. at[c] # "idle" /\ \A d \in Slots : d # c => at'[d] = at[d]
      BY <1>3 DEF TakeWatch, Fetch, SendTrade, SendDump, Advance, Converge, WatchFails,
                  FetchFails, ConvergeFails, GoOn, Moves, TickTypeOK
    <2> QED
      BY <2>1 DEF OneCycle
  <1> QED
    BY <1>1, <1>2, <1>3, StepKinds DEF Works

LEMMA FollowsStays ==
  ASSUME TickInv, TickTypeOK', [TickNext]_tickVars, OneCycle, ~overlapped',
         NEW c \in Slots, Follows(c)
  PROVE  Follows(c)'
  <1>0. TickTypeOK /\ AtPoint(c)
    BY DEF TickInv
  <1>1. CASE at'[c] \in {"idle", "next"}
    BY <1>1 DEF Follows, AtTrade
  <1>2. CASE UNCHANGED <<at, watch, seen, fresh, cursor>>
    BY <1>2 DEF Follows, AtTrade
  <1>3. CASE TakeWatch(c)
    BY <1>0, <1>3 DEF TakeWatch, Moves, Follows, AtTrade, TickTypeOK
  <1>4. CASE Fetch(c)
    <2>1. PICK w \in Watches : watch[c] = w
      BY <1>0, <1>4 DEF AtPoint, Fetch
    <2>2. /\ seen[c] = cursor[w] /\ cursor' = cursor
          /\ fresh'[c] = {t \in feed : MadeBy[t] = WalletOf[w] /\ Newer(t, cursor[w])}
          /\ at'[c] \in {"next", "trade"} /\ watch'[c] \in {w, NoWatch}
      BY <1>0, <1>4, <2>1 DEF Fetch, GoOn, Follows, TickTypeOK
    <2>3. \A s \in Trades, y \in fresh'[c] : cursor'[w] = s => TimeOf[s] <= TimeOf[y]
      BY <1>0, <2>2, TickAssumption DEF Newer, TickTypeOK
    <2> QED
      BY <2>2, <2>3, TickAssumption DEF Follows, AtTrade
  <1>5. CASE SendTrade(c) \/ SendDump(c)
    <2>1. UNCHANGED <<watch, seen, fresh, cursor>> /\ AtTrade(c) /\ AtTrade(c)'
      BY <1>0, <1>5 DEF SendTrade, SendDump, Moves, AtTrade, TickTypeOK
    <2> QED
      BY <2>1 DEF Follows, AtTrade
  <1>6. CASE Advance(c)
    <2>1. PICK w \in Watches, t \in Trades : watch[c] = w /\ trade[c] = t
      BY <1>0, <1>6 DEF AtPoint, Advance, Knows, TickTypeOK
    <2>2. /\ cursor'[w] = t /\ fresh'[c] \subseteq fresh[c]
          /\ at'[c] \in {"next", "trade"} /\ watch'[c] \in {w, NoWatch}
      BY <1>0, <1>6, <2>1 DEF Advance, AdvanceCursor, GoOn, TickTypeOK
    <2>3. \A y \in fresh[c] : TimeOf[t] <= TimeOf[y]
      BY <1>0, <1>6, <2>1 DEF AtPoint, Knows, Advance
    <2> QED
      BY <2>2, <2>3, TickAssumption DEF Follows, AtTrade
  <1>7. ASSUME NEW d \in Slots, d # c,
               \/ TakeWatch(d) \/ Fetch(d) \/ SendTrade(d) \/ SendDump(d) \/ Advance(d)
               \/ Converge(d) \/ WatchFails(d) \/ FetchFails(d) \/ ConvergeFails(d)
        PROVE  at'[c] = "idle"
    <2>1. at[d] # "idle" /\ at'[c] = at[c]
      BY <1>0, <1>7 DEF TakeWatch, Fetch, SendTrade, SendDump, Advance, Converge, WatchFails,
                        FetchFails, ConvergeFails, GoOn, Moves, TickTypeOK
    <2> QED
      BY <1>7, <2>1 DEF OneCycle
  <1>8. ASSUME NEW d \in Slots, Start(d) PROVE at'[c] \in {"idle", "next"}
    BY <1>0, <1>8 DEF Start, Moves, TickTypeOK
  <1>9. CASE Converge(c) \/ WatchFails(c) \/ FetchFails(c) \/ ConvergeFails(c) \/ Crash
    BY <1>0, <1>1, <1>9 DEF Converge, WatchFails, FetchFails, ConvergeFails, Crash, GoOn, Moves,
                            TickTypeOK
  <1> QED
    BY <1>1, <1>2, <1>3, <1>4, <1>5, <1>6, <1>7, <1>8, <1>9, StepKinds DEF Quiet, Works

---------------------------------------------------------------------------
(* An alert is spent once *)

\* What is known of the one cycle at work.
Alone(c) == \A d \in Slots : d # c => at[d] = "idle" /\ at'[d] = "idle"

LEMMA WorksAlone ==
  ASSUME TickTypeOK, OneCycle, NEW c \in Slots,
         \/ TakeWatch(c) \/ Fetch(c) \/ SendTrade(c) \/ SendDump(c) \/ Advance(c) \/ Converge(c)
  PROVE  Alone(c)
  <1>1. at[c] # "idle" /\ \A d \in Slots : d # c => at'[d] = at[d]
    BY DEF TakeWatch, Fetch, SendTrade, SendDump, Advance, Converge, GoOn, Moves, TickTypeOK
  <1> QED
    BY <1>1 DEF OneCycle, Alone

\* A step that takes nothing up and moves no cursor back spends for good.
LEMMA SpentStays ==
  ASSUME TickInv, TickTypeOK', OneCycle, \A c \in Slots : Follows(c), ~overlapped',
         NEW w \in Watches, NEW t \in Trades, NEW k \in Kinds, Spent(w, t, k),
         Quiet \/ \E c \in Slots : Works(c)
  PROVE  Spent(w, t, k)'
  <1>0. TickTypeOK /\ \A c \in Slots : AtPoint(c)
    BY DEF TickInv
  <1>1. CASE Quiet
    BY <1>1 DEF Quiet, Spent, Past, Sent, Held, AtTrade
  <1>2. ASSUME NEW c \in Slots, Start(c) \/ TakeWatch(c) \/ Converge(c) PROVE Spent(w, t, k)'
    <2>1. /\ at[c] \in {"idle", "next"} /\ at'[c] \in {"idle", "next", "fetch"} /\ cursor' = cursor
          /\ \A d \in Slots : d # c => /\ at'[d] = at[d] /\ watch'[d] = watch[d]
                                       /\ fresh'[d] = fresh[d] /\ trade'[d] = trade[d]
      BY <1>0, <1>2 DEF Start, TakeWatch, Converge, Forget, Moves, TickTypeOK
    <2>2. Sent(w, t, k) => Sent(w, t, k)'
      BY <2>1 DEF Sent
    <2>3. Held(w, t)' => Held(w, t)
      BY <2>1 DEF Held, AtTrade
    <2> QED
      BY <2>1, <2>2, <2>3 DEF Spent, Past
  <1>3. ASSUME NEW c \in Slots, Fetch(c) PROVE Spent(w, t, k)'
    <2>1. Alone(c) /\ at[c] = "fetch"
      BY <1>0, <1>3, WorksAlone DEF Fetch
    <2>2. PICK s \in Trades : cursor[w] = s /\ TimeOf[t] <= TimeOf[s]
      BY <2>1 DEF Spent, Past, Sent, Alone
    <2>3. Held(w, t)' => watch[c] = w /\ t \in fresh'[c]
      BY <1>0, <1>3, <2>1, TickAssumption DEF Held, Fetch, GoOn, Alone, AtTrade, TickTypeOK
    <2>4. watch[c] = w => t \notin fresh'[c]
      <3>1. watch[c] = w => fresh'[c] = {x \in feed : MadeBy[x] = WalletOf[w] /\ Newer(x, s)}
        BY <1>0, <1>3, <2>2 DEF Fetch, GoOn, Follows, TickTypeOK
      <3>2. ~Newer(t, s)
        BY <2>2, TickAssumption DEF Newer
      <3> QED
        BY <3>1, <3>2
    <2> QED
      BY <1>3, <2>2, <2>3, <2>4 DEF Spent, Past, Fetch
  <1>4. ASSUME NEW c \in Slots, SendTrade(c) \/ SendDump(c) PROVE Spent(w, t, k)'
    <2>1. Alone(c) /\ UNCHANGED <<watch, fresh, cursor>> /\ AtTrade(c) /\ AtTrade(c)'
      BY <1>0, <1>4, WorksAlone DEF SendTrade, SendDump, Moves, AtTrade, TickTypeOK
    <2>2. Past(w, t) => Past(w, t)'
      BY <2>1 DEF Past, Held, Alone, AtTrade
    <2>3. Sent(w, t, k) => SendDump(c) /\ watch[c] = w /\ trade[c] = t
      BY <1>4, <2>1 DEF Sent, Alone, SendTrade, SendDump, Moves
    <2>4. SendDump(c) => at'[c] = "advance" /\ trade' = trade
      BY <1>0 DEF SendDump, Moves, TickTypeOK
    <2> QED
      BY <2>1, <2>2, <2>3, <2>4 DEF Spent, Sent
  <1>5. ASSUME NEW c \in Slots, Advance(c) PROVE Spent(w, t, k)'
    <2>1. Alone(c) /\ at[c] = "advance" /\ AtTrade(c)
      BY <1>0, <1>5, WorksAlone DEF Advance, AtTrade
    <2>2. PICK v \in Watches, x \in Trades : watch[c] = v /\ trade[c] = x
      BY <1>0, <2>1 DEF AtPoint, Knows, TickTypeOK
    <2>3. /\ cursor' = [cursor EXCEPT ![v] = x] /\ fresh'[c] = fresh[c] \ {x}
          /\ watch'[c] \in {v, NoWatch}
      BY <1>0, <1>5, <2>2 DEF Advance, AdvanceCursor, GoOn, TickTypeOK
    <2>4. Held(w, t)' => w = v /\ t \in fresh[c] /\ t # x
      BY <2>1, <2>3, TickAssumption DEF Held, Alone, AtTrade
    <2>5. CASE Sent(w, t, k)
      <3>1. w = v /\ t = x
        BY <2>1, <2>2, <2>5 DEF Sent, Alone
      <3>2. cursor'[w] = t
        BY <1>0, <2>3, <3>1 DEF TickTypeOK
      <3>3. TimeOf[t] <= TimeOf[t]
        BY TickAssumption
      <3> QED
        BY <2>4, <3>1, <3>2, <3>3 DEF Spent, Past
    <2>6. CASE Past(w, t)
      <3>1. ~Held(w, t)'
        BY <2>1, <2>2, <2>4, <2>6 DEF Past, Held
      <3>2. PICK s \in Trades : cursor[w] = s /\ TimeOf[t] <= TimeOf[s]
        BY <2>6 DEF Past
      <3>3. CASE w # v
        BY <1>0, <2>3, <3>1, <3>2, <3>3 DEF Spent, Past, TickTypeOK
      <3>4. CASE w = v
        <4>1. x \in fresh[c]
          BY <1>0, <2>1, <2>2 DEF AtPoint, Knows
        <4>2. TimeOf[s] <= TimeOf[x]
          BY <2>1, <2>2, <3>2, <3>4, <4>1 DEF Follows
        <4>3. TimeOf[t] <= TimeOf[x] /\ cursor'[w] = x
          BY <1>0, <2>3, <3>2, <3>4, <4>2, TickAssumption DEF TickTypeOK
        <4> QED
          BY <3>1, <4>3 DEF Spent, Past
      <3> QED
        BY <3>3, <3>4
    <2> QED
      BY <2>5, <2>6 DEF Spent
  <1> QED
    BY <1>1, <1>2, <1>3, <1>4, <1>5 DEF Works

\* The alert a step hands over had not been spent, and is then.
LEMMA HandingSpends ==
  ASSUME TickInv, OneCycle, NEW c \in Slots, SendTrade(c) \/ SendDump(c),
         NEW w \in Watches, NEW t \in Trades, NEW k \in Kinds, Hands(c, w, t, k)
  PROVE  ~Spent(w, t, k) /\ Spent(w, t, k)'
  <1>0. TickTypeOK /\ Alone(c)
    BY WorksAlone DEF TickInv
  <1>1. Held(w, t)
    BY DEF Hands, Held, AtTrade
  <1>2. ~Sent(w, t, k)
    BY <1>0 DEF Hands, Sent, Alone
  <1>3. watch'[c] = w
    BY DEF Hands, SendTrade, SendDump
  <1>4. Sent(w, t, k)'
    BY <1>3 DEF Hands, Sent
  <1> QED
    BY <1>1, <1>2, <1>4 DEF Spent, Past

LEMMA SparingStays ==
  ASSUME TickInv, TickTypeOK', [TickNext]_tickVars, OneCycle, \A c \in Slots : Follows(c),
         ~overlapped', Sparing
  PROVE  Sparing'
  <1>0. TickTypeOK /\ faults \in Nat /\ faults' \in Nat /\ \A a \in Alerts : told[a] \in Nat
    BY TickAssumption DEF TickInv, TickTypeOK
  <1>1. CASE Faulted
    BY <1>0, <1>1 DEF Faulted, Sparing
  <1>2. ASSUME told' = told, faults' = faults,
               \/ Quiet
               \/ \E c \in Slots : Start(c) \/ TakeWatch(c) \/ Fetch(c) \/ Advance(c) \/ Converge(c)
        PROVE  Sparing'
    <2>1. \A w \in Watches, t \in Trades, k \in Kinds : Spent(w, t, k) => Spent(w, t, k)'
      BY <1>2, SpentStays DEF Works
    <2> QED
      BY <1>2, <2>1 DEF Sparing
  <1>3. ASSUME NEW c \in Slots, SendTrade(c) \/ SendDump(c) PROVE Sparing'
    <2>1. PICK w \in Watches, t \in Trades, k \in Kinds : Hands(c, w, t, k)
      BY <1>3, Handing
    <2>2. ~Spent(w, t, k) /\ Spent(w, t, k)'
      BY <1>3, <2>1, HandingSpends
    <2>3. told'[<<w, t, k>>] = told[<<w, t, k>>] + 1 /\ told[<<w, t, k>>] <= faults
      BY <1>0, <2>1, <2>2, Handed DEF Hands, Sparing
    <2>4. faults' = faults
      BY <1>3 DEF SendTrade, SendDump
    <2>5. ASSUME NEW v \in Watches, NEW x \in Trades, NEW j \in Kinds, <<v, x, j>> \in Alerts
          PROVE  /\ told'[<<v, x, j>>] <= 1 + faults'
                 /\ ~Spent(v, x, j)' => told'[<<v, x, j>>] <= faults'
      <3>1. CASE <<v, x, j>> = <<w, t, k>>
        <4>1. v = w /\ x = t /\ j = k
          BY <3>1
        <4> QED
          BY <1>0, <2>1, <2>2, <2>3, <2>4, <4>1 DEF Hands
      <3>2. CASE <<v, x, j>> # <<w, t, k>>
        <4>1. told'[<<v, x, j>>] = told[<<v, x, j>>]
          BY <1>0, <2>1, <2>5, <3>2, Handed DEF Hands
        <4>2. Spent(v, x, j) => Spent(v, x, j)'
          BY <1>3, SpentStays DEF Works
        <4> QED
          BY <2>4, <2>5, <4>1, <4>2 DEF Sparing
      <3> QED
        BY <3>1, <3>2
    <2> QED
      BY <2>5 DEF Sparing
  <1>4. ASSUME \/ Quiet
               \/ \E c \in Slots : Start(c) \/ TakeWatch(c) \/ Fetch(c) \/ Advance(c) \/ Converge(c)
        PROVE  told' = told /\ faults' = faults
    BY <1>4 DEF Quiet, Start, TakeWatch, Fetch, Advance, Converge, sentVars
  <1> QED
    BY <1>1, <1>2, <1>3, <1>4, StepKinds DEF Works

---------------------------------------------------------------------------
(* Every convergence alert has buys of its own *)

\* A buy is told once, as it is no large sell.
LEMMA BuyTold ==
  ASSUME NEW a \in Told, a[2] \in Buys
  PROVE  /\ a = <<a[1], a[2], "TRADE">> /\ a[1] \in Watches /\ a[2] \in Trades
         /\ MadeBy[a[2]] = WalletOf[a[1]]
  <1>1. PICK w \in Watches, t \in Trades : a \in AlertsOf(w, t)
    BY DEF Told, Alerts
  <1>2. MadeBy[t] = WalletOf[w] /\ (a = <<w, t, "TRADE">> \/ (a = <<w, t, "DUMP">> /\ t \in LargeSells))
    BY <1>1 DEF AlertsOf
  <1> QED
    BY <1>2, TickAssumption

\* Nothing but the pass itself takes a closed buy back.
LEMMA ClosedGrows ==
  ASSUME TickInv, TickTypeOK', Grows, OneCycle, Sparing, faults = 0, ~overlapped',
         \A c \in Slots : Counted(c) /\ (at[c] = "idle" => bought[c] = {}), NEW p \in Pairs,
         Quiet \/ \E c \in Slots : Works(c)
  PROVE  Closed(p) \subseteq Closed(p)'
  <1>0. TickTypeOK /\ \A c \in Slots : AtPoint(c)
    BY DEF TickInv
  <1>1. ToldBuys(p) \subseteq ToldBuys(p)'
    BY DEF ToldBuys, Grows
  <1>2. SUFFICES ASSUME NEW w \in Watches, NEW t \in Trades, <<w, t, "TRADE">> \in Told,
                        t \in Buys, Open(w, t)'
                 PROVE  Open(w, t)
    <2>1. ASSUME NEW a \in Closed(p) PROVE a \in Closed(p)'
      <3>1. /\ a \in Told /\ a[2] \in Buys /\ a \in ToldBuys(p)' /\ ~Open(a[1], a[2])
            /\ a = <<a[1], a[2], "TRADE">> /\ a[1] \in Watches /\ a[2] \in Trades
        BY <1>1, BuyTold DEF Closed, ToldBuys
      <3>2. ~Open(a[1], a[2])'
        BY <1>2, <3>1
      <3> QED
        BY <3>1, <3>2 DEF Closed
    <2> QED
      BY <2>1
  <1>3. CASE Quiet
    BY <1>2, <1>3 DEF Quiet, Open
  <1>4. ASSUME NEW c \in Slots, Start(c) \/ TakeWatch(c) \/ Fetch(c) \/ Converge(c)
        PROVE  Open(w, t)
    <2>1. /\ at'[c] \notin {"dump", "advance"} /\ bought'[c] \subseteq bought[c]
          /\ \A d \in Slots : d # c => /\ at'[d] = at[d] /\ watch'[d] = watch[d]
                                       /\ bought'[d] = bought[d] /\ trade'[d] = trade[d]
      BY <1>0, <1>4 DEF Start, TakeWatch, Fetch, Converge, GoOn, Forget, Moves, TickTypeOK
    <2> QED
      BY <1>2, <2>1 DEF Open
  <1>5. ASSUME NEW c \in Slots, SendTrade(c) \/ SendDump(c) PROVE Open(w, t)
    <2>1. PICK v \in Watches, x \in Trades, k \in Kinds : Hands(c, v, x, k)
      BY <1>5, Handing
    <2>2. /\ bought' = bought /\ watch' = watch
          /\ \A d \in Slots : d # c => at'[d] = at[d] /\ trade'[d] = trade[d]
      BY <1>0, <1>5 DEF SendTrade, SendDump, Moves, TickTypeOK
    <2>3. CASE w = v /\ t = x
      <3>1. k = "TRADE"
        BY <1>2, <2>1, <2>3, TickAssumption DEF Hands
      <3>2. ~Spent(w, t, k)
        BY <1>5, <2>1, <2>3, HandingSpends
      <3>3. told[<<w, t, "TRADE">>] <= 0 /\ told[<<w, t, "TRADE">>] > 0
        BY <1>2, <2>1, <2>3, <3>1, <3>2 DEF Hands, Sparing, Told
      <3>4. told[<<w, t, "TRADE">>] \in Nat
        BY <1>0, <2>1, <2>3, <3>1 DEF Hands, TickTypeOK
      <3> QED
        BY <3>3, <3>4
    <2>4. CASE ~(w = v /\ t = x)
      BY <1>2, <2>1, <2>2, <2>4 DEF Hands, Open
    <2> QED
      BY <2>3, <2>4
  <1>6. ASSUME NEW c \in Slots, Advance(c) PROVE Open(w, t)
    <2>1. /\ at[c] = "advance" /\ at'[c] \in {"next", "trade"}
          /\ bought'[c] \subseteq bought[c] \cup {<<watch[c], trade[c]>>}
          /\ \A d \in Slots : d # c => /\ at'[d] = at[d] /\ watch'[d] = watch[d]
                                       /\ bought'[d] = bought[d] /\ trade'[d] = trade[d]
      BY <1>0, <1>6 DEF Advance, CountBuy, GoOn, TickTypeOK
    <2> QED
      BY <1>2, <2>1 DEF Open
  <1> QED
    BY <1>3, <1>4, <1>5, <1>6 DEF Works

\* The wallets of a convergence are no more than its buys.
LEMMA WalletsHaveBuys ==
  ASSUME NEW N, IsFiniteSet(N), NEW W,
         \A x \in W : \E a \in N : WalletOf[a[1]] = x,
         \A a \in N : WalletOf[a[1]] \in W
  PROVE  Cardinality(W) \in Nat /\ Cardinality(W) <= Cardinality(N)
  <1> DEFINE f == [a \in N |-> WalletOf[a[1]]]
  <1>1. f \in Surjection(N, W)
    BY DEF Surjection
  <1> QED
    BY <1>1, FS_Surjection, FS_CardinalityType

LEMMA PassPays ==
  ASSUME TickInv, TickTypeOK', Grows, OneCycle, IsFiniteSet(Told'), IsFiniteSet(Told),
         \A c \in Slots : Counted(c) /\ (at[c] = "idle" => bought[c] = {}),
         NEW c \in Slots, Converge(c), NEW p \in Pairs, p \in Convergences(c),
         Closed(p) \subseteq Closed(p)'
  PROVE  MinWallets + Cardinality(Closed(p)) <= Cardinality(Closed(p)')
  <1>0. TickTypeOK /\ Alone(c) /\ told' = told
    BY WorksAlone DEF TickInv, Converge
  <1> DEFINE agg == Aggregate(c, p)
             N == {<<b[1], b[2], "TRADE">> : b \in agg}
             W == {WalletOf[b[1]] : b \in agg}
  <1>1. \A b \in agg : /\ b \in bought[c] /\ b = <<b[1], b[2]>> /\ b[2] \in Buys
                       /\ <<b[1], b[2], "TRADE">> \in Told
                       /\ UserOf[b[1]] = p[1] /\ TokenOf[b[2]] = p[2]
    <2>1. \A b \in bought[c] : b = <<b[1], b[2]>>
      BY <1>0 DEF TickTypeOK
    <2>2. \A b \in agg : b \in bought[c] /\ UserOf[b[1]] = p[1] /\ TokenOf[b[2]] = p[2]
      BY DEF Aggregate
    <2>3. \A b \in bought[c] : b[2] \in Buys /\ <<b[1], b[2], "TRADE">> \in Told
      BY DEF Counted
    <2> HIDE DEF agg
    <2> QED
      BY <2>1, <2>2, <2>3
  <1>2. N \subseteq ToldBuys(p)
    BY <1>1 DEF ToldBuys
  <1>3. \A a \in N : Open(a[1], a[2])
    BY <1>1 DEF Open
  <1>4. \A d \in Slots : at'[d] = "idle" /\ bought'[d] = {}
    BY <1>0 DEF Converge, Forget, Moves, Alone, TickTypeOK
  <1>5. ToldBuys(p) \subseteq Closed(p)'
    BY <1>0, <1>4 DEF ToldBuys, Told, Closed, Open
  <1>6. IsFiniteSet(Closed(p)') /\ IsFiniteSet(N) /\ IsFiniteSet(Closed(p))
    <2>1. Closed(p)' \subseteq Told' /\ N \subseteq Told /\ Closed(p) \subseteq Told
      BY <1>2 DEF Closed, ToldBuys
    <2> QED
      BY <2>1, FS_Subset
  <1>7. N \cap Closed(p) = {}
    BY <1>3 DEF Closed
  <1>8. Cardinality(N) + Cardinality(Closed(p)) <= Cardinality(Closed(p)')
    <2>1. N \cup Closed(p) \subseteq Closed(p)'
      BY <1>2, <1>5
    <2>2. /\ IsFiniteSet(N \cup Closed(p))
          /\ Cardinality(N \cup Closed(p)) =
               Cardinality(N) + Cardinality(Closed(p)) - Cardinality(N \cap Closed(p))
      BY <1>6, FS_Union
    <2>3. Cardinality(N \cap Closed(p)) = 0
      BY <1>7, FS_EmptySet
    <2>4. Cardinality(N \cup Closed(p)) <= Cardinality(Closed(p)')
      BY <1>6, <2>1, FS_Subset
    <2>5. Cardinality(N) \in Nat /\ Cardinality(Closed(p)) \in Nat
      BY <1>6, FS_CardinalityType
    <2> QED
      BY <2>2, <2>3, <2>4, <2>5
  <1>9. Cardinality(W) >= MinWallets
    BY DEF Convergences, Converging
  <1>10. Cardinality(W) \in Nat /\ Cardinality(W) <= Cardinality(N)
    <2>1. \A x \in W : \E a \in N : WalletOf[a[1]] = x
      <3>1. ASSUME NEW b \in agg PROVE \E a \in N : WalletOf[a[1]] = WalletOf[b[1]]
        <4> WITNESS <<b[1], b[2], "TRADE">> \in N
        <4> QED
          OBVIOUS
      <3> QED
        BY <3>1
    <2>2. \A a \in N : WalletOf[a[1]] \in W
      OBVIOUS
    <2> HIDE DEF N, W
    <2> QED
      BY <1>6, <2>1, <2>2, WalletsHaveBuys
  <1>11. /\ MinWallets \in Nat /\ Cardinality(N) \in Nat
         /\ Cardinality(Closed(p)) \in Nat /\ Cardinality(Closed(p)') \in Nat
    BY <1>6, FS_CardinalityType, TickAssumption
  <1> HIDE DEF N, W
  <1> QED
    BY <1>8, <1>9, <1>10, <1>11

LEMMA PaidStays ==
  ASSUME TickInv, TickTypeOK', Grows, [TickNext]_tickVars, SoloInv, IsFiniteSet(Told'),
         ~overlapped, ~overlapped', faults' = 0, NEW p \in Pairs
  PROVE  MinWallets * claims'[p] <= Cardinality(Closed(p)')
  <1>0. TickTypeOK /\ claims[p] \in Nat /\ claims'[p] \in Nat /\ MinWallets \in Nat
    BY TickAssumption DEF TickInv, TickTypeOK
  <1>1. ~Faulted
    BY <1>0 DEF Faulted, TickTypeOK
  <1>2. \/ Quiet
        \/ \E c \in Slots : Works(c)
    BY <1>1, StepKinds
  <1>3. faults = 0
    BY <1>2 DEF Quiet, Start, TakeWatch, Fetch, SendTrade, SendDump, Advance, Converge, Works
  <1>4. /\ OneCycle /\ Sparing /\ IsFiniteSet(Told)
        /\ MinWallets * claims[p] <= Cardinality(Closed(p))
        /\ \A c \in Slots : Counted(c) /\ (at[c] = "idle" => bought[c] = {})
    BY <1>3 DEF SoloInv, Counted
  <1>5. Closed(p) \subseteq Closed(p)'
    BY <1>2, <1>3, <1>4, ClosedGrows
  <1>6. /\ Cardinality(Closed(p)) \in Nat /\ Cardinality(Closed(p)') \in Nat
        /\ Cardinality(Closed(p)) <= Cardinality(Closed(p)')
    <2>1. IsFiniteSet(Closed(p)') /\ IsFiniteSet(Closed(p))
      <3>1. Closed(p)' \subseteq Told' /\ Closed(p) \subseteq Told
        BY DEF Closed, ToldBuys
      <3> QED
        BY <1>4, <3>1, FS_Subset
    <2> QED
      BY <1>5, <2>1, FS_CardinalityType, FS_Subset
  <1>7. CASE claims'[p] = claims[p]
    BY <1>4, <1>6, <1>7, <1>0
  <1>8. ASSUME NEW c \in Slots, Converge(c), claims'[p] # claims[p]
        PROVE  MinWallets * claims'[p] <= Cardinality(Closed(p)')
    <2>1. p \in Convergences(c) /\ claims'[p] = claims[p] + 1
      BY <1>0, <1>8 DEF Converge, Claim
    <2>2. MinWallets + Cardinality(Closed(p)) <= Cardinality(Closed(p)')
      BY <1>4, <1>5, <1>8, <2>1, PassPays
    <2>3. \A m, k \in Nat : m * (k + 1) = m * k + m /\ m * k \in Nat
      OBVIOUS
    <2> QED
      BY <1>0, <1>4, <1>6, <2>1, <2>2, <2>3
  <1>9. ASSUME \/ Quiet
               \/ \E c \in Slots : Start(c) \/ TakeWatch(c) \/ Fetch(c) \/ SendTrade(c)
                                   \/ SendDump(c) \/ Advance(c)
        PROVE  claims' = claims
    BY <1>9 DEF Quiet, Start, TakeWatch, Fetch, SendTrade, SendDump, Send, Advance, sentVars
  <1> QED
    BY <1>2, <1>7, <1>8, <1>9 DEF Works

LEMMA SoloSafe == TickInv /\ SoloInv /\ [TickNext]_tickVars => SoloInv'
  <1> SUFFICES ASSUME TickInv, SoloInv, [TickNext]_tickVars PROVE SoloInv'
    OBVIOUS
  <1>1. TickTypeOK' /\ Grows
    BY TickTyped, AlwaysGrows
  <1>2. ~overlapped' => ~overlapped
    BY StepKinds DEF Quiet, Faulted, Start, TakeWatch, Fetch, SendTrade, SendDump, Advance, Converge, Works
  <1>3. IsFiniteSet(Told')
    BY ToldFinite DEF SoloInv
  <1>4. \A c \in Slots : Counted(c)'
    BY <1>1, <1>2, CountedStays DEF SoloInv
  <1>5. ASSUME ~overlapped'
        PROVE  /\ OneCycle' /\ Sparing'
               /\ \A c \in Slots : Follows(c)'
               /\ faults' = 0 => \A p \in Pairs :
                                   MinWallets * claims'[p] <= Cardinality(Closed(p)')
    <2>1. OneCycle /\ Sparing /\ (\A c \in Slots : Follows(c)) /\ TickTypeOK
      BY <1>2, <1>5 DEF SoloInv, TickInv
    <2>2. OneCycle'
      BY <1>5, <2>1, Ordered
    <2>3. Sparing'
      BY <1>1, <1>5, <2>1, SparingStays
    <2>4. \A c \in Slots : Follows(c)'
      BY <1>1, <1>5, <2>1, FollowsStays
    <2> QED
      BY <1>1, <1>2, <1>3, <1>5, <2>2, <2>3, <2>4, PaidStays
  <1> QED
    BY <1>3, <1>4, <1>5 DEF SoloInv

LEMMA SoloInit == TickInit => SoloInv
  <1> SUFFICES ASSUME TickInit PROVE SoloInv
    OBVIOUS
  <1>1. Told = {}
    BY DEF TickInit, Told
  <1>2. IsFiniteSet(Told)
    BY <1>1, FS_EmptySet
  <1>3. (\A c \in Slots : Counted(c) /\ Follows(c)) /\ OneCycle
    BY DEF TickInit, Counted, Follows, OneCycle, AtTrade
  <1>4. Sparing
    BY DEF TickInit, Sparing
  <1>5. ASSUME NEW p \in Pairs PROVE MinWallets * claims[p] <= Cardinality(Closed(p))
    <2>1. Closed(p) = {}
      BY <1>1 DEF Closed, ToldBuys
    <2>2. Cardinality(Closed(p)) = 0 /\ claims[p] = 0
      BY <2>1, FS_EmptySet DEF TickInit
    <2> QED
      BY <2>2, TickAssumption
  <1> QED
    BY <1>2, <1>3, <1>4, <1>5 DEF SoloInv

\* While no two cycles overlap, runWalletWatchTick repeats an alert only for a
\* fault; and without one each convergence alert has the buys of enough
\* wallets for itself.
THEOREM RepeatsAreExplained == TickSpec => []RepeatsNeedFaults
  <1>1. TickInv /\ SoloInv => RepeatsNeedFaults
    <2> SUFFICES ASSUME TickInv, SoloInv, ~overlapped
                 PROVE  /\ \A a \in Alerts : told[a] <= 1 + faults
                        /\ faults = 0 => \A p \in Pairs :
                             MinWallets * claims[p] <= Cardinality(ToldBuys(p))
      BY DEF RepeatsNeedFaults, ToldBuys
    <2>1. ASSUME NEW a \in Alerts PROVE told[a] <= 1 + faults
      <3>1. PICK w \in Watches, t \in Trades : a \in AlertsOf(w, t)
        BY DEF Alerts
      <3>2. PICK k \in Kinds : a = <<w, t, k>>
        BY <3>1 DEF AlertsOf, Kinds
      <3> QED
        BY <3>2 DEF SoloInv, Sparing
    <2>2. ASSUME faults = 0, NEW p \in Pairs
          PROVE  MinWallets * claims[p] <= Cardinality(ToldBuys(p))
      <3>1. MinWallets * claims[p] <= Cardinality(Closed(p))
        BY <2>2 DEF SoloInv
      <3>2. ToldBuys(p) \subseteq Told /\ Closed(p) \subseteq ToldBuys(p)
        BY DEF ToldBuys, Closed
      <3>3. IsFiniteSet(ToldBuys(p)) /\ IsFiniteSet(Closed(p))
        BY <3>2, FS_Subset DEF SoloInv
      <3>4. /\ Cardinality(Closed(p)) <= Cardinality(ToldBuys(p))
            /\ Cardinality(Closed(p)) \in Nat /\ Cardinality(ToldBuys(p)) \in Nat
        BY <3>2, <3>3, FS_Subset, FS_CardinalityType
      <3>5. MinWallets * claims[p] \in Nat
        BY TickAssumption DEF TickInv, TickTypeOK
      <3> QED
        BY <3>1, <3>4, <3>5
    <2> QED
      BY <2>1, <2>2
  <1> QED
    BY <1>1, TickInitSafe, SoloInit, TickSafe, SoloSafe, PTL DEF TickSpec
=============================================================================
