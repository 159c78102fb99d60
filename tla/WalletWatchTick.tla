-------------------------- MODULE WalletWatchTick --------------------------
(***************************************************************************)
(* The wallet-watch cycle of the tick engine (runWalletWatchTick) with the *)
(* store it reads and writes.  POST /internal/tick starts a cycle in the   *)
(* background and answers at once, so a cycle may start while another is   *)
(* still running; the process may die in the middle of any of them.        *)
(*                                                                         *)
(* A trade stands for one row of the wallet's feed: its signature, time,   *)
(* side, token and size are constant functions of it.                      *)
(***************************************************************************)
EXTENDS Naturals, FiniteSets

CONSTANTS
    Slots,          \* cycles that may run at once
    Watches,
    Users,
    UserOf,         \* [Watches -> Users]
    WalletOf,       \* [Watches -> wallets]
    Trades,
    MadeBy,         \* [Trades -> wallets]
    TimeOf,         \* [Trades -> Nat], in seconds
    Buys,           \* the trades whose side is "buy"
    TokenOf,        \* [Trades -> tokens]
    LargeSells,     \* sells at or above dumpUsdThreshold
    MinWallets,     \* convergenceMinWallets
    Window,         \* convergenceWindowMs
    Ending,         \* watches that may be cancelled or expire (bounds the instance)
    MaxFaults,      \* bound on exceptions and crashes
    NoTrade,
    NoWatch

ASSUME TickAssumption ==
    /\ UserOf \in [Watches -> Users]
    /\ TimeOf \in [Trades -> Nat]
    /\ LargeSells \subseteq Trades \ Buys
    /\ MinWallets \in Nat
    /\ Ending \subseteq Watches
    /\ Window \in Nat
    /\ MaxFaults \in Nat
    /\ NoTrade \notin Trades
    /\ NoWatch \notin Watches

VARIABLES
    feed,       \* trades the provider shows by now
    active,     \* watches that are ACTIVE and in their period
    cursor,     \* wallet_watch_cursor: last event by watch, or NoTrade
    at,         \* where each cycle is
    todo,       \* watches the cycle has not taken up
    watch,      \* the watch it is at
    seen,       \* the cursor it read for it
    fresh,      \* trades it has still to alert on
    trade,      \* the trade it is alerting on
    bought,     \* convAgg: <<watch, trade>> of the buys it counted
    told,       \* [Alerts -> Nat]: how often each alert was handed to the channel
    claims,     \* [Pairs -> Nat]: convergence alerts by user and token
    overlapped, \* history: two cycles have run at once
    faults

cycleVars == <<at, todo, watch, seen, fresh, trade, bought>>
sentVars  == <<told, claims>>
tickVars  == <<feed, active, cursor, at, todo, watch, seen, fresh, trade, bought,
               told, claims, overlapped, faults>>

\* One alert per trade of a watched wallet, a second one for a large sell.
AlertsOf(w, t) ==
    IF MadeBy[t] # WalletOf[w] THEN {}
    ELSE {<<w, t, "TRADE">>} \cup (IF t \in LargeSells THEN {<<w, t, "DUMP">>} ELSE {})

Alerts == UNION {AlertsOf(w, t) : w \in Watches, t \in Trades}

Pairs == Users \X {TokenOf[t] : t \in Trades}

Points == {"idle", "next", "fetch", "trade", "dump", "advance"}

TickTypeOK ==
    /\ feed \subseteq Trades
    /\ active \subseteq Watches
    /\ cursor \in [Watches -> Trades \cup {NoTrade}]
    /\ at \in [Slots -> Points]
    /\ todo \in [Slots -> SUBSET Watches]
    /\ watch \in [Slots -> Watches \cup {NoWatch}]
    /\ seen \in [Slots -> Trades \cup {NoTrade}]
    /\ fresh \in [Slots -> SUBSET Trades]
    /\ trade \in [Slots -> Trades \cup {NoTrade}]
    /\ bought \in [Slots -> SUBSET (Watches \X Trades)]
    /\ told \in [Alerts -> Nat]
    /\ claims \in [Pairs -> Nat]
    /\ overlapped \in BOOLEAN
    /\ faults \in 0..MaxFaults

TickInit ==
    /\ feed = {}
    /\ active = Watches
    /\ cursor = [w \in Watches |-> NoTrade]
    /\ at = [c \in Slots |-> "idle"]
    /\ todo = [c \in Slots |-> {}]
    /\ watch = [c \in Slots |-> NoWatch]
    /\ seen = [c \in Slots |-> NoTrade]
    /\ fresh = [c \in Slots |-> {}]
    /\ trade = [c \in Slots |-> NoTrade]
    /\ bought = [c \in Slots |-> {}]
    /\ told = [a \in Alerts |-> 0]
    /\ claims = [p \in Pairs |-> 0]
    /\ overlapped = FALSE
    /\ faults = 0

Moves(c, from, to) == at[c] = from /\ at' = [at EXCEPT ![c] = to]

---------------------------------------------------------------------------
(* Around the cycle *)

\* The provider shows trades in the order of their time; trades of one second
\* may show up one after the other.
Publish(t) ==
    /\ t \notin feed
    /\ \A s \in Trades : MadeBy[s] = MadeBy[t] /\ TimeOf[s] < TimeOf[t] => s \in feed
    /\ feed' = feed \cup {t}
    /\ UNCHANGED <<active, cursor, cycleVars, sentVars, overlapped, faults>>

\* cancel, and the end of the period.
Deactivate(w) ==
    /\ w \in active \cap Ending
    /\ active' = active \ {w}
    /\ UNCHANGED <<feed, cursor, cycleVars, sentVars, overlapped, faults>>

\* subscribe for the same user, chain and wallet: renewed under the old id.
Renew(w) ==
    /\ w \notin active
    /\ active' = active \cup {w}
    /\ UNCHANGED <<feed, cursor, cycleVars, sentVars, overlapped, faults>>

---------------------------------------------------------------------------
(* The cycle *)

Start(c) ==
    /\ Moves(c, "idle", "next")
    /\ todo' = [todo EXCEPT ![c] = active]
    /\ overlapped' = (overlapped \/ \E d \in Slots : at[d] # "idle")
    /\ UNCHANGED <<feed, active, cursor, watch, seen, fresh, trade, bought, sentVars, faults>>

\* The next watch, and its cursor as it is now.
TakeWatch(c) ==
    /\ Moves(c, "next", "fetch")
    /\ \E w \in todo[c] :
        /\ todo' = [todo EXCEPT ![c] = @ \ {w}]
        /\ watch' = [watch EXCEPT ![c] = w]
        /\ seen' = [seen EXCEPT ![c] = cursor[w]]
    /\ UNCHANGED <<feed, active, cursor, fresh, trade, bought, sentVars, overlapped, faults>>

\* With no trade left the loop goes on to the next watch at once.
GoOn(c, left) ==
    /\ fresh' = [fresh EXCEPT ![c] = left]
    /\ at' = [at EXCEPT ![c] = IF left = {} THEN "next" ELSE "trade"]
    /\ watch' = [watch EXCEPT ![c] = IF left = {} THEN NoWatch ELSE @]

\* Mutant: not older than the cursor.
NotOlder(t, last) == last = NoTrade \/ TimeOf[t] >= TimeOf[last]

\* Strictly newer than the cursor, and not the event it names.
Newer(t, last) == last = NoTrade \/ TimeOf[t] > TimeOf[last]

Fetch(c) ==
    /\ at[c] = "fetch"
    /\ GoOn(c, {t \in feed : MadeBy[t] = WalletOf[watch[c]] /\ Newer(t, seen[c])})
    /\ seen' = [seen EXCEPT ![c] = NoTrade]
    /\ UNCHANGED <<feed, active, cursor, todo, trade, bought, sentVars,
                   overlapped, faults>>

\* deliver answers delivered or not, and nothing reacts to the difference.
Send(w, t, kind) ==
    /\ told' = [told EXCEPT ![<<w, t, kind>>] = @ + 1]
    /\ UNCHANGED claims

\* Mutant: the feed's order, newest first.
SendNewest(c) ==
    /\ at[c] = "trade"
    /\ \E t \in fresh[c] :
        /\ \A s \in fresh[c] : TimeOf[t] >= TimeOf[s]
        /\ trade' = [trade EXCEPT ![c] = t]
        /\ Send(watch[c], t, "TRADE")
        /\ at' = [at EXCEPT ![c] = IF t \in LargeSells THEN "dump" ELSE "advance"]
    /\ UNCHANGED <<feed, active, cursor, todo, watch, seen, fresh, bought, overlapped, faults>>

\* The oldest fresh trade; the order within a second is that of the feed.
SendTrade(c) ==
    /\ at[c] = "trade"
    /\ \E t \in fresh[c] :
        /\ \A s \in fresh[c] : TimeOf[t] <= TimeOf[s]
        /\ trade' = [trade EXCEPT ![c] = t]
        /\ Send(watch[c], t, "TRADE")
        /\ at' = [at EXCEPT ![c] = IF t \in LargeSells THEN "dump" ELSE "advance"]
    /\ UNCHANGED <<feed, active, cursor, todo, watch, seen, fresh, bought, overlapped, faults>>

SendDump(c) ==
    /\ Moves(c, "dump", "advance")
    /\ Send(watch[c], trade[c], "DUMP")
    /\ UNCHANGED <<feed, active, cursor, todo, watch, seen, fresh, trade, bought,
                   overlapped, faults>>

CountBuy(c) ==
    bought' = [bought EXCEPT ![c] = IF trade[c] \in Buys
                                    THEN @ \cup {<<watch[c], trade[c]>>} ELSE @]

\* Mutant: the cursor jumps to the newest trade of the feed.
AdvanceToNewest(w, t) ==
    \E s \in feed :
        /\ MadeBy[s] = MadeBy[t]
        /\ \A x \in feed : MadeBy[x] = MadeBy[t] => TimeOf[x] <= TimeOf[s]
        /\ cursor' = [cursor EXCEPT ![w] = s]

AdvanceCursor(w, t) == cursor' = [cursor EXCEPT ![w] = t]

\* A buy counts for convergence; then the cursor is overwritten, whatever it is.
Advance(c) ==
    /\ at[c] = "advance"
    /\ CountBuy(c)
    /\ AdvanceCursor(watch[c], trade[c])
    /\ GoOn(c, fresh[c] \ {trade[c]})
    /\ trade' = [trade EXCEPT ![c] = NoTrade]
    /\ UNCHANGED <<feed, active, todo, seen, sentVars, overlapped, faults>>

\* The buys of one user and token in this cycle, if they make a convergence.
Aggregate(c, p) == {b \in bought[c] : UserOf[b[1]] = p[1] /\ TokenOf[b[2]] = p[2]}

Converging(buys) ==
    /\ Cardinality({WalletOf[b[1]] : b \in buys}) >= MinWallets
    /\ \A a, b \in buys : TimeOf[a[2]] <= TimeOf[b[2]] + Window

Convergences(c) == {p \in Pairs : Converging(Aggregate(c, p))}

Claim(ps) == claims' = [p \in Pairs |-> claims[p] + IF p \in ps THEN 1 ELSE 0]

Forget(c) ==
    /\ todo' = [todo EXCEPT ![c] = {}]
    /\ watch' = [watch EXCEPT ![c] = NoWatch]
    /\ seen' = [seen EXCEPT ![c] = NoTrade]
    /\ fresh' = [fresh EXCEPT ![c] = {}]
    /\ trade' = [trade EXCEPT ![c] = NoTrade]
    /\ bought' = [bought EXCEPT ![c] = {}]

\* No watch left: one convergence alert after the other, and the cycle ends.
Converge(c) ==
    /\ todo[c] = {}
    /\ Moves(c, "next", "idle")
    /\ Claim(Convergences(c))
    /\ Forget(c)
    /\ UNCHANGED <<feed, active, cursor, told, overlapped, faults>>

---------------------------------------------------------------------------
(* What may go wrong *)

Fault == faults < MaxFaults /\ faults' = faults + 1

\* An exception of the store or of the channel's chat lookup: the try around a
\* watch drops the rest of its trades.  A failing advance may still have
\* written the cursor, and its buy has been counted.
WatchFails(c) ==
    /\ Fault
    /\ at[c] \in {"fetch", "trade", "dump", "advance"}
    /\ at' = [at EXCEPT ![c] = "next"]
    /\ IF at[c] = "advance"
       THEN CountBuy(c) /\ (AdvanceCursor(watch[c], trade[c]) \/ UNCHANGED cursor)
       ELSE UNCHANGED <<bought, cursor>>
    /\ watch' = [watch EXCEPT ![c] = NoWatch]
    /\ seen' = [seen EXCEPT ![c] = NoTrade]
    /\ fresh' = [fresh EXCEPT ![c] = {}]
    /\ trade' = [trade EXCEPT ![c] = NoTrade]
    /\ UNCHANGED <<feed, active, todo, sentVars, overlapped>>

\* The provider fails: the fetcher answers with no trades.
FetchFails(c) ==
    /\ Fault
    /\ at[c] = "fetch"
    /\ GoOn(c, {})
    /\ seen' = [seen EXCEPT ![c] = NoTrade]
    /\ UNCHANGED <<feed, active, cursor, todo, trade, bought, sentVars, overlapped>>

\* Nothing catches an exception of the convergence pass: the rest is not sent.
ConvergeFails(c) ==
    /\ Fault
    /\ todo[c] = {}
    /\ Moves(c, "next", "idle")
    /\ \E some \in SUBSET Convergences(c) : Claim(some)
    /\ Forget(c)
    /\ UNCHANGED <<feed, active, cursor, told, overlapped>>

\* The host stops the process; the next ping starts a new one.
Crash ==
    /\ Fault
    /\ \E c \in Slots : at[c] # "idle"
    /\ at' = [c \in Slots |-> "idle"]
    /\ todo' = [c \in Slots |-> {}]
    /\ watch' = [c \in Slots |-> NoWatch]
    /\ seen' = [c \in Slots |-> NoTrade]
    /\ fresh' = [c \in Slots |-> {}]
    /\ trade' = [c \in Slots |-> NoTrade]
    /\ bought' = [c \in Slots |-> {}]
    /\ UNCHANGED <<feed, active, cursor, sentVars, overlapped>>

CycleStep(c) ==
    \/ TakeWatch(c) \/ Fetch(c) \/ SendTrade(c) \/ SendDump(c) \/ Advance(c)
    \/ Converge(c)

TickNext ==
    \/ \E t \in Trades : Publish(t)
    \/ \E w \in Watches : Deactivate(w) \/ Renew(w)
    \/ \E c \in Slots : Start(c) \/ CycleStep(c)
    \/ \E c \in Slots : WatchFails(c) \/ FetchFails(c) \/ ConvergeFails(c)
    \/ Crash

TickSpec == TickInit /\ [][TickNext]_tickVars

\* The cron keeps pinging and a cycle that runs goes on.
TickFairSpec ==
    TickSpec /\ \A c \in Slots : WF_tickVars(Start(c) \/ CycleStep(c))

---------------------------------------------------------------------------
(* Properties *)

Told == {a \in Alerts : told[a] > 0}

\* A trade of the watched wallet in the second of t was alerted on.
Covered(w, t) ==
    \E s \in feed : MadeBy[s] = MadeBy[t] /\ TimeOf[s] = TimeOf[t] /\ AlertsOf(w, s) \subseteq Told

\* The cursor never passes a second no alert was tried for, although it is read
\* before the fetch and overwritten blindly by overlapping cycles: it names a
\* trade that had every alert it calls for, and whatever the wallet traded
\* before, unless it shares its second with a trade that did, had as well.
NothingSkipped ==
    \A w \in Watches :
        cursor[w] # NoTrade =>
            /\ AlertsOf(w, cursor[w]) \subseteq Told
            /\ \A t \in feed :
                 MadeBy[t] = WalletOf[w] /\ TimeOf[t] <= TimeOf[cursor[w]] => Covered(w, t)

\* As long as cycles do not overlap, an alert is repeated only for an exception
\* or a crash; and without one each convergence alert stands for buys of its own,
\* by enough wallets, that no earlier one counted.
RepeatsNeedFaults ==
    ~overlapped =>
        /\ \A a \in Alerts : told[a] <= 1 + faults
        /\ faults = 0 =>
             \A p \in Pairs :
                MinWallets * claims[p] <=
                    Cardinality({a \in Told : /\ a[2] \in Buys
                                              /\ UserOf[a[1]] = p[1]
                                              /\ TokenOf[a[2]] = p[2]})

\* Every trade of a watched wallet is alerted on, unless the watch ends or
\* another trade of the same second was.
TradesAreAlerted ==
    \A t \in Trades : t \in feed ~>
        \A w \in {x \in Watches : WalletOf[x] = MadeBy[t]} :
            \/ w \notin active
            \/ \E s \in Trades : /\ MadeBy[s] = MadeBy[t] /\ TimeOf[s] = TimeOf[t]
                                /\ AlertsOf(w, s) \subseteq Told
=============================================================================
