---------------------------- MODULE FounderTick ----------------------------
(***************************************************************************)
(* The RECEIVED detector of the founder wallet (runFounderReceivedTick):   *)
(* list what the public wallet holds, compare with the snapshot in the     *)
(* database, verify what is new, record it once and broadcast it to the    *)
(* followers.  Cycles overlap, since a ping starts one in the background,  *)
(* and no two awaits of a cycle are atomic, the snapshot's neither.        *)
(*                                                                         *)
(* A transfer is a pair <<mint, n>>: the n-th time the wallet received the *)
(* mint.  The n stands for the transaction hash.                           *)
(***************************************************************************)
EXTENDS Naturals, FiniteSets

CONSTANTS
    Slots,        \* cycles that may run at once
    Mints,
    Held,         \* mints in the wallet when tracking begins
    Transferable, \* mints that came by transfer; the others were bought
    Fans,         \* users who may follow the wallet
    MaxReceipts,  \* bound on transfers of one mint
    Window,       \* EVM: the newest transfers that the provider names
    MaxFaults,    \* bound on exceptions, failing providers and crashes
    NoMint

ASSUME FounderAssumption ==
    /\ Held \subseteq Mints
    /\ Transferable \subseteq Mints
    /\ MaxReceipts \in Nat \ {0}
    /\ Window \in Nat \ {0}
    /\ MaxFaults \in Nat
    /\ NoMint \notin Mints

VARIABLES
    direct,     \* EVM: the provider names sender and transaction (directInbound)
    holds,      \* mints the wallet holds
    receipts,   \* [Mints -> Nat]: how often each came in
    later,      \* EVM: transfers since the newest of each mint, up to Window
    sold,       \* history: mints that left the wallet
    obscured,   \* history: mints that the look-up did not reach
    followers,  \* founder_followers
    known,      \* founder_wallet_tokens
    events,     \* founder_wallet_events: the transfers recorded
    told,       \* [Fans \X Transfers -> Nat]: broadcasts by user and transfer
    fpc,        \* where each cycle is
    listed,     \* mints the provider listed
    existing,   \* the snapshot the cycle read
    left,       \* mints it has still to upsert, then: new mints to look at
    inbound,    \* the transfers directInbound named
    mint,       \* the mint it is at
    tx,         \* its newest transfer
    aired,      \* history: transfers broadcast, to whoever followed then
    baseline,   \* history: mints a cycle took up without a snapshot before it
    mishaps

Transfers == Mints \X (1..MaxReceipts)

walletVars  == <<direct, holds, receipts, later, sold>>
founderRows == <<followers, known, events, told, aired>>
founderCycle == <<fpc, listed, existing, left, inbound, mint, tx>>
founderVars == <<direct, holds, receipts, later, sold, obscured, followers, known, events, told,
                 fpc, listed, existing, left, inbound, mint, tx, aired, baseline, mishaps>>

\* Behind as many later transfers as the provider names.
Buried == {m \in Mints : direct /\ receipts[m] > 0 /\ later[m] = Window}

FounderInit ==
    /\ direct \in BOOLEAN
    /\ holds = Held
    /\ receipts = [m \in Mints |-> IF m \in Held THEN 1 ELSE 0]
    /\ later \in [Mints -> 0..Window]
    /\ \A m \in Mints : later[m] > 0 => direct /\ m \in Held
    /\ \A m, x \in Held : direct /\ m # x /\ later[m] = later[x] => later[m] = Window
    /\ obscured = Buried
    /\ sold = {}
    /\ followers = {}
    /\ known = {}
    /\ events = {}
    /\ told = [x \in Fans \X Transfers |-> 0]
    /\ fpc = [c \in Slots |-> "idle"]
    /\ listed = [c \in Slots |-> {}]
    /\ existing = [c \in Slots |-> {}]
    /\ left = [c \in Slots |-> {}]
    /\ inbound = [c \in Slots |-> {}]
    /\ mint = [c \in Slots |-> NoMint]
    /\ tx = [c \in Slots |-> 0]
    /\ aired = {}
    /\ baseline = {}
    /\ mishaps = 0

Step(c, from, to) == fpc[c] = from /\ fpc' = [fpc EXCEPT ![c] = to]

Mishap == mishaps < MaxFaults /\ mishaps' = mishaps + 1

\* Everything but what a cycle is doing and the database.
Around == UNCHANGED <<walletVars, obscured, followers>>

---------------------------------------------------------------------------
(* The wallet and its followers *)

\* A transfer of m is later than those of the other mints.
Later(m, x) ==
    IF ~direct \/ x = m \/ receipts[x] = 0 THEN 0
    ELSE IF later[x] = Window THEN Window ELSE later[x] + 1

Receive(m) ==
    /\ receipts[m] < MaxReceipts
    /\ holds' = holds \cup {m}
    /\ receipts' = [receipts EXCEPT ![m] = @ + 1]
    /\ later' = [x \in Mints |-> Later(m, x)]
    /\ UNCHANGED <<direct, sold, founderRows, founderCycle, baseline, mishaps>>
    /\ obscured' = obscured \cup Buried'

Sell(m) ==
    /\ m \in holds
    /\ holds' = holds \ {m}
    /\ sold' = sold \cup {m}
    /\ UNCHANGED <<direct, receipts, later, obscured, founderRows, founderCycle, baseline, mishaps>>

\* POST /founder/follow and /founder/unfollow, both idempotent.
Follow(u) ==
    /\ followers' = followers \cup {u}
    /\ UNCHANGED <<walletVars, obscured, known, events, told, aired, founderCycle, baseline, mishaps>>

Unfollow(u) ==
    /\ followers' = followers \ {u}
    /\ UNCHANGED <<walletVars, obscured, known, events, told, aired, founderCycle, baseline, mishaps>>

---------------------------------------------------------------------------
(* The cycle *)

BeginFounder(c) ==
    /\ Step(c, "idle", "list")
    /\ UNCHANGED <<walletVars, obscured, founderRows, listed, existing, left, inbound, mint, tx,
                   baseline, mishaps>>

\* A provider that fails answers with no mints.
List(c) ==
    /\ Step(c, "list", "read")
    /\ \/ listed' = [listed EXCEPT ![c] = holds] /\ UNCHANGED mishaps
       \/ listed' = [listed EXCEPT ![c] = {}] /\ Mishap
    /\ UNCHANGED <<founderRows, existing, left, inbound, mint, tx, baseline>>
    /\ Around

\* knownMints; with nothing listed there is nothing new either.
ReadKnown(c) ==
    /\ fpc[c] = "read"
    /\ fpc' = [fpc EXCEPT ![c] = IF listed[c] = {} THEN "end" ELSE "upsert"]
    /\ existing' = [existing EXCEPT ![c] = IF listed[c] = {} THEN {} ELSE known]
    /\ left' = [left EXCEPT ![c] = listed[c]]
    /\ UNCHANGED <<founderRows, listed, inbound, mint, tx, baseline, mishaps>>
    /\ Around

\* Mutant: new is what the table lacks now.
NewMintsNow(c) == listed[c] \ (known \cup left[c])

\* A cycle that found no snapshot reports nothing as new.
NewMints(c) == IF existing[c] = {} THEN {} ELSE listed[c] \ existing[c]

\* One upsert per mint; mints that left the wallet stay in the table.
Upsert(c) ==
    /\ fpc[c] = "upsert"
    /\ \E m \in left[c] :
        /\ known' = known \cup {m}
        /\ baseline' = IF existing[c] = {} THEN baseline \cup {m} ELSE baseline
        /\ IF left[c] = {m}
           THEN /\ left' = [left EXCEPT ![c] = NewMints(c)]
                /\ listed' = [listed EXCEPT ![c] = {}]
                /\ existing' = [existing EXCEPT ![c] = {}]
                /\ fpc' = [fpc EXCEPT ![c] = IF direct THEN "inbound"
                                             ELSE IF NewMints(c) = {} THEN "end" ELSE "next"]
           ELSE /\ left' = [left EXCEPT ![c] = @ \ {m}]
                /\ UNCHANGED <<fpc, listed, existing>>
    /\ UNCHANGED <<followers, events, told, aired, inbound, mint, tx, mishaps>>
    /\ Around

Newest(m) == <<m, receipts[m]>>

Arrived(m) == m \in Transferable /\ receipts[m] > 0

\* recentInbound, the newest transfer of each token among the Window newest of
\* all, a purchase too.  A provider that fails names none, and the cycle does not
\* turn to the verifier then.
Inbound(c) ==
    /\ fpc[c] = "inbound"
    /\ fpc' = [fpc EXCEPT ![c] = IF left[c] = {} THEN "end" ELSE "next"]
    /\ \/ /\ inbound' = [inbound EXCEPT ![c] = 
                        {Newest(m) : m \in {x \in Mints : receipts[x] > 0} \ Buried}]
          /\ UNCHANGED mishaps
       \/ /\ inbound' = [inbound EXCEPT ![c] = {}]
          /\ Mishap
    /\ UNCHANGED <<founderRows, listed, existing, left, mint, tx, baseline>>
    /\ Around

\* The cycle goes on to the next new mint, or ends.
NextMint(c, rest) ==
    /\ left' = [left EXCEPT ![c] = rest]
    /\ mint' = [mint EXCEPT ![c] = NoMint]
    /\ tx' = [tx EXCEPT ![c] = 0]
    /\ fpc' = [fpc EXCEPT ![c] = IF rest = {} THEN "end" ELSE "next"]

\* With transfers named by the provider there is nothing to wait for.
TakeMint(c) ==
    /\ fpc[c] = "next"
    /\ \E m \in left[c] :
        IF ~direct
        THEN /\ mint' = [mint EXCEPT ![c] = m]
             /\ fpc' = [fpc EXCEPT ![c] = "verify"]
             /\ UNCHANGED <<left, tx>>
        ELSE IF \E n \in 1..MaxReceipts : <<m, n>> \in inbound[c]
        THEN /\ mint' = [mint EXCEPT ![c] = m]
             /\ tx' = [tx EXCEPT ![c] = CHOOSE n \in 1..MaxReceipts : <<m, n>> \in inbound[c]]
             /\ fpc' = [fpc EXCEPT ![c] = "record"]
             /\ UNCHANGED left
        ELSE NextMint(c, left[c] \ {m})
    /\ UNCHANGED <<founderRows, listed, existing, inbound, baseline, mishaps>>
    /\ Around

\* verifyReceived: GMGN lists the wallet among the holders that were sent the
\* mint.  A failing call and a mint that was sold or bought verify alike: not;
\* and so does one of more holders than are asked for, or of a row that has no
\* flag or transaction yet.
Verify(c) ==
    /\ fpc[c] = "verify"
    /\ \/ /\ Arrived(mint[c]) /\ mint[c] \in holds
          /\ tx' = [tx EXCEPT ![c] = receipts[mint[c]]]
          /\ fpc' = [fpc EXCEPT ![c] = "record"]
          /\ UNCHANGED <<left, mint, obscured, mishaps>>
       \/ /\ ~(Arrived(mint[c]) /\ mint[c] \in holds)
          /\ NextMint(c, left[c] \ {mint[c]})
          /\ UNCHANGED <<obscured, mishaps>>
       \/ /\ obscured' = obscured \cup {mint[c]}
          /\ NextMint(c, left[c] \ {mint[c]})
          /\ UNCHANGED mishaps
       \/ NextMint(c, left[c] \ {mint[c]}) /\ Mishap /\ UNCHANGED obscured
    /\ UNCHANGED <<walletVars, founderRows, listed, existing, inbound, baseline>>

Event(c) == <<mint[c], tx[c]>>

\* Mutant: a recorded transfer is reported again.
IsNewAlways(e) == e \in Transfers

IsNew(e) == e \notin events

RecordEvent(c) ==
    /\ fpc[c] = "record"
    /\ events' = events \cup {Event(c)}
    /\ IF IsNew(Event(c))
       THEN fpc' = [fpc EXCEPT ![c] = "broadcast"] /\ UNCHANGED <<left, mint, tx>>
       ELSE NextMint(c, left[c] \ {mint[c]})
    /\ UNCHANGED <<followers, known, told, aired, listed, existing, inbound, baseline, mishaps>>
    /\ Around

Announce(us, e) ==
    told' = [x \in DOMAIN told |-> told[x] + IF x[1] \in us /\ x[2] = e THEN 1 ELSE 0]

\* followerChatIds, then one message each; a message that fails is dropped.
Broadcast(c) ==
    /\ fpc[c] = "broadcast"
    /\ \/ Announce(followers, Event(c)) /\ UNCHANGED mishaps
       \/ \E us \in SUBSET followers : Announce(us, Event(c)) /\ Mishap
    /\ aired' = aired \cup {Event(c)}
    /\ NextMint(c, left[c] \ {mint[c]})
    /\ UNCHANGED <<followers, known, events, listed, existing, inbound, baseline>>
    /\ Around

\* The report is returned and the cycle forgets what it held.
EndCycle(c) ==
    /\ Step(c, "end", "idle")
    /\ listed' = [listed EXCEPT ![c] = {}]
    /\ existing' = [existing EXCEPT ![c] = {}]
    /\ left' = [left EXCEPT ![c] = {}]
    /\ inbound' = [inbound EXCEPT ![c] = {}]
    /\ mint' = [mint EXCEPT ![c] = NoMint]
    /\ tx' = [tx EXCEPT ![c] = 0]
    /\ UNCHANGED <<founderRows, baseline, mishaps>>
    /\ Around

---------------------------------------------------------------------------
(* What may go wrong *)

\* The database throws while the snapshot is read or written: the cycle of
\* this wallet ends, with the row written or not.
SnapshotThrows(c) ==
    /\ Mishap
    /\ fpc[c] \in {"read", "upsert"}
    /\ fpc' = [fpc EXCEPT ![c] = "end"]
    /\ \/ UNCHANGED <<known, baseline>>
       \/ \E m \in left[c] :
            /\ fpc[c] = "upsert"
            /\ known' = known \cup {m}
            /\ baseline' = IF existing[c] = {} THEN baseline \cup {m} ELSE baseline
    /\ UNCHANGED <<followers, events, told, aired, listed, existing, left, inbound, mint, tx>>
    /\ Around

\* It throws for one mint, whose event is written or not; the cycle goes on.
MintThrows(c) ==
    /\ Mishap
    /\ fpc[c] \in {"record", "broadcast"}
    /\ events' \in {events, events \cup {Event(c)}}
    /\ NextMint(c, left[c] \ {mint[c]})
    /\ UNCHANGED <<followers, known, told, aired, listed, existing, inbound, baseline>>
    /\ Around

\* The host stops the process; the tables stay.
Crash ==
    /\ Mishap
    /\ \E c \in Slots : fpc[c] # "idle"
    /\ fpc' = [c \in Slots |-> "idle"]
    /\ listed' = [c \in Slots |-> {}]
    /\ existing' = [c \in Slots |-> {}]
    /\ left' = [c \in Slots |-> {}]
    /\ inbound' = [c \in Slots |-> {}]
    /\ mint' = [c \in Slots |-> NoMint]
    /\ tx' = [c \in Slots |-> 0]
    /\ UNCHANGED <<walletVars, obscured, founderRows, baseline>>

FounderStep(c) ==
    \/ List(c) \/ ReadKnown(c) \/ Upsert(c) \/ Inbound(c) \/ TakeMint(c) \/ Verify(c)
    \/ RecordEvent(c) \/ Broadcast(c)

FounderWorld ==
    \/ \E m \in Mints : Receive(m) \/ Sell(m)
    \/ \E u \in Fans : Follow(u) \/ Unfollow(u)

FounderNext ==
    \/ FounderWorld
    \/ \E c \in Slots : BeginFounder(c) \/ FounderStep(c) \/ SnapshotThrows(c) \/ MintThrows(c)
    \/ \E c \in Slots : EndCycle(c)
    \/ Crash

FounderSpec == FounderInit /\ [][FounderNext]_founderVars

---------------------------------------------------------------------------
(* Properties *)

\* A transfer is broadcast at most once to a user, although overlapping cycles
\* both find its mint new and a crash may come at any await.
OncePerTransfer == \A x \in DOMAIN told : told[x] <= 1

\* Where a cycle still has a new mint before it.
InHand(m) ==
    \E c \in Slots :
        \/ fpc[c] = "upsert" /\ existing[c] # {} /\ m \in listed[c] \ existing[c]
        \/ fpc[c] \in {"inbound", "next", "verify", "record", "broadcast"} /\ m \in left[c]

\* A token that came in by transfer, stayed, and is in the snapshot is broadcast
\* or some cycle is about to.  Only three things lose it: a failure, a first run
\* that takes up what is there, and a look-up that does not reach it, since as
\* many transfers as the provider names came after it, or GMGN's list of holders
\* did not show it.  It is in the snapshot then, and no later cycle looks again.
NoneForgotten ==
    mishaps = 0 =>
        \A m \in (known \cap Transferable) \ (sold \cup baseline \cup obscured) :
            (\E n \in 1..MaxReceipts : <<m, n>> \in aired) \/ InHand(m)

=============================================================================
